---------------------------- MODULE ProcessProofs ----------------------------
(* The safety of exec, wait and exit, for any number of processes.          *)
EXTENDS Process, TLAPS

(* A tid that allocate_tid has not given out is nobody's: it has no thread, *)
(* no record, no children, no parent and is nobody's parent.                *)
NewTidsUnused ==
    /\ \A c \in Tids : c >= next_tid =>
          /\ pc[c] = NONE /\ memory[c] = NONE /\ parent[c] = NO_PARENT
          /\ child_list[c] = {} /\ answers[c] = 0
    /\ \A c \in Tids : parent[c] < next_tid

(* The list of all threads names those that exist.                          *)
ListNamesLiving == \A t \in Tids : t \in all_list <=> pc[t] \notin {NONE, "dead"}

(* The child that a thread executes or waits for is on its child list; past *)
(* remove_child_processes_all the list is empty.                            *)
ChildrenInReach ==
    \A t \in Tids :
        /\ pc[t] \in {"exec", "wait"} => arg[t] \in child_list[t]
        /\ pc[t] \in {"check_again", "set_exit", "leave", "dead"} => child_list[t] = {}

(* A thread calls exit once, and only a thread on its way out has.          *)
SaidOnce ==
    \A t \in Tids :
        /\ pc[t] \in {NONE, "task", "start", "user", "exec", "wait"} => said[t] = {}
        /\ \A a, b \in said[t] : a = b

statusTold(c) == \A code \in said[c] : record[c].status = Byte(code)

(* A thread sets exit in its last call, whoever may still ask has been told *)
(* by then, and the status is there before exit is.                         *)
ToldInOrder ==
    \A c \in Tids :
        /\ record[c].exit => pc[c] \in {"leave", "dead"}
        /\ pc[c] \in {"leave", "dead"} /\ parent[c] \in all_list => record[c].exit
        /\ \/ record[c].exit
           \/ pc[c] = "set_exit"
           \/ pc[c] \in {"free_children", "check_again"} /\ parent[c] \in all_list
           => statusTold(c)

(* The status of a child is handed out once, to its parent, which frees the *)
(* record.                                                                  *)
AnsweredOnce ==
    /\ \A c \in Tids :
         /\ answers[c] <= 1
         /\ memory[c] = "allocated" => answers[c] = 0
         /\ answers[c] = 1 => pc[c] \in {"leave", "dead"}
    /\ \A t, c \in Tids :
         result[t].of = c =>
            /\ parent[c] = t
            /\ answers[c] = 1 => \A code \in said[c] : result[t].value = Byte(code)

ProcInv ==
    /\ TypeOK /\ RecordsOwned /\ NewTidsUnused /\ ListNamesLiving /\ ChildrenInReach
    /\ SaidOnce /\ ToldInOrder /\ AnsweredOnce
-----------------------------------------------------------------------------
(* One lemma per action, and in it one step per part of the invariant.      *)
USE MaxTidAssumption, GarbageAssumption, ExitCodesAssumption
    DEF Tids, Main, NO_PARENT, ERROR, NONE, Goes, histVars

(* A thread gets a child and starts to wait for its load or for its end     *)
(* (exec and run_task).                                                     *)
LEMMA CreationKeeps ==
    ASSUME ProcInv, NEW t \in Tids, NEW c \in Tids, NEW p \in {"exec", "wait"},
           pc[t] \in {"task", "user"}, creates(t, c),
           pc' = [pc EXCEPT ![t] = p, ![c] = "start"],
           arg' = [arg EXCEPT ![t] = c],
           UNCHANGED <<result, panicked, misuses, histVars>>
    PROVE  ProcInv'
<1>0. /\ c # t /\ c = next_tid /\ t < next_tid /\ pc[c] = NONE /\ answers[c] = 0 /\ said[c] = {}
      /\ pc'[t] \in {"exec", "wait"} /\ pc'[c] = "start"
      /\ \A x \in Tids \ {t, c} : pc'[x] = pc[x]
  BY DEF ProcInv, TypeOK, NewTidsUnused, SaidOnce, creates
<1>1. TypeOK'
  <2>1. ASSUME NEW junk \in Garbage
        PROVE  [load |-> "LOADED_DEFAULT", wait |-> FALSE, exit |-> FALSE, status |-> junk]
                  \in Records
    BY DEF Records, Loads
  <2>2. record' \in [Tids -> Records]
    BY <2>1 DEF ProcInv, TypeOK, creates
  <2>3. pc' \in [Tids -> PCs]
    <3>1. p \in PCs /\ "start" \in PCs /\ pc \in [Tids -> PCs]
      BY DEF ProcInv, TypeOK, PCs
    <3>2. QED BY <3>1
  <2>4. QED BY <2>2, <2>3, SMTT(30) DEF ProcInv, TypeOK, creates
<1>2. RecordsOwned'
  BY DEF ProcInv, TypeOK, RecordsOwned, NewTidsUnused, ChildrenInReach, creates
<1>3. NewTidsUnused'
  <2>1. \A x \in Tids : x >= next_tid' => x >= next_tid /\ x # c /\ x # t
    BY DEF ProcInv, TypeOK, Records, NewTidsUnused, creates
  <2>2. \A x \in Tids : x >= next_tid' =>
           /\ pc'[x] = NONE /\ memory'[x] = NONE /\ parent'[x] = NO_PARENT
           /\ child_list'[x] = {} /\ answers'[x] = 0
    BY <2>1 DEF ProcInv, TypeOK, Records, NewTidsUnused, creates
  <2>3. \A x \in Tids : parent'[x] < next_tid'
    <3>1. next_tid \in Int /\ next_tid' = next_tid + 1
      BY DEF ProcInv, TypeOK, creates
    <3>2. \A x \in Tids : parent[x] \in Int /\ parent[x] < next_tid
      BY DEF ProcInv, TypeOK, NewTidsUnused
    <3>3. parent \in [Tids -> Tids \cup {NO_PARENT}] /\ parent' = [parent EXCEPT ![c] = t]
      BY DEF ProcInv, TypeOK, creates
    <3>4. ASSUME NEW x \in Tids PROVE parent'[x] = t \/ parent'[x] = parent[x]
      BY <3>3
    <3>5. QED BY <1>0, <3>1, <3>2, <3>4
  <2>4. QED BY <2>2, <2>3 DEF NewTidsUnused
<1>4. ListNamesLiving'
  BY DEF ProcInv, TypeOK, Records, ListNamesLiving, NewTidsUnused, creates
<1>5. ChildrenInReach'
  BY DEF ProcInv, TypeOK, Records, ChildrenInReach, RecordsOwned, NewTidsUnused, creates
<1>6. SaidOnce'
  BY <1>0 DEF ProcInv, TypeOK, SaidOnce, creates, histVars
<1>7. ToldInOrder'
  <2>1. \A x \in Tids \ {c} : parent'[x] = parent[x] /\ record'[x] = record[x] /\ said'[x] = said[x]
    BY DEF ProcInv, TypeOK, creates
  <2>2. \A x \in Tids : parent[x] # c /\ (parent[x] \in all_list' => parent[x] \in all_list)
    BY <1>0 DEF ProcInv, TypeOK, NewTidsUnused, creates
  <2>3. ~record'[c].exit
    BY DEF ProcInv, TypeOK, creates
  <2>4. ~record[t].exit
    <3>1. pc[t] \notin {"leave", "dead"}
      OBVIOUS
    <3>2. QED BY <3>1 DEF ProcInv, ToldInOrder
  <2> SUFFICES ASSUME NEW x \in Tids
               PROVE  /\ record'[x].exit => pc'[x] \in {"leave", "dead"}
                      /\ pc'[x] \in {"leave", "dead"} /\ parent'[x] \in all_list' => record'[x].exit
                      /\ \/ record'[x].exit
                         \/ pc'[x] = "set_exit"
                         \/ pc'[x] \in {"free_children", "check_again"} /\ parent'[x] \in all_list'
                         => statusTold(x)'
    BY DEF ToldInOrder
  <2>5. CASE x = c
    BY <1>0, <2>3, <2>5
  <2>6. CASE x = t
    BY <1>0, <2>1, <2>4, <2>6
  <2>7. CASE x \notin {t, c}
    <3>1. /\ pc'[x] = pc[x] /\ parent'[x] = parent[x]
          /\ record'[x] = record[x] /\ said'[x] = said[x]
          /\ parent[x] \in all_list' => parent[x] \in all_list
      BY <1>0, <2>1, <2>2, <2>7, ZenonT(30)
    <3>2. /\ record[x].exit => pc[x] \in {"leave", "dead"}
          /\ pc[x] \in {"leave", "dead"} /\ parent[x] \in all_list => record[x].exit
          /\ \/ record[x].exit
             \/ pc[x] = "set_exit"
             \/ pc[x] \in {"free_children", "check_again"} /\ parent[x] \in all_list
             => statusTold(x)
      BY DEF ProcInv, ToldInOrder
    <3>3. statusTold(x) => statusTold(x)'
      BY <3>1 DEF statusTold
    <3>4. QED BY <3>1, <3>2, <3>3
  <2>8. QED BY <2>5, <2>6, <2>7
<1>8. AnsweredOnce'
  <2>1. \A x \in Tids : answers'[x] <= 1 /\ (memory'[x] = "allocated" => answers'[x] = 0)
    BY DEF ProcInv, TypeOK, Records, AnsweredOnce, NewTidsUnused, creates
  <2>2. \A x \in Tids : answers'[x] = 1 => pc'[x] \in {"leave", "dead"}
    BY <1>0, SMTT(30) DEF ProcInv, TypeOK, AnsweredOnce, creates
  <2>3. ASSUME NEW s \in Tids, NEW x \in Tids, result'[s].of = x
        PROVE  parent'[x] = s /\ (answers'[x] = 1 => \A e \in said'[x] : result'[s].value = Byte(e))
    BY <2>3 DEF ProcInv, TypeOK, Records, AnsweredOnce, NewTidsUnused, ChildrenInReach,
           RecordsOwned, creates
  <2>4. QED BY <2>1, <2>2, <2>3 DEF AnsweredOnce
<1>9. QED BY <1>1, <1>2, <1>3, <1>4, <1>5, <1>6, <1>7, <1>8 DEF ProcInv

(* exit: the thread says its code, and only it does.                        *)
LEMMA ExitKeeps ==
    ASSUME ProcInv, NEW t \in Tids, NEW code \in ExitCodes, exit(t, code)
    PROVE  ProcInv'
<1>1. TypeOK'
  BY SMTT(30) DEF ProcInv, TypeOK, ChildrenInReach, PCs, exit
<1>2. RecordsOwned'
  BY DEF ProcInv, TypeOK, RecordsOwned, NewTidsUnused, ChildrenInReach, exit
<1>3. NewTidsUnused'
  BY DEF ProcInv, TypeOK, Records, NewTidsUnused, ChildrenInReach, RecordsOwned, exit
<1>4. ListNamesLiving'
  BY DEF ProcInv, TypeOK, Records, ListNamesLiving, NewTidsUnused, exit
<1>5. ChildrenInReach'
  BY DEF ProcInv, TypeOK, Records, ChildrenInReach, RecordsOwned, NewTidsUnused, exit
<1>6. SaidOnce'
  BY DEF ProcInv, TypeOK, Records, SaidOnce, NewTidsUnused, exit
<1>7. ToldInOrder'
  BY DEF ProcInv, TypeOK, Records, ToldInOrder, SaidOnce, NewTidsUnused, ListNamesLiving,
         statusTold, is_alive, exit
<1>8. AnsweredOnce'
  <2>1. \A x \in Tids : answers'[x] <= 1 /\ (memory'[x] = "allocated" => answers'[x] = 0)
    BY DEF ProcInv, TypeOK, Records, AnsweredOnce, NewTidsUnused, exit
  <2>2. \A x \in Tids : answers'[x] = 1 => pc'[x] \in {"leave", "dead"}
    BY DEF ProcInv, TypeOK, Records, AnsweredOnce, NewTidsUnused, exit
  <2>3. ASSUME NEW s \in Tids, NEW x \in Tids, result'[s].of = x
        PROVE  parent'[x] = s /\ (answers'[x] = 1 => \A e \in said'[x] : result'[s].value = Byte(e))
    <3>1. /\ parent[x] = s
          /\ answers[x] = 1 => \A e \in said[x] : result[s].value = Byte(e)
      BY <2>3 DEF ProcInv, AnsweredOnce, exit
    <3>2. answers[x] = 1 => x # t
      BY DEF ProcInv, AnsweredOnce, exit
    <3>3. QED BY <3>1, <3>2 DEF ProcInv, TypeOK, exit
  <2>4. QED BY <2>1, <2>2, <2>3 DEF AnsweredOnce
<1>9. QED BY <1>1, <1>2, <1>3, <1>4, <1>5, <1>6, <1>7, <1>8 DEF ProcInv

(* A wait that is refused changes nothing but the answer.                   *)
LEMMA RefusedKeeps ==
    ASSUME ProcInv, NEW t \in Tids, NEW c \in Tids, wait_refused(t, c)
    PROVE  ProcInv'
<1>1. TypeOK'
  BY SMTT(30) DEF ProcInv, TypeOK, ChildrenInReach, PCs, wait_refused
<1>2. RecordsOwned'
  BY DEF ProcInv, TypeOK, RecordsOwned, NewTidsUnused, ChildrenInReach, wait_refused
<1>3. NewTidsUnused'
  BY DEF ProcInv, TypeOK, Records, NewTidsUnused, ChildrenInReach, RecordsOwned, wait_refused
<1>4. ListNamesLiving'
  BY DEF ProcInv, TypeOK, Records, ListNamesLiving, NewTidsUnused, wait_refused
<1>5. ChildrenInReach'
  BY DEF ProcInv, TypeOK, Records, ChildrenInReach, RecordsOwned, NewTidsUnused, wait_refused
<1>6. SaidOnce'
  BY DEF ProcInv, TypeOK, Records, SaidOnce, NewTidsUnused, wait_refused
<1>7. ToldInOrder'
  BY DEF ProcInv, TypeOK, Records, ToldInOrder, SaidOnce, NewTidsUnused, ListNamesLiving,
         statusTold, is_alive, wait_refused
<1>8. AnsweredOnce'
  BY DEF ProcInv, TypeOK, Records, RecordsOwned, NewTidsUnused, ChildrenInReach, SaidOnce,
         ToldInOrder, AnsweredOnce, statusTold, wait_refused
<1>9. QED BY <1>1, <1>2, <1>3, <1>4, <1>5, <1>6, <1>7, <1>8 DEF ProcInv

(* The ASSERT in exec stops the kernel as it is.                            *)
LEMMA OutOfMemoryKeeps ==
    ASSUME ProcInv, NEW t \in Tids, exec_out_of_memory(t)
    PROVE  ProcInv'
<1>1. TypeOK'
  BY DEF ProcInv, TypeOK, ChildrenInReach, PCs, exec_out_of_memory
<1>2. RecordsOwned'
  BY DEF ProcInv, TypeOK, RecordsOwned, NewTidsUnused, ChildrenInReach, exec_out_of_memory
<1>3. NewTidsUnused'
  BY DEF ProcInv, TypeOK, Records, NewTidsUnused, ChildrenInReach, RecordsOwned,
         exec_out_of_memory
<1>4. ListNamesLiving'
  BY DEF ProcInv, TypeOK, Records, ListNamesLiving, NewTidsUnused, exec_out_of_memory
<1>5. ChildrenInReach'
  BY DEF ProcInv, TypeOK, Records, ChildrenInReach, RecordsOwned, NewTidsUnused,
         exec_out_of_memory
<1>6. SaidOnce'
  BY DEF ProcInv, TypeOK, Records, SaidOnce, NewTidsUnused, exec_out_of_memory
<1>7. ToldInOrder'
  BY DEF ProcInv, TypeOK, Records, ToldInOrder, SaidOnce, NewTidsUnused, ListNamesLiving,
         statusTold, is_alive, exec_out_of_memory
<1>8. AnsweredOnce'
  BY DEF ProcInv, TypeOK, Records, RecordsOwned, NewTidsUnused, ChildrenInReach, SaidOnce,
         ToldInOrder, AnsweredOnce, statusTold, exec_out_of_memory
<1>9. QED BY <1>1, <1>2, <1>3, <1>4, <1>5, <1>6, <1>7, <1>8 DEF ProcInv

(* A wait marks the record and goes for the child that it found.            *)
LEMMA WaitKeeps ==
    ASSUME ProcInv, NEW t \in Tids, NEW c \in Tids, wait(t, c)
    PROVE  ProcInv'
<1>1. TypeOK'
  <2>1. record[c] \in Records
    BY DEF ProcInv, TypeOK
  <2>2. [record[c] EXCEPT !.wait = TRUE] \in Records
    BY <2>1 DEF Records
  <2>3. record' \in [Tids -> Records]
    BY <2>2 DEF ProcInv, TypeOK, wait
  <2>4. pc' \in [Tids -> PCs]
    BY DEF ProcInv, TypeOK, PCs, wait
  <2>5. misuses' \subseteq Tids
    BY DEF ProcInv, TypeOK, wait
  <2>6. QED BY <2>3, <2>4, <2>5 DEF ProcInv, TypeOK, wait
<1>2. RecordsOwned'
  BY DEF ProcInv, TypeOK, RecordsOwned, NewTidsUnused, ChildrenInReach, wait
<1>3. NewTidsUnused'
  BY DEF ProcInv, TypeOK, Records, NewTidsUnused, ChildrenInReach, RecordsOwned, wait
<1>4. ListNamesLiving'
  BY DEF ProcInv, TypeOK, Records, ListNamesLiving, NewTidsUnused, wait
<1>5. ChildrenInReach'
  BY DEF ProcInv, TypeOK, Records, ChildrenInReach, RecordsOwned, NewTidsUnused, wait
<1>6. SaidOnce'
  BY DEF ProcInv, TypeOK, Records, SaidOnce, NewTidsUnused, wait
<1>7. ToldInOrder'
  BY DEF ProcInv, TypeOK, Records, ToldInOrder, SaidOnce, NewTidsUnused, ListNamesLiving,
         statusTold, is_alive, wait
<1>8. AnsweredOnce'
  BY DEF ProcInv, TypeOK, Records, RecordsOwned, NewTidsUnused, ChildrenInReach, SaidOnce,
         ToldInOrder, AnsweredOnce, statusTold, wait
<1>9. QED BY <1>1, <1>2, <1>3, <1>4, <1>5, <1>6, <1>7, <1>8 DEF ProcInv

(* start_process writes the child's own record, which nobody was told of.   *)
LEMMA StartProcessKeeps ==
    ASSUME ProcInv, NEW t \in Tids, start_process(t)
    PROVE  ProcInv'
<1>1. TypeOK'
  <2>1. record[t] \in Records
    BY DEF ProcInv, TypeOK
  <2>2. ASSUME NEW load \in Loads
        PROVE  [record[t] EXCEPT !.load = load] \in Records
    BY <2>1, <2>2 DEF Records
  <2>3. record' \in [Tids -> Records]
    BY <2>2 DEF ProcInv, TypeOK, start_process, writesRecord
  <2>4. pc' \in [Tids -> PCs]
    BY DEF ProcInv, TypeOK, PCs, start_process, writesRecord
  <2>5. misuses' \subseteq Tids
    BY DEF ProcInv, TypeOK, start_process, writesRecord
  <2>6. QED BY <2>3, <2>4, <2>5 DEF ProcInv, TypeOK, start_process, writesRecord
<1>2. RecordsOwned'
  BY DEF ProcInv, TypeOK, RecordsOwned, NewTidsUnused, ChildrenInReach, start_process,
         writesRecord
<1>3. NewTidsUnused'
  BY DEF ProcInv, TypeOK, Records, NewTidsUnused, ChildrenInReach, RecordsOwned,
         start_process, writesRecord
<1>4. ListNamesLiving'
  BY DEF ProcInv, TypeOK, Records, ListNamesLiving, NewTidsUnused, start_process, writesRecord
<1>5. ChildrenInReach'
  BY DEF ProcInv, TypeOK, Records, ChildrenInReach, RecordsOwned, NewTidsUnused,
         start_process, writesRecord
<1>6. SaidOnce'
  BY DEF ProcInv, TypeOK, Records, SaidOnce, NewTidsUnused, start_process, writesRecord
<1>7. ToldInOrder'
  BY DEF ProcInv, TypeOK, Records, ToldInOrder, SaidOnce, NewTidsUnused, ListNamesLiving,
         statusTold, is_alive, start_process, writesRecord
<1>8. AnsweredOnce'
  BY DEF ProcInv, TypeOK, Records, RecordsOwned, NewTidsUnused, ChildrenInReach, SaidOnce,
         ToldInOrder, AnsweredOnce, statusTold, start_process, writesRecord
<1>9. QED BY <1>1, <1>2, <1>3, <1>4, <1>5, <1>6, <1>7, <1>8 DEF ProcInv

(* exec's answer is about a child whose status nobody has had.              *)
LEMMA ExecReturnsKeeps ==
    ASSUME ProcInv, NEW t \in Tids, exec_returns(t)
    PROVE  ProcInv'
<1>1. TypeOK'
  BY SMTT(30) DEF ProcInv, TypeOK, ChildrenInReach, PCs, exec_returns
<1>2. RecordsOwned'
  BY DEF ProcInv, TypeOK, RecordsOwned, NewTidsUnused, ChildrenInReach, exec_returns
<1>3. NewTidsUnused'
  BY DEF ProcInv, TypeOK, Records, NewTidsUnused, ChildrenInReach, RecordsOwned, exec_returns
<1>4. ListNamesLiving'
  BY DEF ProcInv, TypeOK, Records, ListNamesLiving, NewTidsUnused, exec_returns
<1>5. ChildrenInReach'
  BY DEF ProcInv, TypeOK, Records, ChildrenInReach, RecordsOwned, NewTidsUnused, exec_returns
<1>6. SaidOnce'
  BY DEF ProcInv, TypeOK, Records, SaidOnce, NewTidsUnused, exec_returns
<1>7. ToldInOrder'
  BY DEF ProcInv, TypeOK, Records, ToldInOrder, SaidOnce, NewTidsUnused, ListNamesLiving,
         statusTold, is_alive, exec_returns
<1>8. AnsweredOnce'
  <2>1. \A x \in Tids : answers'[x] <= 1 /\ (memory'[x] = "allocated" => answers'[x] = 0)
    BY DEF ProcInv, TypeOK, Records, AnsweredOnce, NewTidsUnused, exec_returns
  <2>2. \A x \in Tids : answers'[x] = 1 => pc'[x] \in {"leave", "dead"}
    BY DEF ProcInv, TypeOK, Records, AnsweredOnce, NewTidsUnused, exec_returns
  <2>3. ASSUME NEW s \in Tids, NEW x \in Tids, result'[s].of = x
        PROVE  parent'[x] = s /\ (answers'[x] = 1 => \A e \in said'[x] : result'[s].value = Byte(e))
    BY <2>3 DEF ProcInv, TypeOK, Records, AnsweredOnce, NewTidsUnused, ChildrenInReach,
           RecordsOwned, exec_returns
  <2>4. QED BY <2>1, <2>2, <2>3 DEF AnsweredOnce
<1>9. QED BY <1>1, <1>2, <1>3, <1>4, <1>5, <1>6, <1>7, <1>8 DEF ProcInv

(* A wait's answer is the status that the child set before exit; the record *)
(* goes with it, so that nobody gets it again.                              *)
LEMMA WaitReturnsKeeps ==
    ASSUME ProcInv, NEW t \in Tids, wait_returns(t)
    PROVE  ProcInv'
<1>1. TypeOK'
  <2>1. arg[t] \in Tids
    BY DEF ProcInv, TypeOK, ChildrenInReach, wait_returns, returnsStatus
  <2>2. record[arg[t]].status \in ERROR..255
    BY <2>1 DEF ProcInv, TypeOK, Records
  <2>3. result' \in [Tids -> [of: Tids \cup {NO_PARENT}, value: (ERROR..255) \cup Tids]]
    BY <2>1, <2>2 DEF ProcInv, TypeOK, wait_returns, returnsStatus
  <2>4. pc' \in [Tids -> PCs]
    BY DEF ProcInv, TypeOK, PCs, wait_returns, returnsStatus
  <2>5. answers' \in [Tids -> Nat]
    BY <2>1 DEF ProcInv, TypeOK, wait_returns, returnsStatus
  <2>6. child_list' \in [Tids -> SUBSET Tids] /\ memory' \in [Tids -> {NONE, "allocated", "freed"}]
    BY DEF ProcInv, TypeOK, wait_returns, returnsStatus
  <2>7. QED BY <2>3, <2>4, <2>5, <2>6 DEF ProcInv, TypeOK, wait_returns, returnsStatus
<1>2. RecordsOwned'
  BY SMTT(30) DEF ProcInv, TypeOK, RecordsOwned, NewTidsUnused, ChildrenInReach, wait_returns,
         returnsStatus
<1>3. NewTidsUnused'
  BY DEF ProcInv, TypeOK, Records, NewTidsUnused, ChildrenInReach, RecordsOwned,
         wait_returns, returnsStatus
<1>4. ListNamesLiving'
  BY DEF ProcInv, TypeOK, Records, ListNamesLiving, NewTidsUnused, wait_returns, returnsStatus
<1>5. ChildrenInReach'
  BY DEF ProcInv, TypeOK, Records, ChildrenInReach, RecordsOwned, NewTidsUnused,
         wait_returns, returnsStatus
<1>6. SaidOnce'
  BY DEF ProcInv, TypeOK, Records, SaidOnce, NewTidsUnused, wait_returns, returnsStatus
<1>7. ToldInOrder'
  BY DEF ProcInv, TypeOK, Records, ToldInOrder, SaidOnce, NewTidsUnused, ListNamesLiving,
         statusTold, is_alive, wait_returns, returnsStatus
<1>8. AnsweredOnce'
  BY SMTT(30) DEF ProcInv, TypeOK, Records, RecordsOwned, NewTidsUnused, ChildrenInReach, SaidOnce,
         ToldInOrder, AnsweredOnce, statusTold, wait_returns, returnsStatus
<1>9. QED BY <1>1, <1>2, <1>3, <1>4, <1>5, <1>6, <1>7, <1>8 DEF ProcInv

(* A thread that finds its parent dead never tells it: the parent stays     *)
(* dead.                                                                    *)
LEMMA ExitChecksParentKeeps ==
    ASSUME ProcInv, NEW t \in Tids, exit_checks_parent(t)
    PROVE  ProcInv'
<1>1. TypeOK'
  BY DEF ProcInv, TypeOK, ChildrenInReach, PCs, exit_checks_parent
<1>2. RecordsOwned'
  BY DEF ProcInv, TypeOK, RecordsOwned, NewTidsUnused, ChildrenInReach, exit_checks_parent
<1>3. NewTidsUnused'
  BY DEF ProcInv, TypeOK, Records, NewTidsUnused, ChildrenInReach, RecordsOwned,
         exit_checks_parent
<1>4. ListNamesLiving'
  BY DEF ProcInv, TypeOK, Records, ListNamesLiving, NewTidsUnused, exit_checks_parent
<1>5. ChildrenInReach'
  BY DEF ProcInv, TypeOK, Records, ChildrenInReach, RecordsOwned, NewTidsUnused,
         exit_checks_parent
<1>6. SaidOnce'
  BY DEF ProcInv, TypeOK, Records, SaidOnce, NewTidsUnused, exit_checks_parent
<1>7. ToldInOrder'
  BY DEF ProcInv, TypeOK, Records, ToldInOrder, SaidOnce, NewTidsUnused, ListNamesLiving,
         statusTold, is_alive, exit_checks_parent
<1>8. AnsweredOnce'
  <2>1. \A x \in Tids : answers'[x] <= 1 /\ (memory'[x] = "allocated" => answers'[x] = 0)
    BY DEF ProcInv, TypeOK, Records, AnsweredOnce, NewTidsUnused, exit_checks_parent
  <2>2. \A x \in Tids : answers'[x] = 1 => pc'[x] \in {"leave", "dead"}
    BY DEF ProcInv, TypeOK, Records, AnsweredOnce, NewTidsUnused, exit_checks_parent
  <2>3. ASSUME NEW s \in Tids, NEW x \in Tids, result'[s].of = x
        PROVE  parent'[x] = s /\ (answers'[x] = 1 => \A e \in said'[x] : result'[s].value = Byte(e))
    BY <2>3 DEF ProcInv, TypeOK, Records, AnsweredOnce, NewTidsUnused, ChildrenInReach,
           RecordsOwned, exit_checks_parent
  <2>4. QED BY <2>1, <2>2, <2>3 DEF AnsweredOnce
<1>9. QED BY <1>1, <1>2, <1>3, <1>4, <1>5, <1>6, <1>7, <1>8 DEF ProcInv

(* The status is that of the one code the thread said.                      *)
LEMMA ExitSetsStatusKeeps ==
    ASSUME ProcInv, NEW t \in Tids, exit_sets_status(t)
    PROVE  ProcInv'
<1>1. TypeOK'
  <2>1. record[t] \in Records
    BY DEF ProcInv, TypeOK
  <2>2. ASSUME NEW code \in said[t]
        PROVE  [record[t] EXCEPT !.status = Byte(code)] \in Records
    <3>1. Byte(code) \in 0..255
      BY DEF ProcInv, TypeOK, Byte
    <3>2. QED BY <2>1, <3>1 DEF Records
  <2>3. record' \in [Tids -> Records]
    <3>1. PICK code \in said[t] :
             record' = [record EXCEPT ![t] = [record[t] EXCEPT !.status = Byte(code)]]
      BY DEF exit_sets_status, writesRecord
    <3>2. [record[t] EXCEPT !.status = Byte(code)] \in Records
      BY <2>2
    <3>3. QED BY <3>1, <3>2 DEF ProcInv, TypeOK
  <2>4. pc' \in [Tids -> PCs]
    BY DEF ProcInv, TypeOK, PCs, exit_sets_status, writesRecord
  <2>5. misuses' \subseteq Tids
    BY DEF ProcInv, TypeOK, exit_sets_status, writesRecord
  <2>6. QED BY <2>3, <2>4, <2>5 DEF ProcInv, TypeOK, exit_sets_status, writesRecord
<1>2. RecordsOwned'
  BY DEF ProcInv, TypeOK, RecordsOwned, NewTidsUnused, ChildrenInReach, exit_sets_status,
         writesRecord
<1>3. NewTidsUnused'
  BY DEF ProcInv, TypeOK, Records, NewTidsUnused, ChildrenInReach, RecordsOwned,
         exit_sets_status, writesRecord
<1>4. ListNamesLiving'
  BY DEF ProcInv, TypeOK, Records, ListNamesLiving, NewTidsUnused, exit_sets_status,
         writesRecord
<1>5. ChildrenInReach'
  BY DEF ProcInv, TypeOK, Records, ChildrenInReach, RecordsOwned, NewTidsUnused,
         exit_sets_status, writesRecord
<1>6. SaidOnce'
  BY DEF ProcInv, TypeOK, Records, SaidOnce, NewTidsUnused, exit_sets_status, writesRecord
<1>7. ToldInOrder'
  BY DEF ProcInv, TypeOK, Records, ToldInOrder, SaidOnce, NewTidsUnused, ListNamesLiving,
         statusTold, is_alive, exit_sets_status, writesRecord
<1>8. AnsweredOnce'
  BY DEF ProcInv, TypeOK, Records, RecordsOwned, NewTidsUnused, ChildrenInReach, SaidOnce,
         ToldInOrder, AnsweredOnce, statusTold, exit_sets_status, writesRecord
<1>9. QED BY <1>1, <1>2, <1>3, <1>4, <1>5, <1>6, <1>7, <1>8 DEF ProcInv

(* The records freed are those of the thread's children, all of them.       *)
LEMMA RemoveChildProcessesAllKeeps ==
    ASSUME ProcInv, NEW t \in Tids, remove_child_processes_all(t)
    PROVE  ProcInv'
<1>1. TypeOK'
  BY DEF ProcInv, TypeOK, ChildrenInReach, PCs, remove_child_processes_all
<1>2. RecordsOwned'
  BY DEF ProcInv, TypeOK, RecordsOwned, NewTidsUnused, ChildrenInReach,
         remove_child_processes_all
<1>3. NewTidsUnused'
  BY DEF ProcInv, TypeOK, Records, NewTidsUnused, ChildrenInReach, RecordsOwned,
         remove_child_processes_all
<1>4. ListNamesLiving'
  BY DEF ProcInv, TypeOK, Records, ListNamesLiving, NewTidsUnused, remove_child_processes_all
<1>5. ChildrenInReach'
  BY DEF ProcInv, TypeOK, Records, ChildrenInReach, RecordsOwned, NewTidsUnused,
         remove_child_processes_all
<1>6. SaidOnce'
  BY DEF ProcInv, TypeOK, Records, SaidOnce, NewTidsUnused, remove_child_processes_all
<1>7. ToldInOrder'
  <2> SUFFICES ASSUME NEW c \in Tids
               PROVE  /\ record'[c].exit => pc'[c] \in {"leave", "dead"}
                      /\ pc'[c] \in {"leave", "dead"} /\ parent'[c] \in all_list' => record'[c].exit
                      /\ \/ record'[c].exit
                         \/ pc'[c] = "set_exit"
                         \/ pc'[c] \in {"free_children", "check_again"} /\ parent'[c] \in all_list'
                         => statusTold(c)'
    BY DEF ToldInOrder
  <2>1. CASE c = t
    BY <2>1, ZenonT(30)
       DEF ProcInv, TypeOK, Records, ToldInOrder, statusTold, remove_child_processes_all
  <2>2. CASE c # t
    BY <2>2, SMTT(30)
       DEF ProcInv, TypeOK, Records, ToldInOrder, statusTold, remove_child_processes_all
  <2>3. QED BY <2>1, <2>2
<1>8. AnsweredOnce'
  BY DEF ProcInv, TypeOK, Records, RecordsOwned, NewTidsUnused, ChildrenInReach, SaidOnce,
         ToldInOrder, AnsweredOnce, statusTold, remove_child_processes_all
<1>9. QED BY <1>1, <1>2, <1>3, <1>4, <1>5, <1>6, <1>7, <1>8 DEF ProcInv

(* A thread that leaves without telling has a dead parent.                  *)
LEMMA ProcessExitChecksParentKeeps ==
    ASSUME ProcInv, NEW t \in Tids, process_exit_checks_parent(t)
    PROVE  ProcInv'
<1>1. TypeOK'
  BY DEF ProcInv, TypeOK, ChildrenInReach, PCs, process_exit_checks_parent
<1>2. RecordsOwned'
  BY DEF ProcInv, TypeOK, RecordsOwned, NewTidsUnused, ChildrenInReach,
         process_exit_checks_parent
<1>3. NewTidsUnused'
  BY DEF ProcInv, TypeOK, Records, NewTidsUnused, ChildrenInReach, RecordsOwned,
         process_exit_checks_parent
<1>4. ListNamesLiving'
  BY DEF ProcInv, TypeOK, Records, ListNamesLiving, NewTidsUnused, process_exit_checks_parent
<1>5. ChildrenInReach'
  BY DEF ProcInv, TypeOK, Records, ChildrenInReach, RecordsOwned, NewTidsUnused,
         process_exit_checks_parent
<1>6. SaidOnce'
  BY DEF ProcInv, TypeOK, Records, SaidOnce, NewTidsUnused, process_exit_checks_parent
<1>7. ToldInOrder'
  BY DEF ProcInv, TypeOK, Records, ToldInOrder, SaidOnce, NewTidsUnused, ListNamesLiving,
         statusTold, is_alive, process_exit_checks_parent
<1>8. AnsweredOnce'
  BY DEF ProcInv, TypeOK, Records, RecordsOwned, NewTidsUnused, ChildrenInReach, SaidOnce,
         ToldInOrder, AnsweredOnce, statusTold, process_exit_checks_parent
<1>9. QED BY <1>1, <1>2, <1>3, <1>4, <1>5, <1>6, <1>7, <1>8 DEF ProcInv

(* A thread that sets exit has left the status before.                      *)
LEMMA ProcessExitSetsExitKeeps ==
    ASSUME ProcInv, NEW t \in Tids, process_exit_sets_exit(t)
    PROVE  ProcInv'
<1>1. TypeOK'
  <2>1. record[t] \in Records
    BY DEF ProcInv, TypeOK
  <2>2. [record[t] EXCEPT !.exit = TRUE] \in Records
    BY <2>1 DEF Records
  <2>3. record' \in [Tids -> Records]
    BY <2>2 DEF ProcInv, TypeOK, process_exit_sets_exit, writesRecord
  <2>4. pc' \in [Tids -> PCs]
    BY DEF ProcInv, TypeOK, PCs, process_exit_sets_exit, writesRecord
  <2>5. misuses' \subseteq Tids
    BY DEF ProcInv, TypeOK, process_exit_sets_exit, writesRecord
  <2>6. QED BY <2>3, <2>4, <2>5 DEF ProcInv, TypeOK, process_exit_sets_exit, writesRecord
<1>2. RecordsOwned'
  BY DEF ProcInv, TypeOK, RecordsOwned, NewTidsUnused, ChildrenInReach,
         process_exit_sets_exit, writesRecord
<1>3. NewTidsUnused'
  BY DEF ProcInv, TypeOK, Records, NewTidsUnused, ChildrenInReach, RecordsOwned,
         process_exit_sets_exit, writesRecord
<1>4. ListNamesLiving'
  BY DEF ProcInv, TypeOK, Records, ListNamesLiving, NewTidsUnused, process_exit_sets_exit,
         writesRecord
<1>5. ChildrenInReach'
  BY DEF ProcInv, TypeOK, Records, ChildrenInReach, RecordsOwned, NewTidsUnused,
         process_exit_sets_exit, writesRecord
<1>6. SaidOnce'
  BY DEF ProcInv, TypeOK, Records, SaidOnce, NewTidsUnused, process_exit_sets_exit, writesRecord
<1>7. ToldInOrder'
  BY DEF ProcInv, TypeOK, Records, ToldInOrder, SaidOnce, NewTidsUnused, ListNamesLiving,
         statusTold, is_alive, process_exit_sets_exit, writesRecord
<1>8. AnsweredOnce'
  BY DEF ProcInv, TypeOK, Records, RecordsOwned, NewTidsUnused, ChildrenInReach, SaidOnce,
         ToldInOrder, AnsweredOnce, statusTold, process_exit_sets_exit, writesRecord
<1>9. QED BY <1>1, <1>2, <1>3, <1>4, <1>5, <1>6, <1>7, <1>8 DEF ProcInv

(* A thread that is gone has no children left, and is nobody's living       *)
(* parent.                                                                  *)
LEMMA ThreadExitKeeps ==
    ASSUME ProcInv, NEW t \in Tids, thread_exit(t)
    PROVE  ProcInv'
<1>1. TypeOK'
  BY DEF ProcInv, TypeOK, ChildrenInReach, PCs, thread_exit
<1>2. RecordsOwned'
  BY DEF ProcInv, TypeOK, RecordsOwned, NewTidsUnused, ChildrenInReach, thread_exit
<1>3. NewTidsUnused'
  BY DEF ProcInv, TypeOK, Records, NewTidsUnused, ChildrenInReach, RecordsOwned, thread_exit
<1>4. ListNamesLiving'
  BY DEF ProcInv, TypeOK, Records, ListNamesLiving, NewTidsUnused, thread_exit
<1>5. ChildrenInReach'
  BY DEF ProcInv, TypeOK, Records, ChildrenInReach, RecordsOwned, NewTidsUnused, thread_exit
<1>6. SaidOnce'
  BY DEF ProcInv, TypeOK, Records, SaidOnce, NewTidsUnused, thread_exit
<1>7. ToldInOrder'
  BY DEF ProcInv, TypeOK, Records, ToldInOrder, SaidOnce, NewTidsUnused, ListNamesLiving,
         statusTold, is_alive, thread_exit
<1>8. AnsweredOnce'
  BY DEF ProcInv, TypeOK, Records, RecordsOwned, NewTidsUnused, ChildrenInReach, SaidOnce,
         ToldInOrder, AnsweredOnce, statusTold, thread_exit
<1>9. QED BY <1>1, <1>2, <1>3, <1>4, <1>5, <1>6, <1>7, <1>8 DEF ProcInv
-----------------------------------------------------------------------------
(* The invariant holds when only main() runs ...                            *)
LEMMA InitProcInv == Init => ProcInv
<1> SUFFICES ASSUME Init PROVE ProcInv
  OBVIOUS
<1>1. TypeOK
  <2>1. [load |-> "LOADED_DEFAULT", wait |-> FALSE, exit |-> FALSE, status |-> 0] \in Records
    BY DEF Records, Loads
  <2>2. record \in [Tids -> Records]
    BY <2>1 DEF Init
  <2>3. pc \in [Tids -> PCs] /\ next_tid \in 2..(MaxTid + 1)
    BY DEF Init, PCs
  <2>4. result \in [Tids -> [of: Tids \cup {NO_PARENT}, value: (ERROR..255) \cup Tids]]
    <3> DEFINE answer == [of |-> NO_PARENT, value |-> 0]
               Results == [of: Tids \cup {NO_PARENT}, value: (ERROR..255) \cup Tids]
    <3>1. answer \in Results
      <4>1. 0 \in (ERROR..255) \cup Tids
        OBVIOUS
      <4>2. QED BY <4>1
    <3>2. result = [u \in Tids |-> answer]
      BY DEF Init
    <3>3. result \in [Tids -> Results]
      <4> HIDE DEF answer, Results
      <4>1. QED BY <3>1, <3>2
    <3>4. QED BY <3>3
  <2>5. parent \in [Tids -> Tids \cup {NO_PARENT}] /\ arg \in [Tids -> Tids \cup {NO_PARENT}]
    BY DEF Init
  <2>6. child_list \in [Tids -> SUBSET Tids] /\ said \in [Tids -> SUBSET ExitCodes]
    BY DEF Init
  <2>7. answers \in [Tids -> Nat] /\ memory \in [Tids -> {NONE, "allocated", "freed"}]
    BY DEF Init
  <2>8. all_list \subseteq Tids /\ misuses \subseteq Tids
    BY DEF Init
  <2>9. panicked \in BOOLEAN
    BY DEF Init
  <2>10. QED BY <2>2, <2>3, <2>4, <2>5, <2>6, <2>7, <2>8, <2>9 DEF TypeOK
<1>2. RecordsOwned /\ NewTidsUnused /\ ListNamesLiving /\ ChildrenInReach
  BY DEF Init, RecordsOwned, NewTidsUnused, ListNamesLiving, ChildrenInReach
<1>3. SaidOnce /\ ToldInOrder /\ AnsweredOnce
  BY DEF Init, SaidOnce, ToldInOrder, AnsweredOnce, statusTold
<1>4. QED BY <1>1, <1>2, <1>3 DEF ProcInv

(* ... every step keeps it ...                                              *)
LEMMA NextProcInv == ProcInv /\ [Next]_vars => ProcInv'
<1> SUFFICES ASSUME ProcInv, [Next]_vars PROVE ProcInv'
  OBVIOUS
<1>1. ASSUME NEW c \in Tids, run_task(c) PROVE ProcInv'
  <2>1. Main \in Tids /\ "wait" \in {"exec", "wait"} /\ pc[Main] \in {"task", "user"}
    BY <1>1 DEF run_task
  <2>2. QED BY <1>1, <2>1, CreationKeeps DEF run_task
<1>2. ASSUME NEW t \in Tids, NEW c \in Tids, exec(t, c) PROVE ProcInv'
  <2>1. pc[t] \in {"task", "user"} /\ "exec" \in {"exec", "wait"}
    BY <1>2 DEF exec
  <2>2. QED BY <1>2, <2>1, CreationKeeps DEF exec
<1>3. ASSUME NEW t \in Tids, NEW c \in Tids, wait(t, c) \/ wait_refused(t, c) PROVE ProcInv'
  BY <1>3, WaitKeeps, RefusedKeeps
<1>4. ASSUME NEW t \in Tids, exec_out_of_memory(t) PROVE ProcInv'
  BY <1>4, OutOfMemoryKeeps
<1>5. ASSUME NEW t \in Tids, NEW code \in ExitCodes, exit(t, code) PROVE ProcInv'
  BY <1>5, ExitKeeps
<1>6. ASSUME NEW t \in Tids, Inside(t) PROVE ProcInv'
  BY <1>6, StartProcessKeeps, ExecReturnsKeeps, WaitReturnsKeeps, ExitChecksParentKeeps,
     ExitSetsStatusKeeps, RemoveChildProcessesAllKeeps, ProcessExitChecksParentKeeps,
     ProcessExitSetsExitKeeps, ThreadExitKeeps DEF Inside
<1>7. CASE UNCHANGED vars
  BY <1>7 DEF ProcInv, TypeOK, RecordsOwned, NewTidsUnused, ListNamesLiving, ChildrenInReach,
     SaidOnce, ToldInOrder, AnsweredOnce, statusTold, vars
<1>8. QED BY <1>1, <1>2, <1>3, <1>4, <1>5, <1>6, <1>7 DEF Next

(* ... so it always holds.                                                  *)
LEMMA ProcInvHolds == Spec => []ProcInv
<1>1. QED BY InitProcInv, NextProcInv, PTL DEF Spec

(* What is on a child list is allocated.                                    *)
LEMMA InvMakesReadsSafe == ProcInv => ReadsAllocated
BY DEF ProcInv, ChildrenInReach, RecordsOwned, TypeOK, ReadsAllocated

(* However processes start, wait for and outlive each other, a record is on *)
(* its parent's list exactly while it is allocated, and exec and wait look  *)
(* only at allocated ones.                                                  *)
THEOREM RecordsStaySafe == Spec => []RecordsSafe
<1>1. ProcInv => RecordsSafe
  BY InvMakesReadsSafe DEF ProcInv, RecordsSafe
<1>2. QED BY <1>1, ProcInvHolds, PTL

(* A child's status is handed out at most once, and what is handed out is   *)
(* the low byte of what the child passed to exit.                           *)
THEOREM StatusIsTold == Spec => []WaitTellsStatus
<1>1. ProcInv => WaitTellsStatus
  BY DEF ProcInv, AnsweredOnce, WaitTellsStatus
<1>2. QED BY <1>1, ProcInvHolds, PTL

(* Who waits for a child that has left its last call has been told: the     *)
(* waiter is the child's parent and alive, so that neither of the child's   *)
(* two looks at the list of all threads missed it.                          *)
THEOREM WaitersAreTold == Spec => []WaitersTold
<1>1. ProcInv => WaitersTold
  <2> SUFFICES ASSUME ProcInv, NEW t \in Tids, pc[t] = "wait", pc[arg[t]] \in {"leave", "dead"}
               PROVE  record[arg[t]].exit
    BY DEF WaitersTold
  <2>1. arg[t] \in child_list[t] /\ arg[t] \in Tids
    BY DEF ProcInv, ChildrenInReach, TypeOK
  <2>2. parent[arg[t]] = t /\ t \in all_list
    BY <2>1 DEF ProcInv, RecordsOwned, ListNamesLiving
  <2>3. QED BY <2>1, <2>2 DEF ProcInv, ToldInOrder
<1>2. QED BY <1>1, ProcInvHolds, PTL

(* exec comes back with a pid exactly when the child has loaded.            *)
THEOREM ExecTells == Spec => ExecTellsLoad
<1> DEFINE tells(t) == pc[t] = "exec" /\ pc'[t] = "user" =>
                         (result'[t].value # ERROR <=> record[arg[t]].load = "SUCCESSFULLY_LOAD")
<1>1. ASSUME ProcInv, [Next]_vars, NEW t \in Tids PROVE tells(t)
  <2> SUFFICES ASSUME pc[t] = "exec", pc'[t] = "user"
               PROVE  result'[t].value # ERROR <=> record[arg[t]].load = "SUCCESSFULLY_LOAD"
    OBVIOUS
  <2>1. arg[t] \in Tids /\ record[arg[t]].load \in Loads
    BY <1>1 DEF ProcInv, TypeOK, ChildrenInReach, Records
  <2>2. exec_returns(t)
    <3>1. ~ UNCHANGED vars
      BY DEF vars
    <3>2. ASSUME NEW u \in Tids, NEW c \in Tids, exec(u, c) \/ wait(u, c) \/ wait_refused(u, c)
          PROVE  FALSE
      BY <1>1, <3>2 DEF ProcInv, TypeOK, exec, wait, wait_refused, creates
    <3>3. ASSUME NEW c \in Tids, run_task(c) PROVE FALSE
      BY <1>1, <3>3 DEF ProcInv, TypeOK, run_task, creates
    <3>4. ASSUME NEW u \in Tids, exec_out_of_memory(u) \/ \E code \in ExitCodes : exit(u, code)
          PROVE  FALSE
      BY <1>1, <3>4 DEF ProcInv, TypeOK, exec_out_of_memory, exit
    <3>5. ASSUME NEW u \in Tids, Inside(u), u # t PROVE FALSE
      BY <1>1, <3>5, ZenonT(30) DEF ProcInv, TypeOK, Inside, start_process, exec_returns, wait_returns,
         returnsStatus, exit_checks_parent, exit_sets_status, remove_child_processes_all,
         process_exit_checks_parent, process_exit_sets_exit, thread_exit
    <3>6. Inside(t)
      BY <1>1, <3>1, <3>2, <3>3, <3>4, <3>5 DEF Next
    <3>7. QED BY <3>6 DEF Inside, start_process, wait_returns, returnsStatus, exit_checks_parent,
          exit_sets_status, remove_child_processes_all, process_exit_checks_parent,
          process_exit_sets_exit, thread_exit
  <2>3. QED BY <1>1, <2>1, <2>2 DEF exec_returns, ProcInv, TypeOK, Loads
<1>2. ProcInv /\ [Next]_vars => [\A t \in Tids : tells(t)]_vars
  BY <1>1
<1>3. QED BY <1>2, ProcInvHolds, PTL DEF Spec, ExecTellsLoad
=============================================================================
