------------------------------- MODULE MCKernel -------------------------------
(* The kernel's own parts on small instances: memory, the scheduler without  *)
(* donation, the list of all threads, program loading and the library.  As   *)
(* in MCDevices, a behaviour is one part's.                                  *)
EXTENDS Mlfqs, PageAllocator, BlockAllocator, AddressSpace, AllList, ArgStack,
        HashTable, HeapSort, Division, MCKernelSort

VARIABLE part

kernel == <<mlfqsVars, pageVars, blockVars, spaceVars, allListVars, argVars,
            hashVars, sortVars, divVars, vars, part>>

MCNice == {-1, 1}
\* Keys 0, 2 and 4 share one of two buckets, keys 0 and 4 one of four.
MCHash == [k \in Key |-> 3 * k % 8]
\* Command lines of up to five words of up to two letters and a terminator.
MCLines == UNION { [1..n -> 1..3] : n \in 1..5 }

Phdr(type, offset, vaddr, filesz, memsz, writable) ==
  [type |-> type, offset |-> offset, vaddr |-> vaddr,
   filesz |-> filesz, memsz |-> memsz, writable |-> writable]
Exe(length, header, phdrs) == [length |-> length, header |-> header, phdrs |-> phdrs]
\* A whole program of two segments, one read only and one that ends in zeros.
Program == Exe(3, TRUE, << Phdr("load", 1, 3, 1, 1, FALSE), Phdr("load", 2, 4, 1, 2, TRUE) >>)
\* Two segments that share a page; one that asks for the whole address space;
\* one that is cut off; one that takes more pages than there are and one that
\* leaves none for the stack; no program.
Defective ==
  { Exe(4, TRUE, << Phdr("load", 0, 2, 1, 1, TRUE), Phdr("load", 1, 3, 1, 1, TRUE) >>),
    Exe(4, TRUE, << Phdr("ignored", 0, 0, 0, 0, TRUE), Phdr("load", 0, 4, 0, 14, TRUE) >>),
    Exe(1, TRUE, << Phdr("load", 1, 7, 1, 1, TRUE) >>),
    Exe(0, TRUE, << Phdr("load", 0, 2, 0, 7, TRUE) >>),
    Exe(0, TRUE, << Phdr("load", 0, 2, 0, 6, TRUE) >>),
    Exe(0, FALSE, <<>>) }
\* One process of the two is always a whole program.
MCExecutables == [p \in Procs |->
  {Program} \cup (IF p = (CHOOSE q \in Procs : TRUE) THEN Defective ELSE {})]

KernelInit ==
  /\ part \in {"mlfqs", "pages", "blocks", "spaces", "all_list", "arguments",
               "hash", "heap_sort", "division", "lists"}
  /\ PageInit /\ BlockInit /\ SpaceInit /\ AllListInit /\ HashInit /\ DivInit /\ Init
  /\ MlfqsInit /\ (part # "mlfqs" => running = CHOOSE t \in Workers : TRUE)
  /\ ArgInit /\ (part # "arguments" => line = <<1>>)
  /\ SortInit /\ (part # "heap_sort" => unsorted = <<>>)

MlfqsPart == /\ part = "mlfqs" /\ MlfqsNext
             /\ UNCHANGED <<pageVars, blockVars, spaceVars, allListVars, argVars,
                            hashVars, sortVars, divVars, vars, part>>
PagesPart == /\ part = "pages" /\ PageNext
             /\ UNCHANGED <<mlfqsVars, blockVars, spaceVars, allListVars, argVars,
                            hashVars, sortVars, divVars, vars, part>>
BlocksPart == /\ part = "blocks" /\ BlockNext
              /\ UNCHANGED <<mlfqsVars, pageVars, spaceVars, allListVars, argVars,
                             hashVars, sortVars, divVars, vars, part>>
SpacesPart == /\ part = "spaces" /\ SpaceNext
              /\ UNCHANGED <<mlfqsVars, pageVars, blockVars, allListVars, argVars,
                             hashVars, sortVars, divVars, vars, part>>
AllListPart == /\ part = "all_list" /\ AllListNext
               /\ UNCHANGED <<mlfqsVars, pageVars, blockVars, spaceVars, argVars,
                              hashVars, sortVars, divVars, vars, part>>
ArgumentsPart == /\ part = "arguments" /\ ArgNext
                 /\ UNCHANGED <<mlfqsVars, pageVars, blockVars, spaceVars, allListVars,
                                hashVars, sortVars, divVars, vars, part>>
HashPart == /\ part = "hash" /\ HashNext
            /\ UNCHANGED <<mlfqsVars, pageVars, blockVars, spaceVars, allListVars,
                           argVars, sortVars, divVars, vars, part>>
HeapSortPart == /\ part = "heap_sort" /\ SortNext
                /\ UNCHANGED <<mlfqsVars, pageVars, blockVars, spaceVars, allListVars,
                               argVars, hashVars, divVars, vars, part>>
DivisionPart == /\ part = "division" /\ operands_next
                /\ UNCHANGED <<mlfqsVars, pageVars, blockVars, spaceVars, allListVars,
                               argVars, hashVars, sortVars, vars, part>>
ListsPart == /\ part = "lists" /\ Next
             /\ UNCHANGED <<mlfqsVars, pageVars, blockVars, spaceVars, allListVars,
                            argVars, hashVars, sortVars, divVars, part>>
KernelNext == \/ MlfqsPart \/ PagesPart \/ BlocksPart \/ SpacesPart \/ AllListPart
              \/ ArgumentsPart \/ HashPart \/ HeapSortPart \/ DivisionPart \/ ListsPart

\* MlfqsFairness, for its part.
KernelSpec == KernelInit /\ [][KernelNext]_kernel
              /\ WF_mlfqsVars(part = "mlfqs" /\ mlfqs_tick)

\* The library functions return what their reference definitions say: hash
\* tables keep their counts and iterations are complete, sort and binary_search,
\* the 64-bit divisions, and list_sort and list_insert_ordered.
LibraryRight ==
  /\ HashTypeOK /\ IterationComplete
  /\ SortRight /\ SearchRight
  /\ UnsignedDivisionRight /\ SignedDivisionRight
  /\ SortIsSorted /\ InsertStopsAtFirstSmaller /\ InsertKeepsSorted
=============================================================================
