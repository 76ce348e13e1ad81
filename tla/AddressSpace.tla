---------------------------- MODULE AddressSpace ----------------------------
(* Loading and unloading of processes: process.c (process_execute to         *)
(* process_activate, load and its helpers) on pagedir.c.  Any                *)
(* palloc_get_page may find its pool empty.  One processor: only the running *)
(* thread makes steps, and it may be switched away from between any two.     *)
EXTENDS Integers, FiniteSets, Sequences

CONSTANTS Procs, Kernel, \* processes, and no process
          Executables,   \* bound: the files each process may be loaded from, with
                         \* length, whether the header is good, phdrs
          UserPages, KernelPages,   \* pages in the two pools
          PGSIZE, PHYS_BASE,
          PerTable,      \* pages that one page table maps
          Addresses      \* 2^w, where addresses are w bits wide

\* The fields of a program header are as wide as addresses.
ProgramHeader ==
  [type : {"load", "ignored", "refused"}, offset : 0..Addresses - 1, vaddr : 0..Addresses - 1,
   filesz : 0..Addresses - 1, memsz : 0..Addresses - 1, writable : BOOLEAN]
Executable == [length : Nat, header : BOOLEAN, phdrs : Seq(ProgramHeader)]
ASSUME SpaceAssumption ==
  /\ PGSIZE \in Nat \ {0} /\ PerTable \in Nat \ {0}
  /\ UserPages \in Nat /\ KernelPages \in Nat /\ PHYS_BASE \in Nat /\ Addresses \in Nat
  /\ PHYS_BASE % PGSIZE = 0 /\ 2 * PGSIZE <= PHYS_BASE /\ PHYS_BASE < Addresses
  /\ Kernel \notin Procs
  /\ \A p \in Procs : Executables[p] \subseteq Executable

VARIABLES proc,          \* the processes: fields below
          user_used, kernel_used,   \* pages taken from the two pools
          mem,           \* what the user pages hold
          on_cpu,        \* the running process, or Kernel
          cr3,           \* the active page directory, Kernel for init_page_dir
          panicked

spaceVars == <<proc, user_used, kernel_used, mem, on_cpu, cr3, panicked>>

None == 0
UserFrame == 1..UserPages
KernelFrame == 1..KernelPages
StackPage == PHYS_BASE \div PGSIZE - 1
UPage == 0..StackPage
\* A byte is one of the file (its offset), zero, or left by somebody.
ZeroByte == -1
Junk == -2
Filled(byte) == [b \in 0..PGSIZE - 1 |-> byte]

\* What load_segment has still to do.
Segment(upage, pos, read, zero, writable) ==
  [upage |-> upage, pos |-> pos, read |-> read, zero |-> zero, writable |-> writable]
NoSegment == Segment(0, 0, 0, 0, FALSE)
Empty == [x \in {} |-> None]
\* at: where it is; thread: the page of its struct thread; kpage: a user page
\* not installed yet; pagedir: of struct thread; dir: the page the directory is
\* in, until that is freed.
NoExecutable == [length |-> 0, header |-> FALSE, phdrs |-> <<>>]
NoProcess == [at |-> "none", exe |-> NoExecutable, phdr |-> 1, todo |-> NoSegment,
              thread |-> None, fn_copy |-> None, kpage |-> None,
              pagedir |-> None, dir |-> None,
              tables |-> Empty,   \* by number of the table: its kernel page
              ptes |-> Empty]     \* by user page: its frame and its rights

SpaceInit == /\ proc = [p \in Procs |-> NoProcess]
             /\ user_used = {} /\ kernel_used = {}
             /\ mem = [f \in UserFrame |-> Filled(Junk)]
             /\ on_cpu = Kernel /\ cr3 = Kernel /\ panicked = FALSE

-----------------------------------------------------------------------------
(* Pages and program headers.                                                *)

Least(S) == CHOOSE x \in S : \A y \in S : x <= y
UserFree == UserFrame \ user_used
KernelFree == KernelFrame \ kernel_used
becomes(p, state) == proc' = [proc EXCEPT ![p] = state]
goes(p, label) == [proc[p] EXCEPT !.at = label]
At(p, label) == ~panicked /\ on_cpu = p /\ proc[p].at = label
RoundUp(x) == ((x + PGSIZE - 1) \div PGSIZE) * PGSIZE

wraps(s) == (s.vaddr + s.memsz) % Addresses < s.vaddr
validate_segment(s, length) ==
  /\ s.offset % PGSIZE = s.vaddr % PGSIZE
  /\ s.offset <= length
  /\ s.memsz >= s.filesz /\ s.memsz # 0
  /\ s.vaddr < PHYS_BASE /\ (s.vaddr + s.memsz) % Addresses < PHYS_BASE
  /\ ~wraps(s)
  /\ s.vaddr >= PGSIZE

\* What load asks load_segment for.
read_bytes(s) == IF s.filesz > 0 THEN (s.vaddr % PGSIZE) + s.filesz ELSE 0
SegmentOf(s) ==
  Segment(s.vaddr \div PGSIZE, s.offset - (s.offset % PGSIZE), read_bytes(s),
          RoundUp((s.vaddr % PGSIZE) + s.memsz) - read_bytes(s), s.writable)
page_read_bytes(todo) == IF todo.read < PGSIZE THEN todo.read ELSE PGSIZE
page_bytes(todo) ==
  [b \in 0..PGSIZE - 1 |-> IF b < page_read_bytes(todo) THEN todo.pos + b ELSE ZeroByte]
advanced(todo) ==
  [todo EXCEPT !.upage = @ + 1, !.pos = @ + page_read_bytes(todo),
               !.read = @ - page_read_bytes(todo),
               !.zero = @ - (PGSIZE - page_read_bytes(todo))]

-----------------------------------------------------------------------------
(* Loading.                                                                  *)

\* process_execute and thread_create; what the first got is given back when
\* the second gets nothing.
process_execute(p, x) ==
  /\ ~panicked /\ proc[p].at = "none" /\ Cardinality(KernelFree) >= 2
  /\ LET f == Least(KernelFree)
         g == Least(KernelFree \ {f})
     IN  /\ becomes(p, [NoProcess EXCEPT !.at = "load", !.exe = x,
                                         !.fn_copy = f, !.thread = g])
         /\ kernel_used' = kernel_used \cup {f, g}
  /\ UNCHANGED <<user_used, mem, on_cpu, cr3, panicked>>

\* load: pagedir_create and process_activate.
pagedir_create(p) ==
  /\ At(p, "load")
  /\ IF KernelFree = {}
     THEN becomes(p, goes(p, "loaded_not")) /\ UNCHANGED <<kernel_used, cr3>>
     ELSE LET f == Least(KernelFree)
          IN  /\ becomes(p, [goes(p, "header") EXCEPT !.pagedir = f, !.dir = f])
              /\ kernel_used' = kernel_used \cup {f} /\ cr3' = f
  /\ UNCHANGED <<user_used, mem, on_cpu, panicked>>

\* The file may be missing, or not an executable; then program by program header.
load_header(p) ==
  /\ At(p, "header")
  /\ becomes(p, goes(p, IF proc[p].exe.header THEN "phdr" ELSE "loaded_not"))
  /\ UNCHANGED <<user_used, kernel_used, mem, on_cpu, cr3, panicked>>

load_phdr(p) ==
  LET x == proc[p].exe  s == x.phdrs[proc[p].phdr] IN
  /\ At(p, "phdr")
  /\ becomes(p, IF proc[p].phdr > Len(x.phdrs) THEN goes(p, "stack")
                ELSE IF s.type = "ignored" THEN [proc[p] EXCEPT !.phdr = @ + 1]
                ELSE IF s.type = "refused" \/ ~validate_segment(s, x.length)
                THEN goes(p, "loaded_not")
                ELSE [goes(p, "segment") EXCEPT !.todo = SegmentOf(s)])
  /\ UNCHANGED <<user_used, kernel_used, mem, on_cpu, cr3, panicked>>

\* load_segment, up to install_page: get a page and read it.
load_segment(p) ==
  LET todo == proc[p].todo
      f == Least(UserFree)
      short == todo.pos + page_read_bytes(todo) > proc[p].exe.length
  IN
  /\ At(p, "segment")
  /\ IF todo.read = 0 /\ todo.zero = 0
     THEN /\ becomes(p, [goes(p, "phdr") EXCEPT !.phdr = @ + 1, !.todo = NoSegment])
          /\ UNCHANGED <<user_used, mem>>
     ELSE IF UserFree = {} \/ (short /\ page_read_bytes(todo) > 0)
     THEN becomes(p, goes(p, "loaded_not")) /\ UNCHANGED <<user_used, mem>>
     ELSE /\ becomes(p, [goes(p, "install") EXCEPT !.kpage = f])
          /\ user_used' = user_used \cup {f}
          /\ mem' = [mem EXCEPT ![f] = page_bytes(todo)]
  /\ UNCHANGED <<kernel_used, on_cpu, cr3, panicked>>

\* setup_stack: without a page for the stack the arguments are copied through
\* a null stack pointer, which panics the kernel.
setup_stack(p) ==
  /\ At(p, "stack")
  /\ IF UserFree = {}
     THEN panicked' = TRUE /\ UNCHANGED <<proc, user_used, mem>>
     ELSE LET f == Least(UserFree)
          IN  /\ becomes(p, [goes(p, "install") EXCEPT !.kpage = f,
                               !.todo = Segment(StackPage, 0, 0, PGSIZE, TRUE)])
              /\ user_used' = user_used \cup {f}
              /\ mem' = [mem EXCEPT ![f] = Filled(ZeroByte)]
              /\ UNCHANGED panicked
  /\ UNCHANGED <<kernel_used, on_cpu, cr3>>

\* install_page: pagedir_get_page, then pagedir_set_page, which may need a page
\* for a page table.  When it fails the page is given back.
mapped(p, page) == page \in DOMAIN proc[p].ptes
extended(f, x, y) == [z \in DOMAIN f \cup {x} |-> IF z = x THEN y ELSE f[z]]
install_page(p) ==
  LET st == proc[p]  page == st.todo.upage  table == page \div PerTable
      needsTable == table \notin DOMAIN st.tables
      isStack == st.phdr > Len(st.exe.phdrs)
      next == [st EXCEPT !.at = IF isStack THEN "loaded" ELSE "segment",
                         !.todo = IF isStack THEN NoSegment ELSE advanced(@),
                         !.kpage = None,
                         !.ptes = extended(@, page, [frame |-> st.kpage,
                                                     writable |-> st.todo.writable])]
  IN
  /\ At(p, "install")
  /\ IF mapped(p, page) \/ (needsTable /\ KernelFree = {})
     THEN /\ becomes(p, [goes(p, "loaded_not") EXCEPT !.kpage = None])
          /\ user_used' = user_used \ {st.kpage}
          /\ mem' = [mem EXCEPT ![st.kpage] = Filled(Junk)]
          /\ UNCHANGED kernel_used
     ELSE IF needsTable
     THEN /\ becomes(p, [next EXCEPT !.tables = extended(@, table, Least(KernelFree))])
          /\ kernel_used' = kernel_used \cup {Least(KernelFree)}
          /\ UNCHANGED <<user_used, mem>>
     ELSE becomes(p, next) /\ UNCHANGED <<user_used, kernel_used, mem>>
  /\ UNCHANGED <<on_cpu, cr3, panicked>>

\* start_process goes on: it frees the command line, then enters the program.
start_process(p) ==
  /\ \E ok \in {"loaded", "loaded_not"} :
       /\ At(p, ok)
       /\ becomes(p, [goes(p, IF ok = "loaded" THEN "user" ELSE "exit")
                        EXCEPT !.fn_copy = None])
  /\ kernel_used' = kernel_used \ {proc[p].fn_copy}
  /\ UNCHANGED <<user_used, mem, on_cpu, cr3, panicked>>

-----------------------------------------------------------------------------
(* Switching and unloading.                                                  *)

\* thread_schedule_tail calls process_activate for the next thread.
CpuFor(q) == IF q = Kernel \/ proc[q].pagedir = None THEN Kernel ELSE proc[q].pagedir
switch(q) ==
  /\ ~panicked /\ q # on_cpu /\ (q # Kernel => proc[q].at # "none")
  /\ on_cpu' = q /\ cr3' = CpuFor(q)
  /\ UNCHANGED <<proc, user_used, kernel_used, mem, panicked>>

exit(p) ==
  /\ At(p, "user") /\ becomes(p, goes(p, "exit"))
  /\ UNCHANGED <<user_used, kernel_used, mem, on_cpu, cr3, panicked>>

\* process_exit: the thread lets go of its directory before it is destroyed.
pagedir_kept(st) == st
pagedir_unset(st) == [st EXCEPT !.pagedir = None]
process_exit(p) ==
  /\ At(p, "exit")
  /\ becomes(p, IF proc[p].pagedir = None THEN goes(p, "dying")
                ELSE pagedir_unset(goes(p, "activate")))
  /\ UNCHANGED <<user_used, kernel_used, mem, on_cpu, cr3, panicked>>
pagedir_activate(p) ==
  /\ At(p, "activate") /\ becomes(p, goes(p, "destroy")) /\ cr3' = Kernel
  /\ UNCHANGED <<user_used, kernel_used, mem, on_cpu, panicked>>

\* pagedir_destroy, page by page: the pages of each table, the table, at last
\* the directory.
less(f, x) == [z \in DOMAIN f \ {x} |-> f[z]]
pagedir_destroy(p) ==
  LET st == proc[p]
      table == Least(DOMAIN st.tables)
      pages == { g \in DOMAIN st.ptes : g \div PerTable = table }
      frame == st.ptes[Least(pages)].frame
  IN
  /\ At(p, "destroy")
  /\ IF DOMAIN st.tables = {}
     THEN /\ becomes(p, [goes(p, "dying") EXCEPT !.dir = None])
          /\ kernel_used' = kernel_used \ {st.dir} /\ UNCHANGED <<user_used, mem>>
     ELSE IF pages = {}
     THEN /\ becomes(p, [st EXCEPT !.tables = less(@, table)])
          /\ kernel_used' = kernel_used \ {st.tables[table]}
          /\ UNCHANGED <<user_used, mem>>
     ELSE /\ becomes(p, [st EXCEPT !.ptes = less(@, Least(pages))])
          /\ user_used' = user_used \ {frame}
          /\ mem' = [mem EXCEPT ![frame] = Filled(Junk)]
          /\ UNCHANGED kernel_used
  /\ UNCHANGED <<on_cpu, cr3, panicked>>

\* The next thread frees the page of the one that died.
thread_dies(p) ==
  /\ At(p, "dying")
  /\ \E q \in Procs \cup {Kernel} :
       /\ q # p /\ (q # Kernel => proc[q].at # "none")
       /\ on_cpu' = q /\ cr3' = CpuFor(q)
  /\ becomes(p, NoProcess) /\ kernel_used' = kernel_used \ {proc[p].thread}
  /\ UNCHANGED <<user_used, mem, panicked>>

LoadStep(p) ==
  \/ pagedir_create(p) \/ load_header(p) \/ load_phdr(p) \/ load_segment(p)
  \/ setup_stack(p) \/ install_page(p) \/ start_process(p)
ExitStep(p) == \/ exit(p) \/ process_exit(p) \/ pagedir_activate(p)
               \/ pagedir_destroy(p) \/ thread_dies(p)
SpaceNext ==
  \/ \E p \in Procs : LoadStep(p) \/ ExitStep(p)
  \/ \E p \in Procs : \E x \in Executables[p] : process_execute(p, x)
  \/ \E q \in Procs \cup {Kernel} : switch(q)
SpaceSpec == SpaceInit /\ [][SpaceNext]_spaceVars

-----------------------------------------------------------------------------
(* Properties.                                                               *)

\* No program maps page 0, the kernel's addresses or anything past them,
\* whatever its headers say (process.c:346-385).
SpaceTypeOK ==
  /\ \A p \in Procs : LET st == proc[p] IN
       /\ DOMAIN st.ptes \subseteq UPage \ {0}
       /\ \A g \in DOMAIN st.ptes : st.ptes[g].frame \in UserFrame
       /\ \A t \in DOMAIN st.tables : st.tables[t] \in KernelFrame
       /\ {st.thread, st.fn_copy, st.pagedir, st.dir} \subseteq KernelFrame \cup {None}
       /\ st.todo.read \in 0..Addresses /\ st.todo.zero \in 0..Addresses
  /\ user_used \subseteq UserFrame /\ kernel_used \subseteq KernelFrame
  /\ on_cpu \in Procs \cup {Kernel} /\ cr3 \in KernelFrame \cup {Kernel}

\* When a program starts, each byte of its segments is mapped, holds what the
\* file says, zero past that, and may be written if the segment says so; its
\* stack is there (process.c:263-297, 391-449).
ImageRight ==
  \A p \in Procs : LET st == proc[p]  x == st.exe IN
    st.at = "user" =>
      /\ StackPage \in DOMAIN st.ptes
      /\ \A i \in DOMAIN x.phdrs : LET s == x.phdrs[i] IN s.type = "load" =>
           \A b \in 0..s.memsz - 1 : LET a == s.vaddr + b IN
             /\ a \div PGSIZE \in DOMAIN st.ptes
             /\ LET m == st.ptes[a \div PGSIZE] IN
                  /\ m.writable = s.writable
                  /\ mem[m.frame][a % PGSIZE] =
                       (IF b < s.filesz THEN s.offset + b ELSE ZeroByte)

\* Every page taken from a pool has one use, and none is left over when a load
\* fails half way or a process dies (process.c:413-434, 457, pagedir.c:28-49).
UserPagesOf(p, st) == { <<p, "page", g, st.ptes[g].frame>> : g \in DOMAIN st.ptes }
                        \cup {<<p, "kpage", 0, st.kpage>>}
KernelPagesOf(p, st) == { <<p, "table", t, st.tables[t]>> : t \in DOMAIN st.tables }
                          \cup { <<p, "thread", 0, st.thread>>,
                                 <<p, "fn_copy", 0, st.fn_copy>>, <<p, "dir", 0, st.dir>> }
UsedOnce(uses, pages) ==
  LET real == { u \in uses : u[4] # None }
  IN  { u[4] : u \in real } = pages /\ Cardinality(real) = Cardinality(pages)
EveryPageOwned ==
  /\ UsedOnce(UNION { UserPagesOf(p, proc[p]) : p \in Procs }, user_used)
  /\ UsedOnce(UNION { KernelPagesOf(p, proc[p]) : p \in Procs }, kernel_used)

\* The processor never translates through a directory that was freed, and a
\* program runs on its own, wherever it is switched away from
\* (process.c:105-110, thread.c:568).
ActiveDirectoryLives ==
  /\ cr3 = Kernel \/ \E p \in Procs : cr3 = proc[p].dir
  /\ on_cpu # Kernel /\ proc[on_cpu].at = "user" => cr3 = proc[on_cpu].dir

\* Programs start with the image they should, and dying, failing or running,
\* with every page and directory accounted for.
SpacesSafe ==
  /\ SpaceTypeOK /\ ImageRight /\ EveryPageOwned /\ ActiveDirectoryLives
=============================================================================
