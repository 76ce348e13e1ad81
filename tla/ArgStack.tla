------------------------------ MODULE ArgStack ------------------------------
(* The arguments of a program: the tokens of the command line that           *)
(* process_execute copies, start_process and setup_stack (process.c) lay out *)
(* on the stack page of the new process.  A token is its length; strings,    *)
(* pointers and padding are pieces of the stack with an address and a size.  *)
EXTENDS Integers, FiniteSets, Sequences

CONSTANTS Lines,         \* command lines: lengths of their tokens
          StackTop,      \* PHYS_BASE; only its remainder by WORD_SIZE matters
          StackSize,     \* bytes of the stack page (4096)
          WORD_SIZE,     \* 5 in process.c
          ARGV_COUNTER   \* pointers argv has room for at first (4)

ASSUME ArgAssumption ==
  /\ WORD_SIZE \in Nat \ {0} /\ ARGV_COUNTER \in Nat \ {0}
  /\ StackTop \in Nat /\ StackSize \in Nat /\ Lines \subseteq Seq(Nat)

VARIABLES line,       \* tokens strtok_r has still to return
          args,       \* tokens copied, oldest first
          argv,       \* of setup_stack, by index: addresses of the copies
          argv_size,  \* pointers its block has room for
          esp, stack, \* stack pointer, pieces written
          phase       \* "tokens", "pointers", "frame", "done", "fault"

argVars == <<line, args, argv, argv_size, esp, stack, phase>>

SizeOfPointer == 4
NullPointer == 0
argc == Len(args)
Piece(at, size, value) == [at |-> at, size |-> size, value |-> value]
BytesOf(p) == p.at..p.at + p.size - 1
\* A copy to the stack destroys what it overlaps.
copied(s, p) == { q \in s : BytesOf(q) \cap BytesOf(p) = {} } \cup {p}
Mapped(at) == at >= StackTop - StackSize

ArgInit == /\ line \in Lines /\ args = <<>> /\ argv = <<>>
           /\ argv_size = ARGV_COUNTER
           /\ esp = StackTop /\ stack = {} /\ phase = "tokens"

\* A store outside the stack page is a page fault in the kernel.
pushes(pieces, bottom, next) ==
  IF Mapped(bottom) THEN esp' = bottom /\ stack' = pieces /\ phase' = next
  ELSE phase' = "fault" /\ UNCHANGED <<esp, stack>>

\* One turn of the loop: the copy, its address in argv, a larger block for
\* argv when that is full.
token_bottom(len) == esp - (len + 1)
grown_late(size, cnt) == IF cnt > size THEN 2 * size ELSE size
grown(size, cnt) == IF cnt >= size THEN 2 * size ELSE size
push_token ==
  LET at == token_bottom(Head(line)) IN
  /\ phase = "tokens" /\ line # <<>>
  /\ line' = Tail(line)
  /\ args' = Append(args, Head(line))
  /\ argv' = Append(argv, at)
  /\ argv_size' = grown(argv_size, argc + 1)
  /\ pushes(copied(stack, Piece(at, Head(line) + 1, argc + 1)), at, "tokens")

\* argv[argc] = 0, and padding down to a multiple of WORD_SIZE.
padding == esp % WORD_SIZE
pad ==
  /\ phase = "tokens" /\ line = <<>>
  /\ argv' = Append(argv, NullPointer)
  /\ pushes(copied(stack, Piece(esp - padding, padding, NullPointer)),
            esp - padding, "pointers")
  /\ UNCHANGED <<line, args, argv_size>>

\* Pointers from argv[argc] down to argv[0], then argv, argc and a return address.
push_argv ==
  LET base == esp - SizeOfPointer * Len(argv)
      words == { Piece(base + SizeOfPointer * (i - 1), SizeOfPointer, argv[i]) :
                   i \in DOMAIN argv }
  IN  /\ phase = "pointers"
      /\ pushes({ q \in stack : \A w \in words : BytesOf(q) \cap BytesOf(w) = {} }
                  \cup words, base, "frame")
      /\ UNCHANGED <<line, args, argv, argv_size>>
push_frame ==
  LET base == esp - 3 * SizeOfPointer IN
  /\ phase = "frame"
  /\ pushes(copied(copied(copied(stack,
              Piece(esp - SizeOfPointer, SizeOfPointer, esp)),
              Piece(esp - 2 * SizeOfPointer, SizeOfPointer, argc)),
              Piece(base, SizeOfPointer, NullPointer)), base, "done")
  /\ UNCHANGED <<line, args, argv, argv_size>>

ArgNext == push_token \/ pad \/ push_argv \/ push_frame
ArgSpec == ArgInit /\ [][ArgNext]_argVars

-----------------------------------------------------------------------------
(* Properties.                                                               *)

\* setup_stack writes argv inside its block, the null pointer at its end
\* included (process.c:458-471).
ArgvInBounds == Len(argv) <= argv_size

\* What main finds by its calling convention, (argc, argv) above a return
\* address, argc pointers and a null pointer, leads to the tokens of the
\* command line, in order and whole (process.c:453-493).
Finds(at, size, value) == Piece(at, size, value) \in stack
ArgsReadBack ==
  phase = "done" => \E table \in StackTop - StackSize..StackTop :
    /\ Finds(esp + SizeOfPointer, SizeOfPointer, argc)
    /\ Finds(esp + 2 * SizeOfPointer, SizeOfPointer, table)
    /\ \A i \in 1..argc : \E a \in StackTop - StackSize..StackTop :
         /\ Finds(table + SizeOfPointer * (i - 1), SizeOfPointer, a)
         /\ Finds(a, args[i] + 1, i)
    /\ Finds(table + SizeOfPointer * argc, SizeOfPointer, NullPointer)

\* The argument block is large enough, and main finds its arguments.
ArgsSafe ==
  /\ ArgvInBounds /\ ArgsReadBack
=============================================================================
