------------------------------- MODULE Input -------------------------------
(* Keyboard and serial port: devices/intq.c, input.c, serial.c and the part  *)
(* of kbd.c that reaches the input buffer.  Threads call input_getc and      *)
(* serial_putc with interrupts disabled, so a call is one step up to the     *)
(* point where its thread blocks or may be switched away from.               *)
EXTENDS Integers, Sequences

CONSTANTS Readers,       \* threads that read standard input
          Writers,       \* threads that print
          Byte,          \* the bytes that arrive
          Printed,       \* those among them that are printed too
          INTQ_BUFSIZE   \* cells of a queue; one of them stays empty

NoThread == "no thread"
NoByte == "no byte"

\* Readers and writers are threads in a call: one that reads and prints is
\* another in each.
ASSUME InputAssumption ==
  /\ INTQ_BUFSIZE \in Nat /\ INTQ_BUFSIZE > 1 /\ Printed \subseteq Byte
  /\ Readers \cap Writers = {} /\ NoThread \notin Readers \cup Writers

VARIABLES queue,   \* the two interrupt queues: buffer (input.c), txq (serial.c)
          iopc,    \* where each thread is in intq_getc or intq_putc
          mode,    \* of the serial driver
          ier,     \* its interrupt enable register
          rbr,     \* received byte, NoByte when LSR_DR is clear
          thre,    \* LSR_THRE: the transmitter takes a byte
          halted   \* "no", or why the kernel stopped: "assert", "shutdown"

inputVars == <<queue, iopc, mode, ier, rbr, thre, halted>>

IoThreads == Readers \cup Writers
Queues == {"buffer", "txq"}
Cells == 0..INTQ_BUFSIZE - 1

Intq == [buf : [Cells -> Byte \cup {NoByte}], head : Cells, tail : Cells,
         lock : IoThreads \cup {NoThread}, not_empty : Readers \cup {NoThread},
         not_full : Writers \cup {NoThread}]
intq_init == [buf |-> [c \in Cells |-> NoByte], head |-> 0, tail |-> 0,
              lock |-> NoThread, not_empty |-> NoThread, not_full |-> NoThread]

InputInit == /\ queue = [n \in Queues |-> intq_init]
             /\ iopc = [t \in IoThreads |-> "out"]
             /\ mode = "POLL" /\ ier = {} /\ rbr = NoByte /\ thre = TRUE
             /\ halted = "no"

-----------------------------------------------------------------------------
(* Queues.                                                                   *)

next(pos) == (pos + 1) % INTQ_BUFSIZE
intq_empty(q) == q.head = q.tail
intq_full_unwrapped(q) == q.head + 1 = q.tail
intq_full(q) == next(q.head) = q.tail
\* The queue after intq_getc and intq_putc; signal() resets the waiter.  A cell
\* whose byte was taken reads NoByte: nothing looks at what it still holds.
intq_getc_drop(q) == [q EXCEPT !.tail = next(@), !.buf[q.tail] = NoByte]
intq_getc(q) == [intq_getc_drop(q) EXCEPT !.not_full = NoThread]
intq_putc(q, b) ==
  [q EXCEPT !.buf[q.head] = b, !.head = next(@), !.not_empty = NoThread]

\* signal() unblocks the thread a queue had registered.
signalled(woken) ==
  [t \in IoThreads |-> IF t \in woken THEN "woken" ELSE iopc[t]]

\* The interrupts write_ier leaves enabled, given the two queues.
write_ier_transmit_only(qs) == IF intq_empty(qs["txq"]) THEN {} ELSE {"XMIT"}
write_ier_receive_only(qs) == IF intq_full(qs["buffer"]) THEN {} ELSE {"RECV"}
write_ier(qs) == write_ier_transmit_only(qs) \cup write_ier_receive_only(qs)
\* serial_notify: only once the driver is interrupt driven.
serial_notify(qs) == ier' = IF mode = "QUEUE" THEN write_ier(qs) ELSE ier

-----------------------------------------------------------------------------
(* Waiting: the loop of intq_getc and of intq_putc.                          *)

QueueOf(t) == IF t \in Readers THEN "buffer" ELSE "txq"
mustWait(t) == LET q == queue[QueueOf(t)]
               IN  IF t \in Readers THEN intq_empty(q) ELSE intq_full(q)
Calls(t) == halted = "no" /\ iopc[t] \in {"out", "retry"}
registered_lock_only(q, t) == [q EXCEPT !.lock = t]
registered(q, t) == IF t \in Readers THEN [q EXCEPT !.lock = t, !.not_empty = t]
                                     ELSE [q EXCEPT !.lock = t, !.not_full = t]

lock_acquire_blocks(t) ==
  /\ Calls(t) /\ mustWait(t) /\ (t \in Writers => mode = "QUEUE")
  /\ queue[QueueOf(t)].lock # NoThread
  /\ iopc' = [iopc EXCEPT ![t] = "locking"]
  /\ UNCHANGED <<queue, mode, ier, rbr, thre, halted>>

\* lock_acquire returns, at once or after blocking, and wait() is called: it
\* asserts the condition that intq_getc or intq_putc tested before the lock.
wait(t) ==
  /\ \/ Calls(t) /\ mustWait(t) /\ (t \in Writers => mode = "QUEUE")
     \/ halted = "no" /\ iopc[t] = "locking"
  /\ queue[QueueOf(t)].lock = NoThread
  /\ IF mustWait(t)
     THEN /\ queue' = [queue EXCEPT ![QueueOf(t)] = registered(@, t)]
          /\ iopc' = [iopc EXCEPT ![t] = "waiting"]
          /\ UNCHANGED halted
     ELSE halted' = "assert" /\ UNCHANGED <<queue, iopc>>
  /\ UNCHANGED <<mode, ier, rbr, thre>>

\* Signalled: lock_release, which may switch to another thread, then the test.
wait_returns(t) ==
  /\ halted = "no" /\ iopc[t] = "woken"
  /\ queue' = [queue EXCEPT ![QueueOf(t)].lock = NoThread]
  /\ iopc' = [iopc EXCEPT ![t] = "retry"]
  /\ UNCHANGED <<mode, ier, rbr, thre, halted>>

-----------------------------------------------------------------------------
(* Calls that do not wait, or no longer.                                     *)

input_getc(t) ==
  /\ t \in Readers /\ Calls(t) /\ ~mustWait(t)
  /\ queue' = [queue EXCEPT !["buffer"] = intq_getc(@)]
  /\ iopc' = [signalled({queue["buffer"].not_full}) EXCEPT ![t] = "out"]
  /\ serial_notify(queue')
  /\ UNCHANGED <<mode, rbr, thre, halted>>

\* Before serial_init_queue a byte goes straight to the port, which the
\* calling thread polls with interrupts off until it takes the byte.
putc_poll(t) ==
  /\ t \in Writers /\ Calls(t) /\ mode = "POLL"
  /\ thre' = FALSE
  /\ UNCHANGED <<queue, iopc, mode, ier, rbr, halted>>

serial_putc(t, b) ==
  /\ t \in Writers /\ Calls(t) /\ ~mustWait(t) /\ mode = "QUEUE"
  /\ queue' = [queue EXCEPT !["txq"] = intq_putc(@, b)]
  /\ iopc' = [signalled({queue["txq"].not_empty}) EXCEPT ![t] = "out"]
  /\ ier' = write_ier(queue')
  /\ UNCHANGED <<mode, rbr, thre, halted>>

\* A caller that has interrupts off cannot wait: it makes room by polling out
\* the oldest byte, which wakes a writer that then finds the queue full again.
serial_putc_impolite(b) ==
  LET q == queue["txq"] IN
  /\ halted = "no" /\ mode = "QUEUE" /\ Writers # {}
  /\ queue' = [queue EXCEPT !["txq"] =
                 intq_putc(IF intq_full(q) THEN intq_getc(q) ELSE q, b)]
  /\ iopc' = IF intq_full(q) THEN signalled({q.not_full}) ELSE iopc
  /\ thre' = (thre /\ ~intq_full(q))
  /\ ier' = write_ier(queue')
  /\ UNCHANGED <<mode, rbr, halted>>

serial_init_queue ==
  /\ halted = "no" /\ mode = "POLL"
  /\ mode' = "QUEUE" /\ ier' = write_ier(queue)
  /\ UNCHANGED <<queue, iopc, rbr, thre, halted>>

\* shutdown.c: the queue is polled out before the machine goes off.
serial_flush ==
  /\ halted = "no"
  /\ queue' = [queue EXCEPT !["txq"].tail = queue["txq"].head]
  /\ halted' = "shutdown"
  /\ UNCHANGED <<iopc, mode, ier, rbr, thre>>

-----------------------------------------------------------------------------
(* Interrupt handlers.                                                       *)

keyboard_interrupt(b) ==
  LET q == queue["buffer"] IN
  /\ halted = "no" /\ ~intq_full(q)
  /\ queue' = [queue EXCEPT !["buffer"] = intq_putc(q, b)]
  /\ iopc' = signalled({q.not_empty})
  /\ serial_notify(queue')
  /\ UNCHANGED <<mode, rbr, thre, halted>>

\* The port interrupts while it has a byte, or takes one, and that is enabled.
Interrupting == \/ "RECV" \in ier /\ rbr # NoByte
                \/ "XMIT" \in ier /\ thre
serial_interrupt ==
  LET b == queue["buffer"]  x == queue["txq"]
      receives == ~intq_full(b) /\ rbr # NoByte
      sends == ~intq_empty(x) /\ thre
  IN  /\ halted = "no" /\ Interrupting
      /\ queue' = [queue EXCEPT
                     !["buffer"] = IF receives THEN intq_putc(b, rbr) ELSE b,
                     !["txq"] = IF sends THEN intq_getc(x) ELSE x]
      /\ iopc' = signalled({IF receives THEN b.not_empty ELSE NoThread,
                            IF sends THEN x.not_full ELSE NoThread})
      /\ rbr' = IF receives THEN NoByte ELSE rbr
      /\ thre' = (thre /\ ~sends)
      /\ ier' = write_ier(queue')
      /\ UNCHANGED <<mode, halted>>

\* The port itself: a byte arrives, a byte has gone out.
byte_arrives(b) == /\ halted = "no" /\ rbr' = b
                   /\ UNCHANGED <<queue, iopc, mode, ier, thre, halted>>
byte_sent == /\ halted = "no" /\ ~thre /\ thre' = TRUE
             /\ UNCHANGED <<queue, iopc, mode, ier, rbr, halted>>

WaitStep(t) == lock_acquire_blocks(t) \/ wait(t) \/ wait_returns(t)
InputNext ==
  \/ \E t \in IoThreads : WaitStep(t) \/ input_getc(t) \/ putc_poll(t)
  \/ \E b \in Printed :
       serial_putc_impolite(b) \/ \E t \in IoThreads : serial_putc(t, b)
  \/ \E b \in Byte : keyboard_interrupt(b) \/ byte_arrives(b)
  \/ serial_init_queue \/ serial_flush \/ serial_interrupt \/ byte_sent
InputSpec == InputInit /\ [][InputNext]_inputVars

\* A pending interrupt is handled and the transmitter works.
InputFairness == WF_inputVars(serial_interrupt) /\ WF_inputVars(byte_sent)

-----------------------------------------------------------------------------
(* Properties.                                                               *)

InputTypeOK ==
  /\ queue \in [Queues -> Intq]
  /\ iopc \in [IoThreads -> {"out", "locking", "waiting", "woken", "retry"}]
  /\ mode \in {"POLL", "QUEUE"} /\ ier \subseteq {"XMIT", "RECV"}
  /\ rbr \in Byte \cup {NoByte} /\ thre \in BOOLEAN
  /\ halted \in {"no", "assert", "shutdown"}

\* A thread is blocked in wait() only while what it waits for has not come,
\* and then it is the thread its queue will unblock: no wakeup is lost
\* (intq.c:43-48, 64-70, 103-114).
WaitersWillBeWoken ==
  \A t \in IoThreads : LET q == queue[QueueOf(t)] IN
    halted = "no" /\ iopc[t] = "waiting"
      => mustWait(t) /\ q.lock = t /\ t \in {q.not_empty, q.not_full}

\* A queue forgets its waiter when it wakes it, so that it unblocks only
\* blocked threads (intq.c:109-113; thread_unblock asserts it).
OnlyWaitersRegistered ==
  \A n \in Queues, t \in IoThreads :
    t \in {queue[n].not_empty, queue[n].not_full} => iopc[t] = "waiting"

\* Once the port is interrupt driven, its interrupts are enabled whenever a
\* byte waits to go out, and receiving exactly while there is room for a byte
\* (serial.c:143-153, 175-194).
IerMatchesQueues ==
  mode = "QUEUE" /\ halted = "no" =>
    /\ ~intq_empty(queue["txq"]) => "XMIT" \in ier
    /\ "RECV" \in ier <=> ~intq_full(queue["buffer"])

\* The safety of the queues and the port: their types, their waiters, and the
\* interrupts that drive them.
InputSafe ==
  /\ InputTypeOK /\ WaitersWillBeWoken /\ OnlyWaitersRegistered /\ IerMatchesQueues

\* A byte queued for the port goes out, so the queue does not stay as it is
\* and a thread waiting for room is woken (serial.c:183-186, 221-227).
TransmitGoesOn ==
  \A c \in Cells :
    ~intq_empty(queue["txq"]) /\ queue["txq"].tail = c
      ~> queue["txq"].tail # c \/ halted # "no"

-----------------------------------------------------------------------------
(* What a queue promises: bytes come out in the order they went in, none     *)
(* lost, none twice, and never more of them than it holds.                   *)
Contents(n) == LET q == queue[n] IN
  [i \in 1..(q.head - q.tail) % INTQ_BUFSIZE |-> q.buf[(q.tail + i - 1) % INTQ_BUFSIZE]]
Fifo == INSTANCE ByteFifo WITH fifo <- [n \in Queues |-> Contents(n)],
                               off <- halted = "shutdown", Room <- INTQ_BUFSIZE - 1
QueuesAreFifos == Fifo!FifoSpec
=============================================================================
