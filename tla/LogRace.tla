------------------------------ MODULE LogRace ------------------------------
(***************************************************************************)
(* The ring buffer behind the server's log as its threads share it: no     *)
(* mutex protects logg, so that the accesses of two messages, and those of *)
(* the writer of the log file, interleave.  A step is one access to the    *)
(* buffer's indices: the build does not optimise, and the test of the      *)
(* count, its load and its store are three accesses.  The first message    *)
(* initialises the buffer, or the first ones do: serverInit starts the     *)
(* threads before anything was logged.                                     *)
(*                                                                         *)
(* Some messages are logged under a mutex of a table of devices, others    *)
(* under the other one or none: the model lets all of them interleave.     *)
(*                                                                         *)
(* What a slot says is left out, except whether anything was ever written  *)
(* into it: an empty slot writes no line.                                  *)
(***************************************************************************)
EXTENDS Naturals, FiniteSetsExt

CONSTANTS
  SIZE,     \* RING_BUFFER_SIZE (100)
  Loggers,  \* the threads that log
  stats     \* the one of them that writes the log file, stats_writer_thread

ASSUME RaceAssumption == SIZE \in Nat \ {0} /\ IsFiniteSet(Loggers) /\ stats \in Loggers

VARIABLES
  used,        \* the slots something was written into
  head, tail, count,
  buffer_initialized,
  pc,          \* where each logger is in logg
  loaded,      \* what it has loaded and not stored yet
  overlapped,  \* two pushes have overlapped
  pushed,      \* messages pushed before that, up to SIZE
  writer,      \* where stats is in ring_buffer_write_to_file
  i,           \* its loop counter
  lines        \* the lines it has written

indices == <<head, tail, count>>
file == <<writer, i, lines>>
history == <<overlapped, pushed>>
vars == <<used, head, tail, count, buffer_initialized, pc, loaded, overlapped,
          pushed, writer, i, lines>>

Slots == 0 .. SIZE - 1
After(slot) == (slot + 1) % SIZE

Init ==
  /\ used = {} /\ head = 0 /\ tail = 0 /\ count = 0 /\ buffer_initialized = FALSE
  /\ pc = [l \in Loggers |-> "idle"] /\ loaded = [l \in Loggers |-> 0]
  /\ overlapped = FALSE /\ pushed = 0
  /\ writer = "idle" /\ i = 0 /\ lines = 0

Goto(l, from, to) == pc[l] = from /\ pc' = [pc EXCEPT ![l] = to]
Load(l, value) == loaded' = [loaded EXCEPT ![l] = value]
Forget(l) == Load(l, 0)

\* The writer of the file logs only between two files.
Begins(l) ==
  /\ l = stats => writer = "idle"
  /\ overlapped' = (overlapped \/ \E other \in Loggers \ {l} : pc[other] # "idle")

\* logg finds the buffer not initialised.
Asks(l) ==
  /\ ~buffer_initialized
  /\ Goto(l, "idle", "init_head")
  /\ Begins(l)
  /\ UNCHANGED <<used, indices, buffer_initialized, loaded, pushed, file>>

InitHead(l) ==
  /\ Goto(l, "init_head", "init_tail")
  /\ head' = 0
  /\ UNCHANGED <<used, tail, count, buffer_initialized, loaded, history, file>>

InitTail(l) ==
  /\ Goto(l, "init_tail", "init_count")
  /\ tail' = 0
  /\ UNCHANGED <<used, head, count, buffer_initialized, loaded, history, file>>

InitCount(l) ==
  /\ Goto(l, "init_count", "init_messages")
  /\ count' = 0
  /\ UNCHANGED <<used, head, tail, buffer_initialized, loaded, history, file>>

InitMessages(l) ==
  /\ Goto(l, "init_messages", "init_done")
  /\ used' = {}
  /\ UNCHANGED <<indices, buffer_initialized, loaded, history, file>>

InitDone(l) ==
  /\ Goto(l, "init_done", "copy")
  /\ buffer_initialized' = TRUE
  /\ UNCHANGED <<used, indices, loaded, history, file>>

Initialises(l) == \/ Asks(l) \/ InitHead(l) \/ InitTail(l) \/ InitCount(l)
                  \/ InitMessages(l) \/ InitDone(l)

\* The message is copied into the slot at the head.  A buffer once initialised
\* stays so: the question is no step of its own.
Copy(l) ==
  /\ \/ Goto(l, "idle", "head") /\ buffer_initialized /\ Begins(l)
     \/ Goto(l, "copy", "head") /\ UNCHANGED overlapped
  /\ used' = used \cup {head}
  /\ pushed' = IF overlapped' THEN 0 ELSE IF pushed < SIZE THEN pushed + 1 ELSE pushed
  /\ UNCHANGED <<indices, buffer_initialized, loaded, file>>

LoadHead(l) ==
  /\ Goto(l, "head", "advance")
  /\ Load(l, head)
  /\ UNCHANGED <<used, indices, buffer_initialized, history, file>>

StoreHead(l) ==
  /\ Goto(l, "advance", "test")
  /\ head' = After(loaded[l])
  /\ Forget(l)
  /\ UNCHANGED <<used, tail, count, buffer_initialized, history, file>>

TestAtMost(l) ==
  /\ Goto(l, "test", IF count <= SIZE THEN "count" ELSE "tail")
  /\ UNCHANGED <<used, indices, buffer_initialized, loaded, history, file>>

TestForgotten(l) ==
  /\ Goto(l, "test", "idle")
  /\ count' = count + 1
  /\ UNCHANGED <<used, head, tail, buffer_initialized, loaded, history, file>>

\* The buffer is tested for room.
Test(l) ==
  /\ Goto(l, "test", IF count < SIZE THEN "count" ELSE "tail")
  /\ UNCHANGED <<used, indices, buffer_initialized, loaded, history, file>>

LoadCount(l) ==
  /\ Goto(l, "count", "grow")
  /\ Load(l, count)
  /\ UNCHANGED <<used, indices, buffer_initialized, history, file>>

StoreCount(l) ==
  /\ Goto(l, "grow", "idle")
  /\ count' = loaded[l] + 1
  /\ Forget(l)
  /\ UNCHANGED <<used, head, tail, buffer_initialized, history, file>>

LoadTail(l) ==
  /\ Goto(l, "tail", "drop")
  /\ Load(l, tail)
  /\ UNCHANGED <<used, indices, buffer_initialized, history, file>>

\* A full buffer drops its oldest message.
StoreTail(l) ==
  /\ Goto(l, "drop", "idle")
  /\ tail' = After(loaded[l])
  /\ Forget(l)
  /\ UNCHANGED <<used, head, count, buffer_initialized, history, file>>

Push(l) == \/ Copy(l) \/ LoadHead(l) \/ StoreHead(l) \/ Test(l)
           \/ LoadCount(l) \/ StoreCount(l) \/ LoadTail(l) \/ StoreTail(l)

\* The file is opened and emptied, unless there is nothing to write.
Open ==
  /\ writer = "idle" /\ pc[stats] = "idle" /\ count # 0
  /\ writer' = "testing" /\ i' = 0 /\ lines' = 0
  /\ UNCHANGED <<used, indices, buffer_initialized, pc, loaded, history>>

\* The loop asks for the count again before each of its lines.
NextLine ==
  /\ writer = "testing" /\ i < count
  /\ writer' = "writing"
  /\ UNCHANGED <<used, indices, buffer_initialized, pc, loaded, history, i, lines>>

WriteLine ==
  /\ writer = "writing"
  /\ writer' = "testing" /\ i' = i + 1
  /\ lines' = lines + (IF (tail + i) % SIZE \in used THEN 1 ELSE 0)
  /\ UNCHANGED <<used, indices, buffer_initialized, pc, loaded, history>>

Close ==
  /\ writer = "testing" /\ i >= count
  /\ writer' = "idle" /\ i' = 0 /\ lines' = 0
  /\ UNCHANGED <<used, indices, buffer_initialized, pc, loaded, history>>

Next == (\E l \in Loggers : Initialises(l) \/ Push(l)) \/ Open \/ NextLine \/ WriteLine \/ Close

Spec == Init /\ [][Next]_vars

----------------------------------------------------------------------------
\* Every variable has its type: no interleaving takes an index out of the buffer.
TypeOK ==
  /\ used \subseteq Slots /\ head \in Slots /\ tail \in Slots /\ count \in Nat
  /\ pc \in [Loggers -> {"idle", "init_head", "init_tail", "init_count", "init_messages",
                         "init_done", "copy", "head", "advance", "test", "count",
                         "grow", "tail", "drop"}]
  /\ loaded \in [Loggers -> Nat]
  /\ overlapped \in BOOLEAN /\ buffer_initialized \in BOOLEAN
  /\ pushed \in 0 .. SIZE
  /\ writer \in {"idle", "testing", "writing"} /\ i \in Nat /\ lines \in Nat

\* What the count can reach.  Two threads can both find room for the last message.
\* With more of them one is kept at a high count, while another stores a low one it
\* loaded long ago, or initialises the buffer again, and lets the rest pass the test
\* once more; that may happen for every low count, and within itself.
Limit == SIZE + Cardinality(kSubset(SIZE + 1, 1 .. Cardinality(Loggers) + SIZE - 1))

CountBounded == count <= Limit

\* The log file follows, as its writer asks for a count that others change.
FileBounded == lines <= Limit

\* However the messages of the threads interleave, no index leaves the buffer, and
\* the count and the log file stay within the limit (ring_buffer_push,
\* ring_buffer_write_to_file).
Bounded == TypeOK /\ CountBounded /\ FileBounded

\* Messages that never overlapped are in the buffer, the latest SIZE of them, and
\* the head is `count` slots after the tail.
SettledRing ==
  ~overlapped /\ (\A l \in Loggers : pc[l] = "idle") =>
    /\ head = (tail + count) % SIZE
    /\ count = pushed
===========================================================================
