---------------------------- MODULE RingBuffer ----------------------------
(***************************************************************************)
(* The ring buffer behind the server's log (server_ring_buffer.c), one     *)
(* call a step: what a push and a write of the file do when no other       *)
(* thread is in the buffer.  LogRace is the same code one access a step.   *)
(***************************************************************************)
EXTENDS Naturals, Sequences

CONSTANTS
  SIZE,      \* RING_BUFFER_SIZE (100)
  Messages,  \* what is logged
  NoMessage  \* the empty text of a slot never used

ASSUME SizeAssumption == SIZE \in Nat \ {0}

VARIABLES
  messages,  \* rb->messages
  head,      \* rb->head, the slot of the next message
  tail,      \* rb->tail, the slot of the oldest
  count,     \* rb->count
  file       \* the lines of the log file

ring == <<messages, head, tail, count>>
vars == <<messages, head, tail, count, file>>

Slots == 0 .. SIZE - 1
After(i) == (i + 1) % SIZE

Init ==
  /\ messages = [i \in Slots |-> NoMessage]
  /\ head = 0 /\ tail = 0 /\ count = 0
  /\ file = <<>>

\* The messages from the tail on, as the loop over count reads them.
Lines == [i \in 1 .. count |-> messages[(tail + i - 1) % SIZE]]

PushForgetsTail(m) ==
  /\ messages' = [messages EXCEPT ![head] = m]
  /\ head' = After(head)
  /\ count' = IF count < SIZE THEN count + 1 ELSE count
  /\ UNCHANGED <<tail, file>>

\* ring_buffer_push.
Push(m) ==
  /\ messages' = [messages EXCEPT ![head] = m]
  /\ head' = After(head)
  /\ IF count < SIZE
     THEN count' = count + 1 /\ UNCHANGED tail
     ELSE tail' = After(tail) /\ UNCHANGED count
  /\ UNCHANGED file

\* ring_buffer_write_to_file, which leaves the file alone when there is
\* nothing to write or the file cannot be opened.
WriteToFile ==
  /\ count # 0
  /\ file' = Lines
  /\ UNCHANGED ring

Next == WriteToFile \/ \E m \in Messages : Push(m)

Spec == Init /\ [][Next]_vars

----------------------------------------------------------------------------
\* The inductive invariant: the head is `count` slots after the tail.
RingInv ==
  /\ messages \in [Slots -> Messages \cup {NoMessage}]
  /\ head \in Slots /\ tail \in Slots
  /\ count \in 0 .. SIZE
  /\ head = (tail + count) % SIZE

\* A full ring overwrites its oldest message and no other: the ring is the log
\* of the latest SIZE messages, in order, and the file is a copy of it.
Log == INSTANCE BoundedLog WITH log <- Lines
ImplementsLog == Log!Spec
===========================================================================
