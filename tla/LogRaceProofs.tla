---------------------------- MODULE LogRaceProofs ----------------------------
(***************************************************************************)
(* Theorems about LogRace, for every size of the buffer and every finite   *)
(* set of threads: the types, the ring as long as no two pushes overlap,   *)
(* and how far threads that race can drive the count.                      *)
(***************************************************************************)
EXTENDS LogRace, FiniteSetTheorems, NaturalsInduction, TLAPS

\* Where logg initialises the buffer.
Initialising == {"init_head", "init_tail", "init_count", "init_messages", "init_done"}
Places == {"idle", "copy", "head", "advance", "test", "count", "grow", "tail", "drop"}
            \cup Initialising

\* The constants, one by one.
LEMMA Constants == SIZE \in Nat /\ SIZE > 0 /\ IsFiniteSet(Loggers) /\ stats \in Loggers
  BY RaceAssumption

\* A false value is a Boolean one: the SMT translation has to be told.
LEMMA FalseIsBoolean == \A b : b = FALSE => b \in BOOLEAN
  OBVIOUS

----------------------------------------------------------------------------
\* The remainders of the code.

\* The remainder of an index that is at most one turn too far.
Wrapped(x) == IF x < SIZE THEN x ELSE x - SIZE

\* tail + count wraps at most once.
LEMMA Wrap == \A x \in 0 .. 2 * SIZE - 1 : x % SIZE = Wrapped(x)
  BY Constants DEF Wrapped

\* No index leaves the buffer, whatever was loaded.
LEMMA InTheBuffer == \A x \in Nat : After(x) \in Slots /\ x % SIZE \in Slots
  BY Constants DEF After, Slots

\* The slot after one of the ring's.
LEMMA AfterWraps == \A t \in 0 .. SIZE - 1 : After(t) = Wrapped(t + 1)
<1> SUFFICES ASSUME NEW t \in 0 .. SIZE - 1 PROVE (t + 1) % SIZE = Wrapped(t + 1)
  BY DEF After
<1>1. PICK x \in 0 .. 2 * SIZE - 1 : x = t + 1
  BY Constants
<1> QED
  BY <1>1, Wrap

----------------------------------------------------------------------------
\* Types.
Types ==
  /\ used \subseteq Slots /\ head \in Slots /\ tail \in Slots /\ count \in Nat
  /\ pc \in [Loggers -> Places] /\ loaded \in [Loggers -> Nat]
  /\ overlapped \in BOOLEAN /\ buffer_initialized \in BOOLEAN
  /\ pushed \in 0 .. SIZE
  /\ writer \in {"idle", "testing", "writing"} /\ i \in Nat /\ lines \in Nat

\* A step of any thread keeps the types.
LEMMA TypesStep == Types /\ [Next]_vars => Types'
<1> SUFFICES ASSUME Types, [Next]_vars PROVE Types'
  OBVIOUS
<1> USE Constants DEF Types, Places, Initialising
<1>1. ASSUME NEW l \in Loggers, Asks(l) PROVE Types'
  BY <1>1 DEF Asks, Goto, Begins, indices, file
<1>2. ASSUME NEW l \in Loggers, InitHead(l) \/ InitTail(l) \/ InitCount(l) PROVE Types'
  <2>1. 0 \in Slots /\ 0 \in Nat
    BY DEF Slots
  <2>2. CASE InitHead(l)
    BY <2>1, <2>2 DEF InitHead, Goto, history, file
  <2>3. CASE InitTail(l)
    BY <2>1, <2>3 DEF InitTail, Goto, history, file
  <2>4. CASE InitCount(l)
    BY <2>1, <2>4 DEF InitCount, Goto, history, file
  <2> QED
    BY <1>2, <2>2, <2>3, <2>4
<1>3. ASSUME NEW l \in Loggers, InitMessages(l) \/ InitDone(l) PROVE Types'
  BY <1>3 DEF InitMessages, InitDone, Goto, history, file, indices
<1>4. ASSUME NEW l \in Loggers, Copy(l) PROVE Types'
  BY <1>4 DEF Copy, Goto, Begins, indices, file
<1>5. ASSUME NEW l \in Loggers, LoadHead(l) \/ LoadTail(l) \/ LoadCount(l) PROVE Types'
  <2>1. head \in Nat /\ tail \in Nat /\ count \in Nat
    BY DEF Slots
  <2>2. CASE LoadHead(l)
    BY <2>1, <2>2 DEF LoadHead, Load, Goto, history, file, indices
  <2>3. CASE LoadTail(l)
    BY <2>1, <2>3 DEF LoadTail, Load, Goto, history, file, indices
  <2>4. CASE LoadCount(l)
    BY <2>1, <2>4 DEF LoadCount, Load, Goto, history, file, indices
  <2> QED
    BY <1>5, <2>2, <2>3, <2>4
<1>6. ASSUME NEW l \in Loggers, StoreHead(l) \/ StoreTail(l) PROVE Types'
  <2>1. After(loaded[l]) \in Slots
    BY InTheBuffer
  <2> QED
    BY <1>6, <2>1 DEF StoreHead, StoreTail, Goto, Load, Forget, history, file
<1>7. ASSUME NEW l \in Loggers, Test(l) \/ StoreCount(l) PROVE Types'
  BY <1>7 DEF Test, StoreCount, Goto, Load, Forget, history, file, indices
<1>8. CASE Open \/ NextLine \/ WriteLine \/ Close
  BY <1>8 DEF Open, NextLine, WriteLine, Close, indices, history
<1>9. CASE UNCHANGED vars
  BY <1>9 DEF vars
<1> QED
  BY <1>1, <1>2, <1>3, <1>4, <1>5, <1>6, <1>7, <1>8, <1>9 DEF Next, Initialises, Push

\* At the start all is of its type.
LEMMA TypesInit == Init => Types
  BY Constants, FalseIsBoolean DEF Init, Types, Places, Slots

\* Every variable has its type: no interleaving of any number of threads takes an
\* index out of the buffer.
THEOREM TypeCorrect == Spec => []TypeOK
<1>1. Types => TypeOK
  BY DEF Types, TypeOK, Places, Initialising
<1> QED
  BY <1>1, TypesInit, TypesStep, PTL DEF Spec

----------------------------------------------------------------------------
\* Nobody pushes before the buffer is initialised, however often that happens.
Initialised ==
  ~buffer_initialized => \A l \in Loggers : pc[l] \in {"idle"} \cup Initialising

\* A thread that finds the buffer uninitialised initialises it before it pushes.
LEMMA InitialisedStep == Types /\ Initialised /\ [Next]_vars => Initialised'
<1> SUFFICES ASSUME Types, Initialised, [Next]_vars, ~buffer_initialized' PROVE Initialised'
  BY DEF Initialised
<1> USE DEF Initialised, Initialising
<1>1. pc \in [Loggers -> Places]
  BY DEF Types
<1>2. ASSUME NEW l \in Loggers, Initialises(l) PROVE Initialised'
  BY <1>1, <1>2 DEF Initialises, Asks, InitHead, InitTail, InitCount, InitMessages, InitDone, Goto
<1>3. ASSUME NEW l \in Loggers, Push(l) PROVE Initialised'
  <2>1. ~buffer_initialized
    BY <1>3 DEF Push, Copy, LoadHead, StoreHead, Test, LoadCount, StoreCount, LoadTail, StoreTail
  <2>2. pc[l] \in {"idle"} \cup Initialising
    BY <2>1
  <2> QED
    BY <1>3, <2>1, <2>2 DEF Push, Copy, LoadHead, StoreHead, Test, LoadCount, StoreCount, LoadTail,
                            StoreTail, Goto
<1>4. CASE Open \/ NextLine \/ WriteLine \/ Close
  BY <1>4 DEF Open, NextLine, WriteLine, Close
<1>5. CASE UNCHANGED vars
  BY <1>5 DEF vars
<1> QED
  BY <1>2, <1>3, <1>4, <1>5 DEF Next

----------------------------------------------------------------------------
\* The ring while no two pushes have overlapped.

\* Before the first message nothing has moved.
Untouched == head = 0 /\ tail = 0 /\ count = 0 /\ pushed = 0

\* The ring's invariant, c messages from the tail on.
RingOf(t, h, c) == c \in 0 .. SIZE /\ h = Wrapped(t + c)

\* One more message, the oldest of a full buffer gone.
OneMore(n) == IF n < SIZE THEN n + 1 ELSE n

\* How far the push of a logger has come: its message is counted in pushed from
\* the copy on.
Pushing(l) ==
  /\ pc[l] \in {"idle", "copy"} \cup Initialising =>
       RingOf(tail, head, count) /\ count = pushed
  /\ pc[l] \in {"head", "advance"} =>
       RingOf(tail, head, count) /\ pushed = OneMore(count)
  /\ pc[l] = "advance" => loaded[l] = head
  /\ pc[l] \in {"test", "count", "grow", "tail", "drop"} =>
       /\ count \in 0 .. SIZE /\ pushed = OneMore(count)
       /\ head = Wrapped(Wrapped(tail + count) + 1)
  /\ pc[l] \in {"count", "grow"} => count < SIZE
  /\ pc[l] = "grow" => loaded[l] = count
  /\ pc[l] \in {"tail", "drop"} => count = SIZE
  /\ pc[l] = "drop" => loaded[l] = tail

Alone ==
  /\ ~buffer_initialized => Untouched
  /\ \A l \in Loggers : pc[l] \in Initialising => ~buffer_initialized
  /\ \A l, o \in Loggers : pc[l] # "idle" /\ pc[o] # "idle" => l = o
  /\ (\A l \in Loggers : pc[l] = "idle") => RingOf(tail, head, count) /\ count = pushed
  /\ \A l \in Loggers : pc[l] # "idle" => Pushing(l)

OthersIdle(l) == \A o \in Loggers \ {l} : pc[o] = "idle"

\* The logger that acts is the only one.
LEMMA OnlyOne ==
  ASSUME Types, Alone, NEW l \in Loggers, OthersIdle(l)
  PROVE  Pushing(l)
<1>1. CASE pc[l] = "idle"
  <2>1. \A o \in Loggers : pc[o] = "idle"
    BY <1>1 DEF OthersIdle
  <2>2. RingOf(tail, head, count) /\ count = pushed
    BY <2>1 DEF Alone
  <2> QED
    BY <1>1, <2>2 DEF Pushing
<1> QED
  BY <1>1 DEF Alone

\* What its step has to establish.
LEMMA OneActs ==
  ASSUME Types, NEW l \in Loggers, OthersIdle(l),
         NEW to \in Places, pc' = [pc EXCEPT ![l] = to], Pushing(l)',
         ~buffer_initialized' => Untouched', to \in Initialising => ~buffer_initialized'
  PROVE  Alone'
<1>1. pc \in [Loggers -> Places]
  BY DEF Types
<1>2. pc'[l] = to /\ (\A o \in Loggers \ {l} : pc'[o] = "idle")
  BY <1>1 DEF OthersIdle
<1>3. "idle" \notin Initialising
  BY DEF Initialising
<1>4. \A o \in Loggers : pc'[o] \in Initialising => ~buffer_initialized'
  BY <1>2, <1>3
<1>5. \A m, o \in Loggers : pc'[m] # "idle" /\ pc'[o] # "idle" => m = o
  BY <1>2
<1>6. (\A o \in Loggers : pc'[o] = "idle") => RingOf(tail', head', count') /\ count' = pushed'
  BY DEF Pushing
<1>7. \A o \in Loggers : pc'[o] # "idle" => Pushing(o)'
  BY <1>2
<1> QED
  BY <1>4, <1>5, <1>6, <1>7 DEF Alone

\* logg takes its first step only when all others are idle, or it overlaps.
LEMMA NobodyElse ==
  ASSUME Types, Alone, NEW l \in Loggers, pc[l] # "idle" \/ Begins(l), ~overlapped'
  PROVE  OthersIdle(l)
  BY DEF Alone, OthersIdle, Begins

\* The head, count and one messages after the tail.
LEMMA GrowingRing ==
  ASSUME NEW t \in Slots, NEW c \in 0 .. SIZE
  PROVE  /\ Wrapped(t + c) \in Slots
         /\ After(Wrapped(t + c)) = Wrapped(Wrapped(t + c) + 1)
         /\ c < SIZE => Wrapped(Wrapped(t + c) + 1) = Wrapped(t + (c + 1))
         /\ c = SIZE => Wrapped(Wrapped(t + c) + 1) = Wrapped(After(t) + c)
<1> USE Constants
<1>1. Wrapped(t + c) \in Slots
  BY DEF Wrapped, Slots
<1>2. After(Wrapped(t + c)) = Wrapped(Wrapped(t + c) + 1)
  BY <1>1, AfterWraps DEF Slots
<1>3. c < SIZE => Wrapped(Wrapped(t + c) + 1) = Wrapped(t + (c + 1))
  BY DEF Wrapped, Slots
<1>4. After(t) = Wrapped(t + 1)
  BY AfterWraps DEF Slots
<1>5. c = SIZE => Wrapped(Wrapped(t + c) + 1) = Wrapped(After(t) + c)
  BY <1>4 DEF Wrapped, Slots
<1> QED
  BY <1>1, <1>2, <1>3, <1>5

\* The initialisation leaves an empty ring as it was.
LEMMA AloneInitialises ==
  ASSUME Types, ~overlapped => Alone, NEW l \in Loggers, Initialises(l), ~overlapped'
  PROVE  Alone'
<1>1. ~overlapped /\ (pc[l] # "idle" \/ Begins(l))
  BY DEF Types, Initialises, Asks, InitHead, InitTail, InitCount, InitMessages, InitDone, Goto,
         Begins, history
<1>2. OthersIdle(l) /\ Pushing(l) /\ Alone
  BY <1>1, NobodyElse, OnlyOne
<1>3. pc \in [Loggers -> Places]
  BY DEF Types
<1>4. Untouched /\ pc[l] \in {"idle"} \cup Initialising
  BY <1>2 DEF Alone, Initialises, Asks, InitHead, InitTail, InitCount, InitMessages, InitDone, Goto,
              Initialising
<1>5. Untouched'
  BY <1>4 DEF Untouched, Initialises, Asks, InitHead, InitTail, InitCount, InitMessages, InitDone,
              indices, history
<1>6. RingOf(tail', head', count') /\ count' = pushed'
  BY <1>5, Constants DEF Untouched, RingOf, Wrapped
<1>7. \E to \in Initialising \cup {"copy"} :
        /\ pc' = [pc EXCEPT ![l] = to]
        /\ to \in Initialising => ~buffer_initialized'
  <2>1. ~InitDone(l) => ~buffer_initialized /\ buffer_initialized' = buffer_initialized
    BY <1>2, <1>4 DEF Alone, Initialises, Asks, InitHead, InitTail, InitCount, InitMessages, Goto, Initialising
  <2>2. ~InitDone(l) => \E to \in Initialising : pc' = [pc EXCEPT ![l] = to]
    BY DEF Initialises, Asks, InitHead, InitTail, InitCount, InitMessages, Goto, Initialising
  <2>3. InitDone(l) => pc' = [pc EXCEPT ![l] = "copy"]
    BY DEF InitDone, Goto
  <2>4. "copy" \notin Initialising
    BY DEF Initialising
  <2> QED
    BY <2>1, <2>2, <2>3, <2>4
<1>8. PICK to \in Initialising \cup {"copy"} :
        /\ pc' = [pc EXCEPT ![l] = to]
        /\ to \in Initialising => ~buffer_initialized'
  BY <1>7
<1>9. to \in Places /\ pc'[l] = to
  BY <1>3, <1>8 DEF Places
<1>10. Pushing(l)'
  BY <1>6, <1>8, <1>9 DEF Pushing, Initialising
<1> QED
  BY <1>2, <1>5, <1>8, <1>9, <1>10, OneActs

\* A push moves the ring on by one message, in its steps.
LEMMA AlonePushes ==
  ASSUME Types, Initialised, ~overlapped => Alone, NEW l \in Loggers, Push(l), ~overlapped'
  PROVE  Alone'
<1>1. ~overlapped /\ (pc[l] # "idle" \/ Begins(l))
  BY DEF Types, Push, Copy, LoadHead, StoreHead, Test, LoadCount, StoreCount, LoadTail, StoreTail, Goto,
         Begins, history
<1>2. OthersIdle(l) /\ Pushing(l) /\ Alone
  BY <1>1, NobodyElse, OnlyOne
<1>3. pc \in [Loggers -> Places] /\ loaded \in [Loggers -> Nat]
  BY DEF Types
<1>4. /\ head \in Slots /\ tail \in Slots /\ count \in Nat /\ pushed \in 0 .. SIZE
      /\ SIZE \in Nat /\ SIZE > 0
  BY Constants DEF Types
<1>5. buffer_initialized' = buffer_initialized
  BY DEF Push, Copy, LoadHead, StoreHead, Test, LoadCount, StoreCount, LoadTail, StoreTail
<1>6. buffer_initialized
  BY DEF Initialised, Initialising, Push, Copy, LoadHead, StoreHead, Test, LoadCount, StoreCount, LoadTail,
         StoreTail, Goto
<1>7. ASSUME NEW to \in Places \ Initialising, pc' = [pc EXCEPT ![l] = to], Pushing(l)'
      PROVE  Alone'
  BY <1>2, <1>5, <1>6, <1>7, OneActs
<1>8. CASE Copy(l)
  <2>1. RingOf(tail, head, count) /\ count = pushed
    BY <1>2, <1>8 DEF Pushing, Copy, Goto
  <2>2. UNCHANGED <<head, tail, count>> /\ pushed' = OneMore(count)
    BY <1>4, <1>8, <2>1 DEF Copy, indices, OneMore, RingOf
  <2>3. pc' = [pc EXCEPT ![l] = "head"] /\ pc'[l] = "head"
    BY <1>3, <1>8 DEF Copy, Goto
  <2>4. Pushing(l)'
    BY <2>1, <2>2, <2>3 DEF Pushing, Initialising
  <2> QED
    BY <1>7, <2>3, <2>4 DEF Places, Initialising
<1>9. CASE LoadHead(l)
  <2>1. RingOf(tail, head, count) /\ pushed = OneMore(count) /\ pc[l] = "head"
    BY <1>2, <1>9 DEF Pushing, LoadHead, Goto
  <2>2. UNCHANGED <<head, tail, count, pushed>> /\ loaded'[l] = head
    BY <1>3, <1>9 DEF LoadHead, Load, indices, history
  <2>3. pc' = [pc EXCEPT ![l] = "advance"] /\ pc'[l] = "advance"
    BY <1>3, <1>9 DEF LoadHead, Goto
  <2>4. Pushing(l)'
    BY <2>1, <2>2, <2>3 DEF Pushing, Initialising
  <2> QED
    BY <1>7, <2>1, <2>3, <2>4 DEF Places, Initialising
<1>10. CASE StoreHead(l)
  <2>1. /\ RingOf(tail, head, count) /\ pushed = OneMore(count) /\ pc[l] = "advance"
        /\ loaded[l] = head
    BY <1>2, <1>10 DEF Pushing, StoreHead, Goto
  <2>2. UNCHANGED <<tail, count, pushed>> /\ head' = After(head)
    BY <2>1, <1>10 DEF StoreHead, history
  <2>3. pc' = [pc EXCEPT ![l] = "test"] /\ pc'[l] = "test"
    BY <1>3, <1>10 DEF StoreHead, Goto
  <2>4. count' \in 0 .. SIZE /\ head' = Wrapped(Wrapped(tail' + count') + 1)
    BY <1>4, <2>1, <2>2, GrowingRing DEF RingOf
  <2>5. Pushing(l)'
    BY <2>1, <2>2, <2>3, <2>4 DEF Pushing, Initialising
  <2> QED
    BY <1>7, <2>1, <2>3, <2>5 DEF Places, Initialising
<1>11. CASE Test(l)
  <2>1. /\ pc[l] = "test" /\ count \in 0 .. SIZE /\ pushed = OneMore(count)
        /\ head = Wrapped(Wrapped(tail + count) + 1)
    BY <1>2, <1>11 DEF Pushing, Test, Goto
  <2>2. UNCHANGED <<head, tail, count, pushed>>
    BY <1>11 DEF Test, indices, history
  <2>3. CASE count < SIZE
    <3>1. pc' = [pc EXCEPT ![l] = "count"] /\ pc'[l] = "count"
      BY <1>3, <1>11, <2>3 DEF Test, Goto
    <3>2. Pushing(l)'
      BY <2>1, <2>2, <2>3, <3>1 DEF Pushing, Initialising
    <3> QED
      BY <1>7, <2>1, <3>1, <3>2 DEF Places, Initialising
  <2>4. CASE ~(count < SIZE)
    <3>1. pc' = [pc EXCEPT ![l] = "tail"] /\ pc'[l] = "tail"
      BY <1>3, <1>11, <2>4 DEF Test, Goto
    <3>2. count = SIZE
      BY <1>4, <2>1, <2>4
    <3>3. Pushing(l)'
      BY <2>1, <2>2, <3>1, <3>2 DEF Pushing, Initialising
    <3> QED
      BY <1>7, <2>1, <3>1, <3>3 DEF Places, Initialising
  <2> QED
    BY <2>3, <2>4
<1>12. CASE LoadCount(l)
  <2>1. /\ pc[l] = "count" /\ count \in 0 .. SIZE /\ pushed = OneMore(count) /\ count < SIZE
        /\ head = Wrapped(Wrapped(tail + count) + 1)
    BY <1>2, <1>12 DEF Pushing, LoadCount, Goto
  <2>2. UNCHANGED <<head, tail, count, pushed>> /\ loaded'[l] = count
    BY <1>3, <1>12 DEF LoadCount, Load, indices, history
  <2>3. pc' = [pc EXCEPT ![l] = "grow"] /\ pc'[l] = "grow"
    BY <1>3, <1>12 DEF LoadCount, Goto
  <2>4. Pushing(l)'
    BY <2>1, <2>2, <2>3 DEF Pushing, Initialising
  <2> QED
    BY <1>7, <2>1, <2>3, <2>4 DEF Places, Initialising
<1>13. CASE StoreCount(l)
  <2>1. /\ pc[l] = "grow" /\ count \in 0 .. SIZE /\ pushed = OneMore(count) /\ count < SIZE
        /\ head = Wrapped(Wrapped(tail + count) + 1) /\ loaded[l] = count
    BY <1>2, <1>13 DEF Pushing, StoreCount, Goto
  <2>2. UNCHANGED <<head, tail, pushed>> /\ count' = count + 1
    BY <2>1, <1>13 DEF StoreCount, history
  <2>3. pc' = [pc EXCEPT ![l] = "idle"] /\ pc'[l] = "idle"
    BY <1>3, <1>13 DEF StoreCount, Goto
  <2>4. head = Wrapped(tail + (count + 1))
    BY <1>4, <2>1, GrowingRing
  <2>5. RingOf(tail', head', count') /\ count' = pushed'
    BY <1>4, <2>1, <2>2, <2>4 DEF RingOf, OneMore
  <2>6. Pushing(l)'
    BY <2>3, <2>5 DEF Pushing, Initialising
  <2> QED
    BY <1>7, <2>1, <2>3, <2>6 DEF Places, Initialising
<1>14. CASE LoadTail(l)
  <2>1. /\ pc[l] = "tail" /\ count \in 0 .. SIZE /\ pushed = OneMore(count) /\ count = SIZE
        /\ head = Wrapped(Wrapped(tail + count) + 1)
    BY <1>2, <1>14 DEF Pushing, LoadTail, Goto
  <2>2. UNCHANGED <<head, tail, count, pushed>> /\ loaded'[l] = tail
    BY <1>3, <1>14 DEF LoadTail, Load, indices, history
  <2>3. pc' = [pc EXCEPT ![l] = "drop"] /\ pc'[l] = "drop"
    BY <1>3, <1>14 DEF LoadTail, Goto
  <2>4. Pushing(l)'
    BY <2>1, <2>2, <2>3 DEF Pushing, Initialising
  <2> QED
    BY <1>7, <2>1, <2>3, <2>4 DEF Places, Initialising
<1>15. CASE StoreTail(l)
  <2>1. /\ pc[l] = "drop" /\ count \in 0 .. SIZE /\ pushed = OneMore(count) /\ count = SIZE
        /\ head = Wrapped(Wrapped(tail + count) + 1) /\ loaded[l] = tail
    BY <1>2, <1>15 DEF Pushing, StoreTail, Goto
  <2>2. UNCHANGED <<head, count, pushed>> /\ tail' = After(tail)
    BY <2>1, <1>15 DEF StoreTail, history
  <2>3. pc' = [pc EXCEPT ![l] = "idle"] /\ pc'[l] = "idle"
    BY <1>3, <1>15 DEF StoreTail, Goto
  <2>4. head = Wrapped(After(tail) + count)
    BY <1>4, <2>1, GrowingRing
  <2>5. RingOf(tail', head', count') /\ count' = pushed'
    BY <1>4, <2>1, <2>2, <2>4 DEF RingOf, OneMore
  <2>6. Pushing(l)'
    BY <2>3, <2>5 DEF Pushing, Initialising
  <2> QED
    BY <1>7, <2>1, <2>3, <2>6 DEF Places, Initialising
<1> QED
  BY <1>8, <1>9, <1>10, <1>11, <1>12, <1>13, <1>14, <1>15 DEF Push

\* While no two pushes have overlapped the log is a ring that one thread uses.
AloneInv == Types /\ Initialised /\ (~overlapped => Alone)

\* A step that overlaps no push leaves the buffer as a ring.
LEMMA AloneStep == AloneInv /\ [Next]_vars => AloneInv'
<1> SUFFICES ASSUME AloneInv, [Next]_vars, ~overlapped' PROVE Alone'
  BY TypesStep, InitialisedStep DEF AloneInv
<1>1. ASSUME NEW l \in Loggers, Initialises(l) PROVE Alone'
  BY <1>1, AloneInitialises DEF AloneInv
<1>2. ASSUME NEW l \in Loggers, Push(l) PROVE Alone'
  BY <1>2, AlonePushes DEF AloneInv
<1>3. CASE Open \/ NextLine \/ WriteLine \/ Close \/ UNCHANGED vars
  <2>1. UNCHANGED <<head, tail, count, buffer_initialized, pc, loaded, overlapped, pushed>>
    BY <1>3 DEF Open, NextLine, WriteLine, Close, indices, history, vars
  <2> QED
    BY <2>1 DEF AloneInv, Alone, Untouched, Pushing, Initialising, RingOf, Wrapped, OneMore
<1> QED
  BY <1>1, <1>2, <1>3 DEF Next

\* Messages that never overlapped are in the buffer, the latest SIZE of them, from
\* the tail on, for every size and every number of threads.
THEOREM SettledAlone == Spec => []SettledRing
<1>1. Init => AloneInv
  <2> SUFFICES ASSUME Init PROVE Initialised /\ Alone
    BY TypesInit DEF AloneInv
  <2>1. \A l \in Loggers : pc[l] = "idle"
    BY DEF Init
  <2>2. Untouched /\ RingOf(tail, head, count)
    BY Constants DEF Init, Untouched, RingOf, Wrapped
  <2> QED
    BY <2>1, <2>2 DEF Initialised, Alone, Untouched, Initialising
<1>2. AloneInv => SettledRing
  <2> SUFFICES ASSUME AloneInv, ~overlapped, \A l \in Loggers : pc[l] = "idle"
               PROVE  head = (tail + count) % SIZE /\ count = pushed
    BY DEF SettledRing
  <2>1. RingOf(tail, head, count) /\ count = pushed
    BY DEF AloneInv, Alone
  <2>2. tail + count \in 0 .. 2 * SIZE - 1
    BY <2>1, Constants DEF AloneInv, Types, RingOf, Slots
  <2> QED
    BY <2>1, <2>2, Wrap DEF RingOf
<1> QED
  BY <1>1, <1>2, AloneStep, PTL DEF Spec

----------------------------------------------------------------------------
\* How many sets of k there are in 1 .. n: the limit is one of these numbers.
Choose(n, k) == Cardinality(kSubset(k, 1 .. n))

\* It is a number.
LEMMA Choosing ==
  ASSUME NEW n \in Nat, NEW k \in Nat
  PROVE  /\ IsFiniteSet(1 .. n) /\ Cardinality(1 .. n) = n
         /\ IsFiniteSet(kSubset(k, 1 .. n)) /\ Choose(n, k) \in Nat
<1>1. IsFiniteSet(1 .. n) /\ Cardinality(1 .. n) = n
  BY FS_Interval
<1>2. IsFiniteSet(SUBSET (1 .. n)) /\ kSubset(k, 1 .. n) \in SUBSET SUBSET (1 .. n)
  BY <1>1, FS_SUBSET DEF kSubset
<1>3. IsFiniteSet(kSubset(k, 1 .. n))
  BY <1>2, FS_Subset
<1> QED
  BY <1>1, <1>3, FS_CardinalityType DEF Choose

\* Single elements.
LEMMA ChooseOne == \A n \in Nat : Choose(n, 1) = n
<1> SUFFICES ASSUME NEW n \in Nat PROVE Choose(n, 1) = n
  OBVIOUS
<1> DEFINE S == kSubset(1, 1 .. n)
           f == [x \in 1 .. n |-> {x}]
<1>1. IsFiniteSet(1 .. n) /\ Cardinality(1 .. n) = n
  BY Choosing
<1>2. \A x \in 1 .. n : {x} \in S
  BY FS_Singleton DEF kSubset
<1>3. ASSUME NEW T \in S PROVE \E x \in 1 .. n : T = {x}
  <2>1. T \in SUBSET (1 .. n) /\ Cardinality(T) = 1
    BY <1>3 DEF kSubset
  <2>2. IsFiniteSet(T)
    BY <1>1, <2>1, FS_Subset
  <2>3. PICK x : T = {x}
    BY <2>1, <2>2, FS_Singleton
  <2> QED
    BY <2>1, <2>3
<1> HIDE DEF S
<1>4. f \in Bijection(1 .. n, S)
  BY <1>2, <1>3 DEF Bijection, Injection, Surjection, IsInjective
<1>5. Cardinality(S) = n
  BY <1>1, <1>4, FS_Bijection DEF ExistsBijection
<1> QED
  BY <1>5 DEF Choose, S

\* There are no sets larger than the whole.
LEMMA ChooseNone ==
  ASSUME NEW n \in Nat, NEW k \in Nat, n < k
  PROVE  Choose(n, k) = 0
<1>1. ASSUME NEW T \in SUBSET (1 .. n) PROVE Cardinality(T) # k
  <2>1. IsFiniteSet(1 .. n) /\ Cardinality(1 .. n) = n
    BY Choosing
  <2>2. IsFiniteSet(T) /\ Cardinality(T) <= n
    BY <2>1, FS_Subset
  <2>3. Cardinality(T) \in Nat
    BY <2>2, FS_CardinalityType
  <2> QED
    BY <2>2, <2>3
<1>2. kSubset(k, 1 .. n) = {}
  BY <1>1 DEF kSubset
<1> QED
  BY <1>2, FS_EmptySet DEF Choose

\* A set of 1 .. n + 1 has the last element or not.
LEMMA Pascal ==
  ASSUME NEW n \in Nat, NEW k \in Nat
  PROVE  Choose(n + 1, k + 1) = Choose(n, k + 1) + Choose(n, k)
<1> DEFINE A == kSubset(k + 1, 1 .. n)
           B == kSubset(k, 1 .. n)
           C == kSubset(k + 1, 1 .. n + 1)
           D == {T \cup {n + 1} : T \in B}
           f == [T \in B |-> T \cup {n + 1}]
<1>1. 1 .. n + 1 = (1 .. n) \cup {n + 1} /\ n + 1 \notin 1 .. n
  OBVIOUS
<1>2. IsFiniteSet(A) /\ IsFiniteSet(B) /\ Cardinality(A) \in Nat /\ Cardinality(B) \in Nat
  <2>1. k \in Nat /\ k + 1 \in Nat
    OBVIOUS
  <2> QED
    BY <2>1, Choosing DEF Choose
<1>3. \A T \in SUBSET (1 .. n + 1) : IsFiniteSet(T) /\ Cardinality(T) \in Nat
  <2>1. IsFiniteSet(1 .. n + 1)
    BY FS_Interval
  <2>2. \A T \in SUBSET (1 .. n + 1) : IsFiniteSet(T)
    BY <2>1, FS_Subset
  <2> QED
    BY <2>2, FS_CardinalityType
<1>4. \A T \in SUBSET (1 .. n) : Cardinality(T \cup {n + 1}) = Cardinality(T) + 1
  BY <1>1, <1>3, FS_AddElement
<1>5. A \subseteq C
  BY <1>1 DEF kSubset
<1>6. D \subseteq C
  <2> SUFFICES ASSUME NEW T \in B PROVE T \cup {n + 1} \in C
    OBVIOUS
  <2>1. T \in SUBSET (1 .. n) /\ Cardinality(T) = k
    BY DEF kSubset
  <2>2. T \cup {n + 1} \in SUBSET (1 .. n + 1) /\ Cardinality(T \cup {n + 1}) = k + 1
    BY <1>1, <1>4, <2>1
  <2> QED
    BY <2>2 DEF kSubset
<1>7. ASSUME NEW U \in C, U \notin A PROVE U \in D
  <2>1. U \in SUBSET (1 .. n + 1) /\ Cardinality(U) = k + 1
    BY <1>7 DEF kSubset
  <2>2. n + 1 \in U
    <3>1. U \notin SUBSET (1 .. n)
      BY <1>7, <2>1 DEF kSubset
    <3> QED
      BY <1>1, <2>1, <3>1
  <2>3. IsFiniteSet(U) /\ Cardinality(U \ {n + 1}) = k
    BY <1>3, <2>1, <2>2, FS_RemoveElement
  <2>4. U \ {n + 1} \in B
    BY <1>1, <2>1, <2>3 DEF kSubset
  <2>5. U = (U \ {n + 1}) \cup {n + 1}
    BY <2>2
  <2> QED
    BY <2>4, <2>5
<1>8. C = A \cup D /\ A \cap D = {}
  <2>1. \A T \in A : n + 1 \notin T
    BY <1>1 DEF kSubset
  <2>2. \A T \in D : n + 1 \in T
    OBVIOUS
  <2> QED
    BY <1>5, <1>6, <1>7, <2>1, <2>2
<1>9. f \in Bijection(B, D)
  <2>1. \A T \in B : n + 1 \notin T
    BY <1>1 DEF kSubset
  <2> HIDE DEF B
  <2>2. \A T, U \in B : T \cup {n + 1} = U \cup {n + 1} => T = U
    BY <2>1
  <2>3. f \in [B -> D]
    OBVIOUS
  <2>4. f \in Injection(B, D)
    BY <2>2, <2>3 DEF Injection, IsInjective
  <2>5. f \in Surjection(B, D)
    BY <2>3 DEF Surjection
  <2> QED
    BY <2>4, <2>5 DEF Bijection
<1> HIDE DEF A, B, C, D, f
<1>10. IsFiniteSet(D) /\ Cardinality(D) = Cardinality(B)
  BY <1>2, <1>9, FS_Bijection DEF ExistsBijection
<1>11. Cardinality(A \cup D) = Cardinality(A) + Cardinality(D) - Cardinality(A \cap D)
  BY <1>2, <1>10, FS_Union
<1>12. Cardinality(C) = Cardinality(A) + Cardinality(B)
  BY <1>2, <1>8, <1>10, <1>11, FS_EmptySet
<1> QED
  BY <1>12 DEF Choose, A, B, C

\* By how much m threads that hold a count not more than r below the size can raise
\* it: a diagonal of Pascal's triangle.
Gain(m, r) == IF m < 2 THEN 0 ELSE Choose(m + r - 2, r + 1)

\* It adds up along a diagonal.
LEMMA GainAdds ==
  ASSUME NEW m \in Nat, m > 0
  PROVE  /\ Gain(m + 1, 0) = m - 1
         /\ \A r \in Nat : Gain(m + 1, r + 1) = Gain(m + 1, r) + Gain(m, r + 1)
<1>1. m - 1 \in Nat /\ m + 1 >= 2 /\ (m + 1) + 0 - 2 = m - 1 /\ 0 + 1 = 1
  OBVIOUS
<1>2. Gain(m + 1, 0) = m - 1
  BY <1>1, ChooseOne DEF Gain
<1>3. ASSUME NEW r \in Nat PROVE Gain(m + 1, r + 1) = Gain(m + 1, r) + Gain(m, r + 1)
  <2>1. /\ Gain(m + 1, r + 1) = Choose((m + 1) + (r + 1) - 2, (r + 1) + 1)
        /\ Gain(m + 1, r) = Choose((m + 1) + r - 2, r + 1)
    BY DEF Gain
  <2>2. (m + 1) + (r + 1) - 2 = (m + r - 1) + 1 /\ (m + 1) + r - 2 = m + r - 1 /\ m + r - 1 \in Nat
        /\ r + 1 \in Nat
    OBVIOUS
  <2>3. Gain(m + 1, r + 1) = Choose(m + r - 1, (r + 1) + 1) + Gain(m + 1, r)
        /\ Choose(m + r - 1, (r + 1) + 1) \in Nat /\ Gain(m + 1, r) \in Nat
    <3>1. (r + 1) + 1 \in Nat
      OBVIOUS
    <3>2. Choose((m + r - 1) + 1, (r + 1) + 1)
            = Choose(m + r - 1, (r + 1) + 1) + Choose(m + r - 1, r + 1)
      BY <2>2, Pascal
    <3> QED
      BY <2>1, <2>2, <3>1, <3>2, Choosing
  <2>4. Gain(m, r + 1) = Choose(m + r - 1, (r + 1) + 1)
    <3>1. CASE m = 1
      <4>1. m + r - 1 < (r + 1) + 1 /\ (r + 1) + 1 \in Nat
        BY <3>1
      <4> QED
        BY <2>2, <3>1, <4>1, ChooseNone DEF Gain
    <3>2. CASE m # 1
      <4>1. m + (r + 1) - 2 = m + r - 1 /\ ~(m < 2)
        BY <3>2
      <4> QED
        BY <4>1 DEF Gain
    <3> QED
      BY <3>1, <3>2
  <2> QED
    BY <2>3, <2>4
<1> QED
  BY <1>2, <1>3

\* It is a number.
LEMMA GainNat ==
  ASSUME NEW m \in Nat, NEW r \in Nat
  PROVE  Gain(m, r) \in Nat
<1>1. m >= 2 => m + r - 2 \in Nat /\ r + 1 \in Nat
  OBVIOUS
<1> QED
  BY <1>1, Choosing DEF Gain

\* A set of numbers has a least one.
LEMMA Least ==
  ASSUME NEW T \in SUBSET Nat, T # {}
  PROVE  \E x \in T : \A y \in T : x <= y
<1> DEFINE R == OpToRel(<, Nat)
<1>1. IsWellFoundedOn(R, Nat)
  BY NatLessThanWellFounded, Zenon
<1>2. \A p \in Nat, q \in Nat : p < q => <<p, q>> \in R
  BY DEF OpToRel
<1> HIDE DEF R
<1>3. PICK x \in T : \A y \in T : ~(<<y, x>> \in R)
  BY <1>1, WFMin
<1>4. \A y \in T : y \in Nat /\ x \in Nat /\ ~(y < x)
  BY <1>2, <1>3
<1> QED
  BY <1>4

\* More threads gain no less.
LEMMA GainGrows ==
  ASSUME NEW r \in Nat, r > 0
  PROVE  \A k, m \in Nat : k <= m => Gain(k, r) <= Gain(m, r)
<1> SUFFICES ASSUME NEW k \in Nat PROVE \A m \in Nat : k <= m => Gain(k, r) <= Gain(m, r)
  OBVIOUS
<1> DEFINE Bad == {m \in Nat : k <= m /\ ~(Gain(k, r) <= Gain(m, r))}
<1> SUFFICES ASSUME Bad # {} PROVE FALSE
  OBVIOUS
<1>1. PICK m \in Bad : \A y \in Bad : m <= y
  <2>1. Bad \in SUBSET Nat
    OBVIOUS
  <2> HIDE DEF Bad
  <2> QED
    BY <2>1, Least
<1>2. m \in Nat /\ k <= m /\ ~(Gain(k, r) <= Gain(m, r))
  BY <1>1
<1>3. Gain(k, r) \in Nat /\ Gain(m, r) \in Nat
  BY <1>2, GainNat
<1>4. m # k
  BY <1>2, <1>3
<1>5. m - 1 \in Nat /\ k <= m - 1 /\ m - 1 \notin Bad
  BY <1>1, <1>2, <1>4
<1>6. Gain(k, r) <= Gain(m - 1, r) /\ Gain(m - 1, r) \in Nat
  BY <1>5, GainNat
<1> HIDE DEF Bad
<1>7. Gain(m - 1, r) <= Gain(m, r)
  <2>1. CASE m = 1
    BY <1>3, <2>1 DEF Gain
  <2>2. CASE m # 1
    <3>1. m - 1 > 0 /\ r - 1 \in Nat /\ (m - 1) + 1 = m /\ (r - 1) + 1 = r
      BY <1>2, <1>4, <1>5, <2>2
    <3>2. Gain(m, r) = Gain(m, r - 1) + Gain(m - 1, r)
      BY <1>5, <3>1, GainAdds
    <3>3. Gain(m, r - 1) \in Nat
      BY <1>2, <3>1, GainNat
    <3> QED
      BY <1>6, <3>2, <3>3
  <2> QED
    BY <2>1, <2>2
<1> QED
  BY <1>2, <1>3, <1>6, <1>7

----------------------------------------------------------------------------
\* The count as threads race for it: where they stand (st), what they loaded (val)
\* and the count (n).  A thread at "count" has found room, one at "grow" has loaded
\* the count, too; one at "clear" is about to initialise it.
Standings == {"count", "grow", "clear", "free"}

\* The threads that hold, or would load now, a count not more than r below the size:
\* who stores that count next is not yet one of them, and joins them.
Above(st, val, n, r) ==
  {l \in Loggers : st[l] # "clear" /\ (IF st[l] = "grow" THEN val[l] ELSE n) + r >= SIZE}

\* When the buffer is full, the free threads have stored their last counts.
Frees(st, n) == IF n < SIZE THEN 0 ELSE Cardinality({l \in Loggers : st[l] = "free"})

\* The gains add up: s[r] is what stores of counts up to r below the size have made
\* possible, and each such store is paid for by a thread that joins those above it.
Gained(st, val, n, s) ==
  /\ s \in [0 .. SIZE -> Nat] /\ s[0] = 0
  /\ \A r \in 1 .. SIZE : s[r] <= s[r - 1] + Gain(Cardinality(Above(st, val, n, r)), r)

\* No count, in the buffer or in a register, exceeds x.
AtMost(st, val, n, x) == n <= x /\ \A l \in Loggers : st[l] = "grow" => val[l] <= x

Kept(st, val, n) ==
  \E s : Gained(st, val, n, s) /\ AtMost(st, val, n, SIZE - 1 + s[SIZE] + Frees(st, n))

\* What the definitions are about.
Typed(st, val, n) == st \in [Loggers -> Standings] /\ val \in [Loggers -> Nat] /\ n \in Nat

\* The sets of threads are finite.
LEMMA Crowds ==
  ASSUME NEW st, NEW val, NEW n \in Nat
  PROVE  /\ \A T \in SUBSET Loggers : IsFiniteSet(T) /\ Cardinality(T) \in Nat
         /\ \A r : Above(st, val, n, r) \in SUBSET Loggers
         /\ \A r : Cardinality(Above(st, val, n, r)) \in Nat
         /\ Frees(st, n) \in Nat
<1>1. \A T \in SUBSET Loggers : IsFiniteSet(T)
  BY Constants, FS_Subset
<1>2. \A T \in SUBSET Loggers : Cardinality(T) \in Nat
  BY <1>1, FS_CardinalityType
<1>3. \A r : Above(st, val, n, r) \in SUBSET Loggers
  BY DEF Above
<1>4. {l \in Loggers : st[l] = "free"} \in SUBSET Loggers
  OBVIOUS
<1> QED
  BY <1>1, <1>2, <1>3, <1>4 DEF Frees

\* A smaller set of threads is of no greater number.
LEMMA Fewer ==
  ASSUME NEW T \in SUBSET Loggers, NEW U \in SUBSET T
  PROVE  Cardinality(U) <= Cardinality(T)
<1>1. IsFiniteSet(T)
  BY Constants, FS_Subset
<1> QED
  BY <1>1, FS_Subset

\* The gains up to the room r leave m - 1 of the next number.
LEMMA Cap ==
  ASSUME NEW st, NEW val, NEW n \in Nat, NEW s, Gained(st, val, n, s),
         NEW r \in 0 .. SIZE, NEW m \in Nat, m > 0,
         \A j \in 1 .. r : Cardinality(Above(st, val, n, j)) <= m
  PROVE  s[r] + (m - 1) <= Gain(m + 1, r)
<1> USE Constants
<1> DEFINE Bad == {j \in 0 .. r : ~(s[j] + (m - 1) <= Gain(m + 1, j))}
<1> SUFFICES ASSUME Bad # {} PROVE FALSE
  OBVIOUS
<1>1. PICK j \in Bad : \A k \in Bad : j <= k
  <2>1. Bad \in SUBSET Nat
    OBVIOUS
  <2> HIDE DEF Bad
  <2> QED
    BY <2>1, Least
<1>2. j \in 0 .. r /\ ~(s[j] + (m - 1) <= Gain(m + 1, j))
  BY <1>1
<1>3. s \in [0 .. SIZE -> Nat] /\ s[0] = 0
  BY DEF Gained
<1>4. j # 0
  <2>1. Gain(m + 1, 0) = m - 1
    BY GainAdds
  <2> QED
    BY <1>2, <1>3, <2>1
<1>5. j - 1 \in 0 .. r /\ j - 1 \in Nat /\ j \in 1 .. r /\ j \in 1 .. SIZE /\ j - 1 \in 0 .. SIZE
  BY <1>2, <1>4
<1>6. s[j - 1] + (m - 1) <= Gain(m + 1, j - 1)
  <2>1. j - 1 \notin Bad
    BY <1>1, <1>2
  <2> QED
    BY <1>5, <2>1
<1> HIDE DEF Bad
<1>7. s[j] <= s[j - 1] + Gain(Cardinality(Above(st, val, n, j)), j)
  BY <1>5 DEF Gained
<1>8. Gain(Cardinality(Above(st, val, n, j)), j) <= Gain(m, j)
  <2>1. Cardinality(Above(st, val, n, j)) \in Nat /\ Cardinality(Above(st, val, n, j)) <= m
    BY <1>5, Crowds
  <2>2. j \in Nat /\ j > 0
    BY <1>5
  <2> QED
    BY <2>1, <2>2, GainGrows
<1>9. Gain(m + 1, j) = Gain(m + 1, j - 1) + Gain(m, j)
  <2>1. (j - 1) + 1 = j
    BY <1>5
  <2> QED
    BY <1>5, <2>1, GainAdds
<1>10. /\ s[j] \in Nat /\ s[j - 1] \in Nat /\ Gain(m + 1, j - 1) \in Nat /\ Gain(m, j) \in Nat
       /\ Gain(Cardinality(Above(st, val, n, j)), j) \in Nat
  <2>1. j \in Nat /\ m + 1 \in Nat /\ Cardinality(Above(st, val, n, j)) \in Nat
    BY <1>5, Crowds
  <2>2. s[j] \in Nat /\ s[j - 1] \in Nat
    BY <1>3, <1>5
  <2> QED
    BY <1>5, <2>1, <2>2, GainNat
<1> QED
  BY <1>2, <1>6, <1>7, <1>8, <1>9, <1>10

\* What is kept as long as no thread leaves Above.
LEMMA GainedOn ==
  ASSUME NEW st, NEW val, NEW n \in Nat, NEW s, Gained(st, val, n, s),
         NEW st2, NEW val2, NEW n2 \in Nat,
         \A r \in 1 .. SIZE : Above(st, val, n, r) \subseteq Above(st2, val2, n2, r)
  PROVE  Gained(st2, val2, n2, s)
<1> USE Constants
<1> SUFFICES ASSUME NEW r \in 1 .. SIZE
             PROVE  s[r] <= s[r - 1] + Gain(Cardinality(Above(st2, val2, n2, r)), r)
  BY DEF Gained
<1> DEFINE a == Cardinality(Above(st, val, n, r))
           b == Cardinality(Above(st2, val2, n2, r))
<1>1. s[r] <= s[r - 1] + Gain(a, r)
  BY DEF Gained
<1>2. a \in Nat /\ b \in Nat /\ a <= b
  <2>1. Above(st2, val2, n2, r) \in SUBSET Loggers
        /\ Above(st, val, n, r) \in SUBSET Above(st2, val2, n2, r)
    BY Crowds
  <2> QED
    BY <2>1, Crowds, Fewer
<1>3. s[r] \in Nat /\ s[r - 1] \in Nat
  BY DEF Gained
<1> HIDE DEF a, b
<1>4. Gain(a, r) <= Gain(b, r) /\ Gain(a, r) \in Nat /\ Gain(b, r) \in Nat
  <2>1. r \in Nat /\ r > 0
    OBVIOUS
  <2> QED
    BY <1>2, <2>1, GainGrows, GainNat
<1>5. s[r] <= s[r - 1] + Gain(b, r)
  BY <1>1, <1>3, <1>4
<1> QED
  BY <1>5 DEF b

\* Before anything is counted, or when nothing is past the size.
LEMMA KeptLow ==
  ASSUME NEW st, NEW val \in [Loggers -> Nat], NEW n \in Nat,
         AtMost(st, val, n, SIZE - 1)
  PROVE  Kept(st, val, n)
<1> USE Constants
<1> DEFINE s == [j \in 0 .. SIZE |-> 0]
<1>1. s \in [0 .. SIZE -> Nat] /\ s[0] = 0 /\ s[SIZE] = 0
  OBVIOUS
<1>2. ASSUME NEW r \in 1 .. SIZE PROVE s[r] <= s[r - 1] + Gain(Cardinality(Above(st, val, n, r)), r)
  <2>1. s[r] = 0 /\ s[r - 1] = 0
    OBVIOUS
  <2>2. Gain(Cardinality(Above(st, val, n, r)), r) \in Nat
    <3>1. Cardinality(Above(st, val, n, r)) \in Nat /\ r \in Nat
      BY Crowds
    <3> QED
      BY <3>1, GainNat
  <2> HIDE DEF s
  <2> QED
    BY <2>1, <2>2
<1> HIDE DEF s
<1>3. Gained(st, val, n, s)
  BY <1>1, <1>2 DEF Gained
<1>4. AtMost(st, val, n, SIZE - 1 + s[SIZE] + Frees(st, n))
  <2>1. Frees(st, n) \in Nat
    BY Crowds
  <2>2. \A x \in Nat : x <= SIZE - 1 => x <= SIZE - 1 + s[SIZE] + Frees(st, n)
    BY <1>1, <2>1
  <2> QED
    BY <2>2 DEF AtMost
<1> QED
  BY <1>3, <1>4 DEF Kept

\* A thread stores a count r below the size, by an old load or by initialising the
\* buffer again: those above stay where they are, and what is free may count again.
LEMMA Drops ==
  ASSUME NEW st, NEW val, NEW n, Typed(st, val, n), Kept(st, val, n),
         NEW st2, NEW val2, NEW n2, Typed(st2, val2, n2),
         NEW l \in Loggers, NEW r \in 1 .. SIZE, n2 = SIZE - r,
         l \notin Above(st, val, n, r), st[l] # "free", st2[l] = "free",
         \A o \in Loggers \ {l} : st2[o] = st[o] /\ val2[o] = val[o]
  PROVE  Kept(st2, val2, n2)
<1> USE Constants
<1>1. n \in Nat /\ n2 \in Nat /\ n2 <= SIZE - 1 /\ n2 < SIZE /\ n2 + r = SIZE /\ val2 \in [Loggers -> Nat]
  BY DEF Typed
<1>2. CASE \A o \in Loggers : st2[o] = "grow" => val2[o] <= SIZE - 1
  BY <1>1, <1>2, KeptLow DEF AtMost
<1>3. CASE \E o \in Loggers : st2[o] = "grow" /\ ~(val2[o] <= SIZE - 1)
  <2>1. PICK o \in Loggers : st2[o] = "grow" /\ ~(val2[o] <= SIZE - 1)
    BY <1>3
  <2>2. o # l /\ st[o] = "grow" /\ val[o] >= SIZE /\ val[o] \in Nat
    BY <2>1 DEF Typed
  <2>3. PICK s : Gained(st, val, n, s) /\ AtMost(st, val, n, SIZE - 1 + s[SIZE] + Frees(st, n))
    BY DEF Kept
  <2>4. s \in [0 .. SIZE -> Nat] /\ s[0] = 0
    BY <2>3 DEF Gained
  <2> DEFINE f == Frees(st, n)
             m == Cardinality(Above(st, val, n, r))
             t == [j \in 0 .. SIZE |-> IF j < r THEN 0 ELSE s[j] + f]
             New(j) == Above(st2, val2, n2, j)
  <2>5. f \in Nat /\ m \in Nat
    BY <1>1, Crowds
  <2>6. t \in [0 .. SIZE -> Nat] /\ t[0] = 0 /\ t[SIZE] = s[SIZE] + f
    BY <2>4, <2>5
  <2>7. o \in Above(st, val, n, r)
    BY <2>2 DEF Above
  <2>8. f + 1 <= m
    <3>1. CASE n < SIZE
      <4>1. {o} \in SUBSET Above(st, val, n, r) /\ Cardinality({o}) = 1
        BY <2>7, FS_Singleton
      <4>2. 1 <= m
        BY <1>1, <4>1, Crowds, Fewer
      <4> QED
        BY <2>5, <3>1, <4>2 DEF Frees
    <3>2. CASE ~(n < SIZE)
      <4> DEFINE F == {k \in Loggers : st[k] = "free"}
      <4>1. F \cup {o} \in SUBSET Above(st, val, n, r)
        BY <1>1, <2>7, <3>2 DEF Above
      <4>2. F \in SUBSET Loggers /\ o \notin F
        BY <2>2
      <4>3. IsFiniteSet(F)
        BY <1>1, <4>2, Crowds
      <4>4. Cardinality(F \cup {o}) = Cardinality(F) + 1
        BY <4>2, <4>3, FS_AddElement
      <4>5. Cardinality(F \cup {o}) <= m
        BY <1>1, <4>1, Crowds, Fewer
      <4> QED
        BY <3>2, <4>4, <4>5 DEF Frees
    <3> QED
      BY <3>1, <3>2
  <2>9. ASSUME NEW j \in 1 .. SIZE, j >= r PROVE Above(st, val, n, j) \cup {l} \subseteq New(j)
    <3>1. n2 + j >= SIZE
      BY <1>1, <2>9
    <3> QED
      BY <3>1 DEF Above
  <2>10. m + 1 <= Cardinality(New(r))
    <3>1. Above(st, val, n, r) \cup {l} \in SUBSET New(r) /\ New(r) \in SUBSET Loggers
      BY <1>1, <2>9, Crowds
    <3>2. IsFiniteSet(Above(st, val, n, r))
      BY <1>1, Crowds
    <3>3. Cardinality(Above(st, val, n, r) \cup {l}) = m + 1
      BY <3>2, FS_AddElement
    <3>4. Cardinality(Above(st, val, n, r) \cup {l}) <= Cardinality(New(r))
      BY <3>1, Fewer
    <3> QED
      BY <3>3, <3>4
  <2>11. s[r] + (m - 1) <= Gain(m + 1, r)
    <3>1. ASSUME NEW j \in 1 .. r PROVE Cardinality(Above(st, val, n, j)) <= m
      <4>1. Above(st, val, n, j) \in SUBSET Above(st, val, n, r)
        BY <1>1 DEF Above, Typed
      <4> QED
        BY <1>1, <4>1, Crowds, Fewer
    <3>2. m > 0 /\ r \in 0 .. SIZE
      BY <2>5, <2>8
    <3> HIDE DEF m
    <3> QED
      BY <1>1, <2>3, <2>5, <3>1, <3>2, Cap
  <2>12. Cardinality(New(r)) \in Nat /\ \A j \in 1 .. SIZE : Gain(Cardinality(New(j)), j) \in Nat
    <3>1. \A j \in 1 .. SIZE : Cardinality(New(j)) \in Nat /\ j \in Nat
      BY <1>1, Crowds
    <3> HIDE DEF New
    <3> QED
      BY <3>1, GainNat
  <2>13. s[r] + f <= Gain(Cardinality(New(r)), r)
    <3>1. Gain(m + 1, r) <= Gain(Cardinality(New(r)), r) /\ Gain(m + 1, r) \in Nat
      <4>1. m + 1 \in Nat /\ r \in Nat /\ r > 0
        BY <2>5
      <4> HIDE DEF m, New
      <4> QED
        BY <2>10, <2>12, <4>1, GainGrows, GainNat
    <3>2. s[r] \in Nat
      BY <2>4
    <3> HIDE DEF m, f, New
    <3> QED
      BY <2>5, <2>8, <2>11, <2>12, <3>1, <3>2
  <2>14. ASSUME NEW j \in 1 .. SIZE PROVE t[j] <= t[j - 1] + Gain(Cardinality(New(j)), j)
    <3>1. Gain(Cardinality(New(j)), j) \in Nat /\ j - 1 \in 0 .. SIZE /\ j \in 0 .. SIZE
      BY <2>12
    <3>2. s[j] \in Nat /\ s[j - 1] \in Nat
      BY <2>4, <3>1
    <3>3. CASE j < r
      <4>1. t[j] = 0 /\ t[j - 1] = 0
        BY <3>1, <3>3
      <4> HIDE DEF t
      <4> QED
        BY <3>1, <4>1
    <3>4. CASE j = r
      <4>1. t[j] = s[r] + f /\ t[j - 1] = 0
        BY <3>1, <3>4
      <4> HIDE DEF t, f, New
      <4> QED
        BY <2>13, <3>1, <3>4, <4>1
    <3>5. CASE j > r
      <4>1. t[j] = s[j] + f /\ t[j - 1] = s[j - 1] + f
        BY <3>1, <3>5
      <4>2. s[j] <= s[j - 1] + Gain(Cardinality(Above(st, val, n, j)), j)
        BY <2>3 DEF Gained
      <4>3. Gain(Cardinality(Above(st, val, n, j)), j) <= Gain(Cardinality(New(j)), j)
            /\ Gain(Cardinality(Above(st, val, n, j)), j) \in Nat
        <5>1. Above(st, val, n, j) \in SUBSET New(j) /\ New(j) \in SUBSET Loggers
          BY <1>1, <2>9, <3>5, Crowds
        <5>2. Cardinality(Above(st, val, n, j)) <= Cardinality(New(j))
          BY <5>1, Fewer
        <5>3. /\ Cardinality(Above(st, val, n, j)) \in Nat /\ Cardinality(New(j)) \in Nat
              /\ j \in Nat /\ j > 0
          BY <1>1, Crowds
        <5> HIDE DEF New
        <5> QED
          BY <5>2, <5>3, GainGrows, GainNat
      <4> HIDE DEF t, f, New
      <4> QED
        BY <2>5, <3>1, <3>2, <4>1, <4>2, <4>3
    <3> QED
      BY <3>3, <3>4, <3>5
  <2>15. Gained(st2, val2, n2, t)
    <3> HIDE DEF t
    <3> QED
      BY <2>6, <2>14 DEF Gained
  <2>16. AtMost(st2, val2, n2, SIZE - 1 + t[SIZE] + Frees(st2, n2))
    <3>1. Frees(st2, n2) = 0 /\ s[SIZE] \in Nat
      BY <1>1, <2>4 DEF Frees
    <3>2. \A k \in Loggers : st2[k] = "grow" => val2[k] <= SIZE - 1 + s[SIZE] + f
      <4> SUFFICES ASSUME NEW k \in Loggers, st2[k] = "grow" PROVE val2[k] <= SIZE - 1 + s[SIZE] + f
        OBVIOUS
      <4>1. k # l
        OBVIOUS
      <4> QED
        BY <2>3, <4>1 DEF AtMost
    <3> HIDE DEF t, f
    <3>3. SIZE - 1 + t[SIZE] + Frees(st2, n2) = SIZE - 1 + s[SIZE] + f
      BY <2>5, <2>6, <3>1
    <3>4. n2 <= SIZE - 1 + s[SIZE] + f
      BY <1>1, <2>5, <3>1
    <3> QED
      BY <3>2, <3>3, <3>4 DEF AtMost
  <2> HIDE DEF t
  <2> QED
    BY <2>15, <2>16 DEF Kept
<1> QED
  BY <1>2, <1>3

\* A thread stores a count that fills the buffer or exceeds it: it is one more of
\* those that may count again.
LEMMA Raises ==
  ASSUME NEW st, NEW val, NEW n, Typed(st, val, n), Kept(st, val, n),
         NEW st2, NEW val2, NEW n2, Typed(st2, val2, n2),
         NEW l \in Loggers, st[l] = "grow", st2[l] = "free", n2 = val[l] + 1, n2 >= SIZE,
         \A o \in Loggers \ {l} : st2[o] = st[o] /\ val2[o] = val[o]
  PROVE  Kept(st2, val2, n2)
<1> USE Constants
<1>1. n \in Nat /\ n2 \in Nat /\ val[l] \in Nat
  BY DEF Typed
<1>2. PICK s : Gained(st, val, n, s) /\ AtMost(st, val, n, SIZE - 1 + s[SIZE] + Frees(st, n))
  BY DEF Kept
<1>3. Gained(st2, val2, n2, s)
  <2>1. ASSUME NEW r \in 1 .. SIZE PROVE Above(st, val, n, r) \subseteq Above(st2, val2, n2, r)
    <3>1. n2 + r >= SIZE
      BY <1>1
    <3> QED
      BY <3>1 DEF Above
  <2> QED
    BY <1>1, <1>2, <2>1, GainedOn
<1>4. Frees(st, n) + 1 <= Frees(st2, n2) /\ Frees(st, n) \in Nat /\ Frees(st2, n2) \in Nat
  <2> DEFINE F == {k \in Loggers : st[k] = "free"}
             G == {k \in Loggers : st2[k] = "free"}
  <2>1. F \cup {l} = G /\ l \notin F /\ F \in SUBSET Loggers
    BY DEF Typed
  <2>2. IsFiniteSet(F) /\ Cardinality(F) \in Nat
    BY <1>1, <2>1, Crowds
  <2>3. Cardinality(F \cup {l}) = Cardinality(F) + 1
    BY <2>1, <2>2, FS_AddElement
  <2>4. Frees(st2, n2) = Cardinality(F) + 1
    BY <1>1, <2>1, <2>3 DEF Frees
  <2>5. Frees(st, n) = 0 \/ Frees(st, n) = Cardinality(F)
    BY DEF Frees
  <2> HIDE DEF F, G
  <2> QED
    BY <2>2, <2>4, <2>5
<1>5. s[SIZE] \in Nat
  BY <1>2 DEF Gained
<1>6. AtMost(st2, val2, n2, SIZE - 1 + s[SIZE] + Frees(st2, n2))
  <2>1. n2 <= SIZE - 1 + s[SIZE] + Frees(st2, n2)
    <3>1. val[l] <= SIZE - 1 + s[SIZE] + Frees(st, n)
      BY <1>2 DEF AtMost
    <3> QED
      BY <1>1, <1>4, <1>5, <3>1
  <2>2. ASSUME NEW o \in Loggers, st2[o] = "grow" PROVE val2[o] <= SIZE - 1 + s[SIZE] + Frees(st2, n2)
    <3>1. o # l /\ val2[o] = val[o] /\ val[o] \in Nat /\ st[o] = "grow"
      BY <2>2 DEF Typed
    <3>2. val[o] <= SIZE - 1 + s[SIZE] + Frees(st, n)
      BY <1>2, <3>1 DEF AtMost
    <3> QED
      BY <1>4, <1>5, <3>1, <3>2
  <2> QED
    BY <2>1, <2>2 DEF AtMost
<1> QED
  BY <1>3, <1>6 DEF Kept

\* A thread finds room, or loads the count, or does something else.
LEMMA Stays ==
  ASSUME NEW st, NEW val, NEW n, Typed(st, val, n), Kept(st, val, n),
         NEW st2, NEW val2, Typed(st2, val2, n),
         NEW l \in Loggers, st[l] # "grow", st2[l] = "grow" => val2[l] = n,
         st[l] = "clear" <=> st2[l] = "clear",
         (st[l] = "free" <=> st2[l] = "free") \/ n < SIZE,
         \A o \in Loggers \ {l} : st2[o] = st[o] /\ val2[o] = val[o]
  PROVE  Kept(st2, val2, n)
<1>1. n \in Nat
  BY DEF Typed
<1>2. PICK s : Gained(st, val, n, s) /\ AtMost(st, val, n, SIZE - 1 + s[SIZE] + Frees(st, n))
  BY DEF Kept
<1>3. Gained(st2, val2, n, s)
  <2>1. \A r \in 1 .. SIZE : Above(st, val, n, r) \subseteq Above(st2, val2, n, r)
    BY DEF Above
  <2> QED
    BY <1>1, <1>2, <2>1, GainedOn
<1>4. Frees(st2, n) = Frees(st, n)
  <2>1. CASE n < SIZE
    BY <2>1 DEF Frees
  <2>2. CASE ~(n < SIZE)
    <3>1. {k \in Loggers : st[k] = "free"} = {k \in Loggers : st2[k] = "free"}
      BY <2>2
    <3> QED
      BY <3>1 DEF Frees
  <2> QED
    BY <2>1, <2>2
<1>5. AtMost(st2, val2, n, SIZE - 1 + s[SIZE] + Frees(st2, n))
  BY <1>2, <1>4 DEF AtMost
<1> QED
  BY <1>3, <1>5 DEF Kept

\* The limit follows.
LEMMA WithinLimit ==
  ASSUME NEW st, NEW val, NEW n, Typed(st, val, n), Kept(st, val, n)
  PROVE  n <= Limit /\ Limit \in Nat
<1> USE Constants
<1> DEFINE N == Cardinality(Loggers)
<1>1. n \in Nat
  BY DEF Typed
<1>2. N \in Nat /\ N > 0
  <2>1. N \in Nat
    BY FS_CardinalityType
  <2>2. N # 0
    BY FS_EmptySet
  <2> QED
    BY <2>1, <2>2
<1>3. PICK s : Gained(st, val, n, s) /\ AtMost(st, val, n, SIZE - 1 + s[SIZE] + Frees(st, n))
  BY DEF Kept
<1>4. s[SIZE] \in Nat
  BY <1>3 DEF Gained
<1>5. Frees(st, n) <= N /\ Frees(st, n) \in Nat
  <2>1. Frees(st, n) \in Nat
    BY <1>1, Crowds
  <2>2. {k \in Loggers : st[k] = "free"} \in SUBSET Loggers /\ Loggers \in SUBSET Loggers
    OBVIOUS
  <2>3. Cardinality({k \in Loggers : st[k] = "free"}) <= N
    BY <2>2, Fewer
  <2> QED
    BY <1>2, <2>1, <2>3 DEF Frees
<1>6. s[SIZE] + (N - 1) <= Gain(N + 1, SIZE)
  <2>1. \A j \in 1 .. SIZE : Cardinality(Above(st, val, n, j)) <= N
    <3>1. \A j : Above(st, val, n, j) \in SUBSET Loggers /\ Loggers \in SUBSET Loggers
      BY <1>1, Crowds
    <3> QED
      BY <3>1, Fewer
  <2>2. SIZE \in 0 .. SIZE
    OBVIOUS
  <2> HIDE DEF N
  <2> QED
    BY <1>1, <1>2, <1>3, <2>1, <2>2, Cap
<1>7. Limit = SIZE + Gain(N + 1, SIZE) /\ Gain(N + 1, SIZE) \in Nat
  <2>1. (N + 1) + SIZE - 2 = N + SIZE - 1 /\ ~(N + 1 < 2) /\ N + 1 \in Nat
    BY <1>2
  <2>2. Gain(N + 1, SIZE) = Choose(N + SIZE - 1, SIZE + 1)
    BY <2>1 DEF Gain
  <2>3. Gain(N + 1, SIZE) \in Nat
    BY <2>1, GainNat
  <2> QED
    BY <2>2, <2>3 DEF Limit, Choose
<1>8. n <= SIZE - 1 + s[SIZE] + Frees(st, n)
  BY <1>3 DEF AtMost
<1> HIDE DEF N
<1> QED
  BY <1>1, <1>2, <1>4, <1>5, <1>6, <1>7, <1>8

----------------------------------------------------------------------------
\* The threads of the server that race for the count.

\* Where a logger stands.
Standing(l) ==
  CASE pc[l] \in {"count", "grow"} -> pc[l]
    [] pc[l] \in {"init_head", "init_tail", "init_count"} -> "clear"
    [] OTHER -> "free"

StandingOf == [l \in Loggers |-> Standing(l)]

Crowd == Kept(StandingOf, loaded, count)

\* Nothing is counted before the buffer is initialised.
Begun == ~buffer_initialized => count = 0

\* What the crowd is made of has its types.
LEMMA CrowdTyped == Types => Typed(StandingOf, loaded, count)
<1>1. \A l \in Loggers : Standing(l) \in Standings
  BY DEF Standing, Standings
<1> QED
  BY <1>1 DEF Types, Typed, StandingOf

\* A thread counts only in an initialised buffer.
LEMMA BegunStep == Types /\ Initialised /\ Begun /\ [Next]_vars => Begun'
<1> SUFFICES ASSUME Types, Initialised, Begun, [Next]_vars PROVE Begun'
  OBVIOUS
<1> USE DEF Begun
<1>1. ASSUME NEW l \in Loggers, Initialises(l) PROVE Begun'
  BY <1>1 DEF Initialises, Asks, InitHead, InitTail, InitCount, InitMessages, InitDone, indices
<1>2. ASSUME NEW l \in Loggers, Push(l) PROVE Begun'
  <2>1. StoreCount(l) => buffer_initialized'
    BY <1>2 DEF StoreCount, Goto, Initialised, Initialising
  <2>2. ~StoreCount(l) => count' = count
    BY <1>2 DEF Push, Copy, LoadHead, StoreHead, Test, LoadCount, LoadTail, StoreTail, indices
  <2>3. buffer_initialized' = buffer_initialized
    BY <1>2 DEF Push, Copy, LoadHead, StoreHead, Test, LoadCount, StoreCount, LoadTail, StoreTail
  <2> QED
    BY <2>1, <2>2, <2>3
<1>3. CASE Open \/ NextLine \/ WriteLine \/ Close \/ UNCHANGED vars
  BY <1>3 DEF Open, NextLine, WriteLine, Close, indices, history, vars
<1> QED
  BY <1>1, <1>2, <1>3 DEF Next

\* A step of a logger in logg.
LEMMA CrowdActs ==
  ASSUME Types, Types', Initialised, Begun, Crowd, NEW l \in Loggers, Initialises(l) \/ Push(l)
  PROVE  Crowd'
<1> USE Constants
<1>1. pc \in [Loggers -> Places] /\ loaded \in [Loggers -> Nat] /\ count \in Nat
      /\ loaded' \in [Loggers -> Nat] /\ count' \in Nat
  BY DEF Types
<1> DEFINE st == StandingOf
           new == StandingOf'
<1>2. Typed(st, loaded, count) /\ Typed(new, loaded', count') /\ Kept(st, loaded, count)
  <2>1. (Types => Typed(StandingOf, loaded, count))'
    BY CrowdTyped, PTL
  <2> QED
    BY <2>1, CrowdTyped DEF Crowd
<1>3. \A o \in Loggers \ {l} : pc'[o] = pc[o] /\ loaded'[o] = loaded[o]
  BY <1>1 DEF Initialises, Push, Asks, InitHead, InitTail, InitCount, InitMessages, InitDone, Copy,
              LoadHead, StoreHead, Test, LoadCount, StoreCount, LoadTail, StoreTail, Goto, Load, Forget
<1>4. \A o \in Loggers \ {l} : new[o] = st[o] /\ loaded'[o] = loaded[o]
  BY <1>3 DEF StandingOf, Standing
<1>5. st[l] = Standing(l) /\ new[l] = Standing(l)'
  BY DEF StandingOf
<1> SUFFICES Kept(new, loaded', count')
  BY DEF Crowd
<1> HIDE DEF st, new
<1>6. ASSUME count' = count, st[l] # "grow", new[l] = "grow" => loaded'[l] = count,
             st[l] = "clear" <=> new[l] = "clear",
             (st[l] = "free" <=> new[l] = "free") \/ count < SIZE
      PROVE  Kept(new, loaded', count')
  <2>1. Typed(new, loaded', count)
    BY <1>2, <1>6
  <2>2. Kept(new, loaded', count)
    BY <1>2, <1>4, <1>6, <2>1, Stays
  <2> QED
    BY <1>6, <2>2
<1>7. CASE Asks(l)
  <2>1. count = 0 /\ count' = count /\ pc'[l] = "init_head" /\ ~buffer_initialized
    BY <1>1, <1>7 DEF Asks, Goto, Begun, indices
  <2>2. \A o \in Loggers : Standing(o) # "grow"
    BY <1>1, <2>1 DEF Initialised, Initialising, Standing
  <2>3. new[l] # "grow"
    BY <1>5, <2>1 DEF Standing
  <2>4. \A o \in Loggers : new[o] # "grow"
    BY <1>4, <2>2, <2>3 DEF st, StandingOf
  <2>5. AtMost(new, loaded', count', SIZE - 1)
    BY <2>1, <2>4 DEF AtMost
  <2> QED
    BY <1>1, <2>5, KeptLow
<1>8. CASE InitHead(l) \/ InitTail(l)
  <2>1. /\ count' = count
        /\ pc[l] \in {"init_head", "init_tail"} /\ pc'[l] \in {"init_tail", "init_count"}
    BY <1>1, <1>8 DEF InitHead, InitTail, Goto
  <2>2. st[l] = "clear" /\ new[l] = "clear"
    BY <1>5, <2>1 DEF Standing
  <2> QED
    BY <1>6, <2>1, <2>2
<1>9. CASE InitCount(l)
  <2>1. count' = 0 /\ pc[l] = "init_count" /\ pc'[l] = "init_messages"
    BY <1>1, <1>9 DEF InitCount, Goto
  <2>2. st[l] = "clear" /\ new[l] = "free"
    BY <1>5, <2>1 DEF Standing
  <2>3. l \notin Above(st, loaded, count, SIZE)
    BY <2>2 DEF Above
  <2>4. SIZE \in 1 .. SIZE /\ count' = SIZE - SIZE
    BY <2>1
  <2> QED
    BY <1>2, <1>4, <2>2, <2>3, <2>4, Drops
<1>10. CASE Test(l)
  <2>1. /\ count' = count /\ pc[l] = "test"
        /\ pc'[l] = "tail" \/ (count < SIZE /\ pc'[l] = "count")
    BY <1>1, <1>10 DEF Test, Goto, indices
  <2>2. st[l] = "free" /\ (new[l] = "free" \/ (count < SIZE /\ new[l] = "count"))
    BY <1>5, <2>1 DEF Standing
  <2> QED
    BY <1>6, <2>1, <2>2
<1>11. CASE LoadCount(l)
  <2>1. count' = count /\ loaded'[l] = count /\ pc[l] = "count" /\ pc'[l] = "grow"
    BY <1>1, <1>11 DEF LoadCount, Load, Goto, indices
  <2>2. st[l] = "count" /\ new[l] = "grow"
    BY <1>5, <2>1 DEF Standing
  <2> QED
    BY <1>6, <2>1, <2>2
<1>12. CASE StoreCount(l)
  <2>1. count' = loaded[l] + 1 /\ pc[l] = "grow" /\ pc'[l] = "idle" /\ loaded[l] \in Nat
    BY <1>1, <1>12 DEF StoreCount, Goto
  <2>2. st[l] = "grow" /\ new[l] = "free"
    BY <1>5, <2>1 DEF Standing
  <2>3. CASE count' >= SIZE
    BY <1>2, <1>4, <2>1, <2>2, <2>3, Raises
  <2>4. CASE ~(count' >= SIZE)
    <3>1. PICK r \in 1 .. SIZE : r = SIZE - 1 - loaded[l]
      BY <2>1, <2>4
    <3>2. count' = SIZE - r /\ loaded[l] + r < SIZE
      BY <2>1, <3>1
    <3>3. l \notin Above(st, loaded, count, r)
      BY <2>1, <2>2, <3>2 DEF Above
    <3> QED
      BY <1>2, <1>4, <2>2, <3>2, <3>3, Drops
  <2> QED
    BY <2>3, <2>4
<1>13. CASE InitMessages(l) \/ InitDone(l) \/ Copy(l) \/ LoadHead(l) \/ StoreHead(l) \/ LoadTail(l)
            \/ StoreTail(l)
  <2>1. /\ count' = count
        /\ pc[l] \in {"init_messages", "init_done", "idle", "copy", "head", "advance", "tail", "drop"}
        /\ pc'[l] \in {"init_done", "copy", "head", "advance", "test", "drop", "idle"}
    BY <1>1, <1>13 DEF InitMessages, InitDone, Copy, LoadHead, StoreHead, LoadTail, StoreTail, Goto,
                       indices
  <2>2. st[l] = "free" /\ new[l] = "free"
    BY <1>5, <2>1 DEF Standing
  <2> QED
    BY <1>6, <2>1, <2>2
<1> QED
  BY <1>7, <1>8, <1>9, <1>10, <1>11, <1>12, <1>13 DEF Initialises, Push

\* The writer's loop stops at the count, which is n at most.
Writing(n) == lines <= i /\ i <= n /\ (writer = "writing" => i < n)

\* The writer's loop asks for the count before each line.
LEMMA WritingStep ==
  ASSUME Types, NEW n \in Nat, count <= n, Writing(n), [Next]_vars
  PROVE  Writing(n)'
<1> USE Constants DEF Writing
<1>1. i \in Nat /\ lines \in Nat /\ count \in Nat
  BY DEF Types
<1>2. CASE WriteLine
  <2>1. writer = "writing" /\ writer' = "testing" /\ i' = i + 1 /\ lines' <= lines + 1 /\ lines' \in Nat
    BY <1>1, <1>2 DEF WriteLine
  <2> QED
    BY <1>1, <2>1
<1>3. CASE Open
  BY <1>1, <1>3 DEF Open
<1>4. CASE NextLine
  BY <1>1, <1>4 DEF NextLine
<1>5. CASE Close
  BY <1>1, <1>5 DEF Close
<1>6. ASSUME NEW l \in Loggers, Initialises(l) \/ Push(l) PROVE UNCHANGED file
  BY <1>6 DEF Initialises, Push, Asks, InitHead, InitTail, InitCount, InitMessages, InitDone, Copy,
              LoadHead, StoreHead, Test, LoadCount, StoreCount, LoadTail, StoreTail
<1>7. CASE UNCHANGED file \/ UNCHANGED vars
  BY <1>7 DEF file, vars
<1> QED
  BY <1>2, <1>3, <1>4, <1>5, <1>6, <1>7 DEF Next

\* The inductive invariant of the race.
RaceInv == Types /\ Initialised /\ Begun /\ Crowd /\ Writing(Limit)

\* At the start all are free, and the count is 0.
LEMMA RaceInit == Init => RaceInv
<1> SUFFICES ASSUME Init PROVE RaceInv
  OBVIOUS
<1>1. Types
  BY TypesInit
<1>2. (\A l \in Loggers : pc[l] = "idle") /\ count = 0
  BY DEF Init
<1>3. Initialised /\ Begun
  BY <1>2 DEF Initialised, Begun
<1>4. \A l \in Loggers : StandingOf[l] # "grow"
  BY <1>2 DEF StandingOf, Standing
<1>5. AtMost(StandingOf, loaded, count, SIZE - 1)
  BY <1>2, <1>4, Constants DEF AtMost
<1>6. Crowd
  BY <1>1, <1>5, KeptLow DEF Crowd, Types
<1>7. Limit \in Nat
  BY <1>1, <1>6, CrowdTyped, WithinLimit DEF Crowd
<1>8. Writing(Limit)
  BY <1>7 DEF Init, Writing
<1> QED
  BY <1>1, <1>3, <1>6, <1>8 DEF RaceInv

\* A step of any thread keeps it.
LEMMA RaceStep == RaceInv /\ [Next]_vars => RaceInv'
<1> SUFFICES ASSUME RaceInv, [Next]_vars PROVE RaceInv'
  OBVIOUS
<1>1. Types /\ Types' /\ Initialised /\ Initialised' /\ Begun /\ Begun' /\ Crowd
  BY TypesStep, InitialisedStep, BegunStep DEF RaceInv
<1>2. ASSUME NEW l \in Loggers, Initialises(l) \/ Push(l) PROVE Crowd'
  BY <1>1, <1>2, CrowdActs
<1>3. ASSUME Open \/ NextLine \/ WriteLine \/ Close \/ UNCHANGED vars PROVE Crowd'
  <2>1. pc' = pc /\ loaded' = loaded /\ count' = count
    BY <1>3 DEF Open, NextLine, WriteLine, Close, indices, vars
  <2>2. StandingOf' = StandingOf
    BY <2>1 DEF StandingOf, Standing
  <2> QED
    BY <1>1, <2>1, <2>2 DEF Crowd
<1>4. Crowd'
  BY <1>2, <1>3 DEF Next
<1>5. count <= Limit /\ Limit \in Nat
  BY <1>1, CrowdTyped, WithinLimit DEF Crowd
<1>6. Writing(Limit)'
  <2>1. Writing(Limit)
    BY DEF RaceInv
  <2> QED
    BY <1>1, <1>5, <2>1, WritingStep
<1> QED
  BY <1>1, <1>4, <1>6 DEF RaceInv

\* However many threads log and however their accesses interleave, no index leaves the
\* buffer, and neither the count nor the log file exceeds the limit, for every size
\* (ring_buffer_push, ring_buffer_write_to_file).
THEOREM RaceBounded == Spec => []Bounded
<1>1. RaceInv => Bounded
  <2> SUFFICES ASSUME RaceInv PROVE Bounded
    OBVIOUS
  <2>1. TypeOK
    BY DEF RaceInv, Types, TypeOK, Places, Initialising
  <2>2. count <= Limit /\ Limit \in Nat
    BY CrowdTyped, WithinLimit DEF RaceInv, Crowd
  <2>3. lines <= Limit
    BY <2>2 DEF RaceInv, Types, Writing
  <2> QED
    BY <2>1, <2>2, <2>3 DEF Bounded, CountBounded, FileBounded
<1> QED
  BY <1>1, RaceInit, RaceStep, PTL DEF Spec
=============================================================================
