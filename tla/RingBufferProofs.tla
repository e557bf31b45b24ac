------------------------- MODULE RingBufferProofs -------------------------
(***************************************************************************)
(* The ring buffer implements the log of the latest SIZE messages, for     *)
(* every size and every set of messages.                                   *)
(***************************************************************************)
EXTENDS RingBuffer, SequenceTheorems, TLAPS

\* The remainder of an index that is at most one turn too far.
Wrapped(x) == IF x < SIZE THEN x ELSE x - SIZE

\* An index of the loops over the ring (tail + i) wraps at most once.
LEMMA Wrap == \A x \in 0 .. 2 * SIZE - 1 : x % SIZE = Wrapped(x)
  BY SizeAssumption DEF Wrapped

\* The slot after one of the ring's.
LEMMA AfterWraps == \A t \in 0 .. SIZE - 1 : After(t) = Wrapped(t + 1)
<1> SUFFICES ASSUME NEW t \in 0 .. SIZE - 1 PROVE (t + 1) % SIZE = Wrapped(t + 1)
  BY DEF After
<1>1. PICK x \in 0 .. 2 * SIZE - 1 : x = t + 1
  BY SizeAssumption
<1> QED
  BY <1>1, Wrap

\* RingInv with the remainder spelled out.
RingFacts ==
  /\ messages \in [Slots -> Messages \cup {NoMessage}]
  /\ head \in 0 .. SIZE - 1 /\ tail \in 0 .. SIZE - 1 /\ count \in 0 .. SIZE
  /\ head = Wrapped(tail + count)

\* The two forms of the invariant say the same.
LEMMA SameInvariant == RingInv <=> RingFacts
<1> SUFFICES ASSUME tail \in Slots, count \in 0 .. SIZE
             PROVE  (tail + count) % SIZE = Wrapped(tail + count)
  BY DEF RingInv, RingFacts, Slots
<1>1. PICK x \in 0 .. 2 * SIZE - 1 : x = tail + count
  BY SizeAssumption DEF Slots
<1> QED
  BY <1>1, Wrap

\* ring_buffer_push and ring_buffer_write_to_file keep the head, the tail and
\* the count in step.
LEMMA RingStep == RingFacts /\ [Next]_vars => RingFacts'
<1> SUFFICES ASSUME RingFacts, [Next]_vars PROVE RingFacts'
  OBVIOUS
<1> USE SizeAssumption DEF RingFacts
<1>1. ASSUME NEW m \in Messages, Push(m) PROVE RingFacts'
  <2>1. After(head) = Wrapped(head + 1) /\ After(tail) = Wrapped(tail + 1)
    BY AfterWraps
  <2>2. messages' \in [Slots -> Messages \cup {NoMessage}]
    BY <1>1 DEF Push
  <2>3. CASE count < SIZE
    BY <1>1, <2>1, <2>2, <2>3 DEF Push, Wrapped
  <2>4. CASE ~(count < SIZE)
    BY <1>1, <2>1, <2>2, <2>4 DEF Push, Wrapped
  <2> QED
    BY <2>3, <2>4
<1>2. CASE WriteToFile
  BY <1>2 DEF WriteToFile, ring
<1>3. CASE UNCHANGED vars
  BY <1>3 DEF vars
<1> QED
  BY <1>1, <1>2, <1>3 DEF Next

\* The ring's invariant: its head is count slots after its tail.
THEOREM RingInvariant == Spec => []RingInv
<1>1. Init => RingFacts
  BY SizeAssumption DEF Init, RingFacts, Slots, Wrapped
<1> QED
  BY <1>1, RingStep, SameInvariant, PTL DEF Spec

\* What the loop over count reads from any ring is a sequence of that length.
ReadFrom(ms, t, c) == [i \in 1 .. c |-> ms[(t + i - 1) % SIZE]]

\* What the ring's lines look like read slot by slot from its tail.
LEMMA ReadRing ==
  ASSUME NEW S, NEW ms \in [Slots -> S],
         NEW t \in 0 .. SIZE - 1, NEW c \in 0 .. SIZE
  PROVE  /\ ReadFrom(ms, t, c) \in Seq(S)
         /\ Len(ReadFrom(ms, t, c)) = c
         /\ \A i \in 1 .. c : ReadFrom(ms, t, c)[i] = ms[Wrapped(t + i - 1)]
<1> DEFINE lines == ReadFrom(ms, t, c)
<1>1. ASSUME NEW i \in 1 .. c
      PROVE  /\ (t + i - 1) % SIZE = Wrapped(t + i - 1)
             /\ Wrapped(t + i - 1) \in Slots
  <2>1. PICK x \in 0 .. 2 * SIZE - 1 : x = t + i - 1
    BY SizeAssumption
  <2>2. x % SIZE = Wrapped(x)
    BY Wrap
  <2>3. Wrapped(x) \in Slots
    BY SizeAssumption DEF Wrapped, Slots
  <2> QED
    BY <2>1, <2>2, <2>3
<1>2. \A i \in 1 .. c : lines[i] = ms[Wrapped(t + i - 1)] /\ lines[i] \in S
  BY <1>1 DEF ReadFrom
<1>3. lines \in [1 .. c -> S]
  BY <1>2 DEF ReadFrom
<1>4. c \in Nat
  BY SizeAssumption
<1> HIDE DEF lines
<1>5. lines \in Seq(S) /\ Len(lines) = c
  BY <1>3, <1>4
<1> QED
  BY <1>2, <1>5 DEF lines

\* The lines are a sequence of count messages, before and after a step.
LEMMA LinesAreLog ==
  ASSUME RingFacts
  PROVE  /\ Lines \in Seq(Messages \cup {NoMessage})
         /\ Len(Lines) = count
         /\ \A i \in 1 .. count : Lines[i] = messages[Wrapped(tail + i - 1)]
<1>1. /\ messages \in [Slots -> Messages \cup {NoMessage}]
      /\ tail \in 0 .. SIZE - 1 /\ count \in 0 .. SIZE
  BY DEF RingFacts
<1>2. Lines = ReadFrom(messages, tail, count)
  BY DEF Lines, ReadFrom
<1> QED
  BY <1>1, <1>2, ReadRing, ZenonT(60)

\* The same after a step.
LEMMA LinesAreLogNext ==
  ASSUME RingFacts'
  PROVE  /\ Lines' \in Seq(Messages \cup {NoMessage})
         /\ Len(Lines') = count'
         /\ \A i \in 1 .. count' : Lines'[i] = messages'[Wrapped(tail' + i - 1)]
<1>1. /\ messages' \in [Slots -> Messages \cup {NoMessage}]
      /\ tail' \in 0 .. SIZE - 1 /\ count' \in 0 .. SIZE
  BY DEF RingFacts
<1>2. Lines' = ReadFrom(messages', tail', count')
  BY DEF Lines, ReadFrom
<1> QED
  BY <1>1, <1>2, ReadRing, SMTT(60)

\* What ring_buffer_push does to the log: it appends the message and drops the
\* oldest one when the ring is full.
LEMMA PushIsAppend ==
  ASSUME RingFacts, RingFacts', NEW m \in Messages, Push(m)
  PROVE  Lines' = IF count < SIZE THEN Append(Lines, m) ELSE Append(Tail(Lines), m)
<1> USE SizeAssumption
<1>1. /\ messages \in [Slots -> Messages \cup {NoMessage}]
      /\ head \in 0 .. SIZE - 1 /\ tail \in 0 .. SIZE - 1 /\ count \in 0 .. SIZE
      /\ head = Wrapped(tail + count)
  BY DEF RingFacts
<1>2. After(tail) = Wrapped(tail + 1)
  BY <1>1, AfterWraps
<1>3. PICK s \in Seq(Messages \cup {NoMessage}) :
        /\ s = Lines
        /\ Len(s) = count
        /\ \A i \in 1 .. count : s[i] = messages[Wrapped(tail + i - 1)]
  BY LinesAreLog
<1>4. PICK r \in Seq(Messages \cup {NoMessage}) :
        /\ r = Lines'
        /\ Len(r) = count'
        /\ \A i \in 1 .. count' : r[i] = messages'[Wrapped(tail' + i - 1)]
  BY LinesAreLogNext
<1>5. messages' = [messages EXCEPT ![head] = m] /\ messages'[head] = m
  BY <1>1 DEF Push, Slots
<1>6. \A i \in Slots : i # head => messages'[i] = messages[i]
  BY <1>1, <1>5
<1>7. CASE count < SIZE
  <2>1. count' = count + 1 /\ tail' = tail
    BY <1>7 DEF Push
  <2>2. PICK q \in Seq(Messages \cup {NoMessage}) :
          /\ q = Append(s, m) /\ Len(q) = count + 1
          /\ \A i \in 1 .. count : q[i] = s[i]
          /\ q[count + 1] = m
    <3>1. m \in Messages \cup {NoMessage}
      OBVIOUS
    <3>2. /\ Append(s, m) \in Seq(Messages \cup {NoMessage})
          /\ Len(Append(s, m)) = Len(s) + 1
          /\ \A i \in 1 .. Len(s) : Append(s, m)[i] = s[i]
          /\ Append(s, m)[Len(s) + 1] = m
      BY <3>1, AppendProperties
    <3> QED
      BY <1>3, <3>2
  <2>3. ASSUME NEW i \in 1 .. count + 1 PROVE r[i] = q[i]
    <3>1. r[i] = messages'[Wrapped(tail + i - 1)]
      BY <1>1, <1>4, <2>1
    <3>2. CASE i \in 1 .. count
      <4>1. Wrapped(tail + i - 1) \in Slots /\ Wrapped(tail + i - 1) # head
        BY <1>1, <1>7, <3>2 DEF Wrapped, Slots
      <4> QED
        BY <1>3, <1>6, <2>2, <3>1, <3>2, <4>1
    <3>3. CASE i = count + 1
      <4>1. tail + i - 1 = tail + count
        BY <1>1, <3>3
      <4> QED
        BY <1>1, <1>5, <2>2, <3>1, <3>3, <4>1
    <3> QED
      BY <1>1, <3>2, <3>3
  <2>4. r = q
    BY <1>4, <2>1, <2>2, <2>3
  <2> QED
    BY <1>3, <1>4, <1>7, <2>2, <2>4
<1>8. CASE ~(count < SIZE)
  <2>1. count = SIZE /\ count' = SIZE /\ tail' = Wrapped(tail + 1)
    BY <1>1, <1>2, <1>8 DEF Push
  <2>2. head = tail
    BY <1>1, <2>1 DEF Wrapped
  <2>3. PICK u \in Seq(Messages \cup {NoMessage}) :
          /\ u = Tail(s) /\ Len(u) = SIZE - 1
          /\ \A i \in 1 .. SIZE - 1 : u[i] = s[i + 1]
    <3>1. s # <<>>
      BY <1>3, <2>1
    <3>2. /\ Tail(s) \in Seq(Messages \cup {NoMessage}) /\ Len(Tail(s)) = Len(s) - 1
          /\ \A i \in 1 .. Len(Tail(s)) : Tail(s)[i] = s[i + 1]
      BY <1>3, <3>1, HeadTailProperties
    <3>3. Len(s) - 1 = SIZE - 1
      BY <1>3, <2>1
    <3> QED
      BY <3>2, <3>3, Zenon
  <2>4. PICK q \in Seq(Messages \cup {NoMessage}) :
          /\ q = Append(u, m) /\ Len(q) = SIZE
          /\ \A i \in 1 .. SIZE - 1 : q[i] = u[i]
          /\ q[SIZE] = m
    <3>1. m \in Messages \cup {NoMessage}
      OBVIOUS
    <3>2. /\ Append(u, m) \in Seq(Messages \cup {NoMessage})
          /\ Len(Append(u, m)) = Len(u) + 1
          /\ \A i \in 1 .. Len(u) : Append(u, m)[i] = u[i]
          /\ Append(u, m)[Len(u) + 1] = m
      BY <3>1, AppendProperties
    <3>3. Len(u) = SIZE - 1 /\ Len(u) + 1 = SIZE
      BY <2>3
    <3> QED
      BY <3>2, <3>3, Zenon
  <2>5. ASSUME NEW i \in 1 .. SIZE PROVE r[i] = q[i]
    <3>1. r[i] = messages'[Wrapped(tail' + i - 1)]
      BY <1>4, <2>1
    <3>2. CASE i \in 1 .. SIZE - 1
      <4>1. /\ Wrapped(tail' + i - 1) = Wrapped(tail + i)
            /\ Wrapped(tail + i) \in Slots /\ Wrapped(tail + i) # head
        BY <1>1, <2>1, <2>2, <3>2 DEF Wrapped, Slots
      <4>2. s[i + 1] = messages[Wrapped(tail + i)]
        <5>1. i + 1 \in 1 .. count /\ tail + (i + 1) - 1 = tail + i
          BY <1>1, <2>1, <3>2
        <5> QED
          BY <1>3, <5>1
      <4> QED
        BY <1>6, <2>3, <2>4, <3>1, <3>2, <4>1, <4>2
    <3>3. CASE i = SIZE
      <4>1. Wrapped(tail' + i - 1) = head
        BY <1>1, <2>1, <2>2, <3>3 DEF Wrapped
      <4> QED
        BY <1>5, <2>4, <3>1, <3>3, <4>1
    <3> QED
      BY <3>2, <3>3
  <2>6. r = q
    BY <1>4, <2>1, <2>4, <2>5
  <2> QED
    BY <1>3, <1>4, <1>8, <2>3, <2>4, <2>6
<1> QED
  BY <1>7, <1>8

\* The server's ring buffer keeps the latest SIZE messages in the order in
\* which they were logged, and the log file is a copy of them.
THEOREM Implements == Spec => ImplementsLog
<1>1. Init => Log!Init
  BY DEF Init, Log!Init, Lines
<1>2. RingFacts /\ RingFacts' /\ [Next]_vars => [Log!Next]_<<Lines, file>>
  <2> SUFFICES ASSUME RingFacts, RingFacts', [Next]_vars PROVE [Log!Next]_<<Lines, file>>
    OBVIOUS
  <2>1. Len(Lines) = count
    BY LinesAreLog
  <2>2. ASSUME NEW m \in Messages, Push(m) PROVE Log!Push(m)
    BY <2>1, <2>2, PushIsAppend DEF Push, Log!Push
  <2>3. CASE WriteToFile
    <3>1. Lines # <<>> /\ Lines' = Lines
      BY <2>1, <2>3 DEF WriteToFile, ring, Lines
    <3> QED
      BY <2>3, <3>1 DEF WriteToFile, Log!WriteToFile, Log!Next
  <2>4. CASE UNCHANGED vars
    BY <2>4 DEF vars, Lines
  <2> QED
    BY <2>2, <2>3, <2>4 DEF Next, Log!Next
<1> QED
  BY <1>1, <1>2, RingInvariant, SameInvariant, PTL DEF Spec, ImplementsLog, Log!Spec
===========================================================================
