-------------------------- MODULE SensorLoopProofs --------------------------
(***************************************************************************)
(* Theorems about SensorLoop.  Its types and the order of the readings     *)
(* hold for every value of the constants.  What depends on how the         *)
(* constants fit together has the inequalities it needs as a hypothesis,   *)
(* which the numbers of the code satisfy: nothing in the code says so.     *)
(***************************************************************************)
EXTENDS SensorLoop, SequenceTheorems, TLAPS

Readings == Nat \ {0}
Packets == [cmd : {"send", "resend"}, reading : Readings]

\* The readings of b and those that left in o are all before reading t.
Before(b, o, t) ==
  /\ \A i \in 1 .. Len(b) : b[i] < t
  /\ \A i \in 1 .. Len(o) : o[i].reading < t

\* What is in the buffer b and what left in o, in order: OnceAndInOrder, and
\* what its step needs of the buffer.
InOrder(b, o) ==
  /\ \A i, j \in 1 .. Len(b) : i < j => b[i] < b[j]
  /\ \A i \in 1 .. Len(b), j \in 1 .. Len(o) :
       o[j].reading # b[i] /\ (o[j].cmd = "resend" => o[j].reading < b[i])
  /\ \A i, j \in 1 .. Len(o) :
       i < j => /\ o[i].reading # o[j].reading
                /\ o[j].cmd = "send" \/ o[i].cmd = "resend"
                     => o[i].reading < o[j].reading

----------------------------------------------------------------------------
\* What a step does to the buffer and to what has left.

\* A reading that is kept comes after all others.
LEMMA KeepingInOrder ==
  ASSUME NEW b \in Seq(Readings), NEW o \in Seq(Packets), NEW t \in Readings,
         InOrder(b, o), Before(b, o, t)
  PROVE  /\ Append(b, t) \in Seq(Readings)
         /\ InOrder(Append(b, t), o)
         /\ Before(Append(b, t), o, t + 1)
<1>1. PICK c \in Seq(Readings) :
        /\ c = Append(b, t)
        /\ Len(c) = Len(b) + 1
        /\ \A i \in 1 .. Len(b) : c[i] = b[i]
        /\ c[Len(b) + 1] = t
  BY AppendProperties
<1>2. Len(b) \in Nat /\ (\A i \in 1 .. Len(b) : b[i] \in Readings)
  BY LenProperties, ElementOfSeq
<1>3. \A i \in 1 .. Len(o) : o[i] \in Packets
  BY ElementOfSeq
<1>4. \A i, j \in 1 .. Len(c) : i < j => c[i] < c[j]
  <2> SUFFICES ASSUME NEW i \in 1 .. Len(c), NEW j \in 1 .. Len(c), i < j PROVE c[i] < c[j]
    OBVIOUS
  <2>1. CASE j = Len(b) + 1
    BY <1>1, <1>2, <2>1 DEF Before
  <2>2. CASE j # Len(b) + 1
    BY <1>1, <1>2, <2>2, SMTT(60) DEF InOrder
  <2> QED
    BY <2>1, <2>2
<1>5. ASSUME NEW i \in 1 .. Len(c), NEW j \in 1 .. Len(o)
      PROVE  o[j].reading # c[i] /\ o[j].reading < t /\ (o[j].cmd = "resend" => o[j].reading < c[i])
  <2>1. o[j].reading < t /\ o[j].reading \in Nat /\ t \in Nat
    BY <1>3 DEF Before, Readings, Packets
  <2>2. CASE i = Len(b) + 1
    BY <1>1, <2>1, <2>2
  <2>3. CASE i # Len(b) + 1
    <3>1. i \in 1 .. Len(b) /\ c[i] = b[i]
      BY <1>1, <1>2, <2>3
    <3> QED
      BY <2>1, <3>1 DEF InOrder
  <2> QED
    BY <2>2, <2>3
<1>6. InOrder(c, o)
  BY <1>4, <1>5 DEF InOrder
<1>7. Before(c, o, t + 1)
  <2>1. ASSUME NEW i \in 1 .. Len(c) PROVE c[i] < t + 1
    <3>1. i = Len(b) + 1 \/ i \in 1 .. Len(b)
      BY <1>1, <1>2
    <3> QED
      BY <1>1, <1>2, <3>1 DEF Before, Readings
  <2>2. ASSUME NEW i \in 1 .. Len(o) PROVE o[i].reading < t + 1
    BY <1>3, <1>5 DEF Before, Readings, Packets
  <2> QED
    BY <2>1, <2>2 DEF Before
<1> QED
  BY <1>1, <1>6, <1>7

\* So does one that is sent at once.
LEMMA SendingInOrder ==
  ASSUME NEW b \in Seq(Readings), NEW o \in Seq(Packets), NEW t \in Readings,
         InOrder(b, o), Before(b, o, t)
  PROVE  /\ o \o <<Packet("send", t)>> \in Seq(Packets)
         /\ InOrder(b, o \o <<Packet("send", t)>>)
         /\ Before(b, o \o <<Packet("send", t)>>, t + 1)
<1>1. Packet("send", t) \in Packets
  BY DEF Packet, Packets
<1>2. o \o <<Packet("send", t)>> = Append(o, Packet("send", t))
  BY <1>1, AppendIsConcat
<1>3. PICK q \in Seq(Packets) :
        /\ q = Append(o, Packet("send", t))
        /\ Len(q) = Len(o) + 1
        /\ \A i \in 1 .. Len(o) : q[i] = o[i]
        /\ q[Len(o) + 1] = Packet("send", t)
  BY <1>1, AppendProperties
<1>4. Len(o) \in Nat /\ (\A i \in 1 .. Len(o) : o[i] \in Packets)
  BY LenProperties, ElementOfSeq
<1>5. \A i \in 1 .. Len(b) : b[i] \in Readings
  BY ElementOfSeq
<1>6. InOrder(b, q)
  BY <1>3, <1>4, <1>5 DEF InOrder, Before, Readings, Packets, Packet
<1>7. Before(b, q, t + 1)
  BY <1>3, <1>4, <1>5 DEF Before, Readings, Packets, Packet
<1> QED
  BY <1>2, <1>3, <1>6, <1>7

\* The first k readings of the buffer, in packets.
LEMMA Resent ==
  ASSUME NEW b \in Seq(Readings), NEW k \in 0 .. Len(b)
  PROVE  /\ Resends(SubSeq(b, 1, k)) \in Seq(Packets)
         /\ Len(Resends(SubSeq(b, 1, k))) = k
         /\ \A i \in 1 .. k : Resends(SubSeq(b, 1, k))[i] = Packet("resend", b[i])
<1>1. Len(b) \in Nat /\ (\A i \in 1 .. Len(b) : b[i] \in Readings)
  BY LenProperties, ElementOfSeq
<1>3. PICK f \in Seq(Readings) :
        /\ f = SubSeq(b, 1, k)
        /\ Len(f) = k
        /\ \A i \in 1 .. k : f[i] = b[i]
  <2>1. \A i \in 1 .. k : b[i] \in Readings
    BY <1>1
  <2>2. /\ SubSeq(b, 1, k) \in Seq(Readings)
        /\ Len(SubSeq(b, 1, k)) = IF 1 <= k THEN k - 1 + 1 ELSE 0
        /\ \A i \in 1 .. k - 1 + 1 : SubSeq(b, 1, k)[i] = b[1 + i - 1]
    <3>1. 1 \in Int /\ k \in Int
      BY <1>1
    <3> QED
      BY <2>1, <3>1, SubSeqProperties
  <2>3. Len(SubSeq(b, 1, k)) = k
    BY <1>1, <2>2
  <2>4. \A i \in 1 .. k : SubSeq(b, 1, k)[i] = b[i]
    BY <1>1, <2>2
  <2> QED
    BY <2>2, <2>3, <2>4
<1>4. PICK r \in Seq(Packets) :
        /\ r = Resends(f)
        /\ Len(r) = k
        /\ \A i \in 1 .. k : r[i] = Packet("resend", b[i])
  <2>1. DOMAIN f = 1 .. k
    BY <1>3, LenProperties
  <2>2. Resends(f) = [i \in 1 .. k |-> Packet("resend", f[i])]
    BY <2>1 DEF Resends
  <2>3. \A i \in 1 .. k : Packet("resend", f[i]) \in Packets
    BY <1>1, <1>3 DEF Packet, Packets
  <2>4. Resends(f) \in [1 .. k -> Packets]
    BY <2>2, <2>3
  <2>5. k \in Nat
    BY <1>1
  <2>6. Resends(f) \in Seq(Packets) /\ Len(Resends(f)) = k
    BY <2>4, <2>5
  <2> QED
    BY <1>3, <2>2, <2>6
<1> QED
  BY <1>3, <1>4

\* The first k readings of the buffer leave, slot by slot.
LEMMA ResendFacts ==
  ASSUME NEW b \in Seq(Readings), NEW o \in Seq(Packets), NEW k \in 0 .. Len(b)
  PROVE  /\ After(b, k) \in Seq(Readings)
         /\ Len(After(b, k)) = Len(b) - k
         /\ \A i \in 1 .. Len(b) - k : After(b, k)[i] = b[i + k]
         /\ o \o Resends(SubSeq(b, 1, k)) \in Seq(Packets)
         /\ Len(o \o Resends(SubSeq(b, 1, k))) = Len(o) + k
         /\ \A i \in 1 .. Len(o) : (o \o Resends(SubSeq(b, 1, k)))[i] = o[i]
         /\ \A i \in 1 .. k :
              (o \o Resends(SubSeq(b, 1, k)))[Len(o) + i] = Packet("resend", b[i])
<1>1. Len(b) \in Nat /\ (\A i \in 1 .. Len(b) : b[i] \in Readings)
  BY LenProperties, ElementOfSeq
<1>2. /\ After(b, k) \in Seq(Readings)
      /\ Len(After(b, k)) = Len(b) - k
      /\ \A i \in 1 .. Len(b) - k : After(b, k)[i] = b[i + k]
  <2>1. \A i \in k + 1 .. Len(b) : b[i] \in Readings
    BY <1>1
  <2>2. /\ SubSeq(b, k + 1, Len(b)) \in Seq(Readings)
        /\ Len(SubSeq(b, k + 1, Len(b))) = IF k + 1 <= Len(b) THEN Len(b) - (k + 1) + 1 ELSE 0
        /\ \A i \in 1 .. Len(b) - (k + 1) + 1 : SubSeq(b, k + 1, Len(b))[i] = b[k + 1 + i - 1]
    <3>1. k + 1 \in Int /\ Len(b) \in Int
      BY <1>1
    <3> QED
      BY <2>1, <3>1, SubSeqProperties
  <2>3. Len(SubSeq(b, k + 1, Len(b))) = Len(b) - k
    BY <1>1, <2>2
  <2>4. ASSUME NEW i \in 1 .. Len(b) - k PROVE SubSeq(b, k + 1, Len(b))[i] = b[i + k]
    <3>1. i \in 1 .. Len(b) - (k + 1) + 1 /\ k + 1 + i - 1 = i + k
      BY <1>1
    <3> QED
      BY <2>2, <3>1
  <2> QED
    BY <2>2, <2>3, <2>4 DEF After
<1>4. PICK r \in Seq(Packets) :
        /\ r = Resends(SubSeq(b, 1, k))
        /\ Len(r) = k
        /\ \A i \in 1 .. k : r[i] = Packet("resend", b[i])
  BY Resent
<1>5. /\ o \o r \in Seq(Packets)
      /\ Len(o \o r) = Len(o) + Len(r)
      /\ \A i \in 1 .. Len(o) + Len(r) :
           (o \o r)[i] = IF i <= Len(o) THEN o[i] ELSE r[i - Len(o)]
  BY ConcatProperties
<1>6. Len(o) \in Nat
  BY LenProperties
<1>7. \A i \in 1 .. Len(o) : (o \o r)[i] = o[i]
  BY <1>1, <1>4, <1>5, <1>6
<1>8. ASSUME NEW i \in 1 .. k PROVE (o \o r)[Len(o) + i] = Packet("resend", b[i])
  <2>1. Len(o) + i \in 1 .. Len(o) + Len(r) /\ ~(Len(o) + i <= Len(o)) /\ Len(o) + i - Len(o) = i
    BY <1>1, <1>4, <1>6
  <2> QED
    BY <1>4, <1>5, <2>1
<1> QED
  BY <1>2, <1>4, <1>5, <1>7, <1>8

\* They leave in order, and the rest stays in order.
LEMMA ResendingInOrder ==
  ASSUME NEW b \in Seq(Readings), NEW o \in Seq(Packets), NEW k \in 0 .. Len(b),
         NEW t \in Nat, InOrder(b, o), Before(b, o, t)
  PROVE  /\ After(b, k) \in Seq(Readings)
         /\ o \o Resends(SubSeq(b, 1, k)) \in Seq(Packets)
         /\ InOrder(After(b, k), o \o Resends(SubSeq(b, 1, k)))
         /\ Before(After(b, k), o \o Resends(SubSeq(b, 1, k)), t)
<1>1. Len(b) \in Nat /\ (\A i \in 1 .. Len(b) : b[i] \in Readings)
  BY LenProperties, ElementOfSeq
<1>2. Len(o) \in Nat /\ (\A i \in 1 .. Len(o) : o[i] \in Packets)
  BY LenProperties, ElementOfSeq
<1>3. PICK a \in Seq(Readings) :
        /\ a = After(b, k)
        /\ Len(a) = Len(b) - k
        /\ \A i \in 1 .. Len(b) - k : a[i] = b[i + k]
  <2>1. /\ After(b, k) \in Seq(Readings)
        /\ Len(After(b, k)) = Len(b) - k
        /\ \A i \in 1 .. Len(b) - k : After(b, k)[i] = b[i + k]
    BY ResendFacts
  <2> QED
    BY <2>1, Zenon
<1>4. PICK q \in Seq(Packets) :
        /\ q = o \o Resends(SubSeq(b, 1, k))
        /\ Len(q) = Len(o) + k
        /\ \A i \in 1 .. Len(o) : q[i] = o[i]
        /\ \A i \in 1 .. k : q[Len(o) + i] = Packet("resend", b[i])
  BY ResendFacts
<1>5. ASSUME NEW i \in 1 .. Len(q)
      PROVE  \/ i \in 1 .. Len(o) /\ q[i] = o[i]
             \/ /\ i > Len(o) /\ i - Len(o) \in 1 .. k
                /\ q[i].cmd = "resend" /\ q[i].reading = b[i - Len(o)]
  <2>1. CASE i <= Len(o)
    BY <1>2, <1>4, <2>1
  <2>2. CASE i > Len(o)
    <3>1. i - Len(o) \in 1 .. k /\ Len(o) + (i - Len(o)) = i
      BY <1>1, <1>2, <1>4, <2>2
    <3>2. q[Len(o) + (i - Len(o))] = Packet("resend", b[i - Len(o)])
      BY <1>4, <3>1
    <3> QED
      BY <2>2, <3>1, <3>2 DEF Packet
  <2> QED
    BY <1>2, <1>4, <2>1, <2>2
<1>6. ASSUME NEW i \in 1 .. Len(a), NEW j \in 1 .. Len(a), i < j PROVE a[i] < a[j]
  <2>1. i + k \in 1 .. Len(b) /\ j + k \in 1 .. Len(b) /\ i + k < j + k
    BY <1>1, <1>3, <1>6
  <2>2. a[i] = b[i + k] /\ a[j] = b[j + k]
    BY <1>3
  <2>3. b[i + k] < b[j + k]
    BY <2>1 DEF InOrder
  <2> QED
    BY <2>2, <2>3
<1>7. ASSUME NEW i \in 1 .. Len(a), NEW j \in 1 .. Len(q)
      PROVE  q[j].reading # a[i] /\ (q[j].cmd = "resend" => q[j].reading < a[i])
  <2>1. i + k \in 1 .. Len(b) /\ a[i] = b[i + k]
    BY <1>1, <1>3
  <2>2. CASE j \in 1 .. Len(o) /\ q[j] = o[j]
    BY <2>1, <2>2 DEF InOrder
  <2>3. CASE /\ j > Len(o) /\ j - Len(o) \in 1 .. k
             /\ q[j].cmd = "resend" /\ q[j].reading = b[j - Len(o)]
    <3>1. j - Len(o) \in 1 .. Len(b) /\ j - Len(o) < i + k
      BY <1>1, <2>1, <2>3
    <3>2. b[j - Len(o)] < b[i + k]
      BY <2>1, <3>1 DEF InOrder
    <3>3. b[j - Len(o)] \in Nat /\ b[i + k] \in Nat
      BY <1>1, <2>1, <3>1 DEF Readings
    <3> QED
      BY <2>1, <2>3, <3>2, <3>3
  <2> QED
    BY <1>5, <2>2, <2>3
<1>8. ASSUME NEW i \in 1 .. Len(q), NEW j \in 1 .. Len(q), i < j
      PROVE  /\ q[i].reading # q[j].reading
             /\ q[j].cmd = "send" \/ q[i].cmd = "resend" => q[i].reading < q[j].reading
  <2>1. CASE i \in 1 .. Len(o) /\ q[i] = o[i] /\ j \in 1 .. Len(o) /\ q[j] = o[j]
    BY <1>8, <2>1 DEF InOrder
  <2>2. CASE /\ i \in 1 .. Len(o) /\ q[i] = o[i]
             /\ j - Len(o) \in 1 .. k
             /\ q[j].cmd = "resend" /\ q[j].reading = b[j - Len(o)]
    <3>1. j - Len(o) \in 1 .. Len(b)
      BY <1>1, <2>2
    <3>2. o[i].reading # b[j - Len(o)] /\ (o[i].cmd = "resend" => o[i].reading < b[j - Len(o)])
      BY <2>2, <3>1 DEF InOrder
    <3> QED
      BY <2>2, <3>2
  <2>3. CASE /\ i > Len(o) /\ i - Len(o) \in 1 .. k
             /\ q[i].cmd = "resend" /\ q[i].reading = b[i - Len(o)]
             /\ j - Len(o) \in 1 .. k
             /\ q[j].cmd = "resend" /\ q[j].reading = b[j - Len(o)]
    <3>1. i - Len(o) \in 1 .. Len(b) /\ j - Len(o) \in 1 .. Len(b) /\ i - Len(o) < j - Len(o)
      BY <1>1, <1>2, <1>4, <1>8, <2>3
    <3>2. b[i - Len(o)] < b[j - Len(o)]
      BY <3>1 DEF InOrder
    <3>3. b[i - Len(o)] \in Nat /\ b[j - Len(o)] \in Nat
      BY <1>1, <3>1 DEF Readings
    <3> QED
      BY <2>3, <3>2, <3>3
  <2>4. ~(i > Len(o) /\ j \in 1 .. Len(o))
    BY <1>2, <1>4, <1>8
  <2> QED
    BY <1>5, <2>1, <2>2, <2>3, <2>4
<1>9. InOrder(a, q)
  BY <1>6, <1>7, <1>8 DEF InOrder
<1>10. Before(a, q, t)
  <2>1. ASSUME NEW i \in 1 .. Len(a) PROVE a[i] < t
    <3>1. i + k \in 1 .. Len(b) /\ a[i] = b[i + k]
      BY <1>1, <1>3
    <3> QED
      BY <3>1 DEF Before
  <2>2. ASSUME NEW i \in 1 .. Len(q) PROVE q[i].reading < t
    <3>1. CASE i \in 1 .. Len(o) /\ q[i] = o[i]
      BY <3>1 DEF Before
    <3>2. CASE i - Len(o) \in 1 .. k /\ q[i].reading = b[i - Len(o)]
      <4>1. i - Len(o) \in 1 .. Len(b)
        BY <1>1, <3>2
      <4> QED
        BY <3>2, <4>1 DEF Before
    <3> QED
      BY <1>5, <3>1, <3>2
  <2> QED
    BY <2>1, <2>2 DEF Before
<1> QED
  BY <1>3, <1>4, <1>9, <1>10

\* Nothing is before a reading and not before a later one.
LEMMA BeforeLater ==
  ASSUME NEW b \in Seq(Readings), NEW o \in Seq(Packets), NEW t \in Nat, NEW u \in Nat,
         t <= u, Before(b, o, t)
  PROVE  Before(b, o, u)
<1>1. \A i \in 1 .. Len(b) : b[i] \in Nat
  BY ElementOfSeq DEF Readings
<1>2. \A i \in 1 .. Len(o) : o[i].reading \in Nat
  <2>1. \A i \in 1 .. Len(o) : o[i] \in Packets
    BY ElementOfSeq
  <2> QED
    BY <2>1 DEF Readings, Packets
<1>3. Len(b) \in Nat /\ Len(o) \in Nat
  BY LenProperties
<1>4. \A i \in 1 .. Len(b) : b[i] < u
  BY <1>1, <1>3 DEF Before
<1>5. \A i \in 1 .. Len(o) : o[i].reading < u
  BY <1>2, <1>3 DEF Before
<1> QED
  BY <1>4, <1>5 DEF Before

----------------------------------------------------------------------------
\* Types.

Places == {"search", "look", "loop", "ping", "decide", "deliver", "probe", "flush",
           "sleep", "stopped"}

LoopTypes ==
  /\ pc \in Places
  /\ taken \in Count
  /\ packet_counter \in 0 .. PINGEVERY
  /\ server_available \in BOOLEAN /\ received_pong \in BOOLEAN
  /\ shutdown_flag \in BOOLEAN /\ half \in BOOLEAN
  /\ since \in 0 .. GIVEUP /\ quiet \in 0 .. SILENCE + 1
  /\ asked \in 0 .. PONGS /\ answered \in 0 .. asked
  /\ missed \in 0 .. PINGEVERY /\ fails \in 0 .. FAILS

SearchTypes ==
  /\ retries \in 0 .. RETRIES - 1 /\ inbox \in Seq({"Im_S", "other"})
  /\ answering \in BOOLEAN /\ trouble \in 0 .. TROUBLE

Data ==
  /\ buffered_temps \in Seq(Readings) /\ Len(buffered_temps) <= CAP
  /\ out \in Seq(Packets)

\* The counter reaches PINGEVERY only for the ping, and is then reset.
CounterInv ==
  /\ pc \in {"ping", "decide"} => packet_counter = PINGEVERY
  /\ pc \notin {"ping", "decide", "stopped"} => packet_counter < PINGEVERY

\* The first reading that is neither kept nor sent.
NextReading == IF pc \in {"ping", "decide", "deliver"} THEN taken ELSE taken + 1

OrderInv ==
  /\ InOrder(buffered_temps, out)
  /\ Before(buffered_temps, out, NextReading)
  /\ NextReading # 0

\* The constants, one by one.
LEMMA Constants ==
  /\ CAP \in Nat /\ CAP > 0 /\ PINGEVERY \in Nat /\ PINGEVERY > 0
  /\ GIVEUP \in Nat /\ GIVEUP > 0 /\ SILENCE \in Nat /\ SILENCE > 0
  /\ MaxReadings \in Nat /\ RETRIES \in Nat /\ RETRIES > 0
  /\ PONGS \in Nat /\ FAILS \in Nat /\ TROUBLE \in Nat
  BY LoopAssumption

\* What tries of a search are left after this one.
LEMMA NextTry == \A n \in 0 .. RETRIES - 1 : (n + 1) % RETRIES \in 0 .. RETRIES - 1
  BY Constants

\* A number counted up to a bound.
LEMMA Counted ==
  ASSUME NEW n \in Nat, NEW bound \in Nat
  PROVE  /\ UpTo(n, bound) \in 0 .. bound
         /\ UpTo(n, bound) <= n
         /\ UpTo(n, bound) = n \/ UpTo(n, bound) = bound
  BY DEF UpTo

\* A false value is a Boolean one: the SMT translation has to be told.
LEMMA FalseIsBoolean == \A b : b = FALSE => b \in BOOLEAN
  OBVIOUS

\* What a ping and a second change keeps its type.
LEMMA PingTypes ==
  ASSUME LoopTypes, Ping
  PROVE  /\ missed' \in 0 .. PINGEVERY /\ missed' \in {missed + 1, PINGEVERY}
         /\ asked' \in 0 .. PONGS /\ answered' \in 0 .. asked'
         /\ fails' \in 0 .. FAILS /\ quiet' \in 0 .. SILENCE + 1
         /\ fails' >= fails /\ (fails' = fails => quiet' = 0)
         /\ received_pong' = FALSE /\ UNCHANGED <<since, half>>
<1> USE Constants DEF LoopTypes
<1>1. missed' = UpTo(missed + 1, PINGEVERY) /\ missed + 1 \in Nat
  BY DEF Ping
<1>2. missed' \in 0 .. PINGEVERY /\ missed' \in {missed + 1, PINGEVERY}
  BY <1>1, Counted
<1>3. CASE quiet' = 0 /\ asked' = UpTo(asked + 1, PONGS) /\ UNCHANGED <<answered, fails>>
  <2>1. asked' \in 0 .. PONGS /\ asked' >= asked
    BY <1>3 DEF UpTo
  <2> QED
    BY <1>2, <1>3, <2>1 DEF Ping
<1>4. CASE fails < FAILS /\ fails' = fails + 1 /\ UNCHANGED <<quiet, asked, answered>>
  BY <1>2, <1>4 DEF Ping
<1> QED
  BY <1>3, <1>4 DEF Ping

\* The same of a sleep or a wait.
LEMMA PassesTypes ==
  ASSUME LoopTypes, NEW ticks \in Nat, Passes(ticks)
  PROVE  /\ since' \in 0 .. GIVEUP /\ since' <= since + ticks
         /\ since' \in {since + ticks, GIVEUP}
         /\ quiet' \in 0 .. SILENCE + 1 /\ quiet' <= quiet + ticks
<1> USE Constants DEF LoopTypes, Passes
<1>1. since + ticks \in Nat /\ quiet + ticks \in Nat /\ SILENCE + 1 \in Nat
  OBVIOUS
<1> QED
  BY <1>1, Counted

\* The packets in the socket.
LEMMA Inbox ==
  ASSUME NEW box \in Seq({"Im_S", "other"})
  PROVE  /\ Append(box, "Im_S") \in Seq({"Im_S", "other"})
         /\ Append(box, "other") \in Seq({"Im_S", "other"})
         /\ box # <<>> => Tail(box) \in Seq({"Im_S", "other"})
         /\ <<>> \in Seq({"Im_S", "other"})
  BY AppendProperties, HeadTailProperties, EmptySeq

\* The steps of the search touch nothing of the loop but where main is.
LEMMA SearchSteps ==
  ASSUME Search \/ Reply \/ OtherTraffic
  PROVE  /\ UNCHANGED sensing /\ UNCHANGED shutdown_flag
         /\ \/ pc' = pc
            \/ pc \in {"search", "look"} /\ pc' \in {"search", "look", "loop", "stopped"}
  BY DEF Search, Reply, OtherTraffic, Ask, Missed, Found, SearchStops, Retry

\* The search keeps its variables in their types, and the loop leaves them alone.
LEMMA SearchTypesStep == SearchTypes /\ [Next]_vars => SearchTypes'
<1> SUFFICES ASSUME SearchTypes, [Next]_vars PROVE SearchTypes'
  OBVIOUS
<1> USE Constants, FalseIsBoolean DEF SearchTypes
<1>1. /\ Append(inbox, "Im_S") \in Seq({"Im_S", "other"})
      /\ Append(inbox, "other") \in Seq({"Im_S", "other"})
      /\ inbox # <<>> => Tail(inbox) \in Seq({"Im_S", "other"})
      /\ <<>> \in Seq({"Im_S", "other"})
  BY Inbox
<1>2. CASE Reply
  BY <1>1, <1>2 DEF Reply
<1>3. CASE OtherTraffic
  BY <1>1, <1>3 DEF OtherTraffic, InTrouble
<1>4. CASE Ask
  <2>1. retries' \in 0 .. RETRIES - 1
    BY <1>4, NextTry DEF Ask, Retry
  <2>2. trouble' \in 0 .. TROUBLE
    BY <1>4 DEF Ask, InTrouble
  <2>3. inbox' = inbox /\ answering' \in {TRUE, answering}
    BY <1>4 DEF Ask
  <2> QED
    BY <2>1, <2>2, <2>3
<1>5. CASE Missed
  <2>1. retries' \in 0 .. RETRIES - 1
    BY <1>5, NextTry DEF Missed, Retry
  <2>2. trouble' \in 0 .. TROUBLE
    BY <1>5 DEF Missed, InTrouble
  <2>3. inbox' \in Seq({"Im_S", "other"}) /\ answering' = answering
    BY <1>1, <1>5 DEF Missed
  <2> QED
    BY <2>1, <2>2, <2>3
<1>6. CASE Found
  <2>1. retries' = 0 /\ inbox' = <<>> /\ answering' = FALSE /\ trouble' = 0
    BY <1>6 DEF Found, SearchEnds
  <2>2. inbox' \in Seq({"Im_S", "other"})
    BY <1>1, <2>1, Zenon
  <2> QED
    BY <2>1, <2>2
<1>7. CASE SearchStops
  <2>1. retries' = 0 /\ inbox' = <<>> /\ answering' = FALSE /\ trouble' = 0
    BY <1>7 DEF SearchStops, SearchEnds
  <2>2. inbox' \in Seq({"Im_S", "other"})
    BY <1>1, <2>1, Zenon
  <2> QED
    BY <2>1, <2>2
<1>8. CASE UNCHANGED search
  BY <1>8 DEF search
<1>9. Pong \/ Stop \/ Loop \/ UNCHANGED vars => UNCHANGED search
  BY DEF Pong, Stop, Loop, vars
<1> QED
  BY <1>2, <1>3, <1>4, <1>5, <1>6, <1>7, <1>8, <1>9 DEF Next, Main, Search

\* The waits for a pong.
LEMMA Waits ==
  pc \in DOMAIN AfterWait => \/ pc = "ping" /\ AfterWait[pc] = "decide"
                             \/ pc = "probe" /\ AfterWait[pc] = "flush"
  BY DEF AfterWait

\* Every variable of the loop keeps its type.
LEMMA LoopTypesStep == LoopTypes /\ CounterInv /\ Data /\ [Next]_vars => LoopTypes' /\ CounterInv'
<1> SUFFICES ASSUME LoopTypes, CounterInv, Data, [Next]_vars PROVE LoopTypes' /\ CounterInv'
  OBVIOUS
<1> USE Constants, FalseIsBoolean DEF LoopTypes, CounterInv, Places, Count
<1>1. CASE Pong
  BY <1>1 DEF Pong, clock
<1>2. CASE Stop
  BY <1>2 DEF Stop, sensing, clock, network
<1>3. CASE Reply \/ OtherTraffic \/ Search
  BY <1>3, SearchSteps DEF sensing, clock, network
<1>4. CASE Measure
  <2>1. CASE Ping /\ pc' = "ping"
    <3>1. taken' \in Count /\ packet_counter' = PINGEVERY
      BY <1>4, <2>1 DEF Measure
    <3>2. UNCHANGED <<server_available, shutdown_flag>>
      BY <1>4 DEF Measure
    <3>3. /\ missed' \in 0 .. PINGEVERY /\ asked' \in 0 .. PONGS /\ answered' \in 0 .. asked'
          /\ fails' \in 0 .. FAILS /\ quiet' \in 0 .. SILENCE + 1
          /\ received_pong' = FALSE /\ UNCHANGED <<since, half>>
      BY <2>1, PingTypes
    <3> QED
      BY <2>1, <3>1, <3>2, <3>3
  <2>2. CASE pc' = "deliver" /\ UNCHANGED <<received_pong, clock, network, missed>>
    BY <1>4, <2>2 DEF Measure, clock, network
  <2> QED
    BY <1>4, <2>1, <2>2 DEF Measure
<1>5. CASE WaitEnds
  BY <1>5, Waits, PassesTypes DEF WaitEnds, network
<1>6. CASE WaitCut
  BY <1>6, Waits DEF WaitCut, network
<1>7. CASE Answered
  BY <1>7 DEF Answered, Heard, network
<1>8. CASE Unanswered
  BY <1>8 DEF Unanswered, network, clock
<1>9. CASE GivesUp
  BY <1>9 DEF GivesUp, network, clock
<1>10. CASE Deliver
  BY <1>10 DEF Deliver
<1>11. CASE Hold
  <2>1. UNCHANGED <<taken, packet_counter, server_available, shutdown_flag>> /\ pc = "deliver"
    BY <1>11 DEF Hold
  <2>2. CASE pc' = "probe" /\ Ping
    BY <2>1, <2>2, PingTypes
  <2>3. CASE pc' = "sleep" /\ UNCHANGED <<received_pong, clock, network, missed>>
    BY <2>1, <2>3 DEF network, clock
  <2> QED
    BY <1>11, <2>2, <2>3 DEF Hold
<1>12. CASE Flush
  BY <1>12 DEF Flush, Heard
<1>13. CASE StillAway
  BY <1>13 DEF StillAway, network, clock
<1>14. CASE Sleep
  <2>1. since' \in 0 .. GIVEUP /\ quiet' \in 0 .. SILENCE + 1
    BY <1>14, PassesTypes DEF Sleep
  <2> QED
    BY <1>14, <2>1 DEF Sleep, network
<1>15. CASE Leave
  BY <1>15 DEF Leave, network, clock
<1>16. CASE UNCHANGED vars
  BY <1>16 DEF vars, sensing, network, clock
<1> QED
  BY <1>1, <1>2, <1>3, <1>4, <1>5, <1>6, <1>7, <1>8, <1>9, <1>10, <1>11, <1>12, <1>13, <1>14, <1>15, <1>16
     DEF Next, Main, Loop

----------------------------------------------------------------------------
\* The order of the readings.

\* What Deliver makes of the buffer and of what has left before it resends.
Unsent(sent) == IF sent THEN buffered_temps ELSE Kept
Leaving(sent) == IF sent THEN out \o <<Packet("send", taken)>> ELSE out

\* The buffer with one more reading, or full.
LEMMA KeptFacts ==
  ASSUME LoopTypes, Data, OrderInv, pc = "deliver"
  PROVE  /\ taken \in Readings
         /\ Kept \in Seq(Readings) /\ Len(Kept) <= CAP
         /\ Len(Kept) = IF Len(buffered_temps) < CAP THEN Len(buffered_temps) + 1
                        ELSE Len(buffered_temps)
         /\ InOrder(Kept, out) /\ Before(Kept, out, taken + 1)
<1>1. taken \in Readings /\ Before(buffered_temps, out, taken) /\ InOrder(buffered_temps, out)
  BY DEF LoopTypes, Count, OrderInv, NextReading, Readings
<1>2. buffered_temps \in Seq(Readings) /\ out \in Seq(Packets) /\ Len(buffered_temps) <= CAP
  BY DEF Data
<1>3. Len(buffered_temps) \in Nat
  BY <1>2, LenProperties
<1>4. CASE Len(buffered_temps) < CAP
  <2>1. Kept = Append(buffered_temps, taken)
    BY <1>4 DEF Kept
  <2>2. Len(Append(buffered_temps, taken)) = Len(buffered_temps) + 1
    BY <1>1, <1>2, AppendProperties
  <2>3. /\ Append(buffered_temps, taken) \in Seq(Readings)
        /\ InOrder(Append(buffered_temps, taken), out)
        /\ Before(Append(buffered_temps, taken), out, taken + 1)
    BY <1>1, <1>2, KeepingInOrder
  <2>4. Len(buffered_temps) + 1 <= CAP
    BY <1>3, <1>4, Constants
  <2> QED
    BY <1>1, <1>4, <2>1, <2>2, <2>3, <2>4
<1>5. CASE ~(Len(buffered_temps) < CAP)
  <2>1. Kept = buffered_temps
    BY <1>5 DEF Kept
  <2>2. taken \in Nat /\ taken + 1 \in Nat /\ taken <= taken + 1
    BY <1>1 DEF Readings
  <2>3. Before(buffered_temps, out, taken + 1)
    BY <1>1, <1>2, <2>2, BeforeLater
  <2> QED
    BY <1>1, <1>2, <1>5, <2>1, <2>3
<1> QED
  BY <1>4, <1>5

\* What Deliver sends first, and what it then has in the buffer, is in order.
LEMMA LeavingFacts ==
  ASSUME LoopTypes, Data, OrderInv, pc = "deliver", NEW sent \in BOOLEAN
  PROVE  /\ Unsent(sent) \in Seq(Readings) /\ Len(Unsent(sent)) <= CAP
         /\ Leaving(sent) \in Seq(Packets)
         /\ InOrder(Unsent(sent), Leaving(sent))
         /\ Before(Unsent(sent), Leaving(sent), taken + 1)
<1>1. taken \in Readings /\ Before(buffered_temps, out, taken) /\ InOrder(buffered_temps, out)
  BY DEF LoopTypes, Count, OrderInv, NextReading, Readings
<1>2. buffered_temps \in Seq(Readings) /\ out \in Seq(Packets) /\ Len(buffered_temps) <= CAP
  BY DEF Data
<1>3. CASE sent
  <2>1. /\ out \o <<Packet("send", taken)>> \in Seq(Packets)
        /\ InOrder(buffered_temps, out \o <<Packet("send", taken)>>)
        /\ Before(buffered_temps, out \o <<Packet("send", taken)>>, taken + 1)
    BY <1>1, <1>2, SendingInOrder
  <2> QED
    BY <1>2, <1>3, <2>1 DEF Unsent, Leaving
<1>4. CASE ~sent
  BY <1>2, <1>4, KeptFacts DEF Unsent, Leaving
<1> QED
  BY <1>3, <1>4

\* What Deliver does: a packet sent or kept, then the first k of the buffer.
LEMMA Delivers ==
  ASSUME LoopTypes, Data, OrderInv, Deliver
  PROVE  \E sent \in BOOLEAN : \E k \in 0 .. Len(Unsent(sent)) :
           /\ buffered_temps' = After(Unsent(sent), k)
           /\ out' = Leaving(sent) \o Resends(SubSeq(Unsent(sent), 1, k))
           /\ fails' = fails + (IF sent THEN 0 ELSE 1) + (IF k = Len(Unsent(sent)) THEN 0 ELSE 1)
           /\ fails' <= FAILS
           /\ sent \/ k > 0 => quiet' = 0
           /\ ~sent /\ k = 0 => quiet' = quiet
<1>1. PICK sent \in BOOLEAN : \E k \in 0 .. Len(Unsent(sent)) :
        /\ fails' = fails + (IF sent THEN 0 ELSE 1) + (IF k = Len(Unsent(sent)) THEN 0 ELSE 1)
        /\ fails' <= FAILS
        /\ out' = out \o ((IF sent THEN <<Packet("send", taken)>> ELSE <<>>)
                             \o Resends(SubSeq(Unsent(sent), 1, k)))
        /\ buffered_temps' = After(Unsent(sent), k)
        /\ quiet' = IF (IF sent THEN <<Packet("send", taken)>> ELSE <<>>)
                          \o Resends(SubSeq(Unsent(sent), 1, k)) = <<>> THEN quiet ELSE 0
  BY DEF Deliver, Unsent
<1>2. PICK k \in 0 .. Len(Unsent(sent)) :
        /\ fails' = fails + (IF sent THEN 0 ELSE 1) + (IF k = Len(Unsent(sent)) THEN 0 ELSE 1)
        /\ fails' <= FAILS
        /\ out' = out \o ((IF sent THEN <<Packet("send", taken)>> ELSE <<>>)
                             \o Resends(SubSeq(Unsent(sent), 1, k)))
        /\ buffered_temps' = After(Unsent(sent), k)
        /\ quiet' = IF (IF sent THEN <<Packet("send", taken)>> ELSE <<>>)
                          \o Resends(SubSeq(Unsent(sent), 1, k)) = <<>> THEN quiet ELSE 0
  BY <1>1
<1>3. pc = "deliver" /\ out \in Seq(Packets) /\ taken \in Readings
  BY KeptFacts DEF Deliver, Data
<1>4. Unsent(sent) \in Seq(Readings)
  BY <1>3, LeavingFacts
<1>5. PICK r \in Seq(Packets) : r = Resends(SubSeq(Unsent(sent), 1, k)) /\ Len(r) = k
  BY <1>4, Resent
<1>6. CASE sent
  <2>1. <<Packet("send", taken)>> \in Seq(Packets)
    BY <1>3 DEF Packet, Packets
  <2>2. out \o (<<Packet("send", taken)>> \o r) = (out \o <<Packet("send", taken)>>) \o r
    BY <1>3, <2>1, ConcatAssociative
  <2>3. <<Packet("send", taken)>> \o r # <<>>
    BY <1>5, <2>1, ConcatProperties, LenProperties
  <2> QED
    BY <1>2, <1>5, <1>6, <2>2, <2>3 DEF Leaving
<1>7. CASE ~sent
  <2>1. <<>> \o r = r
    BY ConcatEmptySeq
  <2>2. r = <<>> <=> k = 0
    BY <1>5, EmptySeq
  <2>3. k \in Nat
    BY <1>4, LenProperties
  <2> QED
    <3>1. /\ fails' = fails + 1 + (IF k = Len(Unsent(sent)) THEN 0 ELSE 1)
          /\ out' = out \o (<<>> \o r)
          /\ quiet' = IF <<>> \o r = <<>> THEN quiet ELSE 0
      BY <1>2, <1>5, <1>7
    <3>2. out' = out \o r /\ quiet' = IF k = 0 THEN quiet ELSE 0
      BY <2>1, <2>2, <3>1
    <3>3. out' = Leaving(sent) \o Resends(SubSeq(Unsent(sent), 1, k))
      BY <1>5, <1>7, <3>2 DEF Leaving
    <3>4. sent \/ k > 0 => quiet' = 0
      BY <1>7, <2>3, <3>2
    <3>5. ~sent /\ k = 0 => quiet' = quiet
      BY <3>2
    <3> QED
      BY <1>2, <3>3, <3>4, <3>5, Zenon
<1> QED
  BY <1>6, <1>7

\* Whatever is not Deliver, Hold or Flush leaves the readings where they are.
LEMMA OtherSteps ==
  ASSUME LoopTypes, [Next]_vars, ~Deliver, ~Hold, ~Flush
  PROVE  UNCHANGED <<buffered_temps, out>> /\ NextReading' \in Nat /\ NextReading <= NextReading'
<1> USE DEF LoopTypes, Count, NextReading, Places
<1>1. taken \in Nat
  BY Constants
<1>2. CASE Pong \/ Stop \/ UNCHANGED vars
  BY <1>1, <1>2 DEF Pong, Stop, vars, sensing
<1>3. CASE Reply \/ OtherTraffic \/ Search
  BY <1>1, <1>3, SearchSteps DEF sensing
<1>4. CASE Measure
  BY <1>1, <1>4 DEF Measure
<1>5. CASE WaitEnds \/ WaitCut
  <2>1. \/ pc = "ping" /\ pc' = "decide"
        \/ pc = "probe" /\ pc' = "flush"
    BY <1>5, Waits DEF WaitEnds, WaitCut
  <2>2. UNCHANGED <<taken, buffered_temps, out>>
    BY <1>5 DEF WaitEnds, WaitCut
  <2> QED
    BY <1>1, <2>1, <2>2
<1>6. CASE Answered \/ Unanswered \/ GivesUp
  BY <1>1, <1>6 DEF Answered, Unanswered, GivesUp
<1>7. CASE StillAway \/ Sleep \/ Leave
  <2>1. pc \in {"flush", "sleep", "loop"} /\ pc' \in {"sleep", "loop", "stopped"}
    BY <1>7 DEF StillAway, Sleep, Leave
  <2>2. UNCHANGED <<taken, buffered_temps, out>>
    BY <1>7 DEF StillAway, Sleep, Leave
  <2> QED
    BY <1>1, <2>1, <2>2
<1> QED
  BY <1>2, <1>3, <1>4, <1>5, <1>6, <1>7 DEF Next, Main, Loop

\* The buffer and what has left keep their types and their order.
LEMMA OrderStep ==
  LoopTypes /\ Data /\ OrderInv /\ [Next]_vars => Data' /\ OrderInv'
<1> SUFFICES ASSUME LoopTypes, Data, OrderInv, [Next]_vars PROVE Data' /\ OrderInv'
  OBVIOUS
<1>1. /\ buffered_temps \in Seq(Readings) /\ Len(buffered_temps) <= CAP
      /\ out \in Seq(Packets) /\ taken \in Nat
  BY Constants DEF Data, LoopTypes, Count
<1>2. InOrder(buffered_temps, out) /\ Before(buffered_temps, out, NextReading)
  BY DEF OrderInv
<1>3. CASE Deliver
  <2>1. PICK sent \in BOOLEAN : \E k \in 0 .. Len(Unsent(sent)) :
          /\ buffered_temps' = After(Unsent(sent), k)
          /\ out' = Leaving(sent) \o Resends(SubSeq(Unsent(sent), 1, k))
    BY <1>3, Delivers
  <2>2. PICK k \in 0 .. Len(Unsent(sent)) :
          /\ buffered_temps' = After(Unsent(sent), k)
          /\ out' = Leaving(sent) \o Resends(SubSeq(Unsent(sent), 1, k))
    BY <2>1
  <2>3. pc = "deliver" /\ pc' = "sleep" /\ taken' = taken
    BY <1>3 DEF Deliver
  <2>4. /\ Unsent(sent) \in Seq(Readings) /\ Len(Unsent(sent)) <= CAP
        /\ Leaving(sent) \in Seq(Packets)
        /\ InOrder(Unsent(sent), Leaving(sent))
        /\ Before(Unsent(sent), Leaving(sent), taken + 1)
    BY <2>3, LeavingFacts
  <2>5. taken + 1 \in Nat
    BY <1>1
  <2>6. /\ buffered_temps' \in Seq(Readings) /\ out' \in Seq(Packets)
        /\ InOrder(buffered_temps', out') /\ Before(buffered_temps', out', taken + 1)
    BY <2>2, <2>4, <2>5, ResendingInOrder
  <2>7. Len(buffered_temps') <= CAP
    <3>1. Len(buffered_temps') = Len(Unsent(sent)) - k
      BY <1>1, <2>2, <2>4, ResendFacts
    <3>2. Len(Unsent(sent)) \in Nat
      BY <2>4, LenProperties
    <3> QED
      BY <2>4, <3>1, <3>2, Constants
  <2>8. NextReading' = taken + 1
    BY <2>3 DEF NextReading
  <2> QED
    BY <1>1, <2>6, <2>7, <2>8 DEF Data, OrderInv
<1>4. CASE Hold
  <2>1. pc = "deliver" /\ pc' \in {"probe", "sleep"} /\ taken' = taken
    BY <1>4 DEF Hold
  <2>2. buffered_temps' = Kept /\ out' = out
    BY <1>4 DEF Hold
  <2>3. NextReading' = taken + 1
    BY <2>1 DEF NextReading
  <2> QED
    BY <1>1, <2>1, <2>2, <2>3, KeptFacts DEF Data, OrderInv
<1>5. CASE Flush
  <2>1. PICK k \in 0 .. Len(buffered_temps) :
          out' = out \o Resends(SubSeq(buffered_temps, 1, k))
    BY <1>5 DEF Flush
  <2>2. pc = "flush" /\ pc' = "sleep" /\ taken' = taken /\ buffered_temps' = <<>>
    BY <1>5 DEF Flush
  <2>3. NextReading' = NextReading /\ NextReading \in Nat
    BY <1>1, <2>2 DEF NextReading
  <2>4. /\ out' \in Seq(Packets)
        /\ InOrder(After(buffered_temps, k), out')
        /\ Before(After(buffered_temps, k), out', NextReading)
    BY <1>1, <1>2, <2>1, <2>3, ResendingInOrder
  <2>5. buffered_temps' \in Seq(Readings) /\ Len(buffered_temps') = 0
    BY <2>2, EmptySeq
  <2>6. InOrder(buffered_temps', out') /\ Before(buffered_temps', out', NextReading)
    BY <2>4, <2>5 DEF InOrder, Before
  <2> QED
    BY <2>3, <2>4, <2>5, <2>6, Constants DEF Data, OrderInv
<1>6. CASE ~Deliver /\ ~Hold /\ ~Flush
  <2>1. /\ UNCHANGED <<buffered_temps, out>>
        /\ NextReading' \in Nat /\ NextReading <= NextReading'
    BY <1>6, OtherSteps
  <2>2. NextReading \in Nat
    BY <1>1 DEF NextReading
  <2>3. Before(buffered_temps, out, NextReading')
    BY <1>1, <1>2, <2>1, <2>2, BeforeLater
  <2>4. NextReading' # 0
    BY <2>1, <2>2 DEF OrderInv
  <2> QED
    BY <1>1, <1>2, <2>1, <2>3, <2>4 DEF Data, OrderInv
<1> QED
  BY <1>3, <1>4, <1>5, <1>6

----------------------------------------------------------------------------
\* The invariant of every sensor, whatever the constants.
Inv == LoopTypes /\ SearchTypes /\ CounterInv /\ Data /\ OrderInv

\* It holds when the sensor starts.
LEMMA InvInit == Init => Inv
<1> SUFFICES ASSUME Init PROVE Inv
  OBVIOUS
<1> USE Constants, FalseIsBoolean DEF Init
<1>1. LoopTypes /\ CounterInv
  BY DEF LoopTypes, CounterInv, Places, Count
<1>2. SearchTypes
  BY EmptySeq DEF SearchTypes
<1>3. Data
  BY EmptySeq DEF Data
<1>4. OrderInv
  BY EmptySeq DEF OrderInv, InOrder, Before, NextReading
<1> QED
  BY <1>1, <1>2, <1>3, <1>4 DEF Inv

\* Every step of the sensor, of its listener and of the network keeps it.
LEMMA InvStep == Inv /\ [Next]_vars => Inv'
  BY LoopTypesStep, SearchTypesStep, OrderStep DEF Inv

\* It holds in every state of a sensor.
THEOREM AlwaysInv == Spec => []Inv
  BY InvInit, InvStep, PTL DEF Spec

\* The readings in the buffer and those that left were taken before.
LEMMA TakenBefore ==
  ASSUME Inv
  PROVE  /\ \A i \in 1 .. Len(buffered_temps) : buffered_temps[i] \in 1 .. taken
         /\ \A i \in 1 .. Len(out) : out[i].cmd \in {"send", "resend"} /\ out[i].reading \in 1 .. taken
<1>1. taken \in Nat /\ NextReading \in Nat /\ NextReading <= taken + 1
  BY Constants DEF Inv, LoopTypes, Count, NextReading
<1>2. \A i \in 1 .. Len(buffered_temps) : buffered_temps[i] \in Readings
  BY ElementOfSeq DEF Inv, Data
<1>3. \A i \in 1 .. Len(out) : out[i] \in Packets
  BY ElementOfSeq DEF Inv, Data
<1>4. Before(buffered_temps, out, NextReading)
  BY DEF Inv, OrderInv
<1>5. \A i \in 1 .. Len(buffered_temps) : buffered_temps[i] \in 1 .. taken
  BY <1>1, <1>2, <1>4 DEF Before, Readings
<1>6. \A i \in 1 .. Len(out) : out[i].cmd \in {"send", "resend"} /\ out[i].reading \in 1 .. taken
  BY <1>1, <1>3, <1>4 DEF Before, Readings, Packets
<1> QED
  BY <1>5, <1>6

\* Every variable has its type, and the buffer its capacity, for every value of
\* the constants.
THEOREM Types == Spec => []TypeOK
<1>1. Inv => TypeOK
  <2> SUFFICES ASSUME Inv PROVE TypeOK
    OBVIOUS
  <2>1. DOMAIN buffered_temps = 1 .. Len(buffered_temps) /\ DOMAIN out = 1 .. Len(out)
    BY LenProperties DEF Inv, Data
  <2>2. Buffered \subseteq 1 .. taken
    BY <2>1, TakenBefore DEF Buffered
  <2>3. \A i \in DOMAIN out : out[i].cmd \in {"send", "resend"} /\ out[i].reading \in 1 .. taken
    BY <2>1, TakenBefore
  <2>4. {server_available, received_pong, shutdown_flag, half} \subseteq BOOLEAN
    BY Zenon DEF Inv, LoopTypes
  <2>5. Len(buffered_temps) <= CAP
    BY DEF Inv, Data
  <2>6. /\ retries \in 0 .. RETRIES - 1 /\ inbox \in Seq({"Im_S", "other"})
        /\ answering \in BOOLEAN /\ trouble \in 0 .. TROUBLE
    BY DEF Inv, SearchTypes
  <2>7. LoopTypes
    BY DEF Inv
  <2> QED
    BY <2>2, <2>3, <2>4, <2>5, <2>6, <2>7 DEF TypeOK, LoopTypes, Places
<1> QED
  BY <1>1, AlwaysInv, PTL

\* No reading reaches the server twice, whatever fails, and those kept for later
\* leave in the order in which they were taken: Deliver, Hold and Flush keep the
\* buffer ascending and after every resend so far.
THEOREM SentOnceAndInOrder == Spec => []OnceAndInOrder
<1>1. Inv => OnceAndInOrder
  <2> SUFFICES ASSUME Inv PROVE OnceAndInOrder
    OBVIOUS
  <2>1. DOMAIN buffered_temps = 1 .. Len(buffered_temps) /\ DOMAIN out = 1 .. Len(out)
    BY LenProperties DEF Inv, Data
  <2>2. InOrder(buffered_temps, out)
    BY DEF Inv, OrderInv
  <2>3. Sent \cap Buffered = {}
    BY <2>1, <2>2 DEF InOrder, Sent, Buffered
  <2> QED
    BY <2>1, <2>2, <2>3 DEF InOrder, OnceAndInOrder
<1> QED
  BY <1>1, AlwaysInv, PTL

----------------------------------------------------------------------------
\* How long the sensor waits before it gives up.

\* What the numbers of the code satisfy (10, 5 and 10): a second reading is kept
\* while the server is away, and GIVEUP seconds are more than the readings
\* between two pings and the ping can take, at a second and a half each.
PatientConstants == CAP >= 2 /\ 2 * GIVEUP > 3 * PINGEVERY + 3

Half == IF half THEN 1 ELSE 0

\* With the server there a reading takes at most a second and a half.
ShortAway ==
  /\ pc \in {"search", "look"} => server_available /\ since = 0 /\ packet_counter = 0
  /\ pc \in {"probe", "flush"} => ~server_available
  /\ server_available =>
       /\ pc = "loop" => 2 * since + Half <= 3 * packet_counter + 4
       /\ pc \in {"deliver", "sleep", "ping"} => 2 * since + Half <= 3 * packet_counter + 1
       /\ pc = "decide" => 2 * since <= 3 * PINGEVERY + 3

\* With the server away every reading but the first is kept and asks for it.
AsksEachTime ==
  /\ pc \in {"ping", "decide"} => missed >= 1
  /\ ~server_available =>
       /\ pc \in {"loop", "sleep", "probe", "flush"} =>
            missed >= packet_counter + 1 /\ Len(buffered_temps) >= 1
       /\ pc = "deliver" =>
            /\ missed >= 1 /\ missed >= packet_counter
            /\ packet_counter = 0 \/ Len(buffered_temps) >= 1
       /\ pc \in {"ping", "decide"} => missed >= PINGEVERY

\* A wait of a second, and a sleep of one or two ticks.
LEMMA SecondAndAHalf ==
  ASSUME NEW s \in Nat, NEW t \in Nat, NEW n \in Nat, NEW h \in Nat, NEW u \in Nat,
         2 * s + h <= 3 * n + 1
  PROVE  /\ t <= s + 1 => 2 * t <= 3 * n + 3
         /\ t <= s + 1 /\ u <= h + 1 => 2 * t + u <= 3 * n + 4
         /\ t <= s + 2 /\ h = 1 /\ u = 0 => 2 * t + u <= 3 * n + 4
  OBVIOUS

\* Every step keeps the bound on a short absence.
LEMMA ShortAwayStep == Inv /\ ShortAway /\ [Next]_vars => ShortAway'
<1> SUFFICES ASSUME Inv, ShortAway, [Next]_vars PROVE ShortAway'
  OBVIOUS
<1> USE Constants, FalseIsBoolean DEF ShortAway, Half
<1>0. LoopTypes /\ CounterInv
  BY DEF Inv
<1> USE <1>0 DEF LoopTypes, CounterInv, Places
<1>1. CASE Pong
  BY <1>1 DEF Pong, clock
<1>2. CASE Stop
  BY <1>2 DEF Stop, sensing, clock
<1>3. CASE Reply \/ OtherTraffic \/ Search
  BY <1>3, SearchSteps DEF sensing, clock
<1>4. CASE Measure
  <2>1. UNCHANGED <<since, half, server_available>>
    BY <1>4 DEF Measure, Ping, clock
  <2>2. packet_counter' = packet_counter + 1 /\ pc = "loop" /\ pc' \in {"ping", "deliver"}
    BY <1>4 DEF Measure
  <2> QED
    BY <2>1, <2>2
<1>5. CASE WaitEnds
  <2>1. since' <= since + 1 /\ since' \in 0 .. GIVEUP
    BY <1>5, PassesTypes DEF WaitEnds
  <2>2. UNCHANGED <<packet_counter, server_available>> /\ half' = FALSE
    BY <1>5 DEF WaitEnds
  <2>3. \/ pc = "ping" /\ pc' = "decide"
        \/ pc = "probe" /\ pc' = "flush"
    BY <1>5, Waits DEF WaitEnds
  <2>4. CASE pc = "ping" /\ pc' = "decide"
    <3>1. server_available => 2 * since + Half <= 3 * PINGEVERY + 1
      BY <2>4
    <3>2. since \in Nat /\ since' \in Nat /\ Half \in Nat
      BY <2>1
    <3> HIDE DEF Half
    <3>3. server_available => 2 * since' <= 3 * PINGEVERY + 3
      BY <2>1, <3>1, <3>2, SecondAndAHalf
    <3> QED
      BY <2>2, <2>4, <3>3
  <2> QED
    BY <2>2, <2>3, <2>4
<1>6. CASE WaitCut
  BY <1>6, Waits DEF WaitCut
<1>7. CASE Answered
  BY <1>7 DEF Answered, Heard
<1>8. CASE Unanswered
  BY <1>8 DEF Unanswered
<1>9. CASE GivesUp
  BY <1>9 DEF GivesUp
<1>10. CASE Deliver
  BY <1>10 DEF Deliver
<1>11. CASE Hold
  BY <1>11 DEF Hold
<1>12. CASE Flush
  BY <1>12 DEF Flush, Heard
<1>13. CASE StillAway
  BY <1>13 DEF StillAway
<1>14. CASE Sleep
  <2>1. pc = "sleep" /\ pc' = "loop" /\ UNCHANGED <<packet_counter, server_available>>
    BY <1>14 DEF Sleep
  <2>5. packet_counter \in Nat /\ since \in Nat
    OBVIOUS
  <2>6. server_available => 2 * since + Half <= 3 * packet_counter + 1
    BY <2>1
  <2>7. ASSUME server_available => 2 * since' + Half' <= 3 * packet_counter + 4 PROVE ShortAway'
    BY <2>1, <2>7
  <2> HIDE DEF ShortAway
  <2>2. CASE Passes(1) /\ half' \in {half, TRUE}
    <3>1. since' <= since + 1 /\ since' \in 0 .. GIVEUP
      BY <2>2, PassesTypes
    <3>2. Half' <= Half + 1
      BY <2>2
    <3>3. Half \in Nat /\ Half' \in Nat
      OBVIOUS
    <3>5. since' \in Nat /\ Half \in Nat /\ Half' \in Nat
      BY <2>1, <3>1, <3>2, <3>3, <2>5
    <3> HIDE DEF Half
    <3>6. server_available => 2 * since' + Half' <= 3 * packet_counter + 4
      BY <3>1, <3>2, <3>3, <3>5, <2>5, <2>6, SecondAndAHalf
    <3> QED
      BY <3>6, <2>7
  <2>3. CASE half /\ Passes(2) /\ half' = FALSE
    <3>1. since' <= since + 2 /\ since' \in 0 .. GIVEUP
      BY <2>3, PassesTypes
    <3>2. Half' = 0 /\ Half = 1
      BY <2>3
    <3>5. since' \in Nat /\ Half \in Nat /\ Half' \in Nat
      BY <2>1, <3>1, <3>2, <2>5
    <3> HIDE DEF Half
    <3>6. server_available => 2 * since' + Half' <= 3 * packet_counter + 4
      BY <3>1, <3>2, <3>5, <2>5, <2>6, SecondAndAHalf
    <3> QED
      BY <3>6, <2>7
  <2>4. CASE half' \in {half, TRUE} /\ since' = since
    <3>1. Half' <= Half + 1 /\ since' <= since + 1
      BY <2>4
    <3>2. Half \in Nat /\ Half' \in Nat
      OBVIOUS
    <3>5. since' \in Nat /\ Half \in Nat /\ Half' \in Nat
      BY <2>1, <2>4, <3>1, <3>2, <2>5
    <3> HIDE DEF Half
    <3>6. server_available => 2 * since' + Half' <= 3 * packet_counter + 4
      BY <2>4, <3>1, <3>2, <3>5, <2>5, <2>6, SecondAndAHalf
    <3> QED
      BY <3>6, <2>7
  <2> QED
    BY <1>14, <2>2, <2>3, <2>4 DEF Sleep
<1>15. CASE Leave
  BY <1>15 DEF Leave
<1>16. CASE UNCHANGED vars
  BY <1>16 DEF vars, sensing, clock
<1> QED
  BY <1>1, <1>2, <1>3, <1>4, <1>5, <1>6, <1>7, <1>8, <1>9, <1>10, <1>11, <1>12, <1>13, <1>14, <1>15, <1>16
     DEF Next, Main, Loop

\* Every step keeps AsksEachTime, when the buffer has room for two.
LEMMA AsksEachTimeStep ==
  ASSUME CAP >= 2
  PROVE  Inv /\ ShortAway /\ AsksEachTime /\ [Next]_vars => AsksEachTime'
<1> SUFFICES ASSUME Inv, ShortAway, AsksEachTime, [Next]_vars PROVE AsksEachTime'
  OBVIOUS
<1> USE Constants, FalseIsBoolean DEF AsksEachTime
<1>0. /\ LoopTypes /\ CounterInv /\ Len(buffered_temps) \in Nat
  BY LenProperties DEF Inv, Data
<1> USE <1>0 DEF LoopTypes, CounterInv, Places
<1>1. CASE Pong
  BY <1>1 DEF Pong
<1>2. CASE Stop
  BY <1>2 DEF Stop, sensing, network
<1>3. CASE Reply \/ OtherTraffic \/ Search
  BY <1>3, SearchSteps DEF sensing, network, ShortAway
<1>4. CASE Measure
  <2>1. UNCHANGED <<buffered_temps, server_available>>
    BY <1>4 DEF Measure
  <2>2. packet_counter' = packet_counter + 1 /\ pc = "loop"
    BY <1>4 DEF Measure
  <2>3. CASE pc' = "ping" /\ Ping
    <3>1. missed' \in 0 .. PINGEVERY /\ missed' \in {missed + 1, PINGEVERY}
      BY <2>3, PingTypes
    <3>2. packet_counter' = PINGEVERY
      BY <1>4, <2>3 DEF Measure
    <3> QED
      BY <2>1, <2>2, <2>3, <3>1, <3>2
  <2>4. CASE pc' = "deliver" /\ missed' = missed
    BY <2>1, <2>2, <2>4
  <2> QED
    BY <1>4, <2>3, <2>4 DEF Measure
<1>5. CASE WaitEnds \/ WaitCut
  <2>1. \/ pc = "ping" /\ pc' = "decide"
        \/ pc = "probe" /\ pc' = "flush"
    BY <1>5, Waits DEF WaitEnds, WaitCut
  <2>2. UNCHANGED <<packet_counter, server_available, missed, buffered_temps>>
    BY <1>5 DEF WaitEnds, WaitCut
  <2> QED
    BY <2>1, <2>2
<1>6. CASE Answered
  BY <1>6 DEF Answered, Heard
<1>7. CASE Unanswered
  BY <1>7 DEF Unanswered
<1>8. CASE GivesUp
  BY <1>8 DEF GivesUp
<1>9. CASE Deliver
  BY <1>9 DEF Deliver
<1>10. CASE Hold
  <2>1. pc = "deliver" /\ ~server_available /\ UNCHANGED <<packet_counter, server_available>>
    BY <1>10 DEF Hold
  <2>2. buffered_temps' = Kept
    BY <1>10 DEF Hold
  <2>3. Len(buffered_temps') = IF Len(buffered_temps) < CAP THEN Len(buffered_temps) + 1
                               ELSE Len(buffered_temps)
    BY <2>1, <2>2, KeptFacts DEF Inv
  <2>4. CASE pc' = "probe" /\ Ping
    <3>1. missed' \in 0 .. PINGEVERY /\ missed' \in {missed + 1, PINGEVERY}
      BY <2>4, PingTypes
    <3> QED
      BY <2>1, <2>3, <2>4, <3>1
  <2>5. CASE pc' = "sleep" /\ missed' = missed /\ ~(Len(buffered_temps') >= 2)
    BY <2>1, <2>3, <2>5
  <2> QED
    BY <1>10, <2>4, <2>5 DEF Hold
<1>11. CASE Flush
  BY <1>11 DEF Flush, Heard
<1>12. CASE StillAway
  BY <1>12 DEF StillAway
<1>13. CASE Sleep
  BY <1>13 DEF Sleep
<1>14. CASE Leave
  BY <1>14 DEF Leave
<1>15. CASE UNCHANGED vars
  BY <1>15 DEF vars, sensing, network
<1> QED
  BY <1>1, <1>2, <1>3, <1>4, <1>5, <1>6, <1>7, <1>8, <1>9, <1>10, <1>11, <1>12, <1>13, <1>14, <1>15
     DEF Next, Main, Loop

\* Nothing ends the sensor but its giving up, unless it is told to stop.
LEMMA OnlyGivesUp ==
  ASSUME LoopTypes, [Next]_vars, pc # "stopped", pc' = "stopped", ~shutdown_flag
  PROVE  GivesUp
<1> USE DEF LoopTypes, Places
<1>1. ~Pong /\ ~Stop /\ ~Reply /\ ~OtherTraffic /\ ~UNCHANGED vars
  BY DEF Pong, Stop, Reply, OtherTraffic, vars
<1>2. ~Search
  BY DEF Search, Ask, Missed, Found, SearchStops, Retry
<1>3. ~Measure /\ ~Answered /\ ~Unanswered /\ ~Deliver /\ ~Hold
  BY DEF Measure, Answered, Unanswered, Deliver, Hold
<1>4. ~WaitEnds /\ ~WaitCut
  BY Waits DEF WaitEnds, WaitCut
<1>5. ~Flush /\ ~StillAway /\ ~Sleep /\ ~Leave
  BY DEF Flush, StillAway, Sleep, Leave
<1> QED
  BY <1>1, <1>2, <1>3, <1>4, <1>5 DEF Next, Main, Loop

\* The sensor ends, unless it is stopped, only after PINGEVERY pings in a row that
\* main took for unanswered.  With the server there the clock cannot reach GIVEUP
\* before a ping is taken for unanswered, and from then on every reading asks.
THEOREM GivesUpLate ==
  ASSUME PatientConstants
  PROVE  Spec => GivesUpAfterManyPings
<1> DEFINE J == Inv /\ ShortAway /\ AsksEachTime
<1>1. Init => J
  <2> SUFFICES ASSUME Init PROVE ShortAway /\ AsksEachTime
    BY InvInit
  <2> QED
    BY DEF Init, ShortAway, AsksEachTime
<1>2. J /\ [Next]_vars => J'
  BY InvStep, ShortAwayStep, AsksEachTimeStep DEF PatientConstants
<1>3. J /\ [Next]_vars =>
        [pc # "stopped" /\ pc' = "stopped" /\ ~shutdown_flag => missed >= PINGEVERY]_vars
  <2> SUFFICES ASSUME J, [Next]_vars, pc # "stopped", pc' = "stopped", ~shutdown_flag
               PROVE  missed >= PINGEVERY
    OBVIOUS
  <2>1. LoopTypes
    BY DEF Inv
  <2>2. pc = "decide" /\ since >= GIVEUP
    BY <2>1, OnlyGivesUp DEF GivesUp
  <2>3. CASE server_available
    <3>1. 2 * since <= 3 * PINGEVERY + 3
      BY <2>2, <2>3 DEF ShortAway
    <3>2. since \in Nat
      BY <2>1, Constants DEF LoopTypes
    <3> QED
      BY <2>2, <3>1, <3>2, Constants DEF PatientConstants
  <2>4. CASE ~server_available
    BY <2>2, <2>4 DEF AsksEachTime
  <2> QED
    BY <2>3, <2>4
<1> QED
  BY <1>1, <1>2, <1>3, PTL DEF Spec, GivesUpAfterManyPings

----------------------------------------------------------------------------
\* While no sendto fails the sensor is heard of every three seconds.
Pace == fails = 0 =>
  /\ pc \in {"search", "look", "ping", "probe"} => quiet = 0
  /\ pc \in {"decide", "flush", "sleep"} => quiet <= 1
  /\ pc = "deliver" /\ ~server_available /\ packet_counter = 0 => quiet <= 1
  /\ quiet <= 3

\* Every step keeps the pace.
LEMMA PaceStep ==
  ASSUME CAP >= 2
  PROVE  Inv /\ ShortAway /\ AsksEachTime /\ Pace /\ [Next]_vars => Pace'
<1> SUFFICES ASSUME Inv, ShortAway, AsksEachTime, Pace, [Next]_vars, fails' = 0 PROVE Pace'
  BY DEF Pace
<1> USE Constants, FalseIsBoolean DEF Pace
<1>0. LoopTypes /\ CounterInv
  BY DEF Inv
<1>17. ASSUME Ping PROVE quiet' = 0
  <2>1. fails' >= fails /\ (fails' = fails => quiet' = 0)
    BY <1>0, <1>17, PingTypes
  <2>2. fails \in Nat
    BY <1>0 DEF LoopTypes
  <2> QED
    BY <2>1, <2>2
<1> USE <1>0 DEF LoopTypes, CounterInv, Places
<1>1. CASE Pong
  BY <1>1 DEF Pong, clock
<1>2. CASE Stop
  BY <1>2 DEF Stop, sensing, network, clock
<1>3. CASE Reply \/ OtherTraffic \/ Search
  BY <1>3, SearchSteps DEF sensing, network, clock, ShortAway
<1>4. CASE Measure
  <2>1. CASE pc' = "ping" /\ Ping
    <3>1. quiet' = 0
      BY <1>17, <2>1
    <3> QED
      BY <2>1, <3>1
  <2>2. CASE pc' = "deliver" /\ UNCHANGED <<clock, network>>
    BY <1>4, <2>2 DEF Measure, clock, network
  <2> QED
    BY <1>4, <2>1, <2>2 DEF Measure
<1>5. CASE WaitEnds
  <2>1. quiet' <= quiet + 1
    BY <1>5, PassesTypes DEF WaitEnds
  <2>2. fails = 0 /\ pc' \in {"decide", "flush"} /\ pc \in {"ping", "probe"}
    BY <1>5, Waits DEF WaitEnds, network
  <2>3. quiet' \in Nat
    BY <1>5, PassesTypes DEF WaitEnds
  <2> QED
    BY <2>1, <2>2, <2>3
<1>6. CASE WaitCut
  BY <1>6, Waits DEF WaitCut, network
<1>7. CASE Answered
  BY <1>7 DEF Answered, Heard, network
<1>8. CASE Unanswered
  BY <1>8 DEF Unanswered, network, clock
<1>9. CASE GivesUp
  BY <1>9 DEF GivesUp, network, clock
<1>10. CASE Deliver
  <2>1. PICK sent \in BOOLEAN, k \in Nat :
          /\ fails' >= fails + (IF sent THEN 0 ELSE 1)
          /\ sent \/ k > 0 => quiet' = 0
    <3>1. PICK sent \in BOOLEAN : \E k \in 0 .. Len(Unsent(sent)) :
            /\ fails' = fails + (IF sent THEN 0 ELSE 1) + (IF k = Len(Unsent(sent)) THEN 0 ELSE 1)
            /\ sent \/ k > 0 => quiet' = 0
      BY <1>10, Delivers DEF Inv
    <3> QED
      BY <3>1
  <2>2. quiet' = 0
    BY <2>1
  <2> QED
    BY <2>2
<1>11. CASE Hold
  <2>1. pc = "deliver" /\ ~server_available /\ buffered_temps' = Kept /\ packet_counter' = packet_counter
    BY <1>11 DEF Hold
  <2>2. CASE pc' = "probe" /\ Ping
    <3>1. quiet' = 0
      BY <1>17, <2>2
    <3> QED
      BY <2>2, <3>1
  <2>3. CASE pc' = "sleep" /\ UNCHANGED <<clock, network>> /\ ~(Len(buffered_temps') >= 2)
    <3>1. Len(buffered_temps') = IF Len(buffered_temps) < CAP THEN Len(buffered_temps) + 1
                                 ELSE Len(buffered_temps)
      BY <2>1, KeptFacts DEF Inv
    <3>2. Len(buffered_temps) \in Nat
      BY LenProperties DEF Inv, Data
    <3>3. packet_counter = 0
      BY <2>1, <2>3, <3>1, <3>2 DEF AsksEachTime
    <3> QED
      BY <2>1, <2>3, <3>3 DEF clock, network
  <2> QED
    BY <1>11, <2>2, <2>3 DEF Hold
<1>12. CASE Flush
  BY <1>12 DEF Flush, Heard
<1>13. CASE StillAway
  BY <1>13 DEF StillAway, clock, network
<1>14. CASE Sleep
  <2>1. pc = "sleep" /\ pc' = "loop" /\ fails = 0
    BY <1>14 DEF Sleep, network
  <2>2. quiet' <= quiet + 2 /\ quiet' \in Nat
    <3>1. CASE Passes(1)
      BY <3>1, PassesTypes
    <3>2. CASE Passes(2)
      BY <3>2, PassesTypes
    <3>3. CASE quiet' = quiet
      BY <3>3
    <3> QED
      BY <1>14, <3>1, <3>2, <3>3 DEF Sleep
  <2> QED
    BY <2>1, <2>2
<1>15. CASE Leave
  BY <1>15 DEF Leave, clock, network
<1>16. CASE UNCHANGED vars
  BY <1>16 DEF vars, sensing, network, clock
<1> QED
  BY <1>1, <1>2, <1>3, <1>4, <1>5, <1>6, <1>7, <1>8, <1>9, <1>10, <1>11, <1>12, <1>13, <1>14, <1>15, <1>16
     DEF Next, Main, Loop

\* While no sendto fails, a packet leaves in every SILENCE seconds, whatever becomes
\* of the pongs: with the server away every second reading at the latest is one
\* that pings.
THEOREM NeverForgotten ==
  ASSUME CAP >= 2, SILENCE >= 3
  PROVE  Spec => []NeverSilent
<1> DEFINE J == Inv /\ ShortAway /\ AsksEachTime /\ Pace
<1>1. Init => J
  <2> SUFFICES ASSUME Init PROVE ShortAway /\ AsksEachTime /\ Pace
    BY InvInit
  <2> QED
    BY DEF Init, ShortAway, AsksEachTime, Pace
<1>2. J /\ [Next]_vars => J'
  BY InvStep, ShortAwayStep, AsksEachTimeStep, PaceStep
<1>3. J => NeverSilent
  BY Constants DEF Inv, LoopTypes, Pace, NeverSilent
<1> QED
  BY <1>1, <1>2, <1>3, PTL DEF Spec

----------------------------------------------------------------------------
\* How full the buffer gets.

\* The numbers of the code, with fewer than five sends that fail: two pings in a row
\* that find no server end the sensor, and the readings between two pings, with
\* those that failed, do not fill the buffer.
RoomyConstants ==
  /\ CAP >= 2 /\ GIVEUP <= 2 * PINGEVERY + 1
  /\ FAILS < PINGEVERY /\ PINGEVERY + FAILS < CAP

\* The server was last heard of at least x seconds ago.
AtLeast(x) == since >= x \/ since = GIVEUP

\* With the server away and each reading asking for it, a reading takes two seconds.
LongAway == ~shutdown_flag =>
  /\ server_available /\ pc = "decide" => AtLeast(1) \/ received_pong
  /\ ~server_available =>
       /\ pc = "deliver" => AtLeast(IF packet_counter = 0 THEN 1 ELSE 2 * packet_counter)
       /\ pc = "loop" => AtLeast(2 * packet_counter + 2)
       /\ pc = "probe" => AtLeast(2 * packet_counter)
       /\ pc = "flush" => AtLeast(2 * packet_counter + 1) \/ received_pong
       /\ pc = "sleep" => AtLeast(2 * packet_counter + 1)
       /\ pc = "ping" => AtLeast(2 * PINGEVERY)
       /\ pc = "decide" => AtLeast(2 * PINGEVERY + 1) \/ received_pong

\* The sends that failed since they found the server there, or since it went.
Room ==
  /\ server_available =>
       /\ pc = "deliver" =>
            \/ Len(buffered_temps) <= fails
            \/ Len(buffered_temps) <= PINGEVERY + fails /\ fails >= packet_counter
       /\ pc \in {"search", "look", "sleep", "loop"} =>
            \/ Len(buffered_temps) <= fails
            \/ Len(buffered_temps) <= PINGEVERY + fails /\ fails >= packet_counter + 1
       /\ pc \in {"ping", "decide"} => Len(buffered_temps) <= fails
  /\ ~server_available =>
       /\ pc \in {"sleep", "loop", "probe", "flush"} =>
            shutdown_flag \/ Len(buffered_temps) <= fails + packet_counter + 1
       /\ pc = "deliver" =>
            \/ Len(buffered_temps) <= fails + packet_counter
            \/ shutdown_flag /\ Len(buffered_temps) <= fails + PINGEVERY
       /\ pc \in {"ping", "decide"} => Len(buffered_temps) <= fails + PINGEVERY

\* What taking a reading changes.
LEMMA Measures ==
  ASSUME LoopTypes, CounterInv, Measure
  PROVE  /\ pc = "loop" /\ ~shutdown_flag
         /\ taken' = taken + 1 /\ packet_counter' = packet_counter + 1
         /\ (pc' = "deliver" \/ (pc' = "ping" /\ packet_counter' = PINGEVERY))
         /\ UNCHANGED <<server_available, buffered_temps, out, since, half>>
         /\ fails' \in Nat /\ fails <= fails'
<1>1. /\ pc = "loop" /\ ~shutdown_flag
      /\ taken' = taken + 1 /\ packet_counter' = packet_counter + 1
      /\ UNCHANGED <<server_available, buffered_temps, out, since, half>>
  BY DEF Measure, Ping, clock
<1>2. packet_counter \in Nat /\ packet_counter < PINGEVERY /\ fails \in Nat
  BY <1>1, Constants DEF LoopTypes, CounterInv
<1>3. CASE pc' = "ping" /\ Ping /\ packet_counter' >= PINGEVERY
  <2>1. packet_counter' = PINGEVERY
    BY <1>1, <1>2, <1>3, Constants
  <2>2. fails' \in Nat /\ fails <= fails'
    BY <1>2, <1>3, Constants, PingTypes
  <2> QED
    BY <1>1, <1>3, <2>1, <2>2
<1>4. CASE pc' = "deliver" /\ UNCHANGED network
  <2>1. fails' = fails
    BY <1>4 DEF network
  <2>2. fails' \in Nat /\ fails <= fails'
    BY <1>2, <2>1
  <2>3. pc' = "deliver"
    BY <1>4
  <2> QED
    BY <1>1, <2>2, <2>3
<1> QED
  BY <1>3, <1>4 DEF Measure

\* What keeping one changes.
LEMMA Holds ==
  ASSUME Inv, Hold
  PROVE  /\ pc = "deliver" /\ ~server_available /\ pc' \in {"probe", "sleep"}
         /\ buffered_temps' = Kept
         /\ UNCHANGED <<taken, packet_counter, server_available, shutdown_flag, out, since>>
         /\ fails' \in Nat /\ fails <= fails'
<1>1. LoopTypes /\ fails \in Nat
  BY Constants DEF Inv, LoopTypes
<1>2. CASE pc' = "probe" /\ Ping
  BY <1>1, <1>2, Constants, PingTypes DEF Hold
<1>3. CASE pc' = "sleep" /\ UNCHANGED <<clock, network>>
  BY <1>1, <1>3 DEF Hold, clock, network
<1> QED
  BY <1>2, <1>3 DEF Hold

\* A second more, as long as the clock is not at GIVEUP.
LEMMA LaterAtLeast ==
  ASSUME LoopTypes, NEW x \in Nat, AtLeast(x), NEW ticks \in Nat, ticks >= 1, Passes(ticks)
  PROVE  (AtLeast(x + 1))'
<1>1. since \in Nat /\ since <= GIVEUP /\ since' <= GIVEUP /\ since' \in Nat
  BY PassesTypes, Constants DEF LoopTypes
<1>2. since' \in {since + ticks, GIVEUP}
  BY PassesTypes
<1> QED
  BY <1>1, <1>2, Constants DEF AtLeast

\* Every step keeps the bound on a long absence.
LEMMA LongAwayStep ==
  ASSUME CAP >= 2
  PROVE  Inv /\ ShortAway /\ AsksEachTime /\ LongAway /\ [Next]_vars => LongAway'
<1> SUFFICES ASSUME Inv, ShortAway, AsksEachTime, LongAway, [Next]_vars, ~shutdown_flag'
             PROVE  LongAway'
  BY DEF LongAway
<1> USE Constants, FalseIsBoolean
<1>0. LoopTypes /\ CounterInv
  BY DEF Inv
<1>17. packet_counter \in Nat /\ pc \in Places /\ since \in Nat
  BY <1>0 DEF LoopTypes
<1>1. CASE Pong
  BY <1>1 DEF Pong, clock, LongAway, AtLeast
<1>2. CASE Stop
  BY <1>2 DEF Stop
<1>3. CASE Reply \/ OtherTraffic \/ Search
  BY <1>3, SearchSteps DEF sensing, network, clock, LongAway, AtLeast, ShortAway
<1>4. CASE Measure
  <2>1. /\ pc = "loop" /\ ~shutdown_flag /\ packet_counter' = packet_counter + 1
        /\ UNCHANGED <<server_available, since>>
    BY <1>0, <1>4, Measures
  <2>2. pc' = "deliver" \/ (pc' = "ping" /\ packet_counter' = PINGEVERY)
    BY <1>0, <1>4, Measures
  <2>3. ~server_available => AtLeast(2 * packet_counter + 2)
    BY <2>1 DEF LongAway
  <2>4. 2 * packet_counter + 2 = 2 * packet_counter' /\ packet_counter' # 0
    BY <1>17, <2>1
  <2>5. ~server_available' => (AtLeast(2 * packet_counter))'
    BY <2>1, <2>3, <2>4 DEF AtLeast
  <2> QED
    BY <2>2, <2>4, <2>5 DEF LongAway, AtLeast
<1>5. CASE WaitEnds
  <2>1. /\ UNCHANGED <<packet_counter, server_available, received_pong, shutdown_flag>>
        /\ Passes(1)
    BY <1>5 DEF WaitEnds
  <2>2. CASE pc = "ping" /\ pc' = "decide" /\ server_available
    <3>1. AtLeast(0)
      BY <1>17 DEF AtLeast
    <3>2. (AtLeast(0 + 1))'
      BY <1>0, <2>1, <3>1, LaterAtLeast
    <3> QED
      BY <2>1, <2>2, <3>2 DEF LongAway, AtLeast
  <2>3. CASE pc = "ping" /\ pc' = "decide" /\ ~server_available
    <3>1. AtLeast(2 * PINGEVERY) /\ 2 * PINGEVERY \in Nat
      BY <2>1, <2>3 DEF LongAway
    <3>2. (AtLeast(2 * PINGEVERY + 1))'
      BY <1>0, <2>1, <3>1, LaterAtLeast
    <3> QED
      BY <2>1, <2>3, <3>2 DEF LongAway, AtLeast
  <2>4. CASE pc = "probe" /\ pc' = "flush"
    <3>1. ~server_available
      BY <2>4 DEF ShortAway
    <3>2. AtLeast(2 * packet_counter) /\ 2 * packet_counter \in Nat
      BY <1>17, <2>1, <2>4, <3>1 DEF LongAway
    <3>3. (AtLeast(2 * packet_counter + 1))'
      BY <1>0, <2>1, <3>2, LaterAtLeast DEF AtLeast
    <3> QED
      BY <2>1, <2>4, <3>1, <3>3 DEF LongAway, AtLeast
  <2> QED
    BY <1>5, <2>2, <2>3, <2>4, Waits DEF WaitEnds
<1>6. CASE WaitCut
  <2>1. /\ UNCHANGED <<packet_counter, server_available, received_pong, shutdown_flag>>
        /\ received_pong
    BY <1>6 DEF WaitCut
  <2>2. pc' \in {"decide", "flush"}
    BY <1>6, Waits DEF WaitCut
  <2> QED
    BY <2>1, <2>2 DEF LongAway
<1>7. CASE Answered
  BY <1>7 DEF Answered, Heard, LongAway
<1>8. CASE Unanswered
  <2>1. /\ pc = "decide" /\ pc' = "deliver" /\ ~received_pong /\ ~shutdown_flag
        /\ packet_counter' = 0 /\ since' = since
    BY <1>8 DEF Unanswered, clock
  <2>2. AtLeast(1) \/ AtLeast(2 * PINGEVERY + 1)
    BY <2>1 DEF LongAway
  <2>3. (AtLeast(1))'
    BY <1>17, <2>1, <2>2 DEF AtLeast
  <2> QED
    BY <2>1, <2>3 DEF LongAway, AtLeast
<1>9. CASE GivesUp
  BY <1>9 DEF GivesUp
<1>10. CASE Deliver
  BY <1>10 DEF Deliver, LongAway
<1>11. CASE Hold
  <2>1. /\ pc = "deliver" /\ ~server_available /\ buffered_temps' = Kept /\ ~shutdown_flag
        /\ UNCHANGED <<packet_counter, server_available, since>>
    BY <1>11 DEF Hold, Ping, clock
  <2>2. AtLeast(IF packet_counter = 0 THEN 1 ELSE 2 * packet_counter)
    BY <2>1 DEF LongAway
  <2>3. CASE pc' = "probe"
    <3>1. AtLeast(2 * packet_counter)
      BY <1>17, <2>2 DEF AtLeast
    <3> QED
      BY <2>1, <2>3, <3>1 DEF LongAway, AtLeast
  <2>4. CASE pc' = "sleep" /\ ~(Len(buffered_temps') >= 2)
    <3>1. Len(buffered_temps') = IF Len(buffered_temps) < CAP THEN Len(buffered_temps) + 1
                                 ELSE Len(buffered_temps)
      BY <2>1, KeptFacts DEF Inv
    <3>2. Len(buffered_temps) \in Nat
      BY LenProperties DEF Inv, Data
    <3>3. packet_counter = 0
      BY <2>1, <2>4, <3>1, <3>2 DEF AsksEachTime
    <3>4. AtLeast(2 * packet_counter + 1)
      BY <2>2, <3>3 DEF AtLeast
    <3> QED
      BY <2>1, <2>4, <3>4 DEF LongAway, AtLeast
  <2> QED
    BY <1>11, <2>3, <2>4 DEF Hold
<1>12. CASE Flush
  BY <1>12 DEF Flush, Heard, LongAway
<1>13. CASE StillAway
  <2>1. /\ pc = "flush" /\ pc' = "sleep" /\ ~received_pong /\ ~shutdown_flag
        /\ UNCHANGED <<packet_counter, server_available, since>>
    BY <1>13 DEF StillAway, clock
  <2> QED
    BY <2>1 DEF LongAway, AtLeast
<1>14. CASE Sleep
  <2>1. /\ pc = "sleep" /\ pc' = "loop" /\ ~shutdown_flag
        /\ UNCHANGED <<packet_counter, server_available>>
    BY <1>14 DEF Sleep
  <2>2. Passes(1) \/ Passes(2)
    BY <1>14, <2>1 DEF Sleep
  <2>3. ASSUME ~server_available PROVE (AtLeast(2 * packet_counter + 2))'
    <3>1. AtLeast(2 * packet_counter + 1) /\ 2 * packet_counter + 1 \in Nat
      BY <1>17, <2>1, <2>3 DEF LongAway
    <3>2. since' >= 2 * packet_counter + 1 + 1 \/ since' = GIVEUP
      BY <1>0, <2>2, <3>1, LaterAtLeast DEF AtLeast
    <3> QED
      BY <1>17, <2>1, <3>2 DEF AtLeast
  <2> QED
    BY <2>1, <2>3 DEF LongAway, AtLeast
<1>15. CASE Leave
  BY <1>15 DEF Leave
<1>16. CASE UNCHANGED vars
  BY <1>16 DEF vars, sensing, network, clock, LongAway, AtLeast
<1> QED
  BY <1>1, <1>2, <1>3, <1>4, <1>5, <1>6, <1>7, <1>8, <1>9, <1>10, <1>11, <1>12, <1>13, <1>14, <1>15, <1>16
     DEF Next, Main, Loop

\* Every step leaves the room in the buffer that the rest of the absence takes.
LEMMA RoomStep ==
  ASSUME RoomyConstants
  PROVE  Inv /\ ShortAway /\ LongAway /\ Room /\ [Next]_vars => Room'
<1> SUFFICES ASSUME Inv, ShortAway, LongAway, Room, [Next]_vars PROVE Room'
  OBVIOUS
<1> USE Constants, FalseIsBoolean
<1>0. LoopTypes /\ CounterInv
  BY DEF Inv
<1>17. /\ packet_counter \in Nat /\ pc \in Places /\ since \in Nat
       /\ fails \in Nat /\ fails <= FAILS /\ Len(buffered_temps) \in Nat
  BY <1>0, LenProperties DEF LoopTypes, Inv, Data
<1>18. FAILS < PINGEVERY /\ GIVEUP <= 2 * PINGEVERY + 1
  BY DEF RoomyConstants
<1>1. CASE Pong
  BY <1>1 DEF Pong, Room
<1>2. CASE Stop
  BY <1>2 DEF Stop, sensing, network, Room
<1>3. CASE Reply \/ OtherTraffic \/ Search
  <2>1. UNCHANGED <<server_available, buffered_temps, fails, packet_counter, shutdown_flag>>
    BY <1>3, SearchSteps DEF sensing, network
  <2>2. pc' = pc \/ pc' = "stopped" \/ (pc' \in {"search", "look", "loop"} /\ pc \in {"search", "look"})
    BY <1>3, SearchSteps
  <2>3. CASE pc' = pc
    BY <2>1, <2>3 DEF Room
  <2>4. CASE pc' = "stopped"
    BY <2>4 DEF Room
  <2>5. CASE pc' \in {"search", "look", "loop"} /\ pc \in {"search", "look"}
    BY <2>1, <2>5 DEF Room, ShortAway
  <2> QED
    BY <2>2, <2>3, <2>4, <2>5
<1>4. CASE Measure
  <2>1. /\ pc = "loop" /\ ~shutdown_flag /\ packet_counter' = packet_counter + 1
        /\ UNCHANGED <<server_available, buffered_temps>>
    BY <1>0, <1>4, Measures
  <2>2. pc' = "deliver" \/ (pc' = "ping" /\ packet_counter' = PINGEVERY)
    BY <1>0, <1>4, Measures
  <2>3. fails' \in Nat /\ fails <= fails'
    BY <1>0, <1>4, Measures
  <2> QED
    BY <1>17, <1>18, <2>1, <2>2, <2>3 DEF Room
<1>5. CASE WaitEnds \/ WaitCut
  <2>1. \/ pc = "ping" /\ pc' = "decide"
        \/ pc = "probe" /\ pc' = "flush"
    BY <1>5, Waits DEF WaitEnds, WaitCut
  <2>2. UNCHANGED <<packet_counter, server_available, shutdown_flag, buffered_temps, fails>>
    BY <1>5 DEF WaitEnds, WaitCut, network
  <2> QED
    BY <1>17, <2>1, <2>2, ShortAway DEF Room, ShortAway
<1>6. CASE Answered
  <2>1. /\ pc = "decide" /\ pc' = "deliver" /\ packet_counter' = 0 /\ server_available' = TRUE
        /\ UNCHANGED <<buffered_temps, fails>>
    BY <1>6 DEF Answered, Heard, network
  <2> QED
    BY <1>17, <2>1 DEF Room
<1>7. CASE Unanswered
  <2>1. /\ pc = "decide" /\ pc' = "deliver" /\ ~received_pong /\ since < GIVEUP
        /\ packet_counter' = 0 /\ server_available' = FALSE
        /\ UNCHANGED <<buffered_temps, fails, shutdown_flag>>
    BY <1>7 DEF Unanswered, network
  <2>2. ~server_available => shutdown_flag
    BY <1>17, <1>18, <2>1 DEF LongAway, AtLeast
  <2> QED
    BY <1>17, <2>1, <2>2 DEF Room
<1>8. CASE GivesUp \/ Leave
  BY <1>8 DEF GivesUp, Leave, Room
<1>9. CASE Deliver
  <2>1. /\ pc = "deliver" /\ pc' = "sleep" /\ server_available
        /\ UNCHANGED <<packet_counter, server_available>>
    BY <1>9 DEF Deliver
  <2>2. PICK sent \in BOOLEAN : \E k \in 0 .. Len(Unsent(sent)) :
          /\ buffered_temps' = After(Unsent(sent), k)
          /\ fails' = fails + (IF sent THEN 0 ELSE 1) + (IF k = Len(Unsent(sent)) THEN 0 ELSE 1)
    BY <1>9, Delivers DEF Inv
  <2>3. PICK k \in 0 .. Len(Unsent(sent)) :
          /\ buffered_temps' = After(Unsent(sent), k)
          /\ fails' = fails + (IF sent THEN 0 ELSE 1) + (IF k = Len(Unsent(sent)) THEN 0 ELSE 1)
    BY <2>2
  <2>4. Unsent(sent) \in Seq(Readings)
    BY <2>1, LeavingFacts DEF Inv
  <2>5. Len(buffered_temps') = Len(Unsent(sent)) - k /\ Len(Unsent(sent)) \in Nat
    <3>1. <<>> \in Seq(Packets)
      BY EmptySeq
    <3> QED
      BY <2>3, <2>4, <3>1, ResendFacts, LenProperties
  <2>6. Len(Unsent(sent)) <= Len(buffered_temps) + (IF sent THEN 0 ELSE 1)
    <3>1. CASE sent
      BY <1>17, <3>1 DEF Unsent
    <3>2. CASE ~sent
      BY <1>17, <2>1, <3>2, KeptFacts DEF Unsent, Inv
    <3> QED
      BY <3>1, <3>2
  <2>7. \/ Len(buffered_temps) <= fails
        \/ Len(buffered_temps) <= PINGEVERY + fails /\ fails >= packet_counter
    BY <2>1 DEF Room
  <2>8. CASE k = Len(Unsent(sent))
    <3>1. Len(buffered_temps') = 0 /\ fails' \in Nat
      BY <1>17, <2>3, <2>5, <2>8
    <3>2. Len(buffered_temps') <= fails'
      BY <3>1
    <3> QED
      BY <2>1, <3>2 DEF Room
  <2>9. CASE k # Len(Unsent(sent))
    <3>1. /\ fails' = fails + (IF sent THEN 0 ELSE 1) + 1
          /\ Len(buffered_temps') <= Len(buffered_temps) + (IF sent THEN 0 ELSE 1)
      BY <1>17, <2>3, <2>5, <2>6, <2>9
    <3>2. Len(buffered_temps') \in Nat
      BY <1>17, <2>5
    <3>3. \/ Len(buffered_temps') <= fails'
          \/ Len(buffered_temps') <= PINGEVERY + fails' /\ fails' >= packet_counter + 1
      BY <1>17, <2>7, <3>1, <3>2
    <3> QED
      BY <2>1, <3>3 DEF Room
  <2> QED
    BY <2>8, <2>9
<1>10. CASE Hold
  <2>1. /\ pc = "deliver" /\ ~server_available /\ buffered_temps' = Kept
        /\ UNCHANGED <<packet_counter, server_available, shutdown_flag>>
    BY <1>10 DEF Hold
  <2>2. Len(buffered_temps') <= Len(buffered_temps) + 1 /\ Len(buffered_temps') \in Nat
    BY <1>17, <2>1, KeptFacts DEF Inv
  <2>3. pc' \in {"probe", "sleep"} /\ fails' \in Nat /\ fails <= fails'
    BY <1>10, Holds
  <2>4. shutdown_flag \/ Len(buffered_temps) <= fails + packet_counter
    BY <2>1 DEF Room
  <2>5. shutdown_flag \/ Len(buffered_temps') <= fails' + packet_counter + 1
    BY <1>17, <2>2, <2>3, <2>4
  <2> QED
    BY <2>1, <2>3, <2>5 DEF Room
<1>11. CASE Flush
  <2>1. pc' = "sleep" /\ server_available' = TRUE /\ Len(buffered_temps') = 0
    BY <1>11, EmptySeq DEF Flush, Heard
  <2>2. fails' \in Nat /\ 0 <= fails'
    BY <1>11, <1>17 DEF Flush
  <2> QED
    BY <2>1, <2>2 DEF Room
<1>12. CASE StillAway \/ Sleep
  <2>1. /\ pc \in {"flush", "sleep"} /\ pc' \in {"sleep", "loop"} 
        /\ pc = "flush" => pc' = "sleep"
        /\ UNCHANGED <<packet_counter, server_available, shutdown_flag, buffered_temps, fails>>
    BY <1>12 DEF StillAway, Sleep, network
  <2> QED
    BY <2>1 DEF Room, ShortAway
<1>13. CASE UNCHANGED vars
  BY <1>13 DEF vars, sensing, network, Room
<1> QED
  BY <1>1, <1>2, <1>3, <1>4, <1>5, <1>6, <1>7, <1>8, <1>9, <1>10, <1>11, <1>12, <1>13
     DEF Next, Main, Loop

\* The invariants that bound the buffer, together.
Bounded == Inv /\ ShortAway /\ AsksEachTime /\ LongAway /\ Room

\* They hold at the start and every step keeps them.
LEMMA AlwaysBounded ==
  ASSUME RoomyConstants
  PROVE  (Init => Bounded) /\ (Bounded /\ [Next]_vars => Bounded')
<1>1. Init => ShortAway /\ AsksEachTime /\ LongAway /\ Room
  BY EmptySeq DEF Init, ShortAway, AsksEachTime, LongAway, Room
<1>2. CAP >= 2
  BY DEF RoomyConstants
<1> QED
  BY <1>1, <1>2, InvInit, InvStep, ShortAwayStep, AsksEachTimeStep, LongAwayStep, RoomStep DEF Bounded

\* There is room for the reading that is about to be delivered.
LEMMA RoomForOne ==
  ASSUME RoomyConstants, Bounded, pc = "deliver"
  PROVE  Len(buffered_temps) < CAP /\ Kept = Append(buffered_temps, taken)
<1>1. /\ packet_counter \in Nat /\ packet_counter < PINGEVERY
      /\ fails \in Nat /\ fails <= FAILS /\ Len(buffered_temps) \in Nat
  BY Constants, LenProperties DEF Bounded, Inv, LoopTypes, CounterInv, Data
<1>2. Len(buffered_temps) <= fails + PINGEVERY
  BY <1>1, Constants DEF Bounded, Room, LoopTypes, Inv
<1>3. Len(buffered_temps) < CAP
  BY <1>1, <1>2, Constants DEF RoomyConstants
<1> QED
  BY <1>3 DEF Kept

\* A resend that gets through does not lose the reading.
LEMMA NoneLost ==
  ASSUME NEW b \in Seq(Readings), NEW o \in Seq(Packets), NEW k \in 0 .. Len(b)
  PROVE  /\ \A i \in DOMAIN b :
              \/ \E j \in DOMAIN After(b, k) : After(b, k)[j] = b[i]
              \/ \E j \in DOMAIN (o \o Resends(SubSeq(b, 1, k))) :
                   (o \o Resends(SubSeq(b, 1, k)))[j].reading = b[i]
         /\ \A i \in DOMAIN o :
              /\ i \in DOMAIN (o \o Resends(SubSeq(b, 1, k)))
              /\ (o \o Resends(SubSeq(b, 1, k)))[i] = o[i]
<1>1. PICK c \in Seq(Readings) :
        c = After(b, k) /\ Len(c) = Len(b) - k /\ (\A i \in 1 .. Len(b) - k : c[i] = b[i + k])
  <2>1. /\ After(b, k) \in Seq(Readings)
        /\ Len(After(b, k)) = Len(b) - k
        /\ \A i \in 1 .. Len(b) - k : After(b, k)[i] = b[i + k]
    BY ResendFacts
  <2> QED
    BY <2>1, Zenon
<1>2. PICK q \in Seq(Packets) :
        /\ q = o \o Resends(SubSeq(b, 1, k))
        /\ Len(q) = Len(o) + k
        /\ \A i \in 1 .. Len(o) : q[i] = o[i]
        /\ \A i \in 1 .. k : q[Len(o) + i] = Packet("resend", b[i])
  BY ResendFacts
<1>3. Len(b) \in Nat /\ Len(o) \in Nat
  BY LenProperties
<1>4. /\ DOMAIN b = 1 .. Len(b) /\ DOMAIN o = 1 .. Len(o)
      /\ DOMAIN c = 1 .. Len(c) /\ DOMAIN q = 1 .. Len(q)
  BY LenProperties
<1>5. ASSUME NEW i \in 1 .. Len(b)
      PROVE  \/ \E j \in DOMAIN c : c[j] = b[i]
             \/ \E j \in DOMAIN q : q[j].reading = b[i]
  <2>1. CASE i > k
    <3>1. i - k \in DOMAIN c /\ i - k \in 1 .. Len(b) - k /\ (i - k) + k = i
      BY <1>1, <1>3, <1>4, <2>1
    <3>2. c[i - k] = b[i]
      BY <1>1, <3>1
    <3> QED
      BY <3>1, <3>2
  <2>2. CASE ~(i > k)
    <3>1. i \in 1 .. k /\ Len(o) + i \in DOMAIN q
      BY <1>2, <1>3, <1>4, <2>2
    <3>2. q[Len(o) + i] = Packet("resend", b[i])
      BY <1>2, <3>1
    <3>3. q[Len(o) + i].reading = b[i]
      BY <3>2 DEF Packet
    <3> QED
      BY <3>1, <3>3
  <2> QED
    BY <2>1, <2>2
<1>6. \A i \in 1 .. Len(o) : i \in 1 .. Len(q)
  BY <1>2, <1>3
<1> QED
  BY <1>1, <1>2, <1>4, <1>5, <1>6

\* Every reading is sent or kept until it is, but for the resend that fails when the
\* server is back: there is always room for the next one.
THEOREM NoneDiscarded ==
  ASSUME RoomyConstants
  PROVE  Spec => KeptUntilSent
<1>1. Bounded /\ [Next]_vars =>
        [\/ AtHand \subseteq AtHand' \cup Sent'
         \/ pc = "flush" /\ fails' > fails]_vars
  <2> SUFFICES ASSUME Bounded, [Next]_vars
               PROVE  \/ AtHand \subseteq AtHand' \cup Sent'
                      \/ pc = "flush" /\ fails' > fails
    OBVIOUS
  <2>1. LoopTypes /\ Data /\ Inv
    BY DEF Bounded, Inv
  <2>2. buffered_temps \in Seq(Readings) /\ out \in Seq(Packets)
    BY <2>1 DEF Data
  <2>3. CASE Deliver
    <3>1. PICK sent \in BOOLEAN : \E k \in 0 .. Len(Unsent(sent)) :
            /\ buffered_temps' = After(Unsent(sent), k)
            /\ out' = Leaving(sent) \o Resends(SubSeq(Unsent(sent), 1, k))
      BY <2>1, <2>3, Delivers DEF Inv
    <3>2. PICK k \in 0 .. Len(Unsent(sent)) :
            /\ buffered_temps' = After(Unsent(sent), k)
            /\ out' = Leaving(sent) \o Resends(SubSeq(Unsent(sent), 1, k))
      BY <3>1
    <3>3. pc = "deliver" /\ taken \in Readings
      BY <2>1, <2>3, KeptFacts DEF Deliver, Inv
    <3>4. Unsent(sent) \in Seq(Readings) /\ Leaving(sent) \in Seq(Packets)
      BY <2>1, <3>3, LeavingFacts DEF Inv
    <3>5. /\ \A i \in DOMAIN Unsent(sent) :
               \/ \E j \in DOMAIN buffered_temps' : buffered_temps'[j] = Unsent(sent)[i]
               \/ \E j \in DOMAIN out' : out'[j].reading = Unsent(sent)[i]
          /\ \A i \in DOMAIN Leaving(sent) : i \in DOMAIN out' /\ out'[i] = Leaving(sent)[i]
      <4>1. /\ \A i \in DOMAIN Unsent(sent) :
                 \/ \E j \in DOMAIN After(Unsent(sent), k) : After(Unsent(sent), k)[j] = Unsent(sent)[i]
                 \/ \E j \in DOMAIN (Leaving(sent) \o Resends(SubSeq(Unsent(sent), 1, k))) :
                      (Leaving(sent) \o Resends(SubSeq(Unsent(sent), 1, k)))[j].reading = Unsent(sent)[i]
            /\ \A i \in DOMAIN Leaving(sent) :
                 /\ i \in DOMAIN (Leaving(sent) \o Resends(SubSeq(Unsent(sent), 1, k)))
                 /\ (Leaving(sent) \o Resends(SubSeq(Unsent(sent), 1, k)))[i] = Leaving(sent)[i]
        BY <3>4, NoneLost
      <4> QED
        BY <3>2, <4>1, Zenon
    <3>6. \A i \in DOMAIN Unsent(sent) : Unsent(sent)[i] \in Buffered' \cup Sent'
      BY <3>5 DEF Buffered, Sent
    <3>7. \A i \in DOMAIN Leaving(sent) : Leaving(sent)[i].reading \in Sent'
      BY <3>5 DEF Sent
    <3>8. AtHand = Buffered \cup {taken}
      BY <3>3 DEF AtHand
    <3>9. CASE sent
      <4>1. Unsent(sent) = buffered_temps /\ Leaving(sent) = out \o <<Packet("send", taken)>>
        BY <3>9 DEF Unsent, Leaving
      <4>2. <<Packet("send", taken)>> \in Seq(Packets) /\ Len(<<Packet("send", taken)>>) = 1
        BY <3>3 DEF Packet, Packets
      <4>3. /\ Len(Leaving(sent)) = Len(out) + 1
            /\ Leaving(sent)[Len(out) + 1] = Packet("send", taken)
        <5>1. Len(out) \in Nat /\ ~(Len(out) + 1 <= Len(out)) /\ Len(out) + 1 - Len(out) = 1
          BY <2>2, LenProperties
        <5>2. Len(out) + 1 \in 1 .. Len(out) + Len(<<Packet("send", taken)>>)
          BY <4>2, <5>1
        <5> QED
          BY <2>2, <4>1, <4>2, <5>1, <5>2, ConcatProperties
      <4>4. Len(out) + 1 \in DOMAIN Leaving(sent)
        BY <2>2, <3>4, <4>3, LenProperties
      <4>5. taken \in Sent'
        BY <3>7, <4>3, <4>4 DEF Packet
      <4> QED
        BY <3>6, <3>8, <4>1, <4>5 DEF Buffered, AtHand
    <3>10. CASE ~sent
      <4>1. Unsent(sent) = Append(buffered_temps, taken)
        BY <3>3, <3>10, RoomForOne DEF Unsent
      <4>2. /\ Len(Unsent(sent)) = Len(buffered_temps) + 1
            /\ \A i \in 1 .. Len(buffered_temps) : Unsent(sent)[i] = buffered_temps[i]
            /\ Unsent(sent)[Len(buffered_temps) + 1] = taken
        BY <2>2, <3>3, <4>1, AppendProperties
      <4>3. /\ DOMAIN buffered_temps = 1 .. Len(buffered_temps) /\ Len(buffered_temps) \in Nat
            /\ DOMAIN Unsent(sent) = 1 .. Len(buffered_temps) + 1
        BY <2>2, <3>4, <4>2, LenProperties
      <4>4. taken \in Buffered' \cup Sent'
        BY <3>6, <4>2, <4>3
      <4>5. \A i \in DOMAIN buffered_temps : buffered_temps[i] \in Buffered' \cup Sent'
        BY <3>6, <4>2, <4>3
      <4> QED
        BY <3>8, <4>4, <4>5 DEF Buffered, AtHand
    <3> QED
      BY <3>9, <3>10
  <2>4. CASE Hold
    <3>1. pc = "deliver" /\ buffered_temps' = Append(buffered_temps, taken) /\ taken \in Readings
      BY <2>1, <2>4, Holds, RoomForOne, KeptFacts DEF Inv
    <3>2. /\ buffered_temps' \in Seq(Readings)
          /\ Len(buffered_temps') = Len(buffered_temps) + 1
          /\ \A i \in 1 .. Len(buffered_temps) : buffered_temps'[i] = buffered_temps[i]
          /\ buffered_temps'[Len(buffered_temps) + 1] = taken
      BY <2>2, <3>1, AppendProperties
    <3>3. /\ DOMAIN buffered_temps = 1 .. Len(buffered_temps) /\ Len(buffered_temps) \in Nat
          /\ DOMAIN (buffered_temps') = 1 .. Len(buffered_temps) + 1
      BY <2>2, <3>2, LenProperties
    <3>4. taken \in Buffered' /\ Buffered \subseteq Buffered'
      BY <3>2, <3>3 DEF Buffered
    <3> QED
      BY <3>4 DEF AtHand
  <2>5. CASE Flush
    <3>1. PICK k \in 0 .. Len(buffered_temps) :
            /\ fails' = fails + (IF k = Len(buffered_temps) THEN 0 ELSE 1)
            /\ out' = out \o Resends(SubSeq(buffered_temps, 1, k))
      BY <2>5 DEF Flush
    <3>2. pc = "flush" /\ AtHand = Buffered /\ fails \in Nat
      BY <2>1, <2>5, Constants DEF Flush, AtHand, LoopTypes
    <3>3. CASE k = Len(buffered_temps)
      <4>1. \A i \in DOMAIN buffered_temps :
              \/ \E j \in DOMAIN After(buffered_temps, k) : After(buffered_temps, k)[j] = buffered_temps[i]
              \/ \E j \in DOMAIN (out \o Resends(SubSeq(buffered_temps, 1, k))) :
                   (out \o Resends(SubSeq(buffered_temps, 1, k)))[j].reading = buffered_temps[i]
        BY <2>2, NoneLost
      <4>2. \A i \in DOMAIN buffered_temps :
              \/ \E j \in DOMAIN After(buffered_temps, k) : After(buffered_temps, k)[j] = buffered_temps[i]
              \/ \E j \in DOMAIN out' : out'[j].reading = buffered_temps[i]
        BY <3>1, <4>1, Zenon
      <4>3. DOMAIN After(buffered_temps, k) = {}
        <5>1. After(buffered_temps, k) \in Seq(Readings) /\ Len(After(buffered_temps, k)) = Len(buffered_temps) - k
          BY <2>2, ResendFacts
        <5>2. Len(buffered_temps) - k = 0
          BY <2>2, <3>3, LenProperties
        <5> QED
          BY <5>1, <5>2, LenProperties
      <4> QED
        BY <3>2, <4>2, <4>3 DEF Buffered, Sent
    <3>4. CASE k # Len(buffered_temps)
      BY <3>1, <3>2, <3>4
    <3> QED
      BY <3>3, <3>4
  <2>6. CASE ~Deliver /\ ~Hold /\ ~Flush
    <3>1. UNCHANGED buffered_temps /\ (pc = "deliver" => pc' = "deliver" /\ taken' = taken)
      <4>1. UNCHANGED buffered_temps
        BY <2>1, <2>6, OtherSteps
      <4>2. CASE Pong \/ Stop \/ UNCHANGED vars
        BY <4>1, <4>2 DEF Pong, Stop, vars, sensing
      <4>3. CASE Reply \/ OtherTraffic \/ Search
        BY <4>1, <4>3, SearchSteps DEF sensing
      <4>4. CASE WaitEnds \/ WaitCut
        BY <4>1, <4>4, Waits DEF WaitEnds, WaitCut
      <4>5. CASE Measure \/ Answered \/ Unanswered \/ GivesUp \/ StillAway \/ Sleep \/ Leave
        BY <4>1, <4>5 DEF Measure, Answered, Unanswered, GivesUp, StillAway, Sleep, Leave
      <4> QED
        BY <2>6, <4>2, <4>3, <4>4, <4>5 DEF Next, Main, Loop
    <3>2. Buffered' = Buffered
      BY <3>1 DEF Buffered
    <3> QED
      BY <3>1, <3>2 DEF AtHand
  <2> QED
    BY <2>3, <2>4, <2>5, <2>6
<1> QED
  BY <1>1, AlwaysBounded, PTL DEF Spec, KeptUntilSent

----------------------------------------------------------------------------
\* While no sendto fails, the newest reading in the buffer is the latest one, or the
\* one before it while the latest is being delivered; with the server there the
\* buffer is empty after each delivery.
Fresh == fails = 0 =>
  /\ server_available /\ pc \in {"search", "look", "loop", "sleep"} => buffered_temps = <<>>
  /\ pc \in {"ping", "decide", "deliver"} /\ buffered_temps # <<>> =>
       buffered_temps[Len(buffered_temps)] = taken - 1
  /\ ~server_available /\ pc \in {"loop", "sleep", "probe", "flush"} =>
       buffered_temps # <<>> /\ buffered_temps[Len(buffered_temps)] = taken
  /\ server_available /\ pc = "sleep" => out # <<>> /\ Shown \in {taken - 1, taken}

\* When all of the buffer leaves, the last to leave is the last of the buffer.
LEMMA LastToLeave ==
  ASSUME NEW b \in Seq(Readings), NEW o \in Seq(Packets),
         NEW q, q = o \o Resends(SubSeq(b, 1, Len(b)))
  PROVE  /\ q \in Seq(Packets) /\ Len(q) = Len(o) + Len(b)
         /\ Len(b) > 0 => q[Len(q)].reading = b[Len(b)]
         /\ Len(b) = 0 /\ Len(o) > 0 => q[Len(q)] = o[Len(o)]
         /\ Len(After(b, Len(b))) = 0 /\ After(b, Len(b)) = <<>>
<1>1. Len(b) \in Nat /\ Len(o) \in Nat /\ Len(b) \in 0 .. Len(b)
  BY LenProperties
<1>2. /\ q \in Seq(Packets) /\ Len(q) = Len(o) + Len(b)
      /\ \A i \in 1 .. Len(o) : q[i] = o[i]
      /\ \A i \in 1 .. Len(b) : q[Len(o) + i] = Packet("resend", b[i])
  BY <1>1, ResendFacts
<1>3. ASSUME Len(b) > 0 PROVE q[Len(q)].reading = b[Len(b)]
  <2>1. Len(b) \in 1 .. Len(b) /\ Len(q) = Len(o) + Len(b)
    BY <1>1, <1>2, <1>3
  <2>2. q[Len(o) + Len(b)] = Packet("resend", b[Len(b)])
    BY <1>2, <2>1
  <2>3. q[Len(q)] = Packet("resend", b[Len(b)])
    BY <2>1, <2>2
  <2>4. Packet("resend", b[Len(b)]).reading = b[Len(b)]
    BY DEF Packet
  <2> QED
    BY <2>3, <2>4, Zenon
<1>4. ASSUME Len(b) = 0, Len(o) > 0 PROVE q[Len(q)] = o[Len(o)]
  <2>1. Len(q) = Len(o) /\ Len(o) \in 1 .. Len(o)
    BY <1>1, <1>2, <1>4
  <2> QED
    BY <1>2, <2>1
<1>5. After(b, Len(b)) \in Seq(Readings) /\ Len(After(b, Len(b))) = 0
  <2>1. /\ After(b, Len(b)) \in Seq(Readings)
        /\ Len(After(b, Len(b))) = Len(b) - Len(b)
    BY <1>1, EmptySeq, ResendFacts
  <2> QED
    BY <1>1, <2>1
<1>6. After(b, Len(b)) = <<>>
  BY <1>5, EmptySeq
<1> QED
  BY <1>2, <1>3, <1>4, <1>5, <1>6

\* Every step keeps what the buffer holds recent.
LEMMA FreshStep ==
  ASSUME RoomyConstants
  PROVE  Bounded /\ Fresh /\ [Next]_vars => Fresh'
<1> SUFFICES ASSUME Bounded, Fresh, [Next]_vars, fails' = 0 PROVE Fresh'
  BY DEF Fresh
<1> USE Constants, FalseIsBoolean
<1>0. LoopTypes /\ CounterInv /\ Data /\ Inv /\ ShortAway /\ OrderInv
  BY DEF Bounded, Inv
<1>17. /\ taken \in Nat /\ fails \in Nat /\ Len(buffered_temps) \in Nat
       /\ buffered_temps \in Seq(Readings) /\ out \in Seq(Packets)
  BY <1>0, LenProperties DEF LoopTypes, Count, Data
<1>1. CASE Pong
  BY <1>1 DEF Pong, Fresh, Shown
<1>2. CASE Stop
  BY <1>2 DEF Stop, sensing, network, Fresh, Shown
<1>3. CASE Reply \/ OtherTraffic \/ Search
  <2>1. UNCHANGED <<server_available, buffered_temps, fails, out, taken>>
    BY <1>3, SearchSteps DEF sensing, network
  <2>2. pc' = pc \/ pc' = "stopped" \/ (pc' \in {"search", "look", "loop"} /\ pc \in {"search", "look"})
    BY <1>3, SearchSteps
  <2> QED
    BY <1>0, <2>1, <2>2 DEF Fresh, Shown, ShortAway
<1>4. CASE Measure
  <2>1. /\ pc = "loop" /\ taken' = taken + 1 /\ fails <= fails'
        /\ pc' \in {"deliver", "ping"}
        /\ UNCHANGED <<server_available, buffered_temps, out>>
    BY <1>0, <1>4, Measures
  <2>2. fails = 0 /\ taken' - 1 = taken
    BY <1>17, <2>1
  <2>3. buffered_temps # <<>> => buffered_temps[Len(buffered_temps)] = taken
    BY <2>1, <2>2 DEF Fresh
  <2> QED
    BY <2>1, <2>2, <2>3 DEF Fresh
<1>5. CASE WaitEnds \/ WaitCut
  <2>1. \/ pc = "ping" /\ pc' = "decide"
        \/ pc = "probe" /\ pc' = "flush"
    BY <1>5, Waits DEF WaitEnds, WaitCut
  <2>2. UNCHANGED <<taken, out, server_available, buffered_temps, fails>>
    BY <1>5 DEF WaitEnds, WaitCut, network
  <2> QED
    BY <2>1, <2>2 DEF Fresh
<1>6. CASE Answered
  <2>1. /\ pc = "decide" /\ pc' = "deliver"
        /\ UNCHANGED <<taken, buffered_temps, fails>>
    BY <1>6 DEF Answered, network
  <2> QED
    BY <2>1 DEF Fresh
<1>7. CASE Unanswered
  <2>1. /\ pc = "decide" /\ pc' = "deliver"
        /\ UNCHANGED <<taken, buffered_temps, fails>>
    BY <1>7 DEF Unanswered, network
  <2> QED
    BY <2>1 DEF Fresh
<1>8. CASE GivesUp \/ Leave
  BY <1>8 DEF GivesUp, Leave, Fresh
<1>9. CASE Deliver
  <2>1. PICK sent \in BOOLEAN : \E k \in 0 .. Len(Unsent(sent)) :
          /\ buffered_temps' = After(Unsent(sent), k)
          /\ out' = Leaving(sent) \o Resends(SubSeq(Unsent(sent), 1, k))
          /\ fails' = fails + (IF sent THEN 0 ELSE 1) + (IF k = Len(Unsent(sent)) THEN 0 ELSE 1)
    BY <1>0, <1>9, Delivers
  <2>2. PICK k \in 0 .. Len(Unsent(sent)) :
          /\ buffered_temps' = After(Unsent(sent), k)
          /\ out' = Leaving(sent) \o Resends(SubSeq(Unsent(sent), 1, k))
          /\ fails' = fails + (IF sent THEN 0 ELSE 1) + (IF k = Len(Unsent(sent)) THEN 0 ELSE 1)
    BY <2>1
  <2>3. sent /\ k = Len(Unsent(sent)) /\ fails = 0
    BY <1>17, <2>2
  <2>4. /\ pc = "deliver" /\ pc' = "sleep" /\ server_available' = server_available
        /\ server_available /\ taken' = taken
    BY <1>9 DEF Deliver
  <2>5. Unsent(sent) = buffered_temps /\ Leaving(sent) = out \o <<Packet("send", taken)>>
    BY <2>3 DEF Unsent, Leaving
  <2>6. Leaving(sent) \in Seq(Packets)
    BY <1>0, <2>4, LeavingFacts
  <2>7. Len(Leaving(sent)) = Len(out) + 1 /\ Leaving(sent)[Len(out) + 1] = Packet("send", taken)
    <3>1. taken \in Readings
      BY <1>0, <2>4, KeptFacts
    <3>2. <<Packet("send", taken)>> \in Seq(Packets) /\ Len(<<Packet("send", taken)>>) = 1
      BY <3>1 DEF Packet, Packets
    <3>3. Len(out) \in Nat /\ ~(Len(out) + 1 <= Len(out)) /\ Len(out) + 1 - Len(out) = 1
      BY <1>17, LenProperties
    <3>4. Len(out) + 1 \in 1 .. Len(out) + Len(<<Packet("send", taken)>>)
      BY <3>2, <3>3
    <3> QED
      BY <1>17, <2>5, <3>2, <3>3, <3>4, ConcatProperties
  <2>8. /\ out' \in Seq(Packets) /\ Len(out') = Len(Leaving(sent)) + Len(buffered_temps)
        /\ Len(buffered_temps) > 0 => out'[Len(out')].reading = buffered_temps[Len(buffered_temps)]
        /\ Len(buffered_temps) = 0 => out'[Len(out')] = Leaving(sent)[Len(Leaving(sent))]
        /\ buffered_temps' = <<>>
    <3>1. out' = Leaving(sent) \o Resends(SubSeq(buffered_temps, 1, Len(buffered_temps)))
      BY <2>2, <2>3, <2>5
    <3>2. buffered_temps' = After(buffered_temps, Len(buffered_temps))
      BY <2>2, <2>3, <2>5
    <3>3. Len(Leaving(sent)) > 0
      BY <1>17, <2>7, LenProperties
    <3> QED
      BY <1>17, <2>6, <3>1, <3>2, <3>3, LastToLeave, ZenonT(60)
  <2>9. Len(out') > 0
    BY <1>17, <2>7, <2>8, LenProperties
  <2>10. out' # <<>>
    BY <2>8, <2>9, EmptySeq
  <2>11. Shown' \in {taken - 1, taken}
    <3>1. CASE Len(buffered_temps) > 0
      <4>1. buffered_temps[Len(buffered_temps)] = taken - 1
        BY <1>17, <2>3, <2>4, <3>1, EmptySeq DEF Fresh
      <4> QED
        BY <2>8, <3>1, <4>1 DEF Shown
    <3>2. CASE Len(buffered_temps) = 0
      BY <2>7, <2>8, <3>2 DEF Shown, Packet
    <3> QED
      BY <1>17, <3>1, <3>2
  <2> QED
    BY <2>4, <2>8, <2>10, <2>11 DEF Fresh
<1>10. CASE Hold
  <2>1. /\ pc = "deliver" /\ ~server_available /\ pc' \in {"probe", "sleep"}
        /\ UNCHANGED <<taken, server_available>> /\ buffered_temps' = Kept
    BY <1>0, <1>10, Holds
  <2>2. buffered_temps' = Append(buffered_temps, taken) /\ taken \in Readings
    BY <1>0, <2>1, RoomForOne, KeptFacts
  <2>3. /\ Len(buffered_temps') = Len(buffered_temps) + 1
        /\ buffered_temps'[Len(buffered_temps) + 1] = taken
    BY <1>17, <2>2, AppendProperties
  <2>4. buffered_temps' # <<>>
    BY <1>17, <2>3, EmptySeq
  <2> QED
    BY <2>1, <2>3, <2>4 DEF Fresh
<1>11. CASE Flush
  <2>1. PICK k \in 0 .. Len(buffered_temps) :
          /\ fails' = fails + (IF k = Len(buffered_temps) THEN 0 ELSE 1)
          /\ out' = out \o Resends(SubSeq(buffered_temps, 1, k))
    BY <1>11 DEF Flush
  <2>2. k = Len(buffered_temps) /\ fails = 0
    BY <1>17, <2>1
  <2>3. pc = "flush" /\ pc' = "sleep" /\ server_available' = TRUE /\ taken' = taken /\ buffered_temps' = <<>>
    BY <1>11 DEF Flush, Heard
  <2>4. buffered_temps # <<>> /\ buffered_temps[Len(buffered_temps)] = taken
    BY <1>0, <2>2, <2>3 DEF Fresh, ShortAway
  <2>5. Len(buffered_temps) > 0
    BY <1>17, <2>4, EmptySeq
  <2>6. /\ out' \in Seq(Packets) /\ Len(out') = Len(out) + Len(buffered_temps)
        /\ out'[Len(out')].reading = buffered_temps[Len(buffered_temps)]
    BY <1>17, <2>1, <2>2, <2>5, LastToLeave
  <2>7. Len(out') > 0
    BY <1>17, <2>5, <2>6, LenProperties
  <2>8. out' # <<>>
    BY <2>6, <2>7, EmptySeq
  <2>9. Shown' = taken
    BY <2>4, <2>6 DEF Shown
  <2> QED
    BY <2>3, <2>8, <2>9 DEF Fresh
<1>12. CASE StillAway \/ Sleep
  <2>1. /\ pc \in {"flush", "sleep"} /\ pc' \in {"sleep", "loop"}
        /\ pc = "flush" => pc' = "sleep"
        /\ pc = "sleep" => pc' = "loop"
        /\ UNCHANGED <<taken, out, server_available, buffered_temps, fails>>
    BY <1>12 DEF StillAway, Sleep, network
  <2> QED
    BY <1>0, <2>1 DEF Fresh, ShortAway
<1>13. CASE UNCHANGED vars
  BY <1>13 DEF vars, sensing, network, Fresh, Shown
<1> QED
  BY <1>1, <1>2, <1>3, <1>4, <1>5, <1>6, <1>7, <1>8, <1>9, <1>10, <1>11, <1>12, <1>13
     DEF Next, Main, Loop

\* While the sensor takes its server for there and no sendto fails, the packet that
\* left last, which the server shows, holds the latest reading or the one before.
THEOREM RecentIsShown ==
  ASSUME RoomyConstants
  PROVE  Spec => []ShownIsRecent
<1>1. Init => Fresh
  BY DEF Init, Fresh
<1>2. Bounded /\ Fresh /\ [Next]_vars => Fresh'
  BY FreshStep
<1>3. Bounded /\ Fresh => ShownIsRecent
  <2> SUFFICES ASSUME Bounded, Fresh, pc = "sleep", server_available, fails = 0
               PROVE  taken - Shown <= 1
    BY DEF ShownIsRecent
  <2>1. taken \in Nat
    BY Constants DEF Bounded, Inv, LoopTypes, Count
  <2>2. Shown \in {taken - 1, taken}
    BY DEF Fresh
  <2> QED
    BY <2>1, <2>2
<1> QED
  BY <1>1, <1>2, <1>3, AlwaysBounded, PTL DEF Spec
=============================================================================
