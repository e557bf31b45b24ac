------------------------- MODULE TcpHandshakeProofs -------------------------
(***************************************************************************)
(* Theorems about TcpHandshake, for any number of controllers, tries and   *)
(* slots and any traffic.  The accepter's queue is followed by what it     *)
(* holds of one controller: an acknowledgement can be spent once, and a    *)
(* controller that nothing excuses has at most the packets of one step of  *)
(* its handshake there.                                                    *)
(***************************************************************************)
EXTENDS TcpHandshake, FiniteSetTheorems, SequenceTheorems, TLAPS

Senders == Controllers \cup {Stranger}
Wire == [from : Senders, flags : Flags]
Sent(c, f) == [from |-> c, flags |-> f]

\* The accepter is in a handshake with a controller, and only controllers send
\* a SYN.
Partner ==
  /\ acc \in {"ack", "recv", "lock"} => peer \in Controllers
  /\ \A i \in 1 .. Len(toAcc) : toAcc[i].flags = "SYN" => toAcc[i].from \in Controllers

Types == TypeOK /\ Partner

\* A step leaves the queue as it is, but for packets of c with flags in F behind it.
Grown(c, F) ==
  /\ Len(toAcc) <= Len(toAcc')
  /\ \A i \in 1 .. Len(toAcc) : toAcc'[i] = toAcc[i]
  /\ \A i \in Len(toAcc) + 1 .. Len(toAcc') : toAcc'[i] \in {Sent(c, f) : f \in F}

----------------------------------------------------------------------------
\* The wire.

\* The four kinds of trouble are counted, and one more of any of them is still
\* within the bound while there is trouble left.
LEMMA OneMoreTrouble ==
  ASSUME TypeOK
  PROVE  /\ lost \in 0 .. MaxTrouble /\ strays \in 0 .. MaxTrouble
         /\ sweeps \in 0 .. MaxTrouble /\ interrupts \in 0 .. MaxTrouble
         /\ TroubleLeft => /\ lost + 1 \in 0 .. MaxTrouble
                           /\ strays + 1 \in 0 .. MaxTrouble
                           /\ sweeps + 1 \in 0 .. MaxTrouble
                           /\ interrupts + 1 \in 0 .. MaxTrouble
<1>1. MaxTrouble \in Nat
  BY HandshakeAssumption
<1>2. /\ lost \in 0 .. MaxTrouble /\ strays \in 0 .. MaxTrouble
      /\ sweeps \in 0 .. MaxTrouble /\ interrupts \in 0 .. MaxTrouble
  BY DEF TypeOK
<1>3. /\ lost \in Nat /\ strays \in Nat /\ sweeps \in Nat /\ interrupts \in Nat
  BY <1>1, <1>2
<1>4. TroubleLeft => /\ lost < MaxTrouble /\ strays < MaxTrouble
                     /\ sweeps < MaxTrouble /\ interrupts < MaxTrouble
  BY <1>1, <1>3 DEF TroubleLeft
<1> QED
  BY <1>1, <1>2, <1>3, <1>4

\* A sequence of one, or of two.
LEMMA One ==
  ASSUME NEW S, NEW p \in S, NEW s \in Seq(S), Len(s) = 1, s[1] = p
  PROVE  s = <<p>>
<1>1. <<p>> \in Seq(S) /\ Len(<<p>>) = 1
  OBVIOUS
<1>2. \A i \in 1 .. 1 : s[i] = <<p>>[i]
  OBVIOUS
<1> QED
  BY <1>1, <1>2, SeqEqual

\* The same for two.
LEMMA Two ==
  ASSUME NEW S, NEW p \in S, NEW q \in S, NEW s \in Seq(S), Len(s) = 2, s[1] = p, s[2] = q
  PROVE  s = <<p, q>>
<1>1. <<p, q>> \in Seq(S) /\ Len(<<p, q>>) = 2
  OBVIOUS
<1>2. ASSUME NEW i \in 1 .. 2 PROVE s[i] = <<p, q>>[i]
  BY i = 1 \/ i = 2
<1> QED
  BY <1>1, <1>2, SeqEqual

\* What is left of two packets, or of one, when one is lost.
LEMMA Lossy ==
  ASSUME NEW f \in Flags, NEW g \in Flags
  PROVE  /\ RemoveAt(<<f>>, 1) = <<>>
         /\ RemoveAt(<<f, g>>, 1) = <<g>> /\ RemoveAt(<<f, g>>, 2) = <<f>>
<1>1. RemoveAt(<<f>>, 1) = <<>>
  <2>1. RemoveAt(<<f>>, 1) \in Seq(Flags) /\ Len(RemoveAt(<<f>>, 1)) = 0
    BY DEF RemoveAt
  <2> QED
    BY <2>1, EmptySeq
<1>2. RemoveAt(<<f, g>>, 1) = <<g>>
  <2>1. RemoveAt(<<f, g>>, 1) \in Seq(Flags) /\ Len(RemoveAt(<<f, g>>, 1)) = 1
    BY DEF RemoveAt
  <2>2. RemoveAt(<<f, g>>, 1)[1] = g
    BY DEF RemoveAt
  <2> QED
    BY <2>1, <2>2, One
<1>3. RemoveAt(<<f, g>>, 2) = <<f>>
  <2>1. RemoveAt(<<f, g>>, 2) \in Seq(Flags) /\ Len(RemoveAt(<<f, g>>, 2)) = 1
    BY DEF RemoveAt
  <2>2. RemoveAt(<<f, g>>, 2)[1] = f
    BY DEF RemoveAt
  <2> QED
    BY <2>1, <2>2, One
<1> QED
  BY <1>1, <1>2, <1>3

\* One packet arrives or is lost.
LEMMA SurvivorsOfOne ==
  ASSUME NEW f \in Flags, NEW q \in Survivors(<<f>>)
  PROVE  \/ q = <<f>>
         \/ TroubleLeft /\ q = <<>>
<1>1. DOMAIN <<f>> = {1}
  OBVIOUS
<1> QED
  BY <1>1, Lossy DEF Survivors

\* Of two packets at most one is lost.
LEMMA SurvivorsOfTwo ==
  ASSUME NEW f \in Flags, NEW g \in Flags, NEW q \in Survivors(<<f, g>>)
  PROVE  \/ q = <<f, g>>
         \/ TroubleLeft /\ (q = <<f>> \/ q = <<g>>)
<1>1. DOMAIN <<f, g>> = {1, 2}
  OBVIOUS
<1> QED
  BY <1>1, Lossy, ZenonT(60) DEF Survivors

\* The packets of a controller as the accepter sees them.
LEMMA Wired ==
  ASSUME NEW c, NEW f, NEW g
  PROVE  /\ [i \in DOMAIN <<>> |-> Sent(c, <<>>[i])] = <<>>
         /\ [i \in DOMAIN <<f>> |-> Sent(c, <<f>>[i])] = <<Sent(c, f)>>
         /\ [i \in DOMAIN <<f, g>> |-> Sent(c, <<f, g>>[i])] = <<Sent(c, f), Sent(c, g)>>
<1>1. [i \in DOMAIN <<>> |-> Sent(c, <<>>[i])] = <<>>
  OBVIOUS
<1>2. [i \in DOMAIN <<f>> |-> Sent(c, <<f>>[i])] = <<Sent(c, f)>>
  OBVIOUS
<1>3. [i \in DOMAIN <<f, g>> |-> Sent(c, <<f, g>>[i])] = <<Sent(c, f), Sent(c, g)>>
  OBVIOUS
<1> QED
  BY <1>1, <1>2, <1>3

\* What comes of one packet that a controller sends.
LEMMA ArrivesOne ==
  ASSUME TypeOK, NEW c \in Controllers, NEW f \in Flags, ToServer(c, <<f>>)
  PROVE  /\ \E r \in {<<>>, <<Sent(c, f)>>} :
              /\ toAcc' = toAcc \o r
              /\ acc = "done" => r = <<>>
              /\ acc # "done" /\ lost' = lost => r = <<Sent(c, f)>>
         /\ lost' = lost \/ (lost' = lost + 1 /\ TroubleLeft)
         /\ extra' \in [Controllers -> BOOLEAN] /\ ccSeen' \in [Controllers -> BOOLEAN]
         /\ \A d \in Controllers : d # c => extra'[d] = extra[d] /\ ccSeen'[d] = ccSeen[d]
         /\ extra'[c] => extra[c] \/ c \in registered
         /\ ccSeen'[c] => ccSeen[c] \/ f = "FIN"
<1>1. PICK q \in Survivors(<<f>>) :
        /\ lost' = lost + Len(<<f>>) - Len(q)
        /\ toAcc' = IF acc = "done" THEN toAcc
                    ELSE toAcc \o [i \in DOMAIN q |-> [from |-> c, flags |-> q[i]]]
        /\ extra' = [extra EXCEPT ![c] = @ \/ (c \in registered /\ q # <<>>)]
        /\ ccSeen' = [ccSeen EXCEPT ![c] = @ \/ Contains(q, "FIN")]
  BY DEF ToServer
<1>2. q = <<f>> \/ (TroubleLeft /\ q = <<>>)
  BY SurvivorsOfOne
<1>3. Len(<<f>>) = 1 /\ Len(<<>>) = 0 /\ lost \in Nat
  BY DEF TypeOK
<1>4. lost' = lost \/ (lost' = lost + 1 /\ TroubleLeft)
  <2>1. Len(q) = 1 \/ (TroubleLeft /\ Len(q) = 0)
    BY <1>2, <1>3
  <2>2. lost' = lost + 1 - Len(q)
    BY <1>1, <1>3
  <2>3. CASE Len(q) = 1
    BY <1>3, <2>2, <2>3
  <2>4. CASE TroubleLeft /\ Len(q) = 0
    BY <1>3, <2>2, <2>4
  <2> QED
    BY <2>1, <2>3, <2>4
<1>5. lost' = lost => q = <<f>>
  BY <1>1, <1>2, <1>3
<1>6. /\ q = <<f>> => [i \in DOMAIN q |-> Sent(c, q[i])] = <<Sent(c, f)>>
      /\ q = <<>> => [i \in DOMAIN q |-> Sent(c, q[i])] = <<>>
  BY Wired
<1>7. toAcc \o <<>> = toAcc
  BY ConcatEmptySeq DEF TypeOK
<1>8. toAcc' = IF acc = "done" THEN toAcc ELSE toAcc \o [i \in DOMAIN q |-> Sent(c, q[i])]
  BY <1>1 DEF Sent
<1>9. \E r \in {<<>>, <<Sent(c, f)>>} :
        /\ toAcc' = toAcc \o r
        /\ acc = "done" => r = <<>>
        /\ acc # "done" /\ lost' = lost => r = <<Sent(c, f)>>
  <2>1. CASE acc = "done"
    BY <1>7, <1>8, <2>1
  <2>2. CASE acc # "done" /\ q = <<f>>
    BY <1>6, <1>8, <2>2
  <2>3. CASE acc # "done" /\ q # <<f>>
    BY <1>2, <1>5, <1>6, <1>8, <2>3
  <2> QED
    BY <2>1, <2>2, <2>3
<1>10. Contains(q, "FIN") => f = "FIN"
  BY <1>2, <1>3 DEF Contains
<1> QED
  BY <1>1, <1>4, <1>9, <1>10 DEF TypeOK

\* What comes of two.
LEMMA ArrivesTwo ==
  ASSUME TypeOK, NEW c \in Controllers, NEW f \in Flags, NEW g \in Flags, ToServer(c, <<f, g>>)
  PROVE  /\ \E r \in {<<>>, <<Sent(c, f)>>, <<Sent(c, g)>>, <<Sent(c, f), Sent(c, g)>>} :
              /\ toAcc' = toAcc \o r
              /\ acc = "done" => r = <<>>
              /\ acc # "done" /\ lost' = lost => r = <<Sent(c, f), Sent(c, g)>>
         /\ lost' = lost \/ (lost' = lost + 1 /\ TroubleLeft)
         /\ extra' \in [Controllers -> BOOLEAN] /\ ccSeen' \in [Controllers -> BOOLEAN]
         /\ \A d \in Controllers : d # c => extra'[d] = extra[d] /\ ccSeen'[d] = ccSeen[d]
         /\ extra'[c] => extra[c] \/ c \in registered
         /\ ccSeen'[c] => ccSeen[c] \/ f = "FIN" \/ g = "FIN"
<1>1. PICK q \in Survivors(<<f, g>>) :
        /\ lost' = lost + Len(<<f, g>>) - Len(q)
        /\ toAcc' = IF acc = "done" THEN toAcc
                    ELSE toAcc \o [i \in DOMAIN q |-> [from |-> c, flags |-> q[i]]]
        /\ extra' = [extra EXCEPT ![c] = @ \/ (c \in registered /\ q # <<>>)]
        /\ ccSeen' = [ccSeen EXCEPT ![c] = @ \/ Contains(q, "FIN")]
  BY DEF ToServer
<1>2. q = <<f, g>> \/ (TroubleLeft /\ (q = <<f>> \/ q = <<g>>))
  BY SurvivorsOfTwo
<1>3. Len(<<f, g>>) = 2 /\ Len(<<f>>) = 1 /\ Len(<<g>>) = 1 /\ lost \in Nat
  BY DEF TypeOK
<1>4. lost' = lost \/ (lost' = lost + 1 /\ TroubleLeft)
  <2>1. Len(q) = 2 \/ (TroubleLeft /\ Len(q) = 1)
    BY <1>2, <1>3
  <2>2. lost' = lost + 2 - Len(q)
    BY <1>1, <1>3
  <2>3. CASE Len(q) = 2
    BY <1>3, <2>2, <2>3
  <2>4. CASE TroubleLeft /\ Len(q) = 1
    BY <1>3, <2>2, <2>4
  <2> QED
    BY <2>1, <2>3, <2>4
<1>5. lost' = lost => q = <<f, g>>
  BY <1>1, <1>2, <1>3
<1>6. /\ q = <<f, g>> => [i \in DOMAIN q |-> Sent(c, q[i])] = <<Sent(c, f), Sent(c, g)>>
      /\ q = <<f>> => [i \in DOMAIN q |-> Sent(c, q[i])] = <<Sent(c, f)>>
      /\ q = <<g>> => [i \in DOMAIN q |-> Sent(c, q[i])] = <<Sent(c, g)>>
  BY Wired
<1>7. toAcc \o <<>> = toAcc
  BY ConcatEmptySeq DEF TypeOK
<1>8. toAcc' = IF acc = "done" THEN toAcc ELSE toAcc \o [i \in DOMAIN q |-> Sent(c, q[i])]
  BY <1>1 DEF Sent
<1>9. \E r \in {<<>>, <<Sent(c, f)>>, <<Sent(c, g)>>, <<Sent(c, f), Sent(c, g)>>} :
        /\ toAcc' = toAcc \o r
        /\ acc = "done" => r = <<>>
        /\ acc # "done" /\ lost' = lost => r = <<Sent(c, f), Sent(c, g)>>
  <2>1. CASE acc = "done"
    BY <1>7, <1>8, <2>1
  <2>2. CASE acc # "done" /\ q = <<f, g>>
    BY <1>6, <1>8, <2>2
  <2>3. CASE acc # "done" /\ q = <<f>>
    BY <1>5, <1>6, <1>8, <2>3
  <2>4. CASE acc # "done" /\ q = <<g>>
    BY <1>5, <1>6, <1>8, <2>4
  <2> QED
    BY <1>2, <2>1, <2>2, <2>3, <2>4
<1>10. Contains(q, "FIN") => f = "FIN" \/ g = "FIN"
  BY <1>2, <1>3 DEF Contains
<1> QED
  BY <1>1, <1>4, <1>9, <1>10 DEF TypeOK

\* What comes of a packet to a controller.
LEMMA Reaches ==
  ASSUME TypeOK, NEW c \in Controllers, NEW f \in Flags, ToLC(c, <<f>>)
  PROVE  /\ toLC' \in [Controllers -> Seq(Flags)]
         /\ lost' = lost \/ (lost' = lost + 1 /\ TroubleLeft)
         /\ \A d \in Controllers : d # c => toLC'[d] = toLC[d]
         /\ lc[c] \notin Runs => toLC'[c] = toLC[c]
         /\ lc[c] \in Runs /\ lost' = lost => toLC'[c] = toLC[c] \o <<f>>
<1>1. PICK q \in Survivors(<<f>>) :
        /\ lost' = lost + Len(<<f>>) - Len(q)
        /\ toLC' = IF lc[c] \in Runs THEN [toLC EXCEPT ![c] = @ \o q] ELSE toLC
  BY DEF ToLC
<1>2. q = <<f>> \/ (TroubleLeft /\ q = <<>>)
  BY SurvivorsOfOne
<1>3. Len(<<f>>) = 1 /\ Len(<<>>) = 0 /\ lost \in Nat
  BY DEF TypeOK
<1>4. q \in Seq(Flags) /\ toLC[c] \in Seq(Flags)
  <2>1. <<f>> \in Seq(Flags) /\ <<>> \in Seq(Flags)
    OBVIOUS
  <2> QED
    BY <1>2, <2>1 DEF TypeOK
<1>5. toLC[c] \o q \in Seq(Flags)
  BY <1>4, ConcatProperties
<1>6. lost' = lost \/ (lost' = lost + 1 /\ TroubleLeft)
  <2>1. Len(q) = 1 \/ (TroubleLeft /\ Len(q) = 0)
    BY <1>2, <1>3
  <2>2. lost' = lost + 1 - Len(q)
    BY <1>1, <1>3
  <2>3. CASE Len(q) = 1
    BY <1>3, <2>2, <2>3
  <2>4. CASE TroubleLeft /\ Len(q) = 0
    BY <1>3, <2>2, <2>4
  <2> QED
    BY <2>1, <2>3, <2>4
<1>7. lost' = lost => q = <<f>>
  BY <1>1, <1>2, <1>3
<1> QED
  BY <1>1, <1>5, <1>6, <1>7 DEF TypeOK

\* The queue and the counters stay what they are when one packet is sent...
LEMMA SendsOne ==
  ASSUME Types, NEW c \in Controllers, NEW f \in Flags, ToServer(c, <<f>>)
  PROVE  /\ toAcc' \in Seq(Wire) /\ lost' \in 0 .. MaxTrouble
         /\ \A i \in 1 .. Len(toAcc)' : toAcc'[i].flags = "SYN" => toAcc'[i].from \in Controllers
         /\ extra' \in [Controllers -> BOOLEAN] /\ ccSeen' \in [Controllers -> BOOLEAN]
         /\ Grown(c, {f}) /\ Len(toAcc') <= Len(toAcc) + 1
         /\ acc = "done" => toAcc' = toAcc
         /\ acc # "done" /\ lost' = lost => Len(toAcc') = Len(toAcc) + 1
<1> DEFINE p == Sent(c, f)
<1>1. p \in Wire /\ p.from = c
  BY DEF Sent, Wire, Senders
<1>2. PICK r \in {<<>>, <<p>>} :
        /\ toAcc' = toAcc \o r
        /\ acc = "done" => r = <<>>
        /\ acc # "done" /\ lost' = lost => r = <<p>>
  BY ArrivesOne DEF Types
<1>3. toAcc \in Seq(Wire) /\ r \in Seq(Wire) /\ \A i \in 1 .. Len(r) : r[i] = p
  <2>1. toAcc \in Seq(Wire)
    BY DEF Types, TypeOK, Wire, Senders
  <2>2. <<>> \in Seq(Wire) /\ Len(<<>>) = 0
    OBVIOUS
  <2>3. <<p>> \in Seq(Wire) /\ Len(<<p>>) = 1 /\ <<p>>[1] = p
    BY <1>1
  <2>4. CASE r = <<>>
    BY <2>1, <2>2, <2>4
  <2>5. CASE r = <<p>>
    BY <2>1, <2>3, <2>5
  <2> QED
    BY <1>2, <2>4, <2>5
<1> HIDE DEF p
<1>4. /\ toAcc' \in Seq(Wire) /\ Len(toAcc') = Len(toAcc) + Len(r)
      /\ \A i \in 1 .. Len(toAcc') : toAcc'[i] = IF i <= Len(toAcc) THEN toAcc[i] ELSE r[i - Len(toAcc)]
  <2>1. toAcc' = toAcc \o r
    BY <1>2
  <2> QED
    BY <1>3, <2>1, ConcatProperties
<1>5. Len(toAcc) \in Nat /\ Len(r) \in Nat
  BY <1>3, LenProperties
<1>6. ASSUME NEW i \in 1 .. Len(toAcc') PROVE toAcc'[i].flags = "SYN" => toAcc'[i].from \in Controllers
  <2>1. CASE i <= Len(toAcc)
    BY <1>4, <1>5, <2>1 DEF Types, Partner
  <2>2. CASE i > Len(toAcc)
    <3>1. i - Len(toAcc) \in 1 .. Len(r)
      BY <1>4, <1>5, <2>2
    <3> QED
      BY <1>1, <1>3, <1>4, <1>5, <2>2, <3>1
  <2> QED
    BY <1>4, <1>5, <2>1, <2>2
<1>7. lost' \in 0 .. MaxTrouble
  <2>1. lost' = lost \/ (lost' = lost + 1 /\ TroubleLeft)
    BY ArrivesOne DEF Types
  <2> QED
    BY <2>1, OneMoreTrouble DEF Types
<1>8. Len(r) <= 1 /\ (r = <<p>> => Len(r) = 1)
  <2>1. r = <<>> \/ r = <<p>>
    BY <1>2
  <2>2. Len(<<>>) = 0 /\ Len(<<p>>) = 1
    OBVIOUS
  <2>3. CASE r = <<>>
    BY <2>2, <2>3
  <2>4. CASE r = <<p>>
    BY <2>2, <2>4
  <2> QED
    BY <2>1, <2>3, <2>4
<1>9. Grown(c, {f})
  <2>1. \A i \in Len(toAcc) + 1 .. Len(toAcc') : i - Len(toAcc) \in 1 .. Len(r)
    BY <1>4, <1>5
  <2>2. \A i \in Len(toAcc) + 1 .. Len(toAcc') : toAcc'[i] = p
    BY <1>3, <1>4, <1>5, <2>1, SMTT(60)
  <2>3. p \in {Sent(c, x) : x \in {f}}
    BY DEF p
  <2> QED
    BY <1>4, <1>5, <2>2, <2>3 DEF Grown
<1>10. acc = "done" => toAcc' = toAcc
  <2>1. (acc = "done" => r = <<>>) /\ toAcc' = toAcc \o r
    BY <1>2
  <2> QED
    BY <1>3, <2>1, ConcatEmptySeq
<1>11. /\ Len(toAcc') <= Len(toAcc) + 1
       /\ acc # "done" /\ lost' = lost => Len(toAcc') = Len(toAcc) + 1
  <2>1. acc # "done" /\ lost' = lost => r = <<p>>
    BY <1>2
  <2>2. Len(toAcc') = Len(toAcc) + Len(r)
    BY <1>4
  <2> QED
    BY <1>5, <1>8, <2>1, <2>2
<1> QED
  BY <1>4, <1>6, <1>7, <1>9, <1>10, <1>11, ArrivesOne DEF Types

\* ...and when two are.
LEMMA SendsTwo ==
  ASSUME Types, NEW c \in Controllers, NEW f \in Flags, NEW g \in Flags, ToServer(c, <<f, g>>)
  PROVE  /\ toAcc' \in Seq(Wire) /\ lost' \in 0 .. MaxTrouble
         /\ \A i \in 1 .. Len(toAcc)' : toAcc'[i].flags = "SYN" => toAcc'[i].from \in Controllers
         /\ extra' \in [Controllers -> BOOLEAN] /\ ccSeen' \in [Controllers -> BOOLEAN]
         /\ Grown(c, {f, g}) /\ Len(toAcc') <= Len(toAcc) + 2
         /\ Len(toAcc') = Len(toAcc) + 2 => /\ toAcc'[Len(toAcc) + 1] = Sent(c, f)
                                            /\ toAcc'[Len(toAcc) + 2] = Sent(c, g)
         /\ acc = "done" => toAcc' = toAcc
         /\ acc # "done" /\ lost' = lost => Len(toAcc') = Len(toAcc) + 2
<1> DEFINE p == Sent(c, f)
           s == Sent(c, g)
<1>1. p \in Wire /\ p.from = c /\ s \in Wire /\ s.from = c
  BY DEF Sent, Wire, Senders
<1>2. PICK r \in {<<>>, <<p>>, <<s>>, <<p, s>>} :
        /\ toAcc' = toAcc \o r
        /\ acc = "done" => r = <<>>
        /\ acc # "done" /\ lost' = lost => r = <<p, s>>
  BY ArrivesTwo DEF Types
<1>3. toAcc \in Seq(Wire) /\ r \in Seq(Wire) /\ \A i \in 1 .. Len(r) : r[i] \in {p, s}
  <2>1. toAcc \in Seq(Wire)
    BY DEF Types, TypeOK, Wire, Senders
  <2> HIDE DEF p, s
  <2>2. <<>> \in Seq(Wire) /\ <<p>> \in Seq(Wire) /\ <<s>> \in Seq(Wire) /\ <<p, s>> \in Seq(Wire)
    BY <1>1
  <2>3. \A i \in 1 .. Len(r) : r[i] \in {p, s}
    BY <1>1, <1>2
  <2> QED
    BY <1>2, <2>1, <2>2, <2>3
<1> HIDE DEF p, s
<1>4. /\ toAcc' \in Seq(Wire) /\ Len(toAcc') = Len(toAcc) + Len(r)
      /\ \A i \in 1 .. Len(toAcc') : toAcc'[i] = IF i <= Len(toAcc) THEN toAcc[i] ELSE r[i - Len(toAcc)]
  BY <1>2, <1>3, ConcatProperties
<1>5. Len(toAcc) \in Nat /\ Len(r) \in Nat
  BY <1>3, LenProperties
<1>6. ASSUME NEW i \in 1 .. Len(toAcc') PROVE toAcc'[i].flags = "SYN" => toAcc'[i].from \in Controllers
  <2>1. CASE i <= Len(toAcc)
    BY <1>4, <1>5, <2>1 DEF Types, Partner
  <2>2. CASE i > Len(toAcc)
    <3>1. i - Len(toAcc) \in 1 .. Len(r)
      BY <1>4, <1>5, <2>2
    <3> QED
      BY <1>1, <1>3, <1>4, <1>5, <2>2, <3>1
  <2> QED
    BY <1>4, <1>5, <2>1, <2>2
<1>7. lost' \in 0 .. MaxTrouble
  <2>1. lost' = lost \/ (lost' = lost + 1 /\ TroubleLeft)
    BY ArrivesTwo DEF Types
  <2> QED
    BY <2>1, OneMoreTrouble DEF Types
<1>8. Len(r) <= 2 /\ (Len(r) = 2 => r[1] = p /\ r[2] = s) /\ (r = <<p, s>> => Len(r) = 2)
  <2>1. Len(<<>>) = 0 /\ Len(<<p>>) = 1 /\ Len(<<s>>) = 1 /\ Len(<<p, s>>) = 2
    OBVIOUS
  <2>2. <<p, s>>[1] = p /\ <<p, s>>[2] = s
    OBVIOUS
  <2>3. r = <<>> \/ r = <<p>> \/ r = <<s>> \/ r = <<p, s>>
    BY <1>2
  <2>4. CASE r = <<p, s>>
    BY <2>1, <2>2, <2>4
  <2>5. CASE r # <<p, s>>
    BY <2>1, <2>3, <2>5
  <2> QED
    BY <2>4, <2>5
<1>9. Grown(c, {f, g})
  <2>1. \A i \in Len(toAcc) + 1 .. Len(toAcc') : i - Len(toAcc) \in 1 .. Len(r)
    BY <1>4, <1>5
  <2>2. \A i \in Len(toAcc) + 1 .. Len(toAcc') :
          i \in 1 .. Len(toAcc') /\ toAcc'[i] = r[i - Len(toAcc)]
    BY <1>4, <1>5
  <2>4. \A i \in Len(toAcc) + 1 .. Len(toAcc') : toAcc'[i] \in {p, s}
    BY <1>3, <2>1, <2>2
  <2>3. {p, s} \subseteq {Sent(c, x) : x \in {f, g}}
    BY DEF p, s
  <2> QED
    BY <1>4, <1>5, <2>4, <2>3 DEF Grown
<1>10. acc = "done" => toAcc' = toAcc
  BY <1>2, <1>3, ConcatEmptySeq
<1>11. /\ Len(toAcc') <= Len(toAcc) + 2
       /\ acc # "done" /\ lost' = lost => Len(toAcc') = Len(toAcc) + 2
  BY <1>2, <1>4, <1>5, <1>8
<1>12. Len(toAcc') = Len(toAcc) + 2 => toAcc'[Len(toAcc) + 1] = p /\ toAcc'[Len(toAcc) + 2] = s
  <2> SUFFICES ASSUME Len(toAcc') = Len(toAcc) + 2
               PROVE  toAcc'[Len(toAcc) + 1] = p /\ toAcc'[Len(toAcc) + 2] = s
    OBVIOUS
  <2>1. Len(r) = 2
    BY <1>4, <1>5
  <2>2. /\ Len(toAcc) + 1 \in 1 .. Len(toAcc') /\ Len(toAcc) + 2 \in 1 .. Len(toAcc')
        /\ (Len(toAcc) + 1) - Len(toAcc) = 1 /\ (Len(toAcc) + 2) - Len(toAcc) = 2
        /\ ~(Len(toAcc) + 1 <= Len(toAcc)) /\ ~(Len(toAcc) + 2 <= Len(toAcc))
    BY <1>5
  <2> QED
    BY <1>4, <1>8, <2>1, <2>2
<1> QED
  BY <1>4, <1>6, <1>7, <1>9, <1>10, <1>11, <1>12, ArrivesTwo DEF Types, p, s

\* The accepter takes a packet from the queue.
LEMMA Taken ==
  ASSUME Types, Arrived, Take
  PROVE  /\ toAcc' \in Seq(Wire) /\ Len(toAcc') = Len(toAcc) - 1
         /\ Len(toAcc) \in Nat \ {0}
         /\ \A i \in 1 .. Len(toAcc') : toAcc'[i] = toAcc[i + 1]
         /\ \A i \in 1 .. Len(toAcc)' : toAcc'[i].flags = "SYN" => toAcc'[i].from \in Controllers
         /\ Packet = toAcc[1] /\ Packet \in Wire
         /\ Packet.flags = "SYN" => Packet.from \in Controllers
<1>1. toAcc \in Seq(Wire) /\ toAcc # <<>> /\ toAcc' = Tail(toAcc) /\ Packet = Head(toAcc)
  BY DEF Types, TypeOK, Wire, Senders, Arrived, Take, Packet
<1>2. /\ toAcc' \in Seq(Wire) /\ Len(toAcc') = Len(toAcc) - 1
      /\ Len(toAcc) \in Nat \ {0}
      /\ \A i \in 1 .. Len(toAcc') : toAcc'[i] = toAcc[i + 1]
      /\ Packet = toAcc[1] /\ Packet \in Wire
  BY <1>1, HeadTailProperties, EmptySeq, LenProperties
<1>3. \A i \in 1 .. Len(toAcc)' : toAcc'[i].flags = "SYN" => toAcc'[i].from \in Controllers
  <2>1. \A i \in 1 .. Len(toAcc') : i + 1 \in 1 .. Len(toAcc)
    BY <1>2
  <2> QED
    BY <1>2, <2>1 DEF Types, Partner
<1>4. 1 \in 1 .. Len(toAcc)
  BY <1>2
<1> QED
  BY <1>2, <1>3, <1>4 DEF Types, Partner

\* What tcpRecv answers, alone and with a CC behind it.
LEMMA Answers ==
  ASSUME NEW f \in Flags
  PROVE  /\ Answer(f) \in Flags \ {"SYN", "SYN|ACK", "MSG", "FIN"}
         /\ f # "FIN" => Answer(f) # "ACK"
         /\ <<Answer(f)>> \o <<>> = <<Answer(f)>>
         /\ <<Answer(f)>> \o <<"FIN">> = <<Answer(f), "FIN">>
<1>1. /\ Answer(f) \in Flags \ {"SYN", "SYN|ACK", "MSG", "FIN"}
      /\ f # "FIN" => Answer(f) # "ACK"
  BY DEF Answer, Flags
<1> DEFINE a == Answer(f)
<1>2. a \in Flags /\ "FIN" \in Flags
  BY <1>1 DEF Flags
<1> HIDE DEF a
<1>3. <<a>> \in Seq(Flags) /\ <<"FIN">> \in Seq(Flags) /\ Len(<<a>>) = 1 /\ Len(<<"FIN">>) = 1
  BY <1>2
<1>4. <<a>> \o <<>> = <<a>>
  BY <1>3, ConcatEmptySeq
<1>5. <<a>> \o <<"FIN">> = <<a, "FIN">>
  <2>1. /\ <<a>> \o <<"FIN">> \in Seq(Flags) /\ Len(<<a>> \o <<"FIN">>) = 2
        /\ (<<a>> \o <<"FIN">>)[1] = a /\ (<<a>> \o <<"FIN">>)[2] = "FIN"
    BY <1>3, ConcatProperties
  <2> QED
    BY <1>2, <2>1, Two
<1> QED
  BY <1>1, <1>4, <1>5 DEF a

\* The controllers are finitely many, and so are those with a slot.
LEMMA Slots ==
  /\ IsFiniteSet(Controllers)
  /\ \A s \in SUBSET Controllers : IsFiniteSet(s) /\ Cardinality(s) \in Nat
<1>1. IsFiniteSet(Controllers)
  BY HandshakeAssumption, FS_Interval DEF Controllers
<1> QED
  BY <1>1, FS_Subset, FS_CardinalityType

\* A controller reads a packet.
LEMMA ReadTyped ==
  ASSUME Types, NEW c \in Controllers, toLC[c] # <<>>, Read(c)
  PROVE  toLC' \in [Controllers -> Seq(Flags)]
<1>1. Tail(toLC[c]) \in Seq(Flags)
  BY HeadTailProperties DEF Types, TypeOK
<1>2. <<>> \in Seq(Flags)
  OBVIOUS
<1> QED
  BY <1>1, <1>2 DEF Types, TypeOK, Read

\* What a controller does keeps the types.
LEMMA TypesByController ==
  ASSUME Types, NEW c \in Controllers, Start(c) \/ Controller(c) \/ Interrupted(c)
  PROVE  Types'
<1> DEFINE Queue == /\ toAcc' \in Seq(Wire) /\ lost' \in 0 .. MaxTrouble
                    /\ \A i \in 1 .. Len(toAcc)' : toAcc'[i].flags = "SYN" => toAcc'[i].from \in Controllers
                    /\ extra' \in [Controllers -> BOOLEAN] /\ ccSeen' \in [Controllers -> BOOLEAN]
           Side == /\ lc' \in [Controllers -> {"off", "syn", "msg", "in", "failed", "gone"}]
                   /\ tries' \in [Controllers -> 0 .. TRIES]
                   /\ toLC' \in [Controllers -> Seq(Flags)]
           Rest == /\ UNCHANGED <<registered, refused, accepter, busy, shutdown_flag, main, strays, sweeps>>
                   /\ stalled' \in SUBSET Controllers
                   /\ interrupts' \in 0 .. MaxTrouble
<1>1. ASSUME Queue, Side, Rest PROVE Types'
  <2>1. Partner'
    BY <1>1 DEF Types, Partner, accepter
  <2>2. toAcc' \in Seq([from : Controllers \cup {Stranger}, flags : Flags])
    BY <1>1 DEF Wire, Senders
  <2>3. {lost, strays, sweeps, interrupts}' \subseteq 0 .. MaxTrouble
    <3>1. strays \in 0 .. MaxTrouble /\ sweeps \in 0 .. MaxTrouble
      BY OneMoreTrouble DEF Types
    <3> QED
      BY <1>1, <3>1
  <2>4. /\ registered' \in SUBSET Controllers /\ Cardinality(registered') <= MAX_DEVICE
        /\ refused' \in SUBSET Controllers
        /\ busy' \in BOOLEAN /\ shutdown_flag' \in BOOLEAN
        /\ main' \in {"run", "closing", "walked", "cancelled"}
    BY <1>1 DEF Types, TypeOK
  <2>5. /\ acc' \in {"poll", "accept", "ack", "recv", "lock", "done"}
        /\ peer' \in Controllers \cup {Stranger} /\ attempt' \in 0 .. TRIES
        /\ late' \in BOOLEAN /\ (late' => acc' \in {"accept", "ack", "recv"})
    BY <1>1 DEF Types, TypeOK, accepter
  <2>6. TypeOK'
    BY <1>1, <2>2, <2>3, <2>4, <2>5 DEF TypeOK
  <2> QED
    BY <2>1, <2>6 DEF Types
<1>2. /\ lc \in [Controllers -> {"off", "syn", "msg", "in", "failed", "gone"}]
      /\ tries \in [Controllers -> 0 .. TRIES] /\ toLC \in [Controllers -> Seq(Flags)]
      /\ stalled \in SUBSET Controllers /\ interrupts \in 0 .. MaxTrouble
      /\ lost \in 0 .. MaxTrouble /\ 1 \in 0 .. TRIES
  BY HandshakeAssumption DEF Types, TypeOK
<1>3. UNCHANGED <<toServer, lost>> => Queue
  BY DEF Types, TypeOK, Partner, Wire, Senders, toServer
<1>4. \A f \in Flags : ToServer(c, <<f>>) => Queue
  BY SendsOne
<1>5. \A f, g \in Flags : ToServer(c, <<f, g>>) => Queue
  BY SendsTwo
<1>6. {"SYN", "ACK", "MSG", "FIN"} \subseteq Flags
  BY DEF Flags
<1>7. toLC[c] # <<>> /\ Read(c) => toLC' \in [Controllers -> Seq(Flags)]
  BY ReadTyped
<1>8. toLC[c] # <<>> => toLC[c] \in Seq(Flags) /\ Head(toLC[c]) \in Flags
  BY <1>2, HeadTailProperties
<1> HIDE DEF Queue
<1>9. CASE Start(c)
  <2>1. Queue
    BY <1>4, <1>6, <1>9 DEF Start
  <2> QED
    BY <1>1, <1>2, <1>9, <2>1 DEF Start, table, accepter, outside
<1>10. CASE SynAnswered(c)
  <2>1. Queue
    BY <1>3, <1>5, <1>6, <1>10 DEF SynAnswered, toServer
  <2> QED
    BY <1>1, <1>2, <1>7, <1>10, <2>1 DEF SynAnswered, Fail, table, accepter, outside
<1>11. CASE MsgAnswered(c)
  <2>1. Queue
    BY <1>3, <1>11 DEF MsgAnswered, toServer
  <2> QED
    BY <1>1, <1>2, <1>7, <1>11, <2>1 DEF MsgAnswered, table, accepter, outside
<1>12. CASE Resend(c)
  <2>1. Queue
    BY <1>3, <1>4, <1>6, <1>12 DEF Resend, toServer
  <2>2. tries[c] \in 0 .. TRIES
    BY <1>2
  <2>3. tries' \in [Controllers -> 0 .. TRIES]
    BY <1>2, <1>12, <2>2, HandshakeAssumption DEF Resend
  <2> QED
    BY <1>1, <1>2, <1>12, <2>1, <2>3 DEF Resend, Fail, accepter, outside
<1>13. CASE Told(c)
  <2>1. Queue
    BY <1>4, <1>6, <1>13 DEF Told
  <2> QED
    BY <1>1, <1>2, <1>7, <1>13, <2>1 DEF Told, Exit, table, accepter, outside
<1>14. CASE Misled(c)
  <2>1. Answer(Head(toLC[c])) \in Flags
    BY <1>8, <1>14, Answers DEF Misled
  <2>2. PICK cc \in {<<>>, <<"FIN">>} : ToServer(c, <<Answer(Head(toLC[c]))>> \o cc)
    BY <1>14 DEF Misled
  <2>3. \/ ToServer(c, <<Answer(Head(toLC[c]))>>)
        \/ ToServer(c, <<Answer(Head(toLC[c])), "FIN">>)
    <3>1. CASE cc = <<>>
      BY <1>8, <1>14, <2>2, <3>1, Answers DEF Misled
    <3>2. CASE cc = <<"FIN">>
      BY <1>8, <1>14, <2>2, <3>2, Answers DEF Misled
    <3> QED
      BY <2>2, <3>1, <3>2
  <2>4. Queue
    BY <1>4, <1>5, <1>6, <2>1, <2>3
  <2> QED
    BY <1>1, <1>2, <1>7, <1>14, <2>4 DEF Misled, Fail, table, accepter, outside
<1>15. CASE Interrupted(c)
  <2>1. Queue
    BY <1>3, <1>4, <1>6, <1>15 DEF Interrupted, toServer
  <2>2. interrupts' \in 0 .. MaxTrouble
    BY <1>15, OneMoreTrouble DEF Interrupted, Types
  <2>3. <<>> \in Seq(Flags)
    OBVIOUS
  <2> QED
    BY <1>1, <1>2, <1>15, <2>1, <2>2, <2>3 DEF Interrupted, Exit, table, accepter
<1> QED
  BY <1>9, <1>10, <1>11, <1>12, <1>13, <1>14, <1>15 DEF Controller

\* What the accepter does keeps the types.
LEMMA TypesByAccepter ==
  ASSUME Types, Accepter \/ TimePasses
  PROVE  Types'
<1> DEFINE Queue == /\ toAcc' \in Seq(Wire)
                    /\ \A i \in 1 .. Len(toAcc)' : toAcc'[i].flags = "SYN" => toAcc'[i].from \in Controllers
           Reply == toLC' \in [Controllers -> Seq(Flags)] /\ lost' \in 0 .. MaxTrouble
           Acc == /\ acc' \in {"poll", "accept", "ack", "recv", "lock", "done"}
                  /\ peer' \in Senders /\ attempt' \in 0 .. TRIES /\ late' \in BOOLEAN
                  /\ late' => acc' \in {"accept", "ack", "recv"}
                  /\ acc' \in {"ack", "recv", "lock"} => peer' \in Controllers
           Table == /\ registered' \in SUBSET Controllers /\ Cardinality(registered') <= MAX_DEVICE
                    /\ refused' \in SUBSET Controllers
           Rest == UNCHANGED <<lc, tries, extra, ccSeen, stalled, outside>>
<1>1. Queue /\ Reply /\ Acc /\ Table /\ Rest => Types'
  BY DEF Types, TypeOK, Partner, Wire, Senders, outside
<1>2. /\ acc \in {"poll", "accept", "ack", "recv", "lock", "done"}
      /\ peer \in Senders /\ attempt \in 0 .. TRIES /\ late \in BOOLEAN
      /\ acc \in {"ack", "recv", "lock"} => peer \in Controllers
      /\ 1 \in 0 .. TRIES
      /\ late => acc \in {"accept", "ack", "recv"}
  BY HandshakeAssumption DEF Types, TypeOK, Partner, Senders
<1>3. UNCHANGED toAcc => Queue
  BY DEF Types, TypeOK, Partner, Wire, Senders
<1>4. Arrived /\ Take => /\ Queue /\ Packet \in Wire
                         /\ Packet.flags = "SYN" => Packet.from \in Controllers
  BY Taken
<1>5. UNCHANGED table => Table
  BY DEF Types, TypeOK, table
<1>6. UNCHANGED <<toLC, lost>> => Reply
  BY DEF Types, TypeOK
<1>7. \A d \in Controllers : \A f \in Flags : ToLC(d, <<f>>) => Reply
  <2> SUFFICES ASSUME NEW d \in Controllers, NEW f \in Flags, ToLC(d, <<f>>) PROVE Reply
    OBVIOUS
  <2>1. toLC' \in [Controllers -> Seq(Flags)] /\ (lost' = lost \/ (lost' = lost + 1 /\ TroubleLeft))
    BY Reaches DEF Types
  <2>2. lost' \in 0 .. MaxTrouble
    BY <2>1, OneMoreTrouble DEF Types
  <2> QED
    BY <2>1, <2>2
<1>8. toAcc' = <<>> => Queue
  <2>1. <<>> \in Seq(Wire) /\ Len(<<>>) = 0
    OBVIOUS
  <2> QED
    BY <2>1
<1>9. "SYN|ACK" \in Flags
  BY DEF Flags
<1>10. Packet \in Wire => Packet.flags \in Flags /\ Answer(Packet.flags) \in Flags
  BY Answers DEF Wire
<1> HIDE DEF Queue, Table, Reply
<1>11. CASE TooLate
  <2>1. Queue /\ Table
    BY <1>4, <1>5, <1>11 DEF TooLate
  <2>2. Reply
    BY <1>2, <1>6, <1>7, <1>9, <1>11 DEF TooLate
  <2>3. Acc
    <3>1. CASE acc = "accept" \/ attempt = TRIES
      BY <1>2, <1>11, <3>1 DEF TooLate, Back, Wait
    <3>2. CASE ~(acc = "accept" \/ attempt = TRIES)
      <4>1. attempt + 1 \in 0 .. TRIES
        BY <1>2, <3>2, HandshakeAssumption
      <4>2. acc' = acc /\ late' = FALSE /\ attempt' = attempt + 1 /\ peer' = peer
        BY <1>11, <3>2 DEF TooLate, Wait
      <4> QED
        BY <1>2, <4>1, <4>2
    <3> QED
      BY <3>1, <3>2
  <2> QED
    BY <1>1, <1>11, <2>1, <2>2, <2>3 DEF TooLate, controllers, table
<1>12. CASE DiscardOther
  <2>1. Queue /\ Table /\ Reply /\ Acc
    BY <1>2, <1>4, <1>5, <1>6, <1>12 DEF DiscardOther, Wait, Accepting
  <2> QED
    BY <1>1, <1>12, <2>1 DEF DiscardOther, controllers, table
<1>13. CASE TakeSyn
  <2>1. Queue /\ Table /\ Packet.from \in Controllers
    BY <1>4, <1>5, <1>13 DEF TakeSyn
  <2>2. Reply
    BY <1>7, <1>9, <1>13, <2>1 DEF TakeSyn
  <2>3. Acc
    BY <1>2, <1>13, <2>1 DEF TakeSyn, Wait, Senders
  <2> QED
    BY <1>1, <1>13, <2>1, <2>2, <2>3 DEF TakeSyn, controllers, table
<1>14. CASE DiscardForeign
  <2>1. Queue /\ Table /\ Reply
    BY <1>4, <1>5, <1>6, <1>14 DEF DiscardForeign
  <2>2. Acc
    BY <1>2, <1>14 DEF DiscardForeign, accepter
  <2> QED
    BY <1>1, <1>14, <2>1, <2>2 DEF DiscardForeign, controllers, table
<1>15. CASE TakeAck
  <2>1. Queue /\ Table /\ Reply
    BY <1>4, <1>5, <1>6, <1>15 DEF TakeAck
  <2>2. Acc
    BY <1>2, <1>15 DEF TakeAck, Back, Wait
  <2> QED
    BY <1>1, <1>15, <2>1, <2>2 DEF TakeAck, controllers, table
<1>16. CASE TakeMsg
  <2>1. Queue /\ Table /\ Packet \in Wire
    BY <1>4, <1>5, <1>16 DEF TakeMsg
  <2>2. Reply
    BY <1>2, <1>7, <1>10, <1>16, <2>1 DEF TakeMsg
  <2>3. Acc
    BY <1>2, <1>16 DEF TakeMsg, Back, Wait
  <2> QED
    BY <1>1, <1>16, <2>1, <2>2, <2>3 DEF TakeMsg, controllers, table
<1>17. CASE Register
  <2>1. Queue /\ Reply
    BY <1>3, <1>6, <1>17 DEF Register, toServer
  <2>2. Acc
    BY <1>2, <1>17 DEF Register, Back, Wait
  <2>3. Table
    <3>1. /\ registered \in SUBSET Controllers /\ refused \in SUBSET Controllers
          /\ peer \in Controllers /\ Cardinality(registered) <= MAX_DEVICE
      BY <1>2, <1>17 DEF Register, Types, TypeOK
    <3>2. CASE Cardinality(registered) < MAX_DEVICE
      <4>1. registered' = registered \cup {peer} /\ refused' = refused
        BY <1>17, <3>2 DEF Register
      <4>2. IsFiniteSet(registered) /\ Cardinality(registered) \in Nat
        BY <3>1, Slots
      <4>3. Cardinality(registered') <= MAX_DEVICE
        BY <3>2, <4>1, <4>2, FS_AddElement, HandshakeAssumption
      <4> QED
        BY <3>1, <4>1, <4>3 DEF Table
    <3>3. CASE ~(Cardinality(registered) < MAX_DEVICE)
      BY <1>17, <3>1, <3>3 DEF Register, Table
    <3> QED
      BY <3>2, <3>3
  <2> QED
    BY <1>1, <1>17, <2>1, <2>2, <2>3 DEF Register, controllers, toServer
<1>18. CASE AccepterEnds
  <2>1. Queue /\ Table /\ Reply
    BY <1>5, <1>6, <1>8, <1>18 DEF AccepterEnds
  <2>2. Acc
    BY <1>2, <1>18 DEF AccepterEnds
  <2> QED
    BY <1>1, <1>18, <2>1, <2>2 DEF AccepterEnds, controllers, table
<1>19. CASE TimePasses
  <2>1. Queue /\ Table /\ Reply
    BY <1>3, <1>5, <1>6, <1>19 DEF TimePasses, toServer
  <2>2. Acc
    BY <1>2, <1>19 DEF TimePasses
  <2> QED
    BY <1>1, <1>19, <2>1, <2>2 DEF TimePasses, controllers, toServer, table
<1> QED
  BY <1>11, <1>12, <1>13, <1>14, <1>15, <1>16, <1>17, <1>18, <1>19 DEF Accepter

\* What the other threads and the world do keeps the types.
LEMMA TypesByOthers ==
  ASSUME Types, \/ \E c \in Controllers : Disconnects(c)
                \/ Server \/ SweepBegins \/ Stray \/ Sigint \/ CloseBegins
  PROVE  Types'
<1> DEFINE Queue == /\ toAcc' \in Seq(Wire)
                    /\ \A i \in 1 .. Len(toAcc)' : toAcc'[i].flags = "SYN" => toAcc'[i].from \in Controllers
           Table == registered' \in SUBSET Controllers /\ Cardinality(registered') <= MAX_DEVICE
           Rest == /\ toLC' \in [Controllers -> Seq(Flags)] /\ ccSeen' \in [Controllers -> BOOLEAN]
                   /\ busy' \in BOOLEAN /\ shutdown_flag' \in BOOLEAN
                   /\ main' \in {"run", "closing", "walked", "cancelled"}
                   /\ strays' \in 0 .. MaxTrouble /\ sweeps' \in 0 .. MaxTrouble
                   /\ UNCHANGED <<controllers, extra, accepter, refused, stalled, lost, interrupts>>
<1>1. Queue /\ Table /\ Rest => Types'
  BY SMTT(60) DEF Types, TypeOK, Partner, Wire, Senders, controllers, accepter
<1>2. UNCHANGED toAcc => Queue
  BY DEF Types, TypeOK, Partner, Wire, Senders
<1>3. ASSUME registered' \in SUBSET registered PROVE Table
  <2>1. registered \in SUBSET Controllers /\ Cardinality(registered) <= MAX_DEVICE
    BY DEF Types, TypeOK
  <2>2. Cardinality(registered') <= Cardinality(registered)
    BY <1>3, <2>1, Slots, FS_Subset
  <2>3. Cardinality(registered) \in Nat /\ Cardinality(registered') \in Nat
    BY <1>3, <2>1, Slots
  <2> QED
    BY <1>3, <2>1, <2>2, <2>3, HandshakeAssumption
<1>4. /\ toLC \in [Controllers -> Seq(Flags)] /\ ccSeen \in [Controllers -> BOOLEAN]
      /\ busy \in BOOLEAN /\ shutdown_flag \in BOOLEAN
      /\ main \in {"run", "closing", "walked", "cancelled"}
      /\ strays \in 0 .. MaxTrouble /\ sweeps \in 0 .. MaxTrouble
  BY DEF Types, TypeOK
<1>5. TroubleLeft => strays + 1 \in 0 .. MaxTrouble /\ sweeps + 1 \in 0 .. MaxTrouble
  BY OneMoreTrouble DEF Types
<1> HIDE DEF Queue, Table
<1>6. CASE \E c \in Controllers : Disconnects(c)
  <2>1. PICK c \in Controllers : Disconnects(c)
    BY <1>6
  <2>2. Queue /\ Table
    BY <1>2, <1>3, <2>1 DEF Disconnects
  <2>3. ccSeen' \in [Controllers -> BOOLEAN]
    BY <1>4, <2>1 DEF Disconnects
  <2> QED
    BY <1>1, <1>4, <2>1, <2>2, <2>3 DEF Disconnects, outside
<1>7. CASE SweepEnds
  BY <1>1, <1>2, <1>3, <1>4, <1>7 DEF SweepEnds, toServer, table
<1>8. CASE DisconnectAll
  <2>1. Queue /\ Table
    BY <1>2, <1>3, <1>8 DEF DisconnectAll, toServer
  <2>2. toLC' \in [Controllers -> Seq(Flags)]
    <3>1. \A d \in Controllers : toLC[d] \in Seq(Flags) /\ Append(toLC[d], "FIN") \in Seq(Flags)
      <4>1. "FIN" \in Flags
        BY DEF Flags
      <4> QED
        BY <1>4, <4>1, AppendProperties
    <3> QED
      BY <1>8, <3>1 DEF DisconnectAll
  <2> QED
    BY <1>1, <1>4, <1>8, <2>1, <2>2 DEF DisconnectAll, toServer
<1>9. CASE Cancel
  BY <1>1, <1>2, <1>3, <1>4, <1>9 DEF Cancel, toServer, table
<1>10. CASE SweepBegins
  BY <1>1, <1>2, <1>3, <1>4, <1>5, <1>10 DEF SweepBegins, toServer, table
<1>11. CASE Stray
  <2>1. toAcc' = <<Sent(Stranger, "ACK")>> /\ Sent(Stranger, "ACK") \in Wire
    BY <1>11 DEF Stray, Sent, Wire, Senders, Flags
  <2>2. Len(toAcc') = 1 /\ toAcc' \in Seq(Wire) /\ toAcc'[1].flags = "ACK"
    BY <2>1 DEF Sent
  <2>3. Queue
    BY <2>2 DEF Queue
  <2> QED
    BY <1>1, <1>3, <1>4, <1>5, <1>11, <2>3 DEF Stray, table
<1>12. CASE Sigint
  BY <1>1, <1>2, <1>3, <1>4, <1>12 DEF Sigint, toServer, table
<1>13. CASE CloseBegins
  BY <1>1, <1>2, <1>3, <1>4, <1>13 DEF CloseBegins, toServer, table
<1> QED
  BY <1>6, <1>7, <1>8, <1>9, <1>10, <1>11, <1>12, <1>13 DEF Server

\* The initial state has the types.
LEMMA StartTyped ==
  Init => Types
<1> SUFFICES ASSUME Init PROVE Types
  OBVIOUS
<1>1. <<>> \in Seq(Flags) /\ <<>> \in Seq(Wire) /\ Len(<<>>) = 0
  OBVIOUS
<1>2. Cardinality({}) <= MAX_DEVICE
  BY FS_EmptySet, HandshakeAssumption
<1>3. /\ lc \in [Controllers -> {"off", "syn", "msg", "in", "failed", "gone"}]
      /\ tries \in [Controllers -> 0 .. TRIES] /\ toLC \in [Controllers -> Seq(Flags)]
      /\ extra \in [Controllers -> BOOLEAN] /\ ccSeen \in [Controllers -> BOOLEAN]
  BY <1>1, HandshakeAssumption DEF Init
<1>4. toAcc \in Seq([from : Controllers \cup {Stranger}, flags : Flags]) /\ Partner
  BY <1>1 DEF Init, Partner
<1>5. {lost, strays, sweeps, interrupts} \subseteq 0 .. MaxTrouble /\ attempt \in 0 .. TRIES
  BY HandshakeAssumption DEF Init
<1> QED
  BY <1>2, <1>3, <1>4, <1>5 DEF Init, Types, TypeOK

\* Every step keeps them.
LEMMA TypesKept ==
  Types /\ [Next]_vars => Types'
<1> SUFFICES ASSUME Types, [Next]_vars PROVE Types'
  OBVIOUS
<1>1. CASE Next
  BY <1>1, TypesByController, TypesByAccepter, TypesByOthers DEF Next
<1>2. CASE UNCHANGED vars
  BY <1>2 DEF vars, Types, TypeOK, Partner
<1> QED
  BY <1>1, <1>2

\* The types are those declared, the table never holds more than MAX_DEVICE
\* controllers, and the accepter is in a handshake with a controller, never with
\* a stranger whose packet came in between.
THEOREM TypeCorrect == Spec => [](TypeOK /\ Partner)
  BY StartTyped, TypesKept, PTL DEF Spec, Types

----------------------------------------------------------------------------
\* An acknowledgement is spent once.

AckAt(i, c) == toAcc[i] = Sent(c, "ACK")
None(c) == \A i \in 1 .. Len(toAcc) : toAcc[i].from # c
NoAck(c) == \A i \in 1 .. Len(toAcc) : ~AckAt(i, c)
OneAck(c) == \A i, j \in 1 .. Len(toAcc) : i < j /\ AckAt(i, c) => ~AckAt(j, c)
AckLast(c) == \A i, j \in 1 .. Len(toAcc) : i < j /\ AckAt(i, c) => toAcc[j].from # c
NoThird(c) == \A i, j, k \in 1 .. Len(toAcc) :
                i < j /\ j < k /\ AckAt(i, c) /\ AckAt(j, c) => toAcc[k].from # c

\* The accepter has had the ACK of the controller's handshake.
Used(c) == c \in registered \/ (acc \in {"recv", "lock"} /\ peer = c)

\* A controller sends one ACK, with its connect message behind it, and a second
\* only when it exits.  Once the first is spent nothing can follow another, so
\* that the accepter has no use for it.
Acks(c) ==
  /\ lc[c] \in {"off", "syn"} => NoAck(c) /\ ~Used(c)
  /\ lc[c] # "gone" => OneAck(c)
  /\ NoThird(c)
  /\ Used(c) => AckLast(c) /\ (NoAck(c) \/ lc[c] = "gone")
  /\ c \in registered /\ peer = c =>
       acc # "lock" /\ (acc = "recv" => lc[c] = "gone" /\ None(c))

\* What the next queue holds of c is what the queue holds of it from its k-th
\* packet on.
Kept(c, k) ==
  \A i \in 1 .. Len(toAcc') :
    toAcc'[i].from = c => i + k \in 1 .. Len(toAcc) /\ toAcc'[i] = toAcc[i + k]

\* Such a queue has no more of c, in the same order.
LEMMA KeptOrder ==
  ASSUME Types, Types', NEW c \in Controllers, NEW k \in Nat, Kept(c, k)
  PROVE  /\ None(c) => None(c)'
         /\ NoAck(c) => NoAck(c)'
         /\ OneAck(c) => OneAck(c)'
         /\ AckLast(c) => AckLast(c)'
         /\ NoThird(c) => NoThird(c)'
<1> DEFINE m == Len(toAcc)
           n == Len(toAcc')
<1>1. m \in Nat /\ n \in Nat
  BY LenProperties DEF Types, TypeOK
<1>2. \A i : Sent(c, "ACK") = i => i.from = c
  BY DEF Sent
<1>3. \A i \in 1 .. n : /\ toAcc'[i].from = c => i + k \in 1 .. m /\ toAcc'[i] = toAcc[i + k]
                        /\ AckAt(i, c)' => i + k \in 1 .. m /\ AckAt(i + k, c) /\ toAcc'[i].from = c
  BY <1>2 DEF Kept, AckAt
<1>4. \A i, j \in 1 .. n : i < j => i + k < j + k
  BY <1>1
<1>5. None(c) => None(c)'
  BY <1>3 DEF None
<1>6. NoAck(c) => NoAck(c)'
  BY <1>3 DEF NoAck
<1> HIDE DEF m, n
<1>7. OneAck(c) => OneAck(c)'
  BY <1>3, <1>4 DEF OneAck, m, n
<1>8. AckLast(c) => AckLast(c)'
  BY <1>3, <1>4 DEF AckLast, m, n
<1>9. NoThird(c) => NoThird(c)'
  BY <1>3, <1>4, SMTT(60) DEF NoThird, m, n
<1> QED
  BY <1>5, <1>6, <1>7, <1>8, <1>9

\* A step that leaves the queue alone, one that takes its first packet, one of
\* another sender, and the end of the accepter keep the order.
LEMMA KeptByStep ==
  ASSUME Types, Types', NEW c \in Controllers
  PROVE  /\ UNCHANGED toAcc => Kept(c, 0)
         /\ Arrived /\ Take => Kept(c, 1)
         /\ \A d \in Senders : \A F : d # c /\ Grown(d, F) => Kept(c, 0)
         /\ toAcc' = <<>> => Kept(c, 0)
<1>1. Len(toAcc) \in Nat /\ Len(toAcc') \in Nat
  BY LenProperties DEF Types, TypeOK
<1>2. UNCHANGED toAcc => Kept(c, 0)
  BY <1>1 DEF Kept
<1>3. ASSUME Arrived, Take PROVE Kept(c, 1)
  <2>1. Len(toAcc') = Len(toAcc) - 1 /\ \A i \in 1 .. Len(toAcc') : toAcc'[i] = toAcc[i + 1]
    BY <1>3, Taken
  <2>2. \A i \in 1 .. Len(toAcc') : i + 1 \in 1 .. Len(toAcc)
    BY <1>1, <2>1
  <2> QED
    BY <2>1, <2>2 DEF Kept
<1>4. ASSUME NEW d \in Senders, NEW F, d # c, Grown(d, F) PROVE Kept(c, 0)
  <2>1. \A i \in 1 .. Len(toAcc') : toAcc'[i].from = c => i \in 1 .. Len(toAcc)
    <3>1. \A i \in 1 .. Len(toAcc') : i \in 1 .. Len(toAcc) \/ i \in Len(toAcc) + 1 .. Len(toAcc')
      BY <1>1
    <3>2. \A i \in Len(toAcc) + 1 .. Len(toAcc') : toAcc'[i].from = d
      BY <1>4 DEF Grown, Sent
    <3> QED
      BY <1>4, <3>1, <3>2
  <2>2. \A i \in 1 .. Len(toAcc) : toAcc'[i] = toAcc[i] /\ i + 0 = i
    BY <1>1, <1>4 DEF Grown
  <2> QED
    BY <2>1, <2>2 DEF Kept
<1>5. toAcc' = <<>> => Kept(c, 0)
  <2>1. Len(<<>>) = 0
    OBVIOUS
  <2> QED
    BY <2>1 DEF Kept
<1> QED
  BY <1>2, <1>3, <1>4, <1>5

\* Steps that give the accepter nothing more of c.
LEMMA AcksKept ==
  ASSUME Types, Types', NEW c \in Controllers, NEW k \in Nat, Kept(c, k), Acks(c),
         lc'[c] = lc[c], Used(c)' => Used(c),
         c \in registered' /\ peer' = c /\ acc' \in {"recv", "lock"} =>
           c \in registered /\ peer = c /\ acc = acc'
  PROVE  Acks(c)'
<1>1. /\ None(c) => None(c)'
      /\ NoAck(c) => NoAck(c)'
      /\ OneAck(c) => OneAck(c)'
      /\ AckLast(c) => AckLast(c)'
      /\ NoThird(c) => NoThird(c)'
  BY KeptOrder
<1>2. (c \in registered /\ peer = c => acc # "lock" /\ (acc = "recv" => lc[c] = "gone" /\ None(c)))'
  BY <1>1 DEF Acks
<1>3. (Used(c) => AckLast(c) /\ (NoAck(c) \/ lc[c] = "gone"))'
  BY <1>1 DEF Acks
<1>4. (lc[c] \in {"off", "syn"} => NoAck(c) /\ ~Used(c))'
  BY <1>1 DEF Acks
<1> QED
  BY <1>1, <1>2, <1>3, <1>4 DEF Acks

\* Packets of c with flags in F come behind what there is of it.
LEMMA GrownOrder ==
  ASSUME Types, Types', NEW c \in Controllers, NEW F \in SUBSET Flags, Grown(c, F), "ACK" \notin F
  PROVE  /\ NoAck(c) => NoAck(c)'
         /\ OneAck(c) => OneAck(c)'
<1>1. Len(toAcc) \in Nat /\ Len(toAcc') \in Nat /\ Len(toAcc) <= Len(toAcc')
  BY LenProperties DEF Types, TypeOK, Grown
<1>2. \A i \in 1 .. Len(toAcc') : i \in 1 .. Len(toAcc) \/ i \in Len(toAcc) + 1 .. Len(toAcc')
  BY <1>1
<1>3. \A i \in 1 .. Len(toAcc') : AckAt(i, c)' => i \in 1 .. Len(toAcc) /\ AckAt(i, c)
  <2>1. \A i \in Len(toAcc) + 1 .. Len(toAcc') : ~AckAt(i, c)'
    BY DEF Grown, AckAt, Sent
  <2> QED
    BY <1>2, <2>1 DEF Grown, AckAt
<1> QED
  BY <1>3 DEF NoAck, OneAck

\* A controller that sends no ACK.
LEMMA AcksOfSender ==
  ASSUME Types, Types', NEW c \in Controllers, NEW F \in SUBSET Flags, Grown(c, F), "ACK" \notin F,
         Acks(c), lc[c] # "gone", lc'[c] \in {"off", "syn"} => lc[c] \in {"off", "syn"},
         UNCHANGED <<registered, acc, peer>>
  PROVE  Acks(c)'
<1>1. /\ NoAck(c) => NoAck(c)'
      /\ OneAck(c) => OneAck(c)'
  BY GrownOrder
<1>2. Used(c)' = Used(c)
  BY DEF Used
<1>3. OneAck(c)' => NoThird(c)'
  BY LenProperties DEF OneAck, NoThird, Types, TypeOK
<1>4. NoAck(c)' => AckLast(c)'
  BY DEF NoAck, AckLast
<1>5. OneAck(c)' /\ NoThird(c)'
  BY <1>1, <1>3 DEF Acks
<1>6. (lc[c] \in {"off", "syn"} => NoAck(c) /\ ~Used(c))'
  BY <1>1, <1>2 DEF Acks
<1>7. (Used(c) => AckLast(c) /\ (NoAck(c) \/ lc[c] = "gone"))'
  BY <1>1, <1>2, <1>4 DEF Acks
<1>8. (c \in registered /\ peer = c => acc # "lock" /\ (acc = "recv" => lc[c] = "gone" /\ None(c)))'
  BY DEF Acks
<1> QED
  BY <1>5, <1>6, <1>7, <1>8 DEF Acks

\* A controller that acknowledges the SYN|ACK, its connect message behind.
LEMMA AcksOfConnecting ==
  ASSUME Types, Types', NEW c \in Controllers, Grown(c, {"ACK", "MSG"}),
         Len(toAcc') <= Len(toAcc) + 2,
         Len(toAcc') = Len(toAcc) + 2 => toAcc'[Len(toAcc) + 2] = Sent(c, "MSG"),
         Acks(c), lc[c] = "syn", lc'[c] = "msg",
         UNCHANGED <<registered, acc, peer>>
  PROVE  Acks(c)'
<1>1. Len(toAcc) \in Nat /\ Len(toAcc') \in Nat /\ Len(toAcc) <= Len(toAcc')
  BY LenProperties DEF Types, TypeOK, Grown
<1>2. NoAck(c) /\ ~Used(c)
  BY DEF Acks
<1>3. \A i \in 1 .. Len(toAcc') : AckAt(i, c)' => i = Len(toAcc) + 1
  <2> SUFFICES ASSUME NEW i \in 1 .. Len(toAcc'), AckAt(i, c)' PROVE i = Len(toAcc) + 1
    OBVIOUS
  <2>1. CASE i \in 1 .. Len(toAcc)
    BY <1>2, <2>1 DEF NoAck, AckAt, Grown
  <2>2. CASE i = Len(toAcc) + 2
    <3>1. toAcc'[i] = Sent(c, "MSG")
      BY <1>1, <2>2
    <3> QED
      BY <3>1 DEF AckAt, Sent
  <2> QED
    BY <1>1, <2>1, <2>2
<1>4. OneAck(c)'
  BY <1>1, <1>3 DEF OneAck
<1>5. NoThird(c)'
  BY <1>1, <1>3 DEF NoThird
<1>6. ~Used(c)' /\ ~(c \in registered /\ peer = c)'
  BY <1>2 DEF Used
<1> QED
  BY <1>4, <1>5, <1>6 DEF Acks

\* A controller that acknowledges the CC of the server and exits.
LEMMA AcksOfTold ==
  ASSUME Types, Types', NEW c \in Controllers, Grown(c, {"ACK"}),
         Len(toAcc') <= Len(toAcc) + 1,
         Acks(c), lc[c] = "in", lc'[c] = "gone",
         UNCHANGED <<registered, acc, peer>>
  PROVE  Acks(c)'
<1>1. Len(toAcc) \in Nat /\ Len(toAcc') \in Nat /\ Len(toAcc) <= Len(toAcc')
  BY LenProperties DEF Types, TypeOK, Grown
<1>2. OneAck(c) /\ (Used(c) => NoAck(c))
  BY DEF Acks
<1>3. \A i \in 1 .. Len(toAcc') : /\ i \in 1 .. Len(toAcc) \/ i = Len(toAcc) + 1
                                  /\ i \in 1 .. Len(toAcc) => (AckAt(i, c)' <=> AckAt(i, c))
  BY <1>1 DEF AckAt, Grown
<1>4. NoThird(c)'
  <2> SUFFICES ASSUME NEW i \in 1 .. Len(toAcc'), NEW j \in 1 .. Len(toAcc'), NEW k \in 1 .. Len(toAcc'),
                      i < j, j < k, AckAt(i, c)', AckAt(j, c)'
               PROVE  FALSE
    BY DEF NoThird
  <2>1. i \in 1 .. Len(toAcc) /\ j \in 1 .. Len(toAcc)
    BY <1>1, <1>3
  <2> QED
    BY <1>2, <1>3, <2>1 DEF OneAck
<1>5. NoAck(c) => AckLast(c)'
  <2> SUFFICES ASSUME NoAck(c), NEW i \in 1 .. Len(toAcc'), NEW j \in 1 .. Len(toAcc'),
                      i < j, AckAt(i, c)'
               PROVE  FALSE
    BY DEF AckLast
  <2>1. i \in 1 .. Len(toAcc)
    BY <1>1, <1>3
  <2> QED
    BY <1>3, <2>1 DEF NoAck
<1>6. (Used(c)' => Used(c)) /\ (c \in registered' /\ peer' = c => acc' \notin {"recv", "lock"})
  BY DEF Used, Acks
<1> QED
  BY <1>2, <1>4, <1>5, <1>6 DEF Acks

\* What a step of one controller leaves alone.
LEMMA Alone ==
  ASSUME Types, NEW c \in Controllers, Start(c) \/ Controller(c) \/ Interrupted(c)
  PROVE  /\ UNCHANGED <<registered, refused, acc, peer, attempt, late, busy, shutdown_flag, main, strays>>
         /\ \A d \in Controllers \ {c} :
              /\ lc'[d] = lc[d] /\ tries'[d] = tries[d] /\ toLC'[d] = toLC[d]
              /\ extra'[d] = extra[d] /\ ccSeen'[d] = ccSeen[d]
              /\ d \in stalled' <=> d \in stalled
         /\ lc[c] # "gone"
<1>1. /\ UNCHANGED <<registered, refused, acc, peer, attempt, late, busy, shutdown_flag, main, strays>>
      /\ lc[c] # "gone"
  BY DEF Start, Controller, Interrupted, SynAnswered, MsgAnswered, Resend, Told, Misled,
         table, accepter, outside, Runs
<1>2. \A d \in Controllers \ {c} : lc'[d] = lc[d] /\ tries'[d] = tries[d] /\ toLC'[d] = toLC[d]
  BY DEF Start, Controller, Interrupted, SynAnswered, MsgAnswered, Resend, Told, Misled,
         Exit, Fail, Read, Types, TypeOK
<1>3. \A d \in Controllers \ {c} : d \in stalled' <=> d \in stalled
  BY DEF Start, Controller, Interrupted, SynAnswered, MsgAnswered, Resend, Told, Misled, table
<1>4. \A d \in Controllers \ {c} : extra'[d] = extra[d] /\ ccSeen'[d] = ccSeen[d]
  <2>1. \A ps : ToServer(c, ps) => \A d \in Controllers \ {c} : extra'[d] = extra[d] /\ ccSeen'[d] = ccSeen[d]
    BY DEF ToServer, Types, TypeOK
  <2> QED
    BY <2>1 DEF Start, Controller, Interrupted, SynAnswered, MsgAnswered, Resend, Told, Misled, toServer
<1> QED
  BY <1>1, <1>2, <1>3, <1>4

\* What it sends.
LEMMA Speaks ==
  ASSUME Types, Types', NEW c \in Controllers, Start(c) \/ Controller(c) \/ Interrupted(c)
  PROVE  \/ \E F \in SUBSET Flags : /\ Grown(c, F) /\ "ACK" \notin F
                                    /\ lc'[c] \in {"off", "syn"} => lc[c] \in {"off", "syn"}
         \/ /\ Grown(c, {"ACK", "MSG"}) /\ Len(toAcc') <= Len(toAcc) + 2
            /\ Len(toAcc') = Len(toAcc) + 2 => toAcc'[Len(toAcc) + 2] = Sent(c, "MSG")
            /\ lc[c] = "syn" /\ lc'[c] = "msg"
         \/ /\ Grown(c, {"ACK"}) /\ Len(toAcc') <= Len(toAcc) + 1
            /\ lc[c] = "in" /\ lc'[c] = "gone"
<1> DEFINE Goal == \E F \in SUBSET Flags : /\ Grown(c, F) /\ "ACK" \notin F
                                           /\ lc'[c] \in {"off", "syn"} => lc[c] \in {"off", "syn"}
<1>1. \A F \in SUBSET Flags :
        Grown(c, F) /\ "ACK" \notin F /\ (lc'[c] \in {"off", "syn"} => lc[c] \in {"off", "syn"}) => Goal
  OBVIOUS
<1>2. lc \in [Controllers -> {"off", "syn", "msg", "in", "failed", "gone"}]
  BY DEF Types, TypeOK
<1>3. toAcc' = toAcc => Grown(c, {})
  BY LenProperties DEF Grown, Types, TypeOK
<1>4. {} \in SUBSET Flags /\ "ACK" \notin {}
  OBVIOUS
<1>5. \A f \in Flags : ToServer(c, <<f>>) => Grown(c, {f}) /\ Len(toAcc') <= Len(toAcc) + 1
  BY SendsOne
<1>6. \A f, g \in Flags :
        ToServer(c, <<f, g>>) =>
          /\ Grown(c, {f, g}) /\ Len(toAcc') <= Len(toAcc) + 2
          /\ Len(toAcc') = Len(toAcc) + 2 => toAcc'[Len(toAcc) + 2] = Sent(c, g)
  BY SendsTwo
<1>7. {"SYN", "ACK", "MSG", "FIN"} \subseteq Flags
  BY DEF Flags
<1> HIDE DEF Goal
<1>8. CASE Start(c)
  <2>1. Grown(c, {"SYN"}) /\ lc[c] = "off"
    BY <1>5, <1>7, <1>8 DEF Start
  <2> QED
    BY <1>1, <1>7, <2>1 DEF Goal
<1>9. CASE SynAnswered(c)
  <2>1. CASE Head(toLC[c]) = "SYN|ACK"
    BY <1>2, <1>6, <1>7, <1>9, <2>1 DEF SynAnswered
  <2>2. CASE Head(toLC[c]) # "SYN|ACK"
    BY <1>1, <1>2, <1>3, <1>4, <1>9, <2>2 DEF SynAnswered, toServer, Goal
  <2> QED
    BY <2>1, <2>2
<1>10. CASE MsgAnswered(c)
  <2>1. Grown(c, {}) /\ lc'[c] = "in"
    BY <1>2, <1>3, <1>10 DEF MsgAnswered, toServer
  <2> QED
    BY <1>1, <1>4, <2>1 DEF Goal
<1>11. CASE Resend(c)
  <2>1. lc'[c] \in {"off", "syn"} => lc[c] \in {"off", "syn"}
    BY <1>2, <1>11 DEF Resend, Fail
  <2>2. Grown(c, {}) \/ Grown(c, {"SYN"}) \/ Grown(c, {"MSG"})
    BY <1>3, <1>5, <1>7, <1>11 DEF Resend, toServer
  <2> QED
    BY <1>1, <1>4, <1>7, <2>1, <2>2 DEF Goal
<1>12. CASE Told(c)
  <2>1. lc[c] = "in" /\ lc'[c] = "gone" /\ Grown(c, {"ACK"}) /\ Len(toAcc') <= Len(toAcc) + 1
    BY <1>2, <1>5, <1>7, <1>12 DEF Told, Exit
  <2> QED
    BY <2>1
<1>13. CASE Misled(c)
  <2>1. toLC[c] \in Seq(Flags) /\ toLC[c] # <<>> /\ Head(toLC[c]) # "FIN"
    BY <1>13 DEF Misled, Types, TypeOK
  <2>2. Head(toLC[c]) \in Flags
    BY <2>1, HeadTailProperties
  <2>3. PICK a \in Flags : a = Answer(Head(toLC[c])) /\ a # "ACK" /\ <<a>> \o <<>> = <<a>>
                           /\ <<a>> \o <<"FIN">> = <<a, "FIN">>
    BY <2>1, <2>2, Answers
  <2>4. ToServer(c, <<a>>) \/ ToServer(c, <<a, "FIN">>)
    BY <1>13, <2>3 DEF Misled
  <2>5. Grown(c, {a}) \/ Grown(c, {a, "FIN"})
    BY <1>5, <1>6, <1>7, <2>4
  <2>6. lc'[c] = "failed"
    BY <1>2, <1>13 DEF Misled, Fail
  <2> QED
    BY <1>1, <1>7, <2>3, <2>5, <2>6 DEF Goal
<1>14. CASE Interrupted(c)
  <2>1. Grown(c, {}) \/ Grown(c, {"FIN"})
    BY <1>3, <1>5, <1>7, <1>14 DEF Interrupted, toServer
  <2>2. lc'[c] = "gone"
    BY <1>2, <1>14 DEF Interrupted, Exit
  <2> QED
    BY <1>1, <1>4, <1>7, <2>1, <2>2 DEF Goal
<1> QED
  BY <1>8, <1>9, <1>10, <1>11, <1>12, <1>13, <1>14 DEF Controller, Goal

\* The steps of the accepter and of the others keep Acks.
LEMMA AcksByAccepter ==
  ASSUME Types, Types', NEW c \in Controllers, Acks(c), Accepter \/ TimePasses
  PROVE  Acks(c)'
<1>1. /\ UNCHANGED toAcc => Kept(c, 0)
      /\ Arrived /\ Take => Kept(c, 1)
      /\ toAcc' = <<>> => Kept(c, 0)
  BY KeptByStep
<1> DEFINE Quiet == /\ lc'[c] = lc[c]
                    /\ Used(c)' => Used(c)
                    /\ c \in registered' /\ peer' = c /\ acc' \in {"recv", "lock"} =>
                         c \in registered /\ peer = c /\ acc = acc'
<1>2. Quiet /\ (Kept(c, 0) \/ Kept(c, 1)) => Acks(c)'
  BY AcksKept
<1>3. CASE TooLate
  <2>1. Quiet
    BY <1>3 DEF TooLate, Back, Wait, Used, controllers, table
  <2> QED
    BY <1>1, <1>2, <1>3, <2>1 DEF TooLate
<1>4. CASE DiscardOther
  <2>1. Quiet
    BY <1>4 DEF DiscardOther, Wait, Used, controllers, table
  <2> QED
    BY <1>1, <1>2, <1>4, <2>1 DEF DiscardOther
<1>5. CASE TakeSyn
  <2>1. Quiet
    BY <1>5 DEF TakeSyn, Wait, Used, controllers, table
  <2> QED
    BY <1>1, <1>2, <1>5, <2>1 DEF TakeSyn
<1>6. CASE DiscardForeign
  <2>1. Quiet
    BY <1>6 DEF DiscardForeign, Used, controllers, table, accepter
  <2> QED
    BY <1>1, <1>2, <1>6, <2>1 DEF DiscardForeign
<1>7. CASE TakeAck
  <2>1. CASE Packet.flags = "ACK" /\ peer = c
    <3>1. /\ Len(toAcc') = Len(toAcc) - 1 /\ Len(toAcc) \in Nat \ {0}
          /\ \A i \in 1 .. Len(toAcc') : toAcc'[i] = toAcc[i + 1]
          /\ Packet = toAcc[1] /\ Packet \in Wire
      BY <1>7, Taken DEF TakeAck
    <3>2. AckAt(1, c)
      BY <1>7, <2>1, <3>1 DEF TakeAck, AckAt, Sent, Wire
    <3>3. 1 \in 1 .. Len(toAcc) /\ \A i \in 1 .. Len(toAcc') : i + 1 \in 1 .. Len(toAcc) /\ 1 < i + 1
      BY <3>1
    <3>4. acc' = "recv" /\ peer' = c /\ registered' = registered /\ lc' = lc /\ acc = "ack"
      BY <1>7, <2>1 DEF TakeAck, Wait, controllers, table
    <3>5. lc[c] \notin {"off", "syn"}
      BY <3>2, <3>3 DEF Acks, NoAck
    <3>6. Kept(c, 1)
      BY <1>1, <1>7 DEF TakeAck
    <3>7. AckLast(c)'
      <4> SUFFICES ASSUME NEW i \in 1 .. Len(toAcc'), NEW j \in 1 .. Len(toAcc'),
                          i < j, AckAt(i, c)'
                   PROVE  toAcc'[j].from # c
        BY DEF AckLast
      <4>1. AckAt(i + 1, c) /\ toAcc'[j] = toAcc[j + 1] /\ i + 1 < j + 1
        BY <3>1 DEF AckAt
      <4> QED
        BY <3>2, <3>3, <4>1 DEF Acks, NoThird
    <3>8. NoAck(c)' \/ lc[c] = "gone"
      <4>1. lc[c] # "gone" => \A i \in 1 .. Len(toAcc) : 1 < i => ~AckAt(i, c)
        BY <3>2, <3>3 DEF Acks, OneAck
      <4> QED
        BY <3>1, <3>3, <4>1 DEF NoAck, AckAt
    <3>9. c \in registered => lc[c] = "gone" /\ None(c)'
      <4> SUFFICES ASSUME c \in registered PROVE lc[c] = "gone" /\ None(c)'
        OBVIOUS
      <4>1. AckLast(c) /\ (NoAck(c) \/ lc[c] = "gone")
        BY DEF Acks, Used
      <4>2. \A i \in 1 .. Len(toAcc') : toAcc'[i].from # c
        BY <3>1, <3>2, <3>3, <4>1 DEF AckLast
      <4>3. ~NoAck(c)
        BY <3>2, <3>3 DEF NoAck
      <4> QED
        BY <4>1, <4>2, <4>3 DEF None
    <3>10. NoThird(c)' /\ (lc[c] # "gone" => OneAck(c)')
      BY <3>6, KeptOrder DEF Acks
    <3> QED
      BY <3>4, <3>5, <3>7, <3>8, <3>9, <3>10 DEF Acks
  <2>2. CASE ~(Packet.flags = "ACK" /\ peer = c)
    <3>1. Quiet
      BY <1>7, <2>2 DEF TakeAck, Back, Wait, Used, controllers, table
    <3> QED
      BY <1>1, <1>2, <1>7, <3>1 DEF TakeAck
  <2> QED
    BY <2>1, <2>2
<1>8. CASE TakeMsg
  <2>1. peer = c => c \notin registered
    <3> SUFFICES ASSUME peer = c, c \in registered PROVE FALSE
      OBVIOUS
    <3>1. None(c)
      BY <1>8 DEF TakeMsg, Acks
    <3>2. Packet = toAcc[1] /\ 1 \in 1 .. Len(toAcc)
      <4>1. Packet = toAcc[1] /\ Len(toAcc) \in Nat \ {0}
        BY <1>8, Taken DEF TakeMsg
      <4> QED
        BY <4>1
    <3> QED
      BY <1>8, <3>1, <3>2 DEF TakeMsg, None
  <2>2. Quiet
    BY <1>8, <2>1 DEF TakeMsg, Back, Wait, Used, controllers, table
  <2> QED
    BY <1>1, <1>2, <1>8, <2>2 DEF TakeMsg
<1>9. CASE Register
  <2>1. Quiet
    BY <1>9 DEF Register, Back, Wait, Used, controllers
  <2> QED
    BY <1>1, <1>2, <1>9, <2>1 DEF Register, toServer
<1>10. CASE AccepterEnds
  <2>1. Quiet
    BY <1>10 DEF AccepterEnds, Used, controllers, table
  <2> QED
    BY <1>1, <1>2, <1>10, <2>1 DEF AccepterEnds
<1>11. CASE TimePasses
  <2>1. Quiet
    BY <1>11 DEF TimePasses, Used, controllers, table
  <2> QED
    BY <1>1, <1>2, <1>11, <2>1 DEF TimePasses, toServer
<1> QED
  BY <1>3, <1>4, <1>5, <1>6, <1>7, <1>8, <1>9, <1>10, <1>11 DEF Accepter

\* And those of the others.
LEMMA AcksByOthers ==
  ASSUME Types, Types', NEW c \in Controllers, Acks(c),
         \/ \E d \in Controllers : Disconnects(d)
         \/ Server \/ SweepBegins \/ Stray \/ Sigint \/ CloseBegins
  PROVE  Acks(c)'
<1>1. Kept(c, 0)
  <2>1. CASE Stray
    <3>1. toAcc' = <<Sent(Stranger, "ACK")>> /\ c # Stranger
      BY <2>1, HandshakeAssumption DEF Stray, Sent, Controllers
    <3>2. Len(toAcc') = 1 /\ toAcc'[1].from # c
      BY <3>1 DEF Sent
    <3> QED
      BY <3>2 DEF Kept
  <2>2. CASE ~Stray
    BY <2>2, KeptByStep DEF Disconnects, Server, SweepEnds, DisconnectAll, Cancel, SweepBegins, Sigint, CloseBegins, toServer
  <2> QED
    BY <2>1, <2>2
<1>2. /\ lc'[c] = lc[c] /\ acc' = acc /\ peer' = peer /\ registered' \subseteq registered
  BY DEF Disconnects, Server, SweepEnds, DisconnectAll, Cancel, SweepBegins, Stray, Sigint, CloseBegins,
         table, controllers, accepter
<1>3. Used(c)' => Used(c)
  BY <1>2 DEF Used
<1> QED
  BY <1>1, <1>2, <1>3, AcksKept

\* Every step keeps it.
LEMMA AcksKeptByNext ==
  ASSUME Types, Types', NEW c \in Controllers, Acks(c), [Next]_vars
  PROVE  Acks(c)'
<1>1. CASE \E d \in Controllers : Start(d) \/ Controller(d) \/ Interrupted(d)
  <2>1. PICK d \in Controllers : Start(d) \/ Controller(d) \/ Interrupted(d)
    BY <1>1
  <2>2. UNCHANGED <<registered, acc, peer>> /\ lc[d] # "gone"
    BY <2>1, Alone
  <2>3. CASE d = c
    BY <2>1, <2>2, <2>3, Speaks, AcksOfSender, AcksOfConnecting, AcksOfTold
  <2>4. CASE d # c
    <3>1. PICK F \in SUBSET Flags : Grown(d, F)
      BY <2>1, Speaks DEF Flags
    <3>2. Kept(c, 0)
      BY <2>4, <3>1, KeptByStep DEF Senders
    <3>3. lc'[c] = lc[c]
      BY <2>1, <2>4, Alone
    <3> QED
      BY <2>2, <3>2, <3>3, AcksKept DEF Used
  <2> QED
    BY <2>3, <2>4
<1>2. CASE UNCHANGED vars
  BY <1>2, KeptByStep, AcksKept DEF vars, Used
<1> QED
  BY <1>1, <1>2, AcksByAccepter, AcksByOthers DEF Next

----------------------------------------------------------------------------
\* A controller whose packets all arrive goes through its handshake in step with
\* the accepter.

\* The accepter's queue holds one packet of c; or its ACK and, later, its connect
\* message, and nothing else of it.
Single(c, f) == \E i \in 1 .. Len(toAcc) :
                  /\ toAcc[i] = Sent(c, f)
                  /\ \A j \in 1 .. Len(toAcc) : toAcc[j].from = c => j = i
Pair(c) == \E i, j \in 1 .. Len(toAcc) :
             /\ i < j /\ toAcc[i] = Sent(c, "ACK") /\ toAcc[j] = Sent(c, "MSG")
             /\ \A k \in 1 .. Len(toAcc) : toAcc[k].from = c => k \in {i, j}

\* The accepter waits for a packet of c, or is about to register it.
Waits(c, what) == acc = what /\ peer = c /\ ~late
Dealing(c) == peer = c /\ acc \in {"ack", "recv", "lock"}
Connected(c) == c \in registered \cup refused \/ (peer = c /\ acc = "lock")

\* The server knows nothing of c.
Unknown(c) == None(c) /\ ~Dealing(c) /\ c \notin registered

\* How far the two ends are, by what the controller does.
Syn(c) ==
  /\ c \notin registered
  /\ \/ toLC[c] = <<>> /\ ~Dealing(c) /\ (None(c) \/ Single(c, "SYN"))
     \/ toLC[c] = <<"SYN|ACK">> /\ None(c) /\ (Waits(c, "ack") \/ acc = "done")
Msg(c) ==
  \/ /\ toLC[c] = <<>> /\ c \notin registered
     /\ \/ Waits(c, "ack") /\ Pair(c)
        \/ Waits(c, "recv") /\ Single(c, "MSG")
        \/ acc = "done" /\ None(c)
  \/ /\ toLC[c] = <<"PSH|ACK">> /\ None(c) /\ Connected(c)
     /\ ~(peer = c /\ acc \in {"ack", "recv"})
  \/ toLC[c] = <<"PSH|ACK", "FIN">> /\ main \notin {"run", "closing"} /\ Unknown(c)
In(c) ==
  \/ /\ toLC[c] = <<>> /\ None(c) /\ Connected(c)
     /\ ~(peer = c /\ acc \in {"ack", "recv"})
  \/ toLC[c] = <<"FIN">> /\ main \notin {"run", "closing"} /\ Unknown(c)
Stage(c) ==
  /\ lc[c] # "gone" => ~extra[c] /\ ~ccSeen[c]
  /\ lc[c] = "off" => toLC[c] = <<>> /\ Unknown(c)
  /\ lc[c] = "syn" => Syn(c)
  /\ lc[c] = "msg" => Msg(c)
  /\ lc[c] = "in" => In(c)
  /\ lc[c] = "failed" => Unknown(c)

\* The next queue holds of c exactly what the queue holds of it.
Same(c, k) ==
  /\ Kept(c, k)
  /\ \A i \in 1 .. Len(toAcc) :
       toAcc[i].from = c => i - k \in 1 .. Len(toAcc') /\ toAcc'[i - k] = toAcc[i]

\* Then it holds the same packet, the same two or none.
LEMMA SameOrder ==
  ASSUME Types, Types', NEW c \in Controllers, NEW k \in Nat, Same(c, k)
  PROVE  /\ None(c) => None(c)'
         /\ \A f \in Flags : Single(c, f) => Single(c, f)'
         /\ Pair(c) => Pair(c)'
<1>1. Len(toAcc) \in Nat /\ Len(toAcc') \in Nat
  BY LenProperties DEF Types, TypeOK
<1>2. \A i \in 1 .. Len(toAcc') : toAcc'[i].from = c => i + k \in 1 .. Len(toAcc) /\ toAcc'[i] = toAcc[i + k]
  BY DEF Same, Kept
<1>4. None(c) => None(c)'
  BY KeptOrder DEF Same
<1>5. ASSUME NEW i \in 1 .. Len(toAcc), NEW f \in Flags, toAcc[i] = Sent(c, f)
      PROVE  i - k \in 1 .. Len(toAcc') /\ toAcc'[i - k] = Sent(c, f)
  <2>1. toAcc[i].from = c
    BY <1>5 DEF Sent
  <2> QED
    BY <1>5, <2>1 DEF Same
<1>6. ASSUME NEW f \in Flags, Single(c, f) PROVE Single(c, f)'
  <2>1. PICK i \in 1 .. Len(toAcc) : /\ toAcc[i] = Sent(c, f)
                                     /\ \A j \in 1 .. Len(toAcc) : toAcc[j].from = c => j = i
    BY <1>6 DEF Single
  <2>2. i - k \in 1 .. Len(toAcc') /\ toAcc'[i - k] = Sent(c, f)
    BY <1>5, <2>1
  <2>3. \A j \in 1 .. Len(toAcc') : toAcc'[j].from = c => j = i - k
    BY <1>1, <1>2, <2>1
  <2> QED
    BY <2>2, <2>3 DEF Single
<1>7. ASSUME Pair(c) PROVE Pair(c)'
  <2>1. PICK i, j \in 1 .. Len(toAcc) :
          /\ i < j /\ toAcc[i] = Sent(c, "ACK") /\ toAcc[j] = Sent(c, "MSG")
          /\ \A l \in 1 .. Len(toAcc) : toAcc[l].from = c => l \in {i, j}
    BY <1>7 DEF Pair
  <2>2. "ACK" \in Flags /\ "MSG" \in Flags
    BY DEF Flags
  <2>3. /\ i - k \in 1 .. Len(toAcc') /\ toAcc'[i - k] = Sent(c, "ACK")
        /\ j - k \in 1 .. Len(toAcc') /\ toAcc'[j - k] = Sent(c, "MSG") /\ i - k < j - k
    BY <1>5, <2>1, <2>2
  <2>4. \A l \in 1 .. Len(toAcc') : toAcc'[l].from = c => l \in {i - k, j - k}
    BY <1>1, <1>2, <2>1, SMTT(60)
  <2> QED
    BY <2>3, <2>4 DEF Pair
<1> QED
  BY <1>4, <1>6, <1>7

\* The steps that leave the packets of c alone.
LEMMA SameByStep ==
  ASSUME Types, Types', NEW c \in Controllers
  PROVE  /\ UNCHANGED toAcc => Same(c, 0)
         /\ Arrived /\ Take /\ Packet.from # c => Same(c, 1)
         /\ \A d \in Senders : \A F : d # c /\ Grown(d, F) => Same(c, 0)
<1>1. Len(toAcc) \in Nat /\ Len(toAcc') \in Nat
  BY LenProperties DEF Types, TypeOK
<1>2. UNCHANGED toAcc => Same(c, 0)
  BY <1>1, KeptByStep DEF Same
<1>3. ASSUME Arrived, Take, Packet.from # c PROVE Same(c, 1)
  <2>1. Len(toAcc') = Len(toAcc) - 1 /\ Packet = toAcc[1]
    BY <1>3, Taken
  <2>2. \A i \in 1 .. Len(toAcc) : toAcc[i].from = c => i - 1 \in 1 .. Len(toAcc') /\ (i - 1) + 1 = i
    BY <1>1, <1>3, <2>1
  <2>3. \A i \in 1 .. Len(toAcc') : toAcc'[i] = toAcc[i + 1]
    BY <1>3, Taken
  <2> QED
    BY <1>3, <2>2, <2>3, KeptByStep DEF Same
<1>4. ASSUME NEW d \in Senders, NEW F, d # c, Grown(d, F) PROVE Same(c, 0)
  <2>1. \A i \in 1 .. Len(toAcc) : i - 0 \in 1 .. Len(toAcc') /\ toAcc'[i - 0] = toAcc[i]
    BY <1>1, <1>4 DEF Grown
  <2> QED
    BY <1>4, <2>1, KeptByStep DEF Same
<1> QED
  BY <1>2, <1>3, <1>4

\* The accepter takes a packet of c.
LEMMA MineTaken ==
  ASSUME Types, Types', NEW c \in Controllers, Arrived, Take, Packet.from = c
  PROVE  /\ ~None(c)
         /\ \A f \in Flags : Single(c, f) => Packet = Sent(c, f) /\ None(c)'
         /\ Pair(c) => Packet = Sent(c, "ACK") /\ Single(c, "MSG")'
<1>1. /\ Len(toAcc') = Len(toAcc) - 1 /\ Len(toAcc) \in Nat \ {0}
      /\ \A i \in 1 .. Len(toAcc') : toAcc'[i] = toAcc[i + 1]
      /\ Packet = toAcc[1]
  BY Taken
<1>2. 1 \in 1 .. Len(toAcc) /\ toAcc[1].from = c
  BY <1>1
<1>3. \A i \in 1 .. Len(toAcc') : i + 1 \in 1 .. Len(toAcc) /\ i + 1 # 1
  BY <1>1
<1>4. ~None(c)
  BY <1>2 DEF None
<1>5. ASSUME NEW f \in Flags, Single(c, f) PROVE Packet = Sent(c, f) /\ None(c)'
  BY <1>1, <1>2, <1>3, <1>5 DEF Single, None
<1>6. ASSUME Pair(c) PROVE Packet = Sent(c, "ACK") /\ Single(c, "MSG")'
  <2>1. PICK i, j \in 1 .. Len(toAcc) :
          /\ i < j /\ toAcc[i] = Sent(c, "ACK") /\ toAcc[j] = Sent(c, "MSG")
          /\ \A l \in 1 .. Len(toAcc) : toAcc[l].from = c => l \in {i, j}
    BY <1>6 DEF Pair
  <2>2. i = 1
    BY <1>2, <2>1
  <2>3. j - 1 \in 1 .. Len(toAcc') /\ (j - 1) + 1 = j
    BY <1>1, <2>1
  <2>4. toAcc'[j - 1] = Sent(c, "MSG")
    BY <1>1, <2>1, <2>3
  <2>5. \A l \in 1 .. Len(toAcc') : toAcc'[l].from = c => l = j - 1
    BY <1>1, <1>3, <2>1, <2>2
  <2> QED
    BY <1>1, <2>1, <2>2, <2>3, <2>4, <2>5 DEF Single
<1> QED
  BY <1>4, <1>5, <1>6

\* A controller of which the queue holds nothing sends one packet, or two.
LEMMA MineSent ==
  ASSUME Types, Types', NEW c \in Controllers, NEW F, Grown(c, F), None(c)
  PROVE  /\ \A f \in Flags : Len(toAcc') = Len(toAcc) + 1 /\ F = {f} => Single(c, f)'
         /\ Len(toAcc') = Len(toAcc) + 2 =>
              (toAcc'[Len(toAcc) + 1] = Sent(c, "ACK") =>
                (toAcc'[Len(toAcc) + 2] = Sent(c, "MSG") => Pair(c)'))
<1> DEFINE m == Len(toAcc)
           n == Len(toAcc')
<1>1. m \in Nat /\ n \in Nat
  BY LenProperties DEF Types, TypeOK
<1>2. \A i \in 1 .. m : toAcc'[i].from # c
  BY DEF None, Grown
<1>3. ASSUME NEW f \in Flags, n = m + 1, F = {f} PROVE Single(c, f)'
  <2>1. m + 1 \in 1 .. n /\ m + 1 \in m + 1 .. n
    BY <1>1, <1>3
  <2>2. toAcc'[m + 1] = Sent(c, f)
    BY <1>3, <2>1 DEF Grown
  <2>3. \A j \in 1 .. n : toAcc'[j].from = c => j = m + 1
    BY <1>1, <1>2, <1>3
  <2> QED
    BY <2>1, <2>2, <2>3 DEF Single
<1>4. ASSUME n = m + 2, toAcc'[m + 1] = Sent(c, "ACK"), toAcc'[m + 2] = Sent(c, "MSG")
      PROVE  Pair(c)'
  <2>1. m + 1 \in 1 .. n /\ m + 2 \in 1 .. n /\ m + 1 < m + 2
    BY <1>1, <1>4
  <2>2. \A l \in 1 .. n : toAcc'[l].from = c => l \in {m + 1, m + 2}
    BY <1>1, <1>2, <1>4
  <2> QED
    BY <1>4, <2>1, <2>2 DEF Pair
<1> QED
  BY <1>3, <1>4

\* A step leaves alone what Stage says of c beside the queue.
Steady(c) ==
  /\ lc'[c] = lc[c] /\ toLC'[c] = toLC[c] /\ extra'[c] = extra[c] /\ ccSeen'[c] = ccSeen[c]
  /\ c \in registered' <=> c \in registered
  /\ c \in refused => c \in refused'
  /\ main \notin {"run", "closing"} => main' \notin {"run", "closing"}
  /\ acc = "done" => acc' = "done"
  /\ \A a \in {"ack", "recv", "lock"} : peer' = c /\ acc' = a <=> peer = c /\ acc = a
  /\ peer = c /\ acc \in {"ack", "recv"} => late' = late

\* With its packets left alone too, the controller is where it was.
LEMMA StageKept ==
  ASSUME Types, Types', NEW c \in Controllers, NEW k \in Nat, Stage(c), Same(c, k), Steady(c)
  PROVE  Stage(c)'
<1>1. /\ None(c) => None(c)'
      /\ Single(c, "SYN") => Single(c, "SYN")'
      /\ Single(c, "MSG") => Single(c, "MSG")'
      /\ Pair(c) => Pair(c)'
  <2>1. "SYN" \in Flags /\ "MSG" \in Flags
    BY DEF Flags
  <2> QED
    BY <2>1, SameOrder
<1>2. /\ Dealing(c)' = Dealing(c)
      /\ Connected(c) => Connected(c)'
      /\ Waits(c, "ack") => Waits(c, "ack")'
      /\ Waits(c, "recv") => Waits(c, "recv")'
  <2>1. Dealing(c)' = Dealing(c)
    BY DEF Steady, Dealing
  <2>2. Connected(c) => Connected(c)'
    BY DEF Steady, Connected
  <2>3. Waits(c, "ack") => Waits(c, "ack")'
    BY DEF Steady, Waits
  <2>4. Waits(c, "recv") => Waits(c, "recv")'
    BY DEF Steady, Waits
  <2> QED
    BY <2>1, <2>2, <2>3, <2>4
<1>3. Unknown(c) => Unknown(c)'
  BY <1>1, <1>2 DEF Unknown, Steady
<1>4. Syn(c) => Syn(c)'
  BY <1>1, <1>2 DEF Syn, Steady
<1>5. ~(peer = c /\ acc \in {"ack", "recv"}) => ~(peer' = c /\ acc' \in {"ack", "recv"})
  BY DEF Steady
<1>6. Msg(c) => Msg(c)'
  BY <1>1, <1>2, <1>3, <1>5 DEF Msg, Steady
<1>7. In(c) => In(c)'
  BY <1>1, <1>2, <1>3, <1>5 DEF In, Steady
<1> QED
  BY <1>3, <1>4, <1>6, <1>7 DEF Stage, Steady

\* A step of another controller.
LEMMA StageBesideController ==
  ASSUME Types, Types', NEW c \in Controllers, NEW d \in Controllers, d # c, Stage(c),
         Start(d) \/ Controller(d) \/ Interrupted(d)
  PROVE  Stage(c)'
<1>1. PICK F \in SUBSET Flags : Grown(d, F)
  BY Speaks DEF Flags
<1>2. Same(c, 0)
  BY <1>1, SameByStep DEF Senders
<1>3. Steady(c)
  BY Alone DEF Steady
<1> QED
  BY <1>2, <1>3, StageKept

\* Where a controller is that the accepter is in a handshake with.
LEMMA InHandshake ==
  ASSUME Types, NEW c \in Controllers, Stage(c), lc[c] # "gone", peer = c, acc \in {"ack", "recv"}
  PROVE  /\ ~late /\ c \notin registered
         /\ \/ lc[c] = "syn" /\ acc = "ack" /\ toLC[c] = <<"SYN|ACK">> /\ None(c)
            \/ lc[c] = "msg" /\ toLC[c] = <<>> /\ acc = "ack" /\ Pair(c)
            \/ lc[c] = "msg" /\ toLC[c] = <<>> /\ acc = "recv" /\ Single(c, "MSG")
<1>1. Dealing(c) /\ acc # "done"
  BY DEF Dealing
<1>2. lc[c] \in {"off", "syn", "msg", "in", "failed", "gone"}
  BY DEF Types, TypeOK
<1>3. lc[c] \in {"syn", "msg"}
  BY <1>1, <1>2 DEF Stage, Unknown, In
<1>4. CASE lc[c] = "syn"
  BY <1>1, <1>4 DEF Stage, Syn, Waits
<1>5. CASE lc[c] = "msg"
  BY <1>1, <1>5 DEF Stage, Msg, Waits, Unknown
<1> QED
  BY <1>3, <1>4, <1>5

\* And where one is whose packet the accepter takes.
LEMMA Whose ==
  ASSUME Types, Types', NEW c \in Controllers, Stage(c), lc[c] # "gone",
         Arrived, Take, Packet.from = c
  PROVE  /\ toLC[c] = <<>> /\ c \notin registered
         /\ \/ lc[c] = "syn" /\ ~Dealing(c) /\ Packet = Sent(c, "SYN") /\ None(c)'
            \/ lc[c] = "msg" /\ Waits(c, "ack") /\ Packet = Sent(c, "ACK") /\ Single(c, "MSG")'
            \/ lc[c] = "msg" /\ Waits(c, "recv") /\ Packet = Sent(c, "MSG") /\ None(c)'
<1>1. /\ ~None(c)
      /\ Single(c, "SYN") => Packet = Sent(c, "SYN") /\ None(c)'
      /\ Single(c, "MSG") => Packet = Sent(c, "MSG") /\ None(c)'
      /\ Pair(c) => Packet = Sent(c, "ACK") /\ Single(c, "MSG")'
  <2>1. "SYN" \in Flags /\ "MSG" \in Flags
    BY DEF Flags
  <2> QED
    BY <2>1, MineTaken
<1>2. lc[c] \in {"off", "syn", "msg", "in", "failed", "gone"}
  BY DEF Types, TypeOK
<1>3. lc[c] \in {"syn", "msg"}
  BY <1>1, <1>2 DEF Stage, Unknown, In
<1>4. CASE lc[c] = "syn"
  BY <1>1, <1>4 DEF Stage, Syn
<1>5. CASE lc[c] = "msg"
  BY <1>1, <1>5 DEF Stage, Msg, Unknown
<1> QED
  BY <1>3, <1>4, <1>5

\* The accepter's steps.
LEMMA StageByAccepter ==
  ASSUME Types, Types', NEW c \in Controllers, Stage(c), lost = 0, lost' = 0,
         Accepter \/ TimePasses
  PROVE  Stage(c)'
<1>1. lc' = lc /\ extra' = extra /\ ccSeen' = ccSeen /\ main' = main
  BY DEF Accepter, TooLate, DiscardOther, TakeSyn, DiscardForeign, TakeAck, TakeMsg, Register,
         AccepterEnds, TimePasses, controllers, toServer, outside
<1> SUFFICES ASSUME lc[c] # "gone" PROVE Stage(c)'
  BY <1>1 DEF Stage
<1>2. /\ UNCHANGED toAcc => Same(c, 0)
      /\ Arrived /\ Take /\ Packet.from # c => Same(c, 1)
  BY SameByStep
<1>3. \A k \in Nat : Same(c, k) /\ Steady(c) => Stage(c)'
  BY StageKept
<1>4. 0 \in Nat /\ 1 \in Nat
  OBVIOUS
<1>5. \A d \in Controllers : \A f \in Flags : ToLC(d, <<f>>) =>
        /\ d # c => toLC'[c] = toLC[c]
        /\ d = c /\ lc[c] \in Runs => toLC'[c] = toLC[c] \o <<f>>
  BY Reaches DEF Types
<1>6. peer = c /\ acc \in {"ack", "recv"} =>
        /\ ~late /\ c \notin registered
        /\ \/ lc[c] = "syn" /\ acc = "ack" /\ toLC[c] = <<"SYN|ACK">> /\ None(c)
           \/ lc[c] = "msg" /\ toLC[c] = <<>> /\ acc = "ack" /\ Pair(c)
           \/ lc[c] = "msg" /\ toLC[c] = <<>> /\ acc = "recv" /\ Single(c, "MSG")
  BY InHandshake
<1>7. Arrived /\ Take /\ Packet.from = c =>
        /\ toLC[c] = <<>> /\ c \notin registered
        /\ \/ lc[c] = "syn" /\ ~Dealing(c) /\ Packet = Sent(c, "SYN") /\ None(c)'
           \/ lc[c] = "msg" /\ Waits(c, "ack") /\ Packet = Sent(c, "ACK") /\ Single(c, "MSG")'
           \/ lc[c] = "msg" /\ Waits(c, "recv") /\ Packet = Sent(c, "MSG") /\ None(c)'
  BY Whose
<1>8. Sent(c, "SYN").flags = "SYN" /\ Sent(c, "ACK").flags = "ACK" /\ Sent(c, "MSG").flags = "MSG"
  BY DEF Sent
<1>9. lc[c] = "syn" /\ ~extra[c] /\ ~ccSeen[c] /\ Syn(c)' => Stage(c)'
  BY <1>1 DEF Stage
<1>10. ~extra[c] /\ ~ccSeen[c]
  BY DEF Stage
<1>11. Runs = {"syn", "msg", "in"} /\ "SYN|ACK" \in Flags /\ "MSG" \in Flags
  BY DEF Runs, Flags
<1>12. CASE TooLate
  <2>1. late /\ Arrived /\ Take /\ acc \in {"accept", "ack", "recv"} /\ registered' = registered /\ refused' = refused
    BY <1>12 DEF TooLate, table, Types, TypeOK
  <2>2. ~(peer = c /\ acc \in {"ack", "recv"})
    BY <1>6, <2>1
  <2>3. toLC'[c] = toLC[c]
    BY <1>5, <1>11, <1>12, <2>1, <2>2 DEF TooLate, Types, Partner
  <2>4. acc' \in {"poll", acc} /\ peer' = peer
    BY <1>12 DEF TooLate, Back, Wait
  <2>5. CASE Packet.from = c
    <3>1. lc[c] = "syn" /\ toLC[c] = <<>> /\ c \notin registered /\ None(c)'
      BY <1>7, <2>1, <2>5 DEF Waits
    <3>2. ~Dealing(c)'
      BY <2>1, <2>2, <2>4 DEF Dealing
    <3>3. Syn(c)'
      BY <2>1, <2>3, <3>1, <3>2 DEF Syn
    <3> QED
      BY <1>9, <1>10, <3>1, <3>3
  <2>6. CASE Packet.from # c
    <3>1. Steady(c)
      BY <1>1, <2>1, <2>2, <2>3, <2>4 DEF Steady
    <3> QED
      BY <1>2, <1>3, <1>4, <2>1, <2>6, <3>1
  <2> QED
    BY <2>5, <2>6
<1>13. CASE DiscardOther
  <2>1. /\ Arrived /\ Take /\ Packet.flags # "SYN" /\ acc \in {"accept", "poll"} /\ acc' = "accept"
        /\ UNCHANGED <<toLC, registered, refused, peer>>
    BY <1>13 DEF DiscardOther, Accepting, Wait, table
  <2>2. Packet.from # c
    BY <1>7, <1>8, <2>1 DEF Waits
  <2>3. Steady(c)
    BY <1>1, <2>1 DEF Steady
  <2> QED
    BY <1>2, <1>3, <1>4, <2>1, <2>2, <2>3
<1>14. CASE TakeSyn
  <2>1. /\ Arrived /\ Take /\ Packet.flags = "SYN" /\ acc \in {"accept", "poll"} /\ acc' = "ack"
        /\ UNCHANGED <<registered, refused>> /\ peer' = Packet.from /\ late' = FALSE
        /\ ToLC(Packet.from, <<"SYN|ACK">>)
    BY <1>14 DEF TakeSyn, Accepting, Wait, table
  <2>2. Packet.from \in Controllers
    BY <2>1, Taken
  <2>3. CASE Packet.from = c
    <3>1. lc[c] = "syn" /\ toLC[c] = <<>> /\ c \notin registered /\ None(c)'
      BY <1>7, <1>8, <2>1, <2>3 DEF Waits
    <3>2. toLC'[c] = <<>> \o <<"SYN|ACK">>
      BY <1>5, <1>11, <2>1, <2>3, <3>1
    <3>3. <<>> \o <<"SYN|ACK">> = <<"SYN|ACK">>
      <4>1. <<"SYN|ACK">> \in Seq(Flags)
        BY <1>11
      <4> QED
        BY <4>1, ConcatEmptySeq
    <3>4. Syn(c)'
      BY <2>1, <2>3, <3>1, <3>2, <3>3 DEF Syn, Waits
    <3> QED
      BY <1>9, <1>10, <3>1, <3>4
  <2>4. CASE Packet.from # c
    <3>1. toLC'[c] = toLC[c]
      BY <1>5, <1>11, <2>1, <2>2, <2>4
    <3>2. Steady(c)
      BY <1>1, <2>1, <2>4, <3>1 DEF Steady
    <3> QED
      BY <1>2, <1>3, <1>4, <2>1, <2>4, <3>2
  <2> QED
    BY <2>3, <2>4
<1>15. CASE DiscardForeign
  <2>1. /\ Arrived /\ Take /\ Packet.from # peer /\ acc \in {"ack", "recv"}
        /\ UNCHANGED <<toLC, registered, refused, acc, peer, late>>
    BY <1>15 DEF DiscardForeign, table, accepter
  <2>2. CASE Packet.from = c
    <3>1. lc[c] = "syn" /\ toLC[c] = <<>> /\ c \notin registered /\ None(c)' /\ ~Dealing(c)
      BY <1>7, <2>1, <2>2 DEF Waits
    <3>2. ~Dealing(c)'
      BY <2>1, <3>1 DEF Dealing
    <3>3. Syn(c)'
      BY <2>1, <3>1, <3>2 DEF Syn
    <3> QED
      BY <1>9, <1>10, <3>1, <3>3
  <2>3. CASE Packet.from # c
    <3>1. Steady(c)
      BY <1>1, <2>1 DEF Steady
    <3> QED
      BY <1>2, <1>3, <1>4, <2>1, <2>3, <3>1
  <2> QED
    BY <2>2, <2>3
<1>16. CASE TakeAck
  <2>1. /\ Arrived /\ Take /\ Packet.from = peer /\ acc = "ack" /\ peer' = peer /\ late' = FALSE
        /\ UNCHANGED <<toLC, registered, refused>>
        /\ acc' = IF Packet.flags = "ACK" THEN "recv" ELSE "poll"
    BY <1>16 DEF TakeAck, Wait, Back, table
  <2>2. CASE peer = c
    <3>1. /\ toLC[c] = <<>> /\ c \notin registered
          /\ lc[c] = "msg" /\ Packet = Sent(c, "ACK") /\ Single(c, "MSG")'
      BY <1>7, <2>1, <2>2 DEF Waits, Dealing
    <3>2. Msg(c)'
      BY <1>8, <2>1, <2>2, <3>1 DEF Msg, Waits
    <3> QED
      BY <1>1, <1>10, <3>1, <3>2 DEF Stage
  <2>3. CASE peer # c
    <3>1. Steady(c)
      BY <1>1, <2>1, <2>3 DEF Steady
    <3> QED
      BY <1>2, <1>3, <1>4, <2>1, <2>3, <3>1
  <2> QED
    BY <2>2, <2>3
<1>17. CASE TakeMsg
  <2>1. /\ Arrived /\ Take /\ Packet.from = peer /\ acc = "recv" /\ peer' = peer
        /\ UNCHANGED <<registered, refused>> /\ acc' \in {"lock", "poll"}
        /\ Packet.flags = "MSG" => acc' = "lock"
        /\ ToLC(peer, <<Answer(Packet.flags)>>) /\ peer \in Controllers
    BY <1>17 DEF TakeMsg, Wait, Back, table, Types, Partner
  <2>2. Packet.flags \in Flags /\ Answer(Packet.flags) \in Flags
    <3>1. Packet \in Wire
      BY <2>1, Taken
    <3> QED
      BY <3>1, Answers DEF Wire
  <2>3. CASE peer = c
    <3>1. /\ toLC[c] = <<>> /\ c \notin registered
          /\ lc[c] = "msg" /\ Packet = Sent(c, "MSG") /\ None(c)'
      BY <1>7, <2>1, <2>3 DEF Waits, Dealing
    <3>2. Answer(Packet.flags) = "PSH|ACK"
      BY <1>8, <3>1 DEF Answer
    <3>3. toLC'[c] = <<>> \o <<"PSH|ACK">>
      BY <1>5, <1>11, <2>1, <2>2, <2>3, <3>1, <3>2
    <3>4. <<>> \o <<"PSH|ACK">> = <<"PSH|ACK">>
      <4>1. <<"PSH|ACK">> \in Seq(Flags)
        BY <2>2, <3>2
      <4> QED
        BY <4>1, ConcatEmptySeq
    <3>5. Msg(c)'
      BY <1>8, <2>1, <2>3, <3>1, <3>3, <3>4 DEF Msg, Connected
    <3> QED
      BY <1>1, <1>10, <3>1, <3>5 DEF Stage
  <2>4. CASE peer # c
    <3>1. toLC'[c] = toLC[c]
      BY <1>5, <2>1, <2>2, <2>4
    <3>2. Steady(c)
      BY <1>1, <2>1, <2>4, <3>1 DEF Steady
    <3> QED
      BY <1>2, <1>3, <1>4, <2>1, <2>4, <3>2
  <2> QED
    BY <2>3, <2>4
<1>18. CASE Register
  <2>1. /\ acc = "lock" /\ acc' = "poll" /\ peer' = peer
        /\ UNCHANGED <<toLC, toAcc>>
        /\ registered' \cup refused' = registered \cup refused \cup {peer}
        /\ registered \subseteq registered' /\ refused \subseteq refused'
    BY <1>18 DEF Register, Wait, Back, toServer
  <2>2. Same(c, 0)
    BY <1>2, <2>1
  <2>3. CASE peer = c
    <3>1. Dealing(c)
      BY <2>1, <2>3 DEF Dealing
    <3>2. lc[c] \in {"off", "syn", "msg", "in", "failed", "gone"}
      BY DEF Types, TypeOK
    <3>3. lc[c] \in {"msg", "in"}
      BY <2>1, <3>1, <3>2 DEF Stage, Unknown, Syn, Waits
    <3>4. Connected(c)' /\ ~(peer' = c /\ acc' \in {"ack", "recv"})
      BY <2>1, <2>3 DEF Connected
    <3>5. None(c) => None(c)'
      BY <2>2, <1>4, SameOrder
    <3>6. CASE lc[c] = "msg"
      <4>1. toLC[c] = <<"PSH|ACK">> /\ None(c)
        BY <2>1, <3>1, <3>6 DEF Stage, Msg, Waits, Unknown
      <4>2. Msg(c)'
        BY <2>1, <3>4, <3>5, <4>1 DEF Msg
      <4> QED
        BY <1>1, <1>10, <3>6, <4>2 DEF Stage
    <3>7. CASE lc[c] = "in"
      <4>1. toLC[c] = <<>> /\ None(c)
        BY <3>1, <3>7 DEF Stage, In, Unknown
      <4>2. In(c)'
        BY <2>1, <3>4, <3>5, <4>1 DEF In
      <4> QED
        BY <1>1, <1>10, <3>7, <4>2 DEF Stage
    <3> QED
      BY <3>3, <3>6, <3>7
  <2>4. CASE peer # c
    <3>1. c \in registered' <=> c \in registered
      BY <1>18, <2>4 DEF Register
    <3>2. Steady(c)
      BY <1>1, <2>1, <2>4, <3>1 DEF Steady
    <3> QED
      BY <1>3, <1>4, <2>2, <3>2
  <2> QED
    BY <2>3, <2>4
<1>19. CASE AccepterEnds
  <2>1. /\ acc' = "done" /\ acc \notin {"lock", "done"} /\ toAcc' = <<>>
        /\ UNCHANGED <<toLC, registered, refused>>
    BY <1>19 DEF AccepterEnds, table
  <2>2. None(c)'
    <3>1. Len(<<>>) = 0
      OBVIOUS
    <3> QED
      BY <2>1, <3>1 DEF None
  <2>3. ~Dealing(c)' /\ (Connected(c) => Connected(c)')
    BY <2>1 DEF Dealing, Connected
  <2>4. Unknown(c) => Unknown(c)'
    BY <2>1, <2>2, <2>3 DEF Unknown
  <2>5. Syn(c) => Syn(c)'
    BY <2>1, <2>2, <2>3 DEF Syn
  <2>6. Msg(c) => Msg(c)'
    BY <1>1, <2>1, <2>2, <2>3, <2>4 DEF Msg
  <2>7. In(c) => In(c)'
    BY <1>1, <2>1, <2>2, <2>3, <2>4 DEF In
  <2> QED
    BY <1>1, <2>1, <2>4, <2>5, <2>6, <2>7 DEF Stage
<1>20. CASE TimePasses
  <2>1. /\ acc \in {"accept", "ack", "recv"} /\ toAcc = <<>> /\ toLC[c] = <<>>
        /\ UNCHANGED <<toLC, toAcc, registered, refused, acc, peer>>
    BY <1>20 DEF TimePasses, Settled, Stuck, table, toServer
  <2>2. ~Pair(c) /\ ~Single(c, "MSG")
    <3>1. Len(toAcc) = 0
      BY <2>1
    <3> QED
      BY <3>1 DEF Pair, Single
  <2>3. ~(peer = c /\ acc \in {"ack", "recv"})
    BY <1>6, <2>1, <2>2
  <2>4. Steady(c)
    BY <1>1, <2>1, <2>3 DEF Steady
  <2> QED
    BY <1>2, <1>3, <1>4, <2>1, <2>4
<1> QED
  BY <1>12, <1>13, <1>14, <1>15, <1>16, <1>17, <1>18, <1>19, <1>20 DEF Accepter

\* The steps of the other threads: only disconnectAllTcp writes to a controller.
LEMMA StageByOthers ==
  ASSUME Types, Types', NEW c \in Controllers, Acks(c), Stage(c),
         \/ \E d \in Controllers : Disconnects(d)
         \/ Server \/ SweepBegins \/ Stray \/ Sigint \/ CloseBegins
  PROVE  Stage(c)'
<1>1. UNCHANGED toAcc => Same(c, 0)
  BY SameByStep
<1>2. Same(c, 0) /\ Steady(c) => Stage(c)'
  BY StageKept
<1>3. CASE \E d \in Controllers : Disconnects(d)
  <2>1. PICK d \in Controllers : Disconnects(d)
    BY <1>3
  <2>2. CASE d = c
    <3>1. lc[c] = "gone" /\ lc' = lc
      BY <2>1, <2>2 DEF Disconnects, Stage, controllers
    <3> QED
      BY <3>1 DEF Stage
  <2>3. CASE d # c
    <3>1. ccSeen'[c] = ccSeen[c] /\ (c \in registered' <=> c \in registered)
      BY <2>1, <2>3 DEF Disconnects, Types, TypeOK
    <3>2. Steady(c) /\ toAcc' = toAcc
      BY <2>1, <3>1 DEF Disconnects, Steady, controllers, accepter, outside
    <3> QED
      BY <1>1, <1>2, <3>2
  <2> QED
    BY <2>2, <2>3
<1>4. CASE SweepEnds \/ Cancel \/ SweepBegins \/ Sigint \/ CloseBegins
  <2>1. Steady(c) /\ toAcc' = toAcc
    BY <1>4 DEF SweepEnds, Cancel, SweepBegins, Sigint, CloseBegins, Steady, controllers, accepter, table, toServer
  <2> QED
    BY <1>1, <1>2, <2>1
<1>5. CASE Stray
  <2>1. toAcc = <<>> /\ toAcc' = <<Sent(Stranger, "ACK")>> /\ c # Stranger
    BY <1>5, HandshakeAssumption DEF Stray, Sent, Controllers
  <2>2. Len(toAcc) = 0 /\ Len(toAcc') = 1 /\ toAcc'[1].from # c
    BY <2>1 DEF Sent
  <2>3. Same(c, 0)
    BY <2>2 DEF Same, Kept
  <2>4. Steady(c)
    BY <1>5 DEF Stray, Steady, controllers, accepter, table
  <2> QED
    BY <1>2, <2>3, <2>4
<1>6. CASE DisconnectAll
  <2>1. /\ main \in {"run", "closing"} /\ main' \notin {"run", "closing"} /\ registered' = {}
        /\ UNCHANGED <<lc, toAcc, extra, ccSeen, refused, acc, peer, late>>
        /\ toLC'[c] = IF c \in registered /\ lc[c] \in Runs THEN Append(toLC[c], "FIN") ELSE toLC[c]
    BY <1>6 DEF DisconnectAll, controllers, toServer, accepter
  <2>2. CASE c \notin registered
    <3>1. Steady(c)
      BY <2>1, <2>2 DEF Steady
    <3> QED
      BY <1>1, <1>2, <2>1, <3>1
  <2>3. CASE c \in registered /\ lc[c] # "gone"
    <3>1. lc[c] \in {"off", "syn", "msg", "in", "failed", "gone"}
      BY DEF Types, TypeOK
    <3>2. lc[c] \in {"msg", "in"}
      BY <2>3, <3>1 DEF Stage, Unknown, Syn
    <3>3. None(c) /\ ~(peer = c /\ acc \in {"ack", "recv"})
      BY <2>1, <2>3, <3>2 DEF Stage, Msg, In, Unknown
    <3>4. ~(peer = c /\ acc = "lock")
      BY <2>3 DEF Acks
    <3>5. Unknown(c)'
      <4>1. None(c)'
        BY <2>1, <3>3 DEF None
      <4> QED
        BY <2>1, <3>3, <3>4, <4>1 DEF Unknown, Dealing
    <3>6. CASE lc[c] = "msg"
      <4>1. toLC[c] = <<"PSH|ACK">>
        BY <2>1, <2>3, <3>6 DEF Stage, Msg, Unknown
      <4>2. toLC'[c] = <<"PSH|ACK", "FIN">>
        <5>1. Append(<<"PSH|ACK">>, "FIN") = <<"PSH|ACK", "FIN">>
          <6>1. <<"PSH|ACK">> \in Seq(Flags) /\ Len(<<"PSH|ACK">>) = 1
            BY DEF Flags
          <6>2. "PSH|ACK" \in Flags /\ "FIN" \in Flags /\ <<"PSH|ACK">>[1] = "PSH|ACK"
            BY DEF Flags
          <6>3. /\ Append(<<"PSH|ACK">>, "FIN") \in Seq(Flags)
                /\ Len(Append(<<"PSH|ACK">>, "FIN")) = 2
                /\ Append(<<"PSH|ACK">>, "FIN")[1] = "PSH|ACK"
                /\ Append(<<"PSH|ACK">>, "FIN")[2] = "FIN"
            BY <6>1, <6>2
          <6> QED
            BY <6>2, <6>3, Two
        <5> QED
          BY <2>1, <2>3, <3>6, <4>1, <5>1 DEF Runs
      <4>3. Msg(c)'
        BY <2>1, <3>5, <4>2 DEF Msg
      <4> QED
        BY <2>1, <2>3, <3>6, <4>3 DEF Stage
    <3>7. CASE lc[c] = "in"
      <4>1. toLC[c] = <<>>
        BY <2>1, <2>3, <3>7 DEF Stage, In, Unknown
      <4>2. toLC'[c] = <<"FIN">>
        <5>1. Append(<<>>, "FIN") = <<"FIN">>
          OBVIOUS
        <5> QED
          BY <2>1, <2>3, <3>7, <4>1, <5>1 DEF Runs
      <4>3. In(c)'
        BY <2>1, <3>5, <4>2 DEF In
      <4> QED
        BY <2>1, <2>3, <3>7, <4>3 DEF Stage
    <3> QED
      BY <3>2, <3>6, <3>7
  <2>4. CASE lc[c] = "gone"
    BY <2>1, <2>4 DEF Stage
  <2> QED
    BY <2>2, <2>3, <2>4
<1> QED
  BY <1>3, <1>4, <1>5, <1>6 DEF Server

\* What a controller sends to itself does not come back: a packet that arrives
\* marks its session and the getter's socket only when it has a slot or a CC.
LEMMA Unmarked ==
  ASSUME Types, NEW c \in Controllers, c \notin registered, ~extra[c], ~ccSeen[c],
         NEW f \in Flags \ {"FIN"}, NEW g \in Flags \ {"FIN"},
         ToServer(c, <<f>>) \/ ToServer(c, <<f, g>>)
  PROVE  ~extra'[c] /\ ~ccSeen'[c]
<1>1. CASE ToServer(c, <<f>>)
  BY <1>1, ArrivesOne DEF Types
<1>2. CASE ToServer(c, <<f, g>>)
  BY <1>2, ArrivesTwo DEF Types
<1> QED
  BY <1>1, <1>2

\* The steps of the controller itself.
LEMMA StageByItself ==
  ASSUME Types, Types', NEW c \in Controllers, Stage(c), lost = 0, lost' = 0, c \notin stalled',
         Start(c) \/ Controller(c) \/ Interrupted(c)
  PROVE  Stage(c)'
<1>1. /\ UNCHANGED <<registered, refused, acc, peer, late, main>>
      /\ lc[c] # "gone"
  BY Alone
<1>2. ~extra[c] /\ ~ccSeen[c]
  BY <1>1 DEF Stage
<1>3. /\ lc \in [Controllers -> {"off", "syn", "msg", "in", "failed", "gone"}]
      /\ toLC \in [Controllers -> Seq(Flags)]
  BY DEF Types, TypeOK
<1>4. {"SYN", "ACK", "MSG"} \subseteq Flags \ {"FIN"}
  BY DEF Flags
<1>5. UNCHANGED toAcc => (None(c) => None(c)')
  BY DEF None
<1>6. Dealing(c)' = Dealing(c) /\ (Connected(c) => Connected(c)')
  BY <1>1 DEF Dealing, Connected
<1>7. \A f \in Flags : ToServer(c, <<f>>) /\ None(c) =>
        IF acc = "done" THEN None(c)' ELSE Single(c, f)'
  <2> SUFFICES ASSUME NEW f \in Flags, ToServer(c, <<f>>), None(c)
               PROVE  IF acc = "done" THEN None(c)' ELSE Single(c, f)'
    OBVIOUS
  <2>1. /\ Grown(c, {f})
        /\ acc = "done" => toAcc' = toAcc
        /\ acc # "done" => Len(toAcc') = Len(toAcc) + 1
    BY SendsOne
  <2>2. CASE acc = "done"
    BY <1>5, <2>1, <2>2
  <2>3. CASE acc # "done"
    BY <2>1, <2>3, MineSent
  <2> QED
    BY <2>2, <2>3
<1>8. CASE Start(c)
  <2>1. /\ lc[c] = "off" /\ lc'[c] = "syn" /\ ToServer(c, <<"SYN">>) /\ toLC' = toLC
        /\ toLC[c] = <<>> /\ Unknown(c)
    BY <1>3, <1>8 DEF Start, Stage
  <2>2. ~extra'[c] /\ ~ccSeen'[c]
    BY <1>2, <1>4, <2>1, Unmarked DEF Unknown
  <2>3. None(c)' \/ Single(c, "SYN")'
    BY <1>4, <1>7, <2>1 DEF Unknown
  <2>4. Syn(c)'
    BY <1>1, <1>6, <2>1, <2>3 DEF Syn, Unknown
  <2> QED
    BY <2>1, <2>2, <2>4 DEF Stage
<1>9. CASE SynAnswered(c)
  <2>1. /\ lc[c] = "syn" /\ toLC[c] # <<>>
        /\ toLC'[c] = IF lc'[c] \in Runs THEN Tail(toLC[c]) ELSE <<>>
    BY <1>3, <1>9 DEF SynAnswered, Read
  <2>2. /\ toLC[c] = <<"SYN|ACK">> /\ None(c) /\ c \notin registered
        /\ Waits(c, "ack") \/ acc = "done"
    BY <2>1 DEF Stage, Syn
  <2>3. Head(toLC[c]) = "SYN|ACK" /\ Tail(toLC[c]) = <<>>
    BY <2>2
  <2>4. lc'[c] = "msg" /\ ToServer(c, <<"ACK", "MSG">>) /\ toLC'[c] = <<>>
    BY <1>3, <1>9, <2>1, <2>3 DEF SynAnswered, Runs
  <2>5. ~extra'[c] /\ ~ccSeen'[c]
    BY <1>2, <1>4, <2>2, <2>4, Unmarked
  <2>6. IF acc = "done" THEN None(c)' ELSE Pair(c)'
    <3>1. /\ Grown(c, {"ACK", "MSG"})
          /\ Len(toAcc') = Len(toAcc) + 2 => /\ toAcc'[Len(toAcc) + 1] = Sent(c, "ACK")
                                             /\ toAcc'[Len(toAcc) + 2] = Sent(c, "MSG")
          /\ acc = "done" => toAcc' = toAcc
          /\ acc # "done" => Len(toAcc') = Len(toAcc) + 2
      BY <1>4, <2>4, SendsTwo
    <3>2. CASE acc = "done"
      BY <1>5, <2>2, <3>1, <3>2
    <3>3. CASE acc # "done"
      BY <2>2, <3>1, <3>3, MineSent
    <3> QED
      BY <3>2, <3>3
  <2>7. Msg(c)'
    BY <1>1, <2>2, <2>4, <2>6 DEF Msg, Waits
  <2> QED
    BY <2>4, <2>5, <2>7 DEF Stage
<1>10. CASE MsgAnswered(c)
  <2>1. /\ lc[c] = "msg" /\ toLC[c] # <<>> /\ lc'[c] = "in" /\ toLC'[c] = Tail(toLC[c])
        /\ UNCHANGED <<toAcc, extra, ccSeen>>
    BY <1>3, <1>10 DEF MsgAnswered, Read, Runs, toServer
  <2>2. CASE toLC[c] = <<"PSH|ACK", "FIN">>
    <3>1. Unknown(c) /\ main \notin {"run", "closing"}
      BY <2>1, <2>2 DEF Stage, Msg
    <3>2. toLC'[c] = <<"FIN">>
      BY <2>1, <2>2
    <3>3. Unknown(c)'
      BY <1>1, <1>5, <1>6, <2>1, <3>1 DEF Unknown
    <3>4. In(c)'
      BY <1>1, <3>1, <3>2, <3>3 DEF In
    <3> QED
      BY <1>2, <2>1, <3>4 DEF Stage
  <2>3. CASE toLC[c] # <<"PSH|ACK", "FIN">>
    <3>1. toLC[c] = <<"PSH|ACK">> /\ None(c) /\ Connected(c) /\ ~(peer = c /\ acc \in {"ack", "recv"})
      BY <2>1, <2>3 DEF Stage, Msg
    <3>2. toLC'[c] = <<>>
      BY <2>1, <3>1
    <3>3. In(c)'
      BY <1>1, <1>5, <1>6, <2>1, <3>1, <3>2 DEF In
    <3> QED
      BY <1>2, <2>1, <3>3 DEF Stage
  <2> QED
    BY <2>2, <2>3
<1>11. CASE Resend(c)
  <2>1. toLC[c] = <<>> /\ toAcc = <<>> /\ lc[c] \in {"syn", "msg"} /\ toLC' = toLC
    BY <1>11 DEF Resend, Settled
  <2>2. None(c) /\ ~Pair(c) /\ ~Single(c, "MSG")
    <3>1. Len(toAcc) = 0
      BY <2>1
    <3> QED
      BY <3>1 DEF None, Pair, Single
  <2>3. c \notin registered /\ ~Dealing(c) /\ (lc[c] = "msg" => acc = "done")
    <3>1. CASE lc[c] = "syn"
      BY <2>1, <3>1 DEF Stage, Syn
    <3>2. CASE lc[c] = "msg"
      <4>1. Msg(c)
        BY <3>2 DEF Stage
      <4>2. toLC[c] # <<"PSH|ACK">> /\ toLC[c] # <<"PSH|ACK", "FIN">>
        BY <2>1
      <4>3. c \notin registered /\ acc = "done"
        BY <2>2, <4>1, <4>2 DEF Msg
      <4> QED
        BY <3>2, <4>3 DEF Dealing
    <3> QED
      BY <2>1, <3>1, <3>2
  <2>4. CASE tries[c] < TRIES
    <3>1. lc' = lc /\ ToServer(c, IF lc[c] = "syn" THEN <<"SYN">> ELSE <<"MSG">>)
      BY <1>11, <2>4 DEF Resend
    <3>2. CASE lc[c] = "syn"
      <4>1. ToServer(c, <<"SYN">>)
        BY <3>1, <3>2
      <4>2. ~extra'[c] /\ ~ccSeen'[c]
        BY <1>2, <1>4, <2>3, <4>1, Unmarked
      <4>3. None(c)' \/ Single(c, "SYN")'
        BY <1>4, <1>7, <2>2, <4>1
      <4>4. Syn(c)'
        BY <1>1, <1>6, <2>1, <2>3, <4>3 DEF Syn
      <4> QED
        BY <3>1, <3>2, <4>2, <4>4 DEF Stage
    <3>3. CASE lc[c] = "msg"
      <4>1. ToServer(c, <<"MSG">>) /\ acc = "done"
        BY <2>3, <3>1, <3>3
      <4>2. ~extra'[c] /\ ~ccSeen'[c]
        BY <1>2, <1>4, <2>3, <4>1, Unmarked
      <4>3. None(c)'
        BY <1>4, <1>7, <2>2, <4>1
      <4>4. Msg(c)'
        BY <1>1, <2>1, <2>3, <4>1, <4>3 DEF Msg
      <4> QED
        BY <3>1, <3>3, <4>2, <4>4 DEF Stage
    <3> QED
      BY <2>1, <3>2, <3>3
  <2>5. CASE ~(tries[c] < TRIES)
    <3>1. lc'[c] = "failed" /\ UNCHANGED <<toAcc, extra, ccSeen>>
      BY <1>3, <1>11, <2>5 DEF Resend, Fail, toServer
    <3>2. Unknown(c)'
      BY <1>1, <1>5, <1>6, <2>2, <2>3, <3>1 DEF Unknown
    <3> QED
      BY <1>2, <3>1, <3>2 DEF Stage
  <2> QED
    BY <2>4, <2>5
<1>12. CASE Told(c) \/ Interrupted(c)
  <2>1. lc'[c] = "gone"
    BY <1>3, <1>12 DEF Told, Interrupted, Exit
  <2> QED
    BY <2>1 DEF Stage
<1>13. CASE Misled(c)
  <2>1. lc[c] = "in" /\ toLC[c] # <<>> /\ Head(toLC[c]) # "FIN"
    BY <1>13 DEF Misled
  <2>2. Head(<<"FIN">>) = "FIN"
    OBVIOUS
  <2> QED
    BY <2>1, <2>2 DEF Stage, In
<1> QED
  BY <1>8, <1>9, <1>10, <1>11, <1>12, <1>13 DEF Controller

\* What excuses a controller is never undone.
LEMMA Monotone ==
  ASSUME Types, Next
  PROVE  /\ lost' \in {lost, lost + 1} /\ stalled \subseteq stalled'
         /\ interrupts <= interrupts' /\ strays <= strays' /\ (shutdown_flag => shutdown_flag')
<1>1. ASSUME NEW c \in Controllers, Start(c) \/ Controller(c) \/ Interrupted(c)
      PROVE  /\ lost' \in {lost, lost + 1} /\ stalled \subseteq stalled'
             /\ interrupts <= interrupts' /\ strays <= strays' /\ (shutdown_flag => shutdown_flag')
  <2>1. UNCHANGED lost \/ (\E f \in Flags : ToServer(c, <<f>>)) \/ (\E f, g \in Flags : ToServer(c, <<f, g>>))
    <3>1. {"SYN", "ACK", "MSG", "FIN"} \subseteq Flags
      BY DEF Flags
    <3>2. CASE Misled(c)
      <4>1. toLC[c] \in Seq(Flags) /\ toLC[c] # <<>>
        BY <3>2 DEF Misled, Types, TypeOK
      <4>2. Head(toLC[c]) \in Flags
        BY <4>1, HeadTailProperties
      <4>3. PICK a \in Flags : /\ a = Answer(Head(toLC[c]))
                               /\ <<a>> \o <<>> = <<a>> /\ <<a>> \o <<"FIN">> = <<a, "FIN">>
        BY <4>2, Answers
      <4>4. ToServer(c, <<a>>) \/ ToServer(c, <<a, "FIN">>)
        BY <3>2, <4>3 DEF Misled
      <4> QED
        BY <3>1, <4>4
    <3>3. CASE ~Misled(c)
      BY <1>1, <3>1, <3>3 DEF Start, Controller, Interrupted, SynAnswered, MsgAnswered, Resend, Told
    <3> QED
      BY <3>2, <3>3
  <2>2. lost' \in {lost, lost + 1}
    BY <2>1, ArrivesOne, ArrivesTwo DEF Types
  <2>3. /\ stalled \subseteq stalled' /\ UNCHANGED <<strays, shutdown_flag>>
        /\ interrupts' \in {interrupts, interrupts + 1}
    BY <1>1 DEF Start, Controller, Interrupted, SynAnswered, MsgAnswered, Resend, Told, Misled,
                table, outside
  <2>4. interrupts \in Nat /\ strays \in Nat
    BY DEF Types, TypeOK
  <2> QED
    BY <2>2, <2>3, <2>4
<1>2. ASSUME Accepter \/ TimePasses
      PROVE  lost' \in {lost, lost + 1} /\ UNCHANGED <<stalled, interrupts, strays, shutdown_flag>>
  <2>1. UNCHANGED <<stalled, interrupts, strays, shutdown_flag>>
    BY <1>2 DEF Accepter, TooLate, DiscardOther, TakeSyn, DiscardForeign, TakeAck, TakeMsg, Register,
                AccepterEnds, TimePasses, table, outside
  <2>2. \A d \in Controllers : \A f \in Flags : ToLC(d, <<f>>) => lost' \in {lost, lost + 1}
    BY Reaches DEF Types
  <2>3. "SYN|ACK" \in Flags
    BY DEF Flags
  <2>4. Arrived /\ Take => /\ Packet.flags = "SYN" => Packet.from \in Controllers
                           /\ Answer(Packet.flags) \in Flags
    <3>1. Arrived /\ Take => Packet \in Wire /\ (Packet.flags = "SYN" => Packet.from \in Controllers)
      BY Taken
    <3>2. Packet \in Wire => Packet.flags \in Flags
      BY DEF Wire
    <3> QED
      BY <3>1, <3>2, Answers
  <2>5. acc \in {"ack", "recv"} => peer \in Controllers
    BY DEF Types, Partner
  <2>6. UNCHANGED lost \/ \E d \in Controllers : \E f \in Flags : ToLC(d, <<f>>)
    BY <1>2, <2>3, <2>4, <2>5
       DEF Accepter, TooLate, DiscardOther, TakeSyn, DiscardForeign, TakeAck, TakeMsg, Register,
           AccepterEnds, TimePasses
  <2> QED
    BY <2>1, <2>2, <2>6
<1>3. ASSUME \/ \E d \in Controllers : Disconnects(d)
             \/ Server \/ SweepBegins \/ Stray \/ Sigint \/ CloseBegins
      PROVE  /\ UNCHANGED <<lost, stalled, interrupts>> /\ strays' \in {strays, strays + 1}
             /\ shutdown_flag => shutdown_flag'
  BY <1>3 DEF Disconnects, Server, SweepEnds, DisconnectAll, Cancel, SweepBegins, Stray, Sigint, CloseBegins,
              table, outside
<1>4. interrupts \in Nat /\ strays \in Nat
  BY DEF Types, TypeOK
<1> QED
  BY <1>1, <1>2, <1>3, <1>4 DEF Next

\* The inductive invariant of the handshake.
HandshakeInv ==
  /\ Types
  /\ \A c \in Controllers : Acks(c) /\ (~Excused(c) => Stage(c))

\* An ACK is spent once, and a controller that nothing excuses is always in step
\* with the accepter.
THEOREM AlwaysHandshake == Spec => []HandshakeInv
<1>1. Init => HandshakeInv
  <2> SUFFICES ASSUME Init PROVE HandshakeInv
    OBVIOUS
  <2>1. Types
    BY StartTyped
  <2>2. Len(<<>>) = 0
    OBVIOUS
  <2>3. \A c \in Controllers : Acks(c)
    BY <2>2 DEF Init, Acks, Used, NoAck, OneAck, NoThird, AckLast
  <2>4. \A c \in Controllers : Stage(c)
    BY <2>2 DEF Init, Stage, Unknown, None, Dealing
  <2> QED
    BY <2>1, <2>3, <2>4 DEF HandshakeInv
<1>2. HandshakeInv /\ [Next]_vars => HandshakeInv'
  <2> SUFFICES ASSUME HandshakeInv, [Next]_vars PROVE HandshakeInv'
    OBVIOUS
  <2>1. Types /\ Types'
    BY TypesKept DEF HandshakeInv
  <2>2. ASSUME NEW c \in Controllers PROVE Acks(c)'
    BY <2>1, AcksKeptByNext DEF HandshakeInv
  <2>3. ASSUME NEW c \in Controllers, ~Excused(c)' PROVE Stage(c)'
    <3>1. CASE UNCHANGED vars
      <4>1. Same(c, 0) /\ Steady(c) /\ ~Excused(c)
        BY <2>1, <2>3, <3>1, SameByStep DEF vars, Steady, Excused
      <4> QED
        BY <2>1, <4>1, StageKept DEF HandshakeInv
    <3>2. CASE Next
      <4>1. lost = 0 /\ lost' = 0 /\ c \notin stalled /\ c \notin stalled'
        BY <2>1, <2>3, <3>2, Monotone, SMTT(60) DEF Excused, Types, TypeOK
      <4>2. Stage(c) /\ Acks(c)
        BY <4>1 DEF HandshakeInv, Excused
      <4>3. ASSUME NEW d \in Controllers, Start(d) \/ Controller(d) \/ Interrupted(d) PROVE Stage(c)'
        BY <2>1, <4>1, <4>2, <4>3, StageByItself, StageBesideController
      <4> QED
        BY <2>1, <3>2, <4>1, <4>2, <4>3, StageByAccepter, StageByOthers DEF Next
    <3> QED
      BY <3>1, <3>2
  <2> QED
    BY <2>1, <2>2, <2>3 DEF HandshakeInv
<1> QED
  BY <1>1, <1>2, PTL DEF Spec

\* No controller with a slot comes to connectionDevice again: unical_cli would
\* find it there and free mutex_tcp twice.
THEOREM NeverTwice == Spec => []AcceptedOnce
<1>1. HandshakeInv => AcceptedOnce
  BY DEF HandshakeInv, AcceptedOnce, Acks, Types, Partner
<1> QED
  BY <1>1, AlwaysHandshake, PTL

\* When a controller with a slot is in its handler, nothing of the handshake is
\* left for either end to read, unless a packet was lost or a sweep stalled it.
THEOREM BeginsInStep == Spec => []StartsInStep
<1>1. HandshakeInv => StartsInStep
  <2> SUFFICES ASSUME HandshakeInv, NEW c \in registered, lc[c] = "in", ~Excused(c)
               PROVE  toLC[c] = <<>> /\ ~extra[c]
    BY DEF StartsInStep
  <2>1. c \in Controllers
    BY DEF HandshakeInv, Types, TypeOK
  <2> QED
    BY <2>1 DEF HandshakeInv, Stage, In, Unknown
<1> QED
  BY <1>1, AlwaysHandshake, PTL

\* Whoever takes himself for connected has a slot or is about to get it, or the
\* table was full; and there is no slot for a controller that has given up.
THEOREM BothEndsAgree == Spec => []SlotsAgree
<1>1. HandshakeInv => SlotsAgree
  BY DEF HandshakeInv, SlotsAgree, Stage, In, Connected, Unknown
<1> QED
  BY <1>1, AlwaysHandshake, PTL

----------------------------------------------------------------------------
\* Main closes only once the flag is set, and after disconnectAllTcp the table can
\* fill again by one controller only: the accepter takes no other once it has come
\* back to its poll.
Ends ==
  /\ main # "run" => shutdown_flag
  /\ main \notin {"run", "closing"} =>
       \/ registered = {}
       \/ acc \in {"poll", "done"} /\ \E d \in Controllers : registered = {d}

\* Every step keeps it so.
LEMMA EndsKept ==
  ASSUME Types, Ends, Next
  PROVE  Ends'
<1>1. ASSUME NEW c \in Controllers, Start(c) \/ Controller(c) \/ Interrupted(c) PROVE Ends'
  BY <1>1, Alone DEF Ends
<1>2. CASE Register
  BY <1>2 DEF Register, Back, Wait, Ends, outside, Types, Partner
<1>3. CASE Accepter /\ ~Register
  <2>1. UNCHANGED <<registered, main, shutdown_flag>>
    BY <1>3 DEF Accepter, TooLate, DiscardOther, TakeSyn, DiscardForeign, TakeAck, TakeMsg,
                AccepterEnds, table, outside
  <2>2. acc = "done" \/ (acc = "poll" /\ shutdown_flag) => acc' = "done"
    BY <1>3 DEF Accepter, TooLate, DiscardOther, TakeSyn, DiscardForeign, TakeAck, TakeMsg,
                AccepterEnds, Accepting, Types, TypeOK
  <2> QED
    BY <2>1, <2>2 DEF Ends
<1>4. CASE TimePasses
  BY <1>4 DEF TimePasses, Ends, table, outside
<1>5. CASE \E d \in Controllers : Disconnects(d)
  BY <1>5 DEF Disconnects, Ends, accepter, outside
<1>6. CASE Server \/ SweepBegins \/ Stray \/ Sigint \/ CloseBegins
  BY <1>6 DEF Server, SweepEnds, DisconnectAll, Cancel, SweepBegins, Stray, Sigint, CloseBegins, Ends,
              accepter, table
<1> QED
  BY <1>1, <1>2, <1>3, <1>4, <1>5, <1>6 DEF Next

\* When the server has stopped, at most one controller waits in its handler for a
\* server that will never tell it.
THEOREM OneLeftBehind == Spec => []AtMostOneLeftBehind
<1>1. Init => Ends
  BY DEF Init, Ends
<1>2. HandshakeInv /\ Ends /\ [Next]_vars => Ends'
  BY EndsKept DEF HandshakeInv, vars, Ends
<1>3. HandshakeInv /\ Ends => AtMostOneLeftBehind
  <2> DEFINE Left == {c \in Controllers \ refused : lc[c] = "in" /\ toLC[c] = <<>> /\ ~Excused(c)}
  <2> SUFFICES ASSUME HandshakeInv, Ends, acc = "done", main = "cancelled"
               PROVE  Cardinality(Left) <= 1
    BY DEF AtMostOneLeftBehind
  <2>1. Left \subseteq registered
    BY DEF HandshakeInv, Stage, In, Connected
  <2>2. registered = {} \/ \E d \in Controllers : registered = {d}
    BY DEF Ends
  <2>3. Left = {} \/ \E d \in Controllers : Left = {d}
    BY <2>1, <2>2
  <2> HIDE DEF Left
  <2>4. Cardinality({}) = 0 /\ \A d : Cardinality({d}) = 1
    BY FS_EmptySet, FS_Singleton
  <2> QED
    BY <2>3, <2>4, SMTT(60)
<1> QED
  BY <1>1, <1>2, <1>3, AlwaysHandshake, PTL DEF Spec

----------------------------------------------------------------------------
\* As many controllers as there are tries can start at once.

\* The accepter has picked the controller, or it has what it came for.
Through(c) == lc[c] \in {"msg", "in"} \/ (peer = c /\ acc = "ack")
Ahead(c) == {d \in Controllers \ {c} : Through(d)}

\* A stranger's packet is about to cost somebody a try, or is costing one.
Blocked == IF acc = "accept" \/ ~None(Stranger) THEN 1 ELSE 0

\* The accepter may still come to the SYN of the controller.
AtHand(c) == IF acc \notin {"ack", "recv"} /\ ~None(c) THEN 1 ELSE 0

\* Every try that came to nothing was spent on one that is through, or on a
\* packet of a stranger.
Patience(c) ==
  lc[c] = "syn" /\ ~Through(c) =>
    tries[c] <= Cardinality(Ahead(c)) + strays - Blocked + AtHand(c)

\* A stranger's packet comes when the queue is empty.
StrayFirst == \A i \in 1 .. Len(toAcc) : toAcc[i].from = Stranger => i = 1

\* A step that puts nobody back and leaves the controller its chance.
LEMMA PatienceKept ==
  ASSUME Types, Types', NEW c \in Controllers, Patience(c),
         lc'[c] = "syn" => lc[c] = "syn" /\ tries'[c] = tries[c],
         \A d \in Controllers : Through(d) => Through(d)',
         strays - Blocked + AtHand(c) <= strays' - Blocked' + AtHand(c)'
  PROVE  Patience(c)'
<1>1. Ahead(c) \in SUBSET Ahead(c)' /\ Ahead(c)' \in SUBSET Controllers
  BY DEF Ahead
<1>2. /\ Cardinality(Ahead(c)) <= Cardinality(Ahead(c)')
      /\ Cardinality(Ahead(c)) \in Nat /\ Cardinality(Ahead(c)') \in Nat
  BY <1>1, Slots, FS_Subset
<1>3. Blocked \in 0 .. 1 /\ Blocked' \in 0 .. 1 /\ AtHand(c) \in 0 .. 1 /\ AtHand(c)' \in 0 .. 1
  BY DEF Blocked, AtHand
<1>4. strays \in Nat /\ strays' \in Nat /\ tries[c] \in Nat /\ tries'[c] \in Nat
  BY DEF Types, TypeOK
<1> SUFFICES ASSUME lc'[c] = "syn", ~Through(c)'
             PROVE  tries'[c] <= Cardinality(Ahead(c)') + strays' - Blocked' + AtHand(c)'
  BY DEF Patience
<1>5. tries[c] <= Cardinality(Ahead(c)) + strays - Blocked + AtHand(c) /\ tries'[c] = tries[c]
  BY DEF Patience
<1> HIDE DEF Blocked, AtHand
<1> QED
  BY <1>2, <1>3, <1>4, <1>5

\* The queue as far as strangers are concerned.
LEMMA StrayTaken ==
  ASSUME Types, Types', StrayFirst, Arrived, Take
  PROVE  /\ None(Stranger)'
         /\ Packet.from # Stranger => None(Stranger)
         /\ Packet.from = Stranger => ~None(Stranger)
<1>1. /\ Len(toAcc') = Len(toAcc) - 1 /\ Len(toAcc) \in Nat \ {0}
      /\ \A i \in 1 .. Len(toAcc') : toAcc'[i] = toAcc[i + 1]
      /\ Packet = toAcc[1]
  BY Taken
<1>2. 1 \in 1 .. Len(toAcc) /\ \A i \in 1 .. Len(toAcc') : i + 1 \in 1 .. Len(toAcc) /\ i + 1 # 1
  BY <1>1
<1> QED
  BY <1>1, <1>2 DEF StrayFirst, None

\* As far as a controller is concerned.
LEMMA SameNone ==
  ASSUME Types, Types', NEW c \in Controllers, NEW k \in Nat, Same(c, k)
  PROVE  None(c)' <=> None(c)
<1>1. None(c)' => None(c)
  BY DEF Same, None
<1> QED
  BY <1>1, SameOrder

\* A step of the accepter keeps Patience while nothing has gone wrong.
LEMMA PatienceByAccepter ==
  ASSUME Types, Types', StrayFirst, \A d \in Controllers : Stage(d) /\ lc[d] \notin {"failed", "gone"},
         lost = 0, lost' = 0, ~shutdown_flag, main \in {"run", "closing"}, acc # "done", Blocked <= strays,
         NEW c \in Controllers, Patience(c), Accepter \/ TimePasses
  PROVE  Patience(c)' /\ Blocked' <= strays'
<1>1. lc' = lc /\ tries' = tries /\ strays' = strays /\ main' = main
  BY DEF Accepter, TooLate, DiscardOther, TakeSyn, DiscardForeign, TakeAck, TakeMsg, Register,
         AccepterEnds, TimePasses, controllers, outside
<1>2. ASSUME \A d \in Controllers : Through(d) => Through(d)',
             Blocked' - AtHand(c)' <= Blocked - AtHand(c), Blocked' <= Blocked
      PROVE  Patience(c)' /\ Blocked' <= strays'
  <2>1. strays \in Nat /\ Blocked \in 0 .. 1 /\ Blocked' \in 0 .. 1 /\ AtHand(c) \in 0 .. 1 /\ AtHand(c)' \in 0 .. 1
    BY DEF Types, TypeOK, Blocked, AtHand
  <2>2. strays - Blocked + AtHand(c) <= strays' - Blocked' + AtHand(c)' /\ Blocked' <= strays'
    BY <1>1, <1>2, <2>1
  <2> QED
    BY <1>1, <1>2, <2>2, PatienceKept
<1>3. \A d \in Controllers : peer = d /\ acc \in {"ack", "recv"} =>
        ~late /\ (acc = "recv" => lc[d] = "msg") /\ lc[d] \in {"syn", "msg"}
  BY InHandshake
<1>4. \A d \in Controllers : Arrived /\ Take /\ Packet.from = d =>
        \/ lc[d] = "syn" /\ Packet = Sent(d, "SYN") /\ ~Dealing(d)
        \/ lc[d] = "msg" /\ acc = "ack" /\ peer = d /\ Packet = Sent(d, "ACK")
        \/ lc[d] = "msg" /\ acc = "recv" /\ peer = d /\ Packet = Sent(d, "MSG")
  BY Whose DEF Waits
<1>5. Arrived /\ Take => /\ Packet \in Wire /\ Packet.from \in Senders
                         /\ None(Stranger)'
                         /\ Packet.from # Stranger => None(Stranger)
                         /\ Packet.from = Stranger => ~None(Stranger)
                         /\ Packet.flags = "SYN" => Packet.from \in Controllers
  BY Taken, StrayTaken DEF Wire
<1>6. Arrived /\ Take => /\ None(c) => None(c)'
                         /\ Packet.from # c => (None(c)' <=> None(c))
  BY KeptByStep, KeptOrder, SameByStep, SameNone
<1>7. UNCHANGED toAcc => (None(c)' <=> None(c)) /\ (None(Stranger)' <=> None(Stranger))
  BY DEF None
<1>8. /\ acc \in {"ack", "recv", "lock"} => peer \in Controllers
      /\ late => acc \in {"accept", "ack", "recv"}
      /\ Stranger \notin Controllers
  BY HandshakeAssumption DEF Types, TypeOK, Partner, Controllers
<1>9. \A d : Sent(d, "SYN").flags = "SYN" /\ Sent(d, "ACK").flags = "ACK" /\ Sent(d, "MSG").flags = "MSG"
  BY DEF Sent
<1>10. CASE TooLate
  <2>1. late /\ Arrived /\ Take
    BY <1>10 DEF TooLate
  <2>2. acc = "accept"
    BY <1>3, <1>8, <2>1
  <2>3. acc' = "poll"
    BY <1>10, <2>2 DEF TooLate, Back, Wait
  <2>4. Blocked = 1 /\ Blocked' = 0
    BY <1>5, <2>1, <2>2, <2>3 DEF Blocked
  <2>5. AtHand(c) \in 0 .. 1 /\ AtHand(c)' \in 0 .. 1
    BY DEF AtHand
  <2>6. \A d \in Controllers : Through(d) => Through(d)'
    BY <1>1, <2>2 DEF Through
  <2>7. Blocked' - AtHand(c)' <= Blocked - AtHand(c)
    BY <2>4, <2>5
  <2> QED
    BY <1>2, <2>4, <2>6, <2>7
<1>11. CASE DiscardOther
  <2>1. Arrived /\ Take /\ Packet.flags # "SYN" /\ acc \in {"accept", "poll"} /\ acc' = "accept"
    BY <1>11 DEF DiscardOther, Accepting, Wait
  <2>2. Packet.from = Stranger
    BY <1>4, <1>5, <1>9, <2>1 DEF Senders
  <2>3. Blocked = 1 /\ Blocked' = 1 /\ AtHand(c)' = AtHand(c)
    BY <1>5, <1>6, <1>8, <2>1, <2>2 DEF Blocked, AtHand
  <2>4. \A d \in Controllers : Through(d) => Through(d)'
    BY <1>1, <2>1 DEF Through
  <2>5. Blocked' - AtHand(c)' <= Blocked - AtHand(c)
    BY <2>3 DEF AtHand
  <2> QED
    BY <1>2, <2>3, <2>4, <2>5
<1>12. CASE TakeSyn
  <2>1. /\ Arrived /\ Take /\ Packet.flags = "SYN" /\ acc \in {"accept", "poll"} /\ acc' = "ack"
        /\ peer' = Packet.from
    BY <1>12 DEF TakeSyn, Accepting, Wait
  <2>2. PICK e \in Controllers : Packet.from = e
    BY <1>5, <2>1
  <2>3. lc[e] = "syn"
    BY <1>4, <2>1, <2>2
  <2>4. Through(e)' /\ ~Through(e)
    BY <2>1, <2>2, <2>3 DEF Through
  <2>5. \A d \in Controllers : Through(d) => Through(d)'
    BY <1>1, <2>1 DEF Through
  <2>6. Blocked' = 0 /\ Blocked \in 0 .. 1 /\ AtHand(c)' = 0 /\ AtHand(c) \in 0 .. 1 /\ strays \in Nat
    BY <1>5, <2>1 DEF Blocked, AtHand, Types, TypeOK
  <2>7. CASE e = c
    BY <1>1, <2>4, <2>6, <2>7 DEF Patience
  <2>8. CASE e # c
    <3>1. Ahead(c) \cup {e} \in SUBSET Ahead(c)' /\ e \notin Ahead(c) /\ Ahead(c) \in SUBSET Controllers
          /\ Ahead(c)' \in SUBSET Controllers
      BY <2>2, <2>4, <2>5, <2>8 DEF Ahead
    <3>2. Cardinality(Ahead(c) \cup {e}) = Cardinality(Ahead(c)) + 1
      BY <3>1, Slots, FS_AddElement
    <3>3. Cardinality(Ahead(c) \cup {e}) <= Cardinality(Ahead(c)')
      BY <3>1, Slots, FS_Subset
    <3>4. Cardinality(Ahead(c)) \in Nat /\ Cardinality(Ahead(c)') \in Nat /\ tries[c] \in Nat
      <4>1. tries[c] \in Nat
        BY DEF Types, TypeOK
      <4> QED
        BY <3>1, <4>1, Slots
    <3>5. Patience(c)'
      <4> SUFFICES ASSUME lc[c] = "syn", ~Through(c)'
                   PROVE  tries[c] <= Cardinality(Ahead(c)') + strays - Blocked' + AtHand(c)'
        BY <1>1 DEF Patience
      <4>1. tries[c] <= Cardinality(Ahead(c)) + strays - Blocked + AtHand(c)
        BY <2>5 DEF Patience
      <4> HIDE DEF Blocked, AtHand
      <4> QED
        BY <2>6, <3>2, <3>3, <3>4, <4>1
    <3> QED
      BY <1>1, <2>6, <3>5
  <2> QED
    BY <2>7, <2>8
<1>13. CASE DiscardForeign
  <2>1. Arrived /\ Take /\ acc \in {"ack", "recv"} /\ acc' = acc /\ peer' = peer
    BY <1>13 DEF DiscardForeign, accepter
  <2>2. Blocked' = 0 /\ Blocked \in 0 .. 1 /\ AtHand(c)' = 0 /\ AtHand(c) = 0
    BY <1>5, <2>1 DEF Blocked, AtHand
  <2>3. \A d \in Controllers : Through(d) => Through(d)'
    BY <1>1, <2>1 DEF Through
  <2>4. Blocked' - AtHand(c)' <= Blocked - AtHand(c) /\ Blocked' <= Blocked
    BY <2>2
  <2> QED
    BY <1>2, <2>3, <2>4
<1>14. CASE TakeAck
  <2>1. Arrived /\ Take /\ acc = "ack" /\ Packet.from = peer /\ peer \in Controllers
    BY <1>8, <1>14 DEF TakeAck
  <2>2. lc[peer] = "msg" /\ Packet.flags = "ACK"
    BY <1>4, <1>9, <2>1 DEF Dealing
  <2>3. acc' = "recv" /\ peer' = peer
    BY <1>14, <2>2 DEF TakeAck, Wait
  <2>4. Blocked' = 0 /\ Blocked \in 0 .. 1 /\ AtHand(c)' = 0 /\ AtHand(c) = 0
    BY <1>5, <2>1, <2>3 DEF Blocked, AtHand
  <2>5. \A d \in Controllers : Through(d) => Through(d)'
    BY <1>1, <2>2 DEF Through
  <2>6. Blocked' - AtHand(c)' <= Blocked - AtHand(c) /\ Blocked' <= Blocked
    BY <2>4
  <2> QED
    BY <1>2, <2>5, <2>6
<1>15. CASE TakeMsg
  <2>1. Arrived /\ Take /\ acc = "recv" /\ Packet.from = peer /\ peer \in Controllers
    BY <1>8, <1>15 DEF TakeMsg
  <2>2. Packet.flags = "MSG"
    BY <1>4, <1>9, <2>1 DEF Dealing
  <2>3. acc' = "lock"
    BY <1>15, <2>2 DEF TakeMsg, Wait
  <2>4. Blocked' = 0 /\ Blocked \in 0 .. 1 /\ AtHand(c)' \in 0 .. 1 /\ AtHand(c) = 0
    BY <1>5, <2>1, <2>3 DEF Blocked, AtHand
  <2>5. \A d \in Controllers : Through(d) => Through(d)'
    BY <1>1, <2>1 DEF Through
  <2>6. Blocked' - AtHand(c)' <= Blocked - AtHand(c) /\ Blocked' <= Blocked
    BY <2>4
  <2> QED
    BY <1>2, <2>5, <2>6
<1>16. CASE Register
  <2>1. acc = "lock" /\ acc' = "poll" /\ toAcc' = toAcc
    BY <1>16 DEF Register, Wait, Back, toServer
  <2>2. Blocked' = Blocked /\ AtHand(c)' = AtHand(c) /\ Blocked \in 0 .. 1 /\ AtHand(c) \in 0 .. 1
    BY <1>7, <2>1 DEF Blocked, AtHand
  <2>3. \A d \in Controllers : Through(d) => Through(d)'
    BY <1>1, <2>1 DEF Through
  <2>4. Blocked' - AtHand(c)' <= Blocked - AtHand(c) /\ Blocked' <= Blocked
    BY <2>2
  <2> QED
    BY <1>2, <2>3, <2>4
<1>17. CASE AccepterEnds
  BY <1>17 DEF AccepterEnds
<1>18. CASE TimePasses
  <2>1. UNCHANGED <<toAcc, acc, peer>>
    BY <1>18 DEF TimePasses, toServer
  <2>2. Blocked' = Blocked /\ AtHand(c)' = AtHand(c) /\ Blocked \in 0 .. 1 /\ AtHand(c) \in 0 .. 1
    BY <1>7, <2>1 DEF Blocked, AtHand
  <2>3. \A d \in Controllers : Through(d) => Through(d)'
    BY <1>1, <2>1 DEF Through
  <2>4. Blocked' - AtHand(c)' <= Blocked - AtHand(c) /\ Blocked' <= Blocked
    BY <2>2
  <2> QED
    BY <1>2, <2>3, <2>4
<1> QED
  BY <1>10, <1>11, <1>12, <1>13, <1>14, <1>15, <1>16, <1>17, <1>18 DEF Accepter

\* Nothing has gone wrong, and not more have started than there are tries.
Calm == /\ Cardinality(Started) + strays <= TRIES /\ lost = 0 /\ interrupts = 0
        /\ stalled = {} /\ ~shutdown_flag

\* Whose tries are counted can always start one more try.
LEMMA Outnumbered ==
  ASSUME Types, NEW c \in Controllers, lc[c] = "syn", ~Through(c), Patience(c), None(c),
         Blocked <= strays, Cardinality(Started) + strays <= TRIES,
         \A d \in Controllers : Through(d) => lc[d] # "off"
  PROVE  tries[c] < TRIES
<1>1. Ahead(c) \cup {c} \in SUBSET Started /\ Ahead(c) \in SUBSET Controllers
      /\ c \notin Ahead(c) /\ Started \in SUBSET Controllers
  BY DEF Ahead, Started
<1>2. Cardinality(Ahead(c) \cup {c}) = Cardinality(Ahead(c)) + 1
  BY <1>1, Slots, FS_AddElement
<1>3. Cardinality(Ahead(c) \cup {c}) <= Cardinality(Started)
  BY <1>1, Slots, FS_Subset
<1>4. Cardinality(Ahead(c)) \in Nat /\ Cardinality(Started) \in Nat
  BY <1>1, Slots
<1>5. tries[c] \in Nat /\ strays \in Nat /\ Blocked \in 0 .. 1 /\ AtHand(c) = 0 /\ TRIES \in Nat
  BY HandshakeAssumption DEF Types, TypeOK, Blocked, AtHand
<1>6. tries[c] <= Cardinality(Ahead(c)) + strays - Blocked + AtHand(c)
  BY DEF Patience
<1> HIDE DEF Blocked, AtHand
<1> QED
  BY <1>2, <1>3, <1>4, <1>5, <1>6

\* What c sends leaves the packets of strangers and of the others alone.
LEMMA OthersPackets ==
  ASSUME Types, Types', NEW c \in Controllers, NEW F, Grown(c, F)
  PROVE  /\ None(Stranger)' <=> None(Stranger)
         /\ \A d \in Controllers \ {c} : None(d)' <=> None(d)
         /\ StrayFirst => StrayFirst'
<1>1. Len(toAcc) \in Nat /\ Len(toAcc') \in Nat /\ Len(toAcc) <= Len(toAcc')
  BY LenProperties DEF Types, TypeOK, Grown
<1>2. c # Stranger /\ Stranger \notin Controllers
  BY HandshakeAssumption DEF Controllers
<1>3. \A i \in 1 .. Len(toAcc') : i \in 1 .. Len(toAcc) \/ i \in Len(toAcc) + 1 .. Len(toAcc')
  BY <1>1
<1>4. \A i \in Len(toAcc) + 1 .. Len(toAcc') : toAcc'[i].from = c
  BY DEF Grown, Sent
<1>5. \A i \in 1 .. Len(toAcc) : i \in 1 .. Len(toAcc') /\ toAcc'[i] = toAcc[i]
  BY <1>1 DEF Grown
<1>6. \A e : e # c => (None(e)' <=> None(e))
  BY <1>3, <1>4, <1>5 DEF None
<1>7. StrayFirst => StrayFirst'
  BY <1>2, <1>3, <1>4, <1>5 DEF StrayFirst
<1> QED
  BY <1>2, <1>6, <1>7

\* A step of a controller keeps Patience while nothing has gone wrong.
LEMMA PatienceByController ==
  ASSUME Types, Types', \A d \in Controllers : Stage(d) /\ lc[d] \notin {"failed", "gone"},
         \A d \in Controllers : Patience(d), Calm, Calm', main \in {"run", "closing"}, acc # "done",
         Blocked <= strays,
         NEW c \in Controllers, Start(c) \/ Controller(c) \/ Interrupted(c)
  PROVE  /\ \A d \in Controllers : Patience(d)' /\ lc'[d] \notin {"failed", "gone"}
         /\ Blocked' <= strays'
<1>1. /\ UNCHANGED <<acc, peer, strays, main>>
      /\ \A d \in Controllers \ {c} : lc'[d] = lc[d] /\ tries'[d] = tries[d]
  BY Alone
<1>2. PICK F \in SUBSET Flags : Grown(c, F)
  BY Speaks DEF Flags
<1>3. /\ None(Stranger)' <=> None(Stranger)
      /\ \A d \in Controllers \ {c} : None(d)' <=> None(d)
  BY <1>2, OthersPackets
<1>4. /\ Blocked' = Blocked /\ Blocked \in 0 .. 1 /\ strays \in Nat
      /\ \A d \in Controllers \ {c} : AtHand(d)' = AtHand(d) /\ AtHand(d) \in 0 .. 1
  <2>1. Blocked' = Blocked /\ Blocked \in 0 .. 1
    BY <1>1, <1>3 DEF Blocked
  <2>2. \A d \in Controllers \ {c} : AtHand(d)' = AtHand(d) /\ AtHand(d) \in 0 .. 1
    BY <1>1, <1>3 DEF AtHand
  <2>3. strays \in Nat
    BY DEF Types, TypeOK
  <2> QED
    BY <2>1, <2>2, <2>3
<1>5. lc \in [Controllers -> {"off", "syn", "msg", "in", "failed", "gone"}]
  BY DEF Types, TypeOK
<1>6. \A d \in Controllers : peer = d /\ acc \in {"ack", "recv"} =>
        /\ acc = "recv" => lc[d] = "msg"
        /\ lc[d] \in {"syn", "msg"}
        /\ toLC[d] # <<>> \/ ~None(d)
  <2> SUFFICES ASSUME NEW d \in Controllers, peer = d, acc \in {"ack", "recv"}
               PROVE  /\ acc = "recv" => lc[d] = "msg"
                      /\ lc[d] \in {"syn", "msg"}
                      /\ toLC[d] # <<>> \/ ~None(d)
    OBVIOUS
  <2>1. \/ lc[d] = "syn" /\ acc = "ack" /\ toLC[d] = <<"SYN|ACK">> /\ None(d)
        \/ lc[d] = "msg" /\ toLC[d] = <<>> /\ acc = "ack" /\ Pair(d)
        \/ lc[d] = "msg" /\ toLC[d] = <<>> /\ acc = "recv" /\ Single(d, "MSG")
    BY InHandshake
  <2>2. Pair(d) \/ Single(d, "MSG") => ~None(d)
    BY DEF Pair, Single, None, Sent
  <2> QED
    BY <2>1, <2>2
<1>7. \A d \in Controllers : Through(d) => lc[d] # "off"
  BY <1>6 DEF Through
<1>8. ASSUME lc'[c] \notin {"failed", "gone"}, Through(c) => Through(c)', Patience(c)'
      PROVE  /\ \A d \in Controllers : Patience(d)' /\ lc'[d] \notin {"failed", "gone"}
             /\ Blocked' <= strays'
  <2>1. \A d \in Controllers : Through(d) => Through(d)'
    BY <1>1, <1>8 DEF Through
  <2>2. ASSUME NEW d \in Controllers \ {c} PROVE Patience(d)'
    <3>1. strays - Blocked + AtHand(d) <= strays' - Blocked' + AtHand(d)'
      BY <1>1, <1>4
    <3> QED
      BY <1>1, <2>1, <3>1, PatienceKept
  <2> QED
    BY <1>1, <1>4, <1>8, <2>2
<1>9. lost' = lost /\ lost = 0 /\ stalled' = {} /\ interrupts' = interrupts
  BY DEF Calm
<1>10. ToServer(c, <<"SYN">>) /\ None(c) => ~None(c)'
  <2> SUFFICES ASSUME ToServer(c, <<"SYN">>), None(c) PROVE ~None(c)'
    OBVIOUS
  <2>1. "SYN" \in Flags
    BY DEF Flags
  <2>2. Grown(c, {"SYN"}) /\ Len(toAcc') = Len(toAcc) + 1
    BY <1>9, <2>1, SendsOne
  <2>3. Single(c, "SYN")'
    BY <2>1, <2>2, MineSent
  <2> QED
    BY <2>3 DEF Single, None, Sent
<1>11. Ahead(c)' \in SUBSET Controllers /\ Cardinality(Ahead(c)') \in Nat
  <2>1. Ahead(c)' \in SUBSET Controllers
    BY DEF Ahead
  <2> QED
    BY <2>1, Slots
<1>12. acc \in {"ack", "recv"} => peer \in Controllers
  BY DEF Types, Partner
<1>13. CASE Start(c)
  <2>1. /\ lc[c] = "off" /\ lc'[c] = "syn" /\ tries'[c] = 1 /\ ToServer(c, <<"SYN">>)
        /\ None(c)
    BY <1>5, <1>13 DEF Start, Stage, Unknown, Types, TypeOK
  <2>2. CASE acc \in {"ack", "recv"}
    <3>1. peer \in Controllers \ {c} /\ Through(peer)
      BY <1>6, <1>12, <2>1, <2>2 DEF Through
    <3>2. peer \in Ahead(c)'
      BY <1>1, <3>1 DEF Ahead, Through
    <3>3. Cardinality(Ahead(c)') # 0
      BY <1>11, <3>2, Slots, FS_EmptySet
    <3>4. AtHand(c)' = 0
      BY <1>1, <2>2 DEF AtHand
    <3>5. 1 <= Cardinality(Ahead(c)') + strays' - Blocked' + AtHand(c)'
      BY <1>1, <1>4, <1>11, <3>3, <3>4
    <3> QED
      BY <1>7, <1>8, <2>1, <3>5 DEF Patience
  <2>3. CASE acc \notin {"ack", "recv"}
    <3>1. AtHand(c)' = 1
      BY <1>1, <1>10, <2>1, <2>3 DEF AtHand
    <3>2. 1 <= Cardinality(Ahead(c)') + strays' - Blocked' + AtHand(c)'
      BY <1>1, <1>4, <1>11, <3>1
    <3> QED
      BY <1>7, <1>8, <2>1, <3>2 DEF Patience
  <2> QED
    BY <2>2, <2>3
<1>14. CASE SynAnswered(c)
  <2>1. lc[c] = "syn" /\ toLC[c] # <<>>
    BY <1>14 DEF SynAnswered
  <2>2. toLC[c] = <<"SYN|ACK">>
    BY <2>1 DEF Stage, Syn
  <2>3. Head(toLC[c]) = "SYN|ACK"
    BY <2>2
  <2>4. lc'[c] = "msg"
    BY <1>5, <1>14, <2>3 DEF SynAnswered
  <2>5. Through(c)' /\ Patience(c)'
    BY <2>4 DEF Through, Patience
  <2> QED
    BY <1>8, <2>4, <2>5
<1>15. CASE MsgAnswered(c)
  <2>1. lc'[c] = "in"
    BY <1>5, <1>15 DEF MsgAnswered
  <2>2. Through(c)' /\ Patience(c)'
    BY <2>1 DEF Through, Patience
  <2> QED
    BY <1>8, <2>1, <2>2
<1>16. CASE Resend(c)
  <2>1. ~Stuck
    BY <1>9, <1>16 DEF Resend
  <2>2. toAcc = <<>> /\ (\A d \in Controllers : toLC[d] = <<>>) /\ lc[c] \in {"syn", "msg"}
    BY <1>16, <2>1 DEF Resend, Settled
  <2>3. \A d \in Controllers : None(d) /\ ~Pair(d) /\ ~Single(d, "MSG")
    <3>1. Len(toAcc) = 0
      BY <2>2
    <3> QED
      BY <3>1 DEF None, Pair, Single
  <2>4. acc \notin {"ack", "recv"}
    BY <1>6, <1>12, <2>2, <2>3
  <2>5. lc[c] = "syn"
    <3>1. CASE lc[c] = "msg"
      <4>1. Msg(c)
        BY <3>1 DEF Stage
      <4>2. toLC[c] = <<>>
        BY <2>2
      <4>3. toLC[c] # <<"PSH|ACK">> /\ toLC[c] # <<"PSH|ACK", "FIN">>
        BY <4>2
      <4> QED
        BY <2>3, <4>1, <4>3 DEF Msg
    <3> QED
      BY <2>2, <3>1
  <2>6. ~Through(c)
    BY <2>4, <2>5 DEF Through
  <2>7. tries[c] < TRIES
    BY <1>4, <1>7, <2>3, <2>5, <2>6, Outnumbered DEF Calm
  <2>8. tries'[c] = tries[c] + 1 /\ lc' = lc /\ ToServer(c, <<"SYN">>)
    BY <1>16, <2>5, <2>7 DEF Resend, Types, TypeOK
  <2>9. AtHand(c)' = 1 /\ AtHand(c) = 0
    BY <1>1, <1>10, <2>3, <2>4, <2>8 DEF AtHand
  <2>10. Ahead(c)' = Ahead(c)
    BY <1>1, <2>8 DEF Ahead, Through
  <2>11. tries[c] <= Cardinality(Ahead(c)) + strays - Blocked + AtHand(c) /\ tries[c] \in Nat
    BY <2>5, <2>6 DEF Patience, Types, TypeOK
  <2>12. tries'[c] <= Cardinality(Ahead(c)') + strays' - Blocked' + AtHand(c)'
    BY <1>1, <1>4, <1>11, <2>8, <2>9, <2>10, <2>11
  <2> QED
    BY <1>8, <2>5, <2>6, <2>8, <2>12 DEF Patience
<1>17. CASE Told(c) \/ Misled(c)
  <2>1. lc[c] = "in" /\ toLC[c] # <<>>
    BY <1>17 DEF Told, Misled
  <2> QED
    BY <2>1 DEF Stage, In
<1>18. CASE Interrupted(c)
  BY <1>9, <1>18 DEF Interrupted, Types, TypeOK
<1> QED
  BY <1>13, <1>14, <1>15, <1>16, <1>17, <1>18 DEF Controller

\* Once started a controller has started, and what has gone wrong stays wrong.
LEMMA CalmBefore ==
  ASSUME Types, Types', Next, Calm'
  PROVE  Calm
<1>1. Started \subseteq Started'
  <2>1. ASSUME NEW d \in Controllers, lc'[d] = "off" PROVE lc[d] = "off"
    <3>1. ASSUME NEW c \in Controllers, Start(c) \/ Controller(c) \/ Interrupted(c) PROVE lc[d] = "off"
      <4>1. CASE c = d
        <5>1. lc'[c] # "off"
          BY <3>1 DEF Start, Controller, Interrupted, SynAnswered, MsgAnswered, Resend, Told, Misled,
                      Exit, Fail, Types, TypeOK
        <5> QED
          BY <2>1, <4>1, <5>1
      <4>2. CASE c # d
        BY <2>1, <3>1, <4>2, Alone
      <4> QED
        BY <4>1, <4>2
    <3>2. CASE ~\E c \in Controllers : Start(c) \/ Controller(c) \/ Interrupted(c)
      <4>1. lc' = lc
        BY <3>2 DEF Next, Accepter, TooLate, DiscardOther, TakeSyn, DiscardForeign, TakeAck, TakeMsg,
                    Register, AccepterEnds, TimePasses, Disconnects, Server, SweepEnds, DisconnectAll,
                    Cancel, SweepBegins, Stray, Sigint, CloseBegins, controllers
      <4> QED
        BY <2>1, <4>1
    <3> QED
      BY <3>1, <3>2
  <2> QED
    BY <2>1 DEF Started
<1>2. Cardinality(Started) <= Cardinality(Started')
  <2>1. Started \in SUBSET Started' /\ Started' \in SUBSET Controllers
    BY <1>1 DEF Started
  <2> QED
    BY <2>1, Slots, FS_Subset
<1>3. Cardinality(Started) \in Nat /\ Cardinality(Started') \in Nat
  <2>1. Started \in SUBSET Controllers /\ Started' \in SUBSET Controllers
    BY DEF Started
  <2> QED
    BY <2>1, Slots
<1>4. /\ lost' \in {lost, lost + 1} /\ stalled \subseteq stalled'
      /\ interrupts <= interrupts' /\ strays <= strays' /\ (shutdown_flag => shutdown_flag')
  BY Monotone
<1>5. /\ lost \in Nat /\ interrupts \in Nat /\ strays \in Nat
      /\ lost' \in Nat /\ interrupts' \in Nat /\ strays' \in Nat /\ TRIES \in Nat
  BY HandshakeAssumption DEF Types, TypeOK
<1>6. lost = 0 /\ interrupts = 0 /\ stalled = {} /\ ~shutdown_flag
  BY <1>4, <1>5 DEF Calm
<1>7. Cardinality(Started) + strays <= TRIES
  BY <1>2, <1>3, <1>4, <1>5 DEF Calm
<1> QED
  BY <1>6, <1>7 DEF Calm

\* What holds beside Patience.
Orderly == (acc = "done" => shutdown_flag) /\ StrayFirst

\* Every step keeps it.
LEMMA OrderlyKept ==
  ASSUME Types, Types', Ends, Orderly, Next
  PROVE  Orderly'
<1>1. ASSUME NEW c \in Controllers, Start(c) \/ Controller(c) \/ Interrupted(c) PROVE Orderly'
  <2>1. PICK F \in SUBSET Flags : Grown(c, F)
    BY <1>1, Speaks DEF Flags
  <2>2. UNCHANGED <<acc, shutdown_flag>>
    BY <1>1, Alone
  <2> QED
    BY <2>1, <2>2, OthersPackets DEF Orderly
<1>2. UNCHANGED toAcc => StrayFirst'
  BY DEF Orderly, StrayFirst
<1>3. Arrived /\ Take => StrayFirst'
  <2>1. Arrived /\ Take => None(Stranger)'
    BY StrayTaken DEF Orderly
  <2> QED
    BY <2>1 DEF None, StrayFirst
<1>4. toAcc' = <<>> => StrayFirst'
  <2>1. Len(<<>>) = 0
    OBVIOUS
  <2> QED
    BY <2>1 DEF StrayFirst
<1>5. CASE Accepter \/ TimePasses
  <2>1. StrayFirst'
    BY <1>2, <1>3, <1>4, <1>5
       DEF Accepter, TooLate, DiscardOther, TakeSyn, DiscardForeign, TakeAck, TakeMsg, Register,
           AccepterEnds, TimePasses, toServer
  <2>2. acc' = "done" => shutdown_flag'
    <3>1. CASE AccepterEnds
      BY <3>1 DEF AccepterEnds, Ends, outside
    <3>2. CASE ~AccepterEnds
      BY <1>5, <3>2 DEF Accepter, TooLate, DiscardOther, TakeSyn, DiscardForeign, TakeAck, TakeMsg,
                        Register, TimePasses, Back, Wait, accepter, outside, Orderly, Types, TypeOK
    <3> QED
      BY <3>1, <3>2
  <2> QED
    BY <2>1, <2>2 DEF Orderly
<1>6. CASE Stray
  <2>1. toAcc' = <<Sent(Stranger, "ACK")>>
    BY <1>6 DEF Stray, Sent
  <2>2. Len(toAcc') = 1
    BY <2>1
  <2> QED
    BY <1>6, <2>2 DEF Orderly, StrayFirst, Stray, accepter
<1>7. CASE (\E d \in Controllers : Disconnects(d)) \/ Server \/ SweepBegins \/ Sigint \/ CloseBegins
  <2>1. UNCHANGED <<toAcc, acc>> /\ (shutdown_flag => shutdown_flag')
    BY <1>7 DEF Disconnects, Server, SweepEnds, DisconnectAll, Cancel, SweepBegins, Sigint, CloseBegins,
                toServer, accepter, outside
  <2> QED
    BY <1>2, <2>1 DEF Orderly
<1> QED
  BY <1>1, <1>5, <1>6, <1>7 DEF Next

\* While nothing has gone wrong nobody has failed, and everybody has tries left.
NobodyFails ==
  Calm => \A c \in Controllers :
            Blocked <= strays /\ lc[c] \notin {"failed", "gone"} /\ Patience(c)

\* Every step keeps it so.
LEMMA NobodyFailsKept ==
  ASSUME HandshakeInv, HandshakeInv', Ends, Orderly, NobodyFails, Next
  PROVE  NobodyFails'
<1> SUFFICES ASSUME Calm', NEW c \in Controllers
             PROVE  Blocked' <= strays' /\ lc'[c] \notin {"failed", "gone"} /\ Patience(c)'
  BY DEF NobodyFails
<1>1. Types /\ Types'
  BY DEF HandshakeInv
<1>2. Calm
  BY <1>1, CalmBefore
<1>3. /\ Blocked <= strays
      /\ \A d \in Controllers : lc[d] \notin {"failed", "gone"} /\ Patience(d)
  BY <1>2 DEF NobodyFails
<1>4. \A d \in Controllers : Stage(d)
  BY <1>2 DEF HandshakeInv, Excused, Calm
<1>5. main \in {"run", "closing"} /\ acc # "done" /\ lost = 0 /\ lost' = 0 /\ ~shutdown_flag /\ ~shutdown_flag'
  BY <1>2 DEF Ends, Orderly, Calm
<1>6. ASSUME NEW d \in Controllers, Start(d) \/ Controller(d) \/ Interrupted(d)
      PROVE  Blocked' <= strays' /\ lc'[c] \notin {"failed", "gone"} /\ Patience(c)'
  BY <1>1, <1>2, <1>3, <1>4, <1>5, <1>6, PatienceByController
<1>7. CASE Accepter \/ TimePasses
  <2>1. lc' = lc
    BY <1>7 DEF Accepter, TooLate, DiscardOther, TakeSyn, DiscardForeign, TakeAck, TakeMsg, Register,
                AccepterEnds, TimePasses, controllers
  <2>2. Patience(c)' /\ Blocked' <= strays'
    BY <1>1, <1>3, <1>4, <1>5, <1>7, PatienceByAccepter DEF Orderly
  <2> QED
    BY <1>3, <2>1, <2>2
<1>8. CASE \/ \E d \in Controllers : Disconnects(d)
           \/ Server \/ SweepBegins \/ Stray \/ Sigint \/ CloseBegins
  <2>1. UNCHANGED <<lc, tries, acc, peer>>
    BY <1>8 DEF Disconnects, Server, SweepEnds, DisconnectAll, Cancel, SweepBegins, Stray, Sigint, CloseBegins,
                controllers, accepter
  <2>2. \A d \in Controllers : Through(d) => Through(d)'
    BY <2>1 DEF Through
  <2>3. /\ Blocked \in 0 .. 1 /\ Blocked' \in 0 .. 1 /\ AtHand(c) \in 0 .. 1 /\ AtHand(c)' \in 0 .. 1
        /\ strays \in Nat
    <3>1. strays \in Nat
      BY <1>1 DEF Types, TypeOK
    <3> QED
      BY <3>1 DEF Blocked, AtHand
  <2>4. strays - Blocked + AtHand(c) <= strays' - Blocked' + AtHand(c)' /\ Blocked' <= strays'
    <3>1. CASE Stray
      <4>1. strays' = strays + 1 /\ toAcc = <<>>
        BY <3>1 DEF Stray
      <4>2. Len(toAcc) = 0
        BY <4>1
      <4>3. AtHand(c) = 0
        BY <4>2 DEF AtHand, None
      <4> QED
        BY <1>3, <2>3, <4>1, <4>3
    <3>2. CASE ~Stray
      <4>1. UNCHANGED <<toAcc, strays>>
        BY <1>8, <3>2 DEF Disconnects, Server, SweepEnds, DisconnectAll, Cancel, SweepBegins, Sigint, CloseBegins,
                          toServer, outside
      <4>2. Blocked' = Blocked /\ AtHand(c)' = AtHand(c)
        BY <2>1, <4>1 DEF Blocked, AtHand, None
      <4> QED
        BY <1>3, <2>3, <4>1, <4>2
    <3> QED
      BY <3>1, <3>2
  <2>5. Patience(c)'
    BY <1>1, <1>3, <2>1, <2>2, <2>4, PatienceKept
  <2> QED
    BY <1>3, <2>1, <2>4, <2>5
<1> QED
  BY <1>6, <1>7, <1>8 DEF Next

\* As many controllers as there are tries can start at once, in any order and with
\* strangers' packets in the place of some of them, and all get through, unless a
\* packet is lost, a sweep stalls one, one is stopped halfway or the server stops.
THEOREM AllGetThrough == Spec => []AllConnect
<1> DEFINE Inv == Ends /\ Orderly /\ NobodyFails
<1>1. Init => Inv
  <2> SUFFICES ASSUME Init PROVE Inv
    OBVIOUS
  <2>1. Len(<<>>) = 0
    OBVIOUS
  <2>2. Ends /\ Orderly
    BY <2>1 DEF Init, Ends, Orderly, StrayFirst
  <2>3. Blocked = 0
    BY <2>1 DEF Init, Blocked, None
  <2>4. NobodyFails
    BY <2>3 DEF Init, NobodyFails, Patience
  <2> QED
    BY <2>2, <2>4
<1>2. HandshakeInv /\ HandshakeInv' /\ Inv /\ [Next]_vars => Inv'
  <2> SUFFICES ASSUME HandshakeInv, HandshakeInv', Inv, [Next]_vars PROVE Inv'
    OBVIOUS
  <2>1. CASE Next
    BY <2>1, EndsKept, OrderlyKept, NobodyFailsKept DEF HandshakeInv
  <2>2. CASE UNCHANGED vars
    <3>1. Ends' /\ Orderly'
      BY <2>2 DEF vars, Ends, Orderly, StrayFirst
    <3>2. NobodyFails'
      BY <2>2 DEF vars, NobodyFails, Calm, Started, Blocked, Patience, Through, Ahead, AtHand, None
    <3> QED
      BY <3>1, <3>2
  <2> QED
    BY <2>1, <2>2
<1>3. HandshakeInv /\ Inv => AllConnect
  <2> SUFFICES ASSUME HandshakeInv, Inv, Cardinality(Started) + strays <= TRIES,
                      ~(lost + interrupts > 0), stalled = {}, ~shutdown_flag
               PROVE  Failed = {}
    BY DEF AllConnect
  <2>1. lost \in Nat /\ interrupts \in Nat
    BY DEF HandshakeInv, Types, TypeOK
  <2>2. Calm
    BY <2>1 DEF Calm
  <2> QED
    BY <2>2 DEF NobodyFails, Failed
<1> QED
  BY <1>1, <1>2, <1>3, AlwaysHandshake, PTL DEF Spec
=============================================================================
