--------------------------- MODULE MessagesProofs ---------------------------
(***************************************************************************)
(* Proofs about the parser of Json, and of the properties of Messages and  *)
(* Discovery.  Where the program recurses, a proof takes the least number  *)
(* of a set, the last place of a text at which a claim fails.              *)
(***************************************************************************)
EXTENDS Discovery, CodecProofs, FiniteSetTheorems, WellFoundedInduction, TLAPS

\* The least number of a set, which stands for induction below.
LEMMA Least ==
  ASSUME NEW T \in SUBSET Nat, T # {}
  PROVE  \E x \in T : \A y \in T : x <= y
<1> DEFINE R == OpToRel(<, Nat)
<1>1. IsWellFoundedOn(R, Nat)
  BY NatLessThanWellFounded, Zenon
<1>2. \A p \in Nat, q \in Nat : p < q => <<p, q>> \in R
  BY DEF OpToRel
<1> HIDE DEF R
<1>3. PICK x \in T : \A y \in T : ~(<<y, x>> \in R)
  BY <1>1, WFMin
<1>4. \A y \in T : y \in Nat /\ x \in Nat /\ ~(y < x)
  BY <1>2, <1>3
<1> QED
  BY <1>4

\* Where the text ends no lexeme is.
LEMMA PastTheEnd ==
  ASSUME NEW L, NEW src \in Seq(L)
  PROVE  /\ Len(src) \in Nat
         /\ \A i \in Int : i > Len(src) => TypeAt(src, i) = "?"
<1>1. Len(src) \in Nat /\ DOMAIN src = 1 .. Len(src)
  BY LenProperties
<1> QED
  BY <1>1, SMT DEF TypeAt

\* A blank at place i.
BlankAt(src, i) == TypeAt(src, i) = " "

\* SkipBlanks finds the first place from i on that is not blank.
LEMMA SkipsBlanks ==
  ASSUME NEW L, NEW src \in Seq(L), NEW i \in 1 .. (Len(src) + 1)
  PROVE  /\ SkipBlanks(src, i) \in i .. (Len(src) + 1)
         /\ ~BlankAt(src, SkipBlanks(src, i))
         /\ \A b \in i .. (SkipBlanks(src, i) - 1) : BlankAt(src, b)
<1> DEFINE n == Len(src) + 1
           Blank(j) == BlankAt(src, j)
           T == {j \in i .. n : ~Blank(j)}
           First(j) == ~Blank(j) /\ \A b \in i .. (j - 1) : Blank(b)
<1>1. n \in Nat /\ i \in Nat /\ i <= n /\ i >= 1
  BY PastTheEnd
<1>2. TypeAt(src, n) = "?"
  BY PastTheEnd
<1>3. ~Blank(n)
  BY <1>2 DEF BlankAt
<1>4. SkipBlanks(src, i) = CHOOSE j \in i .. n : First(j)
  BY DEF SkipBlanks, BlankAt
<1> HIDE DEF n, Blank
<1>5. T \in SUBSET Nat /\ n \in T
  BY <1>1, <1>3
<1>6. PICK x \in T : \A y \in T : x <= y
  BY <1>5, Least
<1>7. x \in i .. n /\ ~Blank(x)
  BY <1>6
<1>8. ASSUME NEW b \in i .. (x - 1) PROVE Blank(b)
  <2>1. b \in i .. n /\ ~(x <= b)
    BY <1>1, <1>7
  <2> QED
    BY <1>6, <2>1
<1>9. First(x)
  BY <1>7, <1>8
<1> HIDE DEF First, T
<1>10. SkipBlanks(src, i) \in i .. n /\ First(SkipBlanks(src, i))
  BY <1>4, <1>7, <1>9
<1> QED
  BY <1>10 DEF First, Blank, n

\* A type of token_t that getToken leaves, and the end of what it read: in the
\* text, from place i on.
Within(t, src, i) ==
    /\ t \in [type : TokenTypes, first : Nat, last : Nat, err : BOOLEAN]
    /\ ~t.err => /\ t.first \in i .. Len(src)
                 /\ t.last \in t.first .. Len(src)

\* rest is what getArrayToken computes at the places after k.
EndsWithin(rest, src, unset, k) ==
    \A c \in Places(src) : c.at > k => Within(rest[c], src, c.at)

\* A token is within the text when the arrays after its place end in it, and
\* it does not depend on other places.
LEMMA TokenWithin ==
  ASSUME NEW L, NEW src \in Seq(L), NEW unset \in TokenTypes,
         NEW i \in 1 .. (Len(src) + 1), NEW old \in TokenTypes,
         NEW f, EndsWithin(f, src, unset, i)
  PROVE  /\ Within(ReadToken(src, unset, i, old, f), src, i)
         /\ \A g : (\A c \in Places(src) : c.at > i => g[c] = f[c]) =>
              ReadToken(src, unset, i, old, g) = ReadToken(src, unset, i, old, f)
<1> DEFINE s == SkipBlanks(src, i)
           t == TypeAt(src, s)
           c0 == [due |-> Values, at |-> s + 1, old |-> unset]
           array(h) == IF TypeAt(src, s + 1) = "]"
                       THEN TokenOf("ARRAY", s, s + 1, FALSE) ELSE h[c0]
           Read(h) == CASE t \in Single -> TokenOf(t, s, s, FALSE)
                        [] t \in Unread -> TokenOf(UnreadType(t, old), s, s, FALSE)
                        [] t = "[" /\ ~array(h).err ->
                               TokenOf("ARRAY", s, array(h).last, FALSE)
                        [] OTHER -> TokenOf(old, s, s, TRUE)
<1>1. \A h : ReadToken(src, unset, i, old, h) = Read(h)
  BY DEF ReadToken
<1>2. Len(src) \in Nat /\ i \in Nat /\ i >= 1 /\ i <= Len(src) + 1
  BY PastTheEnd
<1>3. s \in i .. (Len(src) + 1) /\ s \in Nat
  <2>1. s \in i .. (Len(src) + 1)
    BY SkipsBlanks
  <2> HIDE DEF s
  <2> QED
    BY <1>2, <2>1
<1>4. \A j \in Int : j > Len(src) => TypeAt(src, j) = "?"
  BY PastTheEnd
<1>5. t # "?" => s \in i .. Len(src)
  BY <1>2, <1>3, <1>4
<1> DEFINE u == TypeAt(src, s + 1)
<1>6. u # "?" => s + 1 \in i .. Len(src)
  BY <1>2, <1>3, <1>4
<1> HIDE DEF s, t, u
<1>7. s \in i .. Len(src) => c0 \in Places(src) /\ c0.at > i
  <2>1. s \in i .. Len(src) => s + 1 \in 1 .. (Len(src) + 1) /\ s + 1 > i
    BY <1>2
  <2> QED
    BY <2>1 DEF Places
<1> HIDE DEF c0
<1>8. CASE t = "["
  <2>1. s \in i .. Len(src) /\ c0 \in Places(src) /\ c0.at > i /\ c0.at = s + 1
    BY <1>5, <1>7, <1>8 DEF c0
  <2>2. Within(f[c0], src, s + 1)
    BY <2>1 DEF EndsWithin
  <2>3. Within(Read(f), src, i)
    <3> DEFINE a == array(f)
    <3>1. a.err \in BOOLEAN /\ (~a.err => a.last \in s .. Len(src))
      <4>1. CASE u = "]"
        <5>1. a = TokenOf("ARRAY", s, s + 1, FALSE)
          BY <4>1 DEF u
        <5>2. s + 1 \in i .. Len(src)
          BY <1>6, <4>1
        <5>3. a.err = FALSE /\ a.last = s + 1
          BY <5>1 DEF TokenOf
        <5>4. s + 1 \in s .. Len(src)
          BY <1>2, <2>1, <5>2
        <5> HIDE DEF a
        <5> QED
          BY <5>3, <5>4
      <4>2. CASE u # "]"
        <5>1. a = f[c0]
          BY <4>2 DEF u
        <5>2. /\ a.err \in BOOLEAN
              /\ ~a.err => a.first \in (s + 1) .. Len(src) /\ a.last \in a.first .. Len(src)
          BY <2>2, <5>1 DEF Within
        <5> HIDE DEF a
        <5> QED
          BY <1>2, <2>1, <5>2
      <4> QED
        BY <4>1, <4>2
    <3> HIDE DEF a
    <3>2. Read(f) = IF ~a.err THEN TokenOf("ARRAY", s, a.last, FALSE) ELSE TokenOf(old, s, s, TRUE)
      BY <1>8 DEF Single, Unread, a
    <3>3. "ARRAY" \in TokenTypes
      BY DEF TokenTypes
    <3>4. CASE ~a.err
      <4>1. Read(f) = TokenOf("ARRAY", s, a.last, FALSE)
        BY <3>2, <3>4
      <4> QED
        BY <1>2, <1>3, <2>1, <3>1, <3>3, <3>4, <4>1 DEF TokenOf, Within
    <3>5. CASE a.err
      <4>1. Read(f) = TokenOf(old, s, s, TRUE)
        BY <3>2, <3>5
      <4> QED
        BY <1>3, <4>1 DEF TokenOf, Within
    <3> QED
      BY <3>1, <3>4, <3>5
  <2>4. ASSUME NEW g, \A c \in Places(src) : c.at > i => g[c] = f[c]
        PROVE  Read(g) = Read(f)
    <3>1. g[c0] = f[c0]
      BY <2>1, <2>4
    <3>2. array(g) = array(f)
      BY <3>1
    <3> QED
      BY <3>2
  <2> QED
    BY <1>1, <2>3, <2>4
<1>9. CASE t # "["
  <2> DEFINE r == CASE t \in Single -> TokenOf(t, s, s, FALSE)
                    [] t \in Unread -> TokenOf(old, s, s, FALSE)
                    [] OTHER -> TokenOf(old, s, s, TRUE)
  <2>1. \A h : Read(h) = r
    BY <1>9 DEF UnreadType
  <2>2. Within(r, src, i)
    <3>1. CASE t \in Single
      <4>1. t # "?" /\ t \in TokenTypes
        BY <3>1 DEF Single, TokenTypes
      <4>2. r = TokenOf(t, s, s, FALSE)
        BY <3>1 DEF Single, Unread
      <4> QED
        BY <1>2, <1>3, <1>5, <4>1, <4>2 DEF TokenOf, Within
    <3>2. CASE t \in Unread
      <4>1. r = TokenOf(old, s, s, FALSE) /\ t # "?"
        BY <3>2 DEF Single, Unread
      <4> QED
        BY <1>2, <1>3, <1>5, <4>1 DEF TokenOf, Within
    <3>3. CASE t \notin Single /\ t \notin Unread
      <4>1. r = TokenOf(old, s, s, TRUE)
        BY <3>3
      <4> QED
        BY <1>3, <4>1 DEF TokenOf, Within
    <3> QED
      BY <3>1, <3>2, <3>3
  <2> QED
    BY <1>1, <2>1, <2>2
<1> QED
  BY <1>8, <1>9

\* The same of getArrayToken: it reads tokens after its place only.
LEMMA ArrayWithin ==
  ASSUME NEW L, NEW src \in Seq(L), NEW unset \in TokenTypes,
         NEW c \in Places(src), NEW f, EndsWithin(f, src, unset, c.at)
  PROVE  /\ Within(ReadArray(src, unset, c, f), src, c.at)
         /\ \A g : (\A d \in Places(src) : d.at > c.at => g[d] = f[d]) =>
              ReadArray(src, unset, c, g) = ReadArray(src, unset, c, f)
<1> DEFINE t(h) == ReadToken(src, unset, c.at, c.old, h)
           due == IF c.due = Values THEN {","} ELSE Values
           c1(x) == [due |-> due, at |-> x.last + 1, old |-> x.type]
           After1(x, h) == CASE x.err \/ x.type = "]" -> x
                             [] ~x.err /\ x.type \in c.due -> h[c1(x)]
                             [] OTHER -> [x EXCEPT !.err = TRUE]
<1>1. \A h : ReadArray(src, unset, c, h) = After1(t(h), h)
  BY DEF ReadArray
<1>2. /\ c.at \in 1 .. (Len(src) + 1) /\ c.old \in TokenTypes /\ Len(src) \in Nat
      /\ due \in {Values, {","}}
  BY PastTheEnd DEF Places
<1>3. /\ Within(t(f), src, c.at)
      /\ \A g : (\A d \in Places(src) : d.at > c.at => g[d] = f[d]) => t(g) = t(f)
  BY <1>2, TokenWithin
<1> DEFINE x == t(f)
<1>4. ~x.err => c1(x) \in Places(src) /\ c1(x).at > c.at
  <2>1. ~x.err => x.last + 1 \in 1 .. (Len(src) + 1) /\ x.last + 1 > c.at /\ x.type \in TokenTypes
    BY <1>2, <1>3 DEF Within
  <2> QED
    BY <1>2, <2>1 DEF Places
<1> HIDE DEF t, due
<1>5. Within(After1(x, f), src, c.at)
  <2>1. CASE x.err \/ x.type = "]"
    <3>1. "]" \notin c.due
      <4>1. c.due = Values \/ c.due = {","}
        BY DEF Places
      <4>2. "]" \notin {","} /\ "]" \notin Values
        BY DEF Values
      <4> QED
        BY <4>1, <4>2, Zenon
    <3>2. After1(x, f) = x
      BY <2>1, <3>1
    <3> QED
      BY <1>3, <3>2
  <2>2. CASE ~(x.err \/ x.type = "]") /\ x.type \in c.due
    <3>1. After1(x, f) = f[c1(x)]
      BY <2>2
    <3> DEFINE d == c1(x)
    <3>2. d \in Places(src) /\ d.at > c.at
      BY <1>4, <2>2
    <3> HIDE DEF d
    <3>3. Within(f[d], src, d.at)
      BY <3>2 DEF EndsWithin
    <3>4. d.at \in 1 .. (Len(src) + 1)
      BY <3>2 DEF Places
    <3> DEFINE y == f[d]
               m == c.at
               o == d.at
    <3>5. Within(y, src, o) /\ m \in 1 .. (Len(src) + 1) /\ o > m /\ o \in 1 .. (Len(src) + 1)
      BY <1>2, <3>2, <3>3, <3>4
    <3> HIDE DEF y, m, o
    <3>6. Within(y, src, m)
      <4> DEFINE n == Len(src)
      <4>3. n \in Nat
        BY PastTheEnd
      <4>1. m \in 1 .. (n + 1) /\ o \in 1 .. (n + 1) /\ o > m
        BY <3>5
      <4> HIDE DEF n
      <4>2. y.first \in o .. n => y.first \in m .. n
        BY <4>1, <4>3
      <4> QED
        BY <3>5, <4>2 DEF Within, n
    <3> QED
      BY <3>1, <3>6 DEF d, y, m
  <2>3. CASE ~(x.err \/ x.type = "]") /\ x.type \notin c.due
    <3>1. After1(x, f) = [x EXCEPT !.err = TRUE]
      BY <2>3
    <3> DEFINE y == After1(x, f)
    <3> HIDE DEF x
    <3>2. /\ y \in [type : TokenTypes, first : Nat, last : Nat, err : BOOLEAN]
          /\ y.err = TRUE
      BY <1>3, <3>1, ZenonT(60) DEF Within, x
    <3> HIDE DEF y
    <3>3. Within(y, src, c.at)
      BY <3>2 DEF Within
    <3> QED
      BY <3>3 DEF y
  <2> QED
    BY <2>1, <2>2, <2>3
<1>6. ASSUME NEW g, \A d \in Places(src) : d.at > c.at => g[d] = f[d]
      PROVE  After1(t(g), g) = After1(x, f)
  <2>1. t(g) = x
    BY <1>3, <1>6
  <2>2. CASE x.err
    BY <2>1, <2>2
  <2>3. CASE ~x.err
    <3>1. g[c1(x)] = f[c1(x)]
      BY <1>4, <1>6, <2>3
    <3> QED
      BY <2>1, <3>1
  <2> QED
    BY <2>2, <2>3
<1> QED
  BY <1>1, <1>5, <1>6

\* getArrayToken is defined: the recursion of Rest ends, and where it ends is
\* within the text.
LEMMA ArrayEndsIs ==
  ASSUME NEW L, NEW src \in Seq(L), NEW unset \in TokenTypes
  PROVE  /\ \A c \in Places(src) : ArrayEnds(src, unset)[c] = ReadArray(src, unset, c, ArrayEnds(src, unset))
         /\ \A k \in Nat : EndsWithin(ArrayEnds(src, unset), src, unset, k)
<1> DEFINE N == Len(src) + 1
           P == Places(src)
           Body(f) == [c \in P |-> ReadArray(src, unset, c, f)]
           Solves(f, k) == \A c \in P : c.at >= k =>
                           /\ f[c] = ReadArray(src, unset, c, f)
                           /\ Within(f[c], src, c.at)
           T == {n \in 0 .. N : ~ \E f : Solves(f, (N + 1) - n)}
<1>1. N \in Nat
  BY PastTheEnd
<1>2. \A c \in P : c.at \in 1 .. N
  BY DEF Places
<1> HIDE DEF N, P
<1>3. ASSUME NEW f, NEW k \in Nat, Solves(f, k + 1)
      PROVE  \E g : Solves(g, k)
  <2> DEFINE g == [c \in P |-> IF c.at > k THEN f[c] ELSE ReadArray(src, unset, c, f)]
  <2>1. \A c \in P : g[c] = IF c.at > k THEN f[c] ELSE ReadArray(src, unset, c, f)
    OBVIOUS
  <2> HIDE DEF g
  <2>2. \A c \in P : c.at > k => f[c] = ReadArray(src, unset, c, f) /\ Within(f[c], src, c.at)
    BY <1>1, <1>2, <1>3
  <2>3. ASSUME NEW c \in P, c.at >= k
        PROVE  g[c] = ReadArray(src, unset, c, g) /\ Within(g[c], src, c.at)
    <3>1. \A d \in P : d.at > c.at => g[d] = f[d] /\ Within(f[d], src, d.at)
      BY <1>1, <1>2, <2>1, <2>2, <2>3
    <3>2. EndsWithin(f, src, unset, c.at)
      BY <3>1 DEF EndsWithin, P
    <3>3. /\ Within(ReadArray(src, unset, c, f), src, c.at)
          /\ ReadArray(src, unset, c, g) = ReadArray(src, unset, c, f)
      BY <3>1, <3>2, ArrayWithin DEF P
    <3>4. g[c] = ReadArray(src, unset, c, f)
      BY <2>1, <2>2
    <3> QED
      BY <3>3, <3>4
  <2> QED
    BY <2>3
<1>4. T = {}
  <2> SUFFICES ASSUME T # {} PROVE FALSE
    OBVIOUS
  <2>1. T \in SUBSET Nat
    BY <1>1
  <2>2. PICK n \in T : \A y \in T : n <= y
    BY <2>1, Least
  <2>3. n \in 0 .. N /\ ~ \E f : Solves(f, (N + 1) - n)
    BY <2>2
  <2> HIDE DEF T
  <2>4. n # 0
    <3>1. \A c \in P : ~(c.at >= N + 1)
      BY <1>1, <1>2
    <3>2. Solves([c \in P |-> c], N + 1)
      BY <3>1
    <3>3. (N + 1) - 0 = N + 1
      BY <1>1
    <3> QED
      BY <2>3, <3>2, <3>3
  <2>5. n - 1 \in 0 .. N /\ ~(n <= n - 1)
    BY <1>1, <2>3, <2>4
  <2>6. n - 1 \notin T
    BY <2>2, <2>5
  <2>7. PICK f : Solves(f, (N + 1) - (n - 1))
    BY <2>5, <2>6 DEF T
  <2> DEFINE k == (N + 1) - n
  <2>8. k \in Nat /\ (N + 1) - (n - 1) = k + 1
    BY <1>1, <2>3
  <2> HIDE DEF k, Solves
  <2>9. Solves(f, k + 1)
    BY <2>7, <2>8
  <2>10. \E g : Solves(g, k)
    BY <1>3, <2>8, <2>9
  <2> QED
    BY <2>3, <2>10 DEF k
<1>5. \E f : Solves(f, 1)
  <2>1. N \in 0 .. N /\ (N + 1) - N = 1
    BY <1>1
  <2> HIDE DEF Solves
  <2>2. \E f : Solves(f, (N + 1) - N)
    BY <1>4, <2>1
  <2> QED
    BY <2>1, <2>2
<1>6. PICK f : Solves(f, 1)
  BY <1>5
<1>7. \A c \in P : f[c] = ReadArray(src, unset, c, f) /\ Within(f[c], src, c.at)
  BY <1>1, <1>2, <1>6
<1> DEFINE h == [c \in P |-> f[c]]
<1>8. \A c \in P : h[c] = f[c]
  OBVIOUS
<1>9. h = Body(h)
  <2>1. ASSUME NEW c \in P
        PROVE  ReadArray(src, unset, c, h) = ReadArray(src, unset, c, f)
    <3>1. EndsWithin(f, src, unset, c.at)
      BY <1>7 DEF EndsWithin, P
    <3> HIDE DEF h
    <3> QED
      BY <1>8, <3>1, ArrayWithin DEF P
  <2>2. \A c \in P : f[c] = ReadArray(src, unset, c, h)
    BY <1>7, <2>1
  <2> QED
    BY <2>2
<1> HIDE DEF h
<1>10. ArrayEnds(src, unset) = CHOOSE rest : rest = Body(rest)
  BY DEF ArrayEnds, P
<1> HIDE DEF Body
<1>11. ArrayEnds(src, unset) = Body(ArrayEnds(src, unset))
  BY <1>9, <1>10
<1>12. \A c \in P : ArrayEnds(src, unset)[c] = ReadArray(src, unset, c, ArrayEnds(src, unset))
  BY <1>11 DEF Body
<1> DEFINE R == ArrayEnds(src, unset)
           U == {n \in 0 .. N : \E c \in P : c.at = (N + 1) - n /\ ~Within(R[c], src, c.at)}
<1> HIDE DEF R
<1>13. U = {}
  <2> SUFFICES ASSUME U # {} PROVE FALSE
    OBVIOUS
  <2>1. U \in SUBSET Nat
    BY <1>1
  <2>2. PICK n \in U : \A y \in U : n <= y
    BY <2>1, Least
  <2>3. PICK c \in P : n \in 0 .. N /\ c.at = (N + 1) - n /\ ~Within(R[c], src, c.at)
    BY <2>2
  <2>4. ASSUME NEW d \in P, d.at > c.at PROVE Within(R[d], src, d.at)
    <3> DEFINE m == (N + 1) - d.at
    <3>1. m \in 0 .. N /\ d.at = (N + 1) - m /\ ~(n <= m)
      BY <1>1, <1>2, <2>3, <2>4
    <3> HIDE DEF m
    <3>2. m \notin U
      BY <2>2, <3>1
    <3> QED
      BY <3>1, <3>2
  <2>5. EndsWithin(R, src, unset, c.at)
    BY <2>4 DEF EndsWithin, P
  <2>6. Within(ReadArray(src, unset, c, R), src, c.at)
    BY <2>5, ArrayWithin DEF P
  <2> QED
    BY <1>12, <2>3, <2>6 DEF R
<1>14. ASSUME NEW c \in P PROVE Within(R[c], src, c.at)
  <2> DEFINE m == (N + 1) - c.at
  <2>1. m \in 0 .. N /\ c.at = (N + 1) - m
    BY <1>1, <1>2
  <2> HIDE DEF m
  <2> QED
    BY <1>13, <2>1
<1> QED
  BY <1>12, <1>14 DEF EndsWithin, P, R

----------------------------------------------------------------------------
\* Texts as bytes.

\* Sequences one after the other: their elements, and what comes first.
LEMMA Flattened ==
  ASSUME NEW S, NEW s \in Seq(Seq(S))
  PROVE  /\ FlattenSeq(s) \in Seq(S)
         /\ s # <<>> /\ s[1] # <<>> =>
              FlattenSeq(s) # <<>> /\ FlattenSeq(s)[1] = s[1][1]
<1> DEFINE n == Len(s)
           Body(f) == [i \in 1 .. n |-> IF i = 1 THEN s[i] ELSE f[i - 1] \o s[i]]
           Solves(f, k) == \A i \in 1 .. k : f[i] = IF i = 1 THEN s[i] ELSE f[i - 1] \o s[i]
           T == {k \in 1 .. n : ~ \E f : Solves(f, k)}
           flat == CHOOSE f : f = Body(f)
<1>1. n \in Nat /\ (n = 0 <=> s = <<>>)
  BY LenProperties, EmptySeq
<1>2. FlattenSeq(s) = IF n = 0 THEN s ELSE flat[n]
  BY DEF FlattenSeq
<1>3. \A i \in 1 .. n : s[i] \in Seq(S)
  BY ElementOfSeq
<1> HIDE DEF n
<1>4. CASE n = 0
  <2>1. <<>> \in Seq(S)
    OBVIOUS
  <2> QED
    BY <1>1, <1>2, <1>4, <2>1
<1>5. CASE n # 0
  <2>1. T = {}
    <3> SUFFICES ASSUME T # {} PROVE FALSE
      OBVIOUS
    <3>1. T \in SUBSET Nat
      BY <1>1
    <3>2. PICK k \in T : \A y \in T : k <= y
      BY <3>1, Least
    <3>3. k \in 1 .. n /\ ~ \E f : Solves(f, k)
      BY <3>2
    <3> HIDE DEF T
    <3>4. k # 1
      <4>1. Solves([i \in 1 .. n |-> s[1]], 1)
        BY <1>1, <1>5
      <4> HIDE DEF Solves
      <4> QED
        BY <3>3, <4>1
    <3>5. k - 1 \in 1 .. n /\ ~(k <= k - 1)
      BY <1>1, <3>3, <3>4
    <3>6. PICK f : Solves(f, k - 1)
      BY <3>2, <3>5 DEF T
    <3> DEFINE g == [i \in 1 .. n |-> IF i = k THEN f[k - 1] \o s[k] ELSE f[i]]
    <3>7. ASSUME NEW i \in 1 .. k PROVE g[i] = IF i = 1 THEN s[i] ELSE g[i - 1] \o s[i]
      <4>1. i \in 1 .. n /\ (i # 1 => i - 1 \in 1 .. n /\ i - 1 # k)
        BY <1>1, <3>3, <3>4
      <4>2. CASE i = k
        BY <3>4, <4>1, <4>2
      <4>3. CASE i # k
        <5>1. i \in 1 .. (k - 1)
          BY <1>1, <3>3, <4>3
        <5>2. f[i] = IF i = 1 THEN s[i] ELSE f[i - 1] \o s[i]
          BY <3>6, <5>1
        <5> QED
          BY <4>1, <4>3, <5>2
      <4> QED
        BY <4>2, <4>3
    <3> HIDE DEF g
    <3>8. Solves(g, k)
      BY <3>7
    <3> HIDE DEF Solves
    <3> QED
      BY <3>3, <3>8
  <2>2. PICK f : Solves(f, n)
    <3> HIDE DEF Solves
    <3>1. n \in 1 .. n
      BY <1>1, <1>5
    <3> QED
      BY <2>1, <3>1
  <2> DEFINE h == [i \in 1 .. n |-> f[i]]
  <2>3. h = Body(h)
    <3>1. ASSUME NEW i \in 1 .. n PROVE h[i] = IF i = 1 THEN s[i] ELSE h[i - 1] \o s[i]
      <4>1. i # 1 => i - 1 \in 1 .. n
        BY <1>1
      <4> QED
        BY <2>2, <4>1
    <3> QED
      BY <3>1
  <2>4. flat = Body(flat)
    <3> HIDE DEF h, Body
    <3> QED
      BY <2>3
  <2> HIDE DEF flat
  <2>5. \A i \in 1 .. n : flat[i] = IF i = 1 THEN s[i] ELSE flat[i - 1] \o s[i]
    BY <2>4
  <2> DEFINE Fine(i) == /\ flat[i] \in Seq(S)
                        /\ s[1] # <<>> => flat[i] # <<>> /\ flat[i][1] = s[1][1]
             U == {i \in 1 .. n : ~Fine(i)}
  <2>6. U = {}
    <3> SUFFICES ASSUME U # {} PROVE FALSE
      OBVIOUS
    <3>1. U \in SUBSET Nat
      BY <1>1
    <3>2. PICK k \in U : \A y \in U : k <= y
      BY <3>1, Least
    <3>3. k \in 1 .. n /\ ~Fine(k)
      BY <3>2
    <3> HIDE DEF U
    <3>4. k # 1
      BY <1>3, <2>5, <3>3
    <3>5. k - 1 \in 1 .. n /\ ~(k <= k - 1)
      BY <1>1, <3>3, <3>4
    <3> HIDE DEF Fine
    <3>6. Fine(k - 1)
      BY <3>2, <3>5 DEF U
    <3> DEFINE a == flat[k - 1]
               b == s[k]
    <3>7. flat[k] = a \o b /\ b \in Seq(S)
      BY <1>3, <2>5, <3>3, <3>4
    <3>8. a \in Seq(S) /\ (s[1] # <<>> => a # <<>> /\ a[1] = s[1][1])
      BY <3>6 DEF Fine
    <3> HIDE DEF a, b
    <3>9. /\ a \o b \in Seq(S) /\ Len(a \o b) = Len(a) + Len(b)
          /\ \A i \in 1 .. Len(a) + Len(b) : (a \o b)[i] = IF i <= Len(a) THEN a[i] ELSE b[i - Len(a)]
      BY <3>7, <3>8, ConcatProperties
    <3>10. a # <<>> => a \o b # <<>> /\ (a \o b)[1] = a[1]
      <4>1. Len(a) \in Nat /\ Len(b) \in Nat /\ (a # <<>> => Len(a) # 0)
        BY <3>7, <3>8, LenProperties, EmptySeq
      <4>2. a # <<>> => 1 \in 1 .. Len(a) + Len(b) /\ 1 <= Len(a) /\ Len(a) + Len(b) # 0
        BY <4>1
      <4> QED
        BY <3>9, <4>2, EmptySeq
    <3> QED
      BY <3>3, <3>7, <3>8, <3>9, <3>10 DEF Fine
  <2>7. n \in 1 .. n
    BY <1>1, <1>5
  <2> QED
    BY <1>1, <1>2, <1>5, <2>6, <2>7
<1> QED
  BY <1>4, <1>5

\* The bytes of the marks of a text.
Marks == {32, 34, 44, 58, 91, 93, 123, 125}

\* The lexemes whose bytes are of a set S.
LexemesOf(S) ==
    [type : DOMAIN Code \union {"STR", "NUM", "badnum", "?"}, str : Seq(S)]

\* The bytes of a lexeme.
LEMMA LexemeBytesIn ==
  ASSUME NEW S, Marks \subseteq S, NEW l \in LexemesOf(S)
  PROVE  /\ LexemeBytes(l) \in Seq(S)
         /\ l.type = "{" => LexemeBytes(l) = <<123>>
<1>1. l.str \in Seq(S) /\ l.type \in DOMAIN Code \union {"STR", "NUM", "badnum", "?"}
  BY DEF LexemesOf
<1>2. DOMAIN Code = {"{", "}", ":", ",", "[", "]", " ", "quote"}
  BY DEF Code
<1>3. \A p \in DOMAIN Code : Code[p] \in Marks
  <2>1. Code["{"] \in Marks
    <3>1. Code["{"] = 123
      BY DEF Code
    <3>2. 123 \in Marks
      BY SMT DEF Marks
    <3> QED
      BY <3>1, <3>2
  <2>2. Code["}"] \in Marks
    <3>1. Code["}"] = 125
      BY DEF Code
    <3>2. 125 \in Marks
      BY SMT DEF Marks
    <3> QED
      BY <3>1, <3>2
  <2>3. Code[":"] \in Marks
    <3>1. Code[":"] = 58
      BY DEF Code
    <3>2. 58 \in Marks
      BY SMT DEF Marks
    <3> QED
      BY <3>1, <3>2
  <2>4. Code[","] \in Marks
    <3>1. Code[","] = 44
      BY DEF Code
    <3>2. 44 \in Marks
      BY SMT DEF Marks
    <3> QED
      BY <3>1, <3>2
  <2>5. Code["["] \in Marks
    <3>1. Code["["] = 91
      BY DEF Code
    <3>2. 91 \in Marks
      BY SMT DEF Marks
    <3> QED
      BY <3>1, <3>2
  <2>6. Code["]"] \in Marks
    <3>1. Code["]"] = 93
      BY DEF Code
    <3>2. 93 \in Marks
      BY SMT DEF Marks
    <3> QED
      BY <3>1, <3>2
  <2>7. Code[" "] \in Marks
    <3>1. Code[" "] = 32
      BY DEF Code
    <3>2. 32 \in Marks
      BY SMT DEF Marks
    <3> QED
      BY <3>1, <3>2
  <2>8. Code["quote"] \in Marks
    <3>1. Code["quote"] = 34
      BY DEF Code
    <3>2. 34 \in Marks
      BY SMT DEF Marks
    <3> QED
      BY <3>1, <3>2
  <2> QED
    BY <1>2, <2>1, <2>2, <2>3, <2>4, <2>5, <2>6, <2>7, <2>8, Zenon
<1>4. CASE l.type \in DOMAIN Code
  <2>1. LexemeBytes(l) = <<Code[l.type]>>
    <3>1. l.type # "STR"
      BY <1>2, <1>4
    <3> QED
      BY <1>4, <3>1 DEF LexemeBytes
  <2>2. Code[l.type] \in S
    BY <1>3, <1>4
  <2>3. l.type = "{" => Code[l.type] = 123
    <3>1. Code["{"] = 123
      BY DEF Code
    <3> QED
      BY <3>1
  <2> DEFINE v == Code[l.type]
  <2> HIDE DEF v
  <2>4. v \in S /\ (l.type = "{" => v = 123)
    BY <2>2, <2>3 DEF v
  <2>5. <<v>> \in Seq(S)
    <3>1. v \in S
      BY <2>4
    <3> QED
      BY <3>1
  <2>6. LexemeBytes(l) = <<v>>
    BY <2>1 DEF v
  <2> QED
    BY <2>4, <2>5, <2>6
<1>5. CASE l.type = "STR"
  <2> DEFINE q == <<34>>
  <2>1. LexemeBytes(l) = q \o l.str \o q
    <3>1. l.type \notin DOMAIN Code
      BY <1>2, <1>5
    <3> QED
      BY <1>5, <3>1 DEF LexemeBytes
  <2>2. q \in Seq(S)
    <3>1. 34 \in S
      BY DEF Marks
    <3> QED
      BY <3>1
  <2> HIDE DEF q
  <2>3. q \o l.str \in Seq(S)
    BY <1>1, <2>2, ConcatProperties
  <2>4. q \o l.str \o q \in Seq(S)
    BY <2>2, <2>3, ConcatProperties
  <2> QED
    BY <1>5, <2>1, <2>4
<1>6. CASE l.type \notin DOMAIN Code /\ l.type # "STR"
  <2>1. LexemeBytes(l) = l.str
    BY <1>6 DEF LexemeBytes
  <2> QED
    BY <1>1, <1>2, <1>6, <2>1
<1> QED
  BY <1>4, <1>5, <1>6

\* A text, and bytes, that begin with '{'.
Opens(t) == t # <<>> /\ t[1].type = "{"
OpensBytes(bytes) == bytes # <<>> /\ bytes[1] = 123

\* The bytes of a text are those of its lexemes, and one that begins with '{'
\* begins with its byte.
LEMMA BytesIn ==
  ASSUME NEW S, Marks \subseteq S, NEW t \in Seq(LexemesOf(S))
  PROVE  /\ Bytes(t) \in Seq(S)
         /\ Opens(t) => OpensBytes(Bytes(t))
<1> DEFINE s == [i \in DOMAIN t |-> LexemeBytes(t[i])]
<1>1. DOMAIN t = 1 .. Len(t) /\ Len(t) \in Nat
  BY LenProperties
<1>2. \A i \in 1 .. Len(t) : s[i] = LexemeBytes(t[i]) /\ s[i] \in Seq(S)
  <2> TAKE i \in 1 .. Len(t)
  <2>1. t[i] \in LexemesOf(S)
    BY ElementOfSeq
  <2> QED
    BY <1>1, <2>1, LexemeBytesIn
<1>3. s \in Seq(Seq(S)) /\ Len(s) = Len(t)
  BY <1>1, <1>2
<1>4. Bytes(t) = FlattenSeq(s)
  BY DEF Bytes
<1> HIDE DEF s
<1>5. /\ FlattenSeq(s) \in Seq(S)
      /\ s # <<>> /\ s[1] # <<>> => FlattenSeq(s) # <<>> /\ FlattenSeq(s)[1] = s[1][1]
  BY <1>3, Flattened
<1>6. ASSUME Opens(t)
      PROVE  s # <<>> /\ s[1] # <<>> /\ s[1][1] = 123
  <2>1. 1 \in 1 .. Len(t) /\ Len(s) # 0
    <3>1. Len(t) # 0
      BY <1>6, EmptySeq DEF Opens
    <3> QED
      BY <1>1, <1>3, <3>1
  <2>2. t[1] \in LexemesOf(S)
    BY <2>1, ElementOfSeq
  <2>3. s[1] = <<123>>
    BY <1>2, <1>6, <2>1, <2>2, LexemeBytesIn DEF Opens
  <2> QED
    BY <1>3, <2>1, <2>3, EmptySeq
<1> QED
  BY <1>4, <1>5, <1>6 DEF OpensBytes

\* A text cut short is a text, and begins as it began.
LEMMA CutsIn ==
  ASSUME NEW S, NEW t \in Seq(LexemesOf(S)), NEW cut \in Cuts(t)
  PROVE  /\ cut \in Seq(LexemesOf(S))
         /\ Opens(t) => Opens(cut)
<1>1. PICK i \in DOMAIN t : t[i].type = "STR" /\ \E head \in Prefixes(t[i].str) : cut = CutAt(t, i, head)
  BY DEF Cuts
<1>2. PICK head \in Prefixes(t[i].str) : cut = CutAt(t, i, head)
  BY <1>1
<1>3. DOMAIN t = 1 .. Len(t) /\ Len(t) \in Nat
  BY LenProperties
<1>4. i \in 1 .. Len(t)
  BY <1>1, <1>3
<1>5. t[i] \in LexemesOf(S)
  BY <1>4, ElementOfSeq
<1> DEFINE str == t[i].str
<1>6. str \in Seq(S) /\ head \in Prefixes(str)
  BY <1>5 DEF LexemesOf
<1> HIDE DEF str
<1>7. head \in Seq(S)
  <2>1. PICK l \in 0 .. Len(str) : head = SubSeq(str, 1, l)
    BY <1>6 DEF Prefixes
  <2>2. Len(str) \in Nat
    BY <1>6, LenProperties
  <2>3. \A j \in 1 .. l : str[j] \in S
    BY <1>6, <2>2, ElementOfSeq
  <2>4. SubSeq(str, 1, l) \in Seq(S)
    <3>1. 1 \in Int /\ l \in Int
      BY <2>2
    <3> QED
      BY <2>3, <3>1, SubSeqProperties
  <2> QED
    BY <2>1, <2>4
<1> DEFINE a == SubSeq(t, 1, i - 1)
           b == <<[type |-> "quote", str |-> <<>>]>>
           c == IF head = <<>> THEN <<>> ELSE <<Other(head)>>
<1>8. cut = a \o b \o c
  BY <1>2 DEF CutAt
<1>9. /\ a \in Seq(LexemesOf(S))
      /\ Len(a) = IF 1 <= i - 1 THEN (i - 1) - 1 + 1 ELSE 0
      /\ \A j \in 1 .. (i - 1) - 1 + 1 : a[j] = t[1 + j - 1]
  <2>1. \A j \in 1 .. (i - 1) : t[j] \in LexemesOf(S)
    BY <1>3, <1>4, ElementOfSeq
  <2>2. 1 \in Int /\ i - 1 \in Int
    BY <1>3, <1>4
  <2> QED
    BY <2>1, <2>2, SubSeqProperties
<1>10. b \in Seq(LexemesOf(S)) /\ Len(b) = 1
  <2>1. [type |-> "quote", str |-> <<>>] \in LexemesOf(S)
    <3>1. "quote" \in DOMAIN Code
      BY DEF Code
    <3>2. <<>> \in Seq(S)
      OBVIOUS
    <3> QED
      BY <3>1, <3>2 DEF LexemesOf
  <2> QED
    BY <2>1
<1>11. c \in Seq(LexemesOf(S))
  <2>1. Other(head) \in LexemesOf(S)
    BY <1>7 DEF LexemesOf, Other
  <2>2. <<Other(head)>> \in Seq(LexemesOf(S)) /\ <<>> \in Seq(LexemesOf(S))
    BY <2>1
  <2> QED
    BY <2>2
<1> HIDE DEF a, b, c
<1>12. /\ a \o b \in Seq(LexemesOf(S)) /\ Len(a \o b) = Len(a) + Len(b)
       /\ \A j \in 1 .. Len(a) + Len(b) : (a \o b)[j] = IF j <= Len(a) THEN a[j] ELSE b[j - Len(a)]
  BY <1>9, <1>10, ConcatProperties
<1> DEFINE d == a \o b
<1>13. d \in Seq(LexemesOf(S))
  BY <1>12
<1> HIDE DEF d
<1>14. /\ d \o c \in Seq(LexemesOf(S)) /\ Len(d \o c) = Len(d) + Len(c)
       /\ \A j \in 1 .. Len(d) + Len(c) : (d \o c)[j] = IF j <= Len(d) THEN d[j] ELSE c[j - Len(d)]
  BY <1>11, <1>13, ConcatProperties
<1>15. ASSUME Opens(t) PROVE d \o c # <<>> /\ (d \o c)[1] = t[1]
  <2>1. i # 1
    <3>1. "{" # "STR"
      OBVIOUS
    <3> QED
      BY <1>1, <1>15, <3>1 DEF Opens
  <2>2. Len(a) = i - 1 /\ Len(a) >= 1 /\ Len(a) \in Nat
    BY <1>4, <1>9, <2>1
  <2>3. a[1] = t[1]
    BY <1>4, <1>9, <2>1
  <2>4. d[1] = t[1] /\ Len(d) \in Nat /\ Len(d) >= 1
    BY <1>10, <1>12, <2>2, <2>3 DEF d
  <2>5. Len(c) \in Nat
    BY <1>11, LenProperties
  <2>6. (d \o c)[1] = t[1] /\ Len(d \o c) # 0
    BY <1>14, <2>4, <2>5
  <2> QED
    BY <1>14, <2>6, EmptySeq
<1> QED
  BY <1>8, <1>14, <1>15 DEF d, Opens

\* What the parser meets is a text; it is the text sent when all bytes
\* arrived, and nothing it can read when they do not begin with '{' as that one does.
LEMMA LexedIs ==
  ASSUME sent \in Seq(Lexeme), NEW bytes
  PROVE  /\ \E L : Lexed(bytes) \in Seq(L)
         /\ bytes = Bytes(sent) => Lexed(bytes) = sent
         /\ Opens(sent) /\ ~(bytes \in Seq(Byte) /\ OpensBytes(bytes))
              => Lexed(bytes) = <<Other(bytes)>>
<1> DEFINE cuts == {t \in Cuts(sent) : Bytes(t) = bytes}
           cut == CHOOSE t \in cuts : TRUE
           S == Byte \ {0}
<1>1. Lexeme = LexemesOf(S)
  BY DEF Lexeme, LexemesOf
<1>2. Marks \subseteq S
  BY SMT DEF Marks, Byte
<1>3. /\ bytes = Bytes(sent) => Lexed(bytes) = sent
      /\ bytes # Bytes(sent) /\ cuts # {} => Lexed(bytes) = cut
      /\ bytes # Bytes(sent) /\ cuts = {} => Lexed(bytes) = <<Other(bytes)>>
  BY DEF Lexed
<1>4. cuts # {} => cut \in Cuts(sent) /\ Bytes(cut) = bytes
  <2> HIDE DEF S
  <2> QED
    OBVIOUS
<1> HIDE DEF cuts, cut
<1>5. cuts # {} => cut \in Seq(Lexeme)
  BY <1>1, <1>4, CutsIn
<1>6. \E L : Lexed(bytes) \in Seq(L)
  <2>1. <<Other(bytes)>> \in Seq({Other(bytes)})
    OBVIOUS
  <2> QED
    BY <1>3, <1>5, <2>1
<1>7. S \subseteq Byte
  OBVIOUS
<1> HIDE DEF S
<1>8. ASSUME Opens(sent), ~(bytes \in Seq(Byte) /\ OpensBytes(bytes))
      PROVE  Lexed(bytes) = <<Other(bytes)>>
  <2>1. ASSUME NEW t \in Seq(Lexeme), Opens(t) PROVE Bytes(t) # bytes
    <3>1. t \in Seq(LexemesOf(S))
      BY <1>1
    <3>2. Bytes(t) \in Seq(S) /\ OpensBytes(Bytes(t))
      BY <1>2, <2>1, <3>1, BytesIn
    <3>3. Bytes(t) \in Seq(Byte)
      BY <1>7, <3>2, SeqMonotonic
    <3> QED
      BY <1>8, <3>2, <3>3
  <2>2. Bytes(sent) # bytes
    BY <1>8, <2>1
  <2>3. cuts = {}
    <3> SUFFICES ASSUME cuts # {} PROVE FALSE
      OBVIOUS
    <3>1. cut \in Cuts(sent) /\ Bytes(cut) = bytes /\ cut \in Seq(Lexeme)
      BY <1>4, <1>5
    <3>2. Opens(cut)
      BY <1>1, <1>8, <3>1, CutsIn
    <3> QED
      BY <2>1, <3>1, <3>2
  <2> QED
    BY <1>3, <2>2, <2>3
<1> QED
  BY <1>3, <1>6, <1>8

\* What Encrypt writes has no '\0' and fits its room with one.
LEMMA EncryptedText ==
  ASSUME NEW data \in Seq(Byte), NEW size \in Nat
  PROVE  LET code == Encrypt(data, size)
         IN  /\ code.str \in Seq(Byte \ {0})
             /\ code.ok \in BOOLEAN
             /\ code.ok => Len(code.str) + 1 <= size
<1>1. XOR(data) \in Seq(Byte)
  BY XOROf
<1>2. Text64(XOR(data)) \in Seq(Byte \ {0})
  <2>1. Symbol \cup {EQ} \subseteq Byte \ {0}
    <3>1. 1 .. 122 \subseteq Byte \ {0}
      BY SMT DEF Byte
    <3>2. 61 \in Byte \ {0}
      BY SMT DEF Byte
    <3>3. Symbol \subseteq 1 .. 122
      BY DEF Symbol
    <3> QED
      BY <3>1, <3>2, <3>3 DEF EQ
  <2>2. Text64(XOR(data)) \in Seq(Symbol \cup {EQ})
    BY <1>1, Text64Of
  <2> QED
    BY <2>1, <2>2, SeqMonotonic
<1>3. /\ Encrypt(data, size).ok \in BOOLEAN
      /\ Encrypt(data, size).str = Text64(XOR(data)) \/ Encrypt(data, size).str = <<>>
  BY Base64Is DEF Encrypt, Failed, Done
<1>4. <<>> \in Seq(Byte \ {0})
  OBVIOUS
<1> QED
  BY <1>2, <1>3, <1>4, EncryptedFits

\* Every token is within the text.
LEMMA TokenInside ==
  ASSUME NEW L, NEW src \in Seq(L), NEW unset \in TokenTypes,
         NEW i \in Nat \ {0}, NEW old \in TokenTypes
  PROVE  Within(GetToken(src, unset, i, old), src, i)
<1>1. Len(src) \in Nat
  BY PastTheEnd
<1>2. CASE i > Len(src)
  <2>1. GetToken(src, unset, i, old) = TokenOf(old, i, i, TRUE)
    BY <1>2 DEF GetToken
  <2> QED
    BY <2>1 DEF TokenOf, Within
<1>3. CASE ~(i > Len(src))
  <2>1. GetToken(src, unset, i, old) = ReadToken(src, unset, i, old, ArrayEnds(src, unset))
    BY <1>3 DEF GetToken
  <2>2. i \in 1 .. (Len(src) + 1)
    BY <1>1, <1>3
  <2>3. EndsWithin(ArrayEnds(src, unset), src, unset, i)
    BY ArrayEndsIs
  <2> QED
    BY <2>1, <2>2, <2>3, TokenWithin
<1> QED
  BY <1>2, <1>3

\* A token of one lexeme is that lexeme, and what is no lexeme of JSON is none.
LEMMA OneLexeme ==
  ASSUME NEW L, NEW src \in Seq(L), NEW unset, NEW old,
         NEW i \in 1 .. Len(src), NEW j \in 1 .. Len(src),
         j = i \/ (j = i + 1 /\ BlankAt(src, i))
  PROVE  /\ TypeAt(src, j) \in Single =>
              GetToken(src, unset, i, old) = TokenOf(TypeAt(src, j), j, j, FALSE)
         /\ TypeAt(src, j) = "?" => GetToken(src, unset, i, old).err
<1> DEFINE s == SkipBlanks(src, i)
<1>1. Len(src) \in Nat /\ i \in 1 .. Len(src) /\ i \in Nat /\ ~(i > Len(src))
  <2>1. Len(src) \in Nat
    BY PastTheEnd
  <2> QED
    BY <2>1
<1>2. GetToken(src, unset, i, old) = ReadToken(src, unset, i, old, ArrayEnds(src, unset))
  BY <1>1 DEF GetToken
<1>3. /\ s \in i .. (Len(src) + 1) /\ ~BlankAt(src, s)
      /\ \A b \in i .. (s - 1) : BlankAt(src, b)
  <2>1. i \in 1 .. (Len(src) + 1)
    BY <1>1
  <2> QED
    BY <2>1, SkipsBlanks
<1> HIDE DEF s
<1>4. ASSUME ~BlankAt(src, j) PROVE s = j
  <2>1. ~(j < s)
    <3> SUFFICES ASSUME j < s PROVE FALSE
      OBVIOUS
    <3>1. j \in i .. (s - 1)
      BY <1>1, <1>3
    <3> QED
      BY <1>3, <1>4, <3>1
  <2>2. ~(s < j)
    <3> SUFFICES ASSUME s < j PROVE FALSE
      OBVIOUS
    <3>1. s = i /\ j = i + 1
      BY <1>1, <1>3
    <3> QED
      BY <1>3, <3>1
  <2>3. s \in Int /\ j \in Int
    BY <1>1, <1>3
  <2> QED
    BY <2>1, <2>2, <2>3
<1>5. ASSUME TypeAt(src, j) \in Single
      PROVE  GetToken(src, unset, i, old) = TokenOf(TypeAt(src, j), j, j, FALSE)
  <2>1. TypeAt(src, j) # " " /\ TypeAt(src, j) \notin Unread /\ TypeAt(src, j) # "["
    BY <1>5 DEF Single, Unread
  <2>2. s = j
    BY <1>4, <2>1 DEF BlankAt
  <2> QED
    BY <1>2, <1>5, <2>1, <2>2 DEF ReadToken, s
<1>6. ASSUME TypeAt(src, j) = "?" PROVE GetToken(src, unset, i, old).err
  <2>1. "?" # " " /\ "?" \notin Single /\ "?" \notin Unread /\ "?" # "["
    BY DEF Single, Unread
  <2>2. s = j
    BY <1>4, <1>6, <2>1 DEF BlankAt
  <2>3. ReadToken(src, unset, i, old, ArrayEnds(src, unset)) = TokenOf(old, s, s, TRUE)
    BY <1>6, <2>1, <2>2 DEF ReadToken, s
  <2> QED
    BY <1>2, <2>3 DEF TokenOf
<1> QED
  BY <1>5, <1>6

----------------------------------------------------------------------------
\* One message.

\* Of the places of a text TypeOK and FitsTheRoom need: before the receiver has
\* read anything its parser stands at the beginning of an empty text.
MessageInv ==
    /\ sent \in Texts \union Drafts
    /\ is_enc \in [Ends -> BOOLEAN]
    /\ room \in [Ends -> Nat]
    /\ (\E e \in Ends : is_enc[e]) => room \in [Ends -> Rooms]
    /\ junk \in TokenTypes
    /\ \E L : text \in Seq(L)
    /\ step \in {"built", "sent", "unsent"} => text = <<>> /\ pos = 1
    /\ TypeOK
    /\ FitsTheRoom

\* A message that is still to be read fits whatever room is left.
LEMMA UnreadFits ==
  ASSUME text = <<>>
  PROVE  FitsTheRoom <=>
           (is_enc["sender"] /\ step \notin {"built", "unsent"} => Len(wire) + 1 <= room["sender"])
  BY DEF FitsTheRoom

\* It holds of a message that is still to be sent.
LEMMA MessageInit == Init => MessageInv
<1> SUFFICES ASSUME Init PROVE MessageInv
  OBVIOUS
<1> USE DEF Init
<1>1. sent \in Texts \union Drafts /\ is_enc \in [Ends -> BOOLEAN]
  OBVIOUS
<1>2. room \in [Ends -> Nat] /\ ((\E e \in Ends : is_enc[e]) => room \in [Ends -> Rooms])
  <2>1. Rooms \subseteq Nat
    BY RoomsOdd
  <2>2. [Ends -> Rooms] \subseteq [Ends -> Nat] /\ [Ends -> {0}] \subseteq [Ends -> Nat]
    <3>1. \A R : R \subseteq Nat => [Ends -> R] \subseteq [Ends -> Nat]
      OBVIOUS
    <3>2. {0} \subseteq Nat
      OBVIOUS
    <3> QED
      BY <2>1, <3>1, <3>2
  <2>3. room \in [Ends -> Rooms] \/ (~(\E e \in Ends : is_enc[e]) /\ room \in [Ends -> {0}])
    OBVIOUS
  <2> QED
    BY <2>2, <2>3
<1>3. junk \in TokenTypes
  BY JunkIsAType
<1>4. \E L : text \in Seq(L)
  <2>1. <<>> \in Seq({})
    OBVIOUS
  <2> QED
    BY <2>1
<1>5. text = <<>> /\ pos = 1 /\ step = "built" /\ wire = <<>> /\ type = junk
  OBVIOUS
<1> USE DEF Init
<1>6. FitsTheRoom
  BY <1>5, UnreadFits
<1>7. TypeOK
  <2>1. wire \in Seq(Byte \ {0})
    BY <1>5
  <2>2. pos \in 1 .. (Len(text) + 1)
    <3>1. Len(text) = 0
      BY <1>5
    <3> QED
      BY <1>5, <3>1
  <2> QED
    BY <1>3, <1>5, <2>1, <2>2 DEF TypeOK
<1> QED
  BY <1>1, <1>2, <1>3, <1>4, <1>5, <1>6, <1>7 DEF MessageInv

\* The text of a message.
LEMMA SentText ==
  ASSUME sent \in Texts \union Drafts
  PROVE  /\ sent \in Seq(Lexeme)
         /\ Bytes(sent) \in Seq(Byte \ {0})
         /\ Bytes(sent) \in Seq(Byte)
         /\ \A end \in {<<>>, << 0 >>} : Bytes(sent) \o end \in Seq(Byte)
<1> DEFINE S == Byte \ {0}
<1>1. sent \in Seq(Lexeme)
  BY TextsAreLexemes
<1>2. Lexeme = LexemesOf(S)
  BY DEF Lexeme, LexemesOf
<1>3. Marks \subseteq S
  BY SMT DEF Marks, Byte
<1>4. S \subseteq Byte
  OBVIOUS
<1> HIDE DEF S
<1>5. Bytes(sent) \in Seq(S)
  BY <1>1, <1>2, <1>3, BytesIn
<1>6. Bytes(sent) \in Seq(Byte)
  BY <1>4, <1>5, SeqMonotonic
<1>7. ASSUME NEW end \in {<<>>, << 0 >>} PROVE Bytes(sent) \o end \in Seq(Byte)
  <2>1. 0 \in Byte
    BY SMT DEF Byte
  <2>2. <<>> \in Seq(Byte) /\ << 0 >> \in Seq(Byte)
    BY <2>1
  <2>3. end \in Seq(Byte)
    BY <2>2
  <2> QED
    BY <1>6, <2>3, ConcatProperties
<1> QED
  BY <1>1, <1>5, <1>6, <1>7 DEF S

\* Sending: Encrypt keeps to its room and writes no '\0'.
LEMMA SendStep == MessageInv /\ Send => MessageInv'
<1> SUFFICES ASSUME MessageInv, Send PROVE MessageInv'
  OBVIOUS
<1>1. /\ sent' = sent /\ is_enc' = is_enc /\ room' = room /\ text' = text /\ junk' = junk
      /\ pos' = pos /\ type' = type /\ step = "built"
      /\ text = <<>> /\ pos = 1
  BY DEF Send, MessageInv
<1>2. /\ sent \in Texts \union Drafts /\ is_enc \in [Ends -> BOOLEAN] /\ room \in [Ends -> Nat]
      /\ room["sender"] \in Nat
  BY DEF MessageInv, Ends
<1>3. CASE ~is_enc["sender"]
  <2>1. wire' = Bytes(sent) /\ step' = "sent"
    BY <1>3 DEF Send
  <2>2. wire' \in Seq(Byte \ {0})
    BY <1>2, <2>1, SentText
  <2>3. FitsTheRoom'
    BY <1>1, <1>3, UnreadFits DEF FitsTheRoom
  <2>4. TypeOK'
    BY <1>1, <2>1, <2>2 DEF MessageInv, TypeOK
  <2> QED
    BY <1>1, <2>1, <2>3, <2>4 DEF MessageInv
<1>4. CASE is_enc["sender"]
  <2>1. PICK end \in {<<>>, << 0 >>} :
          LET code == Encrypt(Bytes(sent) \o end, room["sender"])
          IN  wire' = code.str /\ step' = IF code.ok THEN "sent" ELSE "unsent"
    BY <1>4 DEF Send
  <2> DEFINE data == Bytes(sent) \o end
             code == Encrypt(data, room["sender"])
  <2>2. wire' = code.str /\ step' = IF code.ok THEN "sent" ELSE "unsent"
    BY <2>1
  <2>3. data \in Seq(Byte)
    BY <1>2, SentText
  <2> HIDE DEF data
  <2>4. /\ code.str \in Seq(Byte \ {0})
        /\ code.ok \in BOOLEAN
        /\ code.ok => Len(code.str) + 1 <= room["sender"]
    BY <1>2, <2>3, EncryptedText
  <2> HIDE DEF code
  <2>5. FitsTheRoom'
    BY <1>1, <2>2, <2>4 DEF FitsTheRoom
  <2>6. TypeOK'
    BY <1>1, <2>2, <2>4 DEF MessageInv, TypeOK
  <2> QED
    BY <1>1, <2>2, <2>5, <2>6 DEF MessageInv
<1> QED
  BY <1>2, <1>3, <1>4

\* Receiving, with whatever follows in the buffer.
LEMMA ReceiveStep == MessageInv /\ Receive => MessageInv'
<1> SUFFICES ASSUME MessageInv, Receive PROVE MessageInv'
  OBVIOUS
<1>1. /\ sent' = sent /\ is_enc' = is_enc /\ room' = room /\ wire' = wire /\ junk' = junk
      /\ pos' = pos /\ type' = type /\ step = "sent" /\ step' = "brace" /\ pos = 1
      /\ ~is_enc["receiver"]
  BY DEF Receive, MessageInv
<1>2. PICK old \in (IF sent \in Texts THEN Leftovers ELSE {<<>>}) : text' = Lexed(wire) \o old
  BY DEF Receive
<1>3. \E L : text' \in Seq(L)
  <2>1. sent \in Seq(Lexeme)
    BY SentText DEF MessageInv
  <2>2. PICK L : Lexed(wire) \in Seq(L)
    BY <2>1, LexedIs
  <2>3. old \in Seq(Lexeme)
    <3>1. <<>> \in Seq(Lexeme)
      OBVIOUS
    <3> QED
      BY <1>2, <3>1, TextsAreLexemes
  <2>4. Lexed(wire) \in Seq(L \cup Lexeme) /\ old \in Seq(L \cup Lexeme)
    BY <2>2, <2>3, SeqMonotonic
  <2>5. Lexed(wire) \o old \in Seq(L \cup Lexeme)
    BY <2>4, ConcatProperties
  <2> QED
    BY <1>2, <2>5
<1>4. FitsTheRoom'
  BY <1>1 DEF MessageInv, FitsTheRoom
<1>5. pos' \in 1 .. (Len(text') + 1)
  <2>1. PICK L : text' \in Seq(L)
    BY <1>3
  <2>2. Len(text') \in Nat
    BY <2>1, LenProperties
  <2> QED
    BY <1>1, <2>2
<1>6. TypeOK'
  BY <1>1, <1>5 DEF MessageInv, TypeOK, LogPos
<1> QED
  BY <1>1, <1>3, <1>4, <1>6 DEF MessageInv

\* Decrypting: Base64Decode keeps to its room.
LEMMA DecodeStep == MessageInv /\ Decode => MessageInv'
<1> SUFFICES ASSUME MessageInv, Decode PROVE MessageInv'
  OBVIOUS
<1> DEFINE data == Decrypt(wire, room["receiver"])
<1>1. /\ sent' = sent /\ is_enc' = is_enc /\ room' = room /\ wire' = wire /\ junk' = junk
      /\ pos' = pos /\ type' = type /\ step = "sent" /\ is_enc["receiver"] /\ pos = 1
      /\ text = <<>>
  BY DEF Decode, MessageInv
<1>2. \/ text' = Lexed(data.str) /\ step' = "brace"
      \/ text' = text /\ step' = "refused"
  BY DEF Decode
<1> HIDE DEF data
<1>3. \E L : text' \in Seq(L)
  <2>1. sent \in Seq(Lexeme)
    BY SentText DEF MessageInv
  <2>2. \E L : Lexed(data.str) \in Seq(L)
    BY <2>1, LexedIs
  <2> QED
    BY <1>2, <2>2 DEF MessageInv
<1>4. FitsTheRoom'
  <2>1. /\ wire \in Seq(Byte \ {0}) /\ room["receiver"] \in Nat
        /\ room["receiver"] % 3 # 0
    <3>1. room \in [Ends -> Rooms] /\ "receiver" \in Ends
      BY <1>1 DEF MessageInv, Ends
    <3>2. room["receiver"] \in Rooms
      BY <3>1
    <3> QED
      BY <3>2, RoomsOdd DEF MessageInv, TypeOK
  <2>2. Len(Base64Decode(wire, room["receiver"]).str) + 1 <= room["receiver"]
    BY <2>1, DataFits
  <2>3. is_enc["sender"] => Len(wire) + 1 <= room["sender"]
    BY <1>1 DEF MessageInv, FitsTheRoom
  <2> QED
    BY <1>1, <2>2, <2>3 DEF FitsTheRoom
<1>5. pos' \in 1 .. (Len(text') + 1)
  <2>1. PICK L : text' \in Seq(L)
    BY <1>3
  <2>2. Len(text') \in Nat
    BY <2>1, LenProperties
  <2> QED
    BY <1>1, <2>2
<1>6. TypeOK'
  BY <1>1, <1>2, <1>5 DEF MessageInv, TypeOK, LogPos
<1>7. step' \notin {"built", "sent", "unsent"}
  BY <1>2
<1> QED
  BY <1>1, <1>3, <1>4, <1>6, <1>7 DEF MessageInv

\* parse goes on behind the token it read, in the text.
LEMMA AdvanceStep == MessageInv /\ Advance => MessageInv'
<1> SUFFICES ASSUME MessageInv, Advance PROVE MessageInv'
  OBVIOUS
<1>1. /\ sent' = sent /\ is_enc' = is_enc /\ room' = room /\ wire' = wire /\ junk' = junk
      /\ text' = text /\ type' = Token.type /\ step \in LogPos /\ step' = After(step)
      /\ ~Token.err /\ pos' = NextPos(step, Token)
  BY DEF Advance, Good
<1>2. PICK L : text \in Seq(L)
  BY DEF MessageInv
<1>3. Within(Token, text, pos) /\ pos \in 1 .. (Len(text) + 1)
  <2>1. Len(text) \in Nat
    BY <1>2, LenProperties
  <2>2. pos \in 1 .. (Len(text) + 1) /\ type \in TokenTypes /\ junk \in TokenTypes
    BY DEF MessageInv, TypeOK
  <2>3. pos \in Nat \ {0}
    BY <2>1, <2>2
  <2> QED
    BY <1>2, <2>2, <2>3, TokenInside DEF Token
<1>4. step' \in LogPos /\ step' \notin {"built", "sent", "unsent"}
  BY <1>1 DEF After, LogPos
<1>5. pos' \in 1 .. (Len(text') + 1)
  <2> DEFINE t == Token
             n == Len(text)
  <2>1. n \in Nat
    BY <1>2, LenProperties
  <2>2. t.first \in pos .. n /\ t.last \in t.first .. n /\ pos \in 1 .. (n + 1)
    BY <1>1, <1>3 DEF Within
  <2>3. pos' = 2 \/ pos' = t.last + 1
    BY <1>1 DEF NextPos
  <2> HIDE DEF t, n
  <2>4. pos' \in 1 .. (n + 1)
    BY <2>1, <2>2, <2>3
  <2> QED
    BY <1>1, <2>4 DEF n
<1>6. TypeOK'
  BY <1>1, <1>3, <1>4, <1>5 DEF MessageInv, TypeOK, Within
<1>7. FitsTheRoom'
  <2>1. step' \notin {"built", "unsent"} /\ step \notin {"built", "unsent"}
    BY <1>1, <1>4 DEF LogPos
  <2> QED
    BY <1>1, <2>1 DEF MessageInv, FitsTheRoom
<1> QED
  BY <1>1, <1>2, <1>4, <1>6, <1>7 DEF MessageInv

\* parse returns.
LEMMA ReturnStep == MessageInv /\ (Finish \/ Refuse) => MessageInv'
<1> SUFFICES ASSUME MessageInv, Finish \/ Refuse PROVE MessageInv'
  OBVIOUS
<1>1. /\ sent' = sent /\ is_enc' = is_enc /\ room' = room /\ wire' = wire /\ junk' = junk
      /\ text' = text /\ pos' = pos /\ type' = type /\ step \in LogPos
      /\ step' \in {"taken", "refused"}
  BY DEF Finish, Refuse
<1>2. step' \notin {"built", "sent", "unsent"} /\ step \notin {"built", "sent", "unsent"}
  BY <1>1 DEF LogPos
<1>3. TypeOK' /\ FitsTheRoom'
  BY <1>1, <1>2 DEF MessageInv, TypeOK, FitsTheRoom
<1> QED
  BY <1>1, <1>2, <1>3 DEF MessageInv

----------------------------------------------------------------------------
\* A search.

\* The bytes that an end puts on the wire for text t.
IsSent(t, bytes, from) ==
    \/ ~is_enc[from] /\ bytes = Bytes(t)
    \/ /\ is_enc[from]
       /\ \E end \in {<<>>, << 0 >>} :
            /\ Encrypt(Bytes(t) \o end, room[from]).ok
            /\ bytes = Encrypt(Bytes(t) \o end, room[from]).str

\* The question and the answer.
LEMMA Words ==
  ASSUME NEW t \in {WHO_S, IM_S}
  PROVE  /\ t \in Texts /\ Opens(t)
         /\ Bytes(t) \in Seq(Byte) /\ Bytes(t) \in Seq(Byte \ {0}) /\ OpensBytes(Bytes(t))
         /\ \A i \in 1 .. Len(Bytes(t)) : Bytes(t)[i] # 170
<1> DEFINE S == Byte \ {0, 170}
<1>1. \A key \in Seq(S), value \in Seq(S) :
        OnePair(key, value) \in Seq(LexemesOf(S)) /\ Opens(OnePair(key, value))
  <2> TAKE key \in Seq(S), value \in Seq(S)
  <2> HIDE DEF S
  <2> DEFINE l1 == [type |-> "{", str |-> <<>>]
             l2 == [type |-> "STR", str |-> key]
             l3 == [type |-> ":", str |-> <<>>]
             l4 == [type |-> " ", str |-> <<>>]
             l5 == [type |-> "STR", str |-> value]
             l6 == [type |-> "}", str |-> <<>>]
  <2>1. OnePair(key, value) = <<l1, l2, l3, l4, l5, l6>>
    BY DEF OnePair
  <2>2. /\ l1 \in LexemesOf(S) /\ l2 \in LexemesOf(S) /\ l3 \in LexemesOf(S)
        /\ l4 \in LexemesOf(S) /\ l5 \in LexemesOf(S) /\ l6 \in LexemesOf(S)
    <3>1. DOMAIN Code = {"{", "}", ":", ",", "[", "]", " ", "quote"}
      BY DEF Code
    <3>2. <<>> \in Seq(S)
      OBVIOUS
    <3> QED
      BY <3>1, <3>2, Zenon DEF LexemesOf
  <2>3. l1.type = "{"
    OBVIOUS
  <2> HIDE DEF l1, l2, l3, l4, l5, l6
  <2>4. <<l1, l2, l3, l4, l5, l6>> \in Seq(LexemesOf(S))
    BY <2>2
  <2>5. <<l1, l2, l3, l4, l5, l6>>[1] = l1 /\ <<l1, l2, l3, l4, l5, l6>> # <<>>
    OBVIOUS
  <2> QED
    BY <2>1, <2>3, <2>4, <2>5, Zenon DEF Opens
<1>2. t \in Seq(LexemesOf(S)) /\ Opens(t)
  <2>1. AskKey \in Seq(S) /\ WhoServer \in Seq(S) /\ AnsKey \in Seq(S) /\ ImServer \in Seq(S)
    BY WordsAreSafe
  <2> HIDE DEF S
  <2> QED
    BY <1>1, <2>1 DEF WHO_S, IM_S
<1>3. Marks \subseteq S
  BY SMT DEF Marks, Byte
<1>4. S \subseteq Byte /\ S \subseteq Byte \ {0} /\ 170 \notin S
  OBVIOUS
<1> HIDE DEF S
<1>5. Bytes(t) \in Seq(S) /\ OpensBytes(Bytes(t))
  BY <1>2, <1>3, BytesIn
<1>6. Bytes(t) \in Seq(Byte) /\ Bytes(t) \in Seq(Byte \ {0})
  BY <1>4, <1>5, SeqMonotonic
<1>7. \A i \in 1 .. Len(Bytes(t)) : Bytes(t)[i] # 170
  <2>1. \A i \in 1 .. Len(Bytes(t)) : Bytes(t)[i] \in S
    BY <1>5, ElementOfSeq
  <2> QED
    BY <1>4, <2>1
<1>8. t \in Texts
  BY QuestionSent
<1> QED
  BY <1>2, <1>5, <1>6, <1>7, <1>8

\* Base64 text of n bytes is decoded in n + 2 bytes.
LEMMA DecodedLength ==
  ASSUME NEW data \in Seq(Byte), NEW size, Encrypt(data, size).ok
  PROVE  (Len(Encrypt(data, size).str) * 3) \div 4 <= Len(data) + 2
<1> DEFINE x == XOR(data)
           n == Len(data)
           q == n \div 3
           k == n % 3
           m == Len(Text64(x))
<1>1. x \in Seq(Byte) /\ Len(x) = n
  BY XOROf
<1>2. Encrypt(data, size).str = Text64(x)
  BY Base64Is DEF Encrypt, Failed, Done
<1>3. Len(Text64(x)) = 4 * q + (IF k = 0 THEN 0 ELSE 4)
  BY <1>1, Text64Of, SMTT(60)
<1>4. n \in Nat /\ q \in Nat /\ k \in 0 .. 2 /\ n = 3 * q + k
  BY LenProperties, SMT
<1> HIDE DEF n, q, k, m, x
<1>5. m = 4 * q + (IF k = 0 THEN 0 ELSE 4)
  BY <1>3 DEF m
<1>6. (m * 3) \div 4 <= n + 2
  BY <1>4, <1>5, SMT
<1> QED
  BY <1>2, <1>6 DEF m, n

\* It has no '\0', fits the room of its end, and is read as it was sent by one
\* that runs in the same mode.
LEMMA SentIsRead ==
  ASSUME MessageInv, NEW t \in {WHO_S, IM_S}, NEW from \in Ends, NEW bytes, IsSent(t, bytes, from)
  PROVE  /\ bytes \in Seq(Byte \ {0})
         /\ is_enc[from] => Len(bytes) + 1 <= room[from]
         /\ is_enc[from] => \A space \in Rooms : Decrypt(bytes, space) = Done(Bytes(t))
         /\ is_enc[from] => ~OpensBytes(bytes)
         /\ ~is_enc[from] => bytes = Bytes(t)
<1>1. /\ Bytes(t) \in Seq(Byte) /\ Bytes(t) \in Seq(Byte \ {0}) /\ OpensBytes(Bytes(t))
      /\ \A i \in 1 .. Len(Bytes(t)) : Bytes(t)[i] # 170
  BY Words
<1>2. CASE ~is_enc[from]
  BY <1>1, <1>2 DEF IsSent
<1>3. CASE is_enc[from]
  <2>1. PICK end \in {<<>>, << 0 >>} :
          /\ Encrypt(Bytes(t) \o end, room[from]).ok
          /\ bytes = Encrypt(Bytes(t) \o end, room[from]).str
    BY <1>3 DEF IsSent
  <2> DEFINE data == Bytes(t) \o end
             n == Len(Bytes(t))
  <2>2. /\ data \in Seq(Byte) /\ data # <<>> /\ Len(data) <= n + 1 /\ Len(data) \in Nat /\ n \in Nat
    <3>1. 0 \in Byte
      BY SMT DEF Byte
    <3>2. <<>> \in Seq(Byte) /\ << 0 >> \in Seq(Byte) /\ Len(<<>>) = 0 /\ Len(<< 0 >>) = 1
      BY <3>1
    <3>3. end \in Seq(Byte) /\ Len(end) \in {0, 1}
      BY <3>2
    <3>4. data \in Seq(Byte) /\ Len(data) = n + Len(end)
      BY <1>1, <3>3, ConcatProperties
    <3>5. n \in Nat /\ n # 0
      BY <1>1, LenProperties, EmptySeq DEF OpensBytes
    <3> DEFINE d == Len(data)
               e == Len(end)
    <3>6. d = n + e /\ (e = 0 \/ e = 1)
      BY <3>3, <3>4
    <3> HIDE DEF data, n, d, e
    <3>7. d # 0 /\ d <= n + 1 /\ d \in Nat
      BY <3>5, <3>6
    <3> QED
      BY <3>4, <3>5, <3>7, EmptySeq DEF d
  <2>3. room[from] \in Nat
    BY DEF MessageInv
  <2>4. Encrypt(data, room[from]).ok /\ bytes = Encrypt(data, room[from]).str
    BY <2>1
  <2>5. bytes \in Seq(Byte \ {0}) /\ Len(bytes) + 1 <= room[from]
    <3> HIDE DEF data
    <3> QED
      BY <2>2, <2>3, <2>4, EncryptedText
  <2>6. ~OpensBytes(bytes)
    <3> SUFFICES ASSUME OpensBytes(bytes) PROVE FALSE
      OBVIOUS
    <3>1. bytes \in Seq(Byte)
      <4>1. Byte \ {0} \subseteq Byte
        OBVIOUS
      <4> QED
        BY <2>5, <4>1, SeqMonotonic
    <3> HIDE DEF data
    <3>2. bytes # <<>> /\ bytes[1] = 123
      BY DEF OpensBytes
    <3>3. \A d \in Seq(Byte) : \A size : Encrypt(d, size).str # bytes
      BY <3>1, <3>2, ModesApart
    <3> QED
      BY <2>2, <2>4, <3>3
  <2>7. ASSUME NEW space \in Rooms PROVE Decrypt(bytes, space) = Done(Bytes(t))
    <3> DEFINE m == (Len(bytes) * 3) \div 4
    <3>1. space \in Nat
      BY RoomsOdd
    <3>2. n + 3 <= space
      BY RoomsSuffice
    <3>3. m <= Len(data) + 2
      <4> HIDE DEF data
      <4> QED
        BY <2>2, <2>4, DecodedLength
    <3>4. Len(bytes) \in Nat
      BY <2>5, LenProperties
    <3>5. m \in Nat
      BY <3>4, SMT
    <3> HIDE DEF m, n
    <3>6. space >= m
      BY <2>2, <3>1, <3>2, <3>3, <3>5
    <3>7. space >= (Len(Encrypt(data, room[from]).str) * 3) \div 4
      BY <2>4, <3>6 DEF m
    <3>8. Bytes(t) \o end # <<>> /\ Encrypt(Bytes(t) \o end, room[from]).ok
      BY <2>2, <2>4
    <3> HIDE DEF data
    <3>9. Decrypt(Encrypt(Bytes(t) \o end, room[from]).str, space) = Done(Bytes(t))
      BY <1>1, <3>1, <3>7, <3>8, RoundTrip, ZenonT(60) DEF data
    <3> QED
      BY <2>4, <3>9 DEF data
  <2> QED
    BY <1>3, <2>5, <2>6, <2>7
<1> QED
  BY <1>2, <1>3

\* Both ends run in one mode.
SameMode == is_enc["sender"] = is_enc["receiver"]

\* Where parse stands in the question at each of its steps, and the place and
\* the type of the token it finds there.
PlaceIn(s) ==
    CASE s = "brace" -> 1 [] s = "first" -> 2 [] s = "colon" -> 3
      [] s = "value" -> 4 [] s = "comma" -> 6
FoundAt(s) == IF s = "value" THEN 5 ELSE PlaceIn(s)

\* The server's parser on its way through the question.
Reading ==
    step \in {"brace", "first", "colon", "value", "comma"} =>
        /\ Len(text) >= 6 /\ \A i \in 1 .. 6 : text[i] = WHO_S[i]
        /\ pos = PlaceIn(step)

\* The question on its way: in one mode it is taken, in two it is refused at
\* its first byte.
Asking ==
    /\ sent = WHO_S
    /\ step \notin {"built", "unsent"} =>
          wire = question /\ IsSent(WHO_S, question, "sender")
    /\ step = "built" => asked = 0
    /\ SameMode =>
          /\ step \in {"built", "sent", "unsent", "brace", "first", "colon", "value",
                       "comma", "taken"}
          /\ Reading
    /\ ~SameMode =>
          /\ step \in {"built", "sent", "unsent", "brace", "refused"}
          /\ step = "brace" =>
                /\ Len(text) >= 1 /\ TypeAt(text, 1) = "?" /\ pos = 1

\* The answer on its way.
Answering ==
    /\ SameMode
    /\ sent = IM_S
    /\ step \in {"built", "sent", "unsent"}
    /\ step = "sent" => IsSent(IM_S, wire, "sender")
    /\ IsSent(WHO_S, question, "receiver")

\* Each broadcast after the first follows a wait in vain or another program's
\* answer.
Counting ==
    /\ count_send < TRIES
    /\ asked <= 1 + count_send + strange
    /\ SameMode => count_send = lost

SearchInv ==
    /\ MessageInv
    /\ phase \in {"none", "asks", "answers", "found", "givenup"}
    /\ {count_send, asked, lost, strange} \subseteq Nat
    /\ phase = "none" => asked = 0
    /\ phase = "asks" => Asking /\ Counting
    /\ phase = "answers" => Answering /\ Counting
    /\ FindsItsServer

\* It holds before the first question.
LEMMA SearchStarts == SearchInit => SearchInv
<1> SUFFICES ASSUME SearchInit PROVE SearchInv
  OBVIOUS
<1>1. MessageInv
  BY MessageInit DEF SearchInit
<1>2. /\ phase = "none" \/ (phase = "asks" /\ sent = WHO_S)
      /\ count_send = 0 /\ asked = 0 /\ lost = 0 /\ strange = 0 /\ step = "built"
  BY DEF SearchInit, Init
<1>3. TRIES \in Nat /\ TRIES >= 1
  BY SearchBounds
<1>4. FindsItsServer
  BY <1>2, <1>3 DEF FindsItsServer
<1>5. Counting
  BY <1>2, <1>3 DEF Counting
<1>6. sent = WHO_S => Asking
  BY <1>2 DEF Asking, Reading
<1> QED
  BY <1>1, <1>2, <1>4, <1>5, <1>6 DEF SearchInv

\* The six lexemes of the question.
LEMMA QuestionIs ==
  /\ WHO_S[1].type = "{" /\ WHO_S[2].type = "STR" /\ WHO_S[3].type = ":"
  /\ WHO_S[4].type = " " /\ WHO_S[5].type = "STR" /\ WHO_S[6].type = "}"
  /\ Len(WHO_S) = 6
<1> DEFINE l1 == [type |-> "{", str |-> <<>>]
           l2 == [type |-> "STR", str |-> AskKey]
           l3 == [type |-> ":", str |-> <<>>]
           l4 == [type |-> " ", str |-> <<>>]
           l5 == [type |-> "STR", str |-> WhoServer]
           l6 == [type |-> "}", str |-> <<>>]
<1>1. WHO_S = <<l1, l2, l3, l4, l5, l6>>
  BY DEF WHO_S, OnePair
<1>2. /\ l1.type = "{" /\ l2.type = "STR" /\ l3.type = ":"
      /\ l4.type = " " /\ l5.type = "STR" /\ l6.type = "}"
  BY Zenon
<1> HIDE DEF l1, l2, l3, l4, l5, l6
<1>3. /\ WHO_S[1] = l1 /\ WHO_S[2] = l2 /\ WHO_S[3] = l3
      /\ WHO_S[4] = l4 /\ WHO_S[5] = l5 /\ WHO_S[6] = l6
      /\ Len(WHO_S) = 6
  BY <1>1
<1> QED
  BY <1>2, <1>3, Zenon

\* Each token of the question is the one that parse wants.
LEMMA QuestionToken ==
  ASSUME MessageInv, Reading, step \in {"brace", "first", "colon", "value", "comma"}
  PROVE  /\ Good
         /\ step = "comma" <=> Token.type = "}"
         /\ step # "comma" =>
              /\ After(step) \in {"first", "colon", "value", "comma"}
              /\ NextPos(step, Token) = PlaceIn(After(step))
<1>1. /\ Len(text) >= 6 /\ \A i \in 1 .. 6 : text[i] = WHO_S[i]
      /\ pos = PlaceIn(step)
  BY DEF Reading
<1>2. PICK L : text \in Seq(L)
  BY DEF MessageInv
<1>3. Len(text) \in Nat /\ DOMAIN text = 1 .. Len(text)
  BY <1>2, LenProperties
<1>4. \A i \in 1 .. 6 : i \in 1 .. Len(text) /\ TypeAt(text, i) = WHO_S[i].type
  <2>1. \A i \in 1 .. 6 : i \in 1 .. Len(text)
    BY <1>1, <1>3
  <2> QED
    BY <1>1, <1>3, <2>1 DEF TypeAt
<1> DEFINE i == PlaceIn(step)
           j == FoundAt(step)
           t == TypeAt(text, j)
<1>5. /\ i \in 1 .. 6 /\ j \in 1 .. 6 /\ j \in {i, i + 1}
      /\ j = i + 1 => i = 4
  BY DEF PlaceIn, FoundAt
<1>6. t = WHO_S[j].type
  BY <1>4, <1>5
<1>7. /\ step = "brace" => t = "{"
      /\ step \in {"first", "value"} => t = "STR"
      /\ step = "colon" => t = ":"
      /\ step = "comma" => t = "}"
  <2>1. step = "brace" => j = 1
    BY DEF FoundAt, PlaceIn
  <2>2. step = "first" => j = 2
    BY DEF FoundAt, PlaceIn
  <2>3. step = "colon" => j = 3
    BY DEF FoundAt, PlaceIn
  <2>4. step = "value" => j = 5
    BY DEF FoundAt, PlaceIn
  <2>5. step = "comma" => j = 6
    BY DEF FoundAt, PlaceIn
  <2> HIDE DEF t, j
  <2> QED
    BY <1>6, <2>1, <2>2, <2>3, <2>4, <2>5, QuestionIs, Zenon
<1>8. j = i + 1 => BlankAt(text, i)
  <2>1. 4 \in 1 .. 6
    OBVIOUS
  <2>2. BlankAt(text, 4)
    BY <1>4, <2>1, QuestionIs, Zenon DEF BlankAt
  <2> QED
    BY <1>5, <2>2
<1>9. i \in 1 .. Len(text) /\ j \in 1 .. Len(text)
  BY <1>4, <1>5
<1> HIDE DEF t, i, j
<1>10. t \in Single
  <2>1. t \in {"{", "STR", ":", "}"}
    BY <1>7, Zenon
  <2> QED
    BY <2>1, Zenon DEF Single
<1>11. Token = TokenOf(t, j, j, FALSE)
  <2>1. GetToken(text, junk, i, type) = TokenOf(t, j, j, FALSE)
    <3>1. j = i \/ (j = i + 1 /\ BlankAt(text, i))
      BY <1>5, <1>8
    <3>2. TypeAt(text, j) \in Single =>
            GetToken(text, junk, i, type) = TokenOf(TypeAt(text, j), j, j, FALSE)
      BY <1>2, <1>9, <3>1, OneLexeme
    <3> QED
      BY <1>10, <3>2 DEF t
  <2> QED
    BY <1>1, <2>1 DEF Token, i
<1>12. Token.type = t /\ Token.last = j /\ Token.err = FALSE
  BY <1>11 DEF TokenOf
<1>13. Good
  <2>1. t \in Wanted(step)
    <3>1. step = "brace" => Wanted(step) = {"{"}
      BY DEF Wanted
    <3>2. step = "first" => Wanted(step) = {"}", "STR"}
      BY DEF Wanted
    <3>3. step = "colon" => Wanted(step) = {":"}
      BY DEF Wanted
    <3>4. step = "value" => Wanted(step) = {"STR", "NUM", "ARRAY"}
      BY DEF Wanted, Values
    <3>5. step = "comma" => Wanted(step) = {"}", ","}
      BY DEF Wanted
    <3> QED
      BY <1>7, <3>1, <3>2, <3>3, <3>4, <3>5, Zenon
  <2> QED
    BY <1>12, <2>1 DEF Good
<1>14. step = "comma" <=> Token.type = "}"
  BY <1>7, <1>12, Zenon
<1>15. ASSUME step # "comma"
       PROVE  /\ After(step) \in {"first", "colon", "value", "comma"}
              /\ NextPos(step, Token) = PlaceIn(After(step))
  BY <1>12, <1>15 DEF After, NextPos, PlaceIn, FoundAt, j
<1> QED
  BY <1>13, <1>14, <1>15

\* No step of a message changes its text, its ends or their rooms.
LEMMA MessageSteps ==
  ASSUME MessageInv, Send \/ Receive \/ Decode \/ Advance \/ Finish \/ Refuse
  PROVE  /\ MessageInv'
         /\ sent' = sent /\ is_enc' = is_enc /\ room' = room
         /\ Send \/ wire' = wire
<1>1. CASE Send
  BY <1>1, SendStep DEF Send
<1>2. CASE Receive
  BY <1>2, ReceiveStep DEF Receive
<1>3. CASE Decode
  BY <1>3, DecodeStep DEF Decode
<1>4. CASE Advance
  BY <1>4, AdvanceStep DEF Advance
<1>5. CASE Finish \/ Refuse
  BY <1>5, ReturnStep DEF Finish, Refuse
<1> QED
  BY <1>1, <1>2, <1>3, <1>4, <1>5

\* What Send puts on the wire.
LEMMA SendIs ==
  ASSUME Send, is_enc \in [Ends -> BOOLEAN]
  PROVE  /\ step = "built" /\ step' \in {"sent", "unsent"}
         /\ step' = "sent" => IsSent(sent, wire', "sender")
<1>1. CASE ~is_enc["sender"]
  BY <1>1 DEF Send, IsSent
<1>2. CASE is_enc["sender"]
  <2>1. PICK end \in {<<>>, << 0 >>} :
          LET code == Encrypt(Bytes(sent) \o end, room["sender"])
          IN  wire' = code.str /\ step' = IF code.ok THEN "sent" ELSE "unsent"
    BY <1>2 DEF Send
  <2> DEFINE code == Encrypt(Bytes(sent) \o end, room["sender"])
  <2>2. wire' = code.str /\ step' = IF code.ok THEN "sent" ELSE "unsent"
    BY <2>1
  <2>3. CASE code.ok
    <3>1. IsSent(sent, wire', "sender")
      BY <1>2, <2>2, <2>3 DEF IsSent
    <3> HIDE DEF code
    <3> QED
      BY <2>2, <2>3, <3>1 DEF Send
  <2>4. CASE ~code.ok
    <3> HIDE DEF code
    <3> QED
      BY <2>2, <2>4 DEF Send
  <2> QED
    BY <2>3, <2>4
<1> QED
  BY <1>1, <1>2

\* The question as the server meets it.
LEMMA QuestionReceived ==
  ASSUME MessageInv, Asking, Receive \/ Decode, question' = question
  PROVE  Asking'
<1>1. /\ step = "sent" /\ sent = WHO_S /\ wire = question /\ IsSent(WHO_S, question, "sender")
      /\ sent' = sent /\ is_enc' = is_enc /\ room' = room /\ wire' = wire /\ pos' = pos
      /\ pos = 1
  BY DEF Asking, Receive, Decode, MessageInv
<1>2. /\ sent \in Seq(Lexeme) /\ Opens(sent) /\ WHO_S \in {WHO_S, IM_S} /\ "sender" \in Ends
      /\ Bytes(WHO_S) \in Seq(Byte) /\ OpensBytes(Bytes(WHO_S))
  BY <1>1, Words, SentText DEF MessageInv, Ends
<1>3. /\ is_enc["sender"] => \A space \in Rooms : Decrypt(wire, space) = Done(Bytes(WHO_S))
      /\ is_enc["sender"] => ~OpensBytes(wire)
      /\ ~is_enc["sender"] => wire = Bytes(WHO_S)
  BY <1>1, <1>2, SentIsRead
<1>4. Len(WHO_S) = 6 /\ WHO_S \in Seq(Lexeme)
  BY <1>1, <1>2, QuestionIs
<1>5. IsSent(WHO_S, question, "sender")'
  BY <1>1 DEF IsSent
<1>6. Lexed(Bytes(WHO_S)) = WHO_S /\ (~OpensBytes(wire) => Lexed(wire) = <<Other(wire)>>)
  BY <1>1, <1>2, LexedIs
<1>7. SameMode' = SameMode /\ SameMode \in BOOLEAN
  BY <1>1 DEF SameMode
<1>8. is_enc["sender"] \in BOOLEAN /\ is_enc["receiver"] \in BOOLEAN
  BY DEF MessageInv, Ends
<1>9. CASE ~is_enc["receiver"]
  <2>1. PICK old \in (IF sent \in Texts THEN Leftovers ELSE {<<>>}) : text' = Lexed(wire) \o old
    BY <1>9 DEF Receive, Decode
  <2>2. step' = "brace"
    BY <1>9 DEF Receive, Decode
  <2>3. old \in Seq(Lexeme)
    <3>1. <<>> \in Seq(Lexeme)
      OBVIOUS
    <3> QED
      BY <2>1, <3>1, TextsAreLexemes
  <2>4. CASE SameMode
    <3>1. text' = WHO_S \o old
      BY <1>3, <1>6, <1>9, <2>1, <2>4 DEF SameMode
    <3>2. Len(text') >= 6 /\ \A i \in 1 .. 6 : text'[i] = WHO_S[i]
      <4> DEFINE both == WHO_S \o old
                 n == Len(old)
                 m == Len(WHO_S)
      <4>3. /\ Len(both) = m + n /\ n \in Nat
            /\ \A i \in 1 .. m + n : both[i] = IF i <= m THEN WHO_S[i] ELSE old[i - m]
        BY <1>4, <2>3, ConcatProperties, LenProperties, ZenonT(60)
      <4>4. m = 6
        BY <1>4
      <4> HIDE DEF m
      <4>1. /\ Len(both) = 6 + n /\ n \in Nat
            /\ \A i \in 1 .. 6 + n : both[i] = IF i <= 6 THEN WHO_S[i] ELSE old[i - 6]
        BY <4>3, <4>4
      <4> HIDE DEF both, n
      <4>2. Len(both) >= 6 /\ \A i \in 1 .. 6 : both[i] = WHO_S[i]
        BY <4>1
      <4> QED
        BY <3>1, <4>2 DEF both
    <3>3. Reading'
      BY <1>1, <2>2, <3>2 DEF Reading, PlaceIn
    <3> QED
      BY <1>1, <1>5, <1>7, <2>2, <2>4, <3>3 DEF Asking
  <2>5. CASE ~SameMode
    <3>1. text' = <<Other(wire)>> \o old
      BY <1>3, <1>6, <1>8, <1>9, <2>1, <2>5 DEF SameMode
    <3>2. Len(text') >= 1 /\ TypeAt(text', 1) = "?"
      <4> DEFINE l == Other(wire)
                 L == Lexeme \union {l}
                 n == Len(old)
      <4>1. l.type = "?"
        BY DEF Other
      <4> HIDE DEF l
      <4>2. old \in Seq(L) /\ <<l>> \in Seq(L) /\ Len(<<l>>) = 1 /\ <<l>>[1] = l
        <5>1. Lexeme \subseteq L
          OBVIOUS
        <5>2. old \in Seq(L)
          BY <2>3, <5>1, SeqMonotonic
        <5>3. <<l>> \in Seq(L)
          OBVIOUS
        <5> QED
          BY <5>2, <5>3
      <4> HIDE DEF L
      <4> DEFINE both == <<l>> \o old
      <4>3. /\ both \in Seq(L) /\ Len(both) = 1 + n /\ n \in Nat
            /\ \A i \in 1 .. 1 + n : both[i] = IF i <= 1 THEN <<l>>[i] ELSE old[i - 1]
        BY <4>2, ConcatProperties, LenProperties
      <4>4. text' = both
        BY <3>1 DEF l
      <4> HIDE DEF both, n
      <4>5. Len(both) >= 1 /\ both[1] = l /\ 1 \in DOMAIN both
        BY <4>2, <4>3, LenProperties
      <4> QED
        BY <4>1, <4>4, <4>5 DEF TypeAt
    <3> QED
      BY <1>1, <1>5, <1>7, <2>2, <2>5, <3>2 DEF Asking
  <2> QED
    BY <2>4, <2>5
<1>10. CASE is_enc["receiver"]
  <2> DEFINE data == Decrypt(wire, room["receiver"])
  <2>1. /\ data.ok => text' = Lexed(data.str) /\ step' = "brace"
        /\ ~data.ok => step' = "refused"
    BY <1>10 DEF Receive, Decode
  <2>2. room["receiver"] \in Rooms /\ room["receiver"] \in Nat
    BY <1>10 DEF MessageInv, Ends
  <2>3. CASE SameMode
    <3>1. data = Done(Bytes(WHO_S))
      BY <1>3, <1>10, <2>2, <2>3 DEF SameMode
    <3>2. data.ok /\ data.str = Bytes(WHO_S)
      BY <3>1 DEF Done
    <3>3. text' = WHO_S /\ step' = "brace"
      BY <1>6, <2>1, <3>2
    <3>5. Len(text') >= 6 /\ \A i \in 1 .. 6 : text'[i] = WHO_S[i]
      BY <1>4, <3>3, SMTT(60)
    <3>4. Reading'
      BY <1>1, <3>3, <3>5 DEF Reading, PlaceIn
    <3> QED
      BY <1>1, <1>5, <1>7, <2>3, <3>3, <3>4 DEF Asking
  <2>4. CASE ~SameMode
    <3>1. wire = Bytes(WHO_S)
      BY <1>3, <1>8, <1>10, <2>4 DEF SameMode
    <3>2. ~data.ok
      BY <1>2, <2>2, <3>1, ModesApart DEF OpensBytes
    <3>3. step' = "refused"
      BY <2>1, <3>2
    <3> QED
      BY <1>1, <1>5, <1>7, <2>4, <3>3 DEF Asking
  <2> QED
    BY <2>3, <2>4
<1> QED
  BY <1>8, <1>9, <1>10

\* One step of a message that is no part of a search, or of one of its own.
LEMMA OnItsWayStep == SearchInv /\ OnItsWay => SearchInv'
<1> SUFFICES ASSUME SearchInv, OnItsWay PROVE SearchInv'
  OBVIOUS
<1>1. /\ MessageInv
      /\ \/ Send
         \/ phase # "answers" /\ (Receive \/ Decode)
         \/ Advance \/ Finish \/ Refuse
      /\ phase' = phase /\ count_send' = count_send /\ lost' = lost /\ strange' = strange
      /\ phase = "asks" /\ step = "built" => question' = wire' /\ asked' = 1
      /\ ~(phase = "asks" /\ step = "built") => question' = question /\ asked' = asked
  BY DEF SearchInv, OnItsWay
<1>2. /\ MessageInv' /\ sent' = sent /\ is_enc' = is_enc /\ room' = room
      /\ Send \/ wire' = wire
  BY <1>1, MessageSteps
<1>3. SameMode' = SameMode /\ is_enc \in [Ends -> BOOLEAN]
  BY <1>1, <1>2 DEF SameMode, MessageInv
<1>4. TRIES \in Nat /\ TRIES >= 1
  BY SearchBounds
<1>5. {count_send', asked', lost', strange'} \subseteq Nat
  BY <1>1 DEF SearchInv
<1>6. FindsItsServer'
  <2>1. asked' <= TRIES + strange
    BY <1>1, <1>4 DEF SearchInv, FindsItsServer
  <2> QED
    BY <1>1, <1>2, <2>1 DEF SearchInv, FindsItsServer
<1>7. CASE phase = "asks" /\ step = "built"
  <2>1. Send
    BY <1>1, <1>7 DEF Receive, Decode, Advance, Finish, Refuse, LogPos
  <2>2. /\ step' \in {"sent", "unsent"}
        /\ step' = "sent" => IsSent(sent, wire', "sender")
    BY <1>3, <2>1, SendIs
  <2>3. sent = WHO_S /\ question' = wire'
    BY <1>1, <1>7 DEF SearchInv, Asking
  <2>4. step' = "sent" => IsSent(WHO_S, question, "sender")'
    BY <1>2, <2>2, <2>3 DEF IsSent
  <2>5. Asking'
    BY <1>2, <1>3, <2>2, <2>3, <2>4 DEF Asking, Reading
  <2>6. Counting'
    BY <1>1, <1>3, <1>7 DEF SearchInv, Counting
  <2> QED
    BY <1>1, <1>2, <1>5, <1>6, <1>7, <2>5, <2>6 DEF SearchInv
<1>8. CASE phase = "asks" /\ step # "built"
  <2>1. question' = question /\ asked' = asked /\ Asking
    BY <1>1, <1>8 DEF SearchInv
  <2>2. Counting'
    BY <1>1, <1>3, <1>8, <2>1 DEF SearchInv, Counting
  <2>3. Receive \/ Decode \/ Advance \/ Finish \/ Refuse
    BY <1>1, <1>8 DEF Send
  <2>4. Asking'
    <3>1. CASE Receive \/ Decode
      BY <1>1, <2>1, <3>1, QuestionReceived
    <3>2. CASE Advance \/ Finish \/ Refuse
      <4>1. step \in LogPos /\ text' = text /\ wire' = wire
        BY <3>2 DEF Advance, Finish, Refuse
      <4>2. sent = WHO_S /\ wire = question /\ IsSent(WHO_S, question, "sender")
        BY <2>1, <4>1 DEF Asking, LogPos
      <4>3. sent' = WHO_S /\ wire' = question' /\ IsSent(WHO_S, question, "sender")'
        BY <1>2, <2>1, <4>1, <4>2 DEF IsSent
      <4>4. CASE SameMode
        <5>1. Reading /\ step \in {"brace", "first", "colon", "value", "comma"}
          BY <2>1, <4>1, <4>4 DEF Asking, LogPos
        <5>2. /\ Good
              /\ step = "comma" <=> Token.type = "}"
              /\ step # "comma" =>
                   /\ After(step) \in {"first", "colon", "value", "comma"}
                   /\ NextPos(step, Token) = PlaceIn(After(step))
          BY <1>1, <5>1, QuestionToken
        <5>3. CASE Finish
          <6>1. step' = "taken"
            BY <5>3 DEF Finish
          <6> QED
            BY <1>3, <4>3, <4>4, <6>1 DEF Asking, Reading
        <5>4. CASE Advance
          <6>1. /\ step' \in {"first", "colon", "value", "comma"} /\ pos' = PlaceIn(step')
            BY <5>2, <5>4 DEF Advance
          <6>2. Reading'
            BY <4>1, <5>1, <6>1 DEF Reading
          <6> QED
            BY <1>3, <4>3, <4>4, <6>1, <6>2 DEF Asking
        <5> QED
          BY <3>2, <5>2, <5>3, <5>4 DEF Refuse
      <4>5. CASE ~SameMode
        <5>1. step = "brace" /\ Len(text) >= 1 /\ TypeAt(text, 1) = "?" /\ pos = 1
          BY <2>1, <4>1, <4>5 DEF Asking, LogPos
        <5>2. PICK L : text \in Seq(L)
          BY <1>1 DEF MessageInv
        <5>3. 1 \in 1 .. Len(text)
          BY <5>1, <5>2, LenProperties
        <5>4. Token.err
          BY <5>1, <5>2, <5>3, OneLexeme DEF Token
        <5>5. step' = "refused"
          BY <3>2, <5>4 DEF Advance, Finish, Refuse, Good
        <5> QED
          BY <1>3, <4>3, <4>5, <5>5 DEF Asking
      <4> QED
        BY <4>4, <4>5
    <3> QED
      BY <2>3, <3>1, <3>2
  <2> QED
    BY <1>1, <1>2, <1>5, <1>6, <1>8, <2>2, <2>4 DEF SearchInv
<1>9. CASE phase = "answers"
  <2>1. Answering /\ question' = question /\ asked' = asked
    BY <1>1, <1>9 DEF SearchInv
  <2>2. Send
    BY <1>1, <1>9, <2>1 DEF Answering, Advance, Finish, Refuse, LogPos
  <2>3. /\ step' \in {"sent", "unsent"}
        /\ step' = "sent" => IsSent(sent, wire', "sender")
    BY <1>3, <2>2, SendIs
  <2>4. /\ step' = "sent" => IsSent(IM_S, wire, "sender")'
        /\ IsSent(WHO_S, question, "receiver")'
    BY <1>2, <2>1, <2>3 DEF IsSent, Answering
  <2>5. Answering'
    BY <1>2, <1>3, <2>1, <2>3, <2>4 DEF Answering
  <2>6. Counting'
    BY <1>1, <1>3, <1>9, <2>1 DEF SearchInv, Counting
  <2> QED
    BY <1>1, <1>2, <1>5, <1>6, <1>9, <2>5, <2>6 DEF SearchInv
<1>10. CASE phase \notin {"asks", "answers"}
  BY <1>1, <1>2, <1>5, <1>6, <1>10 DEF SearchInv
<1> QED
  BY <1>7, <1>8, <1>9, <1>10

\* The two ends change places.
LEMMA SwapsEnds ==
  ASSUME MessageInv, is_enc' = Swapped(is_enc), room' = Swapped(room)
  PROVE  /\ is_enc' \in [Ends -> BOOLEAN] /\ room' \in [Ends -> Nat]
         /\ (\E e \in Ends : is_enc'[e]) => room' \in [Ends -> Rooms]
         /\ is_enc'["sender"] = is_enc["receiver"] /\ room'["sender"] = room["receiver"]
         /\ is_enc'["receiver"] = is_enc["sender"] /\ room'["receiver"] = room["sender"]
<1>1. /\ is_enc \in [Ends -> BOOLEAN] /\ room \in [Ends -> Nat]
      /\ (\E e \in Ends : is_enc[e]) => room \in [Ends -> Rooms]
  BY DEF MessageInv
<1>2. /\ is_enc'["sender"] = is_enc["receiver"] /\ room'["sender"] = room["receiver"]
      /\ is_enc'["receiver"] = is_enc["sender"] /\ room'["receiver"] = room["sender"]
      /\ DOMAIN is_enc' = Ends /\ DOMAIN room' = Ends
  BY DEF Swapped, Ends
<1>3. \A S, f : f \in [Ends -> S] => Swapped(f) \in [Ends -> S]
  BY DEF Swapped, Ends
<1>4. (\E e \in Ends : is_enc'[e]) => \E e \in Ends : is_enc[e]
  BY <1>2 DEF Ends
<1> QED
  BY <1>1, <1>2, <1>3, <1>4

\* The question goes out again as it went out first.
LEMMA AskAgainStep ==
  ASSUME SearchInv, AskAgain,
         \/ phase = "asks" /\ step \notin {"built", "unsent"}
         \/ phase = "answers"
  PROVE  MessageInv' /\ Asking' /\ SameMode' = SameMode /\ SameMode \in BOOLEAN
<1>1. /\ phase' = "asks" /\ sent' = WHO_S /\ wire' = question /\ step' = "sent"
      /\ text' = <<>> /\ pos' = 1 /\ type' = junk /\ junk' = junk /\ question' = question
      /\ phase = "answers" => is_enc' = Swapped(is_enc) /\ room' = Swapped(room)
      /\ phase # "answers" => is_enc' = is_enc /\ room' = room
  BY DEF AskAgain, FreshParser
<1>2. MessageInv
  BY DEF SearchInv
<1>3. /\ is_enc' \in [Ends -> BOOLEAN] /\ room' \in [Ends -> Nat]
      /\ (\E e \in Ends : is_enc'[e]) => room' \in [Ends -> Rooms]
      /\ SameMode' = SameMode
  BY <1>1, <1>2, SwapsEnds DEF MessageInv, SameMode
<1>4. PICK from \in Ends :
        /\ is_enc'["sender"] = is_enc[from] /\ room'["sender"] = room[from]
        /\ IsSent(WHO_S, question, from)
  <2>1. CASE phase = "answers"
    BY <1>1, <1>2, <2>1, SwapsEnds DEF SearchInv, Answering, Ends
  <2>2. CASE phase = "asks" /\ step \notin {"built", "unsent"}
    BY <1>1, <2>2 DEF SearchInv, Asking, Ends
  <2> QED
    BY <2>1, <2>2
<1>5. question \in Seq(Byte \ {0}) /\ (is_enc[from] => Len(question) + 1 <= room[from])
  <2>1. WHO_S \in {WHO_S, IM_S}
    OBVIOUS
  <2> QED
    BY <1>2, <1>4, <2>1, SentIsRead
<1>6. IsSent(WHO_S, question, "sender")'
  BY <1>1, <1>4 DEF IsSent
<1>7. Asking'
  BY <1>1, <1>6 DEF Asking, Reading
<1>8. FitsTheRoom'
  <2>1. is_enc'["sender"] => Len(wire') + 1 <= room'["sender"]
    BY <1>1, <1>4, <1>5
  <2> QED
    BY <1>1, <2>1 DEF FitsTheRoom
<1>9. WHO_S \in Texts
  BY QuestionSent
<1>10. MessageInv'
  <2>1. \E L : text' \in Seq(L)
    <3>1. <<>> \in Seq({})
      OBVIOUS
    <3> QED
      BY <1>1, <3>1
  <2>2. pos' \in 1 .. (Len(text') + 1)
    <3>1. Len(text') = 0
      BY <1>1
    <3> QED
      BY <1>1, <3>1
  <2>3. junk \in TokenTypes
    BY <1>2 DEF MessageInv
  <2>4. TypeOK'
    BY <1>1, <1>5, <2>2, <2>3 DEF TypeOK
  <2> QED
    BY <1>1, <1>3, <1>8, <1>9, <2>1, <2>3, <2>4 DEF MessageInv
<1>11. SameMode \in BOOLEAN
  BY DEF SameMode
<1> QED
  BY <1>3, <1>7, <1>10, <1>11

\* An unchanged message.
LEMMA MessageStays ==
  ASSUME MessageInv, UNCHANGED vars
  PROVE  MessageInv' /\ SameMode' = SameMode
  BY DEF MessageInv, vars, TypeOK, FitsTheRoom, SameMode

\* A wait in vain: in one mode each costs a lost message.
LEMMA TimeoutStep ==
  ASSUME SearchInv, Timeout, strange' = strange, lost' \in Nat,
         SameMode => lost' = lost + 1,
         \/ phase = "asks" /\ step \notin {"built", "unsent"}
         \/ phase = "answers"
  PROVE  SearchInv'
<1>1. /\ count_send' = count_send + 1
      /\ count_send' = TRIES => GiveUp
      /\ count_send' # TRIES => AskAgain
  BY DEF Timeout
<1>2. /\ Counting /\ MessageInv
      /\ count_send \in Nat /\ asked \in Nat /\ lost \in Nat /\ strange \in Nat
  BY DEF SearchInv
<1>3. TRIES \in Nat /\ TRIES >= 1
  BY SearchBounds
<1>4. CASE count_send' = TRIES
  <2>1. phase' = "givenup" /\ asked' = asked /\ UNCHANGED vars
    BY <1>1, <1>4 DEF GiveUp
  <2>2. MessageInv' /\ SameMode' = SameMode
    BY <1>2, <2>1, MessageStays
  <2>3. SameMode => lost' = TRIES
    BY <1>1, <1>2, <1>4 DEF Counting
  <2>4. asked' <= TRIES + strange'
    BY <1>1, <1>2, <1>4, <2>1 DEF Counting
  <2>5. FindsItsServer'
    BY <2>1, <2>2, <2>3, <2>4 DEF FindsItsServer, SameMode
  <2> QED
    BY <1>1, <1>2, <2>1, <2>2, <2>5 DEF SearchInv
<1>5. CASE count_send' # TRIES
  <2>1. AskAgain
    BY <1>1, <1>5
  <2>2. MessageInv' /\ Asking' /\ SameMode' = SameMode
    BY <2>1, AskAgainStep
  <2>3. phase' = "asks" /\ asked' = asked + 1
    BY <2>1 DEF AskAgain
  <2>4. Counting'
    BY <1>1, <1>2, <1>3, <1>5, <2>2, <2>3 DEF Counting
  <2>5. FindsItsServer'
    <3>1. asked' <= TRIES + strange'
      BY <1>1, <1>2, <1>3, <1>5, <2>3 DEF Counting
    <3> QED
      BY <2>3, <3>1 DEF FindsItsServer
  <2> QED
    BY <1>1, <1>2, <2>2, <2>3, <2>4, <2>5 DEF SearchInv
<1> QED
  BY <1>4, <1>5

\* In one mode the client reads the server's answer as it was sent.
LEMMA NeverMisread ==
  ASSUME SearchInv, phase = "answers", step = "sent"
  PROVE  Received = Done(Bytes(IM_S))
<1>1. SameMode /\ IsSent(IM_S, wire, "sender") /\ MessageInv
  BY DEF SearchInv, Answering
<1>2. /\ is_enc["sender"] => \A space \in Rooms : Decrypt(wire, space) = Done(Bytes(IM_S))
      /\ ~is_enc["sender"] => wire = Bytes(IM_S)
  <2>1. IM_S \in {WHO_S, IM_S} /\ "sender" \in Ends
    BY DEF Ends
  <2> QED
    BY <1>1, <2>1, SentIsRead
<1>3. is_enc["receiver"] => room["receiver"] \in Rooms
  BY <1>1 DEF MessageInv, Ends
<1> QED
  BY <1>1, <1>2, <1>3 DEF SameMode, Received

\* The server answers what it took.
LEMMA AnswerStep == SearchInv /\ Answer => SearchInv'
<1> SUFFICES ASSUME SearchInv, Answer PROVE SearchInv'
  OBVIOUS
<1>1. /\ phase = "asks" /\ step = "taken" /\ phase' = "answers"
      /\ sent' = IM_S /\ wire' = <<>> /\ step' = "built"
      /\ is_enc' = Swapped(is_enc) /\ room' = Swapped(room)
      /\ text' = <<>> /\ pos' = 1 /\ type' = junk /\ junk' = junk
      /\ question' = question /\ count_send' = count_send /\ asked' = asked
      /\ lost' = lost /\ strange' = strange
  BY DEF Answer, FreshParser
<1>2. MessageInv /\ Asking /\ Counting /\ {count_send, asked, lost, strange} \subseteq Nat
  BY <1>1 DEF SearchInv
<1>3. /\ is_enc' \in [Ends -> BOOLEAN] /\ room' \in [Ends -> Nat]
      /\ (\E e \in Ends : is_enc'[e]) => room' \in [Ends -> Rooms]
      /\ is_enc'["sender"] = is_enc["receiver"] /\ room'["sender"] = room["receiver"]
      /\ is_enc'["receiver"] = is_enc["sender"] /\ room'["receiver"] = room["sender"]
  BY <1>1, <1>2, SwapsEnds
<1>4. SameMode /\ SameMode'
  <2>1. SameMode
    BY <1>1, <1>2 DEF Asking
  <2> QED
    BY <1>3, <2>1 DEF SameMode
<1>5. IsSent(WHO_S, question, "receiver")'
  <2>1. IsSent(WHO_S, question, "sender")
    BY <1>1, <1>2 DEF Asking
  <2> QED
    BY <1>1, <1>3, <2>1 DEF IsSent
<1>6. Answering'
  BY <1>1, <1>4, <1>5 DEF Answering
<1>7. Counting'
  BY <1>1, <1>2, <1>4 DEF Counting
<1>8. FindsItsServer'
  BY <1>1 DEF SearchInv, FindsItsServer
<1>9. MessageInv'
  <2>1. \E L : text' \in Seq(L)
    <3>1. <<>> \in Seq({})
      OBVIOUS
    <3> QED
      BY <1>1, <3>1
  <2>2. pos' \in 1 .. (Len(text') + 1)
    <3>1. Len(text') = 0
      BY <1>1
    <3> QED
      BY <1>1, <3>1
  <2>3. junk \in TokenTypes /\ IM_S \in Texts
    BY <1>2, QuestionSent DEF MessageInv
  <2>4. wire' \in Seq(Byte \ {0})
    BY <1>1
  <2>5. TypeOK'
    BY <1>1, <2>2, <2>3, <2>4 DEF TypeOK
  <2>6. FitsTheRoom'
    BY <1>1 DEF FitsTheRoom
  <2> QED
    BY <1>1, <1>3, <2>1, <2>3, <2>5, <2>6 DEF MessageInv
<1> QED
  BY <1>1, <1>2, <1>6, <1>7, <1>8, <1>9 DEF SearchInv

\* Every step of a search, and of a message that is none, keeps it.
LEMMA SearchStep == SearchInv /\ [SearchNext]_allvars => SearchInv'
<1> SUFFICES ASSUME SearchInv, [SearchNext]_allvars PROVE SearchInv'
  OBVIOUS
<1>1. CASE OnItsWay
  BY <1>1, OnItsWayStep
<1>2. CASE Lose
  <2>1. /\ phase \in {"asks", "answers"} /\ step = "sent"
        /\ Timeout /\ lost' = lost + 1 /\ strange' = strange
    BY <1>2 DEF Lose
  <2>2. lost' \in Nat
    BY <2>1 DEF SearchInv
  <2> QED
    BY <2>1, <2>2, TimeoutStep
<1>3. CASE NotUnderstood
  <2>1. /\ phase = "asks" /\ step = "refused"
        /\ Timeout /\ lost' = lost /\ strange' = strange
    BY <1>3 DEF NotUnderstood
  <2>2. lost' \in Nat /\ ~SameMode
    BY <2>1 DEF SearchInv, Asking
  <2> QED
    BY <2>1, <2>2, TimeoutStep
<1>4. CASE Answer
  BY <1>4, AnswerStep
<1>5. CASE Found
  <2>1. /\ phase = "answers" /\ phase' = "found" /\ UNCHANGED vars
        /\ count_send' = count_send /\ asked' = asked /\ lost' = lost /\ strange' = strange
    BY <1>5 DEF Found
  <2>2. MessageInv' /\ SameMode' = SameMode /\ SameMode
    BY <2>1, MessageStays DEF SearchInv, Answering
  <2>3. FindsItsServer'
    BY <2>1, <2>2 DEF SearchInv, FindsItsServer, SameMode
  <2> QED
    BY <2>1, <2>2, <2>3 DEF SearchInv
<1>6. CASE NotTheServer
  <2>1. /\ phase \in {"asks", "answers"} /\ step = "sent" /\ AskAgain
        /\ count_send' = count_send /\ lost' = lost
    BY <1>6 DEF NotTheServer, Foreign
  <2>2. strange' = strange + 1
    <3>1. ~(phase = "answers" /\ Received # Done(Bytes(IM_S)))
      BY <2>1, NeverMisread
    <3> QED
      BY <1>6, <3>1 DEF NotTheServer, Foreign
  <2>3. MessageInv' /\ Asking' /\ SameMode' = SameMode
    BY <2>1, AskAgainStep
  <2>4. phase' = "asks" /\ asked' = asked + 1
    BY <2>1 DEF AskAgain
  <2>5. /\ Counting /\ TRIES \in Nat
        /\ count_send \in Nat /\ asked \in Nat /\ lost \in Nat /\ strange \in Nat
    BY <2>1, SearchBounds DEF SearchInv
  <2>6. Counting'
    BY <2>1, <2>2, <2>3, <2>4, <2>5 DEF Counting
  <2>7. FindsItsServer'
    <3>1. asked' <= TRIES + strange'
      BY <2>2, <2>4, <2>5 DEF Counting
    <3> QED
      BY <2>4, <3>1 DEF FindsItsServer
  <2> QED
    BY <2>1, <2>2, <2>3, <2>4, <2>5, <2>6, <2>7 DEF SearchInv
<1>7. CASE CallFails
  <2>1. /\ phase = "asks" /\ phase' = "givenup" /\ UNCHANGED vars
        /\ count_send' = count_send /\ asked' = asked /\ lost' = lost /\ strange' = strange
    BY <1>7 DEF CallFails, GiveUp
  <2>2. MessageInv'
    BY <2>1, MessageStays DEF SearchInv
  <2>3. FindsItsServer'
    BY <2>1 DEF SearchInv, FindsItsServer, Counting
  <2> QED
    BY <2>1, <2>2, <2>3 DEF SearchInv
<1>8. CASE UNCHANGED allvars
  <2>1. UNCHANGED vars /\ UNCHANGED search
    BY <1>8 DEF allvars
  <2>2. MessageInv' /\ SameMode' = SameMode
    BY <2>1, MessageStays DEF SearchInv
  <2>3. Asking => Asking'
    BY <2>1 DEF Asking, Reading, SameMode, IsSent, vars, search
  <2>4. Answering => Answering'
    BY <2>1 DEF Answering, SameMode, IsSent, vars, search
  <2>5. Counting => Counting'
    BY <2>1, <2>2 DEF Counting, search
  <2>6. FindsItsServer => FindsItsServer'
    BY <2>1 DEF FindsItsServer, vars, search
  <2> QED
    BY <2>1, <2>2, <2>3, <2>4, <2>5, <2>6 DEF SearchInv, search
<1> QED
  BY <1>1, <1>2, <1>3, <1>4, <1>5, <1>6, <1>7, <1>8 DEF SearchNext

\* The inductive invariant of a search, and of every message.
THEOREM AlwaysSearchInv == SearchSpec => []SearchInv
<1>1. SearchInit => SearchInv
  BY SearchStarts
<1>2. SearchInv /\ [SearchNext]_allvars => SearchInv'
  BY SearchStep
<1> QED
  BY <1>1, <1>2, PTL DEF SearchSpec

\* parse (jparce.c 300-340) never leaves the text it reads, whatever that is, and
\* neither Encrypt nor Decrypt (encrypt.c 90, 157) the room it was given.
THEOREM NothingIsLeft == SearchSpec => []StaysInside
<1>1. SearchInv => StaysInside
  BY DEF SearchInv, MessageInv, StaysInside
<1> QED
  BY <1>1, AlwaysSearchInv, PTL

\* recvDataServer (broadcast.c 109-138) finds a server of its own mode only, gives
\* up on one only after TRIES lost messages or a failed call, and asks at most
\* TRIES times and once more for each answer of another program: a server of the
\* other mode never answers and an answer is never misread.
THEOREM FindsServer == SearchSpec => []FindsItsServer
<1>1. SearchInv => FindsItsServer
  BY DEF SearchInv
<1> QED
  BY <1>1, AlwaysSearchInv, PTL

----------------------------------------------------------------------------
\* What follows what in a text, and how deep in arrays it stands.

\* Follows in the terms of TypeAt, and where it applies.
LEMMA FollowsIs ==
  ASSUME NEW L, NEW t \in Seq(L), NEW i, NEW j
  PROVE  Follows(t, i, j) <=>
           /\ i \in 1 .. Len(t) /\ j \in 1 .. Len(t) /\ i < j
           /\ ~BlankAt(t, i) /\ ~BlankAt(t, j)
           /\ \A b \in (i + 1) .. (j - 1) : BlankAt(t, b)
<1>1. DOMAIN t = 1 .. Len(t) /\ Len(t) \in Nat
  BY LenProperties
<1>2. \A k \in 1 .. Len(t) : t[k].type = " " <=> BlankAt(t, k)
  BY <1>1, Zenon DEF BlankAt, TypeAt
<1>3. CASE i \in 1 .. Len(t) /\ j \in 1 .. Len(t) /\ i < j
  <2>1. \A b \in (i + 1) .. (j - 1) : b \in 1 .. Len(t)
    BY <1>1, <1>3
  <2> QED
    BY <1>1, <1>2, <1>3, <2>1, Zenon DEF Follows
<1>4. CASE ~(i \in 1 .. Len(t) /\ j \in 1 .. Len(t) /\ i < j)
  BY <1>1, <1>4, Zenon DEF Follows
<1> QED
  BY <1>3, <1>4

\* Place l is the last one before p, blanks apart.
LastBefore(t, p, l) ==
    /\ l \in 1 .. (p - 1) /\ ~BlankAt(t, l)
    /\ \A b \in (l + 1) .. (p - 1) : BlankAt(t, b)

\* Place s is the first one from p on, blanks apart.
FirstFrom(t, p, s) ==
    /\ s \in p .. Len(t) /\ ~BlankAt(t, s)
    /\ \A b \in p .. (s - 1) : BlankAt(t, b)

\* The first place from p on follows the last one before it, and no other pair
\* of places is new.
LEMMA NextPair ==
  ASSUME NEW L, NEW t \in Seq(L), NEW p \in 1 .. (Len(t) + 1), NEW l, NEW s,
         LastBefore(t, p, l), FirstFrom(t, p, s)
  PROVE  /\ Follows(t, l, s)
         /\ \A i, j \in 1 .. s : Follows(t, i, j) =>
              (i \in 1 .. (p - 1) /\ j \in 1 .. (p - 1)) \/ (i = l /\ j = s)
         /\ \A j : Follows(t, l, j) => j = s
         /\ LastBefore(t, s + 1, s)
<1>1. Len(t) \in Nat /\ p \in 1 .. (Len(t) + 1)
  BY LenProperties
<1>2. /\ l \in 1 .. (p - 1) /\ ~BlankAt(t, l) /\ \A b \in (l + 1) .. (p - 1) : BlankAt(t, b)
      /\ s \in p .. Len(t) /\ ~BlankAt(t, s) /\ \A b \in p .. (s - 1) : BlankAt(t, b)
  BY DEF LastBefore, FirstFrom
<1>3. l \in 1 .. Len(t) /\ s \in 1 .. Len(t) /\ l < s
  BY <1>1, <1>2
<1>4. Follows(t, l, s)
  <2>1. ASSUME NEW b \in (l + 1) .. (s - 1) PROVE BlankAt(t, b)
    <3>1. b \in (l + 1) .. (p - 1) \/ b \in p .. (s - 1)
      BY <1>1, <1>2
    <3> QED
      BY <1>2, <3>1
  <2> QED
    BY <1>2, <1>3, <2>1, FollowsIs
<1>5. ASSUME NEW i \in 1 .. s, NEW j \in 1 .. s, Follows(t, i, j)
      PROVE  (i \in 1 .. (p - 1) /\ j \in 1 .. (p - 1)) \/ (i = l /\ j = s)
  <2>1. /\ i \in 1 .. Len(t) /\ j \in 1 .. Len(t) /\ i < j /\ ~BlankAt(t, i) /\ ~BlankAt(t, j)
        /\ \A b \in (i + 1) .. (j - 1) : BlankAt(t, b)
    BY <1>5, FollowsIs
  <2>2. CASE j < p
    BY <1>1, <2>1, <2>2
  <2>3. CASE ~(j < p)
    <3>1. j = s
      <4> SUFFICES ASSUME j # s PROVE FALSE
        OBVIOUS
      <4>1. j \in p .. (s - 1)
        BY <1>1, <1>2, <1>5, <2>3
      <4> QED
        BY <1>2, <2>1, <4>1
    <3>2. ~(i < l)
      <4> SUFFICES ASSUME i < l PROVE FALSE
        OBVIOUS
      <4>1. l \in (i + 1) .. (j - 1)
        BY <1>1, <1>2, <2>1, <3>1
      <4> QED
        BY <1>2, <2>1, <4>1
    <3>3. ~(l < i)
      <4> SUFFICES ASSUME l < i PROVE FALSE
        OBVIOUS
      <4>1. i \in (l + 1) .. (p - 1) \/ i \in p .. (s - 1)
        BY <1>1, <1>2, <2>1, <3>1
      <4> QED
        BY <1>2, <2>1, <4>1
    <3> QED
      BY <1>1, <1>2, <2>1, <3>1, <3>2, <3>3
  <2> QED
    BY <2>2, <2>3
<1>6. ASSUME NEW j, Follows(t, l, j) PROVE j = s
  <2>1. /\ j \in 1 .. Len(t) /\ l < j /\ ~BlankAt(t, j)
        /\ \A b \in (l + 1) .. (j - 1) : BlankAt(t, b)
    BY <1>6, FollowsIs
  <2>2. ~(s < j)
    <3> SUFFICES ASSUME s < j PROVE FALSE
      OBVIOUS
    <3>1. s \in (l + 1) .. (j - 1)
      BY <1>1, <1>2, <1>3, <2>1
    <3> QED
      BY <1>2, <2>1, <3>1
  <2>3. ~(j < s)
    <3> SUFFICES ASSUME j < s PROVE FALSE
      OBVIOUS
    <3>1. j \in (l + 1) .. (p - 1) \/ j \in p .. (s - 1)
      BY <1>1, <1>2, <2>1
    <3> QED
      BY <1>2, <2>1, <3>1
  <2> QED
    BY <1>3, <2>1, <2>2, <2>3
<1>7. LastBefore(t, s + 1, s)
  <2>1. s \in 1 .. ((s + 1) - 1) /\ (s + 1) .. ((s + 1) - 1) = {}
    BY <1>1, <1>3
  <2> QED
    BY <1>2, <2>1 DEF LastBefore
<1> QED
  BY <1>4, <1>5, <1>6, <1>7

\* A text stays legal when what may follow follows, and the object of a text
\* where what may not follow follows is none.
LEMMA NextIsLegal ==
  ASSUME NEW L, NEW t \in Seq(L), NEW p \in 1 .. (Len(t) + 1), NEW l, NEW s,
         LastBefore(t, p, l), FirstFrom(t, p, s)
  PROVE  /\ Legal(t, p - 1) /\ MayFollow(t, l, s) => Legal(t, s)
         /\ NoneBefore(t, s) /\ ~MayFollow(t, l, s) => ~StartsWithObject(t)
<1>1. Len(t) \in Nat /\ l \in 1 .. (p - 1) /\ s \in p .. Len(t)
  BY LenProperties DEF LastBefore, FirstFrom
<1>2. /\ Follows(t, l, s)
      /\ \A i, j \in 1 .. s : Follows(t, i, j) =>
           (i \in 1 .. (p - 1) /\ j \in 1 .. (p - 1)) \/ (i = l /\ j = s)
  BY NextPair
<1>3. ASSUME Legal(t, p - 1), MayFollow(t, l, s) PROVE Legal(t, s)
  BY <1>2, <1>3 DEF Legal
<1>4. ASSUME NoneBefore(t, s), ~MayFollow(t, l, s), StartsWithObject(t) PROVE FALSE
  <2>1. PICK end \in DOMAIN t : t[end].type = "}" /\ Legal(t, end)
    BY <1>4, Zenon DEF StartsWithObject
  <2>2. end \in 1 .. Len(t)
    BY <2>1, LenProperties
  <2>3. end \notin 1 .. (s - 1)
    BY <1>4, <2>1, Zenon DEF NoneBefore
  <2>4. l \in 1 .. end /\ s \in 1 .. end
    BY <1>1, <2>2, <2>3
  <2> QED
    BY <1>2, <1>4, <2>1, <2>4 DEF Legal
<1> QED
  BY <1>3, <1>4

\* Without a '}' there is no object.
LEMMA NoEnd ==
  ASSUME NEW L, NEW t \in Seq(L), NoneBefore(t, Len(t) + 1)
  PROVE  ~StartsWithObject(t)
<1> SUFFICES ASSUME StartsWithObject(t) PROVE FALSE
  OBVIOUS
<1>1. PICK end \in DOMAIN t : t[end].type = "}"
  BY Zenon DEF StartsWithObject
<1>2. end \in 1 .. ((Len(t) + 1) - 1)
  <2>1. end \in 1 .. Len(t) /\ Len(t) \in Nat
    BY <1>1, LenProperties
  <2> QED
    BY <2>1
<1> QED
  BY <1>1, <1>2, Zenon DEF NoneBefore

\* A type other than that of blanks.
Shown(u) == u # " "

\* How many lexemes up to place i have type u.
CountOf(t, u, i) == Cardinality({j \in 1 .. i : t[j].type = u})

\* Blanks apart, a lexeme more counts one more of its type.
LEMMA CountNext ==
  ASSUME NEW L, NEW t \in Seq(L), NEW p \in 1 .. (Len(t) + 1), NEW s \in p .. Len(t),
         \A b \in p .. (s - 1) : BlankAt(t, b), NEW u, Shown(u)
  PROVE  /\ CountOf(t, u, p - 1) \in Nat
         /\ CountOf(t, u, s) = CountOf(t, u, p - 1) + (IF TypeAt(t, s) = u THEN 1 ELSE 0)
         /\ \A k \in (p - 1) .. (s - 1) : CountOf(t, u, k) = CountOf(t, u, p - 1)
<1> DEFINE S(i) == {j \in 1 .. i : t[j].type = u}
<1>1. Len(t) \in Nat /\ p \in 1 .. (Len(t) + 1) /\ DOMAIN t = 1 .. Len(t)
  BY LenProperties
<1>2. \A b \in p .. (s - 1) : b \in 1 .. Len(t)
  BY <1>1
<1>3. \A b \in p .. (s - 1) : t[b].type # u
  BY <1>1, <1>2, Zenon DEF BlankAt, TypeAt, Shown
<1>4. ASSUME NEW k \in (p - 1) .. (s - 1) PROVE S(k) = S(p - 1)
  <2>1. \A j \in 1 .. k : j \in 1 .. (p - 1) \/ j \in p .. (s - 1)
    BY <1>1
  <2>2. \A j \in 1 .. (p - 1) : j \in 1 .. k
    BY <1>1
  <2> QED
    BY <1>3, <2>1, <2>2
<1>5. IsFiniteSet(S(p - 1)) /\ Cardinality(S(p - 1)) \in Nat
  <2>1. IsFiniteSet(1 .. (p - 1))
    BY <1>1, FS_Interval
  <2>2. S(p - 1) \in SUBSET (1 .. (p - 1))
    OBVIOUS
  <2> QED
    BY <2>1, <2>2, FS_Subset, FS_CardinalityType
<1>6. TypeAt(t, s) = t[s].type
  BY <1>1 DEF TypeAt
<1>7. s \notin 1 .. (p - 1) /\ s - 1 \in (p - 1) .. (s - 1)
  BY <1>1
<1>8. \A j : j \in 1 .. s <=> (j \in 1 .. (s - 1) \/ j = s)
  BY <1>1
<1>9. S(s) = IF TypeAt(t, s) = u THEN S(s - 1) \cup {s} ELSE S(s - 1)
  BY <1>6, <1>8
<1>10. s \notin S(p - 1) /\ S(s - 1) = S(p - 1)
  BY <1>4, <1>7
<1>11. Cardinality(S(p - 1) \cup {s}) = Cardinality(S(p - 1)) + 1
  BY <1>5, <1>10, FS_AddElement
<1>12. \A k : CountOf(t, u, k) = Cardinality(S(k))
  BY DEF CountOf
<1>13. Cardinality(S(s)) = Cardinality(S(p - 1)) + (IF TypeAt(t, s) = u THEN 1 ELSE 0)
  <2> DEFINE c == Cardinality(S(p - 1))
  <2>1. TypeAt(t, s) = u => Cardinality(S(s)) = c + 1
    BY <1>9, <1>10, <1>11
  <2>2. TypeAt(t, s) # u => Cardinality(S(s)) = c
    BY <1>9, <1>10
  <2>3. c \in Nat
    BY <1>5
  <2> HIDE DEF c, S
  <2> QED
    BY <2>1, <2>2, <2>3 DEF c
<1>14. \A k \in (p - 1) .. (s - 1) : Cardinality(S(k)) = Cardinality(S(p - 1))
  BY <1>4
<1> HIDE DEF S
<1> QED
  BY <1>5, <1>12, <1>13, <1>14, Zenon

\* What a lexeme of a type adds to the depth.
Deeper(u) == IF u = "[" THEN 1 ELSE IF u = "]" THEN -1 ELSE 0

\* The depth behind the next lexeme.
LEMMA DepthNext ==
  ASSUME NEW L, NEW t \in Seq(L), NEW p \in 1 .. (Len(t) + 1), NEW s,
         FirstFrom(t, p, s)
  PROVE  /\ Depth(t, p - 1) \in Int
         /\ Depth(t, s) = Depth(t, p - 1) + Deeper(TypeAt(t, s))
         /\ \A k \in (p - 1) .. (s - 1) : Depth(t, k) = Depth(t, p - 1)
<1> DEFINE O(i) == CountOf(t, "[", i)
           C(i) == CountOf(t, "]", i)
           u == TypeAt(t, s)
<1>1. s \in p .. Len(t) /\ \A b \in p .. (s - 1) : BlankAt(t, b)
  BY DEF FirstFrom
<1>2. \A i : Depth(t, i) = O(i) - C(i)
  BY DEF Depth, CountOf
<1>3. Shown("[") /\ Shown("]")
  BY DEF Shown
<1>4. /\ O(p - 1) \in Nat /\ O(s) = O(p - 1) + (IF u = "[" THEN 1 ELSE 0)
      /\ \A k \in (p - 1) .. (s - 1) : O(k) = O(p - 1)
  BY <1>1, <1>3, CountNext
<1>5. /\ C(p - 1) \in Nat /\ C(s) = C(p - 1) + (IF u = "]" THEN 1 ELSE 0)
      /\ \A k \in (p - 1) .. (s - 1) : C(k) = C(p - 1)
  BY <1>1, <1>3, CountNext
<1> HIDE DEF O, C, u
<1> QED
  BY <1>2, <1>4, <1>5 DEF Deeper, u

\* The types of lexemes that tokens of the types D begin with.
Begins(D) == (D \ {"ARRAY"}) \cup (IF "ARRAY" \in D THEN {"["} ELSE {})

\* The types of tokens apart.
LEMMA TypesApart ==
  ASSUME NEW D \in SUBSET (Single \cup {"ARRAY"})
  PROVE  /\ \A u \in Single : u # "[" /\ u # "ARRAY" /\ u \notin Unread /\ (u \in Begins(D) <=> u \in D)
         /\ \A u \in Unread : u # "[" /\ u \notin Begins(D)
         /\ "[" \in Begins(D) <=> "ARRAY" \in D
         /\ \A u : u \notin Single /\ u # "[" => u \notin Begins(D)
<1>1. \A u \in Single : u # "[" /\ u # "ARRAY" /\ u \notin Unread
  BY Zenon DEF Single, Unread
<1>2. \A u \in Unread : u # "["
  BY Zenon DEF Unread
<1>3. \A u : u \in Begins(D) <=> (u \in D /\ u # "ARRAY") \/ (u = "[" /\ "ARRAY" \in D)
  BY DEF Begins
<1>4. \A u \in D : u \in Single \/ u = "ARRAY"
  OBVIOUS
<1>5. "[" # "ARRAY"
  OBVIOUS
<1> HIDE DEF Single, Unread
<1> QED
  BY <1>1, <1>2, <1>3, <1>4, <1>5, Zenon

\* Everything before place p is legal, l is its last place, and what may follow
\* there are tokens of the types D.
Stands(t, p, l, D) ==
    /\ p \in 1 .. (Len(t) + 1) /\ LastBefore(t, p, l)
    /\ Legal(t, p - 1) /\ NoneBefore(t, p)
    /\ \A j : Follows(t, l, j) => (MayFollow(t, l, j) <=> TypeAt(t, j) \in Begins(D))

\* A token read as the text has it, from place p on.
Took(t, p, k) ==
    /\ FirstFrom(t, p, k.first) /\ k.last \in k.first .. Len(t)
    /\ Legal(t, k.last) /\ LastBefore(t, k.last + 1, k.last)
    /\ NoneBefore(t, k.first) /\ (k.type # "}" => NoneBefore(t, k.last + 1))
    /\ k.type # "ARRAY" =>
          /\ k.last = k.first /\ TypeAt(t, k.first) = k.type
          /\ Depth(t, k.first) = Depth(t, p - 1) + Deeper(k.type)
    /\ k.type = "ARRAY" =>
          /\ TypeAt(t, k.first) = "[" /\ TypeAt(t, k.last) = "]"
          /\ Depth(t, k.last) = Depth(t, p - 1)
          /\ \A i \in k.first .. (k.last - 1) : Depth(t, i) > Depth(t, p - 1)

\* A '"' or a number that was read as the junk in the token_t: no object.
Junked(t) == ReadsJunk(t) /\ ~StartsWithObject(t)

\* A token that should be of one of the types D: it is, or there is no object.
ReadAs(t, p, k, D) ==
    \/ Junked(t)
    \/ ~k.err /\ k.type \in D /\ Took(t, p, k)
    \/ (k.err \/ k.type \notin D) /\ ~StartsWithObject(t)

\* The type that the token_t holds is none of these, or junk after a '['.
Kept(t, l, old, D) == old \in D => TypeAt(t, l) = "["

\* Place c in an array that is legal so far, and the end of that array.
InArray(t, c, l) ==
    /\ Stands(t, c.at, l, c.due \cup {"]"})
    /\ Kept(t, l, c.old, c.due \cup {"]"})
    /\ Depth(t, c.at - 1) \in Nat \ {0}

Closes(t, c, k) ==
    /\ ~k.err /\ k.type = "]" /\ k.last \in c.at .. Len(t) /\ TypeAt(t, k.last) = "]"
    /\ Legal(t, k.last) /\ LastBefore(t, k.last + 1, k.last) /\ NoneBefore(t, k.last + 1)
    /\ Depth(t, k.last) = Depth(t, c.at - 1) - 1
    /\ \A i \in (c.at - 1) .. (k.last - 1) : Depth(t, i) >= Depth(t, c.at - 1)

ArrayRead(t, c, k) ==
    \A l : InArray(t, c, l) =>
        Junked(t) \/ Closes(t, c, k) \/ (k.err /\ ~StartsWithObject(t))

\* What may follow, by the type of the last lexeme.
LEMMA Followers ==
  ASSUME NEW L, NEW t \in Seq(L), NEW l, NEW j, Follows(t, l, j)
  PROVE  /\ Depth(t, l) # 0 =>
              /\ TypeAt(t, l) \in {"[", ","} =>
                   (MayFollow(t, l, j) <=> TypeAt(t, j) \in Begins(Values \cup {"]"}))
              /\ TypeAt(t, l) \in {"STR", "NUM", "]"} =>
                   (MayFollow(t, l, j) <=> TypeAt(t, j) \in Begins({","} \cup {"]"}))
         /\ Depth(t, l) = 0 =>
              /\ TypeAt(t, l) = "{" => (MayFollow(t, l, j) <=> TypeAt(t, j) \in Begins({"}", "STR"}))
              /\ TypeAt(t, l) = "," => (MayFollow(t, l, j) <=> TypeAt(t, j) \in Begins({"STR"}))
              /\ TypeAt(t, l) = ":" => (MayFollow(t, l, j) <=> TypeAt(t, j) \in Begins(Values))
              /\ TypeAt(t, l) \in {"NUM", "]"} =>
                   (MayFollow(t, l, j) <=> TypeAt(t, j) \in Begins({"}", ","}))
              /\ TypeAt(t, l) = "STR" /\ Opened(t, l) =>
                   (MayFollow(t, l, j) <=> TypeAt(t, j) \in Begins({":"}))
              /\ TypeAt(t, l) = "STR" /\ ~Opened(t, l) =>
                   (MayFollow(t, l, j) <=> TypeAt(t, j) \in Begins({"}", ","}))
<1> DEFINE x == TypeAt(t, l)
           y == TypeAt(t, j)
           M == MayFollow(t, l, j)
<1>1. t[l].type = x /\ t[j].type = y
  BY Zenon DEF Follows, TypeAt
<1>2. Depth(t, l) # 0 => (M <=> <<x, y>> \in Arrays)
  BY <1>1, Zenon DEF MayFollow
<1>3. Depth(t, l) = 0 => (M <=> <<x, y>> \in Objects /\ (x = "STR" => (y = ":" <=> Opened(t, l))))
  BY <1>1, Zenon DEF MayFollow
<1>4. /\ x \in {"[", ","} => (<<x, y>> \in Arrays <=> y \in {"STR", "NUM", "[", "]"})
      /\ x \in {"STR", "NUM", "]"} => (<<x, y>> \in Arrays <=> y \in {",", "]"})
  BY Zenon DEF Arrays
<1>5. /\ x = "{" => (<<x, y>> \in Objects <=> y \in {"STR", "}"})
      /\ x = "," => (<<x, y>> \in Objects <=> y = "STR")
      /\ x = ":" => (<<x, y>> \in Objects <=> y \in {"STR", "NUM", "["})
      /\ x \in {"NUM", "]"} => (<<x, y>> \in Objects <=> y \in {",", "}"})
      /\ x = "STR" => (<<x, y>> \in Objects <=> y \in {":", ",", "}"})
  BY Zenon DEF Objects
<1>6. /\ y \in Begins(Values \cup {"]"}) <=> y \in {"STR", "NUM", "[", "]"}
      /\ y \in Begins({","} \cup {"]"}) <=> y \in {",", "]"}
      /\ y \in Begins({"}", "STR"}) <=> y \in {"STR", "}"}
      /\ y \in Begins({"STR"}) <=> y = "STR"
      /\ y \in Begins(Values) <=> y \in {"STR", "NUM", "["}
      /\ y \in Begins({"}", ","}) <=> y \in {",", "}"}
      /\ y \in Begins({":"}) <=> y = ":"
  BY Zenon DEF Begins, Values
<1> HIDE DEF x, y, M
<1> QED
  BY <1>2, <1>3, <1>4, <1>5, <1>6, Zenon DEF x, y, M

----------------------------------------------------------------------------
\* The tokens of a text that is legal so far.

\* The counts and the depth are numbers.
LEMMA CountIsNat ==
  ASSUME NEW t, NEW i \in Int
  PROVE  /\ \A u : CountOf(t, u, i) \in Nat
         /\ Depth(t, i) \in Int
<1>1. ASSUME NEW u PROVE CountOf(t, u, i) \in Nat
  <2>1. IsFiniteSet(1 .. i)
    BY FS_Interval
  <2>2. {j \in 1 .. i : t[j].type = u} \in SUBSET (1 .. i)
    OBVIOUS
  <2> QED
    BY <2>1, <2>2, FS_Subset, FS_CardinalityType DEF CountOf
<1>2. Depth(t, i) = CountOf(t, "[", i) - CountOf(t, "]", i)
  BY DEF Depth, CountOf
<1> QED
  BY <1>1, <1>2

\* A lexeme more without a '}'.
LEMMA NoneNext ==
  ASSUME NEW L, NEW t \in Seq(L), NEW p \in 1 .. (Len(t) + 1), NoneBefore(t, p),
         NEW s \in p .. (Len(t) + 1), \A b \in p .. (s - 1) : BlankAt(t, b)
  PROVE  /\ NoneBefore(t, s)
         /\ TypeAt(t, s) # "}" /\ s \in 1 .. Len(t) => NoneBefore(t, s + 1)
<1>1. Len(t) \in Nat /\ p \in 1 .. (Len(t) + 1) /\ DOMAIN t = 1 .. Len(t)
  BY LenProperties
<1>2. \A b \in p .. (s - 1) : b \in 1 .. Len(t)
  BY <1>1
<1>3. \A b \in p .. (s - 1) : t[b].type # "}"
  BY <1>1, <1>2, Zenon DEF BlankAt, TypeAt
<1>4. \A b \in 1 .. (s - 1) : b \in 1 .. (p - 1) \/ b \in p .. (s - 1)
  BY <1>1
<1>5. NoneBefore(t, s)
  BY <1>3, <1>4, Zenon DEF NoneBefore
<1>6. \A b \in 1 .. ((s + 1) - 1) : b \in 1 .. (s - 1) \/ b = s
  BY <1>1
<1>7. ASSUME TypeAt(t, s) # "}", s \in 1 .. Len(t) PROVE NoneBefore(t, s + 1)
  <2>1. t[s].type # "}"
    BY <1>1, <1>7, Zenon DEF TypeAt
  <2> QED
    BY <1>5, <1>6, <2>1, Zenon DEF NoneBefore
<1> QED
  BY <1>5, <1>7

\* What is at the next place that is not blank may follow and makes the text
\* legal up to it, or there is no object.
LEMMA NextLexeme ==
  ASSUME NEW L, NEW t \in Seq(L), NEW p, NEW l, NEW D, NEW s,
         Stands(t, p, l, D), FirstFrom(t, p, s)
  PROVE  /\ NoneBefore(t, s) /\ LastBefore(t, s + 1, s) /\ Follows(t, l, s)
         /\ s \in 1 .. Len(t) /\ s + 1 \in 1 .. (Len(t) + 1)
         /\ TypeAt(t, s) # "}" => NoneBefore(t, s + 1)
         /\ TypeAt(t, s) \in Begins(D) => Legal(t, s)
         /\ TypeAt(t, s) \notin Begins(D) => ~StartsWithObject(t)
         /\ Depth(t, p - 1) \in Int
         /\ Depth(t, s) = Depth(t, p - 1) + Deeper(TypeAt(t, s))
<1>1. /\ p \in 1 .. (Len(t) + 1) /\ LastBefore(t, p, l) /\ Legal(t, p - 1) /\ NoneBefore(t, p)
      /\ \A j : Follows(t, l, j) => (MayFollow(t, l, j) <=> TypeAt(t, j) \in Begins(D))
  BY DEF Stands
<1>2. s \in p .. Len(t) /\ \A b \in p .. (s - 1) : BlankAt(t, b)
  BY DEF FirstFrom
<1>3. s \in p .. (Len(t) + 1) /\ s \in 1 .. Len(t) /\ s + 1 \in 1 .. (Len(t) + 1)
  <2>1. Len(t) \in Nat
    BY LenProperties
  <2> QED
    BY <1>1, <1>2, <2>1
<1>4. NoneBefore(t, s) /\ (TypeAt(t, s) # "}" => NoneBefore(t, s + 1))
  BY <1>1, <1>2, <1>3, NoneNext
<1>5. Follows(t, l, s) /\ LastBefore(t, s + 1, s)
  BY <1>1, NextPair
<1>6. /\ Legal(t, p - 1) /\ MayFollow(t, l, s) => Legal(t, s)
      /\ NoneBefore(t, s) /\ ~MayFollow(t, l, s) => ~StartsWithObject(t)
  BY <1>1, NextIsLegal
<1>7. Depth(t, p - 1) \in Int /\ Depth(t, s) = Depth(t, p - 1) + Deeper(TypeAt(t, s))
  BY <1>1, DepthNext
<1> QED
  BY <1>1, <1>3, <1>4, <1>5, <1>6, <1>7, Zenon

\* The first thing of an array stands behind its '['.
LEMMA ArrayOpens ==
  ASSUME NEW L, NEW t \in Seq(L), NEW p, NEW l, NEW D, NEW s,
         Stands(t, p, l, D), FirstFrom(t, p, s), "[" \in Begins(D), TypeAt(t, s) = "[",
         Depth(t, p - 1) \in Nat
  PROVE  /\ Stands(t, s + 1, s, Values \cup {"]"})
         /\ Depth(t, s) = Depth(t, p - 1) + 1
<1>1. /\ LastBefore(t, s + 1, s) /\ s + 1 \in 1 .. (Len(t) + 1) /\ s \in 1 .. Len(t)
      /\ NoneBefore(t, s + 1) /\ Legal(t, s)
      /\ Depth(t, s) = Depth(t, p - 1) + Deeper("[")
  <2>1. "[" # "}"
    OBVIOUS
  <2> QED
    BY <2>1, NextLexeme, Zenon
<1>2. Depth(t, s) = Depth(t, p - 1) + 1 /\ Depth(t, s) # 0 /\ (s + 1) - 1 = s
  <2>1. Deeper("[") = 1
    BY DEF Deeper
  <2> QED
    BY <1>1, <2>1
<1>3. \A j : Follows(t, s, j) => (MayFollow(t, s, j) <=> TypeAt(t, j) \in Begins(Values \cup {"]"}))
  BY <1>2, Followers, Zenon
<1> QED
  BY <1>1, <1>2, <1>3 DEF Stands

\* A token is one of those that may come, or the text begins with no object.
LEMMA TokenRead ==
  ASSUME NEW L, NEW t \in Seq(L), NEW unset \in TokenTypes, NEW old \in TokenTypes,
         NEW p, NEW l, NEW D \in SUBSET (Single \cup {"ARRAY"}), NEW f,
         Stands(t, p, l, D), Kept(t, l, old, D), Depth(t, p - 1) \in Nat,
         \A c \in Places(t) : c.at > p => ArrayRead(t, c, f[c])
  PROVE  ReadAs(t, p, ReadToken(t, unset, p, old, f), D)
<1> DEFINE s == SkipBlanks(t, p)
           u == TypeAt(t, s)
           c0 == [due |-> Values, at |-> s + 1, old |-> unset]
           array == IF TypeAt(t, s + 1) = "]"
                    THEN TokenOf("ARRAY", s, s + 1, FALSE) ELSE f[c0]
           k == ReadToken(t, unset, p, old, f)
<1>1. k = CASE u \in Single -> TokenOf(u, s, s, FALSE)
            [] u \in Unread -> TokenOf(old, s, s, FALSE)
            [] u = "[" /\ ~array.err -> TokenOf("ARRAY", s, array.last, FALSE)
            [] OTHER -> TokenOf(old, s, s, TRUE)
  BY DEF ReadToken, UnreadType
<1>2. /\ p \in 1 .. (Len(t) + 1) /\ NoneBefore(t, p)
  BY DEF Stands
<1>3. /\ Len(t) \in Nat /\ s \in p .. (Len(t) + 1) /\ ~BlankAt(t, s)
      /\ \A b \in p .. (s - 1) : BlankAt(t, b)
  <2>1. Len(t) \in Nat
    BY LenProperties
  <2> HIDE DEF s
  <2> QED
    BY <1>2, <2>1, SkipsBlanks DEF s
<1>4. /\ \A v \in Single : v # "[" /\ v # "ARRAY" /\ v \notin Unread /\ (v \in Begins(D) <=> v \in D)
      /\ \A v \in Unread : v # "[" /\ v \notin Begins(D)
      /\ "[" \in Begins(D) <=> "ARRAY" \in D
      /\ \A v : v \notin Single /\ v # "[" => v \notin Begins(D)
  BY TypesApart
<1> HIDE DEF s, u, c0, k
<1>5. CASE s = Len(t) + 1
  <2>1. u = "?"
    BY <1>3, <1>5, PastTheEnd DEF u
  <2>2. u \notin Single /\ u \notin Unread /\ u # "["
    BY <2>1, Zenon DEF Single, Unread
  <2>3. k.err
    <3>1. k = TokenOf(old, s, s, TRUE)
      BY <1>1, <2>2, Zenon
    <3> QED
      BY <3>1, Zenon DEF TokenOf
  <2>4. NoneBefore(t, s)
    BY <1>2, <1>3, NoneNext
  <2>5. ~StartsWithObject(t)
    BY <1>5, <2>4, NoEnd
  <2> QED
    BY <2>3, <2>5 DEF ReadAs, k
<1>6. CASE s # Len(t) + 1
  <2>1. FirstFrom(t, p, s)
    <3>1. s \in p .. Len(t)
      BY <1>2, <1>3, <1>6
    <3> QED
      BY <1>3, <3>1 DEF FirstFrom
  <2>2. /\ NoneBefore(t, s) /\ LastBefore(t, s + 1, s) /\ Follows(t, l, s)
        /\ s \in 1 .. Len(t) /\ s + 1 \in 1 .. (Len(t) + 1)
        /\ u # "}" => NoneBefore(t, s + 1)
        /\ u \in Begins(D) => Legal(t, s)
        /\ u \notin Begins(D) => ~StartsWithObject(t)
        /\ Depth(t, p - 1) \in Int
        /\ Depth(t, s) = Depth(t, p - 1) + Deeper(u)
    BY <2>1, NextLexeme DEF u
  <2>7. s \in 1 .. Len(t) /\ s + 1 \in 1 .. (Len(t) + 1)
    BY <2>2, Zenon
  <2>3. CASE u \in Single
    <3>1. k = TokenOf(u, s, s, FALSE)
      <4>1. u \notin Unread /\ u # "["
        BY <1>4, <2>3, Zenon
      <4> QED
        BY <1>1, <2>3, <4>1, Zenon
    <3>2. k.type = u /\ k.first = s /\ k.last = s /\ ~k.err
      BY <3>1, Zenon DEF TokenOf
    <3>3. s \in s .. Len(t)
      BY <1>3, <2>7
    <3>4. CASE u \in D
      <4>1. u \in Begins(D) /\ u # "ARRAY"
        BY <1>4, <2>3, <3>4, Zenon
      <4>2. Took(t, p, k)
        BY <2>1, <2>2, <3>2, <3>3, <4>1, Zenon DEF Took, u
      <4> QED
        BY <3>2, <3>4, <4>2, Zenon DEF ReadAs, k
    <3>5. CASE u \notin D
      <4>1. u \notin Begins(D)
        BY <1>4, <2>3, <3>5, Zenon
      <4> QED
        BY <2>2, <3>2, <3>5, <4>1, Zenon DEF ReadAs, k
    <3> QED
      BY <3>4, <3>5
  <2>4. CASE u \in Unread
    <3>1. k = TokenOf(old, s, s, FALSE)
      <4>1. u \notin Single /\ u # "["
        BY <1>4, <2>4, Zenon
      <4> QED
        BY <1>1, <2>4, <4>1, Zenon
    <3>2. k.type = old /\ ~k.err
      BY <3>1, Zenon DEF TokenOf
    <3>3. ~StartsWithObject(t)
      BY <1>4, <2>2, <2>4, Zenon
    <3>4. CASE old \notin D
      BY <3>2, <3>3, <3>4, Zenon DEF ReadAs, k
    <3>5. CASE old \in D
      <4>1. TypeAt(t, l) = "["
        BY <3>5 DEF Kept
      <4>2. t[s].type \in Unread /\ t[l].type = "[" /\ s \in DOMAIN t /\ l \in DOMAIN t
        BY <2>2, <2>4, <4>1, Zenon DEF Follows, TypeAt, u
      <4>3. ReadsJunk(t)
        BY <2>2, <4>2, Zenon DEF ReadsJunk
      <4> QED
        BY <3>3, <4>3 DEF ReadAs, Junked
    <3> QED
      BY <3>4, <3>5
  <2>5. CASE u = "["
    <3>1. u \notin Single /\ u \notin Unread
      BY <1>4, <2>5, Zenon
    <3> HIDE DEF array
    <3>2. IF array.err THEN k = TokenOf(old, s, s, TRUE)
                       ELSE k = TokenOf("ARRAY", s, array.last, FALSE)
      BY <1>1, <2>5, <3>1, Zenon
    <3>3. IF array.err THEN k.err
          ELSE ~k.err /\ k.type = "ARRAY" /\ k.first = s /\ k.last = array.last
      <4>1. TokenOf(old, s, s, TRUE).err
        BY DEF TokenOf
      <4>2. LET v == TokenOf("ARRAY", s, array.last, FALSE)
            IN  ~v.err /\ v.type = "ARRAY" /\ v.first = s /\ v.last = array.last
        BY DEF TokenOf
      <4> QED
        BY <3>2, <4>1, <4>2, Zenon
    <3>4. CASE "ARRAY" \notin D
      <4>1. ~StartsWithObject(t)
        BY <1>4, <2>2, <2>5, <3>4, Zenon
      <4> QED
        BY <3>3, <3>4, <4>1, Zenon DEF ReadAs, k
    <3>5. CASE "ARRAY" \in D
      <4>1. Stands(t, s + 1, s, Values \cup {"]"}) /\ Depth(t, s) = Depth(t, p - 1) + 1
        BY <1>4, <2>1, <2>5, <3>5, ArrayOpens DEF u
      <4>2. CASE TypeAt(t, s + 1) = "]"
        <5>1. array = TokenOf("ARRAY", s, s + 1, FALSE)
          BY <4>2 DEF array
        <5>2. ~array.err /\ array.last = s + 1
          BY <5>1, Zenon DEF TokenOf
        <5>3. FirstFrom(t, s + 1, s + 1)
          <6>1. s + 1 # Len(t) + 1
            BY <1>3, <4>2, PastTheEnd
          <6>2. ~BlankAt(t, s + 1)
            BY <4>2 DEF BlankAt
          <6>3. s + 1 \in s + 1 .. Len(t) /\ (s + 1) .. ((s + 1) - 1) = {}
            BY <1>3, <2>7, <6>1
          <6> QED
            BY <6>2, <6>3 DEF FirstFrom
        <5>4. /\ NoneBefore(t, (s + 1) + 1) /\ LastBefore(t, (s + 1) + 1, s + 1)
              /\ Legal(t, s + 1)
              /\ Depth(t, s + 1) = Depth(t, (s + 1) - 1) + Deeper("]")
          <6> DEFINE q == s + 1
                     E == Values \cup {"]"}
          <6>1. "]" # "}" /\ "]" \in Begins(E)
            BY Zenon DEF Begins
          <6>2. Stands(t, q, s, E) /\ FirstFrom(t, q, q) /\ TypeAt(t, q) = "]"
            BY <4>1, <4>2, <5>3
          <6> HIDE DEF q, E
          <6>3. /\ TypeAt(t, q) # "}" => NoneBefore(t, q + 1)
                /\ LastBefore(t, q + 1, q)
                /\ TypeAt(t, q) \in Begins(E) => Legal(t, q)
                /\ Depth(t, q) = Depth(t, q - 1) + Deeper(TypeAt(t, q))
            BY <6>2, NextLexeme
          <6> QED
            BY <6>1, <6>2, <6>3, Zenon DEF q
        <5>5. /\ s + 1 \in s .. Len(t) /\ Depth(t, s + 1) = Depth(t, p - 1)
              /\ \A i \in s .. ((s + 1) - 1) : Depth(t, i) > Depth(t, p - 1)
          <6>1. Deeper("]") = -1
            BY DEF Deeper
          <6>2. (s + 1) - 1 = s /\ \A i \in s .. s : i = s
            BY <2>7
          <6>3. s + 1 \in s .. Len(t)
            BY <2>7, <5>3 DEF FirstFrom
          <6> QED
            BY <4>1, <5>4, <6>1, <6>2, <6>3
        <5>6. Took(t, p, k)
          <6>1. k.type = "ARRAY" /\ k.first = s /\ k.last = s + 1
            BY <3>3, <5>2, Zenon
          <6> QED
            BY <2>1, <2>2, <2>5, <4>2, <5>4, <5>5, <6>1, Zenon DEF Took, u
        <5> QED
          BY <3>3, <3>5, <5>2, <5>6, Zenon DEF ReadAs, k
      <4>3. CASE TypeAt(t, s + 1) # "]"
        <5>1. array = f[c0]
          BY <4>3 DEF array
        <5>2. c0 \in Places(t) /\ c0.at = s + 1 /\ c0.due = Values /\ c0.at > p
          <6>1. s + 1 > p
            BY <1>2, <1>3
          <6> QED
            BY <2>2, <6>1 DEF c0, Places
        <5>3. (s + 1) - 1 = s
          BY <2>7
        <5>4. InArray(t, c0, s)
          <6>1. Depth(t, s) \in Nat \ {0}
            BY <4>1
          <6> QED
            BY <2>5, <4>1, <5>2, <5>3, <6>1, Zenon DEF InArray, Kept, u
        <5>5. Junked(t) \/ Closes(t, c0, array) \/ (array.err /\ ~StartsWithObject(t))
          BY <5>1, <5>2, <5>4 DEF ArrayRead
        <5>6. CASE Closes(t, c0, array)
          <6> DEFINE e == array.last
          <6>1. /\ ~array.err /\ e \in s + 1 .. Len(t) /\ TypeAt(t, e) = "]"
                /\ Legal(t, e) /\ LastBefore(t, e + 1, e) /\ NoneBefore(t, e + 1)
                /\ Depth(t, e) = Depth(t, s) - 1
                /\ \A i \in s .. (e - 1) : Depth(t, i) >= Depth(t, s)
            BY <5>2, <5>3, <5>6 DEF Closes
          <6> HIDE DEF e
          <6>2. e \in s .. Len(t)
            BY <2>7, <6>1
          <6>3. Depth(t, e) = Depth(t, p - 1)
            BY <4>1, <6>1
          <6>4. ASSUME NEW i \in s .. (e - 1) PROVE Depth(t, i) > Depth(t, p - 1)
            <7>1. i \in Int
              BY <2>7, <6>2
            <7>2. Depth(t, i) \in Int
              BY <7>1, CountIsNat
            <7> QED
              BY <4>1, <6>1, <7>2
          <6>5. Took(t, p, k)
            <7>1. k.type = "ARRAY" /\ k.first = s /\ k.last = e
              BY <3>3, <6>1, Zenon DEF e
            <7> QED
              BY <2>1, <2>2, <2>5, <6>1, <6>2, <6>3, <6>4, <7>1, Zenon DEF Took, u
          <6> QED
            BY <3>3, <3>5, <6>1, <6>5, Zenon DEF ReadAs, k
        <5>7. CASE array.err /\ ~StartsWithObject(t)
          BY <3>3, <5>7, Zenon DEF ReadAs, k
        <5> QED
          BY <5>5, <5>6, <5>7 DEF ReadAs
      <4> QED
        BY <4>2, <4>3
    <3> QED
      BY <3>4, <3>5
  <2>6. CASE u \notin Single /\ u \notin Unread /\ u # "["
    <3>1. k = TokenOf(old, s, s, TRUE)
      BY <1>1, <2>6, Zenon
    <3>2. k.err
      BY <3>1, Zenon DEF TokenOf
    <3>3. ~StartsWithObject(t)
      BY <1>4, <2>2, <2>6, Zenon
    <3> QED
      BY <3>2, <3>3 DEF ReadAs, k
  <2> QED
    BY <2>3, <2>4, <2>5, <2>6
<1> QED
  BY <1>5, <1>6

\* Up to its end a token is as deep as what is before it, or deeper.
LEMMA TookDepth ==
  ASSUME NEW L, NEW t \in Seq(L), NEW p \in 1 .. (Len(t) + 1), NEW k, Took(t, p, k)
  PROVE  /\ Depth(t, p - 1) \in Int
         /\ \A i \in (p - 1) .. (k.last - 1) : Depth(t, i) >= Depth(t, p - 1)
         /\ k.first \in p .. Len(t) /\ k.last \in k.first .. Len(t)
<1> DEFINE a == k.first
           b == k.last
           d == Depth(t, p - 1)
<1>1. FirstFrom(t, p, a) /\ b \in a .. Len(t)
  BY DEF Took
<1>2. a \in p .. Len(t) /\ Len(t) \in Nat
  BY <1>1, LenProperties DEF FirstFrom
<1>3. d \in Int /\ \A i \in (p - 1) .. (a - 1) : Depth(t, i) = d
  BY <1>1, DepthNext
<1>4. \A i \in a .. (b - 1) : Depth(t, i) >= d
  <2>1. CASE k.type = "ARRAY"
    <3>1. \A i \in a .. (b - 1) : Depth(t, i) > d
      BY <2>1, Zenon DEF Took
    <3>2. \A i \in a .. (b - 1) : Depth(t, i) \in Int
      <4>1. \A i \in a .. (b - 1) : i \in Int
        BY <1>1, <1>2
      <4> QED
        BY <4>1, CountIsNat
    <3> HIDE DEF a, b, d
    <3> QED
      BY <1>3, <3>1, <3>2
  <2>2. CASE k.type # "ARRAY"
    <3>1. b = a
      BY <2>2, Zenon DEF Took
    <3> QED
      BY <1>2, <3>1
  <2> QED
    BY <2>1, <2>2
<1> HIDE DEF a, b, d
<1>5. ASSUME NEW i \in (p - 1) .. (b - 1) PROVE Depth(t, i) >= d
  <2>1. i \in (p - 1) .. (a - 1) \/ i \in a .. (b - 1)
    BY <1>1, <1>2
  <2> QED
    BY <1>3, <1>4, <2>1
<1> QED
  BY <1>1, <1>2, <1>3, <1>5 DEF a, b, d

\* The place in an array behind its token k.
Onward(c, k) ==
    [due |-> IF c.due = Values THEN {","} ELSE Values, at |-> k.last + 1, old |-> k.type]

\* After what was due comes what is due next.
LEMMA DueNext ==
  ASSUME NEW L, NEW t \in Seq(L), NEW c \in Places(t), NEW l, InArray(t, c, l), NEW k,
         ~k.err, k.type \in c.due, Took(t, c.at, k),
         NEW d, d = Onward(c, k)
  PROVE  /\ d \in Places(t) /\ d.at > c.at
         /\ InArray(t, d, k.last)
         /\ Depth(t, d.at - 1) = Depth(t, c.at - 1)
<1> DEFINE e == k.last
           n == Depth(t, c.at - 1)
<1>1. c.at \in 1 .. (Len(t) + 1) /\ Len(t) \in Nat
  BY LenProperties DEF Places
<1>17. c.due \in {Values, {","}}
  BY Zenon DEF Places
<1>2. k.first \in c.at .. Len(t) /\ e \in k.first .. Len(t) /\ n \in Int
  BY <1>1, TookDepth
<1>3. n \in Nat \ {0}
  BY DEF InArray
<1>4. d.at = e + 1 /\ d.old = k.type /\ d.due = IF c.due = Values THEN {","} ELSE Values
  BY Zenon DEF Onward
<1>18. d.at = e + 1
  BY <1>4, Zenon
<1>5. k.type \in TokenTypes /\ k.type # "}"
  <2>1. Values \subseteq TokenTypes /\ "," \in TokenTypes /\ "}" \notin Values /\ "," # "}"
    BY Zenon DEF Values, TokenTypes, Single
  <2> QED
    BY <1>17, <2>1, Zenon
<1>6. e + 1 \in 1 .. (Len(t) + 1) /\ e + 1 > c.at /\ (e + 1) - 1 = e
  <2> HIDE DEF e
  <2> QED
    BY <1>1, <1>2
<1>7. d.due \in {Values, {","}}
  BY <1>4, <1>17, Zenon
<1>8. d \in Places(t)
  <2>1. d = [due |-> d.due, at |-> e + 1, old |-> k.type]
    BY <1>4, Zenon DEF Onward
  <2>2. \A x \in {Values, {","}}, y \in 1 .. (Len(t) + 1), z \in TokenTypes :
          [due |-> x, at |-> y, old |-> z] \in Places(t)
    BY Zenon DEF Places
  <2> HIDE DEF e
  <2> QED
    BY <1>5, <1>6, <1>7, <2>1, <2>2, ZenonT(60)
<1>9. /\ FirstFrom(t, c.at, k.first) /\ Legal(t, e) /\ LastBefore(t, e + 1, e)
      /\ NoneBefore(t, e + 1)
      /\ k.type # "ARRAY" => e = k.first /\ TypeAt(t, k.first) = k.type
                             /\ Depth(t, k.first) = n + Deeper(k.type)
      /\ k.type = "ARRAY" => TypeAt(t, e) = "]" /\ Depth(t, e) = n
  BY <1>5, Zenon DEF Took
<1>10. Depth(t, e) = n
  <2>1. CASE k.type = "ARRAY"
    BY <1>9, <2>1
  <2>2. CASE k.type # "ARRAY"
    <3>1. k.type # "[" /\ k.type # "]"
      BY <1>17, Zenon DEF Values
    <3>2. Deeper(k.type) = 0
      BY <3>1, Zenon DEF Deeper
    <3>3. Depth(t, e) = n + Deeper(k.type)
      BY <1>9, <2>2, Zenon
    <3> HIDE DEF e, n
    <3> QED
      BY <1>3, <3>2, <3>3
  <2> QED
    BY <2>1, <2>2
<1>11. Depth(t, e) # 0
  BY <1>3, <1>10
<1>12. /\ c.due = Values => TypeAt(t, e) \in {"STR", "NUM", "]"}
       /\ c.due # Values => TypeAt(t, e) \in {"[", ","}
  BY <1>9, <1>17, Zenon DEF Values
<1>13. \A j : Follows(t, e, j) => (MayFollow(t, e, j) <=> TypeAt(t, j) \in Begins(d.due \cup {"]"}))
  BY <1>4, <1>11, <1>12, Followers, Zenon
<1>14. Stands(t, d.at, e, d.due \cup {"]"})
  BY <1>4, <1>6, <1>9, <1>13 DEF Stands
<1>15. Kept(t, e, d.old, d.due \cup {"]"})
  <2>1. k.type \notin d.due \cup {"]"}
    BY <1>4, <1>17, Zenon DEF Values
  <2> QED
    BY <1>4, <2>1 DEF Kept
<1>16. Depth(t, d.at - 1) = n
  BY <1>6, <1>10, <1>18
<1> QED
  BY <1>3, <1>6, <1>8, <1>14, <1>15, <1>16, <1>18, Zenon DEF InArray

\* getArrayToken reads an array when it does from its later places.
LEMMA ArrayStep ==
  ASSUME NEW L, NEW t \in Seq(L), NEW unset \in TokenTypes, NEW c \in Places(t), NEW f,
         EndsWithin(f, t, unset, c.at),
         \A d \in Places(t) : d.at > c.at => ArrayRead(t, d, f[d])
  PROVE  ArrayRead(t, c, ReadArray(t, unset, c, f))
<1> SUFFICES ASSUME NEW l, InArray(t, c, l)
             PROVE  \/ Junked(t) \/ Closes(t, c, ReadArray(t, unset, c, f))
                    \/ ReadArray(t, unset, c, f).err /\ ~StartsWithObject(t)
  BY DEF ArrayRead
<1> DEFINE k == ReadToken(t, unset, c.at, c.old, f)
           r == ReadArray(t, unset, c, f)
           D == c.due \cup {"]"}
           d == Onward(c, k)
<1>1. r = CASE k.err \/ k.type = "]" -> k
            [] ~k.err /\ k.type \in c.due -> f[d]
            [] OTHER -> [k EXCEPT !.err = TRUE]
  BY Zenon DEF ReadArray, Onward
<1>2. c.at \in 1 .. (Len(t) + 1) /\ c.old \in TokenTypes /\ Len(t) \in Nat
  BY LenProperties DEF Places
<1>3. c.due \in {Values, {","}} /\ "]" \notin c.due
  <2>1. c.due \in {Values, {","}}
    BY Zenon DEF Places
  <2> QED
    BY <2>1, Zenon DEF Values
<1>4. ReadAs(t, c.at, k, D)
  <2>1. Depth(t, c.at - 1) \in Nat /\ Stands(t, c.at, l, D) /\ Kept(t, l, c.old, D)
    BY DEF InArray
  <2>2. D \in SUBSET (Single \cup {"ARRAY"})
    BY <1>3, Zenon DEF Values, Single
  <2> HIDE DEF D
  <2>3. \A e \in Places(t) : e.at > c.at => ArrayRead(t, e, f[e])
    OBVIOUS
  <2> QED
    BY <1>2, <2>1, <2>2, <2>3, TokenRead
<1> DEFINE n == Depth(t, c.at - 1)
<1>5. n \in Nat \ {0}
  BY DEF InArray
<1> HIDE DEF r, k, d
<1>6. CASE Junked(t)
  BY <1>6
<1>7. CASE (k.err \/ k.type \notin D) /\ ~StartsWithObject(t)
  <2>1. r.err
    <3>1. CASE k.err
      BY <1>1, <3>1, Zenon
    <3>2. CASE ~k.err
      <4>1. r = [k EXCEPT !.err = TRUE]
        BY <1>1, <1>7, <3>2, Zenon
      <4>2. k \in [type : TokenTypes, first : Nat, last : Nat, err : BOOLEAN]
        BY <1>2, TokenWithin DEF Within, k
      <4> QED
        BY <4>1, <4>2
    <3> QED
      BY <3>1, <3>2
  <2> QED
    BY <1>7, <2>1 DEF r
<1>8. CASE ~k.err /\ k.type \in D /\ Took(t, c.at, k)
  <2> DEFINE a == c.at
             e == k.last
  <2>1. /\ \A i \in (a - 1) .. (e - 1) : Depth(t, i) >= n
        /\ k.first \in a .. Len(t) /\ e \in k.first .. Len(t)
    BY <1>2, <1>8, TookDepth
  <2>2. CASE k.type = "]"
    <3>1. r = k
      BY <1>1, <1>3, <2>2, Zenon
    <3>2. /\ TypeAt(t, e) = "]" /\ Legal(t, e) /\ LastBefore(t, e + 1, e) /\ NoneBefore(t, e + 1)
          /\ Depth(t, e) = n + Deeper("]")
      <4>1. "]" # "ARRAY" /\ "]" # "}"
        OBVIOUS
      <4> QED
        BY <1>8, <2>2, <4>1, Zenon DEF Took
    <3>3. Depth(t, e) = n - 1
      <4>1. Deeper("]") = -1
        BY DEF Deeper
      <4> QED
        BY <1>5, <3>2, <4>1
    <3>4. e \in a .. Len(t)
      <4> HIDE DEF a, e
      <4> QED
        BY <1>2, <2>1 DEF a
    <3>5. Closes(t, c, k)
      BY <1>8, <2>1, <2>2, <3>2, <3>3, <3>4, Zenon DEF Closes
    <3> QED
      BY <3>1, <3>5 DEF r
  <2>3. CASE k.type # "]"
    <3>1. k.type \in c.due
      BY <1>8, <2>3, Zenon
    <3>2. r = f[d]
      BY <1>1, <1>8, <2>3, <3>1, Zenon
    <3>3. d \in Places(t) /\ d.at > a /\ InArray(t, d, e) /\ Depth(t, d.at - 1) = n
      BY <1>8, <3>1, DueNext DEF d
    <3>4. Junked(t) \/ Closes(t, d, r) \/ (r.err /\ ~StartsWithObject(t))
      BY <3>2, <3>3 DEF ArrayRead
    <3>5. ASSUME Closes(t, d, r) PROVE Closes(t, c, r)
      <4> DEFINE b == d.at
                 m == r.last
      <4>1. b = e + 1
        BY Zenon DEF d, Onward
      <4>2. /\ ~r.err /\ r.type = "]" /\ m \in b .. Len(t) /\ TypeAt(t, m) = "]"
            /\ Legal(t, m) /\ LastBefore(t, m + 1, m) /\ NoneBefore(t, m + 1)
            /\ Depth(t, m) = n - 1
            /\ \A i \in (b - 1) .. (m - 1) : Depth(t, i) >= n
        BY <3>3, <3>5, Zenon DEF Closes
      <4> HIDE DEF a, b, e, m
      <4>3. m \in a .. Len(t)
        BY <1>2, <2>1, <4>1, <4>2 DEF a
      <4>4. \A i \in (a - 1) .. (m - 1) : Depth(t, i) >= n
        <5> TAKE i \in (a - 1) .. (m - 1)
        <5>1. i \in (a - 1) .. (e - 1) \/ i \in (b - 1) .. (m - 1)
          BY <1>2, <2>1, <4>1, <4>2 DEF a
        <5> QED
          BY <2>1, <4>2, <5>1
      <4> QED
        BY <4>2, <4>3, <4>4, Zenon DEF Closes, a, m
    <3> QED
      BY <3>4, <3>5 DEF r
  <2> QED
    BY <2>2, <2>3
<1> QED
  BY <1>4, <1>6, <1>7, <1>8 DEF ReadAs

\* Every array is read as the text has it, or there is no object.
LEMMA ArraysRead ==
  ASSUME NEW L, NEW t \in Seq(L), NEW unset \in TokenTypes
  PROVE  \A c \in Places(t) : ArrayRead(t, c, ArrayEnds(t, unset)[c])
<1> DEFINE n == Len(t) + 1
           R == ArrayEnds(t, unset)
           T == {m \in 0 .. n : \E c \in Places(t) : c.at = n - m /\ ~ArrayRead(t, c, R[c])}
<1>1. n \in Nat /\ \A c \in Places(t) : c.at \in 1 .. n
  <2>1. n \in Nat
    BY LenProperties
  <2> QED
    BY <2>1, Zenon DEF Places
<1>2. /\ \A c \in Places(t) : R[c] = ReadArray(t, unset, c, R)
      /\ \A k \in Nat : EndsWithin(R, t, unset, k)
  BY ArrayEndsIs
<1> HIDE DEF n, R
<1>3. T = {}
  <2> SUFFICES ASSUME T # {} PROVE FALSE
    OBVIOUS
  <2>1. T \in SUBSET Nat
    BY <1>1
  <2>2. PICK m \in T : \A y \in T : m <= y
    BY <2>1, Least
  <2>3. PICK c \in Places(t) : m \in 0 .. n /\ c.at = n - m /\ ~ArrayRead(t, c, R[c])
    BY <2>2
  <2>4. ASSUME NEW d \in Places(t), d.at > c.at PROVE ArrayRead(t, d, R[d])
    <3> DEFINE y == n - d.at
    <3>1. y \in 0 .. n /\ d.at = n - y /\ ~(m <= y)
      BY <1>1, <2>3, <2>4
    <3> HIDE DEF y
    <3>2. y \notin T
      BY <2>2, <3>1
    <3> QED
      BY <3>1, <3>2
  <2>5. c.at \in Nat
    BY <1>1
  <2>6. ArrayRead(t, c, ReadArray(t, unset, c, R))
    BY <1>2, <2>4, <2>5, ArrayStep
  <2> QED
    BY <1>2, <2>3, <2>6
<1>4. ASSUME NEW c \in Places(t) PROVE ArrayRead(t, c, R[c])
  <2> DEFINE y == n - c.at
  <2>1. y \in 0 .. n /\ c.at = n - y
    BY <1>1
  <2> HIDE DEF y
  <2> QED
    BY <1>3, <2>1
<1> QED
  BY <1>4 DEF R

\* So is every token of a pair.
LEMMA TokenIsRead ==
  ASSUME NEW L, NEW t \in Seq(L), NEW unset \in TokenTypes, NEW old \in TokenTypes,
         NEW p, NEW l, NEW D \in SUBSET (Single \cup {"ARRAY"}),
         Stands(t, p, l, D), old \notin D, Depth(t, p - 1) \in Nat
  PROVE  ReadAs(t, p, GetToken(t, unset, p, old), D)
<1>1. Kept(t, l, old, D)
  BY DEF Kept
<1>2. \A c \in Places(t) : c.at > p => ArrayRead(t, c, ArrayEnds(t, unset)[c])
  BY ArraysRead
<1>3. ReadAs(t, p, ReadToken(t, unset, p, old, ArrayEnds(t, unset)), D)
  BY <1>1, <1>2, TokenRead
<1>4. CASE p > Len(t)
  <2>1. p = Len(t) + 1 /\ NoneBefore(t, p)
    <3>1. Len(t) \in Nat /\ p \in 1 .. (Len(t) + 1)
      BY LenProperties DEF Stands
    <3> QED
      BY <1>4, <3>1 DEF Stands
  <2>2. ~StartsWithObject(t)
    BY <2>1, NoEnd
  <2>3. GetToken(t, unset, p, old) = TokenOf(old, p, p, TRUE)
    BY <1>4 DEF GetToken
  <2>4. GetToken(t, unset, p, old).err
    <3>1. TokenOf(old, p, p, TRUE).err
      BY DEF TokenOf
    <3> QED
      BY <2>3, <3>1, Zenon
  <2> QED
    BY <2>2, <2>4 DEF ReadAs
<1>5. CASE ~(p > Len(t))
  BY <1>3, <1>5 DEF GetToken
<1> QED
  BY <1>4, <1>5

----------------------------------------------------------------------------
\* The walk of parse through an object.

\* The walk over an object, where l is the last place read.
InObject(t, l, logPos) ==
    /\ Stands(t, l + 1, l, Wanted(logPos)) /\ Depth(t, l) = 0
    /\ logPos = "first" => TypeAt(t, l) = "{"
    /\ logPos = "key" => TypeAt(t, l) = ","
    /\ logPos = "value" => TypeAt(t, l) = ":"

\* The type that a token_t holds when a part of a pair is wanted.
Before(logPos) ==
    CASE logPos = "first" -> {"{"}
      [] logPos = "key"   -> {","}
      [] logPos = "colon" -> {"STR"}
      [] logPos = "value" -> {":"}
      [] logPos = "comma" -> Values

\* In a pair.
InPair == {"first", "key", "colon", "value", "comma"}

\* It is none that is wanted, but one that was.
LEMMA WantedTypes ==
  ASSUME NEW logPos \in InPair
  PROVE  /\ Wanted(logPos) \in SUBSET (Single \cup {"ARRAY"})
         /\ \A old \in Before(logPos) : old \notin Wanted(logPos) /\ old \in TokenTypes
         /\ After(logPos) \in InPair
         /\ \A u \in Wanted(logPos) : u # "}" => u \in Before(After(logPos))
<1>1. CASE logPos = "first"
  BY <1>1, Zenon DEF Wanted, Before, After, Single, TokenTypes, InPair
<1>2. CASE logPos = "key"
  BY <1>2, Zenon DEF Wanted, Before, After, Single, TokenTypes, InPair
<1>3. CASE logPos = "colon"
  BY <1>3, Zenon DEF Wanted, Before, After, Single, TokenTypes, InPair
<1>4. CASE logPos = "value"
  BY <1>4, Zenon DEF Wanted, Before, After, Single, TokenTypes, InPair, Values
<1>5. CASE logPos = "comma"
  BY <1>5, Zenon DEF Wanted, Before, After, Single, TokenTypes, InPair, Values
<1> QED
  BY <1>1, <1>2, <1>3, <1>4, <1>5 DEF InPair

\* The end of an object.
Closing(k) == k.type = "}"

\* An object begins with its brace.
LEMMA ObjectBegins ==
  ASSUME NEW L, NEW t \in Seq(L), Opens(t)
  PROVE  InObject(t, 1, "first")
<1>1. Len(t) \in Nat /\ Len(t) >= 1 /\ 1 \in 1 .. Len(t) /\ DOMAIN t = 1 .. Len(t)
  <2>1. Len(t) \in Nat /\ Len(t) # 0 /\ DOMAIN t = 1 .. Len(t)
    BY LenProperties, EmptySeq DEF Opens
  <2> QED
    BY <2>1
<1>2. TypeAt(t, 1) = "{" /\ ~BlankAt(t, 1)
  BY <1>1, Zenon DEF TypeAt, BlankAt, Opens
<1>3. FirstFrom(t, 1, 1) /\ 1 \in 1 .. (Len(t) + 1) /\ 1 + 1 \in 1 .. (Len(t) + 1)
  <2>1. 1 .. (1 - 1) = {} /\ 1 \in 1 .. (Len(t) + 1) /\ 1 + 1 \in 1 .. (Len(t) + 1)
    BY <1>1
  <2> QED
    BY <1>1, <1>2, <2>1 DEF FirstFrom
<1>4. Depth(t, 1) = 0
  <2>1. Depth(t, 1) = Depth(t, 1 - 1) + Deeper("{")
    BY <1>2, <1>3, DepthNext
  <2>2. Deeper("{") = 0
    BY DEF Deeper
  <2>3. Depth(t, 1 - 1) = 0
    <3>1. \A u : {j \in 1 .. (1 - 1) : t[j].type = u} = {}
      OBVIOUS
    <3>2. Cardinality({}) = 0
      BY FS_EmptySet
    <3>3. Depth(t, 1 - 1) = Cardinality({}) - Cardinality({})
      BY <3>1 DEF Depth
    <3> QED
      BY <3>2, <3>3
  <2>4. 0 + 0 = 0
    OBVIOUS
  <2> QED
    BY <2>1, <2>2, <2>3, <2>4, Zenon
<1>5. LastBefore(t, 1 + 1, 1)
  <2>1. 1 \in 1 .. ((1 + 1) - 1) /\ (1 + 1) .. ((1 + 1) - 1) = {}
    OBVIOUS
  <2> QED
    BY <1>2, <2>1 DEF LastBefore
<1>6. Legal(t, (1 + 1) - 1)
  <2>1. \A i, j \in 1 .. ((1 + 1) - 1) : ~(i < j)
    OBVIOUS
  <2> QED
    BY <2>1 DEF Legal, Follows
<1>7. NoneBefore(t, 1 + 1)
  <2>1. \A i \in 1 .. ((1 + 1) - 1) : i = 1
    OBVIOUS
  <2> QED
    BY <2>1, Zenon DEF NoneBefore, Opens
<1>8. \A j : Follows(t, 1, j) => (MayFollow(t, 1, j) <=> TypeAt(t, j) \in Begins(Wanted("first")))
  <2>1. Wanted("first") = {"}", "STR"}
    BY Zenon DEF Wanted
  <2> QED
    BY <1>2, <1>4, <2>1, Followers, Zenon
<1>9. Stands(t, 1 + 1, 1, Wanted("first"))
  BY <1>3, <1>5, <1>6, <1>7, <1>8 DEF Stands
<1> QED
  BY <1>2, <1>4, <1>9, Zenon DEF InObject

\* The walk after a token of a pair.
LEMMA ObjectNext ==
  ASSUME NEW L, NEW t \in Seq(L), NEW l, NEW logPos \in InPair, InObject(t, l, logPos), NEW k,
         Took(t, l + 1, k), k.type \in Wanted(logPos), ~Closing(k)
  PROVE  InObject(t, k.last, After(logPos))
<1> DEFINE e == k.last
           s == k.first
           u == TypeAt(t, e)
<1>1. /\ Stands(t, l + 1, l, Wanted(logPos)) /\ Depth(t, l) = 0
      /\ logPos = "first" => TypeAt(t, l) = "{"
      /\ logPos = "key" => TypeAt(t, l) = ","
      /\ logPos = "value" => TypeAt(t, l) = ":"
  BY DEF InObject
<1>2. /\ l + 1 \in 1 .. (Len(t) + 1) /\ LastBefore(t, l + 1, l) /\ Len(t) \in Nat
  BY <1>1, LenProperties DEF Stands
<1>3. l \in Nat /\ (l + 1) - 1 = l
  <2>1. l \in 1 .. ((l + 1) - 1)
    BY <1>2 DEF LastBefore
  <2> QED
    BY <2>1
<1>4. s \in (l + 1) .. Len(t) /\ e \in s .. Len(t)
  BY <1>2, TookDepth
<1>12. /\ FirstFrom(t, l + 1, s) /\ LastBefore(t, l + 1, l)
       /\ Depth(t, l) = 0
  BY <1>1, <1>2, Zenon DEF Took
<1>5. /\ FirstFrom(t, l + 1, s) /\ Legal(t, e) /\ LastBefore(t, e + 1, e) /\ NoneBefore(t, e + 1)
      /\ k.type # "ARRAY" => e = s /\ u = k.type /\ Depth(t, s) = Depth(t, l) + Deeper(k.type)
      /\ k.type = "ARRAY" => u = "]" /\ Depth(t, e) = Depth(t, l)
  BY <1>3, Zenon DEF Took, Closing
<1>6. /\ Follows(t, l, s)
      /\ \A h : Follows(t, h, s) => h = l
  <2>1. /\ Follows(t, l, s)
        /\ \A i, j \in 1 .. s : Follows(t, i, j) =>
             (i \in 1 .. ((l + 1) - 1) /\ j \in 1 .. ((l + 1) - 1)) \/ (i = l /\ j = s)
    <3> DEFINE p == l + 1
    <3>1. p \in 1 .. (Len(t) + 1) /\ LastBefore(t, p, l) /\ FirstFrom(t, p, s)
      BY <1>2, <1>12
    <3> HIDE DEF p, s
    <3>2. /\ Follows(t, l, s)
          /\ \A i, j \in 1 .. s : Follows(t, i, j) =>
               (i \in 1 .. (p - 1) /\ j \in 1 .. (p - 1)) \/ (i = l /\ j = s)
      BY <3>1, NextPair
    <3> QED
      BY <3>2 DEF p
  <2>2. ASSUME NEW h, Follows(t, h, s) PROVE h = l
    <3>1. h \in 1 .. Len(t) /\ h < s
      BY <2>2, FollowsIs
    <3> HIDE DEF s
    <3>2. h \in 1 .. s /\ s \in 1 .. s /\ s \notin 1 .. ((l + 1) - 1)
      BY <1>2, <1>3, <1>4, <3>1
    <3> QED
      BY <2>1, <2>2, <3>2
  <2> QED
    BY <2>1, <2>2
<1>7. Depth(t, e) = 0
  <2>1. CASE k.type = "ARRAY"
    BY <1>1, <1>5, <2>1, Zenon
  <2>2. CASE k.type # "ARRAY"
    <3>1. k.type # "[" /\ k.type # "]"
      BY Zenon DEF InPair, Wanted, Values
    <3>2. Deeper(k.type) = 0
      BY <3>1, Zenon DEF Deeper
    <3>3. Depth(t, e) = Depth(t, l) + Deeper(k.type) /\ Depth(t, l) = 0
      BY <1>1, <1>5, <2>2, Zenon
    <3> HIDE DEF e
    <3>4. 0 + 0 = 0
      OBVIOUS
    <3> QED
      BY <3>2, <3>3, <3>4, Zenon
  <2> QED
    BY <2>1, <2>2
<1>8. Opened(t, s) <=> TypeAt(t, l) \in {"{", ","}
  <2>1. t[l].type = TypeAt(t, l) /\ l \in DOMAIN t
    BY <1>6, Zenon DEF Follows, TypeAt
  <2> QED
    BY <1>6, <2>1, Zenon DEF Opened
<1> DEFINE D == Wanted(After(logPos))
           Fit == \A j : Follows(t, e, j) => (MayFollow(t, e, j) <=> TypeAt(t, j) \in Begins(D))
<1>9. /\ Fit
      /\ After(logPos) = "first" => u = "{"
      /\ After(logPos) = "key" => u = ","
      /\ After(logPos) = "value" => u = ":"
  <2>1. CASE logPos = "first" \/ logPos = "key"
    <3>1. After(logPos) = "colon" /\ D = {":"} /\ k.type = "STR"
      BY <2>1, Zenon DEF After, Wanted, Closing
    <3>2. u = "STR" /\ Opened(t, e)
      BY <1>1, <1>5, <1>8, <2>1, <3>1, Zenon
    <3> HIDE DEF e, u, D
    <3>3. \A j : Follows(t, e, j) => (MayFollow(t, e, j) <=> TypeAt(t, j) \in Begins({":"}))
      BY <1>7, <3>2, Followers, Zenon DEF u
    <3> QED
      BY <3>1, <3>3, Zenon
  <2>2. CASE logPos = "colon"
    <3>1. After(logPos) = "value" /\ D = Values /\ k.type = ":"
      BY <2>2, Zenon DEF After, Wanted
    <3>2. u = ":"
      BY <1>5, <3>1, Zenon
    <3> HIDE DEF e, u, D
    <3>3. \A j : Follows(t, e, j) => (MayFollow(t, e, j) <=> TypeAt(t, j) \in Begins(Values))
      BY <1>7, <3>2, Followers, Zenon DEF u
    <3> QED
      BY <3>1, <3>2, <3>3, Zenon
  <2>3. CASE logPos = "value"
    <3>1. After(logPos) = "comma" /\ D = {"}", ","} /\ k.type \in {"STR", "NUM", "ARRAY"}
      BY <2>3, Zenon DEF After, Wanted, Values
    <3>2. u \in {"NUM", "]"} \/ (u = "STR" /\ ~Opened(t, e))
      BY <1>1, <1>5, <1>8, <2>3, <3>1, Zenon
    <3> HIDE DEF e, u, D
    <3>3. \A j : Follows(t, e, j) => (MayFollow(t, e, j) <=> TypeAt(t, j) \in Begins({"}", ","}))
      BY <1>7, <3>2, Followers, Zenon DEF u
    <3> QED
      BY <3>1, <3>3, Zenon
  <2>4. CASE logPos = "comma"
    <3>1. After(logPos) = "key" /\ D = {"STR"} /\ k.type = ","
      BY <2>4, Zenon DEF After, Wanted, Closing
    <3>2. u = ","
      BY <1>5, <3>1, Zenon
    <3> HIDE DEF e, u, D
    <3>3. \A j : Follows(t, e, j) => (MayFollow(t, e, j) <=> TypeAt(t, j) \in Begins({"STR"}))
      BY <1>7, <3>2, Followers, Zenon DEF u
    <3> QED
      BY <3>1, <3>2, <3>3, Zenon
  <2> QED
    BY <2>1, <2>2, <2>3, <2>4 DEF InPair
<1> HIDE DEF D
<1>10. e + 1 \in 1 .. (Len(t) + 1) /\ (e + 1) - 1 = e
  <2> HIDE DEF s, e
  <2> QED
    BY <1>2, <1>3, <1>4
<1>11. Stands(t, e + 1, e, D)
  BY <1>5, <1>9, <1>10 DEF Stands
<1> QED
  BY <1>7, <1>9, <1>11, Zenon DEF InObject, D

\* The walk at the end of the object.
LEMMA ObjectEnds ==
  ASSUME NEW L, NEW t \in Seq(L), Opens(t), NEW p \in 1 .. (Len(t) + 1), NEW k,
         Took(t, p, k), Closing(k)
  PROVE  StartsWithObject(t) /\ NoneBefore(t, k.first) /\ t[k.first].type = "}"
<1>1. k.first \in 1 .. Len(t)
  <2>1. k.first \in p .. Len(t)
    BY TookDepth
  <2> HIDE DEF Took
  <2> QED
    BY <2>1
<1>2. k.first \in DOMAIN t
  BY <1>1, LenProperties
<1>3. /\ Legal(t, k.first) /\ NoneBefore(t, k.first) /\ TypeAt(t, k.first) = "}"
  <2>1. k.type # "ARRAY"
    BY Zenon DEF Closing
  <2> QED
    BY <2>1, Zenon DEF Took, Closing
<1>4. t[k.first].type = "}"
  BY <1>2, <1>3, Zenon DEF TypeAt
<1> QED
  BY <1>2, <1>3, <1>4, Zenon DEF StartsWithObject, Opens

\* A token that parse wants.
Fine(k, logPos) == ~k.err /\ k.type \in Wanted(logPos)

\* The walk of parse behind its first token: on the way through an object, past
\* junk, or, after a first token that a blank precedes, before one that is refused.
OnTheWay ==
    /\ type \in Before(step)
    /\ \/ Junked(text)
       \/ ~StartsWithObject(text) /\ ~Good
       \/ \E l \in Nat : pos = l + 1 /\ InObject(text, l, step) /\ Opens(text)

\* The whole walk, to what it makes of the text.
WalkInv ==
    /\ step = "brace" => pos = 1
    /\ step \in InPair => OnTheWay
    /\ AcceptsExactly

\* The fields of a token.
LEMMA TokenFields ==
  \A u, a, b :
      /\ TokenOf(u, a, b, FALSE).type = u /\ TokenOf(u, a, b, FALSE).first = a
      /\ TokenOf(u, a, b, FALSE).last = b /\ ~TokenOf(u, a, b, FALSE).err
      /\ TokenOf(u, a, b, TRUE).err
  BY DEF TokenOf

\* The first token of a text that begins with a brace is that brace.  When there
\* is a '{' later or none, a second read from the second place finds it again.
LEMMA BraceRead ==
  ASSUME NEW L, NEW t \in Seq(L), NEW unset \in TokenTypes, NEW old \in TokenTypes,
         NEW k, k = GetToken(t, unset, 1, old)
  PROVE  /\ Opens(t) => Fine(k, "brace")
         /\ Fine(k, "brace") =>
              \/ Opens(t) \/ Junked(t)
              \/ ~StartsWithObject(t) /\ ~Fine(GetToken(t, unset, 2, k.type), "first")
<1>1. Len(t) \in Nat /\ DOMAIN t = 1 .. Len(t)
  BY LenProperties
<1>2. Wanted("brace") = {"{"} /\ "{" \notin Wanted("first") /\ "{" \in Single
  BY Zenon DEF Wanted, Single
<1>3. StartsWithObject(t) => Opens(t)
  BY Zenon DEF StartsWithObject, Opens
<1>4. ASSUME Opens(t) PROVE Fine(k, "brace")
  <2>1. 1 \in 1 .. Len(t)
    <3>1. Len(t) # 0
      BY <1>4, EmptySeq DEF Opens
    <3> QED
      BY <1>1, <3>1
  <2>2. TypeAt(t, 1) = "{"
    BY <1>1, <1>4, <2>1, Zenon DEF TypeAt, Opens
  <2>3. k = TokenOf(TypeAt(t, 1), 1, 1, FALSE)
    <3>1. TypeAt(t, 1) \in Single
      BY <1>2, <2>2, Zenon
    <3> QED
      BY <2>1, <3>1, OneLexeme
  <2>4. ~k.err /\ k.type = TypeAt(t, 1)
    <3> DEFINE v == TokenOf(TypeAt(t, 1), 1, 1, FALSE)
    <3>1. ~v.err /\ v.type = TypeAt(t, 1)
      BY TokenFields
    <3> HIDE DEF v
    <3> QED
      BY <2>3, <3>1, Zenon DEF v
  <2> QED
    BY <1>2, <2>2, <2>4, Zenon DEF Fine
<1>5. ASSUME Fine(k, "brace"), ~Opens(t)
      PROVE  Junked(t) \/ ~Fine(GetToken(t, unset, 2, k.type), "first")
  <2> DEFINE s == SkipBlanks(t, 1)
             u == TypeAt(t, s)
             R == ArrayEnds(t, unset)
  <2>1. ~k.err /\ k.type = "{"
    BY <1>2, <1>5, Zenon DEF Fine
  <2>2. ~(1 > Len(t))
    <3>1. ASSUME 1 > Len(t) PROVE FALSE
      <4>1. k = TokenOf(old, 1, 1, TRUE)
        BY <3>1 DEF GetToken
      <4>2. k.err
        BY <4>1, TokenFields, Zenon
      <4> QED
        BY <2>1, <4>2
    <3> QED
      BY <3>1
  <2>3. 1 \in 1 .. Len(t) /\ 1 \in 1 .. (Len(t) + 1) /\ 2 \in 1 .. (Len(t) + 1)
    BY <1>1, <2>2
  <2>4. /\ s \in 1 .. (Len(t) + 1) /\ ~BlankAt(t, s)
        /\ \A b \in 1 .. (s - 1) : BlankAt(t, b)
    BY <2>3, SkipsBlanks
  <2>5. k = ReadToken(t, unset, 1, old, R)
    BY <2>2 DEF GetToken
  <2> DEFINE c0 == [due |-> Values, at |-> s + 1, old |-> unset]
             array == IF TypeAt(t, s + 1) = "]"
                      THEN TokenOf("ARRAY", s, s + 1, FALSE) ELSE R[c0]
             Reads(x, o) == x = CASE u \in Single -> TokenOf(u, s, s, FALSE)
                                 [] u \in Unread -> TokenOf(o, s, s, FALSE)
                                 [] u = "[" /\ ~array.err -> TokenOf("ARRAY", s, array.last, FALSE)
                                 [] OTHER -> TokenOf(o, s, s, TRUE)
  <2>9. Reads(k, old)
    BY <2>5 DEF ReadToken, UnreadType
  <2> HIDE DEF s, R, array
  <2> HIDE DEF u
  <2>10. /\ u \in Single => u \notin Unread /\ u # "["
         /\ u \in Unread => u \notin Single /\ u # "["
    BY Zenon DEF Single, Unread
  <2>6. u \in Unread \/ u = "{"
    <3>1. u = "[" => FALSE
      <4>1. ASSUME u = "[" PROVE k.type = "ARRAY" \/ k.err
        <5>2. u \notin Single /\ u \notin Unread
          BY <4>1, Zenon DEF Single, Unread
        <5>3. k = TokenOf("ARRAY", s, array.last, FALSE) \/ k = TokenOf(old, s, s, TRUE)
          BY <2>9, <4>1, <5>2, Zenon
        <5>4. TokenOf("ARRAY", s, array.last, FALSE).type = "ARRAY" /\ TokenOf(old, s, s, TRUE).err
          BY TokenFields
        <5> QED
          BY <5>3, <5>4, Zenon
      <4> QED
        BY <2>1, <4>1, Zenon
    <3>2. u \in Single => u = "{"
      <4>1. ASSUME u \in Single PROVE k.type = u
        <5>1. k = TokenOf(u, s, s, FALSE)
          BY <2>9, <2>10, <4>1, Zenon
        <5>2. TokenOf(u, s, s, FALSE).type = u
          BY TokenFields
        <5> QED
          BY <5>1, <5>2, Zenon
      <4> QED
        BY <2>1, <4>1, Zenon
    <3>3. u \notin Single /\ u \notin Unread /\ u # "[" => k.err
      <4>1. ASSUME u \notin Single, u \notin Unread, u # "[" PROVE k.err
        <5>1. k = TokenOf(old, s, s, TRUE)
          BY <2>9, <4>1, Zenon
        <5>2. TokenOf(old, s, s, TRUE).err
          BY TokenFields
        <5> QED
          BY <5>1, <5>2, Zenon
      <4> QED
        BY <4>1
    <3> HIDE DEF u
    <3> QED
      BY <2>1, <3>1, <3>2, <3>3, Zenon
  <2>7. CASE s = 1
    <3>1. u # "{"
      <4>1. u = t[1].type /\ t # <<>>
        <5>1. u = t[1].type
          BY <1>1, <2>3, <2>7, Zenon DEF TypeAt, u
        <5> QED
          BY <1>1, <2>3, <5>1, EmptySeq
      <4> QED
        BY <1>5, <4>1, Zenon DEF Opens
    <3>2. t[1].type \in Unread /\ 1 \in DOMAIN t
      BY <1>1, <2>3, <2>6, <2>7, <3>1, Zenon DEF TypeAt, u
    <3>3. 1 .. (1 - 1) = {}
      OBVIOUS
    <3>4. ReadsJunk(t)
      BY <3>2, <3>3, Zenon DEF ReadsJunk
    <3> QED
      BY <1>3, <1>5, <3>4 DEF Junked
  <2>8. CASE s # 1
    <3> DEFINE q == SkipBlanks(t, 2)
               j == GetToken(t, unset, 2, k.type)
    <3>1. /\ q \in 2 .. (Len(t) + 1) /\ ~BlankAt(t, q)
          /\ \A b \in 2 .. (q - 1) : BlankAt(t, b)
      BY <2>3, SkipsBlanks
    <3>2. q = s
      <4> HIDE DEF q
      <4>1. ~(q < s)
        <5> SUFFICES ASSUME q < s PROVE FALSE
          OBVIOUS
        <5>1. q \in 1 .. (s - 1)
          BY <1>1, <2>4, <3>1
        <5> QED
          BY <2>4, <3>1, <5>1
      <4>2. ~(s < q)
        <5> SUFFICES ASSUME s < q PROVE FALSE
          OBVIOUS
        <5>1. s \in 2 .. (q - 1)
          BY <1>1, <2>4, <2>8, <3>1
        <5> QED
          BY <2>4, <3>1, <5>1
      <4> QED
        BY <1>1, <2>4, <3>1, <4>1, <4>2
    <3>3. TypeAt(t, s) = u /\ u # "?"
      <4>1. u # "?"
        BY <2>6, Zenon DEF Unread
      <4> QED
        BY <4>1 DEF u
    <3>4. ~(2 > Len(t))
      <4> SUFFICES ASSUME 2 > Len(t) PROVE FALSE
        OBVIOUS
      <4>1. s > Len(t)
        BY <1>1, <2>4, <2>8
      <4> QED
        BY <1>1, <2>4, <3>3, <4>1, PastTheEnd
    <3> HIDE DEF q
    <3>5. j = ReadToken(t, unset, 2, k.type, R)
      BY <3>4 DEF GetToken, R
    <3>7. Reads(j, k.type)
      <4>1. ReadToken(t, unset, 2, k.type, R) =
              CASE TypeAt(t, q) \in Single -> TokenOf(TypeAt(t, q), q, q, FALSE)
                [] TypeAt(t, q) \in Unread -> TokenOf(k.type, q, q, FALSE)
                [] TypeAt(t, q) = "[" /\ ~(IF TypeAt(t, q + 1) = "]"
                      THEN TokenOf("ARRAY", q, q + 1, FALSE)
                      ELSE R[[due |-> Values, at |-> q + 1, old |-> unset]]).err ->
                     TokenOf("ARRAY", q, (IF TypeAt(t, q + 1) = "]"
                      THEN TokenOf("ARRAY", q, q + 1, FALSE)
                      ELSE R[[due |-> Values, at |-> q + 1, old |-> unset]]).last, FALSE)
                [] OTHER -> TokenOf(k.type, q, q, TRUE)
        BY DEF ReadToken, UnreadType, q
      <4> HIDE DEF j
      <4> QED
        BY <3>2, <3>3, <3>5, <4>1, Zenon DEF array
    <3>6. j.type = "{"
      <4>1. CASE u \in Unread
        <5> HIDE DEF u, j
        <5>2. j = TokenOf(k.type, s, s, FALSE)
          BY <2>10, <3>7, <4>1, Zenon
        <5>4. TokenOf(k.type, s, s, FALSE).type = k.type
          BY TokenFields, ZenonT(60)
        <5>3. j.type = k.type
          BY <5>2, <5>4, Zenon
        <5> QED
          BY <2>1, <5>3, Zenon
      <4>2. CASE u = "{"
        <5>1. u \in Single
          BY <1>2, <4>2, Zenon
        <5> HIDE DEF j
        <5>2. j = TokenOf(u, s, s, FALSE)
          BY <2>10, <3>7, <5>1, Zenon
        <5> QED
          BY <4>2, <5>2, TokenFields, Zenon
      <4> HIDE DEF u, j
      <4> QED
        BY <2>6, <4>1, <4>2
    <3> QED
      BY <1>2, <3>6, Zenon DEF Fine
  <2> QED
    BY <2>7, <2>8
<1> QED
  BY <1>3, <1>4, <1>5, Zenon

\* One token of parse more.
LEMMA ParserStep ==
  ASSUME MessageInv, WalkInv, Advance \/ Finish \/ Refuse
  PROVE  WalkInv'
<1>1. PICK L : text \in Seq(L)
  BY DEF MessageInv
<1>2. /\ step \in LogPos /\ text' = text /\ junk' = junk
      /\ Good => Advance \/ Finish
      /\ ~Good => step' = "refused"
      /\ Good <=> Fine(Token, step)
  BY DEF Advance, Finish, Refuse, Good, Fine
<1>3. /\ junk \in TokenTypes /\ type \in TokenTypes /\ pos \in 1 .. (Len(text) + 1)
      /\ Len(text) \in Nat
  BY <1>1, LenProperties DEF MessageInv, TypeOK
<1>4. StartsWithObject(text)' <=> StartsWithObject(text)
  BY <1>2
<1>5. ReadsJunk(text)' <=> ReadsJunk(text)
  BY <1>2
<1>6. ASSUME ~StartsWithObject(text), step' = "refused" PROVE WalkInv'
  BY <1>4, <1>6 DEF WalkInv, AcceptsExactly, InPair
<1>7. ASSUME StartsWithObject(text) \/ ReadsJunk(text), step' = "taken" PROVE WalkInv'
  BY <1>4, <1>5, <1>7 DEF WalkInv, AcceptsExactly, InPair
<1>8. ASSUME OnTheWay', step' \in InPair PROVE WalkInv'
  BY <1>8 DEF WalkInv, AcceptsExactly, InPair
<1>9. CASE step = "brace"
  <2>1. Token = GetToken(text, junk, 1, type)
    BY <1>9 DEF WalkInv, Token
  <2>2. /\ Opens(text) => Good
        /\ Good =>
             \/ Opens(text) \/ Junked(text)
             \/ ~StartsWithObject(text) /\ ~Fine(GetToken(text, junk, 2, Token.type), "first")
    BY <1>1, <1>2, <1>3, <1>9, <2>1, BraceRead
  <2>3. CASE ~Good
    <3>1. ~StartsWithObject(text)
      BY <2>2, <2>3, Zenon DEF StartsWithObject, Opens
    <3> QED
      BY <1>2, <1>6, <2>3, <3>1
  <2>4. CASE Good
    <3>1. Token.type = "{"
      BY <1>9, <2>4, Zenon DEF Good, Wanted
    <3>2. Advance
      BY <1>2, <2>4, <3>1, Zenon DEF Finish
    <3>3. step' = "first" /\ pos' = 2 /\ type' = Token.type
      BY <1>9, <3>2, Zenon DEF Advance, After, NextPos
    <3>4. type' \in Before("first")
      BY <3>1, <3>3, Zenon DEF Before
    <3>5. CASE Opens(text)
      <4>1. InObject(text, 1, "first")
        BY <1>1, <3>5, ObjectBegins
      <4>2. 2 = 1 + 1 /\ 1 \in Nat
        OBVIOUS
      <4>3. OnTheWay'
        BY <1>2, <3>3, <3>4, <3>5, <4>1, <4>2, Zenon DEF OnTheWay
      <4> QED
        BY <1>8, <3>3, <4>3, Zenon DEF InPair
    <3>6. CASE Junked(text)
      <4>1. OnTheWay'
        BY <1>2, <3>3, <3>4, <3>6, Zenon DEF OnTheWay
      <4> QED
        BY <1>8, <3>3, <4>1, Zenon DEF InPair
    <3>7. CASE ~StartsWithObject(text) /\ ~Fine(GetToken(text, junk, 2, Token.type), "first")
      <4>1. ~Good'
        BY <1>2, <3>3, <3>7, Zenon DEF Good, Token, Fine
      <4>2. OnTheWay'
        BY <1>4, <3>3, <3>4, <3>7, <4>1, Zenon DEF OnTheWay
      <4> QED
        BY <1>8, <3>3, <4>2, Zenon DEF InPair
    <3> QED
      BY <2>2, <2>4, <3>5, <3>6, <3>7
  <2> QED
    BY <2>3, <2>4
<1>10. CASE step \in InPair
  <2>1. OnTheWay
    BY <1>10 DEF WalkInv
  <2>2. /\ Wanted(step) \in SUBSET (Single \cup {"ARRAY"})
        /\ type \notin Wanted(step) /\ After(step) \in InPair
        /\ \A u \in Wanted(step) : u # "}" => u \in Before(After(step))
    BY <1>10, <2>1, WantedTypes DEF OnTheWay
  <2>3. Advance => /\ step' = After(step) /\ pos' = Token.last + 1 /\ type' = Token.type
                   /\ ~Closing(Token) /\ step' \in InPair /\ type' \in Before(step')
    <3>1. step # "brace"
      BY <1>10, Zenon DEF InPair
    <3> QED
      BY <1>2, <2>2, <3>1, Zenon DEF Advance, NextPos, Good, Closing
  <2>4. Finish => Closing(Token) /\ step' = "taken"
    BY Zenon DEF Finish, Closing
  <2>5. CASE Junked(text)
    <3>1. ReadsJunk(text) /\ ~StartsWithObject(text)
      BY <2>5 DEF Junked
    <3>2. Advance => OnTheWay'
      BY <1>2, <2>3, <2>5 DEF OnTheWay
    <3> QED
      BY <1>2, <1>6, <1>7, <1>8, <2>3, <2>4, <3>1, <3>2
  <2>6. CASE ~StartsWithObject(text) /\ ~Good
    BY <1>2, <1>6, <2>6
  <2>7. CASE \E l \in Nat : pos = l + 1 /\ InObject(text, l, step) /\ Opens(text)
    <3>1. PICK l \in Nat : pos = l + 1 /\ InObject(text, l, step)
      BY <2>7
    <3>2. Stands(text, pos, l, Wanted(step)) /\ Depth(text, pos - 1) \in Nat
      <4>1. Stands(text, l + 1, l, Wanted(step)) /\ Depth(text, l) = 0
        BY <3>1 DEF InObject
      <4>2. pos - 1 = l
        BY <3>1
      <4> QED
        BY <3>1, <4>1, <4>2
    <3>3. ReadAs(text, pos, Token, Wanted(step))
      BY <1>1, <1>3, <2>2, <3>2, TokenIsRead DEF Token
    <3>4. CASE Junked(text)
      BY <2>5, <3>4
    <3>5. CASE ~Token.err /\ Token.type \in Wanted(step) /\ Took(text, pos, Token)
      <4>1. Good
        BY <3>5 DEF Good
      <4>2. ASSUME Finish PROVE StartsWithObject(text)
        BY <1>1, <1>3, <2>4, <2>7, <3>5, <4>2, ObjectEnds
      <4>3. ASSUME Advance PROVE OnTheWay'
        <5>1. InObject(text, Token.last, After(step))
          BY <1>1, <1>10, <2>3, <3>1, <3>5, <4>3, ObjectNext
        <5>2. Token.last \in Nat
          <6>1. Token.first \in pos .. Len(text) /\ Token.last \in Token.first .. Len(text)
            BY <1>1, <1>3, <3>5, TookDepth
          <6> QED
            BY <1>3, <6>1
        <5>3. Opens(text)
          BY <2>7
        <5> QED
          BY <1>2, <2>3, <4>3, <5>1, <5>2, <5>3, Zenon DEF OnTheWay
      <4> QED
        BY <1>2, <1>7, <1>8, <2>3, <2>4, <4>1, <4>2, <4>3
    <3>6. CASE (Token.err \/ Token.type \notin Wanted(step)) /\ ~StartsWithObject(text)
      BY <1>2, <1>6, <3>6 DEF Good
    <3> QED
      BY <3>3, <3>4, <3>5, <3>6 DEF ReadAs
  <2> QED
    BY <2>1, <2>5, <2>6, <2>7 DEF OnTheWay
<1> QED
  BY <1>2, <1>9, <1>10 DEF LogPos, InPair

\* A message that the parser has not begun to read.
LEMMA NotBegun ==
  ASSUME step \in {"built", "sent", "unsent"} \/ (step = "brace" /\ pos = 1)
           \/ (step = "refused" /\ ~StartsWithObject(text))
  PROVE  WalkInv
  BY DEF WalkInv, AcceptsExactly, InPair

\* Every step of a search, and of a message that is none, keeps the walk.
LEMMA WalkStep ==
  ASSUME SearchInv, WalkInv, [SearchNext]_allvars
  PROVE  WalkInv'
<1>1. MessageInv
  BY DEF SearchInv
<1>2. CASE Send
  <2>1. step' \in {"sent", "unsent"}
    BY <1>1, <1>2, SendIs DEF MessageInv
  <2> QED
    BY <2>1 DEF WalkInv, AcceptsExactly, InPair
<1>3. CASE Receive \/ Decode
  <2>1. step = "sent" /\ pos' = pos
    BY <1>3 DEF Receive, Decode
  <2>2. pos = 1 /\ text = <<>>
    BY <1>1, <2>1 DEF MessageInv
  <2>3. step' = "brace" \/ (step' = "refused" /\ text' = text)
    BY <1>3 DEF Receive, Decode
  <2>4. ~StartsWithObject(<<>>)
    BY Zenon DEF StartsWithObject
  <2>5. step' = "refused" => ~StartsWithObject(text)'
    <3>1. step' = "refused" => text' = <<>>
      BY <2>2, <2>3
    <3> QED
      BY <2>4, <3>1
  <2> QED
    BY <2>1, <2>2, <2>3, <2>5 DEF WalkInv, AcceptsExactly, InPair
<1>4. CASE Advance \/ Finish \/ Refuse
  BY <1>1, <1>4, ParserStep
<1>5. CASE UNCHANGED vars
  BY <1>5 DEF WalkInv, AcceptsExactly, OnTheWay, vars, Good, Token
<1>6. ASSUME AskAgain \/ step' \in {"built", "sent"} PROVE WalkInv'
  <2>1. step' \in {"built", "sent"}
    BY <1>6 DEF AskAgain
  <2> QED
    BY <2>1 DEF WalkInv, AcceptsExactly, InPair
<1>7. OnItsWay => Send \/ (Receive \/ Decode) \/ (Advance \/ Finish \/ Refuse)
  BY DEF OnItsWay
<1>8. Timeout => AskAgain \/ UNCHANGED vars
  BY DEF Timeout, GiveUp
<1>9. Lose \/ NotUnderstood \/ NotTheServer => AskAgain \/ UNCHANGED vars
  BY <1>8 DEF Lose, NotUnderstood, NotTheServer
<1>10. Answer => step' = "built"
  BY DEF Answer
<1>11. Found \/ CallFails => UNCHANGED vars
  BY DEF Found, CallFails, GiveUp
<1>12. UNCHANGED allvars => UNCHANGED vars
  BY DEF allvars
<1> QED
  BY <1>2, <1>3, <1>4, <1>5, <1>6, <1>7, <1>9, <1>10, <1>11, <1>12 DEF SearchNext

\* parse (server.c 490, 1122, 1203; jparce.c 300-340) accepts exactly the texts
\* that begin with an object, whatever the text, whatever the token_t's hold,
\* except where a string or a number that it cannot read comes first in the text
\* or in an array.
THEOREM AcceptsObjects == SearchSpec => []AcceptsExactly
<1>1. SearchInit => WalkInv
  BY NotBegun DEF SearchInit, Init
<1>2. SearchInv /\ WalkInv /\ [SearchNext]_allvars => WalkInv'
  BY WalkStep
<1>3. WalkInv => AcceptsExactly
  BY DEF WalkInv
<1> QED
  BY <1>1, <1>2, <1>3, AlwaysSearchInv, PTL DEF SearchSpec

----------------------------------------------------------------------------
\* The walk of jGetVal through the same object.

\* getToken goes on: what it read, or could not read, is not before its place,
\* and where nothing is left it is behind the text.
LEMMA TokenOnward ==
  ASSUME NEW L, NEW src \in Seq(L), NEW unset \in TokenTypes,
         NEW i \in Nat \ {0}, NEW old \in TokenTypes, NEW k, k = GetToken(src, unset, i, old)
  PROVE  /\ k \in [type : TokenTypes, first : Nat, last : Nat, err : BOOLEAN]
         /\ k.last \in Nat /\ k.last >= i
         /\ i > Len(src) => k.first > Len(src)
<1>1. Within(k, src, i) /\ Len(src) \in Nat
  BY TokenInside, PastTheEnd
<1>2. k \in [type : TokenTypes, first : Nat, last : Nat, err : BOOLEAN]
  BY <1>1 DEF Within
<1>3. CASE i > Len(src)
  <2>1. k = TokenOf(old, i, i, TRUE)
    BY <1>3 DEF GetToken
  <2>2. k.last = i /\ k.first = i
    BY <2>1 DEF TokenOf
  <2> QED
    BY <1>2, <1>3, <2>2
<1>4. CASE ~(i > Len(src)) /\ ~k.err
  <2>1. k.first \in i .. Len(src) /\ k.last \in k.first .. Len(src)
    BY <1>1, <1>4 DEF Within
  <2> QED
    BY <1>1, <1>2, <1>4, <2>1
<1>5. CASE ~(i > Len(src)) /\ k.err
  <2> DEFINE s == SkipBlanks(src, i)
             u == TypeAt(src, s)
             R == ArrayEnds(src, unset)
             array == IF TypeAt(src, s + 1) = "]"
                      THEN TokenOf("ARRAY", s, s + 1, FALSE)
                      ELSE R[[due |-> Values, at |-> s + 1, old |-> unset]]
  <2>1. k = ReadToken(src, unset, i, old, R)
    BY <1>5 DEF GetToken
  <2>2. k = CASE u \in Single -> TokenOf(u, s, s, FALSE)
              [] u \in Unread -> TokenOf(old, s, s, FALSE)
              [] u = "[" /\ ~array.err -> TokenOf("ARRAY", s, array.last, FALSE)
              [] OTHER -> TokenOf(old, s, s, TRUE)
    BY <2>1 DEF ReadToken, UnreadType
  <2>3. s \in i .. (Len(src) + 1)
    <3>1. i \in 1 .. (Len(src) + 1)
      BY <1>1, <1>5
    <3> HIDE DEF s
    <3> QED
      BY <3>1, SkipsBlanks DEF s
  <2>5. (u \in Unread => u \notin Single) /\ (u = "[" => u \notin Single /\ u \notin Unread)
    BY Zenon DEF Single, Unread
  <2> HIDE DEF s, u, R, array
  <2>4. k.last = s
    <3>1. /\ ~TokenOf(u, s, s, FALSE).err
          /\ ~TokenOf(old, s, s, FALSE).err
          /\ ~TokenOf("ARRAY", s, array.last, FALSE).err
      BY TokenFields
    <3>2. k = TokenOf(old, s, s, TRUE)
      BY <1>5, <2>2, <2>5, <3>1, Zenon
    <3>3. TokenOf(old, s, s, TRUE).last = s
      BY DEF TokenOf
    <3> QED
      BY <3>2, <3>3, Zenon
  <2> QED
    BY <1>1, <1>2, <1>5, <2>3, <2>4
<1> QED
  BY <1>3, <1>4, <1>5

\* The visit after c.
NextVisit(src, unset, c) ==
    [token |-> Following(src, unset, c.token), logPos |-> After(c.logPos)]

\* Where the walk of jGetVal ends: at a '}', or behind the text.
Over(src, c) == Closing(c.token) \/ c.token.first > Len(src)

LEMMA NextVisitIs ==
  ASSUME NEW L, NEW src \in Seq(L), NEW unset \in TokenTypes, NEW c \in Visits
  PROVE  /\ NextVisit(src, unset, c) \in Visits
         /\ NextVisit(src, unset, c).token.last > c.token.last
         /\ c.token.last >= Len(src) => Over(src, NextVisit(src, unset, c))
         /\ c.token.last \in Nat
<1> DEFINE k == c.token
           d == Following(src, unset, k)
           e == NextVisit(src, unset, c)
<1>1. k \in [type : TokenTypes, first : Nat, last : Nat, err : BOOLEAN] /\ c.logPos \in LogPos
  BY DEF Visits
<1>2. After(c.logPos) \in LogPos
  BY <1>1, Zenon DEF LogPos, After
<1>3. k.last \in Nat /\ k.last + 1 \in Nat \ {0} /\ k.type \in TokenTypes
  BY <1>1
<1>4. d = GetToken(src, unset, k.last + 1, k.type)
  BY DEF Following
<1> HIDE DEF d, k
<1>5. /\ d \in [type : TokenTypes, first : Nat, last : Nat, err : BOOLEAN]
      /\ d.last \in Nat /\ d.last >= k.last + 1
      /\ k.last + 1 > Len(src) => d.first > Len(src)
  BY <1>3, <1>4, TokenOnward
<1>6. e = [token |-> d, logPos |-> After(c.logPos)]
  BY DEF NextVisit, d, k
<1>7. e \in Visits /\ e.token = d
  BY <1>2, <1>5, <1>6 DEF Visits
<1>8. Len(src) \in Nat
  BY PastTheEnd
<1> HIDE DEF e
<1> QED
  BY <1>3, <1>5, <1>7, <1>8 DEF Over, e, k

\* A visit looks at the next one at most, and where the walk ends at none.
LEMMA VisitAgrees ==
  ASSUME NEW L, NEW src \in Seq(L), NEW key, NEW unset, NEW c \in Visits,
         NEW f, NEW g,
         Over(src, c) \/ f[NextVisit(src, unset, c)] = g[NextVisit(src, unset, c)]
  PROVE  Visit(src, key, unset, c, f) = Visit(src, key, unset, c, g)
<1>1. CASE Over(src, c)
  <2>1. CASE Closing(c.token)
    <3>1. \A h : Visit(src, key, unset, c, h) = Absent
      BY <2>1 DEF Visit, Closing
    <3> QED
      BY <3>1
  <2>2. CASE ~Closing(c.token) /\ c.token.first > Len(src)
    <3>2. ~(c.token.first <= Len(src))
      <4>1. c.token.first \in Nat /\ Len(src) \in Nat
        BY PastTheEnd DEF Visits
      <4> QED
        BY <2>2, <4>1
    <3>1. \A h : Visit(src, key, unset, c, h) = Outside
      BY <2>2, <3>2, Zenon DEF Visit, Closing
    <3> QED
      BY <3>1
  <2> QED
    BY <1>1, <2>1, <2>2 DEF Over
<1>2. CASE f[NextVisit(src, unset, c)] = g[NextVisit(src, unset, c)]
  BY <1>2, Zenon DEF Visit, NextVisit
<1> QED
  BY <1>1, <1>2

\* The walk of jGetVal is defined: it ends.
LEMMA WalkIs ==
  ASSUME NEW L, NEW src \in Seq(L), NEW unset \in TokenTypes, NEW key
  PROVE  \A c \in Visits : Walk(src, key, unset)[c] = Visit(src, key, unset, c, Walk(src, key, unset))
<1> DEFINE N == Len(src)
           V(c, f) == Visit(src, key, unset, c, f)
           nx(c) == NextVisit(src, unset, c)
           at(c) == c.token.last
           Body(f) == [c \in Visits |-> V(c, f)]
           Solves(f, k) == \A c \in Visits : at(c) >= k => f[c] = V(c, f)
           T == {n \in 0 .. N : ~ \E f : Solves(f, N - n)}
<1>1. N \in Nat
  BY PastTheEnd
<1>2. \A c \in Visits : /\ nx(c) \in Visits /\ at(nx(c)) > at(c) /\ at(c) \in Nat
                        /\ at(c) >= N => Over(src, nx(c))
  BY NextVisitIs
<1>3. \A c \in Visits : \A f, g : Over(src, c) \/ f[nx(c)] = g[nx(c)] => V(c, f) = V(c, g)
  BY VisitAgrees
<1> HIDE DEF N, V, nx, at
<1>4. \E f : Solves(f, N)
  <2> DEFINE h == [c \in Visits |-> V(c, src)]
             f == [c \in Visits |-> V(c, h)]
  <2>1. ASSUME NEW c \in Visits, at(c) >= N PROVE f[c] = V(c, f)
    <3>1. nx(c) \in Visits /\ Over(src, nx(c))
      BY <1>2, <2>1
    <3>2. h[nx(c)] = V(nx(c), src) /\ f[nx(c)] = V(nx(c), h)
      BY <3>1
    <3>3. f[c] = V(c, h)
      OBVIOUS
    <3> HIDE DEF f, h
    <3>4. V(nx(c), src) = V(nx(c), h)
      BY <1>3, <3>1
    <3>5. V(c, h) = V(c, f)
      BY <1>3, <3>2, <3>4
    <3> QED
      BY <3>3, <3>5
  <2> HIDE DEF f
  <2> QED
    BY <2>1
<1>5. ASSUME NEW f, NEW k \in Nat, Solves(f, k + 1)
      PROVE  \E g : Solves(g, k)
  <2> DEFINE g == [c \in Visits |-> IF at(c) > k THEN f[c] ELSE V(c, f)]
  <2>1. \A c \in Visits : g[c] = IF at(c) > k THEN f[c] ELSE V(c, f)
    OBVIOUS
  <2> HIDE DEF g
  <2>2. \A c \in Visits : at(c) > k => f[c] = V(c, f)
    BY <1>2, <1>5
  <2>3. ASSUME NEW c \in Visits, at(c) >= k PROVE g[c] = V(c, g)
    <3>1. g[nx(c)] = f[nx(c)]
      BY <1>2, <2>1, <2>3
    <3>2. V(c, g) = V(c, f)
      BY <1>3, <3>1
    <3> QED
      BY <2>1, <2>2, <3>2
  <2> QED
    BY <2>3
<1>6. T = {}
  <2> SUFFICES ASSUME T # {} PROVE FALSE
    OBVIOUS
  <2>1. T \in SUBSET Nat
    BY <1>1
  <2>2. PICK n \in T : \A y \in T : n <= y
    BY <2>1, Least
  <2>3. n \in 0 .. N /\ ~ \E f : Solves(f, N - n)
    BY <2>2
  <2> HIDE DEF T
  <2>4. n # 0
    <3>1. N - 0 = N
      BY <1>1
    <3> HIDE DEF Solves
    <3> QED
      BY <1>4, <2>3, <3>1
  <2>5. n - 1 \in 0 .. N /\ ~(n <= n - 1)
    BY <1>1, <2>3, <2>4
  <2>6. n - 1 \notin T
    BY <2>2, <2>5
  <2>7. PICK f : Solves(f, N - (n - 1))
    BY <2>5, <2>6 DEF T
  <2> DEFINE k == N - n
  <2>8. k \in Nat /\ N - (n - 1) = k + 1
    BY <1>1, <2>3
  <2> HIDE DEF k, Solves
  <2>9. Solves(f, k + 1)
    BY <2>7, <2>8
  <2>10. \E g : Solves(g, k)
    BY <1>5, <2>8, <2>9
  <2> QED
    BY <2>3, <2>10 DEF k
<1>7. PICK f : Solves(f, 0)
  <2>1. N \in 0 .. N /\ N - N = 0
    BY <1>1
  <2> HIDE DEF Solves
  <2>2. \E f : Solves(f, N - N)
    BY <1>6, <2>1
  <2> QED
    BY <2>1, <2>2
<1>8. \A c \in Visits : f[c] = V(c, f)
  BY <1>2, <1>7
<1> DEFINE h == [c \in Visits |-> f[c]]
<1>9. \A c \in Visits : h[c] = f[c]
  OBVIOUS
<1>10. h = Body(h)
  <2>1. ASSUME NEW c \in Visits PROVE V(c, f) = V(c, h)
    <3> HIDE DEF h
    <3> QED
      BY <1>2, <1>3, <1>9
  <2>2. \A c \in Visits : f[c] = V(c, h)
    BY <1>8, <2>1
  <2> QED
    BY <2>2
<1> HIDE DEF h
<1>11. Walk(src, key, unset) = CHOOSE walk : walk = Body(walk)
  BY DEF Walk, V
<1> HIDE DEF Body
<1>12. Walk(src, key, unset) = Body(Walk(src, key, unset))
  BY <1>10, <1>11
<1> QED
  BY <1>12 DEF Body, V

\* The next token of an object in a text that begins with one.
LEMMA ObjectToken ==
  ASSUME NEW L, NEW t \in Seq(L), NEW unset \in TokenTypes, StartsWithObject(t),
         NEW l, NEW logPos \in InPair, InObject(t, l, logPos), NEW old \in Before(logPos),
         NEW k, k = GetToken(t, unset, l + 1, old)
  PROVE  /\ k \in [type : TokenTypes, first : Nat, last : Nat, err : BOOLEAN]
         /\ k.type \in Wanted(logPos) /\ Took(t, l + 1, k)
         /\ l \in Nat /\ k.first \in (l + 1) .. Len(t) /\ k.last \in k.first .. Len(t)
         /\ Closing(k) => NoneBefore(t, k.first) /\ Closing(t[k.first])
         /\ ~Closing(k) =>
              /\ InObject(t, k.last, After(logPos))
              /\ After(logPos) \in InPair /\ k.type \in Before(After(logPos))
         /\ Follows(t, l, k.first) /\ \A j : Follows(t, l, j) => j = k.first
<1>1. /\ Stands(t, l + 1, l, Wanted(logPos)) /\ Depth(t, l) = 0
  BY DEF InObject
<1>2. l + 1 \in 1 .. (Len(t) + 1) /\ LastBefore(t, l + 1, l) /\ Len(t) \in Nat
  BY <1>1, LenProperties DEF Stands
<1>3. l \in Nat /\ (l + 1) - 1 = l /\ l + 1 \in Nat \ {0}
  <2>1. l \in 1 .. ((l + 1) - 1)
    BY <1>2 DEF LastBefore
  <2> QED
    BY <2>1
<1>4. /\ Wanted(logPos) \in SUBSET (Single \cup {"ARRAY"})
      /\ old \notin Wanted(logPos) /\ old \in TokenTypes /\ After(logPos) \in InPair
      /\ \A u \in Wanted(logPos) : u # "}" => u \in Before(After(logPos))
  BY WantedTypes
<1>5. Depth(t, (l + 1) - 1) \in Nat
  BY <1>1, <1>3
<1>6. k.type \in Wanted(logPos) /\ Took(t, l + 1, k)
  <2>1. ReadAs(t, l + 1, k, Wanted(logPos))
    BY <1>1, <1>4, <1>5, TokenIsRead
  <2> QED
    BY <2>1 DEF ReadAs, Junked
<1>7. k \in [type : TokenTypes, first : Nat, last : Nat, err : BOOLEAN]
  BY <1>3, <1>4, TokenOnward
<1>8. k.first \in (l + 1) .. Len(t) /\ k.last \in k.first .. Len(t)
  BY <1>2, <1>6, TookDepth
<1>9. Opens(t)
  BY Zenon DEF StartsWithObject, Opens
<1>10. Closing(k) => NoneBefore(t, k.first) /\ Closing(t[k.first])
  BY <1>2, <1>6, <1>9, ObjectEnds, Zenon DEF Closing
<1>11. ~Closing(k) => InObject(t, k.last, After(logPos)) /\ k.type \in Before(After(logPos))
  BY <1>4, <1>6, ObjectNext, Zenon DEF Closing
<1>12. Follows(t, l, k.first) /\ \A j : Follows(t, l, j) => j = k.first
  <2>1. FirstFrom(t, l + 1, k.first)
    BY <1>6 DEF Took
  <2> DEFINE p == l + 1
             s == k.first
  <2>2. p \in 1 .. (Len(t) + 1) /\ LastBefore(t, p, l) /\ FirstFrom(t, p, s)
    BY <1>2, <2>1
  <2> HIDE DEF p, s
  <2>3. Follows(t, l, s) /\ \A j : Follows(t, l, j) => j = s
    BY <2>2, NextPair
  <2> QED
    BY <2>3 DEF s
<1> QED
  BY <1>3, <1>4, <1>6, <1>7, <1>8, <1>10, <1>11, <1>12

\* In what a token takes no name is but the token itself, where a name is due.
LEMMA NamesInToken ==
  ASSUME NEW L, NEW t \in Seq(L), NEW unset \in TokenTypes, StartsWithObject(t),
         NEW l, NEW logPos \in InPair, InObject(t, l, logPos), NEW old \in Before(logPos),
         NEW k, k = GetToken(t, unset, l + 1, old),
         NEW i \in (l + 1) .. k.last, IsName(t, i)
  PROVE  i = k.first /\ logPos \in {"first", "key"} /\ ~Closing(k)
<1> DEFINE s == k.first
           e == k.last
<1>1. /\ k.type \in Wanted(logPos) /\ Took(t, l + 1, k) /\ l \in Nat
      /\ s \in (l + 1) .. Len(t) /\ e \in s .. Len(t)
      /\ ~Closing(k) => InObject(t, e, After(logPos)) /\ After(logPos) \in InPair
                        /\ k.type \in Before(After(logPos))
  BY ObjectToken
<1>2. Len(t) \in Nat /\ DOMAIN t = 1 .. Len(t)
  BY LenProperties
<1>3. i \in 1 .. Len(t) /\ i \in Int
  <2> HIDE DEF s
  <2> QED
    BY <1>1, <1>2
<1>4. TypeAt(t, i) = "STR" /\ ~BlankAt(t, i)
  <2>1. TypeAt(t, i) = "STR"
    BY <1>2, <1>3, Zenon DEF IsName, TypeAt
  <2> QED
    BY <2>1, Zenon DEF BlankAt
<1>5. PICK j \in DOMAIN t : Follows(t, i, j) /\ TypeAt(t, j) = ":"
  BY Zenon DEF IsName, TypeAt
<1>6. ~(i < s)
  <2> SUFFICES ASSUME i < s PROVE FALSE
    OBVIOUS
  <2>1. FirstFrom(t, l + 1, s)
    BY <1>1 DEF Took
  <2> HIDE DEF s, e
  <2>2. i \in (l + 1) .. (s - 1)
    BY <1>1, <1>3 DEF e
  <2> QED
    BY <1>4, <2>1, <2>2 DEF FirstFrom
<1>7. ~(s < i)
  <2> SUFFICES ASSUME s < i PROVE FALSE
    OBVIOUS
  <2>1. k.type = "ARRAY"
    <3> SUFFICES ASSUME k.type # "ARRAY" PROVE FALSE
      OBVIOUS
    <3>1. e = s
      BY <1>1, Zenon DEF Took
    <3> HIDE DEF s, e
    <3> QED
      BY <1>1, <1>3, <3>1 DEF e
  <2>2. /\ TypeAt(t, e) = "]" /\ Legal(t, e) /\ LastBefore(t, e + 1, e)
        /\ \A m \in s .. (e - 1) : Depth(t, m) > Depth(t, (l + 1) - 1)
    BY <1>1, <2>1, Zenon DEF Took
  <2>3. i # e
    BY <1>4, <2>2
  <2> HIDE DEF s, e
  <2>4. i \in s .. (e - 1) /\ (l + 1) - 1 = l
    BY <1>1, <1>3, <2>3 DEF e
  <2>5. Depth(t, i) # 0
    <3>1. Depth(t, l) = 0 /\ Depth(t, i) > Depth(t, l)
      BY <2>2, <2>4 DEF InObject
    <3>2. Depth(t, i) \in Int
      BY <1>3, CountIsNat
    <3> QED
      BY <3>1, <3>2
  <2>6. j <= e /\ j \in Int
    <3>1. j \in 1 .. Len(t) /\ \A b \in (i + 1) .. (j - 1) : BlankAt(t, b)
      BY <1>5, FollowsIs
    <3>2. ~BlankAt(t, e)
      BY <2>2 DEF LastBefore
    <3>3. ~(e < j)
      <4> SUFFICES ASSUME e < j PROVE FALSE
        OBVIOUS
      <4>1. e \in (i + 1) .. (j - 1)
        BY <1>1, <1>3, <2>4, <3>1
      <4> QED
        BY <3>1, <3>2, <4>1
    <3> QED
      BY <1>1, <3>1, <3>3
  <2>7. i \in 1 .. e /\ j \in 1 .. e
    BY <1>1, <1>2, <1>3, <1>5, <2>4, <2>6
  <2>8. MayFollow(t, i, j)
    BY <1>5, <2>2, <2>7 DEF Legal
  <2>9. TypeAt(t, j) \in Begins({","} \cup {"]"})
    BY <1>4, <1>5, <2>5, <2>8, Followers, Zenon
  <2> QED
    BY <1>5, <2>9, Zenon DEF Begins
<1>8. i = s
  <2> HIDE DEF s, e
  <2> QED
    BY <1>1, <1>3, <1>6, <1>7
<1>9. k.type = "STR"
  <2>1. k.type # "ARRAY" => TypeAt(t, s) = k.type
    BY <1>1, Zenon DEF Took
  <2>2. k.type = "ARRAY" => TypeAt(t, s) = "["
    BY <1>1, Zenon DEF Took
  <2> QED
    BY <1>4, <1>8, <2>1, <2>2, Zenon
<1>10. ~Closing(k)
  BY <1>9, Zenon DEF Closing
<1>11. logPos # "colon" /\ logPos # "comma"
  BY <1>1, <1>9, Zenon DEF Wanted
<1>12. logPos # "value"
  <2> SUFFICES ASSUME logPos = "value" PROVE FALSE
    OBVIOUS
  <2>1. After(logPos) = "comma"
    BY Zenon DEF After
  <2> DEFINE m == GetToken(t, unset, e + 1, k.type)
  <2>2. /\ m.type \in Wanted("comma") /\ Took(t, e + 1, m)
        /\ \A h : Follows(t, e, h) => h = m.first
    <3>1. InObject(t, e, "comma") /\ "comma" \in InPair /\ k.type \in Before("comma")
      BY <1>1, <1>10, <2>1
    <3> HIDE DEF m, e
    <3> QED
      BY <3>1, ObjectToken, SMTT(60) DEF m
  <2> HIDE DEF m
  <2>3. e = s
    BY <1>1, <1>9, Zenon DEF Took
  <2>4. TypeAt(t, m.first) = ":"
    BY <1>5, <1>8, <2>2, <2>3
  <2>5. m.type # "ARRAY" /\ m.type # ":"
    BY <2>2, Zenon DEF Wanted
  <2>6. TypeAt(t, m.first) = m.type
    BY <2>2, <2>5, Zenon DEF Took
  <2> QED
    BY <2>4, <2>5, <2>6
<1> QED
  BY <1>8, <1>10, <1>11, <1>12 DEF InPair

\* The value of a name is the token two tokens on.
LEMMA ValueIs ==
  ASSUME NEW L, NEW t \in Seq(L), NEW l, NEW k, NEW v,
         Follows(t, l, k.last), \A j : Follows(t, l, j) => j = k.last,
         Follows(t, k.last, v.first), \A j : Follows(t, k.last, j) => j = v.first,
         Took(t, k.last + 1, v), Depth(t, k.last) = 0, k.last \in Nat,
         v.first \in (k.last + 1) .. Len(t), v.last \in v.first .. Len(t),
         v.type \in Wanted("value")
  PROVE  ValueOf(t, l) = SubSeq(t, v.first, v.last)
<1> DEFINE a == v.first
           b == v.last
           c == k.last
           colon == CHOOSE j \in DOMAIN t : Follows(t, l, j)
           first == CHOOSE j \in DOMAIN t : Follows(t, colon, j)
           Shut(x, j) == Depth(t, j) = 0 /\ \A m \in x .. (j - 1) : Depth(t, m) > 0
<1>1. ValueOf(t, l) = SubSeq(t, first, CHOOSE j \in first .. Len(t) : Shut(first, j))
  BY DEF ValueOf
<1>2. c \in DOMAIN t /\ a \in DOMAIN t
  BY Zenon DEF Follows
<1>3. colon = c
  BY <1>2
<1>4. first = a
  BY <1>2, <1>3
<1> HIDE DEF colon, first
<1>5. Len(t) \in Nat /\ a \in Int /\ b \in Int /\ a \in (c + 1) .. Len(t) /\ b \in a .. Len(t)
  <2>1. Len(t) \in Nat
    BY LenProperties
  <2> HIDE DEF a, b
  <2> QED
    BY <2>1 DEF a, b
<1>6. Depth(t, b) = 0 /\ \A m \in a .. (b - 1) : Depth(t, m) > 0
  <2>1. (c + 1) - 1 = c
    OBVIOUS
  <2>2. CASE v.type = "ARRAY"
    <3>1. Depth(t, b) = Depth(t, (c + 1) - 1) /\ \A m \in a .. (b - 1) : Depth(t, m) > Depth(t, (c + 1) - 1)
      BY <2>2, Zenon DEF Took
    <3> HIDE DEF b, a
    <3> QED
      BY <2>1, <3>1
  <2>3. CASE v.type # "ARRAY"
    <3>1. b = a /\ Depth(t, a) = Depth(t, (c + 1) - 1) + Deeper(v.type)
      BY <2>3, Zenon DEF Took
    <3>2. Deeper(v.type) = 0
      <4>1. v.type # "[" /\ v.type # "]"
        BY Zenon DEF Wanted, Values
      <4> QED
        BY <4>1, Zenon DEF Deeper
    <3> DEFINE d == Deeper(v.type)
    <3> HIDE DEF b, a, d
    <3>3. Depth(t, a) = 0
      BY <2>1, <3>1, <3>2 DEF d
    <3>4. a .. (b - 1) = {}
      BY <1>5, <3>1
    <3> QED
      BY <3>1, <3>3, <3>4
  <2> QED
    BY <2>2, <2>3
<1>7. ASSUME NEW j \in a .. Len(t), Shut(a, j) PROVE j = b
  <2> HIDE DEF a, b
  <2>1. ~(j < b)
    <3> SUFFICES ASSUME j < b PROVE FALSE
      OBVIOUS
    <3>1. j \in a .. (b - 1)
      BY <1>5, <1>7
    <3>2. Depth(t, j) = 0 /\ Depth(t, j) > 0
      BY <1>6, <1>7, <3>1
    <3> QED
      BY <3>2
  <2>2. ~(b < j)
    <3> SUFFICES ASSUME b < j PROVE FALSE
      OBVIOUS
    <3>1. b \in a .. (j - 1)
      BY <1>5, <1>7
    <3>2. Depth(t, b) = 0 /\ Depth(t, b) > 0
      BY <1>6, <1>7, <3>1
    <3> QED
      BY <3>2
  <2> QED
    BY <1>5, <2>1, <2>2
<1>8. (CHOOSE j \in a .. Len(t) : Shut(a, j)) = b
  <2>1. b \in a .. Len(t) /\ Shut(a, b)
    BY <1>5, <1>6
  <2> HIDE DEF Shut, a, b
  <2> QED
    BY <1>7, <2>1
<1> HIDE DEF Shut
<1> QED
  BY <1>1, <1>4, <1>8

\* The names behind place l that read like the key, and the value of the first.
NamesAfter(t, key, l) == {i \in DOMAIN t : IsName(t, i) /\ t[i].str = key /\ i > l}

FirstValue(t, names) ==
    IF names = {} THEN Absent
    ELSE ValueOf(t, CHOOSE i \in names : \A k \in names : i <= k)

\* A name is due.
NameDue(logPos) == logPos \in {"first", "key"}

\* jGetVal visits the token behind place l of the object.
VisitsAt(t, unset, l, logPos, c) ==
    /\ InObject(t, l, logPos) /\ logPos \in InPair /\ c \in Visits
    /\ \E old \in Before(logPos) : c.token = GetToken(t, unset, l + 1, old)
    /\ c.logPos = "key" <=> NameDue(logPos)
    /\ ~NameDue(logPos) => c.logPos = logPos

\* The places that jGetVal and parse have for the same token follow one another.
LEMMA BothGoOn ==
  ASSUME NEW logPos \in InPair, NEW seen,
         (seen = "key" <=> NameDue(logPos)), ~NameDue(logPos) => seen = logPos
  PROVE  /\ After(seen) = "key" <=> NameDue(After(logPos))
         /\ ~NameDue(After(logPos)) => After(seen) = After(logPos)
<1>1. CASE NameDue(logPos)
  <2>1. After(seen) = "colon" /\ After(logPos) = "colon"
    BY <1>1, Zenon DEF NameDue, After
  <2> QED
    BY <2>1, Zenon DEF NameDue
<1>2. CASE ~NameDue(logPos)
  <2>1. seen = logPos
    BY <1>2
  <2>2. After(logPos) # "first"
    BY Zenon DEF After, InPair
  <2> QED
    BY <2>1, <2>2, Zenon DEF NameDue
<1> QED
  BY <1>1, <1>2

\* A visit that ends, that matches, and any other.
LEMMA VisitIs ==
  ASSUME NEW t, NEW key, NEW unset, NEW c, NEW walk, c.token.first <= Len(t),
         ~(c.token.first > Len(t)), ~Closing(c.token),
         NEW v, v = Following(t, unset, Following(t, unset, c.token)),
         NEW r, r = Visit(t, key, unset, c, walk)
  PROVE  /\ Matches(c.logPos, t[c.token.first], key) /\ ~(v.last > Len(t)) =>
              r = SubSeq(t, v.first, v.last)
         /\ ~Matches(c.logPos, t[c.token.first], key) => r = walk[NextVisit(t, unset, c)]
<1>1. Matches(c.logPos, t[c.token.first], key) /\ ~(v.last > Len(t)) =>
        r = SubSeq(t, v.first, v.last)
  BY Zenon DEF Visit, Closing
<1>2. ~Matches(c.logPos, t[c.token.first], key) => r = walk[NextVisit(t, unset, c)]
  BY Zenon DEF Visit, Closing, NextVisit
<1> QED
  BY <1>1, <1>2

\* One visit of jGetVal finds what the text has, when the later ones do.
LEMMA VisitFinds ==
  ASSUME NEW L, NEW t \in Seq(L), NEW unset \in TokenTypes, StartsWithObject(t),
         NEW S, NEW key \in Seq(S), Distinct(t, key),
         NEW l, NEW logPos, NEW c, VisitsAt(t, unset, l, logPos, c), NEW walk,
         \A e \in Nat : \A lp, d : e > l /\ VisitsAt(t, unset, e, lp, d) =>
             walk[d] = FirstValue(t, NamesAfter(t, key, e))
  PROVE  Visit(t, key, unset, c, walk) = FirstValue(t, NamesAfter(t, key, l))
<1>1. /\ InObject(t, l, logPos) /\ logPos \in InPair /\ c \in Visits
      /\ c.logPos = "key" <=> NameDue(logPos)
      /\ ~NameDue(logPos) => c.logPos = logPos
  BY DEF VisitsAt
<1> DEFINE k == c.token
           s == k.first
           e == k.last
           m == Following(t, unset, k)
           v == Following(t, unset, m)
           r == Visit(t, key, unset, c, walk)
           N == NamesAfter(t, key, l)
           found == Matches(c.logPos, t[s], key)
<1>2. PICK old \in Before(logPos) : k = GetToken(t, unset, l + 1, old)
  BY DEF VisitsAt
<1>3. /\ k \in [type : TokenTypes, first : Nat, last : Nat, err : BOOLEAN]
      /\ k.type \in Wanted(logPos) /\ Took(t, l + 1, k)
      /\ l \in Nat /\ s \in (l + 1) .. Len(t) /\ e \in s .. Len(t)
      /\ Closing(k) => NoneBefore(t, s) /\ Closing(t[s])
      /\ ~Closing(k) =>
           /\ InObject(t, e, After(logPos))
           /\ After(logPos) \in InPair /\ k.type \in Before(After(logPos))
  <2> HIDE DEF k
  <2> QED
    BY <1>1, <1>2, ObjectToken
<1>4. /\ Len(t) \in Nat /\ DOMAIN t = 1 .. Len(t)
      /\ s \in Nat /\ s <= Len(t) /\ e \in Nat /\ e <= Len(t) /\ s \in 1 .. Len(t) /\ e > l /\ s > l
      /\ s <= e
  <2>1. Len(t) \in Nat /\ DOMAIN t = 1 .. Len(t)
    BY LenProperties
  <2> HIDE DEF s, e
  <2> QED
    BY <1>3, <2>1
<1>5. \A i \in (l + 1) .. e : IsName(t, i) => i = s /\ NameDue(logPos) /\ ~Closing(k)
  <2> HIDE DEF k
  <2> QED
    BY <1>1, <1>2, NamesInToken DEF NameDue
<1>6. m = GetToken(t, unset, e + 1, k.type) /\ v = GetToken(t, unset, m.last + 1, m.type)
  BY DEF Following
<1> HIDE DEF k, s, e, m, v
<1>7. CASE Closing(k)
  <2>1. r = Absent
    <3>1. Closing(c.token)
      BY <1>7 DEF k
    <3> QED
      BY <3>1 DEF Visit, Closing
  <2>2. N = {}
    <3> SUFFICES ASSUME NEW i \in N PROVE FALSE
      OBVIOUS
    <3>1. IsName(t, i) /\ i > l /\ i \in 1 .. Len(t)
      BY <1>4 DEF NamesAfter
    <3>2. i \notin (l + 1) .. e
      BY <1>5, <1>7, <3>1
    <3>3. s \in 1 .. (i - 1)
      BY <1>3, <1>4, <3>1, <3>2
    <3>4. t[s].type # "}"
      BY <3>1, <3>3, Zenon DEF IsName, NoneBefore
    <3> QED
      BY <1>3, <1>7, <3>4 DEF Closing
  <2> QED
    BY <2>1, <2>2 DEF FirstValue
<1>8. CASE ~Closing(k) /\ found
  <2>1. c.logPos = "key" /\ t[s].type = "STR" /\ IsPrefix(t[s].str, key)
    BY <1>8, Zenon DEF Matches
  <2>2. NameDue(logPos)
    BY <1>1, <2>1
  <2>3. After(logPos) = "colon" /\ k.type # "ARRAY" /\ k.type # "}"
    BY <1>3, <1>8, <2>2, Zenon DEF NameDue, After, Wanted, Closing
  <2>4. e = s /\ NoneBefore(t, s)
    BY <1>3, <2>3, Zenon DEF Took, s, e
  <2>5. /\ InObject(t, e, "colon") /\ "colon" \in InPair /\ k.type \in Before("colon")
    BY <1>3, <1>8, <2>3
  <2>6. /\ m.type \in Wanted("colon") /\ Took(t, e + 1, m)
        /\ m.first \in (e + 1) .. Len(t) /\ m.last \in m.first .. Len(t)
        /\ ~Closing(m) =>
             /\ InObject(t, m.last, After("colon"))
             /\ After("colon") \in InPair /\ m.type \in Before(After("colon"))
        /\ Follows(t, e, m.first) /\ \A j : Follows(t, e, j) => j = m.first
    BY <1>6, <2>5, ObjectToken
  <2>7. m.type = ":" /\ ~Closing(m) /\ After("colon") = "value"
    BY <2>6, Zenon DEF Wanted, Closing, After
  <2>8. m.last = m.first /\ TypeAt(t, m.first) = ":"
    BY <2>6, <2>7, Zenon DEF Took
  <2>9. /\ InObject(t, m.last, "value") /\ "value" \in InPair /\ m.type \in Before("value")
    BY <2>6, <2>7
  <2>10. /\ v.type \in Wanted("value") /\ Took(t, m.last + 1, v) /\ m.last \in Nat
         /\ v.first \in (m.last + 1) .. Len(t) /\ v.last \in v.first .. Len(t)
         /\ Follows(t, m.last, v.first) /\ \A j : Follows(t, m.last, j) => j = v.first
    BY <1>6, <2>9, ObjectToken
  <2>11. IsName(t, s)
    <3>1. m.first \in DOMAIN t /\ t[m.first].type = ":" /\ Follows(t, s, m.first)
      BY <2>4, <2>6, <2>8, Zenon DEF Follows, TypeAt
    <3> QED
      BY <2>1, <2>4, <3>1, Zenon DEF IsName
  <2>12. t[s].str = key
    BY <1>4, <2>1, <2>11 DEF Distinct
  <2>13. s \in N /\ \A i \in N : s <= i /\ i \in Int
    <3>1. s \in N
      BY <1>4, <2>11, <2>12 DEF NamesAfter
    <3>2. ASSUME NEW i \in N PROVE s <= i /\ i \in Int
      <4>1. IsName(t, i) /\ i > l /\ i \in 1 .. Len(t)
        BY <1>4 DEF NamesAfter
      <4>2. i \in (l + 1) .. e => i = s
        BY <1>5, <4>1
      <4> QED
        BY <1>3, <1>4, <4>1, <4>2
    <3> QED
      BY <3>1, <3>2
  <2>14. FirstValue(t, N) = ValueOf(t, s)
    <3> HIDE DEF N
    <3>1. (CHOOSE i \in N : \A j \in N : i <= j) = s
      <4>1. \A i \in N : (\A j \in N : i <= j) => i = s
        BY <1>4, <2>13
      <4> QED
        BY <2>13, <4>1
    <3> QED
      BY <2>13, <3>1 DEF FirstValue
  <2>15. ValueOf(t, s) = SubSeq(t, v.first, v.last)
    <3>1. Follows(t, s, m.last) /\ \A j : Follows(t, s, j) => j = m.last
      BY <2>4, <2>6, <2>8
    <3>2. Depth(t, m.last) = 0
      BY <2>9 DEF InObject
    <3> QED
      BY <2>10, <3>1, <3>2, ValueIs
  <2>16. r = SubSeq(t, v.first, v.last)
    <3>1. ~(v.last > Len(t)) /\ ~(s > Len(t))
      BY <1>4, <2>10
    <3>2. v = Following(t, unset, Following(t, unset, c.token))
      BY DEF m, v, k
    <3>3. ~Closing(c.token) /\ Matches(c.logPos, t[c.token.first], key)
      BY <1>8 DEF k, s
    <3>4. c.token.first <= Len(t) /\ ~(c.token.first > Len(t))
      BY <1>4, <3>1 DEF k, s
    <3> HIDE DEF r, found
    <3> QED
      BY <3>1, <3>2, <3>3, <3>4, VisitIs DEF r
  <2> QED
    BY <2>14, <2>15, <2>16
<1>9. CASE ~Closing(k) /\ ~found
  <2> DEFINE d == NextVisit(t, unset, c)
  <2>1. r = walk[d]
    <3>1. ~Closing(c.token) /\ ~Matches(c.logPos, t[c.token.first], key)
      BY <1>9 DEF k, s
    <3>2. c.token.first <= Len(t) /\ ~(c.token.first > Len(t))
      BY <1>4 DEF k, s
    <3> HIDE DEF r
    <3> QED
      BY <3>1, <3>2, VisitIs DEF r
  <2>2. VisitsAt(t, unset, e, After(logPos), d)
    <3>1. d \in Visits
      BY <1>1, NextVisitIs
    <3>2. d.token = m /\ d.logPos = After(c.logPos)
      BY DEF NextVisit, m, k
    <3>3. /\ d.logPos = "key" <=> NameDue(After(logPos))
          /\ ~NameDue(After(logPos)) => d.logPos = After(logPos)
      BY <1>1, <3>2, BothGoOn, Zenon
    <3> HIDE DEF d
    <3> QED
      BY <1>3, <1>6, <1>9, <3>1, <3>2, <3>3, Zenon DEF VisitsAt
  <2> HIDE DEF d
  <2>3. walk[d] = FirstValue(t, NamesAfter(t, key, e))
    BY <1>4, <2>2
  <2>4. NamesAfter(t, key, e) = N
    <3>1. ASSUME NEW i \in N PROVE i > e
      <4> SUFFICES ASSUME ~(i > e) PROVE FALSE
        OBVIOUS
      <4>1. IsName(t, i) /\ i > l /\ i \in 1 .. Len(t) /\ t[i].str = key
        BY <1>4 DEF NamesAfter
      <4>2. i \in (l + 1) .. e
        BY <1>3, <1>4, <4>1
      <4>3. i = s /\ NameDue(logPos)
        BY <1>5, <4>1, <4>2
      <4>4. t[s].type = "STR"
        BY <4>1, <4>3, Zenon DEF IsName
      <4>5. IsPrefix(key, key)
        <5>1. Len(key) \in Nat
          BY LenProperties
        <5> QED
          BY <5>1 DEF IsPrefix
      <4> QED
        BY <1>1, <1>9, <4>1, <4>3, <4>4, <4>5, Zenon DEF Matches
    <3>2. ASSUME NEW i \in NamesAfter(t, key, e) PROVE i \in N
      <4>1. i \in 1 .. Len(t) /\ i > e
        BY <1>4, <3>2 DEF NamesAfter
      <4>2. i > l
        BY <1>3, <1>4, <4>1
      <4> QED
        BY <3>2, <4>2 DEF NamesAfter
    <3>3. ASSUME NEW i \in N PROVE i \in NamesAfter(t, key, e)
      BY <3>1, <3>3 DEF NamesAfter
    <3> QED
      BY <3>2, <3>3
  <2> QED
    BY <2>1, <2>3, <2>4
<1> QED
  BY <1>7, <1>8, <1>9

\* Every visit finds what the text has from its place on.
LEMMA WalkFinds ==
  ASSUME NEW L, NEW t \in Seq(L), NEW unset \in TokenTypes, StartsWithObject(t),
         NEW S, NEW key \in Seq(S), Distinct(t, key)
  PROVE  \A l \in Nat : \A lp, c : VisitsAt(t, unset, l, lp, c) =>
             Walk(t, key, unset)[c] = FirstValue(t, NamesAfter(t, key, l))
<1> DEFINE W == Walk(t, key, unset)
           Finds(l) == \A lp, c : VisitsAt(t, unset, l, lp, c) =>
                         W[c] = FirstValue(t, NamesAfter(t, key, l))
           N == Len(t)
           T == {n \in 0 .. N : ~Finds(N - n)}
<1>1. N \in Nat
  BY LenProperties
<1>2. \A l, lp, c : VisitsAt(t, unset, l, lp, c) => l \in 0 .. N /\ c \in Visits
  <2> SUFFICES ASSUME NEW l, NEW lp, NEW c, VisitsAt(t, unset, l, lp, c)
               PROVE  l \in 0 .. N /\ c \in Visits
    OBVIOUS
  <2>1. InObject(t, l, lp) /\ c \in Visits
    BY DEF VisitsAt
  <2>2. LastBefore(t, l + 1, l) /\ l + 1 \in 1 .. (N + 1)
    BY <2>1 DEF InObject, Stands
  <2>3. l \in 1 .. ((l + 1) - 1)
    BY <2>2 DEF LastBefore
  <2> HIDE DEF N
  <2> QED
    BY <1>1, <2>1, <2>2, <2>3
<1>3. \A c \in Visits : W[c] = Visit(t, key, unset, c, W)
  BY WalkIs
<1>4. ASSUME NEW l \in Nat, \A e \in Nat : e > l => Finds(e) PROVE Finds(l)
  <2> SUFFICES ASSUME NEW lp, NEW c, VisitsAt(t, unset, l, lp, c)
               PROVE  W[c] = FirstValue(t, NamesAfter(t, key, l))
    OBVIOUS
  <2>1. \A e \in Nat : \A lq, d : e > l /\ VisitsAt(t, unset, e, lq, d) =>
          W[d] = FirstValue(t, NamesAfter(t, key, e))
    BY <1>4
  <2> HIDE DEF W
  <2>2. Visit(t, key, unset, c, W) = FirstValue(t, NamesAfter(t, key, l))
    BY <2>1, VisitFinds
  <2> QED
    BY <1>2, <1>3, <2>2
<1>5. \A e \in Nat : e > N => Finds(e)
  <2> HIDE DEF W, N
  <2>1. \A e \in Nat : e > N => e \notin 0 .. N
    BY <1>1
  <2> QED
    BY <1>2, <2>1
<1> HIDE DEF Finds, N
<1>6. T = {}
  <2> SUFFICES ASSUME T # {} PROVE FALSE
    OBVIOUS
  <2>1. T \in SUBSET Nat
    BY <1>1
  <2>2. PICK n \in T : \A y \in T : n <= y
    BY <2>1, Least
  <2>3. n \in 0 .. N /\ ~Finds(N - n)
    BY <2>2
  <2>4. ASSUME NEW e \in Nat, e > N - n PROVE Finds(e)
    <3>1. CASE e > N
      BY <1>5, <3>1
    <3>2. CASE ~(e > N)
      <4> DEFINE y == N - e
      <4>1. y \in 0 .. N /\ e = N - y /\ ~(n <= y)
        BY <1>1, <2>3, <2>4, <3>2
      <4> HIDE DEF y
      <4>2. y \notin T
        BY <2>2, <4>1
      <4> QED
        BY <4>1, <4>2
    <3> QED
      BY <3>1, <3>2
  <2>5. N - n \in Nat
    BY <1>1, <2>3
  <2> QED
    BY <1>4, <2>3, <2>4, <2>5
<1>7. ASSUME NEW l \in Nat PROVE Finds(l)
  <2>1. CASE l > N
    BY <1>5, <2>1
  <2>2. CASE ~(l > N)
    <3> DEFINE y == N - l
    <3>1. y \in 0 .. N /\ l = N - y
      BY <1>1, <2>2
    <3> HIDE DEF y
    <3> QED
      BY <1>6, <3>1
  <2> QED
    BY <2>1, <2>2
<1> QED
  BY <1>7 DEF Finds

\* In a text that begins with an object jGetVal (server.c 1208-1309) finds for a key
\* the value of the first pair that has it, whatever the text and whatever its
\* token_t's hold, when no shorter name of the object begins the key.
THEOREM GetValIs ==
  ASSUME NEW L, NEW t \in Seq(L), NEW unset \in TokenTypes, StartsWithObject(t),
         NEW S, NEW key \in Seq(S), Distinct(t, key)
  PROVE  GetVal(t, key, unset) = FirstPair(t, key)
<1> DEFINE k == GetToken(t, unset, 1, unset)
           d == Following(t, unset, k)
           c == [token |-> d, logPos |-> "key"]
<1>1. Opens(t) /\ Len(t) \in Nat /\ DOMAIN t = 1 .. Len(t)
  BY LenProperties, Zenon DEF StartsWithObject, Opens
<1>2. TypeAt(t, 1) = "{" /\ 1 \in 1 .. Len(t)
  <2>1. 1 \in 1 .. Len(t)
    <3>1. Len(t) # 0
      BY <1>1, EmptySeq DEF Opens
    <3> QED
      BY <1>1, <3>1
  <2> QED
    BY <1>1, <2>1, Zenon DEF TypeAt, Opens
<1>3. k.type = "{" /\ k.last = 1
  <2>1. k = TokenOf(TypeAt(t, 1), 1, 1, FALSE)
    <3>1. TypeAt(t, 1) \in Single
      BY <1>2, Zenon DEF Single
    <3> HIDE DEF k
    <3> QED
      BY <1>2, <3>1, OneLexeme DEF k
  <2> DEFINE v == TokenOf(TypeAt(t, 1), 1, 1, FALSE)
  <2>2. v.type = TypeAt(t, 1) /\ v.last = 1
    <3> DEFINE y == TypeAt(t, 1)
    <3> HIDE DEF k, d, c, y
    <3>1. v = TokenOf(y, 1, 1, FALSE)
      BY DEF y
    <3> HIDE DEF v
    <3>2. TokenOf(y, 1, 1, FALSE).type = y /\ TokenOf(y, 1, 1, FALSE).last = 1
      BY DEF TokenOf
    <3>3. v.type = y /\ v.last = 1
      BY <3>1, <3>2
    <3> QED
      BY <3>3 DEF y
  <2> HIDE DEF v, k
  <2> QED
    BY <1>2, <2>1, <2>2, Zenon DEF v
<1>4. d = GetToken(t, unset, 1 + 1, "{")
  BY <1>3, Zenon DEF Following
<1>5. InObject(t, 1, "first")
  BY <1>1, ObjectBegins
<1>6. "{" \in Before("first") /\ "first" \in InPair /\ NameDue("first") /\ "{" \in TokenTypes
  BY Zenon DEF Before, InPair, NameDue, TokenTypes, Single
<1>7. c \in Visits
  <2>1. d \in [type : TokenTypes, first : Nat, last : Nat, err : BOOLEAN]
    <3>1. 1 + 1 \in Nat \ {0}
      OBVIOUS
    <3> HIDE DEF d
    <3> DEFINE brace == "{"
    <3>2. brace \in TokenTypes /\ d = GetToken(t, unset, 1 + 1, brace)
      BY <1>4, <1>6
    <3> HIDE DEF brace
    <3> QED
      BY <3>1, <3>2, TokenOnward
  <2>2. "key" \in LogPos
    BY Zenon DEF LogPos
  <2> HIDE DEF d
  <2> QED
    BY <2>1, <2>2, Zenon DEF Visits
<1>8. VisitsAt(t, unset, 1, "first", c)
  <2>1. c.token = d /\ c.logPos = "key"
    BY Zenon
  <2> HIDE DEF c, d
  <2> QED
    BY <1>4, <1>5, <1>6, <1>7, <2>1, Zenon DEF VisitsAt
<1>9. GetVal(t, key, unset) = FirstValue(t, NamesAfter(t, key, 1))
  <2>1. GetVal(t, key, unset) = Walk(t, key, unset)[c]
    BY DEF GetVal
  <2> HIDE DEF c, d, k
  <2>2. 1 \in Nat
    OBVIOUS
  <2> QED
    BY <1>8, <2>1, <2>2, WalkFinds
<1>10. NamesAfter(t, key, 1) = {i \in DOMAIN t : IsName(t, i) /\ t[i].str = key}
  <2>1. ASSUME NEW i \in DOMAIN t, IsName(t, i) PROVE i > 1
    <3>1. i # 1
      <4>1. t[i].type = "STR"
        BY <2>1, Zenon DEF IsName
      <4>2. t[1].type = "{"
        BY <1>1, Zenon DEF Opens
      <4> QED
        BY <4>1, <4>2, Zenon
    <3> QED
      BY <1>1, <3>1
  <2> QED
    BY <2>1 DEF NamesAfter
<1> QED
  BY <1>9, <1>10 DEF FirstPair, FirstValue

\* Whatever message the program takes, and whatever its token_t's hold, jGetVal
\* (server.c 1208-1309) finds in its object for each key the value of the first pair
\* that has it, when no shorter name there begins the key.
THEOREM FindsPair == SearchSpec => []FindsThePair
<1>1. ASSUME SearchInv PROVE FindsThePair
  <2> SUFFICES ASSUME StartsWithObject(text), NEW key \in Keys, Distinct(text, key)
               PROVE  GetVal(text, key, junk) = FirstPair(text, key)
    BY DEF FindsThePair
  <2>1. (\E L : text \in Seq(L)) /\ junk \in TokenTypes
    BY <1>1 DEF SearchInv, MessageInv
  <2>2. key \in Seq(Byte \ {0})
    BY KeysAreStrings
  <2> QED
    BY <2>1, <2>2, GetValIs
<1> QED
  BY <1>1, AlwaysSearchInv, PTL

----------------------------------------------------------------------------
\* A text with something behind it.

\* A text that ends with its object, as the program's own do.
EndsText(t) == StartsWithObject(t) /\ NoneBefore(t, Len(t))

\* Its last lexeme.
ClosesAt(t, i) == TypeAt(t, i) = "}"

\* Between two places each has a neighbour.
LEMMA Neighbours ==
  ASSUME NEW L, NEW t \in Seq(L), NEW i \in 1 .. Len(t), NEW j \in 1 .. Len(t), i < j,
         ~BlankAt(t, i), ~BlankAt(t, j)
  PROVE  /\ \E l \in i .. (j - 1) : Follows(t, l, j)
         /\ \E s \in (i + 1) .. j : Follows(t, i, s)
<1>1. Len(t) \in Nat
  BY LenProperties
<1>2. \E l \in i .. (j - 1) : Follows(t, l, j)
  <2> DEFINE T == {d \in Nat : d >= 1 /\ d <= j - i /\ ~BlankAt(t, j - d)}
  <2>1. j - i \in T
    <3>1. j - (j - i) = i /\ j - i \in Nat /\ j - i >= 1
      BY <1>1
    <3> QED
      BY <3>1
  <2>2. PICK d \in T : \A e \in T : d <= e
    BY <2>1, Least
  <2>3. d \in Nat /\ d >= 1 /\ d <= j - i /\ ~BlankAt(t, j - d)
    BY <2>2
  <2>4. ASSUME NEW b \in ((j - d) + 1) .. (j - 1) PROVE BlankAt(t, b)
    <3> SUFFICES ASSUME ~BlankAt(t, b) PROVE FALSE
      OBVIOUS
    <3> DEFINE e == j - b
    <3>1. e \in Nat /\ e >= 1 /\ e <= j - i /\ j - e = b /\ e < d
      BY <1>1, <2>3
    <3> HIDE DEF e
    <3>2. e \in T
      BY <3>1
    <3> QED
      BY <2>2, <2>3, <3>1, <3>2
  <2> DEFINE l == j - d
  <2>5. l \in i .. (j - 1) /\ l \in 1 .. Len(t) /\ l < j
    BY <1>1, <2>3
  <2>6. Follows(t, l, j)
    <3>1. ~BlankAt(t, l) /\ \A b \in (l + 1) .. (j - 1) : BlankAt(t, b)
      BY <2>3, <2>4
    <3> HIDE DEF l
    <3> QED
      BY <2>5, <3>1, FollowsIs
  <2> HIDE DEF l
  <2> QED
    BY <2>5, <2>6
<1>3. \E s \in (i + 1) .. j : Follows(t, i, s)
  <2> DEFINE T == {s \in Nat : s \in (i + 1) .. j /\ ~BlankAt(t, s)}
  <2>1. j \in T
    BY <1>1
  <2>2. PICK s \in T : \A e \in T : s <= e
    BY <2>1, Least
  <2>3. \A b \in (i + 1) .. (s - 1) : BlankAt(t, b)
    BY <1>1, <2>2
  <2>4. s \in (i + 1) .. j /\ s \in 1 .. Len(t) /\ i < s /\ ~BlankAt(t, s)
    BY <1>1, <2>2
  <2> QED
    BY <2>3, <2>4, FollowsIs
<1> QED
  BY <1>2, <1>3

\* No place has two next ones.
LEMMA OneFollower ==
  ASSUME NEW L, NEW t \in Seq(L), NEW i, NEW j, NEW k, Follows(t, i, j), Follows(t, i, k)
  PROVE  j = k
<1>1. /\ i \in 1 .. Len(t) /\ j \in 1 .. Len(t) /\ k \in 1 .. Len(t) /\ i < j /\ i < k
      /\ ~BlankAt(t, j) /\ ~BlankAt(t, k)
      /\ \A b \in (i + 1) .. (j - 1) : BlankAt(t, b)
      /\ \A b \in (i + 1) .. (k - 1) : BlankAt(t, b)
      /\ Len(t) \in Nat
  BY FollowsIs, LenProperties
<1>2. ~(j < k)
  <2> SUFFICES ASSUME j < k PROVE FALSE
    OBVIOUS
  <2>1. j \in (i + 1) .. (k - 1)
    BY <1>1
  <2> QED
    BY <1>1, <2>1
<1>3. ~(k < j)
  <2> SUFFICES ASSUME k < j PROVE FALSE
    OBVIOUS
  <2>1. k \in (i + 1) .. (j - 1)
    BY <1>1
  <2> QED
    BY <1>1, <2>1
<1> QED
  BY <1>1, <1>2, <1>3

\* Where it ends, an array does not, and before it and before a ']' outside an
\* array nothing may stand that has a depth of its own.
LEMMA EndsOutside ==
  ASSUME NEW t, NEW l, NEW j, Follows(t, l, j), MayFollow(t, l, j)
  PROVE  /\ ClosesAt(t, j) => Depth(t, l) = 0 /\ Deeper(TypeAt(t, j)) = 0
         /\ Deeper(TypeAt(t, j)) < 0 => Depth(t, l) # 0 /\ Deeper(TypeAt(t, j)) = -1
<1>1. t[l].type = TypeAt(t, l) /\ t[j].type = TypeAt(t, j)
  BY Zenon DEF Follows, TypeAt
<1>2. /\ Depth(t, l) # 0 => <<TypeAt(t, l), TypeAt(t, j)>> \in Arrays
      /\ Depth(t, l) = 0 => <<TypeAt(t, l), TypeAt(t, j)>> \in Objects
  BY <1>1, Zenon DEF MayFollow
<1>3. <<TypeAt(t, l), TypeAt(t, j)>> \in Arrays => TypeAt(t, j) # "}"
  BY Zenon DEF Arrays
<1>4. <<TypeAt(t, l), TypeAt(t, j)>> \in Objects => TypeAt(t, j) # "]"
  BY Zenon DEF Objects
<1>5. /\ Deeper(TypeAt(t, j)) = IF TypeAt(t, j) = "[" THEN 1 ELSE IF TypeAt(t, j) = "]" THEN -1 ELSE 0
  BY DEF Deeper
<1>6. TypeAt(t, j) = "}" => Deeper(TypeAt(t, j)) = 0
  <2>1. "}" # "[" /\ "}" # "]"
    OBVIOUS
  <2> QED
    BY <1>5, <2>1, Zenon
<1>7. TypeAt(t, j) # "]" => Deeper(TypeAt(t, j)) \in {0, 1}
  <2> DEFINE u == TypeAt(t, j)
  <2> HIDE DEF u
  <2> QED
    BY DEF Deeper, u
<1>8. TypeAt(t, j) = "]" => Deeper(TypeAt(t, j)) = -1
  <2>1. "]" # "["
    OBVIOUS
  <2> QED
    BY <1>5, <2>1, Zenon
<1>9. Deeper(TypeAt(t, j)) < 0 => TypeAt(t, j) = "]"
  <2> DEFINE d == Deeper(TypeAt(t, j))
             shut == TypeAt(t, j) = "]"
  <2>1. ~shut => d \in {0, 1}
    BY <1>7
  <2> HIDE DEF d, shut
  <2>2. d < 0 => shut
    BY <2>1
  <2> QED
    BY <2>2 DEF d, shut
<1> QED
  BY <1>2, <1>3, <1>4, <1>6, <1>8, <1>9, Zenon DEF ClosesAt

\* Nowhere in a text that ends with its object is the depth below zero, and at its
\* end it is zero.
LEMMA WholeObject ==
  ASSUME NEW L, NEW t \in Seq(L), EndsText(t)
  PROVE  /\ Len(t) \in Nat /\ Len(t) > 1 /\ Opens(t) /\ ClosesAt(t, Len(t)) /\ Legal(t, Len(t))
         /\ ~BlankAt(t, 1) /\ ~BlankAt(t, Len(t))
         /\ \A i \in 1 .. Len(t) : Depth(t, i) \in Nat
         /\ Depth(t, Len(t)) = 0
<1> DEFINE n == Len(t)
<1>1. n \in Nat /\ DOMAIN t = 1 .. n
  BY LenProperties
<1>2. /\ Opens(t)
      /\ \E end \in DOMAIN t : t[end].type = "}" /\ NoneBefore(t, end) /\ Legal(t, end)
      /\ NoneBefore(t, n)
  BY Zenon DEF EndsText, StartsWithObject, Opens
<1>3. PICK end \in DOMAIN t : t[end].type = "}" /\ Legal(t, end)
  BY <1>2, Zenon
<1>4. end = n
  <2>1. end \notin 1 .. (n - 1)
    BY <1>2, <1>3, Zenon DEF NoneBefore
  <2> HIDE DEF n
  <2> QED
    BY <1>1, <2>1
<1>5. ClosesAt(t, n) /\ Legal(t, n) /\ n \in 1 .. n
  <2>1. ClosesAt(t, n)
    BY <1>3, <1>4, Zenon DEF ClosesAt, TypeAt
  <2> HIDE DEF n
  <2> QED
    BY <1>1, <1>3, <1>4, <2>1
<1>6. 1 \in DOMAIN t
  <2>1. n >= 1
    BY <1>1, <1>5
  <2> QED
    BY <1>1, <2>1
<1>7. TypeAt(t, 1) = "{"
  BY <1>2, <1>6, Zenon DEF Opens, TypeAt
<1>8. ~BlankAt(t, 1) /\ ~BlankAt(t, n) /\ n # 1
  <2>1. TypeAt(t, n) = "}"
    BY <1>5 DEF ClosesAt
  <2> HIDE DEF n
  <2> QED
    BY <1>7, <2>1, Zenon DEF BlankAt
<1>9. Depth(t, 1) = 0
  <2>1. 1 \in 1 .. (Len(t) + 1) /\ 1 - 1 = 0 /\ 1 \in 1 .. Len(t) /\ 1 .. (1 - 1) = {}
    BY <1>1, <1>6
  <2>2. FirstFrom(t, 1, 1)
    BY <1>8, <2>1 DEF FirstFrom
  <2>3. Depth(t, 1) = Depth(t, 1 - 1) + Deeper(TypeAt(t, 1))
    BY <2>1, <2>2, DepthNext
  <2>4. Deeper(TypeAt(t, 1)) = 0
    <3>1. TypeAt(t, 1) # "[" /\ TypeAt(t, 1) # "]"
      BY <1>7, Zenon
    <3> QED
      BY <3>1, Zenon DEF Deeper
  <2>5. Depth(t, 0) = 0
    <3>1. \A u : {j \in 1 .. 0 : t[j].type = u} = {}
      <4>1. 1 .. 0 = {}
        OBVIOUS
      <4> QED
        BY <4>1
    <3>2. Cardinality({}) = 0
      BY FS_EmptySet
    <3>3. Depth(t, 0) = Cardinality({}) - Cardinality({})
      BY <3>1, Zenon DEF Depth
    <3> QED
      BY <3>2, <3>3
  <2> DEFINE d == Deeper(TypeAt(t, 1))
  <2> HIDE DEF d
  <2> QED
    BY <2>1, <2>3, <2>4, <2>5 DEF d
<1>10. ASSUME NEW s \in 2 .. n, ~BlankAt(t, s)
       PROVE  \E l \in 1 .. (s - 1) :
                /\ Depth(t, s) = Depth(t, l) + Deeper(TypeAt(t, s))
                /\ Follows(t, l, s) /\ MayFollow(t, l, s) /\ Depth(t, l) \in Int
  <2>1. s \in 1 .. n /\ 1 < s /\ s \in Int
    BY <1>1
  <2>2. PICK l \in 1 .. (s - 1) : Follows(t, l, s)
    BY <1>6, <1>8, <1>1, <1>10, <2>1, Neighbours
  <2>3. FirstFrom(t, l + 1, s)
    <3>1. /\ \A b \in (l + 1) .. (s - 1) : BlankAt(t, b)
          /\ l \in 1 .. Len(t) /\ s \in 1 .. Len(t) /\ l < s /\ ~BlankAt(t, s)
      BY <2>2, FollowsIs
    <3>2. s \in (l + 1) .. Len(t)
      BY <3>1
    <3> QED
      BY <3>1, <3>2 DEF FirstFrom
  <2>4. l + 1 \in 1 .. (Len(t) + 1) /\ (l + 1) - 1 = l
    BY <1>1, <2>1
  <2> DEFINE p == l + 1
  <2>5. p \in 1 .. (Len(t) + 1) /\ p - 1 = l /\ FirstFrom(t, p, s)
    BY <2>3, <2>4
  <2> HIDE DEF p
  <2>6. /\ Depth(t, p - 1) \in Int
        /\ Depth(t, s) = Depth(t, p - 1) + Deeper(TypeAt(t, s))
    BY <2>5, DepthNext
  <2>7. MayFollow(t, l, s)
    <3>1. l \in 1 .. n
      BY <1>1, <2>1
    <3> HIDE DEF n
    <3> QED
      BY <1>5, <2>1, <2>2, <3>1 DEF Legal
  <2> QED
    BY <2>2, <2>5, <2>6, <2>7
<1> HIDE DEF n
<1>11. ASSUME NEW i \in 1 .. n PROVE Depth(t, i) \in Nat
  <2>1. \A k \in 1 .. n : Depth(t, k) \in Int
    BY <1>1, CountIsNat
  <2> DEFINE T == {k \in Nat : k \in 1 .. n /\ Depth(t, k) < 0}
  <2>2. ASSUME T # {} PROVE FALSE
    <3>1. PICK s \in T : \A k \in T : s <= k
      BY <2>2, Least
    <3>2. s \in 1 .. n /\ Depth(t, s) < 0
      BY <3>1
    <3>3. s \in 2 .. n
      <4>1. s # 1
        BY <1>9, <3>2
      <4> QED
        BY <1>1, <3>2, <4>1
    <3>4. ASSUME NEW k \in 1 .. (s - 1) PROVE Depth(t, k) >= 0
      <4>1. k \in Nat /\ k \in 1 .. n /\ k < s
        BY <1>1, <3>2
      <4>2. k \notin T
        BY <3>1, <4>1
      <4> QED
        BY <2>1, <4>1, <4>2
    <3>5. ~BlankAt(t, s)
      <4> SUFFICES ASSUME BlankAt(t, s) PROVE FALSE
        OBVIOUS
      <4> DEFINE r == s - 1
                 O(u, k) == {j \in 1 .. k : t[j].type = u}
      <4>1. r \in 1 .. (s - 1) /\ \A j : j \in 1 .. s <=> (j \in 1 .. r \/ j = s)
        BY <3>3
      <4>2. t[s].type = " "
        BY <1>1, <3>2, Zenon DEF BlankAt, TypeAt
      <4>3. O("[", s) = O("[", r) /\ O("]", s) = O("]", r)
        <5>1. " " # "[" /\ " " # "]"
          OBVIOUS
        <5>2. t[s].type # "[" /\ t[s].type # "]"
          BY <4>2, <5>1, Zenon
        <5> HIDE DEF r
        <5> QED
          BY <4>1, <5>2
      <4>4. Depth(t, s) = Depth(t, r)
        <5> HIDE DEF r
        <5> QED
          BY <4>3, Zenon DEF Depth
      <4>5. Depth(t, r) >= 0 /\ Depth(t, s) \in Int
        BY <2>1, <3>2, <3>4, <4>1
      <4> HIDE DEF r, O
      <4> QED
        BY <3>2, <4>4, <4>5
    <3>6. PICK l \in 1 .. (s - 1) :
            /\ Depth(t, s) = Depth(t, l) + Deeper(TypeAt(t, s))
            /\ Follows(t, l, s) /\ MayFollow(t, l, s) /\ Depth(t, l) \in Int
      BY <1>10, <3>3, <3>5
    <3>7. Depth(t, l) >= 0
      BY <3>4
    <3>8. Deeper(TypeAt(t, s)) < 0 => Depth(t, l) # 0 /\ Deeper(TypeAt(t, s)) = -1
      BY <3>6, EndsOutside
    <3>9. Deeper(TypeAt(t, s)) \in Int
      BY DEF Deeper
    <3> DEFINE d == Deeper(TypeAt(t, s))
    <3> HIDE DEF d
    <3> QED
      BY <3>2, <3>6, <3>7, <3>8, <3>9 DEF d
  <2> QED
    BY <1>1, <2>1, <2>2
<1>12. Depth(t, n) = 0
  <2>1. n \in 2 .. n
    BY <1>1, <1>5, <1>8
  <2>2. PICK l \in 1 .. (n - 1) :
          /\ Depth(t, n) = Depth(t, l) + Deeper(TypeAt(t, n))
          /\ Follows(t, l, n) /\ MayFollow(t, l, n)
    BY <1>8, <1>10, <2>1
  <2>3. Depth(t, l) = 0 /\ Deeper(TypeAt(t, n)) = 0
    BY <1>5, <2>2, EndsOutside
  <2> QED
    BY <2>2, <2>3
<1>13. n > 1
  BY <1>1, <1>5, <1>8
<1> QED
  BY <1>1, <1>2, <1>5, <1>8, <1>11, <1>12, <1>13 DEF n

\* Up to the end of t the text u is the same.
SameUpTo(t, u) ==
    /\ Len(u) \in Nat /\ Len(t) <= Len(u)
    /\ \A i \in 1 .. Len(t) :
          u[i] = t[i] /\ TypeAt(u, i) = TypeAt(t, i) /\ Depth(u, i) = Depth(t, i)
    /\ \A i \in 1 .. (Len(t) - 1) : \A j : Follows(u, i, j) <=> Follows(t, i, j)
    /\ \A i : \A j \in 1 .. Len(t) : Follows(u, i, j) <=> Follows(t, i, j)

\* Up to its end a text is read as without what follows it.
LEMMA GoesOn ==
  ASSUME NEW L, NEW t \in Seq(L), EndsText(t), NEW M, NEW old \in Seq(M),
         NEW u, u = t \o old
  PROVE  u \in Seq(L \cup M) /\ SameUpTo(t, u)
<1> DEFINE n == Len(t)
           m == Len(u)
<1>1. n \in Nat /\ Len(old) \in Nat /\ n > 1 /\ ~BlankAt(t, n)
  BY WholeObject, LenProperties
<1>2. /\ u \in Seq(L \cup M) /\ m = n + Len(old)
      /\ \A i \in 1 .. n : u[i] = t[i]
  <2>1. t \in Seq(L \cup M) /\ old \in Seq(L \cup M)
    <3>1. L \subseteq L \cup M /\ M \subseteq L \cup M
      OBVIOUS
    <3> QED
      BY <3>1, SeqMonotonic
  <2>2. /\ t \o old \in Seq(L \cup M) /\ Len(t \o old) = n + Len(old)
        /\ \A i \in 1 .. n + Len(old) : (t \o old)[i] = IF i <= n THEN t[i] ELSE old[i - n]
    BY <2>1, ConcatProperties
  <2>3. \A i \in 1 .. n : i \in 1 .. n + Len(old) /\ i <= n
    BY <1>1
  <2> QED
    BY <2>2, <2>3
<1>3. n <= m /\ m \in Nat /\ DOMAIN t = 1 .. n /\ DOMAIN u = 1 .. m
  <2>1. DOMAIN t = 1 .. n /\ DOMAIN u = 1 .. m
    BY <1>2, LenProperties
  <2> HIDE DEF n, m
  <2> QED
    BY <1>1, <1>2, <2>1
<1>4. \A i \in 1 .. n : i \in 1 .. m
  <2> HIDE DEF n, m
  <2> QED
    BY <1>1, <1>3
<1>5. \A i \in 1 .. n : TypeAt(u, i) = TypeAt(t, i)
  BY <1>2, <1>3, <1>4, Zenon DEF TypeAt
<1>6. \A i \in 1 .. n : BlankAt(u, i) <=> BlankAt(t, i)
  BY <1>5 DEF BlankAt
<1>7. ASSUME NEW i \in 1 .. n PROVE Depth(u, i) = Depth(t, i)
  <2>1. \A j \in 1 .. i : u[j] = t[j]
    <3>1. \A j \in 1 .. i : j \in 1 .. n
      <4> HIDE DEF n
      <4> QED
        BY <1>1
    <3> QED
      BY <1>2, <3>1
  <2>2. \A p : {j \in 1 .. i : u[j].type = p} = {j \in 1 .. i : t[j].type = p}
    BY <2>1
  <2> QED
    BY <2>2, Zenon DEF Depth
<1>8. ASSUME NEW i, NEW j \in 1 .. n PROVE Follows(u, i, j) <=> Follows(t, i, j)
  <2>1. i \in 1 .. m /\ i < j => i \in 1 .. n
    <3> HIDE DEF n, m
    <3> QED
      BY <1>1, <1>3
  <2>2. i \in 1 .. n => \A b \in (i + 1) .. (j - 1) : b \in 1 .. n
    <3> HIDE DEF n
    <3> QED
      BY <1>1
  <2>3. Follows(u, i, j) <=>
           /\ i \in 1 .. m /\ j \in 1 .. m /\ i < j
           /\ ~BlankAt(u, i) /\ ~BlankAt(u, j)
           /\ \A b \in (i + 1) .. (j - 1) : BlankAt(u, b)
    BY <1>2, FollowsIs
  <2>4. Follows(t, i, j) <=>
           /\ i \in 1 .. n /\ j \in 1 .. n /\ i < j
           /\ ~BlankAt(t, i) /\ ~BlankAt(t, j)
           /\ \A b \in (i + 1) .. (j - 1) : BlankAt(t, b)
    BY FollowsIs
  <2> HIDE DEF n, m
  <2> QED
    BY <1>4, <1>6, <2>1, <2>2, <2>3, <2>4, Zenon
<1>9. ASSUME NEW i \in 1 .. (n - 1), NEW j PROVE Follows(u, i, j) <=> Follows(t, i, j)
  <2>1. CASE j \in 1 .. n
    BY <1>8, <2>1
  <2>2. CASE j \notin 1 .. n
    <3>1. ~Follows(t, i, j)
      BY <2>2, FollowsIs
    <3>2. ASSUME Follows(u, i, j) PROVE FALSE
      <4>1. j \in 1 .. m /\ \A b \in (i + 1) .. (j - 1) : BlankAt(u, b)
        BY <1>2, <3>2, FollowsIs
      <4>2. n \in (i + 1) .. (j - 1) /\ n \in 1 .. n
        <5> HIDE DEF n, m
        <5> QED
          BY <1>1, <1>3, <2>2, <4>1
      <4> QED
        BY <1>1, <1>6, <4>1, <4>2
    <3> QED
      BY <3>1, <3>2
  <2> QED
    BY <2>1, <2>2
<1> QED
  BY <1>2, <1>3, <1>5, <1>7, <1>8, <1>9 DEF SameUpTo

\* So it begins with the same object.
LEMMA ObjectGoesOn ==
  ASSUME NEW L, NEW t \in Seq(L), EndsText(t), NEW M, NEW old \in Seq(M),
         NEW u, u = t \o old
  PROVE  StartsWithObject(u)
<1> DEFINE n == Len(t)
<1>1. /\ n \in Nat /\ n > 1 /\ Opens(t) /\ ClosesAt(t, n) /\ Legal(t, n)
      /\ NoneBefore(t, n)
  BY WholeObject DEF EndsText
<1>2. /\ u \in Seq(L \cup M) /\ Len(u) \in Nat /\ n <= Len(u)
      /\ \A i \in 1 .. n :
           u[i] = t[i] /\ TypeAt(u, i) = TypeAt(t, i) /\ Depth(u, i) = Depth(t, i)
      /\ \A i : \A j \in 1 .. n : Follows(u, i, j) <=> Follows(t, i, j)
  <2>1. u \in Seq(L \cup M) /\ SameUpTo(t, u)
    BY GoesOn
  <2> QED
    BY <2>1 DEF SameUpTo
<1>3. DOMAIN t = 1 .. n /\ DOMAIN u = 1 .. Len(u)
  BY <1>2, LenProperties
<1>4. 1 \in 1 .. n /\ n \in 1 .. n /\ n \in DOMAIN u
  <2> HIDE DEF n
  <2> QED
    BY <1>1, <1>2, <1>3
<1>5. Opens(u)
  <2>1. u # <<>>
    <3>1. Len(u) # 0
      <4> HIDE DEF n
      <4> QED
        BY <1>1, <1>2
    <3> QED
      BY <1>2, <3>1, EmptySeq
  <2> QED
    BY <1>1, <1>2, <1>4, <2>1, Zenon DEF Opens
<1>6. ClosesAt(u, n)
  BY <1>1, <1>2, <1>4, Zenon DEF ClosesAt
<1>7. NoneBefore(u, n)
  <2>1. \A i \in 1 .. (n - 1) : i \in 1 .. n
    <3> HIDE DEF n
    <3> QED
      BY <1>1
  <2> QED
    BY <1>1, <1>2, <2>1, Zenon DEF NoneBefore
<1>8. ASSUME NEW i \in 1 .. n, NEW j \in 1 .. n, Follows(u, i, j)
      PROVE  MayFollow(u, i, j)
  <2>1. Follows(t, i, j)
    BY <1>2, <1>8
  <2>2. MayFollow(t, i, j)
    BY <1>1, <2>1 DEF Legal
  <2>3. Opened(u, i) <=> Opened(t, i)
    <3>1. ASSUME NEW h, Follows(t, h, i) PROVE h \in 1 .. n /\ h \in DOMAIN u
      <4>1. h \in 1 .. n
        BY <3>1, FollowsIs
      <4> HIDE DEF n
      <4> QED
        BY <1>1, <1>2, <1>3, <4>1
    <3>2. \A h : Follows(t, h, i) => t[h] = u[h] /\ h \in DOMAIN u /\ h \in DOMAIN t
      BY <1>2, <1>3, <3>1
    <3>3. \A h : Follows(u, h, i) <=> Follows(t, h, i)
      BY <1>2
    <3> HIDE DEF n
    <3> QED
      BY <3>2, <3>3, Zenon DEF Opened
  <2>4. t[i] = u[i] /\ t[j] = u[j] /\ Depth(t, i) = Depth(u, i)
    BY <1>2
  <2> HIDE DEF n
  <2> QED
    BY <2>2, <2>3, <2>4, Zenon DEF MayFollow
<1>9. Legal(u, n)
  BY <1>8 DEF Legal
<1> HIDE DEF n
<1>10. u[n].type = "}"
  BY <1>4, <1>6, Zenon DEF ClosesAt, TypeAt
<1> QED
  BY <1>4, <1>5, <1>7, <1>9, <1>10, Zenon DEF StartsWithObject, Opens

\* The names of a text's object are those of the longer text.
LEMMA SameNames ==
  ASSUME NEW L, NEW t \in Seq(L), EndsText(t), NEW M, NEW u \in Seq(M), SameUpTo(t, u),
         NEW i
  PROVE  /\ i \in DOMAIN u /\ IsName(u, i) <=> i \in DOMAIN t /\ IsName(t, i)
         /\ i \in DOMAIN t /\ IsName(t, i) => i \in 1 .. (Len(t) - 1) /\ u[i] = t[i]
<1> DEFINE n == Len(t)
           m == Len(u)
<1>1. /\ n \in Nat /\ n > 1 /\ ClosesAt(t, n)
      /\ m \in Nat /\ n <= m
      /\ \A k \in 1 .. n : u[k] = t[k] /\ TypeAt(u, k) = TypeAt(t, k)
      /\ \A k \in 1 .. (n - 1) : \A j : Follows(u, k, j) <=> Follows(t, k, j)
  BY WholeObject DEF SameUpTo
<1>2. DOMAIN t = 1 .. n /\ DOMAIN u = 1 .. m
  BY LenProperties
<1>3. n \in 1 .. n /\ n \in DOMAIN u /\ \A k \in 1 .. n : k \in DOMAIN u /\ k \in DOMAIN t
  <2> HIDE DEF n, m
  <2> QED
    BY <1>1, <1>2
<1>4. t[n].type = "}" /\ u[n].type = "}"
  BY <1>1, <1>3, Zenon DEF ClosesAt, TypeAt
<1>5. ASSUME i \in DOMAIN t, IsName(t, i) PROVE i \in 1 .. (n - 1)
  <2>1. i # n
    BY <1>4, <1>5, Zenon DEF IsName
  <2> HIDE DEF n
  <2> QED
    BY <1>1, <1>2, <1>5, <2>1
<1>6. ASSUME i \in DOMAIN u, IsName(u, i) PROVE i \in 1 .. (n - 1)
  <2>1. i # n
    BY <1>4, <1>6, Zenon DEF IsName
  <2>2. n \notin 1 .. (i - 1)
    BY <1>4, <1>6, Zenon DEF IsName, NoneBefore
  <2> HIDE DEF n, m
  <2> QED
    BY <1>1, <1>2, <1>6, <2>1, <2>2
<1>7. ASSUME i \in 1 .. (n - 1) PROVE IsName(u, i) <=> IsName(t, i)
  <2>1. i \in 1 .. n /\ \A k \in 1 .. (i - 1) : k \in 1 .. n
    <3> HIDE DEF n
    <3> QED
      BY <1>1, <1>7
  <2>2. NoneBefore(u, i) <=> NoneBefore(t, i)
    BY <1>1, <2>1, Zenon DEF NoneBefore
  <2>3. \A j : Follows(t, i, j) => u[j] = t[j] /\ j \in DOMAIN u /\ j \in DOMAIN t
    <3>1. \A j : Follows(t, i, j) => j \in 1 .. n
      BY FollowsIs
    <3> QED
      BY <1>1, <1>3, <3>1
  <2>4. \A j : Follows(u, i, j) <=> Follows(t, i, j)
    BY <1>1, <1>7
  <2>5. u[i] = t[i]
    BY <1>1, <2>1
  <2> HIDE DEF n
  <2> QED
    BY <2>2, <2>3, <2>4, <2>5, Zenon DEF IsName
<1>8. i \in 1 .. (n - 1) => i \in 1 .. n /\ i \in DOMAIN u /\ i \in DOMAIN t
  <2> HIDE DEF n, m
  <2> QED
    BY <1>1, <1>2
<1> HIDE DEF n, m
<1> QED
  BY <1>1, <1>5, <1>6, <1>7, <1>8 DEF n

\* So are their values.
LEMMA SameValue ==
  ASSUME NEW L, NEW t \in Seq(L), EndsText(t), NEW M, NEW u \in Seq(M), SameUpTo(t, u),
         NEW i \in DOMAIN t, IsName(t, i)
  PROVE  ValueOf(u, i) = ValueOf(t, i)
<1> DEFINE n == Len(t)
           m == Len(u)
           Shut(w, x, j) == Depth(w, j) = 0 /\ \A k \in x .. (j - 1) : Depth(w, k) > 0
<1>1. /\ n \in Nat /\ n > 1 /\ ClosesAt(t, n) /\ ~BlankAt(t, n)
      /\ \A k \in 1 .. n : Depth(t, k) \in Nat
      /\ Depth(t, n) = 0
  BY WholeObject
<1>2. /\ m \in Nat /\ n <= m
      /\ \A k \in 1 .. n : u[k] = t[k] /\ Depth(u, k) = Depth(t, k)
      /\ \A k \in 1 .. (n - 1) : \A j : Follows(u, k, j) <=> Follows(t, k, j)
  BY DEF SameUpTo
<1>3. DOMAIN t = 1 .. n /\ DOMAIN u = 1 .. m
  BY LenProperties
<1>4. i \in 1 .. (n - 1)
  BY SameNames
<1>5. PICK c \in DOMAIN t : Follows(t, i, c) /\ t[c].type = ":"
  BY Zenon DEF IsName
<1>6. c \in 1 .. (n - 1)
  <2>1. c # n
    <3>1. n \in 1 .. n
      <4> HIDE DEF n
      <4> QED
        BY <1>1
    <3>2. t[n].type = "}"
      BY <1>1, <1>3, <3>1, Zenon DEF ClosesAt, TypeAt
    <3> QED
      BY <1>5, <3>2, Zenon
  <2> HIDE DEF n
  <2> QED
    BY <1>1, <1>3, <2>1
<1>7. PICK a \in 1 .. n : Follows(t, c, a)
  <2>1. c \in 1 .. n /\ n \in 1 .. n /\ c < n
    <3> HIDE DEF n
    <3> QED
      BY <1>1, <1>6
  <2>2. ~BlankAt(t, c)
    BY <1>5, FollowsIs
  <2>3. PICK s \in (c + 1) .. n : Follows(t, c, s)
    BY <1>1, <2>1, <2>2, Neighbours
  <2>4. s \in 1 .. n
    BY <2>3, FollowsIs
  <2> QED
    BY <2>3, <2>4
<1>8. a \in DOMAIN t /\ a \in DOMAIN u /\ c \in DOMAIN u
  <2> HIDE DEF n, m
  <2> QED
    BY <1>1, <1>2, <1>3, <1>6, <1>7
<1>9. /\ (CHOOSE j \in DOMAIN t : Follows(t, i, j)) = c
      /\ (CHOOSE j \in DOMAIN u : Follows(u, i, j)) = c
  <2>1. \A j : Follows(t, i, j) => j = c
    BY <1>5, OneFollower
  <2>2. \A j : Follows(u, i, j) <=> Follows(t, i, j)
    BY <1>2, <1>4
  <2> QED
    BY <1>5, <1>8, <2>1, <2>2
<1>10. /\ (CHOOSE j \in DOMAIN t : Follows(t, c, j)) = a
       /\ (CHOOSE j \in DOMAIN u : Follows(u, c, j)) = a
  <2>1. \A j : Follows(t, c, j) => j = a
    BY <1>7, OneFollower
  <2>2. \A j : Follows(u, c, j) <=> Follows(t, c, j)
    BY <1>2, <1>6
  <2> QED
    BY <1>7, <1>8, <2>1, <2>2
<1>11. PICK b \in a .. n : Shut(t, a, b)
  <2> DEFINE T == {k \in Nat : k \in a .. n /\ Depth(t, k) = 0}
  <2> HIDE DEF n
  <2>1. n \in T
    BY <1>1, <1>7
  <2>2. PICK b \in T : \A k \in T : b <= k
    BY <2>1, Least
  <2>3. ASSUME NEW k \in a .. (b - 1) PROVE Depth(t, k) > 0
    <3>1. k \in Nat /\ k \in 1 .. n /\ k \in a .. n /\ k < b
      BY <1>1, <1>7, <2>2
    <3>2. k \notin T
      BY <2>2, <3>1
    <3> QED
      BY <1>1, <3>1, <3>2
  <2> QED
    BY <2>2, <2>3
<1>12. b \in a .. n /\ a \in 1 .. n /\ b \in 1 .. n /\ b \in a .. m /\ b \in Int
  <2> HIDE DEF n, m, Shut
  <2> QED
    BY <1>1, <1>2, <1>7, <1>11
<1>13. Shut(u, a, b)
  <2>1. \A k \in a .. b : k \in 1 .. n
    <3> HIDE DEF n, Shut
    <3> QED
      BY <1>1, <1>12
  <2>2. \A k \in a .. (b - 1) : k \in a .. b
    <3> HIDE DEF n, Shut
    <3> QED
      BY <1>1, <1>12
  <2> QED
    BY <1>2, <1>11, <1>12, <2>1, <2>2
<1>14. ASSUME NEW w, NEW z \in Nat, Shut(w, a, b), NEW j \in a .. z, Shut(w, a, j), b \in a .. z
       PROVE  j = b
  <2>1. ~(j < b)
    <3> SUFFICES ASSUME j < b PROVE FALSE
      OBVIOUS
    <3>1. j \in a .. (b - 1)
      BY <1>12, <1>14
    <3>2. Depth(w, j) = 0 /\ Depth(w, j) > 0
      BY <1>14, <3>1
    <3> QED
      BY <3>2
  <2>2. ~(b < j)
    <3> SUFFICES ASSUME b < j PROVE FALSE
      OBVIOUS
    <3>1. b \in a .. (j - 1)
      BY <1>12, <1>14
    <3>2. Depth(w, b) = 0 /\ Depth(w, b) > 0
      BY <1>14, <3>1
    <3> QED
      BY <3>2
  <2> HIDE DEF Shut
  <2> QED
    BY <1>12, <1>14, <2>1, <2>2
<1>15. /\ (CHOOSE j \in a .. n : Shut(t, a, j)) = b
       /\ (CHOOSE j \in a .. m : Shut(u, a, j)) = b
  <2> HIDE DEF Shut, n, m
  <2> QED
    BY <1>1, <1>2, <1>11, <1>12, <1>13, <1>14
<1>16. SubSeq(u, a, b) = SubSeq(t, a, b)
  <2>1. /\ a \in Int /\ b \in Int /\ a <= b /\ \A k \in a .. b : k \in 1 .. n
        /\ \A k \in 1 .. (b - a) + 1 : a + k - 1 \in a .. b
        /\ (b - a) + 1 \in Nat
    <3> HIDE DEF n
    <3> QED
      BY <1>1, <1>12
  <2>2. \A k \in a .. b : t[k] \in L /\ u[k] \in L /\ u[k] = t[k]
    BY <1>2, <2>1, ElementOfSeq
  <2> DEFINE x == SubSeq(u, a, b)
             y == SubSeq(t, a, b)
             l == (b - a) + 1
  <2>3. x \in Seq(L) /\ Len(x) = l /\ \A k \in 1 .. l : x[k] = u[a + k - 1]
    BY <2>1, <2>2, SubSeqProperties
  <2>4. y \in Seq(L) /\ Len(y) = l /\ \A k \in 1 .. l : y[k] = t[a + k - 1]
    BY <2>1, <2>2, SubSeqProperties
  <2>5. \A k \in 1 .. l : x[k] = y[k]
    BY <2>1, <2>2, <2>3, <2>4
  <2> HIDE DEF x, y, l
  <2>6. x = y
    BY <2>3, <2>4, <2>5, SeqEqual
  <2> QED
    BY <2>6 DEF x, y
<1>17. ValueOf(t, i) = SubSeq(t, a, CHOOSE j \in a .. n : Shut(t, a, j))
  BY <1>9, <1>10 DEF ValueOf
<1>18. ValueOf(u, i) = SubSeq(u, a, CHOOSE j \in a .. m : Shut(u, a, j))
  BY <1>9, <1>10 DEF ValueOf
<1> HIDE DEF Shut, n, m
<1> QED
  BY <1>15, <1>16, <1>17, <1>18

\* What follows a text changes no pair of its object.
LEMMA SamePair ==
  ASSUME NEW L, NEW t \in Seq(L), EndsText(t), NEW M, NEW u \in Seq(M), SameUpTo(t, u),
         NEW key
  PROVE  /\ Distinct(t, key) => Distinct(u, key)
         /\ FirstPair(u, key) = FirstPair(t, key)
<1>1. \A i : i \in DOMAIN u /\ IsName(u, i) <=> i \in DOMAIN t /\ IsName(t, i)
  BY SameNames
<1>2. \A i : i \in DOMAIN t /\ IsName(t, i) => u[i] = t[i]
  BY SameNames
<1>3. \A i \in DOMAIN t : IsName(t, i) => ValueOf(u, i) = ValueOf(t, i)
  BY SameValue
<1>4. Distinct(t, key) => Distinct(u, key)
  BY <1>1, <1>2, Zenon DEF Distinct
<1> DEFINE N == {i \in DOMAIN t : IsName(t, i) /\ t[i].str = key}
           first == CHOOSE i \in N : \A k \in N : i <= k
<1>5. {i \in DOMAIN u : IsName(u, i) /\ u[i].str = key} = N
  BY <1>1, <1>2
<1>6. FirstPair(t, key) = IF N = {} THEN Absent ELSE ValueOf(t, first)
  BY DEF FirstPair
<1>7. FirstPair(u, key) = IF N = {} THEN Absent ELSE ValueOf(u, first)
  <2> DEFINE O == {i \in DOMAIN u : IsName(u, i) /\ u[i].str = key}
  <2>1. FirstPair(u, key) = IF O = {} THEN Absent
                            ELSE ValueOf(u, CHOOSE i \in O : \A k \in O : i <= k)
    BY DEF FirstPair
  <2>2. O = N
    BY <1>5
  <2> HIDE DEF O, N
  <2> QED
    BY <2>1, <2>2 DEF first
<1>8. N # {} => first \in N
  <2>1. DOMAIN t = 1 .. Len(t) /\ Len(t) \in Nat
    BY LenProperties
  <2>2. N \in SUBSET Nat
    BY <2>1
  <2>3. N # {} => \E i \in N : \A k \in N : i <= k
    BY <2>2, Least
  <2> HIDE DEF N
  <2> QED
    BY <2>3
<1>9. N # {} => ValueOf(u, first) = ValueOf(t, first)
  <2> HIDE DEF first
  <2> QED
    BY <1>3, <1>8
<1> HIDE DEF N, first
<1> QED
  BY <1>4, <1>6, <1>7, <1>9

----------------------------------------------------------------------------
\* What the parser can only refuse.

\* The parser reads no '}' where none is.
LEMMA NoBraceRead ==
  ASSUME NEW L, NEW t \in Seq(L), \A j \in 1 .. Len(t) : ~ClosesAt(t, j), NEW unset,
         NEW p \in 1 .. (Len(t) + 1), NEW old,
         NEW k, k = GetToken(t, unset, p, old), ~k.err, Closing(k)
  PROVE  old = "}"
<1> DEFINE s == SkipBlanks(t, p)
           u == TypeAt(t, s)
           array == IF TypeAt(t, s + 1) = "]"
                    THEN TokenOf("ARRAY", s, s + 1, FALSE)
                    ELSE ArrayEnds(t, unset)[[due |-> Values, at |-> s + 1, old |-> unset]]
           r == ReadToken(t, unset, p, old, ArrayEnds(t, unset))
<1>1. Len(t) \in Nat /\ s \in 1 .. (Len(t) + 1)
  <2>1. Len(t) \in Nat
    BY LenProperties
  <2>2. s \in p .. (Len(t) + 1)
    BY SkipsBlanks
  <2> HIDE DEF s
  <2> QED
    BY <2>1, <2>2
<1>2. r = CASE u \in Single -> TokenOf(u, s, s, FALSE)
            [] u \in Unread -> TokenOf(old, s, s, FALSE)
            [] u = "[" /\ ~array.err -> TokenOf("ARRAY", s, array.last, FALSE)
            [] OTHER -> TokenOf(old, s, s, TRUE)
  BY DEF ReadToken, UnreadType
<1>3. ~(p > Len(t)) /\ k = r
  <2>1. p > Len(t) => k = TokenOf(old, p, p, TRUE)
    BY DEF GetToken
  <2>2. TokenOf(old, p, p, TRUE).err
    BY TokenFields
  <2>3. ~(p > Len(t)) => k = r
    BY DEF GetToken
  <2> HIDE DEF r
  <2> QED
    BY <2>1, <2>2, <2>3
<1>4. u # "}"
  <2>1. CASE s = Len(t) + 1
    <3>1. u = "?"
      BY <1>1, <2>1, PastTheEnd
    <3> QED
      BY <3>1, Zenon
  <2>2. CASE s # Len(t) + 1
    <3>1. s \in 1 .. Len(t)
      <4> HIDE DEF s
      <4> QED
        BY <1>1, <2>2
    <3> QED
      BY <3>1, Zenon DEF ClosesAt
  <2> QED
    BY <2>1, <2>2
<1> HIDE DEF s, u, array, r
<1>5. ~r.err /\ r.type = "}"
  BY <1>3, Zenon DEF Closing
<1>6. CASE u \in Single
  <2>1. u \notin Unread /\ u # "["
    BY <1>6, Zenon DEF Single, Unread
  <2>2. r = TokenOf(u, s, s, FALSE)
    BY <1>2, <1>6, <2>1, Zenon
  <2>3. r.type = u
    BY <2>2, Zenon DEF TokenOf
  <2> QED
    BY <1>4, <1>5, <2>3, Zenon
<1>7. CASE u \in Unread
  <2>1. u \notin Single /\ u # "["
    BY <1>7, Zenon DEF Single, Unread
  <2>2. r = TokenOf(old, s, s, FALSE)
    BY <1>2, <1>7, <2>1, Zenon
  <2>3. r.type = old
    BY <2>2, Zenon DEF TokenOf
  <2> QED
    BY <1>5, <2>3, Zenon
<1>8. CASE u \notin Single /\ u \notin Unread /\ u = "[" /\ ~array.err
  <2>1. r = TokenOf("ARRAY", s, array.last, FALSE)
    BY <1>2, <1>8, Zenon
  <2>2. r.type = "ARRAY"
    BY <2>1, Zenon DEF TokenOf
  <2> QED
    BY <1>5, <2>2, Zenon
<1>9. CASE u \notin Single /\ u \notin Unread /\ ~(u = "[" /\ ~array.err)
  <2>1. r = TokenOf(old, s, s, TRUE)
    BY <1>2, <1>9, Zenon
  <2>2. r.err
    BY <2>1, Zenon DEF TokenOf
  <2> QED
    BY <1>5, <2>2
<1> QED
  BY <1>6, <1>7, <1>8, <1>9

\* A text cut inside a string has lost its last '}'.
LEMMA CutShort ==
  ASSUME NEW S, NEW t \in Seq(LexemesOf(S)), EndsText(t), NEW cut \in Cuts(t)
  PROVE  \A j \in 1 .. Len(cut) : ~ClosesAt(cut, j)
<1>1. PICK i \in DOMAIN t : \E head \in Prefixes(t[i].str) : cut = CutAt(t, i, head)
  BY DEF Cuts
<1>2. PICK head \in Prefixes(t[i].str) : cut = CutAt(t, i, head)
  BY <1>1
<1>3. DOMAIN t = 1 .. Len(t) /\ Len(t) \in Nat /\ i \in 1 .. Len(t)
  BY LenProperties
<1> DEFINE a == SubSeq(t, 1, i - 1)
           b == <<[type |-> "quote", str |-> <<>>]>>
           c == IF head = <<>> THEN <<>> ELSE <<Other(head)>>
           Bare(l) == l.type # "}"
           U == LexemesOf(S) \cup {b[1], Other(head)}
           V == {l \in U : Bare(l)}
<1>4. cut = a \o b \o c
  BY <1>2 DEF CutAt
<1>5. a \in Seq(V)
  <2>1. \A j \in 1 .. (i - 1) : j \in 1 .. Len(t) /\ j \in 1 .. (Len(t) - 1)
    BY <1>3
  <2>2. \A j \in 1 .. (i - 1) : Bare(t[j])
    BY <2>1, Zenon DEF EndsText, NoneBefore
  <2>3. \A j \in 1 .. (i - 1) : t[j] \in LexemesOf(S)
    BY <2>1, ElementOfSeq
  <2>4. 1 \in Int /\ i - 1 \in Int
    BY <1>3
  <2> HIDE DEF Bare
  <2>5. \A j \in 1 .. (i - 1) : t[j] \in V
    BY <2>2, <2>3
  <2> HIDE DEF V
  <2> QED
    BY <2>4, <2>5, SubSeqProperties
<1>6. b[1] \in V
  <2>1. b[1].type = "quote"
    OBVIOUS
  <2> HIDE DEF b
  <2>2. Bare(b[1])
    BY <2>1, Zenon
  <2> HIDE DEF Bare
  <2> QED
    BY <2>2
<1>7. Other(head) \in V
  <2>1. Other(head).type = "?"
    BY DEF Other
  <2>2. Bare(Other(head))
    BY <2>1, Zenon
  <2> HIDE DEF Bare
  <2> QED
    BY <2>2
<1>8. b \in Seq(V) /\ c \in Seq(V)
  <2>1. b = <<b[1]>>
    OBVIOUS
  <2> HIDE DEF b, V
  <2> QED
    <3>1. \A l \in V : <<l>> \in Seq(V)
      OBVIOUS
    <3>2. <<>> \in Seq(V)
      OBVIOUS
    <3>3. c \in Seq(V)
      BY <1>7, <3>1, <3>2
    <3>4. <<b[1]>> \in Seq(V)
      BY <1>6, <3>1
    <3> QED
      BY <2>1, <3>3, <3>4
<1> HIDE DEF a, b, c, V
<1>9. cut \in Seq(V)
  <2>1. a \o b \in Seq(V)
    BY <1>5, <1>8, ConcatProperties
  <2> QED
    BY <1>4, <1>8, <2>1, ConcatProperties
<1> QED
  <2> SUFFICES ASSUME NEW j \in 1 .. Len(cut) PROVE ~ClosesAt(cut, j)
    OBVIOUS
  <2>1. cut[j] \in V
    BY <1>9, ElementOfSeq
  <2>2. j \in DOMAIN cut
    BY <1>9, LenProperties
  <2>3. Bare(cut[j])
    <3> HIDE DEF Bare
    <3> QED
      BY <2>1 DEF V
  <2> QED
    BY <2>2, <2>3, Zenon DEF ClosesAt, TypeAt

----------------------------------------------------------------------------
\* A message of the program is read as it was sent, or something excuses that.
Excused ==
    \/ is_enc["sender"] # is_enc["receiver"]
    \/ /\ is_enc["receiver"]
       /\ \/ \E i \in DOMAIN Bytes(sent) : Bytes(sent)[i] = 170
          \/ room["receiver"] < (Len(wire) * 3) \div 4

\* The text sent, and what the buffer held behind it.
AsSent == \E old \in Leftovers \cup {<<>>} : text = sent \o old

\* What the parser refuses at its first byte, or at its end at the latest.
Unreadable ==
    \/ Len(text) >= 1 /\ TypeAt(text, 1) = "?" /\ step \in {"brace", "refused"}
    \/ step # "taken" /\ \A j \in 1 .. Len(text) : ~ClosesAt(text, j)

Arrival ==
    sent \in Texts =>
        /\ step = "sent" => IsSent(sent, wire, "sender")
        /\ step \in LogPos \cup {"taken", "refused"} => AsSent \/ (Excused /\ Unreadable)

\* A text of the program.
LEMMA ProgramText ==
  ASSUME NEW t \in Texts
  PROVE  /\ t \in Seq(Lexeme) /\ t \in Seq(LexemesOf(Byte \ {0})) /\ EndsText(t) /\ Opens(t)
         /\ Bytes(t) \in Seq(Byte \ {0}) /\ Bytes(t) \in Seq(Byte) /\ OpensBytes(Bytes(t))
<1>1. t \in Seq(Lexeme) /\ EndsText(t)
  BY TextsAreLexemes, TextsAreObjects DEF EndsText
<1>2. Lexeme = LexemesOf(Byte \ {0})
  BY DEF Lexeme, LexemesOf
<1>3. Opens(t)
  BY <1>1, WholeObject
<1>4. Marks \subseteq Byte \ {0} /\ Byte \ {0} \subseteq Byte
  BY SMT DEF Marks, Byte
<1> DEFINE S == Byte \ {0}
<1> HIDE DEF S
<1>5. Bytes(t) \in Seq(S) /\ OpensBytes(Bytes(t))
  BY <1>1, <1>2, <1>3, <1>4, BytesIn DEF S
<1>6. Bytes(t) \in Seq(Byte)
  BY <1>4, <1>5, SeqMonotonic DEF S
<1> QED
  BY <1>1, <1>2, <1>3, <1>5, <1>6 DEF S

\* What the parser meets of it.
LEMMA LexedOne ==
  ASSUME NEW bytes
  PROVE  Lexed(bytes) = sent \/ Lexed(bytes) \in Cuts(sent) \/ Lexed(bytes) = <<Other(bytes)>>
<1> DEFINE cuts == {t \in Cuts(sent) : Bytes(t) = bytes}
           cut == CHOOSE t \in cuts : TRUE
<1>1. /\ bytes = Bytes(sent) => Lexed(bytes) = sent
      /\ bytes # Bytes(sent) /\ cuts # {} => Lexed(bytes) = cut
      /\ bytes # Bytes(sent) /\ cuts = {} => Lexed(bytes) = <<Other(bytes)>>
  BY DEF Lexed
<1>2. cuts # {} => cut \in cuts
  <2> HIDE DEF cuts
  <2> QED
    OBVIOUS
<1>3. cuts \subseteq Cuts(sent)
  OBVIOUS
<1> HIDE DEF cuts, cut
<1> QED
  BY <1>1, <1>2, <1>3

\* A lexeme that is none of JSON closes nothing.
LEMMA OtherOnly ==
  ASSUME NEW bytes, NEW t, t = <<Other(bytes)>>
  PROVE  /\ \A j \in 1 .. Len(t) : ~ClosesAt(t, j)
         /\ \A M : \A old \in Seq(M) : Len(t \o old) >= 1 /\ TypeAt(t \o old, 1) = "?"
<1>1. t \in Seq({Other(bytes)}) /\ Len(t) = 1 /\ t[1] = Other(bytes) /\ DOMAIN t = {1}
  OBVIOUS
<1>2. Other(bytes).type = "?"
  BY DEF Other
<1>3. \A j \in 1 .. Len(t) : j \in DOMAIN t /\ t[j] = Other(bytes)
  <2> HIDE DEF Other
  <2> QED
    BY <1>1
<1>4. ASSUME NEW j \in 1 .. Len(t) PROVE ~ClosesAt(t, j)
  BY <1>2, <1>3, Zenon DEF ClosesAt, TypeAt
<1>5. ASSUME NEW M, NEW old \in Seq(M) PROVE Len(t \o old) >= 1 /\ TypeAt(t \o old, 1) = "?"
  <2> DEFINE U == {Other(bytes)} \cup M
             w == t \o old
  <2>1. t \in Seq(U) /\ old \in Seq(U)
    <3>1. {Other(bytes)} \subseteq U /\ M \subseteq U
      OBVIOUS
    <3> HIDE DEF U
    <3> QED
      BY <1>1, <3>1, SeqMonotonic
  <2> HIDE DEF U
  <2>2. /\ w \in Seq(U) /\ Len(w) = Len(t) + Len(old) /\ Len(old) \in Nat
        /\ \A i \in 1 .. Len(t) + Len(old) : w[i] = IF i <= Len(t) THEN t[i] ELSE old[i - Len(t)]
    BY <2>1, ConcatProperties, LenProperties
  <2> HIDE DEF w
  <2>3. Len(w) >= 1 /\ 1 \in 1 .. Len(w) /\ w[1] = t[1]
    BY <1>1, <2>2
  <2>4. 1 \in DOMAIN w
    BY <2>2, <2>3, LenProperties
  <2>5. TypeAt(w, 1) = "?"
    BY <1>1, <1>2, <2>3, <2>4, Zenon DEF TypeAt
  <2> QED
    BY <2>3, <2>5 DEF w
<1> QED
  BY <1>4, <1>5

\* What a sender that runs with -e puts on the wire begins with no brace, and is read
\* as it was sent by a receiver that runs with -e when nothing excuses it.
LEMMA EncryptedIsRead ==
  ASSUME MessageInv, sent \in Texts, NEW bytes, IsSent(sent, bytes, "sender"), is_enc["sender"]
  PROVE  /\ ~(bytes \in Seq(Byte) /\ OpensBytes(bytes))
         /\ (\A i \in DOMAIN Bytes(sent) : Bytes(sent)[i] # 170) =>
              \/ room["receiver"] < (Len(bytes) * 3) \div 4
              \/ Decrypt(bytes, room["receiver"]) = Done(Bytes(sent))
<1> DEFINE s == Bytes(sent)
<1>1. s \in Seq(Byte \ {0}) /\ s \in Seq(Byte) /\ OpensBytes(s)
  BY ProgramText
<1>2. PICK end \in {<<>>, << 0 >>} :
        /\ Encrypt(s \o end, room["sender"]).ok
        /\ bytes = Encrypt(s \o end, room["sender"]).str
  BY DEF IsSent
<1> DEFINE data == s \o end
<1>3. data \in Seq(Byte) /\ data # <<>>
  <2>1. end \in Seq(Byte)
    <3>1. 0 \in Byte
      BY SMT DEF Byte
    <3>2. <<>> \in Seq(Byte) /\ << 0 >> \in Seq(Byte)
      BY <3>1
    <3> QED
      BY <3>2
  <2>2. data \in Seq(Byte) /\ Len(data) = Len(s) + Len(end) /\ Len(s) \in Nat /\ Len(end) \in Nat
    BY <1>1, <2>1, ConcatProperties, LenProperties
  <2>3. Len(s) # 0
    BY <1>1, EmptySeq DEF OpensBytes
  <2> HIDE DEF data, s
  <2>4. Len(data) # 0
    BY <2>2, <2>3
  <2> QED
    BY <2>2, <2>4, EmptySeq
<1>4. ~(bytes \in Seq(Byte) /\ OpensBytes(bytes))
  <2> SUFFICES ASSUME bytes \in Seq(Byte), OpensBytes(bytes) PROVE FALSE
    OBVIOUS
  <2> HIDE DEF data
  <2>1. bytes # <<>> /\ bytes[1] = 123
    BY DEF OpensBytes
  <2>2. \A d \in Seq(Byte) : \A size : Encrypt(d, size).str # bytes
    BY <2>1, ModesApart
  <2> QED
    BY <1>2, <1>3, <2>2 DEF data
<1>5. ASSUME \A i \in DOMAIN s : s[i] # 170, ~(room["receiver"] < (Len(bytes) * 3) \div 4)
      PROVE  Decrypt(bytes, room["receiver"]) = Done(s)
  <2> DEFINE m == (Len(bytes) * 3) \div 4
             space == room["receiver"]
  <2>1. \A i \in 1 .. Len(s) : s[i] # 170
    BY <1>1, <1>5, LenProperties
  <2>2. space \in Nat /\ room["sender"] \in Nat
    BY DEF MessageInv, Ends
  <2>3. m \in Nat
    <3>1. Len(bytes) \in Nat
      <4> HIDE DEF data
      <4>1. bytes \in Seq(Byte \ {0})
        BY <1>2, <1>3, <2>2, EncryptedText DEF data
      <4> QED
        BY <4>1, LenProperties
    <3> QED
      BY <3>1, SMT
  <2>4. space >= m
    <3> HIDE DEF space, m
    <3>1. ~(space < m)
      BY <1>5 DEF space, m
    <3> QED
      BY <2>2, <2>3, <3>1 DEF space
  <2> HIDE DEF s, data, space, m
  <2>5. space >= (Len(Encrypt(s \o end, room["sender"]).str) * 3) \div 4
    BY <1>2, <2>4 DEF m
  <2> QED
    BY <1>1, <1>2, <1>3, <2>1, <2>2, <2>5, RoundTrip, ZenonT(60) DEF data, space
<1>6. (\A i \in DOMAIN s : s[i] # 170) =>
        \/ room["receiver"] < (Len(bytes) * 3) \div 4
        \/ Decrypt(bytes, room["receiver"]) = Done(s)
  BY <1>5
<1> HIDE DEF data
<1> QED
  BY <1>4, <1>6

\* The receiver reads nothing, or the text sent, or what it can only refuse.
LEMMA ReceiveArrives ==
  ASSUME MessageInv, Arrival, Receive \/ Decode
  PROVE  Arrival'
<1> SUFFICES ASSUME sent \in Texts PROVE Arrival'
  <2>1. sent' = sent
    BY DEF Receive, Decode
  <2> QED
    BY <2>1 DEF Arrival
<1>1. /\ sent' = sent /\ is_enc' = is_enc /\ room' = room /\ wire' = wire
      /\ step = "sent" /\ text = <<>>
      /\ step' \in {"brace", "refused"}
  BY DEF Receive, Decode, MessageInv
<1>2. /\ IsSent(sent, wire, "sender") /\ is_enc["sender"] \in BOOLEAN /\ is_enc["receiver"] \in BOOLEAN
  BY <1>1 DEF Arrival, MessageInv, Ends
<1>3. /\ sent \in Seq(Lexeme) /\ EndsText(sent) /\ Opens(sent) /\ sent \in Seq(LexemesOf(Byte \ {0}))
      /\ Bytes(sent) \in Seq(Byte) /\ OpensBytes(Bytes(sent))
  BY ProgramText
<1>4. ~is_enc["sender"] => wire = Bytes(sent)
  BY <1>2 DEF IsSent
<1>5. is_enc["sender"] => Lexed(wire) = <<Other(wire)>>
  <2> SUFFICES ASSUME is_enc["sender"] PROVE Lexed(wire) = <<Other(wire)>>
    OBVIOUS
  <2>1. ~(wire \in Seq(Byte) /\ OpensBytes(wire))
    BY <1>2, EncryptedIsRead
  <2> QED
    BY <1>3, <2>1, LexedIs
<1>6. \A bytes : bytes = Bytes(sent) => Lexed(bytes) = sent
  BY <1>3, LexedIs
<1>7. step' # "sent" /\ step' # "taken"
  BY <1>1
<1>8. Excused' <=> Excused
  BY <1>1 DEF Excused
<1>9. AsSent' \/ (Excused /\ Unreadable')
  <2>1. CASE Receive
    <3>1. PICK old \in Leftovers : text' = Lexed(wire) \o old
      BY <2>1 DEF Receive
    <3>2. CASE ~is_enc["sender"]
      <4>1. text' = sent \o old
        BY <1>4, <1>6, <3>1, <3>2
      <4>2. AsSent'
        BY <1>1, <4>1 DEF AsSent
      <4> QED
        BY <4>2
    <3>3. CASE is_enc["sender"]
      <4>1. Excused
        BY <2>1, <3>3 DEF Excused, Receive
      <4>2. old \in Seq(Lexeme)
        BY TextsAreLexemes
      <4>3. Len(text') >= 1 /\ TypeAt(text', 1) = "?"
        BY <1>5, <3>1, <3>3, <4>2, OtherOnly
      <4>4. Unreadable'
        BY <1>1, <4>3 DEF Unreadable
      <4> QED
        BY <4>1, <4>4
    <3> QED
      BY <1>2, <3>2, <3>3
  <2>2. CASE Decode
    <3> DEFINE data == Decrypt(wire, room["receiver"])
    <3>1. /\ is_enc["receiver"]
          /\ IF data.ok THEN text' = Lexed(data.str) /\ step' = "brace"
                        ELSE step' = "refused" /\ UNCHANGED text
      BY <2>2 DEF Decode
    <3>2. ASSUME Excused, ~data.ok PROVE Unreadable'
      <4>1. text' = <<>>
        BY <1>1, <3>1, <3>2
      <4>2. Len(<<>>) = 0 /\ 1 .. 0 = {}
        OBVIOUS
      <4>3. \A j \in 1 .. Len(text') : ~ClosesAt(text', j)
        BY <4>1, <4>2
      <4> QED
        BY <1>7, <4>3 DEF Unreadable
    <3>3. CASE ~is_enc["sender"]
      <4>1. Excused
        BY <1>2, <3>1, <3>3 DEF Excused
      <4>2. room["receiver"] \in Nat
        BY DEF MessageInv, Ends
      <4>3. ~data.ok
        BY <1>3, <1>4, <3>3, <4>2, ModesApart DEF OpensBytes
      <4> QED
        BY <3>2, <4>1, <4>3
    <3>4. CASE is_enc["sender"] /\ ~Excused
      <4>1. data = Done(Bytes(sent))
        <5>1. /\ \A i \in DOMAIN Bytes(sent) : Bytes(sent)[i] # 170
              /\ ~(room["receiver"] < (Len(wire) * 3) \div 4)
          BY <3>1, <3>4 DEF Excused
        <5> QED
          BY <1>2, <3>4, <5>1, EncryptedIsRead
      <4>2. data.ok /\ data.str = Bytes(sent)
        BY <4>1 DEF Done
      <4>3. text' = sent
        BY <1>6, <3>1, <4>2
      <4>4. text' = sent \o <<>>
        BY <1>3, <4>3, ConcatEmptySeq
      <4>5. AsSent'
        BY <1>1, <4>4 DEF AsSent
      <4> QED
        BY <4>5
    <3>5. CASE is_enc["sender"] /\ Excused
      <4>1. CASE ~data.ok
        BY <3>2, <3>5, <4>1
      <4>2. CASE data.ok
        <5> DEFINE x == Lexed(data.str)
        <5>1. text' = x
          BY <3>1, <4>2
        <5>2. x = sent \/ x \in Cuts(sent) \/ x = <<Other(data.str)>>
          BY LexedOne
        <5>3. CASE x = sent
          <6>1. text' = sent \o <<>>
            BY <1>3, <5>1, <5>3, ConcatEmptySeq
          <6>2. AsSent'
            BY <1>1, <6>1 DEF AsSent
          <6> QED
            BY <6>2
        <5>4. CASE x \in Cuts(sent) \/ x = <<Other(data.str)>>
          <6>1. \A j \in 1 .. Len(x) : ~ClosesAt(x, j)
            BY <1>3, <5>4, CutShort, OtherOnly
          <6> HIDE DEF x
          <6>2. Unreadable'
            BY <1>7, <5>1, <6>1 DEF Unreadable
          <6> QED
            BY <3>5, <6>2
        <5> QED
          BY <5>2, <5>3, <5>4
      <4> QED
        BY <4>1, <4>2
    <3> QED
      BY <1>2, <3>3, <3>4, <3>5
  <2> QED
    BY <2>1, <2>2
<1> QED
  BY <1>7, <1>8, <1>9 DEF Arrival

\* The parser takes none of what it can only refuse.
LEMMA ParserArrives ==
  ASSUME MessageInv, WalkInv, Arrival, Advance \/ Finish \/ Refuse
  PROVE  Arrival'
<1>1. /\ sent' = sent /\ is_enc' = is_enc /\ room' = room /\ wire' = wire /\ text' = text
      /\ step \in LogPos
      /\ step' \in LogPos \/ (Finish /\ step' = "taken") \/ step' = "refused"
  <2>1. ASSUME Advance PROVE step' \in LogPos
    <3>1. step = "brace" => After(step) = "first"
      BY Zenon DEF After
    <3>2. "first" \in LogPos
      BY Zenon DEF LogPos
    <3>3. step \in LogPos /\ step # "brace" => After(step) \in LogPos
      BY WantedTypes DEF LogPos, InPair
    <3> QED
      BY <2>1, <3>1, <3>2, <3>3 DEF Advance
  <2> QED
    BY <2>1 DEF Advance, Finish, Refuse
<1>2. step' # "sent" /\ step # "sent" /\ step # "taken"
  BY <1>1 DEF LogPos
<1>3. CASE sent \notin Texts \/ AsSent
  BY <1>1, <1>2, <1>3 DEF Arrival, AsSent
<1>4. CASE sent \in Texts /\ ~AsSent
  <2>1. Excused /\ Unreadable
    BY <1>1, <1>4 DEF Arrival
  <2>2. Excused'
    BY <1>1, <2>1 DEF Excused
  <2>3. PICK L : text \in Seq(L)
    BY DEF MessageInv
  <2>4. pos \in 1 .. (Len(text) + 1) /\ Len(text) \in Nat
    BY <2>3, LenProperties DEF MessageInv, TypeOK
  <2>5. CASE Len(text) >= 1 /\ TypeAt(text, 1) = "?" /\ step \in {"brace", "refused"}
    <3>1. step = "brace" /\ pos = 1
      BY <1>1, <2>5 DEF LogPos, WalkInv
    <3>2. 1 \in 1 .. Len(text)
      BY <2>4, <2>5
    <3>3. Token.err
      BY <2>3, <2>5, <3>1, <3>2, OneLexeme DEF Token
    <3>4. step' = "refused"
      BY <3>3 DEF Advance, Finish, Refuse, Good
    <3>5. Unreadable'
      BY <1>1, <2>5, <3>4 DEF Unreadable
    <3> QED
      BY <1>2, <2>2, <3>5 DEF Arrival
  <2>6. CASE \A j \in 1 .. Len(text) : ~ClosesAt(text, j)
    <3>1. ~Finish
      <4> SUFFICES ASSUME Finish PROVE FALSE
        OBVIOUS
      <4>1. ~Token.err /\ Token.type \in Wanted(step) /\ Token.type = "}"
        BY DEF Finish, Good
      <4>2. step \in InPair
        <5>1. step # "brace"
          BY <4>1, Zenon DEF Wanted
        <5> QED
          BY <1>1, <5>1 DEF LogPos, InPair
      <4>3. type \in Before(step)
        BY <4>2 DEF WalkInv, OnTheWay
      <4>4. type \notin Wanted(step)
        BY <4>2, <4>3, WantedTypes
      <4>5. type = "}"
        <5>1. Token = GetToken(text, junk, pos, type)
          BY DEF Token
        <5>2. Closing(Token)
          BY <4>1, Zenon DEF Closing
        <5> DEFINE k == Token
        <5>3. k = GetToken(text, junk, pos, type) /\ ~k.err /\ Closing(k)
          BY <4>1, <5>1, <5>2
        <5> HIDE DEF k
        <5> QED
          BY <2>3, <2>4, <2>6, <5>3, NoBraceRead
      <4> QED
        BY <4>1, <4>4, <4>5
    <3>2. Unreadable'
      BY <1>1, <1>2, <2>6, <3>1 DEF Unreadable, LogPos
    <3> QED
      BY <1>2, <2>2, <3>2 DEF Arrival
  <2> QED
    BY <1>2, <2>1, <2>5, <2>6 DEF Unreadable
<1> QED
  BY <1>3, <1>4

\* Every step of a search, and of a message that is none, keeps this.
LEMMA ArrivalStep ==
  ASSUME SearchInv, SearchInv', WalkInv, Arrival, [SearchNext]_allvars
  PROVE  Arrival'
<1>1. MessageInv
  BY DEF SearchInv
<1>2. CASE Send
  <2>1. /\ step' \in {"sent", "unsent"} /\ sent' = sent /\ is_enc' = is_enc /\ room' = room
        /\ step' = "sent" => IsSent(sent, wire', "sender")
    BY <1>1, <1>2, SendIs DEF MessageInv, Send
  <2>2. step' = "sent" => IsSent(sent, wire, "sender")'
    BY <2>1 DEF IsSent
  <2> QED
    BY <2>1, <2>2 DEF Arrival, LogPos
<1>3. CASE Receive \/ Decode
  BY <1>1, <1>3, ReceiveArrives
<1>4. CASE Advance \/ Finish \/ Refuse
  BY <1>1, <1>4, ParserArrives
<1>5. CASE UNCHANGED vars
  BY <1>5 DEF Arrival, AsSent, Excused, Unreadable, IsSent, vars
<1>6. ASSUME AskAgain PROVE Arrival'
  <2>1. phase' = "asks" /\ step' = "sent"
    BY <1>6 DEF AskAgain
  <2>2. Asking'
    BY <2>1 DEF SearchInv
  <2>3. sent' = WHO_S /\ wire' = question' /\ IsSent(WHO_S, question, "sender")'
    BY <2>1, <2>2 DEF Asking
  <2>4. IsSent(sent, wire, "sender")'
    BY <2>3 DEF IsSent, WHO_S
  <2> QED
    BY <2>1, <2>4 DEF Arrival, LogPos
<1>7. ASSUME step' = "built" PROVE Arrival'
  BY <1>7 DEF Arrival, LogPos
<1>8. OnItsWay => Send \/ (Receive \/ Decode) \/ (Advance \/ Finish \/ Refuse)
  BY DEF OnItsWay
<1>9. Timeout => AskAgain \/ UNCHANGED vars
  BY DEF Timeout, GiveUp
<1>10. Lose \/ NotUnderstood \/ NotTheServer => AskAgain \/ UNCHANGED vars
  BY <1>9 DEF Lose, NotUnderstood, NotTheServer
<1>11. Answer => step' = "built"
  BY DEF Answer
<1>12. Found \/ CallFails => UNCHANGED vars
  BY DEF Found, CallFails, GiveUp
<1>13. UNCHANGED allvars => UNCHANGED vars
  BY DEF allvars
<1> QED
  BY <1>2, <1>3, <1>4, <1>5, <1>6, <1>7, <1>8, <1>10, <1>11, <1>12, <1>13 DEF SearchNext

\* What the parser made of a message is what the message was.
LEMMA ArrivedAsSent ==
  ASSUME SearchInv, WalkInv, Arrival
  PROVE  ArrivesAsSent
<1>1. ASSUME sent \in Texts, NEW old \in Leftovers \cup {<<>>}, text = sent \o old
      PROVE  /\ StartsWithObject(text)
             /\ \A key \in Keys : GetVal(text, key, junk) = FirstPair(sent, key)
  <2>1. sent \in Seq(Lexeme) /\ EndsText(sent)
    BY <1>1, ProgramText
  <2>2. old \in Seq(Lexeme)
    <3>1. <<>> \in Seq(Lexeme)
      OBVIOUS
    <3> QED
      BY <3>1, TextsAreLexemes
  <2>3. text \in Seq(Lexeme \cup Lexeme) /\ SameUpTo(sent, text)
    BY <1>1, <2>1, <2>2, GoesOn
  <2>4. StartsWithObject(text)
    BY <1>1, <2>1, <2>2, ObjectGoesOn
  <2>5. ASSUME NEW key \in Keys PROVE GetVal(text, key, junk) = FirstPair(sent, key)
    <3>1. Distinct(sent, key)
      BY <1>1, TextsAreObjects
    <3>2. Distinct(text, key) /\ FirstPair(text, key) = FirstPair(sent, key)
      BY <2>1, <2>3, <3>1, SamePair
    <3>3. key \in Seq(Byte \ {0}) /\ junk \in TokenTypes
      BY KeysAreStrings DEF SearchInv, MessageInv
    <3>4. GetVal(text, key, junk) = FirstPair(text, key)
      BY <2>3, <2>4, <3>2, <3>3, GetValIs
    <3> QED
      BY <3>2, <3>4
  <2> QED
    BY <2>4, <2>5
<1>2. TakenAsSent
  <2> SUFFICES ASSUME step = "taken", sent \in Texts
               PROVE  \A key \in Keys : GetVal(text, key, junk) = FirstPair(sent, key)
    BY DEF TakenAsSent
  <2>1. AsSent \/ Unreadable
    BY DEF Arrival
  <2>2. ~Unreadable
    BY DEF Unreadable
  <2> QED
    BY <1>1, <2>1, <2>2 DEF AsSent
<1>3. RefusedForAReason
  <2> SUFFICES ASSUME step = "refused", sent \in Texts PROVE Excused
    BY DEF RefusedForAReason, Excused
  <2>1. AsSent \/ Excused
    BY DEF Arrival
  <2>2. ~AsSent
    <3>1. ~StartsWithObject(text)
      BY DEF WalkInv, AcceptsExactly
    <3> QED
      BY <1>1, <3>1 DEF AsSent
  <2> QED
    BY <2>1, <2>2
<1> QED
  BY <1>2, <1>3 DEF ArrivesAsSent

\* Whatever the program sends with whatever keys, whatever the receive buffer holds
\* behind it (tcp.c 263, packet.c 213): what the receiver takes is read as it was
\* sent, and only ends in different modes, a byte equal to the key of the encryption
\* or a room too short for it (encrypt.c 157, 248) keep it from being taken.
THEOREM MessagesArrive == SearchSpec => []ArrivesAsSent
<1>1. SearchInit => WalkInv /\ Arrival
  <2>1. SearchInit => step = "built"
    BY DEF SearchInit, Init
  <2> QED
    BY <2>1, NotBegun DEF Arrival, LogPos
<1>2. SearchInv /\ SearchInv' /\ WalkInv /\ Arrival /\ [SearchNext]_allvars => WalkInv' /\ Arrival'
  BY WalkStep, ArrivalStep
<1>3. SearchInv /\ WalkInv /\ Arrival => ArrivesAsSent
  BY ArrivedAsSent
<1> QED
  BY <1>1, <1>2, <1>3, AlwaysSearchInv, PTL DEF SearchSpec
=============================================================================
