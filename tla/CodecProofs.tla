---------------------------- MODULE CodecProofs ----------------------------
(***************************************************************************)
(* Theorems about Codec for data of every length: Base64Decode undoes      *)
(* Base64, Decrypt undoes Encrypt for what a C string can hold, both stay  *)
(* in their rooms, and neither takes a JSON text for an encrypted one.     *)
(***************************************************************************)
EXTENDS Codec, SequenceTheorems, TLAPS

----------------------------------------------------------------------------
\* Numbers.

\* XOR with the key twice is the identity; the key is what XOR takes to 0.
LEMMA XORByteTwice ==
  ASSUME NEW b \in Byte
  PROVE  /\ XORByte(b) \in Byte
         /\ XORByte(XORByte(b)) = b
         /\ XORByte(b) = 0 <=> b = 170
  BY SMTT(60) DEF Byte, XORByte, Flip

\* The symbols of Base64 are bytes apart from '\0', '=' and the braces, and each
\* is read back as its number.
LEMMA SymbolRead ==
  ASSUME NEW g \in 0 .. 63
  PROVE  /\ Base64Sym(g) \in 1 .. 122 /\ Base64Sym(g) # EQ
         /\ Base64Num(Base64Sym(g)) = g
  BY DEF Base64Sym, Base64Num, EQ

\* A number is made of its groups of six bits, highest first.
LEMMA SixBits ==
  ASSUME NEW x \in Nat
  PROVE  /\ x = (x \div 64) * 64 + (x % 64) /\ x \div 64 \in Nat /\ x % 64 \in 0 .. 63
         /\ (x \div 64) \div 64 = x \div 4096
         /\ (x \div 4096) \div 64 = x \div 262144
  BY SMT

\* Four groups of six bits make the three bytes they were cut from.
LEMMA ThreeBytes ==
  ASSUME NEW a \in Byte, NEW b \in Byte, NEW c \in Byte,
         NEW x, x = (a * 256 + b) * 256 + c
  PROVE  /\ x \in Nat
         /\ ((((x \div 262144) % 64) * 64 + ((x \div 4096) % 64)) * 64 + ((x \div 64) % 64)) * 64 + (x % 64) = x
         /\ (x \div 65536) % 256 = a /\ (x \div 256) % 256 = b /\ x % 256 = c
<1>1. x \in Nat /\ x < 16777216
  BY SMT DEF Byte
<1>2. x \div 64 \in Nat /\ x \div 4096 \in Nat /\ x \div 262144 \in 0 .. 63
  BY <1>1, SMT
<1>3. (x \div 262144) % 64 = x \div 262144
  BY <1>2, SMT
<1>4. /\ x = (x \div 64) * 64 + (x % 64)
      /\ x \div 64 = (x \div 4096) * 64 + ((x \div 64) % 64)
      /\ x \div 4096 = (x \div 262144) * 64 + ((x \div 4096) % 64)
  <2>1. x = (x \div 64) * 64 + (x % 64)
    BY <1>1, SMT
  <2>2. x \div 64 = ((x \div 64) \div 64) * 64 + ((x \div 64) % 64)
    BY <1>2, SMT
  <2>3. x \div 4096 = ((x \div 4096) \div 64) * 64 + ((x \div 4096) % 64)
    BY <1>2, SMT
  <2>4. (x \div 64) \div 64 = x \div 4096 /\ (x \div 4096) \div 64 = x \div 262144
    BY <1>1, SixBits, SMT
  <2> QED
    BY <2>1, <2>2, <2>3, <2>4, SMT
<1>5. x % 256 = c
  BY SMT DEF Byte
<1>6. x \div 256 = a * 256 + b
  BY SMT DEF Byte
<1>7. (x \div 256) % 256 = b
  BY <1>6, SMT DEF Byte
<1>8. x \div 65536 = a
  BY SMT DEF Byte
<1>9. (x \div 65536) % 256 = a
  BY <1>8, SMT DEF Byte
<1> QED
  BY <1>1, <1>3, <1>4, <1>5, <1>7, <1>9, SMT

\* The same for two bytes moved up to three groups, and for one to two groups.
LEMMA TwoBytes ==
  ASSUME NEW a \in Byte, NEW b \in Byte, NEW x, x = (a * 256 + b) * 4
  PROVE  /\ x \in Nat
         /\ (((x \div 4096) % 64) * 64 + ((x \div 64) % 64)) * 64 + (x % 64) = x
         /\ ((x \div 4) \div 256) % 256 = a /\ (x \div 4) % 256 = b
<1>1. x \in Nat /\ x < 262144
  BY SMT DEF Byte
<1>2. x \div 64 \in Nat /\ x \div 4096 \in 0 .. 63
  BY <1>1, SMT
<1>3. (x \div 4096) % 64 = x \div 4096
  BY <1>2, SMT
<1>4. x = (x \div 64) * 64 + (x % 64)
  BY <1>1, SMT
<1>5. x \div 64 = ((x \div 64) \div 64) * 64 + ((x \div 64) % 64)
  BY <1>2, SMT
<1>6. (x \div 64) \div 64 = x \div 4096
  BY <1>1, SixBits, SMT
<1>7. x \div 4 = a * 256 + b
  BY SMT DEF Byte
<1>8. (x \div 4) \div 256 = a
  BY <1>7, SMT DEF Byte
<1>9. ((x \div 4) \div 256) % 256 = a /\ (x \div 4) % 256 = b
  BY <1>7, <1>8, SMT DEF Byte
<1> QED
  BY <1>1, <1>3, <1>4, <1>5, <1>6, <1>9, SMT

\* The byte of a pack of one, whose four lowest bits are none of the data.
LEMMA OneByte ==
  ASSUME NEW a \in Byte, NEW x, x = a * 16
  PROVE  /\ x \in Nat
         /\ ((x \div 64) % 64) * 64 + (x % 64) = x
         /\ (x \div 16) % 256 = a
<1>1. x \in Nat /\ x \div 64 \in 0 .. 63
  BY SMT DEF Byte
<1>2. (x \div 64) % 64 = x \div 64
  BY <1>1, SMT
<1>3. x = (x \div 64) * 64 + (x % 64)
  BY <1>1, SMT
<1>4. x \div 16 = a
  BY SMT DEF Byte
<1> QED
  BY <1>1, <1>2, <1>3, <1>4, SMT DEF Byte

----------------------------------------------------------------------------
\* Blocks.

\* What Base64 writes apart from the '='.
Symbol == {s \in 1 .. 122 : s # EQ /\ Base64Num(s) # -1}

\* The symbols of a block, and their numbers.
LEMMA SymbolsOf ==
  ASSUME NEW x \in Nat, NEW k \in {2, 3, 4}
  PROVE  /\ Symbols(x, k) \in Seq(Symbol) /\ Len(Symbols(x, k)) = k
         /\ \A i \in 1 .. k : Base64Num(Symbols(x, k)[i]) = (x \div Weight(64, k - i)) % 64
<1>1. \A i \in 1 .. k : /\ Weight(64, k - i) \in {1, 64, 4096, 262144}
                        /\ Groups(x, 64, k)[i] = (x \div Weight(64, k - i)) % 64
  BY SMT DEF Groups, Weight
<1>2. \A i \in 1 .. k : Groups(x, 64, k)[i] \in 0 .. 63
  <2>1. \A w \in {1, 64, 4096, 262144} : (x \div w) % 64 \in 0 .. 63
    BY SMT
  <2> QED
    BY <1>1, <2>1, SMT
<1>3. \A i \in 1 .. k : /\ Symbols(x, k)[i] \in Symbol
                        /\ Base64Num(Symbols(x, k)[i]) = Groups(x, 64, k)[i]
  <2> TAKE i \in 1 .. k
  <2> DEFINE g == Groups(x, 64, k)[i]
  <2>1. Symbols(x, k)[i] = Base64Sym(g)
    BY DEF Symbols
  <2>2. g \in 0 .. 63
    BY <1>2
  <2> HIDE DEF g
  <2>3. /\ Base64Sym(g) \in 1 .. 122 /\ Base64Sym(g) # EQ
        /\ Base64Num(Base64Sym(g)) = g /\ g # -1
    BY <2>2, SymbolRead, SMT
  <2> QED
    BY <2>1, <2>3 DEF Symbol, g
<1>4. Symbols(x, k) = [i \in 1 .. k |-> Symbols(x, k)[i]]
  BY DEF Symbols
<1> QED
  BY <1>1, <1>3, <1>4, SMT

\* The weights of the groups.
LEMMA Weights ==
  /\ Weight(64, 0) = 1 /\ Weight(64, 1) = 64 /\ Weight(64, 2) = 4096 /\ Weight(64, 3) = 262144
  /\ Weight(256, 0) = 1 /\ Weight(256, 1) = 256 /\ Weight(256, 2) = 65536
  /\ Weight(4, 0) = 1 /\ Weight(4, 1) = 4 /\ Weight(4, 2) = 16
  BY SMT DEF Weight

\* The symbols of a pack of three bytes are read back as the pack.
LEMMA PackRead ==
  ASSUME NEW s \in Seq(Byte), Len(s) = 3, NEW src,
         \A i \in 1 .. 4 : src[i] = Symbols(Block(s, 256), 4)[i]
  PROVE  /\ Block(s, 256) \in Nat
         /\ Quartet(src, 0) = s
<1> DEFINE x == Block(s, 256)
           nums == [i \in 1 .. 4 |-> Base64Num(src[i])]
<1>1. s[1] \in Byte /\ s[2] \in Byte /\ s[3] \in Byte
  <2>1. 1 \in 1 .. Len(s) /\ 2 \in 1 .. Len(s) /\ 3 \in 1 .. Len(s)
    BY SMT
  <2> QED
    BY <2>1, ElementOfSeq, ZenonT(60)
<1>2. x = (s[1] * 256 + s[2]) * 256 + s[3]
  BY SMT DEF Block
<1> HIDE DEF x
<1>3. /\ x \in Nat
      /\ ((((x \div 262144) % 64) * 64 + ((x \div 4096) % 64)) * 64 + ((x \div 64) % 64)) * 64 + (x % 64) = x
      /\ (x \div 65536) % 256 = s[1] /\ (x \div 256) % 256 = s[2] /\ x % 256 = s[3]
  BY <1>1, <1>2, ThreeBytes, SMT
<1>a. x \in Nat
  BY <1>3, SMT
<1>4. \A i \in 1 .. 4 : Base64Num(src[i]) = (x \div Weight(64, 4 - i)) % 64
  <2>1. 4 \in {2, 3, 4}
    BY SMT
  <2>2. \A i \in 1 .. 4 : Base64Num(Symbols(x, 4)[i]) = (x \div Weight(64, 4 - i)) % 64
    BY <1>a, <2>1, SymbolsOf
  <2>3. \A i \in 1 .. 4 : src[i] = Symbols(x, 4)[i]
    BY SMT DEF x
  <2> QED
    BY <2>2, <2>3, SMT
<1>5. /\ nums[1] = (x \div 262144) % 64 /\ nums[2] = (x \div 4096) % 64
      /\ nums[3] = (x \div 64) % 64 /\ nums[4] = x % 64
  <2>1. /\ nums[1] = (x \div Weight(64, 3)) % 64 /\ nums[2] = (x \div Weight(64, 2)) % 64
        /\ nums[3] = (x \div Weight(64, 1)) % 64 /\ nums[4] = (x \div Weight(64, 0)) % 64
    BY <1>4, SMT
  <2> HIDE DEF nums
  <2>2. x \div 1 = x
    BY <1>3, SMT
  <2> QED
    BY <2>1, <2>2, Weights, SMT
<1>6. Len(nums) = 4
  BY SMT
<1> HIDE DEF nums
<1>7. Block(nums, 64) = x
  BY <1>3, <1>5, <1>6, SMT DEF Block
<1>8. Quartet(src, 0) = Groups(x, 256, 3)
  <2>1. Quartet(src, 0) = Groups(Block(nums, 64) \div Weight(4, 0), 256, 3)
    BY DEF Quartet, nums
  <2> QED
    BY <2>1, <1>3, <1>7, Weights, SMT
<1>9. Groups(x, 256, 3) = [i \in 1 .. 3 |-> s[i]]
  <2>1. /\ (x \div Weight(256, 3 - 1)) % 256 = s[1] /\ (x \div Weight(256, 3 - 2)) % 256 = s[2]
        /\ (x \div Weight(256, 3 - 3)) % 256 = s[3]
    <3>1. x \div 1 = x
      BY <1>3, SMT
    <3>2. Weight(256, 3 - 1) = 65536 /\ Weight(256, 3 - 2) = 256 /\ Weight(256, 3 - 3) = 1
      BY SMT DEF Weight
    <3> QED
      BY <1>3, <3>1, <3>2, SMT
  <2> QED
    BY <2>1, SMT DEF Groups
<1>10. s = [i \in 1 .. 3 |-> s[i]]
  BY SMT
<1> QED
  BY <1>3, <1>8, <1>9, <1>10 DEF x

\* The same for the last two bytes and one '='.
LEMMA TwoRead ==
  ASSUME NEW s \in Seq(Byte), Len(s) = 2, NEW src,
         \A i \in 1 .. 3 : src[i] = Symbols(Block(s, 256) * 4, 3)[i]
  PROVE  /\ Block(s, 256) * 4 \in Nat
         /\ Quartet(src, 1) = s
<1> DEFINE x == Block(s, 256) * 4
           nums == [i \in 1 .. 3 |-> Base64Num(src[i])]
<1>1. s[1] \in Byte /\ s[2] \in Byte
  <2>1. 1 \in 1 .. Len(s) /\ 2 \in 1 .. Len(s)
    BY SMT
  <2> QED
    BY <2>1, ElementOfSeq
<1>2. x = (s[1] * 256 + s[2]) * 4
  BY SMT DEF Block
<1> HIDE DEF x
<1>3. /\ x \in Nat
      /\ (((x \div 4096) % 64) * 64 + ((x \div 64) % 64)) * 64 + (x % 64) = x
      /\ ((x \div 4) \div 256) % 256 = s[1] /\ (x \div 4) % 256 = s[2]
  BY <1>1, <1>2, TwoBytes, SMT
<1>a. x \in Nat
  BY <1>3, SMT
<1>4. \A i \in 1 .. 3 : Base64Num(src[i]) = (x \div Weight(64, 3 - i)) % 64
  <2>1. 3 \in {2, 3, 4}
    BY SMT
  <2>2. \A i \in 1 .. 3 : Base64Num(Symbols(x, 3)[i]) = (x \div Weight(64, 3 - i)) % 64
    BY <1>a, <2>1, SymbolsOf
  <2>3. \A i \in 1 .. 3 : src[i] = Symbols(x, 3)[i]
    BY SMT DEF x
  <2> QED
    BY <2>2, <2>3, SMT
<1>5. nums[1] = (x \div 4096) % 64 /\ nums[2] = (x \div 64) % 64 /\ nums[3] = x % 64
  <2>1. /\ nums[1] = (x \div Weight(64, 2)) % 64 /\ nums[2] = (x \div Weight(64, 1)) % 64
        /\ nums[3] = (x \div Weight(64, 0)) % 64
    BY <1>4, SMT
  <2> HIDE DEF nums
  <2>2. x \div 1 = x
    BY <1>3, SMT
  <2> QED
    BY <2>1, <2>2, Weights, SMT
<1>6. Len(nums) = 3
  BY SMT
<1> HIDE DEF nums
<1>7. Block(nums, 64) = x
  BY <1>3, <1>5, <1>6, SMT DEF Block
<1>8. Quartet(src, 1) = Groups(x \div 4, 256, 2)
  <2>1. 1 .. (4 - 1) = 1 .. 3 /\ 3 - 1 = 2
    BY SMT
  <2>2. Quartet(src, 1) = Groups(Block(nums, 64) \div Weight(4, 1), 256, 2)
    BY <2>1 DEF Quartet, nums
  <2> QED
    BY <2>2, <1>7, Weights, SMT
<1>9. Groups(x \div 4, 256, 2) = [i \in 1 .. 2 |-> s[i]]
  <2>1. /\ ((x \div 4) \div Weight(256, 2 - 1)) % 256 = s[1]
        /\ ((x \div 4) \div Weight(256, 2 - 2)) % 256 = s[2]
    <3>1. x \div 4 \in Nat
      BY <1>3, SMT
    <3> QED
      BY <1>3, <3>1, Weights, SMT
  <2> QED
    BY <2>1, SMT DEF Groups
<1>10. s = [i \in 1 .. 2 |-> s[i]]
  BY SMT
<1> QED
  BY <1>3, <1>8, <1>9, <1>10 DEF x

\* And for the last one and two '='.
LEMMA OneRead ==
  ASSUME NEW s \in Seq(Byte), Len(s) = 1, NEW src,
         \A i \in 1 .. 2 : src[i] = Symbols(Block(s, 256) * 16, 2)[i]
  PROVE  /\ Block(s, 256) * 16 \in Nat
         /\ Quartet(src, 2) = s
<1> DEFINE x == Block(s, 256) * 16
           nums == [i \in 1 .. 2 |-> Base64Num(src[i])]
<1>1. s[1] \in Byte
  <2>1. 1 \in 1 .. Len(s)
    BY SMT
  <2> QED
    BY <2>1, ElementOfSeq
<1>2. x = s[1] * 16
  BY SMT DEF Block
<1> HIDE DEF x
<1>3. /\ x \in Nat
      /\ ((x \div 64) % 64) * 64 + (x % 64) = x
      /\ (x \div 16) % 256 = s[1]
  BY <1>1, <1>2, OneByte, SMT
<1>a. x \in Nat
  BY <1>3, SMT
<1>4. \A i \in 1 .. 2 : Base64Num(src[i]) = (x \div Weight(64, 2 - i)) % 64
  <2>1. 2 \in {2, 3, 4}
    BY SMT
  <2>2. \A i \in 1 .. 2 : Base64Num(Symbols(x, 2)[i]) = (x \div Weight(64, 2 - i)) % 64
    BY <1>a, <2>1, SymbolsOf
  <2>3. \A i \in 1 .. 2 : src[i] = Symbols(x, 2)[i]
    BY SMT DEF x
  <2> QED
    BY <2>2, <2>3, SMT
<1>5. nums[1] = (x \div 64) % 64 /\ nums[2] = x % 64
  <2>1. nums[1] = (x \div Weight(64, 1)) % 64 /\ nums[2] = (x \div Weight(64, 0)) % 64
    BY <1>4, SMT
  <2> HIDE DEF nums
  <2>2. x \div 1 = x
    BY <1>3, SMT
  <2> QED
    BY <2>1, <2>2, Weights, SMT
<1>6. Len(nums) = 2
  BY SMT
<1> HIDE DEF nums
<1>7. Block(nums, 64) = x
  BY <1>3, <1>5, <1>6, SMT DEF Block
<1>8. Quartet(src, 2) = Groups(x \div 16, 256, 1)
  <2>1. 1 .. (4 - 2) = 1 .. 2 /\ 3 - 2 = 1
    BY SMT
  <2>2. Quartet(src, 2) = Groups(Block(nums, 64) \div Weight(4, 2), 256, 1)
    BY <2>1 DEF Quartet, nums
  <2> QED
    BY <2>2, <1>7, Weights, SMT
<1>9. Groups(x \div 16, 256, 1) = [i \in 1 .. 1 |-> s[i]]
  <2>1. ((x \div 16) \div Weight(256, 1 - 1)) % 256 = s[1]
    <3>1. x \div 16 \in Nat
      BY <1>3, SMT
    <3> QED
      BY <1>3, <3>1, Weights, SMT
  <2> QED
    BY <2>1, SMT DEF Groups
<1>10. s = [i \in 1 .. 1 |-> s[i]]
  BY SMT
<1> QED
  BY <1>3, <1>8, <1>9, <1>10 DEF x

----------------------------------------------------------------------------
\* Parts.

\* Parts of k elements each make a sequence, and element h of part i is at
\* place k * (i - 1) + h of it.
LEMMA JoinedParts ==
  ASSUME NEW S, NEW n \in Nat, NEW k \in {3, 4}, NEW parts,
         Len(parts) = n,
         \A i \in 1 .. n : parts[i] \in Seq(S) /\ Len(parts[i]) = k
  PROVE  /\ Joined(parts, k) \in Seq(S)
         /\ Len(Joined(parts, k)) = n * k
         /\ \A i \in 1 .. n, h \in 1 .. k : Joined(parts, k)[k * (i - 1) + h] = parts[i][h]
<1>1. n * k \in Nat
  BY SMT
<1>2. ASSUME NEW j \in 1 .. (n * k)
      PROVE  (j - 1) \div k + 1 \in 1 .. n /\ ((j - 1) % k) + 1 \in 1 .. k
  <2>1. CASE k = 3
    BY <2>1, SMT
  <2>2. CASE k = 4
    BY <2>2, SMT
  <2> QED
    BY <2>1, <2>2
<1>3. \A j \in 1 .. (n * k) : parts[(j - 1) \div k + 1][((j - 1) % k) + 1] \in S
  <2> TAKE j \in 1 .. (n * k)
  <2> DEFINE i == (j - 1) \div k + 1
             h == ((j - 1) % k) + 1
  <2>1. i \in 1 .. n /\ h \in 1 .. k
    BY <1>2
  <2> HIDE DEF i, h
  <2>2. parts[i] \in Seq(S) /\ h \in 1 .. Len(parts[i])
    BY <2>1
  <2>3. parts[i][h] \in S
    BY <2>2, ElementOfSeq
  <2> QED
    BY <2>3 DEF i, h
<1>4. Joined(parts, k) = [j \in 1 .. (n * k) |-> parts[(j - 1) \div k + 1][((j - 1) % k) + 1]]
  BY DEF Joined
<1>5. Joined(parts, k) \in [1 .. (n * k) -> S]
  BY <1>3, <1>4
<1>6. Joined(parts, k) \in Seq(S) /\ Len(Joined(parts, k)) = n * k
  BY <1>1, <1>5, SMT
<1>7. ASSUME NEW i \in 1 .. n, NEW h \in 1 .. k
      PROVE  Joined(parts, k)[k * (i - 1) + h] = parts[i][h]
  <2> DEFINE j == k * (i - 1) + h
  <2>1. j \in 1 .. (n * k) /\ (j - 1) \div k + 1 = i /\ ((j - 1) % k) + 1 = h
    <3>1. CASE k = 3
      <4>1. 3 * (i - 1) + h \in 1 .. (n * 3)
        BY <3>1, SMT
      <4>2. (3 * (i - 1) + h - 1) \div 3 + 1 = i /\ ((3 * (i - 1) + h - 1) % 3) + 1 = h
        BY <3>1, SMT
      <4> QED
        BY <3>1, <4>1, <4>2
    <3>2. CASE k = 4
      <4>1. 4 * (i - 1) + h \in 1 .. (n * 4)
        BY <3>2, SMT
      <4>2. (4 * (i - 1) + h - 1) \div 4 + 1 = i /\ ((4 * (i - 1) + h - 1) % 4) + 1 = h
        BY <3>2, SMT
      <4> QED
        BY <3>2, <4>1, <4>2
    <3> QED
      BY <3>1, <3>2
  <2> HIDE DEF j
  <2>2. Joined(parts, k)[j] = parts[(j - 1) \div k + 1][((j - 1) % k) + 1]
    BY <1>4, <2>1
  <2> QED
    BY <2>1, <2>2 DEF j
<1> QED
  BY <1>6, <1>7

\* Pack i of the data, its three bytes.
PackOf(data, i) == SubSeq(data, 3 * i - 2, 3 * i)

\* A pack has three bytes of the data.
LEMMA PackBytes ==
  ASSUME NEW data \in Seq(Byte), NEW i \in 1 .. (Len(data) \div 3)
  PROVE  /\ PackOf(data, i) \in Seq(Byte) /\ Len(PackOf(data, i)) = 3
         /\ \A h \in 1 .. 3 : PackOf(data, i)[h] = data[3 * (i - 1) + h]
<1>1. Len(data) \in Nat
  BY LenProperties
<1>2. 3 * i - 2 \in Int /\ 3 * i \in Int /\ 3 * i - 2 \in 1 .. Len(data) /\ 3 * i \in 1 .. Len(data)
  BY <1>1, SMT
<1>3. \A j \in 3 * i - 2 .. 3 * i : j \in 1 .. Len(data)
  BY <1>1, <1>2, SMT
<1>4. \A j \in 3 * i - 2 .. 3 * i : data[j] \in Byte
  BY <1>3, ElementOfSeq
<1>5. /\ PackOf(data, i) \in Seq(Byte)
      /\ Len(PackOf(data, i)) = IF 3 * i - 2 <= 3 * i THEN 3 * i - (3 * i - 2) + 1 ELSE 0
      /\ \A h \in 1 .. 3 * i - (3 * i - 2) + 1 : PackOf(data, i)[h] = data[(3 * i - 2) + h - 1]
  <2> DEFINE m == 3 * i - 2
             e == 3 * i
  <2>1. m \in Int /\ e \in Int /\ \A j \in m .. e : data[j] \in Byte
    BY <1>2, <1>4
  <2>2. PackOf(data, i) = SubSeq(data, m, e)
    BY DEF PackOf
  <2> HIDE DEF m, e
  <2>3. /\ SubSeq(data, m, e) \in Seq(Byte)
        /\ Len(SubSeq(data, m, e)) = IF m <= e THEN e - m + 1 ELSE 0
        /\ \A h \in 1 .. e - m + 1 : SubSeq(data, m, e)[h] = data[m + h - 1]
    BY <2>1, SubSeqProperties
  <2> QED
    BY <2>2, <2>3 DEF m, e
<1>6. 3 * i - 2 <= 3 * i /\ 3 * i - (3 * i - 2) + 1 = 3
  BY SMT
<1>7. \A h \in 1 .. 3 : (3 * i - 2) + h - 1 = 3 * (i - 1) + h
  BY SMT
<1> QED
  BY <1>5, <1>6, <1>7

\* The symbols of the packs.
LEMMA PacksOf ==
  ASSUME NEW data \in Seq(Byte)
  PROVE  /\ Packs(data) \in Seq(Symbol)
         /\ Len(Packs(data)) = 4 * (Len(data) \div 3)
         /\ \A i \in 1 .. (Len(data) \div 3), h \in 1 .. 4 :
              Packs(data)[4 * (i - 1) + h] = Symbols(Block(PackOf(data, i), 256), 4)[h]
<1> DEFINE n == Len(data) \div 3
           parts == [i \in 1 .. n |-> Symbols(Block(PackOf(data, i), 256), 4)]
<1>1. n \in Nat
  BY LenProperties, SMT
<1>2. ASSUME NEW i \in 1 .. n
      PROVE  /\ Symbols(Block(PackOf(data, i), 256), 4) \in Seq(Symbol)
             /\ Len(Symbols(Block(PackOf(data, i), 256), 4)) = 4
  <2>1. PackOf(data, i) \in Seq(Byte) /\ Len(PackOf(data, i)) = 3
    BY PackBytes
  <2>2. Block(PackOf(data, i), 256) \in Nat
    BY <2>1, PackRead
  <2>3. 4 \in {2, 3, 4}
    OBVIOUS
  <2> QED
    BY <2>2, <2>3, SymbolsOf
<1>3. Packs(data) = Joined(parts, 4)
  BY DEF Packs, PackOf
<1> HIDE DEF n
<1>4. Len(parts) = n
  BY <1>1, SMT
<1>5. \A i \in 1 .. n : parts[i] = Symbols(Block(PackOf(data, i), 256), 4)
  OBVIOUS
<1> HIDE DEF parts
<1>6. \A i \in 1 .. n : parts[i] \in Seq(Symbol) /\ Len(parts[i]) = 4
  BY <1>2, <1>5
<1>7. /\ Joined(parts, 4) \in Seq(Symbol)
      /\ Len(Joined(parts, 4)) = n * 4
      /\ \A i \in 1 .. n, h \in 1 .. 4 : Joined(parts, 4)[4 * (i - 1) + h] = parts[i][h]
  <2>1. 4 \in {3, 4}
    OBVIOUS
  <2> QED
    BY <1>1, <1>4, <1>6, <2>1, JoinedParts, SMTT(60)
<1>8. n * 4 = 4 * n
  BY <1>1, SMT
<1>9. Packs(data) \in Seq(Symbol) /\ Len(Packs(data)) = 4 * n
  BY <1>3, <1>7, <1>8
<1>10. \A i \in 1 .. n, h \in 1 .. 4 : Packs(data)[4 * (i - 1) + h] = parts[i][h]
  BY <1>3, <1>7
<1>11. \A i \in 1 .. n, h \in 1 .. 4 :
         Packs(data)[4 * (i - 1) + h] = Symbols(Block(PackOf(data, i), 256), 4)[h]
  <2> TAKE i \in 1 .. n, h \in 1 .. 4
  <2>1. parts[i] = Symbols(Block(PackOf(data, i), 256), 4)
    BY <1>5
  <2>2. Packs(data)[4 * (i - 1) + h] = parts[i][h]
    BY <1>10
  <2> QED
    BY <2>1, <2>2
<1> QED
  BY <1>9, <1>11 DEF n

\* What is left of the data after its packs.
Rest(data) == SubSeq(data, (Len(data) \div 3) * 3 + 1, Len(data))

\* What is left has fewer than three.
LEMMA RestBytes ==
  ASSUME NEW data \in Seq(Byte)
  PROVE  /\ Rest(data) \in Seq(Byte) /\ Len(Rest(data)) = Len(data) % 3
         /\ \A h \in 1 .. (Len(data) % 3) : Rest(data)[h] = data[3 * (Len(data) \div 3) + h]
<1> DEFINE n == Len(data)
           m == (n \div 3) * 3 + 1
<1>1. n \in Nat
  BY LenProperties
<1>2. Rest(data) = SubSeq(data, m, n)
  BY DEF Rest
<1>3. \A j \in 1 .. n : data[j] \in Byte
  BY ElementOfSeq
<1> HIDE DEF n
<1>4. m \in 1 .. n + 1 /\ n - m + 1 = n % 3
  BY <1>1, SMT
<1>5. \A h \in 1 .. (n % 3) : m + h - 1 = 3 * (n \div 3) + h
  BY <1>1, SMT
<1> HIDE DEF m
<1>6. m \in Int /\ n \in Int /\ \A j \in m .. n : data[j] \in Byte
  BY <1>1, <1>3, <1>4, SMT
<1>7. /\ SubSeq(data, m, n) \in Seq(Byte)
      /\ Len(SubSeq(data, m, n)) = IF m <= n THEN n - m + 1 ELSE 0
      /\ \A h \in 1 .. n - m + 1 : SubSeq(data, m, n)[h] = data[m + h - 1]
  BY <1>6, SubSeqProperties
<1>8. Len(SubSeq(data, m, n)) = n % 3
  BY <1>1, <1>4, <1>7, SMT
<1> QED
  BY <1>2, <1>4, <1>5, <1>7, <1>8 DEF n

\* Two elements after two others, and one after three.
LEMMA TwoAndTwo ==
  ASSUME NEW S, NEW s \in Seq(S), Len(s) = 2, NEW e \in S
  PROVE  /\ s \o <<e, e>> \in Seq(S) /\ Len(s \o <<e, e>>) = 4
         /\ (s \o <<e, e>>)[1] = s[1] /\ (s \o <<e, e>>)[2] = s[2]
         /\ (s \o <<e, e>>)[3] = e /\ (s \o <<e, e>>)[4] = e
<1> DEFINE t == <<e, e>>
<1>1. t \in Seq(S) /\ Len(t) = 2 /\ t[1] = e /\ t[2] = e
  OBVIOUS
<1> HIDE DEF t
<1>2. /\ s \o t \in Seq(S) /\ Len(s \o t) = Len(s) + Len(t)
      /\ \A i \in 1 .. Len(s) + Len(t) : (s \o t)[i] = IF i <= Len(s) THEN s[i] ELSE t[i - Len(s)]
  BY <1>1, ConcatProperties
<1>3. /\ Len(s \o t) = 4 /\ (s \o t)[1] = s[1] /\ (s \o t)[2] = s[2]
      /\ (s \o t)[3] = t[1] /\ (s \o t)[4] = t[2]
  BY <1>1, <1>2
<1> QED
  BY <1>1, <1>2, <1>3 DEF t

\* A sequence of three and one element.
LEMMA ThreeAndOne ==
  ASSUME NEW S, NEW s \in Seq(S), Len(s) = 3, NEW e \in S
  PROVE  /\ s \o <<e>> \in Seq(S) /\ Len(s \o <<e>>) = 4
         /\ (s \o <<e>>)[1] = s[1] /\ (s \o <<e>>)[2] = s[2] /\ (s \o <<e>>)[3] = s[3]
         /\ (s \o <<e>>)[4] = e
<1> DEFINE t == <<e>>
<1>1. t \in Seq(S) /\ Len(t) = 1 /\ t[1] = e
  OBVIOUS
<1> HIDE DEF t
<1>2. /\ s \o t \in Seq(S) /\ Len(s \o t) = Len(s) + Len(t)
      /\ \A i \in 1 .. Len(s) + Len(t) : (s \o t)[i] = IF i <= Len(s) THEN s[i] ELSE t[i - Len(s)]
  BY <1>1, ConcatProperties
<1>3. /\ Len(s \o t) = 4 /\ (s \o t)[1] = s[1] /\ (s \o t)[2] = s[2]
      /\ (s \o t)[3] = s[3] /\ (s \o t)[4] = t[1]
  BY <1>1, <1>2
<1> QED
  BY <1>1, <1>2, <1>3 DEF t

\* The last four symbols, if there are one or two last bytes.
LEMMA LastBytesOf ==
  ASSUME NEW rest \in Seq(Byte), Len(rest) \in 0 .. 2
  PROVE  /\ LastBytes(rest) \in Seq(Symbol \cup {EQ})
         /\ Len(LastBytes(rest)) = IF Len(rest) = 0 THEN 0 ELSE 4
         /\ Len(rest) = 1 =>
              /\ \A h \in 1 .. 2 : /\ LastBytes(rest)[h] = Symbols(Block(rest, 256) * 16, 2)[h]
                                   /\ LastBytes(rest)[h] \in Symbol
              /\ LastBytes(rest)[3] = EQ /\ LastBytes(rest)[4] = EQ
         /\ Len(rest) = 2 =>
              /\ \A h \in 1 .. 3 : /\ LastBytes(rest)[h] = Symbols(Block(rest, 256) * 4, 3)[h]
                                   /\ LastBytes(rest)[h] \in Symbol
              /\ LastBytes(rest)[4] = EQ
<1>1. CASE Len(rest) = 0
  <2>1. LastBytes(rest) = <<>>
    BY <1>1, SMT DEF LastBytes
  <2> QED
    BY <1>1, <2>1, SMT
<1>2. CASE Len(rest) = 1
  <2> DEFINE s == Symbols(Block(rest, 256) * 16, 2)
  <2>1. LastBytes(rest) = s \o <<EQ, EQ>>
    BY <1>2, SMT DEF LastBytes
  <2>2. Block(rest, 256) * 16 \in Nat
    BY <1>2, OneRead
  <2>3. s \in Seq(Symbol) /\ Len(s) = 2
    BY <2>2, SymbolsOf
  <2> HIDE DEF s
  <2>4. s[1] \in Symbol /\ s[2] \in Symbol
    BY <2>3, SMT
  <2>5. s \in Seq(Symbol \cup {EQ}) /\ EQ \in Symbol \cup {EQ}
    BY <2>3, SMT
  <2>6. /\ s \o <<EQ, EQ>> \in Seq(Symbol \cup {EQ})
        /\ Len(s \o <<EQ, EQ>>) = 4
        /\ (s \o <<EQ, EQ>>)[1] = s[1] /\ (s \o <<EQ, EQ>>)[2] = s[2]
        /\ (s \o <<EQ, EQ>>)[3] = EQ /\ (s \o <<EQ, EQ>>)[4] = EQ
    BY <2>3, <2>5, TwoAndTwo
  <2>7. \A h \in 1 .. 2 : h = 1 \/ h = 2
    BY SMT
  <2> QED
    BY <1>2, <2>1, <2>4, <2>6, <2>7 DEF s
<1>3. CASE Len(rest) = 2
  <2> DEFINE s == Symbols(Block(rest, 256) * 4, 3)
  <2>1. LastBytes(rest) = s \o <<EQ>>
    BY <1>3, SMT DEF LastBytes
  <2>2. Block(rest, 256) * 4 \in Nat
    BY <1>3, TwoRead
  <2>3. s \in Seq(Symbol) /\ Len(s) = 3
    BY <2>2, SymbolsOf
  <2> HIDE DEF s
  <2>4. s[1] \in Symbol /\ s[2] \in Symbol /\ s[3] \in Symbol
    BY <2>3, SMT
  <2>5. s \in Seq(Symbol \cup {EQ}) /\ EQ \in Symbol \cup {EQ}
    BY <2>3, SMT
  <2>6. /\ s \o <<EQ>> \in Seq(Symbol \cup {EQ})
        /\ Len(s \o <<EQ>>) = 4
        /\ (s \o <<EQ>>)[1] = s[1] /\ (s \o <<EQ>>)[2] = s[2] /\ (s \o <<EQ>>)[3] = s[3]
        /\ (s \o <<EQ>>)[4] = EQ
    BY <2>3, <2>5, ThreeAndOne
  <2>7. \A h \in 1 .. 3 : h = 1 \/ h = 2 \/ h = 3
    BY SMT
  <2> QED
    BY <1>3, <2>1, <2>4, <2>6, <2>7 DEF s
<1> QED
  BY <1>1, <1>2, <1>3, SMT

----------------------------------------------------------------------------
\* Base64 and back.

\* What Base64 writes.
Text64(data) == Packs(data) \o LastBytes(Rest(data))

\* Base64 writes that, or fails for want of room.
LEMMA Base64Is ==
  ASSUME NEW data, NEW room
  PROVE  Base64(data, room) = IF room < NeededSize(Len(data)) THEN Failed ELSE Done(Text64(data))
  BY DEF Base64, Text64, Rest

\* It is symbols, in fours, and at most two '=' at the end.
LEMMA Text64Of ==
  ASSUME NEW data \in Seq(Byte)
  PROVE  LET n == Len(data)
             q == n \div 3
             t == Text64(data)
         IN  /\ t \in Seq(Symbol \cup {EQ})
             /\ Len(t) = 4 * q + (IF n % 3 = 0 THEN 0 ELSE 4)
             /\ \A j \in 1 .. 4 * q : t[j] \in Symbol
             /\ \A i \in 1 .. q, h \in 1 .. 4 :
                  t[4 * (i - 1) + h] = Symbols(Block(PackOf(data, i), 256), 4)[h]
             /\ n % 3 # 0 => \A h \in 1 .. 4 : t[4 * q + h] = LastBytes(Rest(data))[h]
<1> DEFINE n == Len(data)
           q == n \div 3
           s == Packs(data)
           e == LastBytes(Rest(data))
<1>1. n \in Nat
  BY LenProperties
<1>2. /\ s \in Seq(Symbol) /\ Len(s) = 4 * q
      /\ \A i \in 1 .. q, h \in 1 .. 4 : s[4 * (i - 1) + h] = Symbols(Block(PackOf(data, i), 256), 4)[h]
  BY PacksOf
<1>3. /\ Rest(data) \in Seq(Byte) /\ Len(Rest(data)) = n % 3 /\ n % 3 \in 0 .. 2
  BY <1>1, RestBytes, SMT
<1>4. e \in Seq(Symbol \cup {EQ}) /\ Len(e) = IF n % 3 = 0 THEN 0 ELSE 4
  <2> DEFINE r == Rest(data)
  <2>1. r \in Seq(Byte) /\ Len(r) = n % 3 /\ Len(r) \in 0 .. 2
    BY <1>3
  <2> HIDE DEF r, n
  <2>2. LastBytes(r) \in Seq(Symbol \cup {EQ}) /\ Len(LastBytes(r)) = IF Len(r) = 0 THEN 0 ELSE 4
    BY <2>1, LastBytesOf
  <2> QED
    BY <2>1, <2>2 DEF r
<1> HIDE DEF n, s, e
<1>5. q \in Nat
  BY <1>1, SMT
<1> HIDE DEF q
<1>6. s \in Seq(Symbol \cup {EQ})
  BY <1>2, SeqMonotonic
<1>7. /\ s \o e \in Seq(Symbol \cup {EQ}) /\ Len(s \o e) = Len(s) + Len(e)
      /\ \A i \in 1 .. Len(s) + Len(e) : (s \o e)[i] = IF i <= Len(s) THEN s[i] ELSE e[i - Len(s)]
  BY <1>4, <1>6, ConcatProperties
<1>8. Len(e) \in Nat
  BY <1>4, SMT
<1>9. ASSUME NEW j \in 1 .. 4 * q PROVE (s \o e)[j] = s[j] /\ s[j] \in Symbol
  <2>1. j \in 1 .. Len(s) /\ j \in 1 .. Len(s) + Len(e) /\ j <= Len(s)
    BY <1>2, <1>5, <1>8, SMT
  <2> QED
    BY <1>2, <1>7, <2>1, ElementOfSeq
<1>10. ASSUME NEW i \in 1 .. q, NEW h \in 1 .. 4
       PROVE  (s \o e)[4 * (i - 1) + h] = Symbols(Block(PackOf(data, i), 256), 4)[h]
  <2>1. 4 * (i - 1) + h \in 1 .. 4 * q
    BY <1>5, SMT
  <2>2. s[4 * (i - 1) + h] = Symbols(Block(PackOf(data, i), 256), 4)[h]
    BY <1>2, ZenonT(60)
  <2> QED
    BY <1>9, <2>1, <2>2
<1>11. ASSUME n % 3 # 0, NEW h \in 1 .. 4 PROVE (s \o e)[4 * q + h] = e[h]
  <2> DEFINE k == 4 * q + h
  <2>1. k \in 1 .. Len(s) + Len(e) /\ ~(k <= Len(s)) /\ k - Len(s) = h
    BY <1>2, <1>4, <1>5, <1>11, SMT
  <2> HIDE DEF k
  <2>2. (s \o e)[k] = e[k - Len(s)]
    BY <1>7, <2>1
  <2> QED
    BY <2>1, <2>2 DEF k
<1>12. Text64(data) = s \o e
  BY DEF Text64, s, e
<1> DEFINE t == Text64(data)
<1>13. t \in Seq(Symbol \cup {EQ}) /\ Len(t) = 4 * q + (IF n % 3 = 0 THEN 0 ELSE 4)
  BY <1>2, <1>4, <1>7, <1>12
<1>14. \A j \in 1 .. 4 * q : t[j] \in Symbol
  BY <1>9, <1>12
<1>15. \A i \in 1 .. q, h \in 1 .. 4 : t[4 * (i - 1) + h] = Symbols(Block(PackOf(data, i), 256), 4)[h]
  BY <1>10, <1>12, ZenonT(60)
<1>16. n % 3 # 0 => \A h \in 1 .. 4 : t[4 * q + h] = e[h]
  BY <1>11, <1>12
<1> HIDE DEF t
<1> QED
  BY <1>13, <1>14, <1>15, <1>16 DEF n, q, t, e

\* The first w fours are read back as the first w packs.
LEMMA FirstPacks ==
  ASSUME NEW data \in Seq(Byte), NEW w \in Nat, w <= Len(data) \div 3
  PROVE  LET t == Text64(data)
             first == Joined([i \in 1 .. w |-> Quartet(SubSeq(t, 4 * i - 3, 4 * i), 0)], 3)
         IN  /\ first \in Seq(Byte) /\ Len(first) = 3 * w
             /\ \A j \in 1 .. 3 * w : first[j] = data[j]
<1> DEFINE t == Text64(data)
           q == Len(data) \div 3
           parts == [i \in 1 .. w |-> Quartet(SubSeq(t, 4 * i - 3, 4 * i), 0)]
<1>1. q \in Nat /\ 1 .. w \subseteq 1 .. q
  BY LenProperties, SMT
<1>2. /\ t \in Seq(Symbol \cup {EQ}) /\ Len(t) >= 4 * q
      /\ \A i \in 1 .. q, h \in 1 .. 4 : t[4 * (i - 1) + h] = Symbols(Block(PackOf(data, i), 256), 4)[h]
  <2>1. Len(t) = 4 * q + (IF Len(data) % 3 = 0 THEN 0 ELSE 4)
    BY Text64Of
  <2>2. Len(t) >= 4 * q
    BY <1>1, <2>1, SMT
  <2> QED
    BY <2>2, Text64Of
<1> HIDE DEF t, q
<1>3. ASSUME NEW i \in 1 .. q PROVE Quartet(SubSeq(t, 4 * i - 3, 4 * i), 0) = PackOf(data, i)
  <2> DEFINE m == 4 * i - 3
             e == 4 * i
             src == SubSeq(t, m, e)
  <2>1. /\ m \in Int /\ e \in Int /\ m .. e \subseteq 1 .. Len(t) /\ e - m + 1 = 4
        /\ \A h \in 1 .. 4 : m + h - 1 = 4 * (i - 1) + h
    <3>1. Len(t) \in Nat
      BY <1>2, LenProperties
    <3> QED
      BY <1>1, <1>2, <3>1, SMT
  <2> HIDE DEF m, e
  <2>2. \A j \in m .. e : t[j] \in Symbol \cup {EQ}
    BY <1>2, <2>1, ElementOfSeq, ZenonT(60)
  <2> HIDE DEF src
  <2>3. \A h \in 1 .. e - m + 1 : src[h] = t[m + h - 1]
    <3>1. /\ SubSeq(t, m, e) \in Seq(Symbol \cup {EQ})
          /\ Len(SubSeq(t, m, e)) = IF m <= e THEN e - m + 1 ELSE 0
          /\ \A h \in 1 .. e - m + 1 : SubSeq(t, m, e)[h] = t[m + h - 1]
      <4>1. m \in Int /\ e \in Int
        BY <2>1
      <4> QED
        BY <2>2, <4>1, SubSeqProperties
    <3> QED
      BY <3>1 DEF src
  <2>4. \A h \in 1 .. 4 : src[h] = Symbols(Block(PackOf(data, i), 256), 4)[h]
    <3> TAKE h \in 1 .. 4
    <3>1. src[h] = t[4 * (i - 1) + h]
      BY <2>1, <2>3
    <3> QED
      BY <1>2, <3>1, ZenonT(60)
  <2>5. PackOf(data, i) \in Seq(Byte) /\ Len(PackOf(data, i)) = 3
    BY PackBytes DEF q
  <2>6. Quartet(src, 0) = PackOf(data, i)
    BY <2>4, <2>5, PackRead
  <2> QED
    BY <2>6 DEF src, m, e
<1>4. Len(parts) = w
  BY SMT
<1>5. \A i \in 1 .. w : parts[i] = PackOf(data, i)
  BY <1>1, <1>3
<1> HIDE DEF parts
<1>6. \A i \in 1 .. w : parts[i] \in Seq(Byte) /\ Len(parts[i]) = 3
  BY <1>1, <1>5, PackBytes DEF q
<1>7. /\ Joined(parts, 3) \in Seq(Byte) /\ Len(Joined(parts, 3)) = w * 3
      /\ \A i \in 1 .. w, h \in 1 .. 3 : Joined(parts, 3)[3 * (i - 1) + h] = parts[i][h]
  <2>1. 3 \in {3, 4}
    OBVIOUS
  <2> QED
    BY <1>4, <1>6, <2>1, JoinedParts
<1>8. ASSUME NEW j \in 1 .. 3 * w PROVE Joined(parts, 3)[j] = data[j]
  <2> DEFINE i == (j - 1) \div 3 + 1
             h == ((j - 1) % 3) + 1
  <2>1. i \in 1 .. w /\ h \in 1 .. 3 /\ 3 * (i - 1) + h = j
    BY SMT
  <2> HIDE DEF i, h
  <2>2. Joined(parts, 3)[j] = PackOf(data, i)[h]
    BY <1>5, <1>7, <2>1
  <2>3. PackOf(data, i)[h] = data[3 * (i - 1) + h]
    BY <1>1, <2>1, PackBytes DEF q
  <2> QED
    BY <2>1, <2>2, <2>3
<1>9. w * 3 = 3 * w
  BY SMT
<1> QED
  BY <1>7, <1>8, <1>9 DEF parts, t

\* Two parts that are the first places of the data and the others.
LEMMA Whole ==
  ASSUME NEW data \in Seq(Byte), NEW first \in Seq(Byte), NEW last \in Seq(Byte),
         Len(first) + Len(last) = Len(data),
         \A j \in 1 .. Len(first) : first[j] = data[j],
         \A h \in 1 .. Len(last) : last[h] = data[Len(first) + h]
  PROVE  first \o last = data
<1>1. Len(first) \in Nat /\ Len(last) \in Nat
  BY LenProperties
<1>2. /\ first \o last \in Seq(Byte) /\ Len(first \o last) = Len(first) + Len(last)
      /\ \A i \in 1 .. Len(first) + Len(last) :
           (first \o last)[i] = IF i <= Len(first) THEN first[i] ELSE last[i - Len(first)]
  BY ConcatProperties
<1>3. ASSUME NEW i \in 1 .. Len(first) + Len(last) PROVE (first \o last)[i] = data[i]
  <2>1. CASE i <= Len(first)
    <3>1. i \in 1 .. Len(first)
      BY <1>1, <2>1
    <3> QED
      BY <1>2, <2>1, <3>1
  <2>2. CASE ~(i <= Len(first))
    <3> DEFINE h == i - Len(first)
    <3>1. h \in 1 .. Len(last) /\ Len(first) + h = i
      BY <1>1, <2>2
    <3>2. (first \o last)[i] = last[h]
      BY <1>2, <2>2
    <3> HIDE DEF h
    <3> QED
      BY <3>1, <3>2
  <2> QED
    BY <2>1, <2>2
<1> QED
  BY <1>2, <1>3, SeqEqual

\* The last four symbols, of w fours before them, are read back as the rest or,
\* when there is no rest, as the last pack.
LEMMA LastFour ==
  ASSUME NEW data \in Seq(Byte), data # <<>>
  PROVE  LET t == Text64(data)
             n == Len(t)
             w == n \div 4 - 1
             last == Quartet(SubSeq(t, n - 3, n), Padding(t))
         IN  /\ n % 4 = 0 /\ n # 0 /\ w \in Nat /\ w <= Len(data) \div 3
             /\ last \in Seq(Byte) /\ 3 * w + Len(last) = Len(data)
             /\ \A h \in 1 .. Len(last) : last[h] = data[3 * w + h]
             /\ Padding(t) \in 0 .. 2
             /\ \A i \in 1 .. n - Padding(t) : t[i] \in Symbol
<1> DEFINE t == Text64(data)
           n == Len(t)
           w == n \div 4 - 1
           size == Len(data)
           q == size \div 3
           src == SubSeq(t, n - 3, n)
           last == Quartet(src, Padding(t))
           rest == Rest(data)
<1>1. size \in Nat \ {0} /\ q \in Nat
  BY LenProperties, EmptySeq, SMT
<1>2. /\ t \in Seq(Symbol \cup {EQ})
      /\ n = 4 * q + (IF size % 3 = 0 THEN 0 ELSE 4)
      /\ \A j \in 1 .. 4 * q : t[j] \in Symbol
      /\ \A i \in 1 .. q, h \in 1 .. 4 : t[4 * (i - 1) + h] = Symbols(Block(PackOf(data, i), 256), 4)[h]
      /\ size % 3 # 0 => \A h \in 1 .. 4 : t[4 * q + h] = LastBytes(Rest(data))[h]
  BY Text64Of
<1>a. n = 4 * q + (IF size % 3 = 0 THEN 0 ELSE 4)
  BY <1>2
<1>b. size % 3 # 0 => \A h \in 1 .. 4 : t[4 * q + h] = LastBytes(rest)[h]
  BY <1>2
<1>c. q = size \div 3 /\ w = n \div 4 - 1
  OBVIOUS
<1>d. last = Quartet(src, Padding(t)) /\ n = Len(t)
  OBVIOUS
<1> DEFINE Goal == /\ last \in Seq(Byte) /\ 3 * w + Len(last) = size
                   /\ \A h \in 1 .. Len(last) : last[h] = data[3 * w + h]
                   /\ Padding(t) \in 0 .. 2
                   /\ \A i \in 1 .. n - Padding(t) : t[i] \in Symbol
<1>7. /\ rest \in Seq(Byte) /\ Len(rest) = size % 3
      /\ \A h \in 1 .. (size % 3) : rest[h] = data[3 * q + h]
  BY RestBytes
<1>e. /\ t \in Seq(Symbol \cup {EQ}) /\ src = SubSeq(t, n - 3, n)
      /\ \A j \in 1 .. 4 * q : t[j] \in Symbol
      /\ \A i \in 1 .. q, h \in 1 .. 4 : t[4 * (i - 1) + h] = Symbols(Block(PackOf(data, i), 256), 4)[h]
  BY <1>2
<1>f. q \in 1 .. q => /\ PackOf(data, q) \in Seq(Byte) /\ Len(PackOf(data, q)) = 3
                     /\ \A h \in 1 .. 3 : PackOf(data, q)[h] = data[3 * (q - 1) + h]
  BY PackBytes
<1> HIDE DEF t, n, w, q, src, size, last, rest, Goal
<1>3. n \in Nat /\ n % 4 = 0 /\ n >= 4 /\ w \in Nat /\ w <= q /\ n = 4 * w + 4
  <2>1. CASE size % 3 = 0
    <3>1. n = 4 * q /\ q >= 1
      BY <1>1, <1>a, <1>c, <2>1, SMT
    <3> QED
      BY <1>1, <1>c, <3>1, SMT
  <2>2. CASE size % 3 # 0
    <3>1. n = 4 * q + 4
      BY <1>a, <2>2, SMT
    <3> QED
      BY <1>1, <1>c, <3>1, SMT
  <2> QED
    BY <2>1, <2>2
<1>4. \A h \in 1 .. 4 : src[h] = t[4 * w + h]
  <2>1. \A j \in n - 3 .. n : j \in 1 .. n
    BY <1>3
  <2>2. \A j \in n - 3 .. n : t[j] \in Symbol \cup {EQ}
    BY <1>e, <1>d, <2>1, ElementOfSeq
  <2> DEFINE m == n - 3
  <2>3. m \in Int /\ n \in Int
    BY <1>3
  <2>4. \A h \in 1 .. 4 : h \in 1 .. n - m + 1 /\ m + h - 1 = 4 * w + h
    BY <1>3
  <2>5. src = SubSeq(t, m, n)
    BY <1>e
  <2>6. \A j \in m .. n : t[j] \in Symbol \cup {EQ}
    BY <2>2
  <2> HIDE DEF m
  <2>7. /\ SubSeq(t, m, n) \in Seq(Symbol \cup {EQ})
        /\ Len(SubSeq(t, m, n)) = IF m <= n THEN n - m + 1 ELSE 0
        /\ \A h \in 1 .. n - m + 1 : SubSeq(t, m, n)[h] = t[m + h - 1]
    BY <2>3, <2>6, SubSeqProperties
  <2> QED
    BY <2>4, <2>5, <2>7
<1>5. \A s \in Symbol : s # EQ
  BY DEF Symbol
<1>6. ASSUME size % 3 = 0 PROVE Goal
  <2>1. n = 4 * q /\ w = q - 1 /\ q \in 1 .. q /\ size = 3 * q
    BY <1>1, <1>a, <1>c, <1>3, <1>6, SMT
  <2>2. t[n] \in Symbol
    <3>1. n \in 1 .. 4 * q
      BY <1>3, <2>1, SMT
    <3> QED
      BY <1>e, <3>1
  <2>3. Padding(t) = 0
    BY <1>5, <1>d, <2>2 DEF Padding
  <2>4. /\ PackOf(data, q) \in Seq(Byte) /\ Len(PackOf(data, q)) = 3
        /\ \A h \in 1 .. 3 : PackOf(data, q)[h] = data[3 * (q - 1) + h]
    BY <2>1, <1>f
  <2>5. \A h \in 1 .. 4 : src[h] = Symbols(Block(PackOf(data, q), 256), 4)[h]
    <3> TAKE h \in 1 .. 4
    <3>1. src[h] = t[4 * (q - 1) + h]
      BY <1>4, <2>1
    <3> QED
      BY <1>e, <2>1, <3>1
  <2>6. last = PackOf(data, q)
    BY <1>d, <2>3, <2>4, <2>5, PackRead
  <2>7. 3 * w + Len(last) = size
    <3>1. Len(last) = 3
      BY <2>4, <2>6
    <3> QED
      BY <1>1, <2>1, <3>1, SMT
  <2>8. \A h \in 1 .. Len(last) : last[h] = data[3 * w + h]
    BY <2>1, <2>4, <2>6
  <2>9. \A i \in 1 .. n - Padding(t) : t[i] \in Symbol
    <3>1. n - Padding(t) = 4 * q
      BY <1>3, <2>1, <2>3, SMT
    <3> QED
      BY <1>e, <3>1
  <2>10. last \in Seq(Byte) /\ Padding(t) \in 0 .. 2
    BY <2>3, <2>4, <2>6, SMT
  <2> QED
    BY <2>7, <2>8, <2>9, <2>10 DEF Goal
<1>8. ASSUME size % 3 = 1 PROVE Goal
  <2>1. n = 4 * q + 4 /\ w = q /\ size = 3 * q + 1
    BY <1>1, <1>a, <1>c, <1>3, <1>8, SMT
  <2>2. \A h \in 1 .. 4 : t[4 * q + h] = LastBytes(rest)[h]
    BY <1>b, <1>8, SMT
  <2>3. Len(rest) = 1 /\ Len(rest) \in 0 .. 2
    BY <1>7, <1>8, SMT
  <2>4. /\ \A h \in 1 .. 2 : /\ LastBytes(rest)[h] = Symbols(Block(rest, 256) * 16, 2)[h]
                             /\ LastBytes(rest)[h] \in Symbol
        /\ LastBytes(rest)[3] = EQ /\ LastBytes(rest)[4] = EQ
    BY <1>7, <2>3, LastBytesOf
  <2>5. t[n] = EQ /\ t[n - 1] = EQ
    <3>1. 4 * q + 4 = n /\ 4 * q + 3 = n - 1
      BY <1>1, <2>1
    <3>2. t[4 * q + 4] = EQ /\ t[4 * q + 3] = EQ
      BY <2>2, <2>4
    <3> QED
      BY <3>1, <3>2
  <2>6. Padding(t) = 2
    BY <1>d, <2>5 DEF Padding
  <2>7. \A h \in 1 .. 2 : src[h] = Symbols(Block(rest, 256) * 16, 2)[h]
    BY <1>4, <2>1, <2>2, <2>4
  <2>8. Quartet(src, 2) = rest
    BY <1>7, <2>3, <2>7, OneRead
  <2>9. last = rest
    BY <1>d, <2>6, <2>8
  <2>10. 3 * w + Len(last) = size
    BY <1>1, <2>1, <2>3, <2>9
  <2>11. \A h \in 1 .. Len(last) : last[h] = data[3 * w + h]
    BY <1>7, <2>1, <2>3, <2>9, <1>8
  <2>12. ASSUME NEW i \in 1 .. n - 2 PROVE t[i] \in Symbol
    <3>1. i \in 1 .. 4 * q \/ i = 4 * q + 1 \/ i = 4 * q + 2
      BY <1>1, <2>1
    <3> QED
      BY <1>e, <2>2, <2>4, <3>1
  <2>13. last \in Seq(Byte) /\ Padding(t) \in 0 .. 2
    BY <1>7, <2>6, <2>9, SMT
  <2> QED
    BY <2>6, <2>10, <2>11, <2>12, <2>13 DEF Goal
<1>9. ASSUME size % 3 = 2 PROVE Goal
  <2>1. n = 4 * q + 4 /\ w = q /\ size = 3 * q + 2
    BY <1>1, <1>a, <1>c, <1>3, <1>9, SMT
  <2>2. \A h \in 1 .. 4 : t[4 * q + h] = LastBytes(rest)[h]
    BY <1>b, <1>9, SMT
  <2>3. Len(rest) = 2 /\ Len(rest) \in 0 .. 2
    BY <1>7, <1>9, SMT
  <2>4. /\ \A h \in 1 .. 3 : /\ LastBytes(rest)[h] = Symbols(Block(rest, 256) * 4, 3)[h]
                             /\ LastBytes(rest)[h] \in Symbol
        /\ LastBytes(rest)[4] = EQ
    BY <1>7, <2>3, LastBytesOf
  <2>5. t[n] = EQ /\ t[n - 1] # EQ
    <3>1. 4 * q + 4 = n /\ 4 * q + 3 = n - 1
      BY <1>1, <2>1
    <3>2. t[4 * q + 4] = EQ /\ t[4 * q + 3] \in Symbol
      BY <2>2, <2>4
    <3> QED
      BY <1>5, <3>1, <3>2
  <2>6. Padding(t) = 1
    BY <1>d, <2>5 DEF Padding
  <2>7. \A h \in 1 .. 3 : src[h] = Symbols(Block(rest, 256) * 4, 3)[h]
    BY <1>4, <2>1, <2>2, <2>4
  <2>8. Quartet(src, 1) = rest
    BY <1>7, <2>3, <2>7, TwoRead
  <2>9. last = rest
    BY <1>d, <2>6, <2>8
  <2>10. 3 * w + Len(last) = size
    BY <1>1, <2>1, <2>3, <2>9
  <2>11. \A h \in 1 .. Len(last) : last[h] = data[3 * w + h]
    BY <1>7, <2>1, <2>3, <2>9, <1>9
  <2>12. ASSUME NEW i \in 1 .. n - 1 PROVE t[i] \in Symbol
    <3>1. i \in 1 .. 4 * q \/ i = 4 * q + 1 \/ i = 4 * q + 2 \/ i = 4 * q + 3
      BY <1>1, <2>1
    <3> QED
      BY <1>e, <2>2, <2>4, <3>1
  <2>13. last \in Seq(Byte) /\ Padding(t) \in 0 .. 2
    BY <1>7, <2>6, <2>9, SMT
  <2> QED
    BY <2>6, <2>10, <2>11, <2>12, <2>13 DEF Goal
<1>10. size % 3 = 0 \/ size % 3 = 1 \/ size % 3 = 2
  BY <1>1, SMT
<1>11. Goal
  BY <1>6, <1>8, <1>9, <1>10
<1>12. n # 0
  BY <1>3, SMT
<1> QED
  BY <1>3, <1>11, <1>12 DEF Goal, last, src, t, n, w, q, size

\* What Base64 wrote, Base64Decode reads back in any room that takes three bytes
\* for each four symbols.
THEOREM DecodeUndoes ==
  ASSUME NEW data \in Seq(Byte), data # <<>>,
         NEW room \in Nat, room >= (Len(Text64(data)) * 3) \div 4
  PROVE  Base64Decode(Text64(data), room) = Done(data)
<1> DEFINE t == Text64(data)
           n == Len(t)
           w == n \div 4 - 1
           first == Joined([i \in 1 .. w |-> Quartet(SubSeq(t, 4 * i - 3, 4 * i), 0)], 3)
           last == Quartet(SubSeq(t, n - 3, n), Padding(t))
<1>1. /\ n % 4 = 0 /\ n # 0 /\ w \in Nat /\ w <= Len(data) \div 3
      /\ last \in Seq(Byte) /\ 3 * w + Len(last) = Len(data)
      /\ \A h \in 1 .. Len(last) : last[h] = data[3 * w + h]
      /\ \A i \in 1 .. n - Padding(t) : t[i] \in Symbol
  BY LastFour
<1>2. w \in Nat /\ w <= Len(data) \div 3
  BY <1>1
<1>3. \A v \in Nat : v <= Len(data) \div 3 =>
        LET f == Joined([i \in 1 .. v |-> Quartet(SubSeq(t, 4 * i - 3, 4 * i), 0)], 3)
        IN  f \in Seq(Byte) /\ Len(f) = 3 * v /\ \A j \in 1 .. 3 * v : f[j] = data[j]
  BY FirstPacks
<1>4. first \in Seq(Byte) /\ Len(first) = 3 * w /\ \A j \in 1 .. 3 * w : first[j] = data[j]
  BY <1>2, <1>3
<1>5. ~ \E i \in 1 .. n - Padding(t) : Base64Num(t[i]) = -1
  BY <1>1 DEF Symbol
<1>6. ~(room < (n * 3) \div 4)
  <2>1. n \in Nat
    BY Text64Of, LenProperties
  <2> HIDE DEF n
  <2>2. (n * 3) \div 4 \in Nat
    BY <2>1, SMT
  <2>3. room >= (n * 3) \div 4
    BY DEF n
  <2> QED
    BY <2>2, <2>3, SMT
<1>7. Base64Decode(t, room) = Done(first \o last)
  BY <1>1, <1>5, <1>6 DEF Base64Decode
<1> HIDE DEF first, last, w
<1>8. first \o last = data
  <2>1. /\ last \in Seq(Byte) /\ 3 * w + Len(last) = Len(data)
        /\ \A h \in 1 .. Len(last) : last[h] = data[3 * w + h]
    BY <1>1
  <2>2. Len(first) + Len(last) = Len(data)
    BY <1>4, <2>1
  <2>3. \A h \in 1 .. Len(last) : last[h] = data[Len(first) + h]
    BY <1>4, <2>1
  <2>4. \A j \in 1 .. Len(first) : first[j] = data[j]
    BY <1>4
  <2> QED
    BY <1>4, <2>1, <2>2, <2>3, <2>4, Whole
<1> QED
  BY <1>7, <1>8

----------------------------------------------------------------------------
\* Rooms.

\* Base64 writes one byte less than the room it asks for, at least.
LEMMA TextFits ==
  ASSUME NEW data \in Seq(Byte)
  PROVE  Len(Text64(data)) \in Nat /\ Len(Text64(data)) + 1 <= NeededSize(Len(data))
<1> DEFINE n == Len(data)
           q == n \div 3
           k == n % 3
<1>1. n \in Nat /\ q \in Nat /\ k \in 0 .. 2
  BY LenProperties, SMT
<1>2. Len(Text64(data)) = 4 * q + (IF k = 0 THEN 0 ELSE 4)
  BY Text64Of
<1>3. NeededSize(n) = q * 4 + k + 1 + (IF k = 0 THEN 0 ELSE 3 - k) + 1
  BY DEF NeededSize
<1> HIDE DEF n, q, k
<1>4. 4 * q + (IF k = 0 THEN 0 ELSE 4) + 1 <= q * 4 + k + 1 + (IF k = 0 THEN 0 ELSE 3 - k) + 1
  BY <1>1, SMT
<1>5. 4 * q + (IF k = 0 THEN 0 ELSE 4) \in Nat
  BY <1>1, SMT
<1> QED
  BY <1>2, <1>3, <1>4, <1>5 DEF n

\* What Base64Decode writes, its '\0' included, fits a room that is no multiple of
\* three, whatever it reads.
LEMMA DataFits ==
  ASSUME NEW S, NEW src \in Seq(S), NEW room \in Nat, room % 3 # 0
  PROVE  Len(Base64Decode(src, room).str) + 1 <= room
<1> DEFINE n == Len(src)
           w == n \div 4 - 1
           parts == [i \in 1 .. w |-> Quartet(SubSeq(src, 4 * i - 3, 4 * i), 0)]
           last == Quartet(SubSeq(src, n - 3, n), Padding(src))
           fails == \/ n % 4 # 0
                    \/ room < (n * 3) \div 4
                    \/ n = 0
                    \/ \E i \in 1 .. (n - Padding(src)) : Base64Num(src[i]) = -1
<1>1. n \in Nat
  BY LenProperties
<1>2. Base64Decode(src, room) = IF fails THEN Failed ELSE Done(Joined(parts, 3) \o last)
  BY DEF Base64Decode
<1>3. CASE fails
  <2>1. Base64Decode(src, room).str = <<>>
    BY <1>2, <1>3 DEF Failed
  <2>2. Len(<<>>) = 0 /\ room >= 1
    BY SMT
  <2> QED
    BY <2>1, <2>2, SMT
<1>4. CASE ~fails
  <2>1. Base64Decode(src, room).str = Joined(parts, 3) \o last
    BY <1>2, <1>4 DEF Done
  <2>2. n % 4 = 0 /\ ~(room < (n * 3) \div 4) /\ n # 0
    BY <1>4
  <2>3. Padding(src) \in {0, 1, 2}
    BY DEF Padding
  <2> DEFINE k == 3 - Padding(src)
             Piece(i) == Quartet(SubSeq(src, 4 * i - 3, 4 * i), 0)
             V == {Piece(i)[h] : i \in 1 .. w, h \in 1 .. 3} \cup {last[h] : h \in 1 .. 3}
  <2>4. k \in 1 .. 3
    BY <2>3, SMT
  <2>5. \A i : Piece(i) = [h \in 1 .. 3 |-> Piece(i)[h]]
    <3>1. 3 - 0 = 3
      BY SMT
    <3> QED
      BY <3>1 DEF Quartet, Groups
  <2>6. last = [h \in 1 .. k |-> last[h]]
    BY DEF Quartet, Groups
  <2>7. /\ w \in Nat /\ 3 * w + 3 + 1 <= room
    BY <1>1, <2>2, SMT
  <2> HIDE DEF n, w, last, k, Piece
  <2>8. ASSUME NEW i \in 1 .. w PROVE Piece(i) \in Seq(V) /\ Len(Piece(i)) = 3
    <3>1. \A h \in 1 .. 3 : Piece(i)[h] \in V
      OBVIOUS
    <3> HIDE DEF V
    <3>2. [h \in 1 .. 3 |-> Piece(i)[h]] \in Seq(V) /\ Len([h \in 1 .. 3 |-> Piece(i)[h]]) = 3
      BY <3>1, SMT
    <3> QED
      BY <2>5, <3>2
  <2>9. last \in Seq(V) /\ Len(last) = k
    <3>1. \A h \in 1 .. k : last[h] \in V
      BY <2>4
    <3> HIDE DEF V
    <3>2. [h \in 1 .. k |-> last[h]] \in Seq(V) /\ Len([h \in 1 .. k |-> last[h]]) = k
      BY <2>4, <3>1, SMT
    <3> QED
      BY <2>6, <3>2
  <2> HIDE DEF V
  <2>10. Joined(parts, 3) \in Seq(V) /\ Len(Joined(parts, 3)) = w * 3
    <3>1. Len(parts) = w
      BY <2>7, SMT
    <3>2. \A i \in 1 .. w : parts[i] = Piece(i)
      BY DEF Piece
    <3> HIDE DEF parts
    <3>3. \A i \in 1 .. w : parts[i] \in Seq(V) /\ Len(parts[i]) = 3
      BY <2>8, <3>2
    <3>4. 3 \in {3, 4}
      OBVIOUS
    <3> QED
      BY <2>7, <3>1, <3>3, <3>4, JoinedParts
  <2> HIDE DEF parts
  <2>11. Len(Joined(parts, 3) \o last) = Len(Joined(parts, 3)) + Len(last)
    BY <2>9, <2>10, ConcatProperties
  <2>12. w * 3 + k + 1 <= room
    BY <2>4, <2>7, SMT
  <2> QED
    BY <2>1, <2>9, <2>10, <2>11, <2>12
<1> QED
  BY <1>3, <1>4

----------------------------------------------------------------------------
\* Encrypt and Decrypt.

\* XOR keeps the length of the data, and undoes itself.
LEMMA XOROf ==
  ASSUME NEW data \in Seq(Byte)
  PROVE  /\ XOR(data) \in Seq(Byte) /\ Len(XOR(data)) = Len(data)
         /\ \A i \in 1 .. Len(data) : XOR(data)[i] = XORByte(data[i])
         /\ XOR(XOR(data)) = data
<1>1. Len(data) \in Nat /\ DOMAIN data = 1 .. Len(data)
  BY LenProperties
<1>2. \A i \in 1 .. Len(data) : data[i] \in Byte
  BY ElementOfSeq
<1>3. \A i \in 1 .. Len(data) : /\ XORByte(data[i]) \in Byte
                                /\ XORByte(XORByte(data[i])) = data[i]
  BY <1>2, XORByteTwice
<1> DEFINE x == XOR(data)
<1>4. x = [i \in 1 .. Len(data) |-> XORByte(data[i])]
  BY <1>1 DEF XOR
<1> HIDE DEF x
<1>5. x \in Seq(Byte) /\ Len(x) = Len(data) /\ \A i \in 1 .. Len(data) : x[i] = XORByte(data[i])
  BY <1>1, <1>3, <1>4
<1>6. DOMAIN x = 1 .. Len(data)
  BY <1>4
<1>7. XOR(x) = [i \in 1 .. Len(data) |-> data[i]]
  BY <1>3, <1>5, <1>6 DEF XOR
<1>8. data = [i \in 1 .. Len(data) |-> data[i]]
  BY <1>1
<1> QED
  BY <1>5, <1>7, <1>8 DEF x

\* The C string in bytes without a '\0', and in bytes whose last is the first.
LEMMA CStringOf ==
  ASSUME NEW s \in Seq(Byte), \A i \in 1 .. Len(s) : s[i] # 0
  PROVE  CString(s) = s /\ CString(s \o << 0 >>) = s
<1> DEFINE I(t) == {i \in 1 .. Len(t) : t[i] = 0}
           n == Len(s)
           z == s \o << 0 >>
<1>1. n \in Nat
  BY LenProperties
<1>2. CString(s) = s
  <2>1. I(s) = {}
    OBVIOUS
  <2>2. SelectInSeq(s, LAMBDA b : b = 0) = 0
    BY <2>1 DEF SelectInSeq
  <2> QED
    BY <2>2 DEF CString
<1>3. /\ z \in Seq(Byte) /\ Len(z) = n + 1 /\ z[n + 1] = 0
      /\ \A i \in 1 .. n : z[i] = s[i]
  <2> DEFINE e == << 0 >>
  <2>1. e \in Seq(Byte) /\ Len(e) = 1 /\ e[1] = 0
    BY DEF Byte
  <2> HIDE DEF e
  <2>2. /\ s \o e \in Seq(Byte) /\ Len(s \o e) = Len(s) + Len(e)
        /\ \A i \in 1 .. Len(s) + Len(e) : (s \o e)[i] = IF i <= Len(s) THEN s[i] ELSE e[i - Len(s)]
    BY <2>1, ConcatProperties
  <2>3. Len(s \o e) = n + 1 /\ (s \o e)[n + 1] = e[1] /\ \A i \in 1 .. n : (s \o e)[i] = s[i]
    BY <1>1, <2>1, <2>2
  <2> QED
    BY <2>1, <2>2, <2>3 DEF e
<1> HIDE DEF z, n
<1>4. I(z) = {n + 1}
  <2>1. \A i \in 1 .. n : z[i] # 0
    BY <1>3 DEF n
  <2>2. 1 .. n + 1 = (1 .. n) \cup {n + 1}
    BY <1>1
  <2> QED
    BY <1>3, <2>1, <2>2
<1>5. SelectInSeq(z, LAMBDA b : b = 0) = n + 1
  <2>1. SelectInSeq(z, LAMBDA b : b = 0) = Min({n + 1})
    BY <1>4 DEF SelectInSeq
  <2>2. Min({n + 1}) = n + 1
    BY <1>1 DEF Min
  <2> QED
    BY <2>1, <2>2
<1>6. CString(z) = SubSeq(z, 1, n)
  <2> DEFINE nul == SelectInSeq(z, LAMBDA b : b = 0)
  <2>1. CString(z) = IF nul = 0 THEN z ELSE SubSeq(z, 1, nul - 1)
    BY DEF CString
  <2>2. nul = n + 1
    BY <1>5
  <2> HIDE DEF nul
  <2>3. nul # 0 /\ nul - 1 = n
    BY <1>1, <2>2
  <2> QED
    BY <2>1, <2>3
<1>7. SubSeq(z, 1, n) = s
  <2>1. 1 \in Int /\ n \in Int /\ \A i \in 1 .. n : z[i] \in Byte
    BY <1>1, <1>3, ElementOfSeq DEF n
  <2>2. /\ SubSeq(z, 1, n) \in Seq(Byte)
        /\ Len(SubSeq(z, 1, n)) = IF 1 <= n THEN n - 1 + 1 ELSE 0
        /\ \A i \in 1 .. n - 1 + 1 : SubSeq(z, 1, n)[i] = z[1 + i - 1]
    BY <2>1, SubSeqProperties
  <2>3. Len(SubSeq(z, 1, n)) = n /\ \A i \in 1 .. n : SubSeq(z, 1, n)[i] = z[i]
    BY <1>1, <2>2
  <2>4. Len(SubSeq(z, 1, n)) = Len(s) /\ \A i \in 1 .. Len(SubSeq(z, 1, n)) : SubSeq(z, 1, n)[i] = s[i]
    BY <1>3, <2>3 DEF n
  <2> QED
    BY <2>2, <2>4, SeqEqual
<1> QED
  BY <1>2, <1>6, <1>7 DEF z

\* A text that Encrypt could encrypt is what Decrypt makes of it, for every
\* text of every length without the byte of the key, with the '\0' encrypted or
\* not, in every room that takes three bytes for each four symbols.
THEOREM RoundTrip ==
  ASSUME NEW s \in Seq(Byte \ {0}), \A i \in 1 .. Len(s) : s[i] # 170,
         NEW end \in {<<>>, << 0 >>}, s \o end # <<>>,
         NEW room, Encrypt(s \o end, room).ok,
         NEW space \in Nat, space >= (Len(Encrypt(s \o end, room).str) * 3) \div 4
  PROVE  Decrypt(Encrypt(s \o end, room).str, space) = Done(s)
<1> DEFINE data == s \o end
           x == XOR(data)
           xs == XOR(s)
           text == Encrypt(data, room).str
<1>1. s \in Seq(Byte) /\ \A i \in 1 .. Len(s) : s[i] \in Byte /\ s[i] # 0
  <2>1. s \in Seq(Byte)
    <3>1. Byte \ {0} \subseteq Byte
      OBVIOUS
    <3> QED
      BY <3>1, SeqMonotonic
  <2>2. \A i \in 1 .. Len(s) : s[i] \in Byte \ {0}
    BY ElementOfSeq
  <2> QED
    BY <2>1, <2>2
<1>2. end \in Seq(Byte)
  <2>1. 0 \in Byte
    BY SMT DEF Byte
  <2>2. << 0 >> \in Seq(Byte)
    BY <2>1
  <2>3. <<>> \in Seq(Byte)
    OBVIOUS
  <2> QED
    BY <2>2, <2>3
<1>3. data \in Seq(Byte)
  BY <1>1, <1>2, ConcatProperties
<1>4. /\ x \in Seq(Byte) /\ Len(x) = Len(data)
      /\ \A i \in 1 .. Len(data) : x[i] = XORByte(data[i])
  BY <1>3, XOROf
<1>5. /\ xs \in Seq(Byte) /\ Len(xs) = Len(s) /\ XOR(xs) = s
      /\ \A i \in 1 .. Len(s) : xs[i] = XORByte(s[i])
  BY <1>1, XOROf
<1>6. \A i \in 1 .. Len(s) : xs[i] # 0
  BY <1>1, <1>5, XORByteTwice
<1>7. x # <<>>
  <2>1. Len(data) # 0
    BY <1>3, EmptySeq, SMT
  <2> QED
    BY <1>4, <2>1, EmptySeq
<1>8. text = Text64(x)
  BY Base64Is DEF Encrypt, Failed, Done
<1>9. Base64Decode(text, space) = Done(x)
  BY <1>4, <1>7, <1>8, DecodeUndoes
<1>10. Decrypt(text, space) = Done(CString(XOR(CString(x))))
  BY <1>9 DEF Decrypt, Done
<1> HIDE DEF text, x, xs, data
<1>11. CASE end = <<>>
  <2>1. data = s
    BY <1>1, <1>11, ConcatEmptySeq DEF data
  <2>2. x = xs
    BY <2>1 DEF x, xs
  <2>3. CString(xs) = xs /\ CString(s) = s
    BY <1>1, <1>5, <1>6, CStringOf
  <2> QED
    BY <1>5, <1>10, <2>2, <2>3 DEF text, data
<1>12. CASE end = << 0 >>
  <2>1. /\ Len(data) = Len(s) + 1 /\ \A i \in 1 .. Len(s) : data[i] = s[i]
        /\ data[Len(s) + 1] = 0 /\ Len(s) \in Nat
    <3>1. Len(s) \in Nat /\ Len(end) = 1 /\ end[1] = 0
      BY <1>12, LenProperties
    <3>2. /\ Len(s \o end) = Len(s) + Len(end)
          /\ \A i \in 1 .. Len(s) + Len(end) : (s \o end)[i] = IF i <= Len(s) THEN s[i] ELSE end[i - Len(s)]
      BY <1>1, <1>2, ConcatProperties
    <3> QED
      BY <3>1, <3>2, SMT DEF data
  <2>2. XORByte(0) = 170
    BY SMT DEF XORByte, Flip
  <2>3. \A i \in 1 .. Len(data) : x[i] # 0
    <3> TAKE i \in 1 .. Len(data)
    <3>1. CASE i \in 1 .. Len(s)
      BY <1>1, <1>4, <2>1, <3>1, XORByteTwice
    <3>2. CASE i = Len(s) + 1
      <4>1. x[i] = 170
        BY <1>4, <2>1, <2>2, <3>2
      <4> QED
        BY <4>1, SMT
    <3>3. i \in 1 .. Len(s) \/ i = Len(s) + 1
      BY <2>1
    <3> QED
      BY <3>1, <3>2, <3>3
  <2>4. CString(x) = x
    BY <1>4, <2>3, CStringOf
  <2>5. XOR(x) = data
    BY <1>3, XOROf DEF x
  <2>6. CString(data) = s
    BY <1>1, <1>12, CStringOf DEF data
  <2> QED
    BY <1>10, <2>4, <2>5, <2>6 DEF text, data
<1> QED
  BY <1>11, <1>12

\* What Encrypt writes fits its room, '\0' included.
THEOREM EncryptedFits ==
  ASSUME NEW data \in Seq(Byte), NEW room \in Nat, Encrypt(data, room).ok
  PROVE  Len(Encrypt(data, room).str) + 1 <= room
<1>1. XOR(data) \in Seq(Byte) /\ Len(XOR(data)) = Len(data)
  BY XOROf
<1>2. Len(Text64(XOR(data))) \in Nat /\ Len(Text64(XOR(data))) + 1 <= NeededSize(Len(data))
  BY <1>1, TextFits
<1>3. ~(room < NeededSize(Len(data))) /\ Encrypt(data, room).str = Text64(XOR(data))
  BY <1>1, Base64Is DEF Encrypt, Failed, Done
<1>4. NeededSize(Len(data)) \in Nat
  <2> DEFINE n == Len(data)
  <2>1. n \in Nat
    BY LenProperties
  <2> HIDE DEF n
  <2>2. n \div 3 \in Nat /\ n % 3 \in 0 .. 2
    BY <2>1, SMT
  <2>3. NeededSize(n) \in Nat
    BY <2>2, SMT DEF NeededSize
  <2> QED
    BY <2>3 DEF n
<1> QED
  BY <1>2, <1>3, <1>4, SMT

\* A text that begins with '{' is not taken for an encrypted one, nor an
\* encrypted one for such a text.
THEOREM ModesApart ==
  ASSUME NEW plain \in Seq(Byte), plain # <<>>, plain[1] = 123
  PROVE  /\ \A room \in Nat : ~Decrypt(plain, room).ok
         /\ \A data \in Seq(Byte) : \A room : Encrypt(data, room).str # plain
<1>1. ASSUME NEW room \in Nat PROVE ~Decrypt(plain, room).ok
  <2> DEFINE n == Len(plain)
  <2>1. n \in Nat \ {0}
    BY EmptySeq, LenProperties, SMT
  <2>2. Padding(plain) \in {0, 1, 2}
    BY DEF Padding
  <2>3. Base64Num(plain[1]) = -1
    BY SMT DEF Base64Num
  <2>4. n % 4 = 0 => 1 \in 1 .. (n - Padding(plain))
    <3> HIDE DEF n
    <3> QED
      BY <2>1, <2>2, SMT
  <2>5. Base64Decode(plain, room) = Failed
    BY <2>3, <2>4 DEF Base64Decode
  <2> QED
    BY <2>5 DEF Decrypt, Failed
<1>2. ASSUME NEW data \in Seq(Byte), NEW room, Encrypt(data, room).str = plain PROVE FALSE
  <2>1. Encrypt(data, room).str = Text64(XOR(data)) \/ Encrypt(data, room).str = <<>>
    BY Base64Is DEF Encrypt, Failed, Done
  <2>2. plain = Text64(XOR(data))
    BY <1>2, <2>1
  <2>3. plain \in Seq(Symbol \cup {EQ})
    <3>1. XOR(data) \in Seq(Byte)
      BY XOROf
    <3> QED
      BY <2>2, <3>1, Text64Of
  <2>4. 1 \in 1 .. Len(plain)
    BY EmptySeq, LenProperties, SMT
  <2>5. plain[1] \in Symbol \cup {EQ}
    BY <2>3, <2>4, ElementOfSeq
  <2> QED
    BY <2>5, SMT DEF Symbol, EQ
<1> QED
  BY <1>1, <1>2
=============================================================================
