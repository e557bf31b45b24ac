------------------------------- MODULE Codec -------------------------------
(***************************************************************************)
(* The encryption of encrypt.c: every byte is XORed with one key and the   *)
(* result is written in Base64.  Data are sequences of bytes, without the  *)
(* '\0' that ends a C string; a function that fails in C yields Failed.    *)
(***************************************************************************)
EXTENDS Integers, Sequences, SequencesExt

Byte == 0..255

\* '=' fills the last four symbols of a Base64 text.
EQ == 61

Failed == [ok |-> FALSE, str |-> <<>>]
Done(str) == [ok |-> TRUE, str |-> str]

----------------------------------------------------------------------------
\* What XOR adds to byte b when it flips the bit of weight w.
Flip(b, w) == w * (1 - 2 * ((b \div w) % 2))

\* b ^= 0xAA, whose bits weigh 2, 8, 32 and 128.
XORByte(b) == b + Flip(b, 2) + Flip(b, 8) + Flip(b, 32) + Flip(b, 128)

XOR(data) == [i \in DOMAIN data |-> XORByte(data[i])]

\* The symbol of a six-bit number, and the number of a symbol (-1: none).
Base64Sym(num) ==
    CASE num \in 0..25  -> num + 65
      [] num \in 26..51 -> num - 26 + 97
      [] num \in 52..61 -> num - 52 + 48
      [] num = 62       -> 43
      [] num = 63       -> 47

Base64Num(sym) ==
    CASE sym \in 65..90  -> sym - 65
      [] sym \in 97..122 -> sym - 97 + 26
      [] sym \in 48..57  -> sym - 48 + 52
      [] sym = 43        -> 62
      [] sym = 47        -> 63
      [] OTHER           -> -1

----------------------------------------------------------------------------
\* base to the power n, for what fits in a block.
Weight(base, n) ==
    CASE n = 0 -> 1
      [] n = 1 -> base
      [] n = 2 -> base * base
      [] n = 3 -> base * base * base

\* The k lowest groups of a block, each below base, highest first.
Groups(block, base, k) == [i \in 1..k |-> (block \div Weight(base, k - i)) % base]

Symbols(block, k) ==
    [i \in 1..k |-> Base64Sym(Groups(block, 64, k)[i])]

\* One to four bytes or numbers as one number, the first the highest.
Block(s, base) ==
    CASE Len(s) = 1 -> s[1]
      [] Len(s) = 2 -> s[1] * base + s[2]
      [] Len(s) = 3 -> (s[1] * base + s[2]) * base + s[3]
      [] Len(s) = 4 -> ((s[1] * base + s[2]) * base + s[3]) * base + s[4]

\* Parts of k elements each, one after the other.
Joined(parts, k) ==
    [j \in 1..(Len(parts) * k) |-> parts[(j - 1) \div k + 1][((j - 1) % k) + 1]]

\* The room Base64 asks for: one byte more than it writes when the size is a
\* multiple of three.
NeededForSymbols(size) ==
    (size \div 3) * 4 + (IF size % 3 = 0 THEN 0 ELSE 4)
NeededSize(size) ==
    (size \div 3) * 4 + (size % 3) + 1
        + (IF size % 3 = 0 THEN 0 ELSE 3 - (size % 3)) + 1

\* The packs of three bytes, four symbols each.
Packs(data) ==
    Joined([i \in 1..(Len(data) \div 3) |->
               Symbols(Block(SubSeq(data, 3 * i - 2, 3 * i), 256), 4)], 4)

\* One or two last bytes, moved up to whole symbols, and '=' for the rest.
LastBytesUnshifted(rest) ==
    CASE Len(rest) = 0 -> <<>>
      [] Len(rest) = 1 -> Symbols(Block(rest, 256), 2) \o <<EQ, EQ>>
      [] Len(rest) = 2 -> Symbols(Block(rest, 256), 3) \o <<EQ>>
LastBytes(rest) ==
    CASE Len(rest) = 0 -> <<>>
      [] Len(rest) = 1 -> Symbols(Block(rest, 256) * 16, 2) \o <<EQ, EQ>>
      [] Len(rest) = 2 -> Symbols(Block(rest, 256) * 4, 3) \o <<EQ>>

Base64(data, room) ==
    LET whole == (Len(data) \div 3) * 3
    IN  IF room < NeededSize(Len(data))
        THEN Failed
        ELSE Done(Packs(data) \o LastBytes(SubSeq(data, whole + 1, Len(data))))

\* The '=' at the end of a text, whose length is a multiple of four.
Padding(src) ==
    CASE src[Len(src)] # EQ -> 0
      [] src[Len(src)] = EQ /\ src[Len(src) - 1] # EQ -> 1
      [] OTHER -> 2

\* The bytes of four symbols, the last eq of which are '='.
Quartet(src, eq) ==
    LET nums == [i \in 1..(4 - eq) |-> Base64Num(src[i])]
    IN  Groups(Block(nums, 64) \div Weight(4, eq), 256, 3 - eq)

\* An empty text has no last four symbols: its '\0' is no symbol.
Base64Decode(src, room) ==
    LET n == Len(src)
    IN  IF \/ n % 4 # 0
           \/ room < (n * 3) \div 4
           \/ n = 0
           \/ \E i \in 1..(n - Padding(src)) : Base64Num(src[i]) = -1
        THEN Failed
        ELSE Done(Joined([i \in 1..(n \div 4 - 1) |->
                             Quartet(SubSeq(src, 4 * i - 3, 4 * i), 0)], 3)
                    \o Quartet(SubSeq(src, n - 3, n), Padding(src)))

----------------------------------------------------------------------------
\* The string a C function reads in these bytes: up to the first '\0'.
CString(bytes) ==
    LET nul == SelectInSeq(bytes, LAMBDA b : b = 0)
    IN  IF nul = 0 THEN bytes ELSE SubSeq(bytes, 1, nul - 1)

\* Encrypt XORs the caller's own buffer and XORs it back at the end: the
\* buffer it leaves, and the text.  When Base64 fails it stays XORed.
Encrypt(data, room) ==
    LET code == Base64(XOR(data), room)
    IN  [ok |-> code.ok, str |-> code.str,
         source |-> IF code.ok THEN XOR(XOR(data)) ELSE XOR(data)]

\* Decrypt XORs as many bytes as strlen finds: a byte of the message equal to
\* the key is '\0' here and ends it.
Decrypt(src, room) ==
    LET data == Base64Decode(src, room)
    IN  IF data.ok THEN Done(CString(XOR(CString(data.str)))) ELSE Failed
============================================================================
