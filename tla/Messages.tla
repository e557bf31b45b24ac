------------------------------ MODULE Messages ------------------------------
(***************************************************************************)
(* One message on its way: the sender's text, its encryption when the      *)
(* sender runs with -e, what the receiver's buffer then holds, decrypted   *)
(* when the receiver runs with -e, and the parser's walk over it, token by *)
(* token.  jGetVal reads the accepted text.                                *)
(***************************************************************************)
EXTENDS Codec, Json, FiniteSets

CONSTANTS
    Texts,      \* what the ends of the program send
    Drafts,     \* what else may come in, received without encryption
    Keys,       \* the keys the program asks for
    Rooms,      \* sizes of the buffers that Encrypt and Decrypt write
    Leftovers,  \* what a receive buffer may still hold after the message
    Junk        \* types that an unset token_t may hold

VARIABLES
    sent,       \* the text the sender built
    is_enc,     \* which ends run with -e
    room,       \* the room of each end's second buffer
    wire,       \* the bytes sent
    text,       \* what the receiver parses
    junk,       \* the type in an unset token_t
    pos, type,  \* parse: the next place, the type in its token_t
    step        \* where the message is; in parse, what is wanted next

vars == <<sent, is_enc, room, wire, text, junk, pos, type, step>>

Ends == {"sender", "receiver"}

\* The code's rooms (50, 128, 436, 512, 1024) are no multiples of three.
ASSUME RoomsOdd == \A r \in Rooms : r \in Nat /\ r % 3 # 0

ASSUME KeysAreStrings == Keys \subseteq Seq(Byte \ {0})

ASSUME JunkIsAType == Junk \subseteq TokenTypes

----------------------------------------------------------------------------
Code == [p \in {"{", "}", ":", ",", "[", "]", " ", "quote"} |->
    CASE p = "{" -> 123 [] p = "}" -> 125 [] p = ":" -> 58 [] p = "," -> 44
      [] p = "[" -> 91  [] p = "]" -> 93  [] p = " " -> 32 [] p = "quote" -> 34]

LexemeBytes(l) ==
    CASE l.type \in DOMAIN Code -> <<Code[l.type]>>
      [] l.type = "STR" -> <<34>> \o l.str \o <<34>>
      [] OTHER -> l.str

Bytes(t) == FlattenSeq([i \in DOMAIN t |-> LexemeBytes(t[i])])

Other(bytes) == [type |-> "?", str |-> bytes]

Lexeme == [type : DOMAIN Code \union {"STR", "NUM", "badnum", "?"},
           str : Seq(Byte \ {0})]

ASSUME TextsAreLexemes ==
    Texts \union Drafts \union Leftovers \subseteq Seq(Lexeme)

\* The text cut inside the string at place i, after its bytes head.
CutAt(t, i, head) ==
    SubSeq(t, 1, i - 1) \o <<[type |-> "quote", str |-> <<>>]>>
        \o (IF head = <<>> THEN <<>> ELSE <<Other(head)>>)

Cuts(t) == UNION {{CutAt(t, i, head) : head \in Prefixes(t[i].str)} :
                     i \in {j \in DOMAIN t : t[j].type = "STR"}}

\* The bytes as the parser meets them: the text sent, that text cut inside a
\* string, or, when they are Base64, something that does not begin with '{'.
Lexed(bytes) ==
    LET cuts == {t \in Cuts(sent) : Bytes(t) = bytes}
    IN  CASE bytes = Bytes(sent)               -> sent
          [] bytes # Bytes(sent) /\ cuts # {} -> CHOOSE t \in cuts : TRUE
          [] OTHER                             -> <<Other(bytes)>>

----------------------------------------------------------------------------
Init ==
    /\ \/ sent \in Texts /\ is_enc \in [Ends -> BOOLEAN]
       \/ sent \in Drafts /\ is_enc = [e \in Ends |-> FALSE]
    /\ room \in IF \E e \in Ends : is_enc[e]
                THEN [Ends -> Rooms] ELSE [Ends -> {0}]
    /\ junk \in Junk
    /\ wire = <<>>
    /\ text = <<>>
    /\ pos = 1
    /\ type = junk
    /\ step = "built"

\* chooseEncrMsg, and Encrypt where the clients call it; find_server encrypts
\* the '\0' of its question too.
Send ==
    /\ step = "built"
    /\ \/ /\ ~is_enc["sender"]
          /\ wire' = Bytes(sent)
          /\ step' = "sent"
       \/ /\ is_enc["sender"]
          /\ \E end \in {<<>>, <<0>>} :
               LET code == Encrypt(Bytes(sent) \o end, room["sender"])
               IN  /\ wire' = code.str
                   /\ step' = IF code.ok THEN "sent" ELSE "unsent"
    /\ UNCHANGED <<sent, is_enc, room, text, junk, pos, type>>

\* recvPacket copies a message without a '\0' after it: what the buffer held
\* follows it.  getUdpPacket puts one there (no leftover).
Receive ==
    /\ step = "sent"
    /\ ~is_enc["receiver"]
    /\ \E old \in IF sent \in Texts THEN Leftovers ELSE {<<>>} :
         text' = Lexed(wire) \o old
    /\ step' = "brace"
    /\ UNCHANGED <<sent, is_enc, room, wire, junk, pos, type>>

\* chooseDecrypMsg, and Decrypt where the accepter and the clients call it.
Decode ==
    LET data == Decrypt(wire, room["receiver"])
    IN  /\ step = "sent"
        /\ is_enc["receiver"]
        /\ IF data.ok THEN text' = Lexed(data.str) /\ step' = "brace"
                      ELSE step' = "refused" /\ UNCHANGED text
        /\ UNCHANGED <<sent, is_enc, room, wire, junk, pos, type>>

----------------------------------------------------------------------------
Token == GetToken(text, junk, pos, type)
Good == ~Token.err /\ Token.type \in Wanted(step)

Advance ==
    /\ step \in LogPos
    /\ Good
    /\ Token.type # "}"
    /\ step' = After(step)
    /\ pos' = NextPos(step, Token)
    /\ type' = Token.type
    /\ UNCHANGED <<sent, is_enc, room, wire, text, junk>>

\* The code returns at the first '}', whatever follows it.
Finish ==
    /\ step \in LogPos
    /\ Good
    /\ Token.type = "}"
    /\ step' = "taken"
    /\ UNCHANGED <<sent, is_enc, room, wire, text, junk, pos, type>>

Refuse ==
    /\ step \in LogPos
    /\ ~Good
    /\ step' = "refused"
    /\ UNCHANGED <<sent, is_enc, room, wire, text, junk, pos, type>>

Next == Send \/ Receive \/ Decode \/ Advance \/ Finish \/ Refuse

Spec == Init /\ [][Next]_vars

----------------------------------------------------------------------------
(* What JSON of the program's kind is, stated without reading it in order. *)

\* Place j is the next one after i, blanks apart.
Follows(t, i, j) ==
    /\ i \in DOMAIN t /\ j \in DOMAIN t /\ i < j
    /\ t[i].type # " " /\ t[j].type # " "
    /\ \A b \in (i + 1)..(j - 1) : t[b].type = " "

Depth(t, i) ==
    Cardinality({j \in 1..i : t[j].type = "["})
        - Cardinality({j \in 1..i : t[j].type = "]"})

\* What may follow what in an object, and in an array, which the code lets end
\* with a comma.
Objects ==
    ({"{"} \X {"STR", "}"}) \union ({","} \X {"STR"})
      \union ({"STR"} \X {":", ",", "}"})
      \union ({":"} \X {"STR", "NUM", "["})
      \union ({"NUM", "]"} \X {",", "}"})

Arrays ==
    ({"[", ","} \X {"STR", "NUM", "[", "]"})
      \union ({"STR", "NUM", "]"} \X {",", "]"})

\* The place where a name may stand: after '{' and after a comma.
Opened(t, i) == \E h \in DOMAIN t : Follows(t, h, i) /\ t[h].type \in {"{", ","}

\* In an object the strings that begin a pair, and no others, have a colon.
MayFollow(t, i, j) ==
    /\ <<t[i].type, t[j].type>> \in IF Depth(t, i) = 0 THEN Objects ELSE Arrays
    /\ Depth(t, i) = 0 /\ t[i].type = "STR" => (t[j].type = ":" <=> Opened(t, i))

Legal(t, end) == \A i, j \in 1..end : Follows(t, i, j) => MayFollow(t, i, j)

\* The object is what ends at the first '}'.
NoneBefore(t, end) == \A i \in 1..(end - 1) : t[i].type # "}"

StartsWithObject(t) ==
    /\ t # <<>> /\ t[1].type = "{"
    /\ \E end \in DOMAIN t :
          t[end].type = "}" /\ NoneBefore(t, end) /\ Legal(t, end)

\* A '"' or a bad number where the code has no earlier type to keep: it is the
\* first thing of the text or of an array.
ReadsJunk(t) ==
    \E i \in DOMAIN t :
        /\ t[i].type \in Unread
        /\ \/ \A b \in 1..(i - 1) : t[b].type = " "
           \/ \E h \in DOMAIN t : Follows(t, h, i) /\ t[h].type = "["

\* A string with a colon after it, in the object.
IsName(t, i) ==
    /\ NoneBefore(t, i) /\ t[i].type = "STR"
    /\ \E j \in DOMAIN t : Follows(t, i, j) /\ t[j].type = ":"

\* The value of the name at place i, with the blanks in it.
ValueOf(t, i) ==
    LET colon == CHOOSE j \in DOMAIN t : Follows(t, i, j)
        first == CHOOSE j \in DOMAIN t : Follows(t, colon, j)
        last == CHOOSE j \in first..Len(t) :
                  Depth(t, j) = 0 /\ \A k \in first..(j - 1) : Depth(t, k) > 0
    IN  SubSeq(t, first, last)

FirstPair(t, key) ==
    LET names == {i \in DOMAIN t : IsName(t, i) /\ t[i].str = key}
    IN  IF names = {} THEN Absent
        ELSE ValueOf(t, CHOOSE i \in names : \A k \in names : i <= k)

\* No shorter name in the object begins the key: the code would take it for it.
Distinct(t, key) ==
    \A i \in DOMAIN t : IsName(t, i) /\ IsPrefix(t[i].str, key) => t[i].str = key

\* The program's texts end with their brace, and none of their names begins a key.
ASSUME TextsAreObjects ==
    \A t \in Texts : /\ StartsWithObject(t) /\ NoneBefore(t, Len(t))
                      /\ \A key \in Keys : Distinct(t, key)

----------------------------------------------------------------------------
TypeOK ==
    /\ wire \in Seq(Byte \ {0})
    /\ pos \in 1..(Len(text) + 1)
    /\ type \in TokenTypes
    /\ step \in LogPos \union {"built", "sent", "unsent", "taken", "refused"}

\* parse (server.c 490, 1122, 1203) accepts exactly the texts that begin with
\* an object, arrays being allowed a last comma.  The type that stays in the
\* token_t when a string or a number cannot be read, and the length 1 that goes
\* with it, never let anything else through, except where no type was there yet.
AcceptsExactly ==
    /\ step = "taken" => StartsWithObject(text) \/ ReadsJunk(text)
    /\ step = "refused" => ~StartsWithObject(text)

\* In a text that begins with an object jGetVal (server.c 1208-1309) finds for each
\* key the value of the first pair that has it, never a value or an element of an
\* array that reads like it, and never leaves the text.
FindsThePair ==
    step = "taken" /\ StartsWithObject(text) =>
        \A key \in Keys : Distinct(text, key) =>
            GetVal(text, key, junk) = FirstPair(text, key)

\* A message the receiver takes is read as it was sent, for every key, in every
\* combination of modes, whatever follows it in the receive buffer (tcp.c 263,
\* packet.c 213), and whatever bytes its names have: never a part of it.  And only
\* these lose it on its way: ends in different modes, a byte equal to the key of
\* the encryption (0xAA, as in the second half of some Cyrillic letters), a
\* receive buffer that is too short (encrypt.c 157, 248).
TakenAsSent ==
    step = "taken" /\ sent \in Texts =>
        \A key \in Keys : GetVal(text, key, junk) = FirstPair(sent, key)

RefusedForAReason ==
    step = "refused" /\ sent \in Texts =>
        \/ is_enc["sender"] # is_enc["receiver"]
        \/ /\ is_enc["receiver"]
           /\ \/ \E i \in DOMAIN Bytes(sent) : Bytes(sent)[i] = 170
              \/ room["receiver"] < (Len(wire) * 3) \div 4

ArrivesAsSent == TakenAsSent /\ RefusedForAReason

\* Neither Encrypt nor Decrypt writes past the room it was given, the '\0' at
\* the end included (encrypt.c 90, 157).
FitsTheRoom ==
    /\ is_enc["sender"] /\ step \notin {"built", "unsent"} =>
          Len(wire) + 1 <= room["sender"]
    /\ is_enc["receiver"] /\ text # <<>> =>
          Len(Base64Decode(wire, room["receiver"]).str) + 1 <= room["receiver"]

\* No buffer is left: the walk of parse stays in its text (TypeOK, jparce.c 300-340),
\* and what is written in its room.
StaysInside == TypeOK /\ FitsTheRoom
=============================================================================
