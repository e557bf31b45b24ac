-------------------------------- MODULE Json --------------------------------
(***************************************************************************)
(* The JSON of jparce.c.  A text is a sequence of lexemes, records of a    *)
(* type and the bytes they hold.  A token of the code is what getToken     *)
(* reads at a place of the text: one lexeme, or a whole array.             *)
(*                                                                         *)
(* Types of lexemes: the punctuation, STR (a string, without its quotes),  *)
(* NUM, " " (a blank or a newline), and what the code cannot read:         *)
(* "quote", a '"' that no other follows; "badnum", the first digit of a    *)
(* number such as 1. or 1.2.3, which "?" follows; "?", any other character.*)
(***************************************************************************)
EXTENDS Integers, Sequences, SequencesExt

Single == {"{", "}", ":", ",", "STR", "NUM", "]"}
Unread == {"quote", "badnum"}
Values == {"STR", "NUM", "ARRAY"}
TokenTypes == Single \union {"ARRAY", "?"}

\* The lexeme at place i; '\0' follows the last one.
TypeAt(text, i) == IF i \in DOMAIN text THEN text[i].type ELSE "?"

\* The first place from i on that is not blank.
SkipBlanks(text, i) ==
    CHOOSE j \in i..(Len(text) + 1) :
        /\ TypeAt(text, j) # " "
        /\ \A b \in i..(j - 1) : TypeAt(text, b) = " "

----------------------------------------------------------------------------
\* The type of a token that getStringToken or getNumToken refuses: they leave
\* the token_t as it was, and getToken does not look at their result.
TypeAlreadySet(type, old) == IF type = "quote" THEN "STR" ELSE "NUM"
UnreadType(type, old) == old

TokenOf(type, first, last, err) ==
    [type |-> type, first |-> first, last |-> last, err |-> err]

\* getToken at place i, when old is the type that its token_t holds and
\* rest says where an array ends: rest[c] is what getArrayToken makes of an
\* array from the place c.at on.
ReadToken(text, junk, i, old, rest) ==
    LET s == SkipBlanks(text, i)
        t == TypeAt(text, s)
        array == IF TypeAt(text, s + 1) = "]"
                 THEN TokenOf("ARRAY", s, s + 1, FALSE)
                 ELSE rest[[due |-> Values, at |-> s + 1, old |-> junk]]
    IN  CASE t \in Single -> TokenOf(t, s, s, FALSE)
          [] t \in Unread -> TokenOf(UnreadType(t, old), s, s, FALSE)
          [] t = "[" /\ ~array.err -> TokenOf("ARRAY", s, array.last, FALSE)
          [] OTHER -> TokenOf(old, s, s, TRUE)

\* Places in an array: what is due there, and what its token_t holds.  The
\* token_t of the elements holds whatever the stack held (junk) until the
\* first one is read.
Places(text) ==
    [due : {Values, {","}}, at : 1..(Len(text) + 1), old : TokenTypes]

\* getArrayToken at a place c: the end of the array, or what follows a token
\* that was due.
ReadArray(text, junk, c, rest) ==
    LET t == ReadToken(text, junk, c.at, c.old, rest)
        due == IF c.due = Values THEN {","} ELSE Values
    IN  CASE t.err \/ t.type = "]" -> t
          [] ~t.err /\ t.type \in c.due ->
                 rest[[due |-> due, at |-> t.last + 1, old |-> t.type]]
          [] OTHER -> [t EXCEPT !.err = TRUE]

ArrayEnds(text, junk) ==
    LET rest[c \in Places(text)] == ReadArray(text, junk, c, rest)
    IN  rest

GetToken(text, junk, i, old) ==
    IF i > Len(text)
    THEN TokenOf(old, i, i, TRUE)
    ELSE ReadToken(text, junk, i, old, ArrayEnds(text, junk))

----------------------------------------------------------------------------
\* What parse wants next: the key, the colon, the value, the comma of a pair.
\* In its first two calls of getToken it is at "brace" and then at "first".
LogPos == {"brace", "first", "key", "colon", "value", "comma"}

Wanted(logPos) ==
    CASE logPos = "brace" -> {"{"}
      [] logPos = "first" -> {"}", "STR"}
      [] logPos = "key"   -> {"STR"}
      [] logPos = "colon" -> {":"}
      [] logPos = "value" -> Values
      [] logPos = "comma" -> {"}", ","}

After(logPos) ==
    CASE logPos = "brace" -> "first"
      [] logPos \in {"first", "key"} -> "colon"
      [] logPos = "colon" -> "value"
      [] logPos = "value" -> "comma"
      [] logPos = "comma" -> "key"

\* Where the next token starts: after the first one parse goes on from the
\* first character of the text, so that a blank before '{' makes it read '{'
\* again.
NextPos(logPos, token) == IF logPos = "brace" THEN 2 ELSE token.last + 1

----------------------------------------------------------------------------
\* jGetVal: what it copies for key, the lexeme (a string without its quotes) or
\* the lexemes of an array; Absent when it comes to '}' first, Outside when it
\* leaves the text.
Absent == <<>>
Outside == <<[type |-> "outside", str |-> <<>>]>>

\* It compares only as many bytes as the key in the text has: a key that begins
\* the asked one is taken for it.
MatchesAnywhere(logPos, lexeme, key) ==
    lexeme.type = "STR" /\ IsPrefix(lexeme.str, key)
Matches(logPos, lexeme, key) ==
    logPos = "key" /\ lexeme.type = "STR" /\ IsPrefix(lexeme.str, key)

\* The results of getToken are not looked at: after a token it cannot read the
\* walk goes on with the next character and the type it had.
Visits ==
    [token : [type : TokenTypes, first : Nat, last : Nat, err : BOOLEAN],
     logPos : LogPos]

Following(text, junk, token) == GetToken(text, junk, token.last + 1, token.type)

\* What the walk finds from its visit c on: walk[d] is what it finds from d on.
Visit(text, key, junk, c, walk) ==
    LET t == c.token
        value == Following(text, junk, Following(text, junk, t))
    IN  CASE t.type = "}" -> Absent
          [] t.type # "}" /\ t.first > Len(text) -> Outside
          [] /\ t.type # "}" /\ t.first <= Len(text)
             /\ Matches(c.logPos, text[t.first], key) ->
                 IF value.last > Len(text) THEN Outside
                 ELSE SubSeq(text, value.first, value.last)
          [] OTHER -> walk[[token |-> Following(text, junk, t),
                            logPos |-> After(c.logPos)]]

Walk(text, key, junk) ==
    LET walk[c \in Visits] == Visit(text, key, junk, c, walk)
    IN  walk

GetVal(text, key, junk) ==
    Walk(text, key, junk)[
        [token |-> Following(text, junk, GetToken(text, junk, 1, junk)),
         logPos |-> "key"]]
=============================================================================
