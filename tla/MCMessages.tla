----------------------------- MODULE MCMessages -----------------------------
(***************************************************************************)
(* The messages of the program with short names for its keys and words,    *)
(* and texts that are nearly messages: every text of a '{' and at most     *)
(* MaxTail lexemes, and every text one lexeme away from a template.        *)
(***************************************************************************)
EXTENDS Discovery

CONSTANTS MaxTail

Lex(t) == [type |-> t, str |-> <<>>]
Str(s) == [type |-> "STR", str |-> s]
Num(s) == [type |-> "NUM", str |-> s]

\* The keys, by as many letters as tell them apart (status and state share
\* their beginning).
kType == <<116>>       kCmd == <<99>>         kDev == <<100>>
kVal == <<118>>        kStatus == <<115, 117>> kState == <<115, 101>>
kNew == <<110>>        kId == <<105>>         kAsk == <<97, 115, 107>>

MCKeys == {kType, kCmd, kDev, kVal, kState, kNew, kId, kAsk}

\* {"k": v, "k": v}
Pair(p) == <<Str(p[1]), Lex(":"), Lex(" "), p[2]>>
Built(pairs) ==
    <<Lex("{")>>
      \o FlattenSeq([i \in DOMAIN pairs |->
            Pair(pairs[i])
              \o IF i < Len(pairs) THEN <<Lex(","), Lex(" ")>> ELSE <<>>])
      \o <<Lex("}")>>

\* Names of every length modulo three, one that reads like a key, and two with
\* the byte 0xAA.
Names == {<<>>, <<65>>, <<65, 66>>, kVal, <<208, 191, 65>>,
          <<208, 170>>, <<65, 208, 170, 66>>}

TS == Str(<<84>>)   LC == Str(<<76>>)   Serv == Str(<<83>>)
C == Str(<<67>>)    CC == Str(<<67, 67>>)

\* {"ask": "WHO S"} and {"ans": "Im S"}, letter by letter: the question fills
\* the 25 bytes that find_server has for it.
MCWhoServer == <<87, 72, 79, 32, 83>>
kAns == <<97, 110, 115>>
MCImServer == <<73, 109, 32, 83>>

\* buildJson, build_json, sendLightCommand, sendCCtoTcp, find_server.
MCTexts ==
    {Built(<< <<kType, t>>, <<kCmd, c>>, <<kDev, Str(n)>> >>) :
        t \in {TS, LC}, c \in {C, CC}, n \in Names}
      \union
    {Built(<< <<kType, TS>>, <<kCmd, C>>, <<kDev, Str(n)>>,
              <<kVal, Num(<<50, 46, 53>>)>> >>) : n \in Names}
      \union
    {Built(<< <<kType, LC>>, <<kCmd, C>>, <<kStatus, Str(<<111>>)>>,
              <<kNew, Num(m)>> >>) : m \in {<<48>>, <<49, 51>>}}
      \union
    {Built(<< <<kCmd, C>>, <<kId, Num(<<49>>)>>, <<kState, Str(<<111>>)>> >>),
     Built(<< <<kCmd, CC>>, <<kType, Serv>> >>),
     WHO_S, IM_S}

\* Among the names one that a key begins, and one that begins a key.
Alphabet ==
    {Lex(t) : t \in {"{", "}", ":", ",", "[", "]", " ", "quote"}}
      \union {Str(kCmd), Str(<<99, 99>>), Str(<<115>>), Num(<<49>>),
              [type |-> "badnum", str |-> <<49>>], Other(<<46>>)}

\* No '"' after an unclosed one, and a '.' after the digit of a bad number.
Possible(t) ==
    \A i \in DOMAIN t :
      /\ t[i].type = "quote" =>
            \A j \in (i + 1)..Len(t) : t[j].type \notin {"quote", "STR"}
      /\ t[i].type = "badnum" =>
            i < Len(t) /\ t[i + 1] = Other(<<46>>)

Templates ==
    LET N == Num(<<49>>)  S == Str(kCmd)  Q == Str(kState)  L(t) == Lex(t)
    IN  {<<L("{"), S, L(":"), L(" "), N, L("}")>>,
         <<L("{"), S, L(":"), S, L(","), Q, L(":"), N, L("}")>>,
         <<L("{"), S, L(":"), L("["), S, L(","), L("["), N, L("]"), L("]"),
           L(","), Q, L(":"), S, L("}")>>,
         <<L("{"), Q, L(":"), L("["), L(" "), L("]"), L(","), S, L(":"),
           L("["), L("]"), L("}")>>}

Edits(t) ==
    {RemoveAt(t, i) : i \in DOMAIN t}
      \union {ReplaceAt(t, i, l) : i \in DOMAIN t, l \in Alphabet}
      \union {InsertAt(t, i, l) : i \in DOMAIN t, l \in Alphabet}

MCDrafts ==
    {t \in UNION {{<<Lex("{")>> \o tail : tail \in [1..n -> Alphabet]} :
                     n \in 0..MaxTail}
              \union {<<l>> : l \in Alphabet}
              \union {<<l, Lex("}")>> : l \in Alphabet}
              \union Templates
              \union UNION {Edits(t) : t \in Templates} : Possible(t)}

\* Nothing, and the end of a longer message.
MCLeftovers == {<<>>, <<Lex("}")>>,
    <<Lex(","), Lex(" "), Str(kCmd), Lex(":"), Lex(" "), CC, Lex("}")>>}

MCJunk == {"STR", "{", "]"}
=============================================================================
