----------------------------- MODULE Discovery -----------------------------
(***************************************************************************)
(* How a light controller finds the server: recvDataServer broadcasts      *)
(* WHO S, the server reads it like any message and answers Im S, and the   *)
(* controller compares what it gets with that text.  Both messages go the  *)
(* way of Messages.                                                        *)
(***************************************************************************)
EXTENDS Messages

CONSTANTS
    AskKey, WhoServer,  \* the key and the value of the question
    AnsKey, ImServer,   \* of the answer
    TRIES,              \* answers it waits for in vain
    Strangers           \* bound on answers of other programs

\* {"key": "value"}
OnePair(key, value) ==
    LET Mark(p) == [type |-> p, str |-> <<>>]
        String(s) == [type |-> "STR", str |-> s]
    IN  <<Mark("{"), String(key), Mark(":"), Mark(" "), String(value), Mark("}")>>

WHO_S == OnePair(AskKey, WhoServer)
IM_S == OnePair(AnsKey, ImServer)

ASSUME QuestionSent == WHO_S \in Texts /\ IM_S \in Texts

\* The words have no byte of the key of the encryption (170), and every room
\* takes either text with its '\0'.
ASSUME WordsAreSafe ==
    \A word \in {AskKey, WhoServer, AnsKey, ImServer} :
        word \in Seq(Byte \ {0, 170})

ASSUME RoomsSuffice ==
    \A r \in Rooms, t \in {WHO_S, IM_S} : Len(Bytes(t)) + 3 <= r

ASSUME SearchBounds == TRIES \in Nat \ {0} /\ Strangers \in Nat

VARIABLES
    phase,          \* of the search; "none" for any other message
    question,       \* the bytes it broadcasts, encrypted once
    count_send,     \* answers waited for in vain
    asked,          \* broadcasts
    lost,           \* questions and answers lost or late
    strange         \* answers of other programs

search == <<phase, question, count_send, asked, lost, strange>>
allvars == <<vars, search>>

SearchInit ==
    /\ Init
    /\ phase \in IF sent = WHO_S THEN {"none", "asks"} ELSE {"none"}
    /\ question = <<>>
    /\ count_send = 0 /\ asked = 0 /\ lost = 0 /\ strange = 0

----------------------------------------------------------------------------
\* A message that is no part of a search, the question up to the server's
\* parser, and the encryption of the answer.
OnItsWay ==
    /\ \/ Send
       \/ phase # "answers" /\ (Receive \/ Decode)
       \/ Advance \/ Finish \/ Refuse
    /\ UNCHANGED <<phase, count_send, lost, strange>>
    /\ IF phase = "asks" /\ step = "built"
       THEN question' = wire' /\ asked' = 1
       ELSE UNCHANGED <<question, asked>>

Swapped(f) == [sender |-> f["receiver"], receiver |-> f["sender"]]

FreshParser == text' = <<>> /\ pos' = 1 /\ type' = junk

\* The next broadcast, of the bytes it has.
AskAgain ==
    /\ phase' = "asks"
    /\ sent' = WHO_S /\ wire' = question /\ step' = "sent"
    /\ asked' = asked + 1
    /\ IF phase = "answers"
       THEN is_enc' = Swapped(is_enc) /\ room' = Swapped(room)
       ELSE UNCHANGED <<is_enc, room>>
    /\ FreshParser
    /\ UNCHANGED <<junk, question>>

GiveUp ==
    /\ phase' = "givenup"
    /\ UNCHANGED <<vars, question, asked>>

\* recvfrom has waited two seconds.
Timeout ==
    /\ count_send' = count_send + 1
    /\ IF count_send' = TRIES THEN GiveUp ELSE AskAgain

\* The question or the answer is lost, or comes too late.
Lose ==
    /\ phase \in {"asks", "answers"} /\ step = "sent"
    /\ Timeout
    /\ lost' = lost + 1
    /\ UNCHANGED strange

\* The server does not answer what it cannot read.
NotUnderstood ==
    /\ phase = "asks" /\ step = "refused"
    /\ Timeout
    /\ UNCHANGED <<lost, strange>>

\* jsonManager and sendDeclare.
Answer ==
    /\ phase = "asks" /\ step = "taken"
    /\ GetVal(text, AskKey, junk) = <<[type |-> "STR", str |-> WhoServer]>>
    /\ phase' = "answers"
    /\ sent' = IM_S /\ wire' = <<>> /\ step' = "built"
    /\ is_enc' = Swapped(is_enc) /\ room' = Swapped(room)
    /\ FreshParser
    /\ UNCHANGED <<junk, question, count_send, asked, lost, strange>>

\* What strcmp compares with Im S; Failed when it cannot be decrypted.
Received ==
    IF is_enc["receiver"] THEN Decrypt(wire, room["receiver"]) ELSE Done(wire)

Found ==
    /\ phase = "answers" /\ step = "sent"
    /\ Received = Done(Bytes(IM_S))
    /\ phase' = "found"
    /\ UNCHANGED <<vars, question, count_send, asked, lost, strange>>

\* Another answer than the server's is not counted, only read and followed by
\* the next broadcast.
Foreign ==
    LET misread == phase = "answers" /\ Received # Done(Bytes(IM_S))
    IN  /\ phase \in {"asks", "answers"} /\ step = "sent"
        /\ misread \/ strange < Strangers
        /\ strange' = IF misread THEN strange ELSE strange + 1

CountsStrangers == Foreign /\ Timeout /\ UNCHANGED lost

NotTheServer == Foreign /\ AskAgain /\ UNCHANGED <<count_send, lost>>

\* The question does not fit the room for its encryption, or sendto fails.
CallFails ==
    /\ phase = "asks" /\ step \in {"unsent", "sent"}
    /\ GiveUp
    /\ UNCHANGED <<count_send, lost, strange>>

SearchNext ==
    \/ OnItsWay
    \/ Lose \/ NotUnderstood \/ Answer \/ Found \/ NotTheServer \/ CallFails

SearchSpec == SearchInit /\ [][SearchNext]_allvars

----------------------------------------------------------------------------
\* recvDataServer (broadcast.c 109-138) finds a server of its own mode, and gives
\* up only when the server runs in the other one, when TRIES of its questions
\* or their answers were lost, or when a call of its own failed.  It sends at most
\* five packets (broadcast.c 55), and one more after each answer of another
\* program: a server of the other mode stays silent, as an answer the controller
\* could not read would not be counted and the search would not end.
FindsItsServer ==
    /\ phase = "found" => is_enc["sender"] = is_enc["receiver"]
    /\ phase = "givenup" =>
          \/ is_enc["sender"] # is_enc["receiver"]
          \/ lost = TRIES
          \/ count_send < TRIES
    /\ asked <= TRIES + strange
=============================================================================
