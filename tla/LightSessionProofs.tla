------------------------- MODULE LightSessionProofs -------------------------
(***************************************************************************)
(* Theorems about LightSession, for any number of controllers, of tries,   *)
(* of commands and of hot readings.  The inductive invariant follows one   *)
(* session: as long as nothing excuses it, exactly one packet, or an       *)
(* acknowledgement and the reply behind it, is under way for every         *)
(* exchange, and who has it tells how far the exchange is.                 *)
(***************************************************************************)
EXTENDS LightSession, SequenceTheorems, TLAPS

Menu == {"menu", "send", "ack", "reply", "set", "close", "bye", "done"}
Sweep == {"poll", "sweep", "ack", "reply", "set", "done"}

\* Where the threads are: a thread in an exchange is at a controller, and it has
\* a try left before each of them.
Where ==
  /\ pc["main"] \in Menu
  /\ pc["getter"] \in Sweep
  /\ pc["main"] \in {"send", "ack", "reply", "set", "bye"} => on["main"] \in Controllers
  /\ pc["getter"] \in {"ack", "reply", "set"} => on["getter"] \in Controllers
  /\ pc["main"] \in {"send", "reply"} => attempt["main"] < TRIES
  /\ pc["getter"] = "reply" => attempt["getter"] < TRIES

Types == TypeOK /\ Where

----------------------------------------------------------------------------
\* Packets and the wire.

\* The packets of the two ends are packets.
LEMMA PacketTypes ==
  /\ \A p \in Packets : Answer(p) \in Packets
  /\ \A l \in BOOLEAN : Command(l) \in Packets /\ Reply(l) \in Packets
  /\ Accident \in Packets /\ ServerCC \in Packets /\ ClientCC \in Packets
  /\ \A f \in {"PSH|ACK", "FIN", "ACK", "RST"} : Empty(f) \in Packets
BY DEF Packets, Answer, AnswerFlags, Empty, Command, Reply, Accident, ServerCC, ClientCC, Packet

\* What is sent to a controller is a sequence of packets again.
LEMMA WireToLC ==
  ASSUME toLC \in [Controllers -> Seq(Packets)], NEW c \in Controllers,
         NEW ps \in Seq(Packets), ToLC(c, ps)
  PROVE  toLC' \in [Controllers -> Seq(Packets)]
<1>1. toLC[c] \o ps \in Seq(Packets)
  BY ConcatProperties
<1> QED
  BY <1>1 DEF ToLC

\* What is sent to the server is a sequence of packets again.
LEMMA WireToServer ==
  ASSUME toFd \in [Controllers -> Seq(Packets)], NEW c \in Controllers,
         NEW ps \in Seq(Packets), ToServer(c, ps)
  PROVE  toFd' \in [Controllers -> Seq(Packets)]
<1>1. toFd[c] \o ps \in Seq(Packets)
  BY ConcatProperties
<1> QED
  BY <1>1 DEF ToServer

\* A queue that is not empty has a first packet and a rest.
LEMMA Waiting ==
  ASSUME NEW q \in Seq(Packets), q # <<>>
  PROVE  Head(q) \in Packets /\ Tail(q) \in Seq(Packets)
BY HeadTailProperties

\* A thread that takes a packet and answers it keeps the queues well formed.
LEMMA WireTaken ==
  ASSUME TypeOK, NEW c \in Controllers, TakeAndAnswer(c)
  PROVE  /\ toLC' \in [Controllers -> Seq(Packets)]
         /\ toFd' \in [Controllers -> Seq(Packets)]
         /\ Head(toFd[c]) \in Packets
<1>1. toFd[c] \in Seq(Packets) /\ toFd[c] # <<>>
  BY DEF TypeOK, TakeAndAnswer
<1>2. Head(toFd[c]) \in Packets /\ Tail(toFd[c]) \in Seq(Packets)
  BY <1>1, Waiting
<1>3. <<Answer(Head(toFd[c]))>> \in Seq(Packets)
  BY <1>2, PacketTypes
<1>4. ToLC(c, <<Answer(Head(toFd[c]))>>)
  BY DEF TakeAndAnswer
<1>5. toLC' \in [Controllers -> Seq(Packets)]
  BY <1>3, <1>4, WireToLC DEF TypeOK
<1> QED
  BY <1>2, <1>5 DEF TypeOK, TakeAndAnswer

----------------------------------------------------------------------------
\* The types.

\* The first state is well typed.
LEMMA TypesInit == ASSUME SessionAssumption, Init PROVE Types
<1>1. Empty("RST") \in Packets /\ <<>> \in Seq(Packets)
  BY PacketTypes
<1>2. 0 \in 0 .. NControllers /\ 0 \in 0 .. TRIES
  BY DEF SessionAssumption
<1>3. pc = [u \in Users |-> IF u = "main" THEN "menu" ELSE "poll"] /\ pc["main"] = "menu" /\ pc["getter"] = "poll"
  BY DEF Init, Users
<1>4. Where /\ pc \in [Users -> Steps]
  BY <1>3 DEF Where, Users, Steps, Menu, Sweep
<1>5. 0 \in 0 .. MaxLoss /\ 0 \in 0 .. MaxCommands /\ 0 \in 0 .. MaxAlarms
  BY DEF SessionAssumption
<1>6. /\ toLC \in [Controllers -> Seq(Packets)] /\ toFd \in [Controllers -> Seq(Packets)]
      /\ got \in [Users -> Packets]
  BY <1>1 DEF Init
<1>7. TypeOK
  BY <1>2, <1>4, <1>5, <1>6 DEF Init, TypeOK
<1> QED
  BY <1>4, <1>7 DEF Types

\* A step of a controller, or the loss of a packet, keeps the types.
LEMMA TypesController ==
  ASSUME SessionAssumption, Types, NEW c \in Controllers,
         Controller(c) \/ Interrupted(c) \/ Lose(c)
  PROVE  Types'
<1> USE DEF Types, SessionAssumption
<1>1. toLC[c] \in Seq(Packets) /\ toFd[c] \in Seq(Packets) /\ <<>> \in Seq(Packets)
  BY DEF TypeOK
<1>2. ASSUME toLC[c] # <<>> PROVE Head(toLC[c]) \in Packets /\ Tail(toLC[c]) \in Seq(Packets)
  BY <1>1, <1>2, Waiting
<1>3. ASSUME toFd[c] # <<>> PROVE Head(toFd[c]) \in Packets /\ Tail(toFd[c]) \in Seq(Packets)
  BY <1>1, <1>3, Waiting
<1>4. ASSUME NEW ps \in Seq(Packets), SendCC(c, ps)
      PROVE  toFd' \in [Controllers -> Seq(Packets)] /\ ccSeen' \in [Controllers -> BOOLEAN]
  <2>1. Append(ps, ClientCC) \in Seq(Packets)
    BY PacketTypes
  <2> QED
    BY <1>4, <2>1, WireToServer DEF SendCC, TypeOK
<1>5. CASE Obey(c)
  <2> DEFINE p == Head(toLC[c])
  <2>1. p \in Packets /\ Tail(toLC[c]) \in Seq(Packets) /\ Answer(p) \in Packets
    BY <1>2, <1>5, PacketTypes DEF Obey
  <2>2. <<Answer(p)>> \in Seq(Packets) /\ (\A l \in BOOLEAN : <<Answer(p), Reply(l)>> \in Seq(Packets))
    BY <2>1, PacketTypes
  <2>3. (p.cmd = "set_light" /\ p.lamp) \in BOOLEAN
    BY <2>1 DEF Packets
  <2>4. toFd' \in [Controllers -> Seq(Packets)] /\ ccSeen' \in [Controllers -> BOOLEAN]
    BY <1>4, <1>5, <2>2, <2>3, WireToServer DEF Obey, TypeOK
  <2>5. toLC' \in [Controllers -> Seq(Packets)]
    BY <1>1, <1>5, <2>1, ZenonT(60) DEF Obey, Exit, TypeOK
  <2>6. lamp' \in [Controllers -> BOOLEAN] /\ heard' \in SUBSET Controllers
    BY <1>5, <2>3 DEF Obey, process, TypeOK
  <2>7. lc' \in [Controllers -> {"recv", "send", "gone"}]
    BY <1>5, ZenonT(60) DEF Obey, Exit, TypeOK
  <2>8. resends' = [resends EXCEPT ![c] = 1] \/ resends' = resends
    BY <1>5 DEF Obey, process
  <2>9. 1 \in 0 .. TRIES /\ resends \in [Controllers -> 0 .. TRIES]
    BY DEF TypeOK
  <2>10. resends' \in [Controllers -> 0 .. TRIES]
    BY <2>8, <2>9
  <2> QED
    BY <1>5, <2>4, <2>5, <2>6, <2>7, <2>10 DEF Obey, record, call, budget, TypeOK, Where
<1>6. CASE Acknowledged(c)
  BY <1>2, <1>6 DEF Acknowledged, process, record, call, budget, TypeOK, Where
<1>7. CASE ReplyTimeout(c)
  <2>1. <<Reply(lamp[c])>> \in Seq(Packets)
    BY PacketTypes DEF TypeOK
  <2>2. toFd' \in [Controllers -> Seq(Packets)]
    BY <1>7, <2>1, WireToServer DEF ReplyTimeout, TypeOK
  <2>3. /\ toLC' = [toLC EXCEPT ![c] = <<>>] \/ toLC' = toLC
        /\ lc' = [lc EXCEPT ![c] = "gone"] \/ lc' = lc
        /\ \/ resends[c] < TRIES /\ resends' = [resends EXCEPT ![c] = @ + 1]
           \/ resends' = resends
    BY <1>7 DEF ReplyTimeout, Exit
  <2>4. resends[c] + 1 \in 0 .. TRIES \/ ~(resends[c] < TRIES)
    BY DEF TypeOK
  <2>5. resends \in [Controllers -> 0 .. TRIES]
    BY DEF TypeOK
  <2>6. resends' \in [Controllers -> 0 .. TRIES]
    BY <2>3, <2>4, <2>5
  <2>7. lc' \in [Controllers -> {"recv", "send", "gone"}]
    BY <2>3 DEF TypeOK
  <2>8. toLC' \in [Controllers -> Seq(Packets)]
    BY <1>1, <2>3 DEF TypeOK
  <2> QED
    BY <1>7, <2>2, <2>6, <2>7, <2>8 DEF ReplyTimeout, record, call, budget, TypeOK, Where
<1>8. CASE Interrupted(c)
  <2>1. toFd' \in [Controllers -> Seq(Packets)] /\ ccSeen' \in [Controllers -> BOOLEAN]
    BY <1>1, <1>4, <1>8 DEF Interrupted, TypeOK
  <2>2. toLC' \in [Controllers -> Seq(Packets)] /\ lc' \in [Controllers -> {"recv", "send", "gone"}]
    BY <1>1, <1>8 DEF Interrupted, Exit, TypeOK
  <2> QED
    BY <1>8, <2>1, <2>2 DEF Interrupted, process, record, call, budget, TypeOK, Where
<1>9. CASE Lose(c)
  <2>1. lost' \in 0 .. MaxLoss
    BY <1>9 DEF Lose, TypeOK
  <2>2. \/ toLC[c] # <<>> /\ toLC' = [toLC EXCEPT ![c] = Tail(@)]
        \/ toLC' = toLC
    BY <1>9 DEF Lose
  <2>3. \/ toFd[c] # <<>> /\ toFd' = [toFd EXCEPT ![c] = Tail(@)]
        \/ toFd' = toFd
    BY <1>9 DEF Lose
  <2>4. toLC \in [Controllers -> Seq(Packets)] /\ toFd \in [Controllers -> Seq(Packets)]
    BY DEF TypeOK
  <2>5. toLC' \in [Controllers -> Seq(Packets)]
    BY <1>2, <2>2, <2>4
  <2>6. toFd' \in [Controllers -> Seq(Packets)]
    BY <1>3, <2>3, <2>4
  <2>7. ccSeen' \in [Controllers -> BOOLEAN]
    BY <1>9 DEF Lose, TypeOK
  <2> QED
    BY <1>9, <2>1, <2>5, <2>6, <2>7 DEF Lose, process, record, call, TypeOK, Where
<1> QED
  BY <1>5, <1>6, <1>7, <1>8, <1>9 DEF Controller

\* The values a thread's step may give to where it is.
LEMMA GoesTo ==
  ASSUME TypeOK, NEW u \in Users, NEW step \in Steps, Goto(u, step)
  PROVE  /\ pc' \in [Users -> Steps] /\ pc'[u] = step
         /\ \A v \in Users : v # u => pc'[v] = pc[v]
BY DEF Goto, TypeOK

\* A step of main in a command of the user keeps the types.
LEMMA TypesCommand ==
  ASSUME SessionAssumption, Types,
         \/ \E c \in Controllers, l \in BOOLEAN : UserSetsLight(c, l)
         \/ SendCommand \/ TakeAck("main") \/ CommandTimeout \/ TakeReply \/ NoReply \/ CommandEnds
  PROVE  Types'
<1> USE DEF Types, SessionAssumption
<1> DEFINE c == on["main"]
<1>1. "main" \in Users /\ "getter" \in Users /\ "main" # "getter" /\ Users = {"main", "getter"}
  BY DEF Users
<1>2. /\ pc \in [Users -> Steps] /\ on \in [Users -> 0 .. NControllers]
      /\ attempt \in [Users -> 0 .. TRIES] /\ got \in [Users -> Packets]
  BY DEF TypeOK
<1>3. ASSUME NEW d \in Controllers, NEW l \in BOOLEAN, UserSetsLight(d, l) PROVE Types'
  <2>1. d \in 0 .. NControllers /\ commands' \in 0 .. MaxCommands
    BY <1>3 DEF Controllers, UserSetsLight, TypeOK
  <2>2. /\ on' \in [Users -> 0 .. NControllers] /\ on'["main"] = d /\ on'["getter"] = on["getter"]
        /\ attempt' \in [Users -> 0 .. TRIES] /\ attempt'["main"] = 0
        /\ attempt'["getter"] = attempt["getter"]
    BY <1>1, <1>2, <1>3, <2>1 DEF UserSetsLight, Restart
  <2>3. /\ pc' \in [Users -> Steps] /\ pc'["main"] = "send" /\ pc'["getter"] = pc["getter"]
    BY <1>1, <1>3, GoesTo DEF UserSetsLight, Steps
  <2>4. 0 < TRIES
    OBVIOUS
  <2>5. Where'
    BY <2>2, <2>3, <2>4 DEF Where, Menu
  <2> QED
    BY <1>3, <2>1, <2>2, <2>3, <2>5 DEF UserSetsLight, process, record, TypeOK
<1>4. CASE SendCommand
  <2>1. c \in Controllers /\ attempt["main"] + 1 \in 0 .. TRIES
    BY <1>1, <1>2, <1>4 DEF SendCommand, Where
  <2>2. <<Command(wanted)>> \in Seq(Packets)
    BY PacketTypes DEF TypeOK
  <2>3. toLC' \in [Controllers -> Seq(Packets)]
    BY <1>4, <2>1, <2>2, WireToLC DEF SendCommand, TypeOK
  <2>4. /\ attempt' \in [Users -> 0 .. TRIES] /\ attempt'["getter"] = attempt["getter"]
    BY <1>1, <1>2, <1>4, <2>1 DEF SendCommand
  <2>5. /\ pc' \in [Users -> Steps] /\ pc'["main"] = "ack" /\ pc'["getter"] = pc["getter"]
    BY <1>1, <1>4, GoesTo DEF SendCommand, Steps
  <2>6. shared' \in SUBSET Controllers
    BY <1>4, <2>1 DEF SendCommand, Share, TypeOK
  <2> QED
    BY <1>4, <2>1, <2>3, <2>4, <2>5, <2>6 DEF SendCommand, process, record, budget, TypeOK, Where, Menu
<1>5. CASE TakeAck("main")
  <2>1. c \in Controllers /\ toFd[c] \in Seq(Packets) /\ Tail(toFd[c]) \in Seq(Packets)
    BY <1>1, <1>2, <1>5, Waiting DEF TakeAck, Where, TypeOK
  <2>2. toFd' \in [Controllers -> Seq(Packets)]
    BY <1>5, <2>1 DEF TakeAck, TypeOK
  <2>3. /\ attempt' \in [Users -> 0 .. TRIES] /\ attempt'["main"] = 0
        /\ attempt'["getter"] = attempt["getter"]
    BY <1>1, <1>2, <1>5 DEF TakeAck, Restart
  <2>4. /\ pc' \in [Users -> Steps] /\ pc'["main"] = "reply" /\ pc'["getter"] = pc["getter"]
    BY <1>1, <1>5, GoesTo DEF TakeAck, Steps
  <2>5. 0 < TRIES /\ on' = on
    BY <1>5 DEF TakeAck
  <2>6. Where'
    BY <2>1, <2>3, <2>4, <2>5 DEF Where, Menu
  <2> QED
    BY <1>5, <2>2, <2>3, <2>4, <2>6 DEF TakeAck, process, record, budget, TypeOK
<1>6. CASE CommandTimeout
  <2>1. /\ pc' \in [Users -> Steps] /\ pc'["getter"] = pc["getter"]
        /\ pc'["main"] = IF attempt["main"] < TRIES THEN "send" ELSE "menu"
    BY <1>1, <1>6, GoesTo DEF CommandTimeout, Steps
  <2> QED
    BY <1>6, <2>1 DEF CommandTimeout, process, record, budget, TypeOK, Where, Menu
<1>7. CASE TakeReply
  <2>1. c \in Controllers
    BY <1>1, <1>7 DEF TakeReply, Where
  <2>2. /\ toLC' \in [Controllers -> Seq(Packets)] /\ toFd' \in [Controllers -> Seq(Packets)]
        /\ got' \in [Users -> Packets]
    BY <1>1, <1>2, <1>7, <2>1, WireTaken DEF TakeReply
  <2>3. /\ pc' \in [Users -> Steps] /\ pc'["main"] = "set" /\ pc'["getter"] = pc["getter"]
    BY <1>1, <1>7, GoesTo DEF TakeReply, Steps
  <2> QED
    BY <1>7, <2>1, <2>2, <2>3 DEF TakeReply, process, record, budget, TypeOK, Where, Menu
<1>8. CASE NoReply
  <2>1. attempt["main"] + 1 \in 0 .. TRIES
    BY <1>1, <1>2, <1>8 DEF NoReply, Where
  <2>2. /\ attempt' \in [Users -> 0 .. TRIES] /\ attempt'["main"] = attempt["main"] + 1
        /\ attempt'["getter"] = attempt["getter"]
    BY <1>1, <1>2, <1>8, <2>1 DEF NoReply
  <2>3. /\ pc' \in [Users -> Steps] /\ pc'["getter"] = pc["getter"]
        /\ pc'["main"] = IF attempt["main"] + 1 < TRIES THEN "reply" ELSE "menu"
    BY <1>1, <1>8, GoesTo DEF NoReply, Steps
  <2> QED
    BY <1>8, <2>2, <2>3 DEF NoReply, process, record, budget, TypeOK, Where, Menu
<1>9. CASE CommandEnds
  <2>1. c \in Controllers
    BY <1>1, <1>9 DEF CommandEnds, Where
  <2>2. got["main"] \in Packets
    BY <1>1, <1>2
  <2>3. is_connected' \in [Controllers -> BOOLEAN] /\ light_mask' \in [Controllers -> BOOLEAN]
    BY <1>9, <2>1, <2>2 DEF CommandEnds, Heed, Packets, TypeOK
  <2>4. /\ pc' \in [Users -> Steps] /\ pc'["main"] = "menu" /\ pc'["getter"] = pc["getter"]
    BY <1>1, <1>9, GoesTo DEF CommandEnds, Steps
  <2> QED
    BY <1>9, <2>3, <2>4 DEF CommandEnds, process, budget, TypeOK, Where, Menu
<1> QED
  BY <1>3, <1>4, <1>5, <1>6, <1>7, <1>8, <1>9

\* A step of the getter keeps the types.
LEMMA TypesSweep ==
  ASSUME SessionAssumption, Types, SweepBegins \/ Getter
  PROVE  Types'
<1> USE DEF Types, SessionAssumption
<1> DEFINE c == on["getter"]
<1>1. "main" \in Users /\ "getter" \in Users /\ "main" # "getter" /\ Users = {"main", "getter"}
  BY DEF Users
<1>2. /\ pc \in [Users -> Steps] /\ on \in [Users -> 0 .. NControllers]
      /\ attempt \in [Users -> 0 .. TRIES] /\ got \in [Users -> Packets]
  BY DEF TypeOK
<1>3. ASSUME c \in Controllers, NextLight
      PROVE  /\ on' \in [Users -> 0 .. NControllers] /\ on'["main"] = on["main"]
             /\ pc' \in [Users -> Steps] /\ pc'["getter"] = "sweep" /\ pc'["main"] = pc["main"]
  <2>1. c + 1 \in 0 .. NControllers
    BY <1>3 DEF Controllers
  <2> QED
    BY <1>1, <1>2, <1>3, <2>1, GoesTo DEF NextLight, Steps
<1>4. CASE SweepBegins
  <2>1. alarms' \in 0 .. MaxAlarms /\ 0 \in 0 .. NControllers
    BY <1>4 DEF SweepBegins, TypeOK
  <2>2. on' \in [Users -> 0 .. NControllers] /\ on'["main"] = on["main"]
    BY <1>1, <1>2, <1>4, <2>1 DEF SweepBegins
  <2>3. pc' \in [Users -> Steps] /\ pc'["getter"] = "sweep" /\ pc'["main"] = pc["main"]
    BY <1>1, <1>4, GoesTo DEF SweepBegins, Steps
  <2> QED
    BY <1>1, <1>4, <2>1, <2>2, <2>3 DEF SweepBegins, record, TypeOK, Where, Sweep
<1>5. CASE SweepSkips
  <2>1. c + 1 \in 0 .. NControllers
    BY <1>1, <1>2, <1>5 DEF SweepSkips
  <2>2. on' \in [Users -> 0 .. NControllers] /\ on'["main"] = on["main"]
    BY <1>1, <1>2, <1>5, <2>1 DEF SweepSkips
  <2> QED
    BY <1>1, <1>5, <2>2 DEF SweepSkips, process, record, budget, TypeOK, Where, Sweep
<1>6. CASE SendAccident
  <2>1. c \in Controllers
    BY <1>1, <1>2, <1>6 DEF SendAccident, Controllers
  <2>2. <<Accident>> \in Seq(Packets)
    BY PacketTypes
  <2>3. toLC' \in [Controllers -> Seq(Packets)]
    BY <1>6, <2>1, <2>2, WireToLC DEF SendAccident, TypeOK
  <2>4. pc' \in [Users -> Steps] /\ pc'["getter"] = "ack" /\ pc'["main"] = pc["main"]
    BY <1>1, <1>6, GoesTo DEF SendAccident, Steps
  <2>5. shared' \in SUBSET Controllers
    BY <1>6, <2>1 DEF SendAccident, Share, TypeOK
  <2> QED
    BY <1>1, <1>6, <2>1, <2>3, <2>4, <2>5 DEF SendAccident, process, record, budget, TypeOK, Where, Sweep
<1>7. CASE TakeAck("getter")
  <2>1. c \in Controllers /\ toFd[c] \in Seq(Packets) /\ Tail(toFd[c]) \in Seq(Packets)
    BY <1>1, <1>2, <1>7, Waiting DEF TakeAck, Where, TypeOK
  <2>2. toFd' \in [Controllers -> Seq(Packets)]
    BY <1>7, <2>1 DEF TakeAck, TypeOK
  <2>3. /\ attempt' \in [Users -> 0 .. TRIES] /\ attempt'["getter"] = 0
        /\ attempt'["main"] = attempt["main"]
    BY <1>1, <1>2, <1>7 DEF TakeAck, Restart
  <2>4. pc' \in [Users -> Steps] /\ pc'["getter"] = "reply" /\ pc'["main"] = pc["main"]
    BY <1>1, <1>7, GoesTo DEF TakeAck, Steps
  <2>5. 0 < TRIES /\ on' = on
    BY <1>7 DEF TakeAck
  <2>6. Where'
    BY <2>1, <2>3, <2>4, <2>5 DEF Where, Sweep
  <2> QED
    BY <1>7, <2>2, <2>3, <2>4, <2>6 DEF TakeAck, process, record, budget, TypeOK
<1>8. CASE AccidentTimeout
  <2>1. /\ attempt' \in [Users -> 0 .. TRIES] /\ attempt'["getter"] = 0
        /\ attempt'["main"] = attempt["main"]
    BY <1>1, <1>2, <1>8 DEF AccidentTimeout, Restart
  <2>2. pc' \in [Users -> Steps] /\ pc'["getter"] = "reply" /\ pc'["main"] = pc["main"]
    BY <1>1, <1>8, GoesTo DEF AccidentTimeout, Steps
  <2>3. 0 < TRIES /\ on' = on /\ pc["getter"] = "ack"
    BY <1>8 DEF AccidentTimeout
  <2>4. Where'
    BY <2>1, <2>2, <2>3 DEF Where, Sweep
  <2> QED
    BY <1>8, <2>1, <2>2, <2>4 DEF AccidentTimeout, process, record, budget, TypeOK
<1>9. CASE TakeAccidentReply
  <2>1. c \in Controllers
    BY <1>1, <1>9 DEF TakeAccidentReply, Where
  <2>2. /\ toLC' \in [Controllers -> Seq(Packets)] /\ toFd' \in [Controllers -> Seq(Packets)]
        /\ got' \in [Users -> Packets]
    BY <1>1, <1>2, <1>9, <2>1, WireTaken DEF TakeAccidentReply
  <2>3. pc' \in [Users -> Steps] /\ pc'["getter"] = "set" /\ pc'["main"] = pc["main"]
    BY <1>1, <1>9, GoesTo DEF TakeAccidentReply, Steps
  <2> QED
    BY <1>9, <2>1, <2>2, <2>3 DEF TakeAccidentReply, process, record, budget, TypeOK, Where, Sweep
<1>10. CASE TakeEmptyReply
  <2>1. c \in Controllers
    BY <1>1, <1>10 DEF TakeEmptyReply, Where
  <2>2. /\ toLC' \in [Controllers -> Seq(Packets)] /\ toFd' \in [Controllers -> Seq(Packets)]
    BY <1>10, <2>1, WireTaken DEF TakeEmptyReply
  <2>3. got' \in [Users -> Packets]
    BY <1>1, <1>2, <1>10, PacketTypes DEF TakeEmptyReply
  <2>4. is_connected' \in [Controllers -> BOOLEAN] /\ mutex_tcp' \in Users \cup {Free}
    BY <1>10, <2>1 DEF TakeEmptyReply, Evicted, TypeOK
  <2>5. \/ NextLight
        \/ Goto("getter", "set") /\ on' = on
    BY <1>10 DEF TakeEmptyReply
  <2>6. /\ on' \in [Users -> 0 .. NControllers] /\ on'["main"] = on["main"]
        /\ pc' \in [Users -> Steps] /\ pc'["main"] = pc["main"]
        /\ \/ pc'["getter"] = "sweep"
           \/ pc'["getter"] = "set" /\ on' = on
    BY <1>1, <1>2, <1>3, <2>1, <2>5, GoesTo DEF Steps
  <2> QED
    BY <1>10, <2>1, <2>2, <2>3, <2>4, <2>6 DEF TakeEmptyReply, process, budget, TypeOK, Where, Sweep
<1>11. CASE NoAccidentReply
  <2>1. c \in Controllers /\ attempt["getter"] + 1 \in 0 .. TRIES
    BY <1>1, <1>2, <1>11 DEF NoAccidentReply, Where
  <2>2. /\ attempt' \in [Users -> 0 .. TRIES] /\ attempt'["getter"] = attempt["getter"] + 1
        /\ attempt'["main"] = attempt["main"]
    BY <1>1, <1>2, <1>11, <2>1 DEF NoAccidentReply
  <2>3. is_connected' \in [Controllers -> BOOLEAN]
    BY <1>11, <2>1 DEF NoAccidentReply, Evicted, TypeOK
  <2>4. \/ NextLight
        \/ pc' = pc /\ on' = on /\ attempt["getter"] + 1 < TRIES
    BY <1>11 DEF NoAccidentReply
  <2>5. /\ on' \in [Users -> 0 .. NControllers] /\ on'["main"] = on["main"]
        /\ pc' \in [Users -> Steps] /\ pc'["main"] = pc["main"]
        /\ \/ pc'["getter"] = "sweep"
           \/ pc' = pc /\ on' = on /\ attempt["getter"] + 1 < TRIES
    BY <1>1, <1>2, <1>3, <2>1, <2>4
  <2>6. Where'
    BY <1>11, <2>1, <2>2, <2>5 DEF NoAccidentReply, Where, Sweep
  <2> QED
    BY <1>11, <2>2, <2>3, <2>5, <2>6 DEF NoAccidentReply, process, budget, TypeOK
<1>12. CASE LightSwept
  <2>1. c \in Controllers /\ got["getter"] \in Packets
    BY <1>1, <1>2, <1>12 DEF LightSwept, Where
  <2>2. is_connected' \in [Controllers -> BOOLEAN] /\ light_mask' \in [Controllers -> BOOLEAN]
    BY <1>12, <2>1 DEF LightSwept, Heed, Packets, TypeOK
  <2>3. /\ on' \in [Users -> 0 .. NControllers] /\ on'["main"] = on["main"]
        /\ pc' \in [Users -> Steps] /\ pc'["getter"] = "sweep" /\ pc'["main"] = pc["main"]
    BY <1>3, <1>12, <2>1 DEF LightSwept
  <2> QED
    BY <1>12, <2>2, <2>3 DEF LightSwept, process, budget, TypeOK, Where, Sweep
<1>13. CASE SweepEnds
  <2>1. /\ pc' \in [Users -> Steps] /\ pc'["main"] = pc["main"] /\ pc'["getter"] \in {"poll", "done"}
    BY <1>1, <1>13, GoesTo DEF SweepEnds, Steps
  <2> QED
    BY <1>13, <2>1 DEF SweepEnds, process, record, budget, TypeOK, Where, Sweep
<1>14. CASE GetterStops
  <2>1. /\ pc' \in [Users -> Steps] /\ pc'["main"] = pc["main"] /\ pc'["getter"] = "done"
    BY <1>1, <1>14, GoesTo DEF GetterStops, Steps
  <2> QED
    BY <1>14, <2>1 DEF GetterStops, process, record, budget, TypeOK, Where, Sweep
<1>15. ASSUME NEW d \in Controllers, Disconnects(d) PROVE Types'
  <2>1. <<Empty("ACK")>> \in Seq(Packets)
    BY PacketTypes
  <2>2. toLC' \in [Controllers -> Seq(Packets)]
    BY <1>15, <2>1, WireToLC DEF Disconnects, TypeOK
  <2>3. /\ pc' \in [Users -> Steps] /\ pc'["main"] = pc["main"] /\ pc'["getter"] \in {"poll", "done"}
    BY <1>1, <1>15, GoesTo DEF Disconnects, Steps
  <2> QED
    BY <1>15, <2>2, <2>3 DEF Disconnects, Evicted, process, budget, TypeOK, Where, Sweep
<1> QED
  BY <1>4, <1>5, <1>6, <1>7, <1>8, <1>9, <1>10, <1>11, <1>12, <1>13, <1>14, <1>15 DEF Getter

\* The end of the server keeps the types.
LEMMA TypesClose ==
  ASSUME SessionAssumption, Types,
         Sigint \/ CloseBegins \/ CloseSkips \/ SendServerCC \/ CloseSocket \/ CloseEnds
  PROVE  Types'
<1> USE DEF Types, SessionAssumption
<1> DEFINE c == on["main"]
<1>1. "main" \in Users /\ "getter" \in Users /\ "main" # "getter" /\ Users = {"main", "getter"}
  BY DEF Users
<1>2. /\ pc \in [Users -> Steps] /\ on \in [Users -> 0 .. NControllers]
  BY DEF TypeOK
<1>3. CASE Sigint
  BY <1>3 DEF Sigint, process, record, call, budget, TypeOK, Where
<1>4. CASE CloseBegins
  <2>1. on' \in [Users -> 0 .. NControllers] /\ on'["getter"] = on["getter"]
    BY <1>1, <1>2, <1>4 DEF CloseBegins
  <2>2. pc' \in [Users -> Steps] /\ pc'["main"] = "close" /\ pc'["getter"] = pc["getter"]
    BY <1>1, <1>4, GoesTo DEF CloseBegins, Steps
  <2> QED
    BY <1>1, <1>4, <2>1, <2>2 DEF CloseBegins, process, record, budget, TypeOK, Where, Menu
<1>5. CASE CloseSkips
  <2>1. c + 1 \in 0 .. NControllers
    BY <1>1, <1>2, <1>5 DEF CloseSkips
  <2>2. on' \in [Users -> 0 .. NControllers] /\ on'["getter"] = on["getter"]
    BY <1>1, <1>2, <1>5, <2>1 DEF CloseSkips
  <2> QED
    BY <1>5, <2>2 DEF CloseSkips, process, record, budget, TypeOK, Where
<1>6. CASE SendServerCC
  <2>1. c \in Controllers
    BY <1>1, <1>2, <1>6 DEF SendServerCC, Controllers
  <2>2. <<ServerCC>> \in Seq(Packets)
    BY PacketTypes
  <2>3. toLC' \in [Controllers -> Seq(Packets)]
    BY <1>6, <2>1, <2>2, WireToLC DEF SendServerCC, TypeOK
  <2>4. pc' \in [Users -> Steps] /\ pc'["main"] = "bye" /\ pc'["getter"] = pc["getter"]
    BY <1>1, <1>6, GoesTo DEF SendServerCC, Steps
  <2>5. shared' \in SUBSET Controllers
    BY <1>6, <2>1 DEF SendServerCC, Share, TypeOK
  <2> QED
    BY <1>6, <2>1, <2>3, <2>4, <2>5 DEF SendServerCC, process, record, budget, TypeOK, Where, Menu
<1>7. CASE CloseSocket
  <2>1. c \in Controllers
    BY <1>1, <1>7 DEF CloseSocket, Where
  <2>2. c + 1 \in 0 .. NControllers
    BY <2>1 DEF Controllers
  <2>3. on' \in [Users -> 0 .. NControllers] /\ on'["getter"] = on["getter"]
    BY <1>1, <1>2, <1>7, <2>2 DEF CloseSocket
  <2>4. pc' \in [Users -> Steps] /\ pc'["main"] = "close" /\ pc'["getter"] = pc["getter"]
    BY <1>1, <1>7, GoesTo DEF CloseSocket, Steps
  <2>5. toFd' \in [Controllers -> Seq(Packets)] /\ is_connected' \in [Controllers -> BOOLEAN]
    BY <1>7, <2>1 DEF CloseSocket, Evicted, TypeOK
  <2> QED
    BY <1>7, <2>3, <2>4, <2>5 DEF CloseSocket, process, budget, TypeOK, Where, Menu
<1>8. CASE CloseEnds
  <2>1. pc' \in [Users -> Steps] /\ pc'["main"] = "done" /\ pc'["getter"] = pc["getter"]
    BY <1>1, <1>8, GoesTo DEF CloseEnds, Steps
  <2> QED
    BY <1>8, <2>1 DEF CloseEnds, process, record, budget, TypeOK, Where, Menu
<1> QED
  BY <1>3, <1>4, <1>5, <1>6, <1>7, <1>8

\* Every step keeps the types.
LEMMA TypesStep == ASSUME SessionAssumption, Types, [Next]_vars PROVE Types'
<1>1. CASE Next
  BY <1>1, TypesController, TypesCommand, TypesSweep, TypesClose DEF Next, Main, User
<1>2. CASE UNCHANGED vars
  BY <1>2 DEF Types, TypeOK, Where, vars
<1> QED
  BY <1>1, <1>2

\* The model is well typed for any number of controllers, tries, commands, hot
\* readings and lost packets.
THEOREM TypeCorrect == Spec => []TypeOK
<1>1. Init => Types
  BY TypesInit, SessionAssumption
<1>2. Types /\ [Next]_vars => Types'
  BY TypesStep, SessionAssumption
<1>3. Types => TypeOK
  BY DEF Types
<1> QED
  BY <1>1, <1>2, <1>3, PTL DEF Spec

----------------------------------------------------------------------------
\* One session, as long as nothing excuses it and the controller runs.

\* How tcpRecv acknowledges a reply.
Thanks == Empty("PSH|ACK")

\* Nothing is under way but, maybe, the acknowledgement of the latest reply.
Resting(c) ==
  /\ toFd[c] = <<>>
  /\ \/ lc[c] = "recv" /\ toLC[c] = <<>>
     \/ lc[c] = "send" /\ toLC[c] = <<Thanks>>

\* Packet p, which wants an answer, is on its way to the controller.
Asked(c, p) ==
  /\ toFd[c] = <<>>
  /\ \/ lc[c] = "recv" /\ toLC[c] = <<p>>
     \/ lc[c] = "send" /\ toLC[c] = <<Thanks, p>>

\* The controller has done what it was asked: the acknowledgement and the reply
\* are on their way, and then the reply alone.
Obeyed(c) ==
  /\ lc[c] = "send" /\ toLC[c] = <<>>
  /\ \E f \in {"PSH|ACK", "ACK"} : toFd[c] = <<Empty(f), Reply(lamp[c])>>
Replied(c) ==
  /\ lc[c] = "send" /\ toLC[c] = <<>>
  /\ toFd[c] = <<Reply(lamp[c])>>

Asks == {Command(TRUE), Command(FALSE), Accident}

\* What thread u, in an exchange with c, can rely on.
Along(u, c) ==
  /\ pc[u] = "ack" => Obeyed(c) \/ \E p \in Asks : Asked(c, p)
  /\ pc[u] = "reply" => Replied(c)
  /\ pc[u] = "set" => Resting(c) /\ got[u] = Reply(lamp[c])
  /\ pc[u] = "bye" => Asked(c, ServerCC)
  /\ pc[u] # "send"

Session(c) ==
  /\ ~(In("main", c) /\ In("getter", c))
  /\ \A u \in Users : In(u, c) => Along(u, c)
  /\ (\A u \in Users : ~In(u, c)) => Resting(c) /\ light_mask[c] = lamp[c]
  /\ is_connected[c]
  /\ c \in open

Alive(c) == lc[c] # "gone" /\ ~Excused(c)

\* A step leaves everything about the session of c alone.
Still(c) ==
  /\ lc'[c] = lc[c] /\ lamp'[c] = lamp[c]
  /\ toLC'[c] = toLC[c] /\ toFd'[c] = toFd[c]
  /\ is_connected'[c] = is_connected[c] /\ light_mask'[c] = light_mask[c]
  /\ c \in open' <=> c \in open

\* A step leaves alone where thread u is.
Stays(u) == pc'[u] = pc[u] /\ on'[u] = on[u] /\ attempt'[u] = attempt[u] /\ got'[u] = got[u]

\* A thread that stays is in the same exchange as before.
LEMMA StaysIn == ASSUME NEW u, NEW c, Stays(u) PROVE In(u, c)' <=> In(u, c)
BY DEF Stays, In

\* What a thread relies on is still there after a step that leaves the session
\* and the thread alone.
LEMMA StaysAlong ==
  ASSUME NEW c \in Controllers, NEW u \in Users, Still(c), Stays(u), Along(u, c)
  PROVE  Along(u, c)'
BY DEF Still, Stays, Along, Obeyed, Asked, Replied, Resting

\* A step of thread u elsewhere does not touch the session of c.
LEMMA Elsewhere ==
  ASSUME NEW c \in Controllers, NEW u \in Users, NEW v \in Users, u # v,
         Session(c), Still(c), Stays(v), ~In(u, c), ~In(u, c)'
  PROVE  Session(c)'
<1>1. \A w \in Users : w = u \/ w = v
  BY DEF Users
<1>2. In(v, c)' <=> In(v, c)
  BY StaysIn
<1>3. \A w \in Users : In(w, c)' <=> In(w, c)
  BY <1>1, <1>2
<1>4. ASSUME NEW w \in Users, In(w, c)' PROVE Along(w, c)'
  <2>1. w = v /\ In(v, c) /\ Along(v, c)
    BY <1>1, <1>3, <1>4 DEF Session
  <2> QED
    BY <2>1, StaysAlong
<1>5. ~(In("main", c)' /\ In("getter", c)')
  BY <1>3 DEF Session, Users
<1>6. (\A w \in Users : ~In(w, c)') => Resting(c)' /\ light_mask'[c] = lamp'[c]
  BY <1>3 DEF Session, Still, Resting
<1>7. is_connected'[c] /\ c \in open'
  BY DEF Session, Still
<1> QED
  BY <1>4, <1>5, <1>6, <1>7 DEF Session

\* A step of thread u in its exchange with c, which the other thread is not in.
LEMMA Turn ==
  ASSUME NEW c \in Controllers, NEW u \in Users, NEW v \in Users, u # v,
         Stays(v), ~In(v, c),
         In(u, c)' => Along(u, c)',
         ~In(u, c)' => Resting(c)' /\ light_mask'[c] = lamp'[c],
         is_connected'[c], c \in open'
  PROVE  Session(c)'
<1>1. \A w \in Users : w = u \/ w = v
  BY DEF Users
<1>2. ~In(v, c)'
  BY StaysIn
<1>3. \A w \in Users : In(w, c)' => Along(w, c)'
  BY <1>1, <1>2
<1>4. ~(In("main", c)' /\ In("getter", c)')
  BY <1>1, <1>2 DEF Users
<1> QED
  BY <1>1, <1>2, <1>3, <1>4 DEF Session

\* A step of a controller changes the place of no thread.
LEMMA Progress ==
  ASSUME NEW c \in Controllers, Session(c),
         \A u \in Users : Stays(u) /\ (Along(u, c) => Along(u, c)'),
         Resting(c) => Resting(c)' /\ lamp'[c] = lamp[c],
         light_mask'[c] = light_mask[c], is_connected'[c], c \in open'
  PROVE  Session(c)'
<1>1. \A u \in Users : In(u, c)' <=> In(u, c)
  BY StaysIn
<1>2. \A u \in Users : In(u, c)' => Along(u, c)'
  BY <1>1 DEF Session
<1>3. ~(In("main", c)' /\ In("getter", c)')
  BY <1>1 DEF Session, Users
<1>4. (\A u \in Users : ~In(u, c)') => Resting(c)' /\ light_mask'[c] = lamp'[c]
  BY <1>1 DEF Session
<1> QED
  BY <1>2, <1>3, <1>4 DEF Session

\* The exchange of a thread is its own: the other is not in one with c, and
\* there is nobody in one when it begins.
LEMMA OwnTurn ==
  ASSUME NEW c \in Controllers, NEW u \in Users, NEW v \in Users, u # v, Session(c)
  PROVE  /\ In(u, c) => ~In(v, c) /\ Along(u, c)
         /\ ~In(u, c) /\ ~In(v, c) => Resting(c) /\ light_mask[c] = lamp[c]
<1>1. \A w \in Users : w = u \/ w = v
  BY DEF Users
<1> QED
  BY <1>1 DEF Session, Users

\* A sequence of two.
LEMMA Two ==
  ASSUME NEW S, NEW p \in S, NEW q \in S, NEW s \in Seq(S), Len(s) = 2, s[1] = p, s[2] = q
  PROVE  s = <<p, q>>
<1>1. <<p, q>> \in Seq(S) /\ Len(<<p, q>>) = 2
  OBVIOUS
<1>2. ASSUME NEW i \in 1 .. 2 PROVE s[i] = <<p, q>>[i]
  BY i = 1 \/ i = 2
<1> QED
  BY <1>1, <1>2, SeqEqual

\* Short queues.
LEMMA Queues ==
  ASSUME NEW p, NEW q
  PROVE  /\ <<>> \o <<p>> = <<p>> /\ <<p>> \o <<q>> = <<p, q>> /\ <<>> \o <<p, q>> = <<p, q>>
         /\ Head(<<p>>) = p /\ Tail(<<p>>) = <<>>
         /\ Head(<<p, q>>) = p /\ Tail(<<p, q>>) = <<q>>
         /\ <<p>> # <<>> /\ <<p, q>> # <<>>
<1>1. <<p>> # <<>> /\ <<p, q>> # <<>>
  OBVIOUS
<1>2. <<>> \o <<p>> = <<p>> /\ <<>> \o <<p, q>> = <<p, q>>
  BY ConcatEmptySeq
<1>3. <<p>> \o <<q>> = <<p, q>>
  <2>1. <<p>> \in Seq({p, q}) /\ <<q>> \in Seq({p, q})
    OBVIOUS
  <2>2. Len(<<p>>) = 1 /\ Len(<<q>>) = 1 /\ <<p>>[1] = p /\ <<q>>[1] = q
    OBVIOUS
  <2>3. PICK a \in Seq({p, q}), b \in Seq({p, q}) :
          a = <<p>> /\ b = <<q>> /\ Len(a) = 1 /\ Len(b) = 1 /\ a[1] = p /\ b[1] = q
    BY <2>1, <2>2
  <2>4. a \o b \in Seq({p, q}) /\ Len(a \o b) = 2 /\ (a \o b)[1] = p /\ (a \o b)[2] = q
    BY <2>3, ConcatProperties
  <2>5. a \o b = <<p, q>>
    BY <2>4, Two
  <2> QED
    BY <2>3, <2>5
<1>4. Head(<<p>>) = p /\ Head(<<p, q>>) = p
  OBVIOUS
<1>5. Tail(<<p>>) = <<>>
  OBVIOUS
<1>6. Tail(<<p, q>>) = <<q>>
  OBVIOUS
<1> QED
  BY <1>1, <1>2, <1>3, <1>4, <1>5, <1>6

\* What the packets of an exchange say.
LEMMA Commands ==
  /\ \A l \in BOOLEAN : Reply(l).cmd = "send" /\ Reply(l).lamp = l /\ Answer(Reply(l)) = Thanks
  /\ Thanks.cmd = "none" /\ ServerCC.cmd = "CC"
  /\ \A p \in Asks : p.cmd \in {"set_light", "accident"} /\ p.lamp \in BOOLEAN
  /\ \A p \in Asks : Answer(p) \in {Empty("PSH|ACK"), Empty("ACK")}
BY DEF Reply, Thanks, Empty, Answer, AnswerFlags, ServerCC, Asks, Command, Accident, Packet

\* What excuses a session excuses it for ever, and a controller that is gone
\* does not come back.
LEMMA AliveBefore ==
  ASSUME Types, Next, NEW c \in Controllers, Alive(c)'
  PROVE  Alive(c)
<1>1. shared \subseteq shared' /\ (lost > 0 => lost' > 0) /\ (lc[c] = "gone" => lc'[c] = "gone")
  <2> USE DEF process, record, call, budget, Share, Types, TypeOK
  <2>1. CASE \E d \in Controllers : Controller(d) \/ Interrupted(d) \/ Lose(d)
    BY <2>1 DEF Controller, Obey, Acknowledged, ReplyTimeout, Exit, Interrupted, Lose
  <2>2. CASE Main
    BY <2>2 DEF Main, SendCommand, TakeAck, CommandTimeout, TakeReply, NoReply, CommandEnds,
                CloseSkips, SendServerCC, CloseSocket, CloseEnds
  <2>3. CASE Getter \/ SweepBegins
    BY <2>3 DEF Getter, SweepBegins, SweepSkips, SendAccident, TakeAck, AccidentTimeout,
                TakeAccidentReply, TakeEmptyReply, NoAccidentReply, LightSwept, SweepEnds,
                GetterStops, Disconnects
  <2>4. CASE User
    BY <2>4 DEF User, Sigint, CloseBegins, UserSetsLight
  <2> QED
    BY <2>1, <2>2, <2>3, <2>4 DEF Next
<1> QED
  BY <1>1 DEF Alive, Excused

\* What a step puts in the queues of others.
LEMMA Elsewhere_LC ==
  ASSUME Types, NEW c \in Controllers, NEW d \in Controllers, d # c, NEW ps, ToLC(d, ps)
  PROVE  toLC'[c] = toLC[c]
BY DEF Types, TypeOK, ToLC

\* The same for packets to the server.
LEMMA Elsewhere_Fd ==
  ASSUME Types, NEW c \in Controllers, NEW d \in Controllers, d # c, NEW ps, ToServer(d, ps)
  PROVE  toFd'[c] = toFd[c]
BY DEF Types, TypeOK, ToServer

\* A packet to a controller that runs comes behind those it has not read.
LEMMA Here_LC ==
  ASSUME Types, NEW c \in Controllers, lc[c] # "gone", NEW ps, ToLC(c, ps)
  PROVE  toLC'[c] = toLC[c] \o ps
BY DEF Types, TypeOK, ToLC

\* So does a packet to a socket that is open.
LEMMA Here_Fd ==
  ASSUME Types, NEW c \in Controllers, c \in open, NEW ps, ToServer(c, ps)
  PROVE  toFd'[c] = toFd[c] \o ps
BY DEF Types, TypeOK, ToServer

\* A controller that obeys has been asked by the one thread in an exchange with
\* it.
LEMMA SessionObey ==
  ASSUME Types, NEW c \in Controllers, Session(c), Alive(c)', Obey(c)
  PROVE  Session(c)' /\ Obeyed(c)'
<1> DEFINE p == Head(toLC[c])
           l == p.cmd = "set_light" /\ p.lamp
<1>1. lc[c] = "recv" /\ toLC[c] # <<>> /\ lc'[c] # "gone"
  BY DEF Obey, Alive
<1>2. p.cmd \in {"set_light", "accident"}
  BY <1>1 DEF Obey, Exit, Types, TypeOK
<1>3. /\ lamp' = [lamp EXCEPT ![c] = l]
      /\ lc' = [lc EXCEPT ![c] = "send"]
      /\ toLC' = [toLC EXCEPT ![c] = Tail(@)]
      /\ ToServer(c, <<Answer(p), Reply(l)>>)
  BY <1>2 DEF Obey
<1>4. ~Resting(c) /\ ~Obeyed(c) /\ ~Replied(c)
  BY <1>1 DEF Resting, Obeyed, Replied
<1>5. ASSUME NEW q, Asked(c, q) PROVE p = q /\ toLC[c] = <<q>> /\ toFd[c] = <<>>
  BY <1>1, <1>5, Queues DEF Asked
<1>6. PICK u \in Users : In(u, c)
  BY <1>4 DEF Session
<1>7. Along(u, c) /\ pc[u] \in {"ack", "reply", "set", "bye"}
  BY <1>6 DEF Session, In, Along
<1>8. ~Asked(c, ServerCC)
  BY <1>2, <1>5, Commands
<1>9. PICK q \in Asks : Asked(c, q)
  BY <1>4, <1>7, <1>8 DEF Along
<1>10. p = q /\ toLC[c] = <<q>> /\ toFd[c] = <<>>
  BY <1>5, <1>9
<1>11. PICK f \in {"PSH|ACK", "ACK"} : Answer(p) = Empty(f)
  BY <1>10, Commands
<1>12. toLC'[c] = <<>>
  BY <1>3, <1>10, Queues DEF Types, TypeOK
<1>13. toFd'[c] = <<>> \o <<Answer(p), Reply(l)>>
  BY <1>3, <1>10, Here_Fd DEF Session
<1>14. lamp'[c] = l /\ lc'[c] = "send"
  BY <1>3 DEF Types, TypeOK
<1>15. toFd'[c] = <<Empty(f), Reply(lamp'[c])>>
  BY <1>11, <1>13, <1>14, Queues
<1>16. Obeyed(c)'
  BY <1>12, <1>14, <1>15 DEF Obeyed
<1>17. \A v \in Users : Stays(v)
  BY DEF Obey, call, Stays
<1>18. ASSUME NEW v \in Users, Along(v, c) PROVE Along(v, c)'
  <2>1. pc[v] \notin {"reply", "set", "bye", "send"}
    BY <1>4, <1>8, <1>18 DEF Along
  <2> QED
    BY <1>16, <1>17, <2>1 DEF Along, Stays
<1>19. light_mask' = light_mask /\ is_connected' = is_connected /\ open' = open
  BY DEF Obey, record
<1>20. Session(c)'
  BY <1>4, <1>17, <1>18, <1>19, Progress DEF Session
<1> QED
  BY <1>16, <1>20

\* The acknowledgement of the latest reply is read first.
LEMMA SessionAcknowledged ==
  ASSUME Types, NEW c \in Controllers, Session(c), Acknowledged(c)
  PROVE  Session(c)' /\ ~Obeyed(c)'
<1>1. /\ lc[c] = "send" /\ toLC[c] # <<>>
      /\ lc'[c] = "recv" /\ toLC'[c] = Tail(toLC[c])
      /\ toFd' = toFd /\ lamp' = lamp /\ light_mask' = light_mask
      /\ is_connected' = is_connected /\ open' = open
  BY DEF Acknowledged, process, record, Types, TypeOK
<1>2. \A v \in Users : Stays(v)
  BY DEF Acknowledged, call, Stays
<1>3. ~Obeyed(c) /\ ~Replied(c) /\ ~Obeyed(c)'
  BY <1>1 DEF Obeyed, Replied
<1>4. Resting(c) => Resting(c)'
  BY <1>1, Queues DEF Resting
<1>5. ASSUME NEW q, Asked(c, q) PROVE Asked(c, q)'
  <2>1. toLC[c] = <<Thanks, q>> /\ toFd[c] = <<>>
    BY <1>1, <1>5 DEF Asked
  <2>2. toLC'[c] = <<q>>
    BY <1>1, <2>1, Queues
  <2> QED
    BY <1>1, <2>1, <2>2 DEF Asked
<1>6. ASSUME NEW v \in Users, Along(v, c) PROVE Along(v, c)'
  <2>1. /\ pc'[v] = pc[v] /\ got'[v] = got[v] /\ lamp'[c] = lamp[c]
    BY <1>1, <1>2 DEF Stays
  <2>2. pc[v] = "ack" => \E p \in Asks : Asked(c, p)'
    BY <1>3, <1>5, <1>6 DEF Along
  <2>3. pc[v] = "set" => Resting(c)' /\ got[v] = Reply(lamp[c])
    BY <1>4, <1>6 DEF Along
  <2>4. pc[v] = "bye" => Asked(c, ServerCC)'
    BY <1>5, <1>6 DEF Along
  <2>5. pc[v] # "reply" /\ pc[v] # "send"
    BY <1>3, <1>6 DEF Along
  <2> QED
    BY <2>1, <2>2, <2>3, <2>4, <2>5 DEF Along
<1> QED
  BY <1>1, <1>2, <1>3, <1>4, <1>6, Progress DEF Session

\* The controller never sends its reply again: the thread it answered reads what
\* is there.
LEMMA NoResend ==
  ASSUME Types, NEW c \in Controllers, Session(c)
  PROVE  ~ReplyTimeout(c)
<1> SUFFICES ASSUME ReplyTimeout(c) PROVE FALSE
  OBVIOUS
<1>1. lc[c] = "send" /\ Unanswered(c)
  BY DEF ReplyTimeout
<1>2. toLC[c] = <<>>
  BY <1>1 DEF Unanswered
<1>3. ~Resting(c) /\ (\A p : ~Asked(c, p))
  BY <1>1, <1>2, Queues DEF Resting, Asked
<1>4. PICK u \in Users : In(u, c)
  BY <1>3 DEF Session
<1>5. on[u] = c /\ Along(u, c) /\ pc[u] \in {"ack", "reply", "set", "bye"}
  BY <1>4 DEF Session, In, Along
<1>6. pc[u] \in {"ack", "reply"} /\ (Obeyed(c) \/ Replied(c))
  BY <1>3, <1>5 DEF Along
<1>7. toFd[c] # <<>>
  BY <1>6, Queues DEF Obeyed, Replied
<1> QED
  BY <1>1, <1>5, <1>6, <1>7 DEF Unanswered

\* A step of a controller keeps every session that stays alive.
LEMMA SessionController ==
  ASSUME Types, NEW c \in Controllers, NEW d \in Controllers, Session(c), Alive(c)',
         Controller(d) \/ Interrupted(d) \/ Lose(d)
  PROVE  Session(c)'
<1>1. CASE Lose(d)
  BY <1>1 DEF Lose, Alive, Excused, Types, TypeOK
<1>2. CASE c = d /\ ~Lose(d)
  BY <1>2, SessionObey, SessionAcknowledged, NoResend DEF Controller, Interrupted, Exit, Alive, Types, TypeOK
<1>3. CASE c # d /\ ~Lose(d)
  <2>1. \A u \in Users : Stays(u)
    BY <1>3 DEF Controller, Obey, Acknowledged, ReplyTimeout, Interrupted, call, Stays
  <2>2. /\ is_connected' = is_connected /\ light_mask' = light_mask /\ open' = open
    BY <1>3 DEF Controller, Obey, Acknowledged, ReplyTimeout, Interrupted, record
  <2>3. lc'[c] = lc[c] /\ lamp'[c] = lamp[c] /\ toLC'[c] = toLC[c]
    BY <1>3 DEF Controller, Obey, Acknowledged, ReplyTimeout, Interrupted, Exit, process, Types, TypeOK
  <2>4. toFd'[c] = toFd[c]
    BY <1>3, Elsewhere_Fd DEF Controller, Obey, Acknowledged, ReplyTimeout, Interrupted, SendCC
  <2>5. Still(c)
    BY <2>2, <2>3, <2>4 DEF Still
  <2>6. Resting(c) => Resting(c)'
    BY <2>5 DEF Still, Resting
  <2>7. \A u \in Users : Along(u, c) => Along(u, c)'
    BY <2>1, <2>5, StaysAlong
  <2> QED
    BY <2>1, <2>2, <2>3, <2>6, <2>7, Progress DEF Session
<1> QED
  BY <1>1, <1>2, <1>3

----------------------------------------------------------------------------
\* The steps of the two threads.  Those they share first.

\* The first packet of an exchange finds nobody in one.
LEMMA Beginning ==
  ASSUME Types, NEW c \in Controllers, NEW u \in Users, NEW v \in Users, u # v,
         Session(c), Alive(c), Alive(c)', ~In(u, c), Share(u, c), NEW p, ToLC(c, <<p>>),
         toFd' = toFd, lc' = lc
  PROVE  ~In(v, c) /\ Asked(c, p)'
<1>1. ~In(v, c)
  BY DEF Share, Alive, Excused
<1>2. Resting(c)
  BY <1>1, OwnTurn
<1>3. toLC'[c] = toLC[c] \o <<p>>
  BY Here_LC DEF Alive
<1>4. toLC'[c] = IF lc[c] = "recv" THEN <<p>> ELSE <<Thanks, p>>
  <2>1. CASE lc[c] = "recv"
    BY <1>2, <1>3, <2>1, Queues DEF Resting
  <2>2. CASE lc[c] # "recv"
    <3>1. toLC'[c] = <<Thanks>> \o <<p>>
      BY <1>2, <1>3, <2>2 DEF Resting
    <3> QED
      BY <2>2, <3>1, Queues
  <2> QED
    BY <2>1, <2>2
<1> QED
  BY <1>1, <1>2, <1>4 DEF Resting, Asked

\* tcpSend takes the acknowledgement, and only the reply is left.
LEMMA SessionTakeAck ==
  ASSUME Types, NEW c \in Controllers, NEW u \in Users, Session(c), TakeAck(u)
  PROVE  Session(c)' /\ (on[u] = c => Obeyed(c))
<1>1. PICK v \in Users : v # u
  BY DEF Users
<1>2. /\ pc[u] = "ack" /\ pc'[u] = "reply" /\ on' = on /\ toFd[on[u]] # <<>>
      /\ Stays(v) /\ toFd' = [toFd EXCEPT ![on[u]] = Tail(@)]
      /\ lc' = lc /\ lamp' = lamp /\ toLC' = toLC /\ is_connected' = is_connected
      /\ light_mask' = light_mask /\ open' = open
  BY <1>1 DEF TakeAck, Goto, Restart, Stays, process, record, Types, TypeOK
<1>3. CASE on[u] = c
  <2>1. In(u, c) /\ In(u, c)'
    BY <1>2, <1>3 DEF In
  <2>2. ~In(v, c) /\ Along(u, c)
    BY <1>1, <2>1, OwnTurn
  <2>3. Obeyed(c)
    BY <1>2, <1>3, <2>2 DEF Along, Asked
  <2>4. PICK f \in {"PSH|ACK", "ACK"} : toFd[c] = <<Empty(f), Reply(lamp[c])>>
    BY <2>3 DEF Obeyed
  <2>5. toFd'[c] = <<Reply(lamp[c])>>
    BY <1>2, <1>3, <2>4, Queues DEF Types, TypeOK
  <2>6. Along(u, c)'
    BY <1>2, <2>3, <2>5 DEF Along, Obeyed, Replied
  <2>7. Session(c)'
    BY <1>1, <1>2, <2>1, <2>2, <2>6, Turn DEF Session
  <2> QED
    BY <2>3, <2>7
<1>4. CASE on[u] # c
  <2>1. ~In(u, c) /\ ~In(u, c)'
    BY <1>2, <1>4 DEF In
  <2>2. Still(c)
    BY <1>2, <1>4 DEF Still, Types, TypeOK
  <2> QED
    BY <1>1, <1>2, <1>4, <2>1, <2>2, Elsewhere
<1> QED
  BY <1>3, <1>4

\* tcpRecv takes the reply and acknowledges it.
LEMMA Replying ==
  ASSUME Types, NEW c \in Controllers, Alive(c), Replied(c), TakeAndAnswer(c),
         lc' = lc, lamp' = lamp
  PROVE  Resting(c)' /\ Head(toFd[c]) = Reply(lamp[c])
<1>1. toFd[c] = <<Reply(lamp[c])>> /\ toLC[c] = <<>> /\ lc[c] = "send"
  BY DEF Replied
<1>2. Head(toFd[c]) = Reply(lamp[c]) /\ Tail(toFd[c]) = <<>>
  BY <1>1, Queues
<1>3. Answer(Head(toFd[c])) = Thanks
  BY <1>2, Commands DEF Types, TypeOK
<1>4. toLC'[c] = <<>> \o <<Thanks>>
  BY <1>1, <1>3, Here_LC DEF TakeAndAnswer, Alive
<1>5. toLC'[c] = <<Thanks>>
  BY <1>4, Queues
<1>6. toFd'[c] = <<>>
  BY <1>2 DEF TakeAndAnswer, Types, TypeOK
<1> QED
  BY <1>1, <1>2, <1>5, <1>6 DEF Resting

\* What a thread takes from another socket is no business of the session.
LEMMA TakenElsewhere ==
  ASSUME Types, NEW c \in Controllers, NEW d \in Controllers, d # c, TakeAndAnswer(d)
  PROVE  toLC'[c] = toLC[c] /\ toFd'[c] = toFd[c]
BY Elsewhere_LC DEF TakeAndAnswer, Types, TypeOK

\* A thread that waits for a controller that runs always finds a packet, or
\* knows of one that is on its way.
LEMMA NeverQuiet ==
  ASSUME Types, NEW c \in Controllers, NEW u \in Users, Session(c), on[u] = c,
         pc[u] \in {"ack", "reply", "bye"}
  PROVE  ~Quiet(c)
<1>1. In(u, c)
  BY DEF In
<1>2. Along(u, c)
  BY <1>1 DEF Session
<1>3. \/ Obeyed(c) \/ Replied(c) \/ \E p : Asked(c, p)
  BY <1>2 DEF Along
<1>4. Obeyed(c) => toFd[c] # <<>>
  BY Queues DEF Obeyed
<1>5. Replied(c) => toFd[c] # <<>>
  BY Queues DEF Replied
<1>6. ASSUME NEW p, Asked(c, p) PROVE toLC[c] # <<>>
  BY <1>6, Queues DEF Asked
<1> QED
  BY <1>3, <1>4, <1>5, <1>6 DEF Quiet

\* A reply is handled: the mask follows the lamp.
LEMMA Heeding ==
  ASSUME Types, NEW c \in Controllers, NEW u \in Users, Session(c), In(u, c), pc[u] = "set",
         Heed(c, got[u]), lc' = lc, lamp' = lamp, toLC' = toLC, toFd' = toFd
  PROVE  Resting(c)' /\ light_mask'[c] = lamp'[c] /\ is_connected'[c]
<1>1. Resting(c) /\ got[u] = Reply(lamp[c]) /\ is_connected[c]
  BY DEF Session, Along
<1>2. got[u].cmd = "send" /\ got[u].lamp = lamp[c]
  BY <1>1, Commands DEF Types, TypeOK
<1>3. is_connected'[c] = (is_connected[c] /\ got[u].cmd # "CC")
  BY DEF Heed, Types, TypeOK
<1>4. light_mask'[c] = lamp[c]
  BY <1>1, <1>2 DEF Heed, Types, TypeOK
<1> QED
  BY <1>1, <1>2, <1>3, <1>4 DEF Resting

\* And no other session is touched.
LEMMA HeededElsewhere ==
  ASSUME Types, NEW c \in Controllers, NEW d \in Controllers, d # c, NEW p, Heed(d, p)
  PROVE  is_connected'[c] = is_connected[c] /\ light_mask'[c] = light_mask[c]
BY DEF Heed, Types, TypeOK

\* A command of the user keeps every session that stays alive.
LEMMA SessionCommand ==
  ASSUME Types, NEW c \in Controllers, Session(c), Alive(c), Alive(c)',
         \/ \E d \in Controllers, l \in BOOLEAN : UserSetsLight(d, l)
         \/ SendCommand \/ TakeAck("main") \/ CommandTimeout \/ TakeReply \/ NoReply \/ CommandEnds
  PROVE  Session(c)'
<1> DEFINE d == on["main"]
<1>1. "main" \in Users /\ "getter" \in Users /\ "main" # "getter"
  BY DEF Users
<1>2. /\ pc \in [Users -> Steps] /\ on \in [Users -> 0 .. NControllers]
      /\ attempt \in [Users -> 0 .. TRIES] /\ got \in [Users -> Packets]
  BY DEF Types, TypeOK
<1>3. ASSUME NEW e \in Controllers, NEW l \in BOOLEAN, UserSetsLight(e, l) PROVE Session(c)'
  <2>1. Still(c) /\ Stays("getter")
    BY <1>1, <1>2, <1>3 DEF UserSetsLight, Goto, Restart, process, record, Still, Stays
  <2>2. ~In("main", c) /\ ~In("main", c)'
    BY <1>1, <1>2, <1>3 DEF UserSetsLight, Goto, Restart, In
  <2> QED
    BY <1>1, <2>1, <2>2, Elsewhere
<1>4. CASE SendCommand
  <2>1. /\ Stays("getter") /\ pc["main"] = "send" /\ pc'["main"] = "ack" /\ on' = on
        /\ d \in Controllers /\ ToLC(d, <<Command(wanted)>>) /\ Share("main", d)
        /\ toFd' = toFd /\ lc' = lc /\ lamp' = lamp /\ is_connected' = is_connected
        /\ light_mask' = light_mask /\ open' = open
    BY <1>1, <1>2, <1>4 DEF SendCommand, Goto, process, record, Stays, Types, Where
  <2>2. ~In("main", c)
    BY <1>1, <2>1, OwnTurn DEF Along
  <2>3. CASE d = c
    <3>1. In("main", c)'
      BY <2>1, <2>3 DEF In
    <3>2. PICK l \in BOOLEAN : l = wanted
      BY DEF Types, TypeOK
    <3>3. ToLC(c, <<Command(l)>>) /\ Command(l) \in Asks
      BY <2>1, <2>3, <3>2 DEF Asks
    <3>4. ~In("getter", c) /\ Asked(c, Command(l))'
      BY <1>1, <2>1, <2>2, <2>3, <3>3, Beginning
    <3>5. Along("main", c)'
      BY <2>1, <3>3, <3>4 DEF Along
    <3> QED
      BY <1>1, <2>1, <3>1, <3>4, <3>5, Turn DEF Session
  <2>4. CASE d # c
    <3>1. ~In("main", c)'
      BY <2>1, <2>4 DEF In
    <3>2. Still(c)
      BY <2>1, <2>4, Elsewhere_LC DEF Still
    <3> QED
      BY <1>1, <2>1, <2>2, <3>1, <3>2, Elsewhere
  <2> QED
    BY <2>3, <2>4
<1>5. CASE TakeAck("main")
  BY <1>1, <1>5, SessionTakeAck
<1>6. CASE CommandTimeout \/ NoReply
  <2>1. /\ Stays("getter") /\ pc["main"] \in {"ack", "reply"} /\ on' = on /\ Quiet(d) /\ Still(c)
    BY <1>1, <1>2, <1>6 DEF CommandTimeout, NoReply, Goto, process, record, Stays, Still
  <2>2. d # c
    BY <1>1, <2>1, NeverQuiet
  <2>3. ~In("main", c) /\ ~In("main", c)'
    BY <2>1, <2>2 DEF In
  <2> QED
    BY <1>1, <2>1, <2>3, Elsewhere
<1>7. CASE TakeReply
  <2>1. /\ Stays("getter") /\ pc["main"] = "reply" /\ pc'["main"] = "set" /\ on' = on
        /\ d \in Controllers /\ TakeAndAnswer(d) /\ got'["main"] = Head(toFd[d])
        /\ lc' = lc /\ lamp' = lamp /\ is_connected' = is_connected
        /\ light_mask' = light_mask /\ open' = open
    BY <1>1, <1>2, <1>7 DEF TakeReply, Goto, process, record, Stays, Types, Where
  <2>2. CASE d = c
    <3>1. In("main", c) /\ In("main", c)'
      BY <2>1, <2>2 DEF In
    <3>2. ~In("getter", c) /\ Along("main", c)
      BY <1>1, <3>1, OwnTurn
    <3>3. Resting(c)' /\ Head(toFd[c]) = Reply(lamp[c])
      BY <2>1, <2>2, <3>2, Replying DEF Along
    <3>4. Along("main", c)'
      BY <2>1, <2>2, <3>3 DEF Along
    <3> QED
      BY <1>1, <2>1, <3>1, <3>2, <3>4, Turn DEF Session
  <2>3. CASE d # c
    <3>1. ~In("main", c) /\ ~In("main", c)'
      BY <2>1, <2>3 DEF In
    <3>2. Still(c)
      BY <2>1, <2>3, TakenElsewhere DEF Still
    <3> QED
      BY <1>1, <2>1, <3>1, <3>2, Elsewhere
  <2> QED
    BY <2>2, <2>3
<1>8. CASE CommandEnds
  <2>1. /\ Stays("getter") /\ pc["main"] = "set" /\ pc'["main"] = "menu" /\ on' = on
        /\ d \in Controllers /\ Heed(d, got["main"])
        /\ lc' = lc /\ lamp' = lamp /\ toLC' = toLC /\ toFd' = toFd /\ open' = open
    BY <1>1, <1>2, <1>8 DEF CommandEnds, Goto, process, Stays, Types, Where
  <2>2. ~In("main", c)'
    BY <2>1 DEF In
  <2>3. CASE d = c
    <3>1. In("main", c)
      BY <2>1, <2>3 DEF In
    <3>2. ~In("getter", c)
      BY <1>1, <3>1, OwnTurn
    <3>3. Resting(c)' /\ light_mask'[c] = lamp'[c] /\ is_connected'[c]
      BY <1>1, <2>1, <2>3, <3>1, Heeding
    <3> QED
      BY <1>1, <2>1, <2>2, <3>2, <3>3, Turn DEF Session
  <2>4. CASE d # c
    <3>1. ~In("main", c)
      BY <2>4 DEF In
    <3>2. Still(c)
      BY <2>1, <2>4, HeededElsewhere DEF Still
    <3> QED
      BY <1>1, <2>1, <2>2, <3>1, <3>2, Elsewhere
  <2> QED
    BY <2>3, <2>4
<1> QED
  BY <1>3, <1>4, <1>5, <1>6, <1>7, <1>8

\* The end of the server keeps every session that stays alive: no socket is
\* closed under a controller that runs.
LEMMA SessionClose ==
  ASSUME Types, NEW c \in Controllers, Session(c), Alive(c), Alive(c)',
         Sigint \/ CloseBegins \/ CloseSkips \/ SendServerCC \/ CloseSocket \/ CloseEnds
  PROVE  Session(c)'
<1> DEFINE d == on["main"]
<1>1. "main" \in Users /\ "getter" \in Users /\ "main" # "getter"
  BY DEF Users
<1>2. /\ pc \in [Users -> Steps] /\ on \in [Users -> 0 .. NControllers]
  BY DEF Types, TypeOK
<1>3. CASE Sigint
  <2>1. Still(c) /\ \A u \in Users : Stays(u)
    BY <1>3 DEF Sigint, process, record, call, Still, Stays
  <2>2. \A u \in Users : Along(u, c) => Along(u, c)'
    BY <2>1, StaysAlong
  <2> QED
    BY <2>1, <2>2, Progress DEF Still, Resting, Session
<1>4. CASE CloseBegins \/ CloseSkips \/ CloseEnds
  <2>1. Still(c) /\ Stays("getter")
    BY <1>1, <1>2, <1>4 DEF CloseBegins, CloseSkips, CloseEnds, Goto, process, record, Still, Stays
  <2>2. ~In("main", c) /\ ~In("main", c)'
    BY <1>1, <1>2, <1>4 DEF CloseBegins, CloseSkips, CloseEnds, Goto, In
  <2> QED
    BY <1>1, <2>1, <2>2, Elsewhere
<1>5. CASE SendServerCC
  <2>1. /\ Stays("getter") /\ pc["main"] = "close" /\ pc'["main"] = "bye" /\ on' = on
        /\ d \in Controllers /\ ToLC(d, <<ServerCC>>) /\ Share("main", d)
        /\ toFd' = toFd /\ lc' = lc /\ lamp' = lamp /\ is_connected' = is_connected
        /\ light_mask' = light_mask /\ open' = open
    <3>1. d \in Controllers
      BY <1>1, <1>2, <1>5, SessionAssumption DEF SendServerCC, Controllers
    <3> QED
      BY <1>1, <1>2, <1>5, <3>1 DEF SendServerCC, Goto, process, record, Stays
  <2>2. ~In("main", c)
    BY <2>1 DEF In
  <2>3. CASE d = c
    <3>1. In("main", c)'
      BY <2>1, <2>3 DEF In
    <3>2. ~In("getter", c) /\ Asked(c, ServerCC)'
      BY <1>1, <2>1, <2>2, <2>3, Beginning
    <3>3. Along("main", c)'
      BY <2>1, <3>2 DEF Along, Asked
    <3> QED
      BY <1>1, <2>1, <3>1, <3>2, <3>3, Turn DEF Session
  <2>4. CASE d # c
    <3>1. ~In("main", c)'
      BY <2>1, <2>4 DEF In
    <3>2. Still(c)
      BY <2>1, <2>4, Elsewhere_LC DEF Still
    <3> QED
      BY <1>1, <2>1, <2>2, <3>1, <3>2, Elsewhere
  <2> QED
    BY <2>3, <2>4
<1>6. CASE CloseSocket
  <2>1. /\ Stays("getter") /\ pc["main"] = "bye" /\ pc'["main"] = "close"
        /\ d \in Controllers /\ (toFd[d] # <<>> \/ Quiet(d))
    BY <1>1, <1>2, <1>6 DEF CloseSocket, Goto, Stays, Types, Where
  <2>2. d # c
    <3> SUFFICES ASSUME d = c PROVE FALSE
      OBVIOUS
    <3>1. In("main", c) /\ ~Quiet(c)
      BY <1>1, <2>1, NeverQuiet DEF In
    <3>2. toFd[c] = <<>>
      BY <1>1, <2>1, <3>1 DEF Session, Along, Asked
    <3> QED
      BY <2>1, <3>1, <3>2
  <2>3. Still(c)
    BY <1>6, <2>2 DEF CloseSocket, Evicted, process, Still, Types, TypeOK
  <2>4. ~In("main", c) /\ ~In("main", c)'
    BY <2>1, <2>2 DEF In
  <2> QED
    BY <1>1, <2>1, <2>3, <2>4, Elsewhere
<1> QED
  BY <1>3, <1>4, <1>5, <1>6

\* The sweep keeps every session that stays alive.
LEMMA SessionSweep ==
  ASSUME Types, NEW c \in Controllers, Session(c), Alive(c), Alive(c)', ccSeen[c] => lc[c] = "gone",
         SweepBegins \/ Getter
  PROVE  Session(c)'
<1> DEFINE d == on["getter"]
<1>1. "main" \in Users /\ "getter" \in Users /\ "main" # "getter"
  BY DEF Users
<1>2. /\ pc \in [Users -> Steps] /\ on \in [Users -> 0 .. NControllers]
      /\ attempt \in [Users -> 0 .. TRIES] /\ got \in [Users -> Packets]
  BY DEF Types, TypeOK
<1>3. CASE SweepBegins \/ SweepSkips \/ SweepEnds \/ GetterStops
  <2>1. Still(c) /\ Stays("main")
    BY <1>1, <1>2, <1>3 DEF SweepBegins, SweepSkips, SweepEnds, GetterStops, Goto, process, record, Still, Stays
  <2>2. ~In("getter", c) /\ ~In("getter", c)'
    BY <1>1, <1>2, <1>3 DEF SweepBegins, SweepSkips, SweepEnds, GetterStops, Goto, In
  <2> QED
    BY <1>1, <2>1, <2>2, Elsewhere
<1>4. CASE SendAccident
  <2>1. d \in Controllers
    BY <1>1, <1>2, <1>4, SessionAssumption DEF SendAccident, Controllers
  <2>2. /\ Stays("main") /\ pc["getter"] = "sweep" /\ pc'["getter"] = "ack" /\ on' = on
        /\ ToLC(d, <<Accident>>) /\ Share("getter", d)
        /\ toFd' = toFd /\ lc' = lc /\ lamp' = lamp /\ is_connected' = is_connected
        /\ light_mask' = light_mask /\ open' = open
    BY <1>1, <1>2, <1>4 DEF SendAccident, Goto, process, record, Stays
  <2>3. ~In("getter", c)
    BY <2>2 DEF In
  <2>4. CASE d = c
    <3>1. In("getter", c)'
      BY <2>2, <2>4 DEF In
    <3>2. ~In("main", c) /\ Asked(c, Accident)'
      BY <1>1, <2>2, <2>3, <2>4, Beginning
    <3>3. Along("getter", c)'
      BY <2>2, <3>2 DEF Along, Asks
    <3> QED
      BY <1>1, <2>2, <3>1, <3>2, <3>3, Turn DEF Session
  <2>5. CASE d # c
    <3>1. ~In("getter", c)'
      BY <2>2, <2>5 DEF In
    <3>2. Still(c)
      BY <2>1, <2>2, <2>5, Elsewhere_LC DEF Still
    <3> QED
      BY <1>1, <2>2, <2>3, <3>1, <3>2, Elsewhere
  <2> QED
    BY <2>4, <2>5
<1>5. CASE TakeAck("getter")
  BY <1>1, <1>5, SessionTakeAck
<1>6. CASE AccidentTimeout \/ NoAccidentReply
  <2>1. Stays("main") /\ pc["getter"] \in {"ack", "reply"} /\ Quiet(d) /\ d \in Controllers
    BY <1>1, <1>2, <1>6 DEF AccidentTimeout, NoAccidentReply, Goto, Restart, NextLight, Stays, Types, Where
  <2>2. d # c
    BY <1>1, <2>1, NeverQuiet
  <2>3. Still(c)
    BY <1>6, <2>1, <2>2 DEF AccidentTimeout, NoAccidentReply, Evicted, process, record, Still, Types, TypeOK
  <2>4. pc'["getter"] = "sweep" \/ on' = on
    BY <1>1, <1>2, <1>6 DEF AccidentTimeout, NoAccidentReply, NextLight, Goto
  <2>5. ~In("getter", c) /\ ~In("getter", c)'
    BY <2>2, <2>4 DEF In
  <2> QED
    BY <1>1, <2>1, <2>3, <2>5, Elsewhere
<1>7. CASE TakeAccidentReply
  <2>1. /\ Stays("main") /\ pc["getter"] = "reply" /\ pc'["getter"] = "set" /\ on' = on
        /\ d \in Controllers /\ TakeAndAnswer(d) /\ got'["getter"] = Head(toFd[d])
        /\ lc' = lc /\ lamp' = lamp /\ is_connected' = is_connected
        /\ light_mask' = light_mask /\ open' = open
    BY <1>1, <1>2, <1>7 DEF TakeAccidentReply, Goto, process, record, Stays, Types, Where
  <2>2. CASE d = c
    <3>1. In("getter", c) /\ In("getter", c)'
      BY <2>1, <2>2 DEF In
    <3>2. ~In("main", c) /\ Along("getter", c)
      BY <1>1, <3>1, OwnTurn
    <3>3. Resting(c)' /\ Head(toFd[c]) = Reply(lamp[c])
      BY <2>1, <2>2, <3>2, Replying DEF Along
    <3>4. Along("getter", c)'
      BY <2>1, <2>2, <3>3 DEF Along
    <3> QED
      BY <1>1, <2>1, <3>1, <3>2, <3>4, Turn DEF Session
  <2>3. CASE d # c
    <3>1. ~In("getter", c) /\ ~In("getter", c)'
      BY <2>1, <2>3 DEF In
    <3>2. Still(c)
      BY <2>1, <2>3, TakenElsewhere DEF Still
    <3> QED
      BY <1>1, <2>1, <3>1, <3>2, Elsewhere
  <2> QED
    BY <2>2, <2>3
<1>8. CASE TakeEmptyReply
  <2>1. pc["getter"] = "reply" /\ d \in Controllers /\ TakeAndAnswer(d) /\ Head(toFd[d]).cmd = "none"
    BY <1>8 DEF TakeEmptyReply, Types, Where
  <2>2. d # c
    <3> SUFFICES ASSUME d = c PROVE FALSE
      OBVIOUS
    <3>1. In("getter", c) /\ Along("getter", c)
      BY <1>1, <2>1 DEF In, Session
    <3>2. toFd[c] = <<Reply(lamp[c])>>
      BY <2>1, <3>1 DEF Along, Replied
    <3>3. Head(toFd[c]) = Reply(lamp[c]) /\ Reply(lamp[c]).cmd = "send"
      BY <3>2, Queues, Commands DEF Types, TypeOK
    <3> QED
      BY <2>1, <3>3
  <2>3. Stays("main")
    BY <1>1, <1>2, <1>8 DEF TakeEmptyReply, NextLight, Goto, Stays
  <2>4. is_connected'[c] = is_connected[c]
    BY <1>8, <2>2 DEF TakeEmptyReply, Evicted, Types, TypeOK
  <2>5. Still(c)
    BY <1>8, <2>1, <2>2, <2>4, TakenElsewhere DEF TakeEmptyReply, process, Still
  <2>6. pc'["getter"] = "sweep" \/ on' = on
    BY <1>1, <1>2, <1>8 DEF TakeEmptyReply, NextLight, Goto
  <2>7. ~In("getter", c) /\ ~In("getter", c)'
    BY <2>2, <2>6 DEF In
  <2> QED
    BY <1>1, <2>3, <2>5, <2>7, Elsewhere
<1>9. CASE LightSwept
  <2>1. /\ Stays("main") /\ pc["getter"] = "set" /\ pc'["getter"] = "sweep"
        /\ d \in Controllers /\ Heed(d, got["getter"])
        /\ lc' = lc /\ lamp' = lamp /\ toLC' = toLC /\ toFd' = toFd /\ open' = open
    BY <1>1, <1>2, <1>9 DEF LightSwept, NextLight, Goto, process, Stays, Types, Where
  <2>2. ~In("getter", c)'
    BY <2>1 DEF In
  <2>3. CASE d = c
    <3>1. In("getter", c)
      BY <2>1, <2>3 DEF In
    <3>2. ~In("main", c)
      BY <1>1, <3>1, OwnTurn
    <3>3. Resting(c)' /\ light_mask'[c] = lamp'[c] /\ is_connected'[c]
      BY <1>1, <2>1, <2>3, <3>1, Heeding
    <3> QED
      BY <1>1, <2>1, <2>2, <3>2, <3>3, Turn DEF Session
  <2>4. CASE d # c
    <3>1. ~In("getter", c)
      BY <2>4 DEF In
    <3>2. Still(c)
      BY <2>1, <2>4, HeededElsewhere DEF Still
    <3> QED
      BY <1>1, <2>1, <2>2, <3>1, <3>2, Elsewhere
  <2> QED
    BY <2>3, <2>4
<1>10. ASSUME NEW e \in Controllers, Disconnects(e) PROVE Session(c)'
  <2>1. e # c
    BY <1>10 DEF Disconnects, Alive
  <2>2. toLC'[c] = toLC[c]
    BY <1>10, <2>1, Elsewhere_LC DEF Disconnects
  <2>3. Still(c) /\ Stays("main")
    BY <1>1, <1>2, <1>10, <2>1, <2>2 DEF Disconnects, Evicted, Goto, process, Still, Stays, Types, TypeOK
  <2>4. ~In("getter", c) /\ ~In("getter", c)'
    BY <1>1, <1>2, <1>10 DEF Disconnects, Goto, In
  <2> QED
    BY <1>1, <2>3, <2>4, Elsewhere
<1> QED
  BY <1>3, <1>4, <1>5, <1>6, <1>7, <1>8, <1>9, <1>10 DEF Getter

----------------------------------------------------------------------------
\* What the sweep, and the end of the server, leave behind.

\* The sweep is past c, or at it and beyond its acknowledgement, only when the
\* controller has done what the accident asks.
Obedience(c) ==
  /\ alarms > 0 /\ on["getter"] > c => c \in heard
  /\ on["getter"] = c /\ pc["getter"] = "ack" => Asked(c, Accident) \/ (Obeyed(c) /\ c \in heard)
  /\ on["getter"] = c /\ pc["getter"] \in {"reply", "set"} => c \in heard

\* A server that stops is not past a controller that runs.
NotTold(c) ==
  /\ pc["main"] \in {"close", "bye"} => on["main"] <= c
  /\ pc["main"] # "done"

\* What does not need a controller that runs: its CC is the last it sends, and
\* its replies are acknowledged at once.
Once(c) ==
  /\ ccSeen[c] => lc[c] = "gone"
  /\ resends[c] <= 1 \/ Excused(c)

SessionInv ==
  /\ Types
  /\ \A c \in Controllers : Once(c)
  /\ \A c \in Controllers : Alive(c) => Session(c) /\ Obedience(c) /\ NotTold(c)

\* A step that leaves the sweep and what was heard alone, and the session when
\* the sweep is at it.
LEMMA ObedienceStays ==
  ASSUME NEW c \in Controllers, Obedience(c), Stays("getter"), alarms' = alarms,
         c \in heard => c \in heard',
         on["getter"] = c /\ pc["getter"] = "ack" => Still(c) /\ c \in open
  PROVE  Obedience(c)'
<1>1. on["getter"] = c /\ pc["getter"] = "ack" => (Asked(c, Accident) => Asked(c, Accident)') /\ (Obeyed(c) => Obeyed(c)')
  BY DEF Still, Asked, Obeyed
<1> QED
  BY <1>1 DEF Obedience, Stays

\* A step of a controller keeps what the sweep relies on.
LEMMA ObedienceController ==
  ASSUME Types, NEW c \in Controllers, NEW d \in Controllers, Session(c), Obedience(c),
         Alive(c)', Controller(d) \/ Interrupted(d) \/ Lose(d)
  PROVE  Obedience(c)'
<1>1. Stays("getter") /\ alarms' = alarms
  BY DEF Controller, Obey, Acknowledged, ReplyTimeout, Interrupted, Lose, call, budget, Stays
<1>2. c \in heard => c \in heard'
  BY DEF Controller, Obey, Acknowledged, ReplyTimeout, Interrupted, Lose, process
<1>3. ~Lose(d)
  BY DEF Lose, Alive, Excused, Types, TypeOK
<1>4. CASE d # c
  <2>1. lc'[c] = lc[c] /\ lamp'[c] = lamp[c] /\ toLC'[c] = toLC[c]
    BY <1>3, <1>4 DEF Controller, Obey, Acknowledged, ReplyTimeout, Interrupted, Exit, process, Types, TypeOK
  <2>2. toFd'[c] = toFd[c]
    BY <1>3, <1>4, Elsewhere_Fd DEF Controller, Obey, Acknowledged, ReplyTimeout, Interrupted, SendCC
  <2>3. is_connected' = is_connected /\ light_mask' = light_mask /\ open' = open
    BY <1>3, <1>4 DEF Controller, Obey, Acknowledged, ReplyTimeout, Interrupted, record
  <2>4. Still(c)
    BY <2>1, <2>2, <2>3 DEF Still
  <2> QED
    BY <1>1, <1>2, <2>4, ObedienceStays DEF Session
<1>5. CASE d = c /\ Obey(c)
  <2>1. Obeyed(c)'
    BY <1>5, SessionObey
  <2>2. ASSUME on["getter"] = c, pc["getter"] = "ack" PROVE c \in heard'
    <3>1. lc[c] = "recv" /\ toLC[c] # <<>>
      BY <1>5 DEF Obey
    <3>2. Asked(c, Accident)
      BY <2>2, <3>1 DEF Obedience, Obeyed
    <3>3. Head(toLC[c]) = Accident
      BY <3>1, <3>2, Queues DEF Asked
    <3>4. Accident.cmd = "accident"
      BY DEF Accident, Packet
    <3> QED
      BY <1>5, <3>3, <3>4 DEF Obey
  <2> QED
    BY <1>1, <1>2, <2>1, <2>2 DEF Obedience, Stays
<1>6. CASE d = c /\ Acknowledged(c)
  <2>1. /\ lc[c] = "send" /\ toLC[c] # <<>> /\ lc'[c] = "recv"
        /\ toLC'[c] = Tail(toLC[c]) /\ toFd' = toFd
    BY <1>6 DEF Acknowledged, Types, TypeOK
  <2>2. Asked(c, Accident) => Asked(c, Accident)'
    <3> SUFFICES ASSUME Asked(c, Accident) PROVE Asked(c, Accident)'
      OBVIOUS
    <3>1. toLC[c] = <<Thanks, Accident>> /\ toFd[c] = <<>>
      BY <2>1 DEF Asked
    <3>2. toLC'[c] = <<Accident>>
      BY <2>1, <3>1, Queues
    <3> QED
      BY <2>1, <3>1, <3>2 DEF Asked
  <2>3. ~Obeyed(c)
    BY <2>1 DEF Obeyed
  <2> QED
    BY <1>1, <1>2, <2>2, <2>3 DEF Obedience, Stays
<1> QED
  BY <1>3, <1>4, <1>5, <1>6, NoResend DEF Controller, Interrupted, Exit, Alive, Types, TypeOK

\* A step of main does not touch what the sweep relies on: they are not in an
\* exchange with c at once.
LEMMA ObedienceMain ==
  ASSUME Types, NEW c \in Controllers, Session(c), Obedience(c), Alive(c), Alive(c)', Main \/ User
  PROVE  Obedience(c)'
<1> DEFINE d == on["main"]
<1>1. "main" \in Users /\ "getter" \in Users /\ "main" # "getter"
  BY DEF Users
<1>2. /\ pc \in [Users -> Steps] /\ on \in [Users -> 0 .. NControllers]
      /\ attempt \in [Users -> 0 .. TRIES] /\ got \in [Users -> Packets]
  BY DEF Types, TypeOK
<1>3. Stays("getter") /\ alarms' = alarms /\ heard' = heard
  BY <1>1, <1>2 DEF Main, User, SendCommand, TakeAck, CommandTimeout, TakeReply, NoReply, CommandEnds,
        CloseSkips, SendServerCC, CloseSocket, CloseEnds, Sigint, CloseBegins, UserSetsLight,
        Goto, Restart, process, call, budget, Stays
<1>4. ASSUME on["getter"] = c, pc["getter"] = "ack" PROVE Still(c)
  <2>1. In("getter", c) /\ ~In("main", c)
    BY <1>1, <1>4, OwnTurn DEF In
  <2>2. CASE SendCommand
    <3>1. d \in Controllers /\ ToLC(d, <<Command(wanted)>>) /\ Share("main", d)
      BY <2>2 DEF SendCommand, Types, Where
    <3>2. d # c
      BY <1>1, <2>1, <3>1 DEF Share, Alive, Excused
    <3>3. toLC'[c] = toLC[c]
      BY <3>1, <3>2, Elsewhere_LC
    <3> QED
      BY <2>2, <3>3 DEF SendCommand, process, record, Still
  <2>3. CASE SendServerCC
    <3>1. d \in Controllers
      BY <1>1, <1>2, <2>3, SessionAssumption DEF SendServerCC, Controllers
    <3>2. d # c
      BY <1>1, <2>1, <2>3 DEF SendServerCC, Share, Alive, Excused
    <3>3. toLC'[c] = toLC[c]
      BY <2>3, <3>1, <3>2, Elsewhere_LC DEF SendServerCC
    <3> QED
      BY <2>3, <3>3 DEF SendServerCC, process, record, Still
  <2>4. CASE TakeAck("main") \/ TakeReply \/ CommandEnds \/ CloseSocket
    <3>1. d \in Controllers /\ d # c
      BY <2>1, <2>4 DEF TakeAck, TakeReply, CommandEnds, CloseSocket, In, Types, Where
    <3>2. toLC'[c] = toLC[c] /\ toFd'[c] = toFd[c]
      BY <2>4, <3>1, TakenElsewhere DEF TakeAck, TakeReply, CommandEnds, CloseSocket, Types, TypeOK
    <3>3. is_connected'[c] = is_connected[c] /\ light_mask'[c] = light_mask[c]
      BY <2>4, <3>1, HeededElsewhere DEF TakeAck, TakeReply, CommandEnds, CloseSocket, Evicted, record, Types, TypeOK
    <3> QED
      BY <2>4, <3>1, <3>2, <3>3 DEF TakeAck, TakeReply, CommandEnds, CloseSocket, process, record, Still
  <2>5. CASE CommandTimeout \/ NoReply \/ CloseSkips \/ CloseEnds \/ User
    BY <2>5 DEF CommandTimeout, NoReply, CloseSkips, CloseEnds, User, Sigint, CloseBegins,
                UserSetsLight, process, record, Still
  <2> QED
    BY <2>2, <2>3, <2>4, <2>5 DEF Main
<1> QED
  BY <1>3, <1>4, ObedienceStays DEF Session

\* The sweep goes on only when the controller has done what it was asked.
LEMMA ObedienceSweep ==
  ASSUME Types, NEW c \in Controllers, Session(c), Obedience(c), Alive(c), Alive(c)',
         SweepBegins \/ Getter
  PROVE  Obedience(c)'
<1> DEFINE d == on["getter"]
<1>1. "main" \in Users /\ "getter" \in Users /\ "main" # "getter"
  BY DEF Users
<1>2. /\ pc \in [Users -> Steps] /\ on \in [Users -> 0 .. NControllers] /\ c \in Nat /\ d \in Nat
  BY <1>1 DEF Types, TypeOK, Controllers
<1>4. CASE SweepBegins
  <2>1. on'["getter"] = 0 /\ pc'["getter"] = "sweep"
    BY <1>1, <1>2, <1>4 DEF SweepBegins, Goto
  <2> QED
    BY <1>2, <2>1 DEF Obedience
<1>5. CASE SweepSkips
  <2>1. d # c
    BY <1>5 DEF SweepSkips, Session
  <2>2. on'["getter"] = d + 1 /\ pc["getter"] = "sweep" /\ pc' = pc /\ alarms' = alarms /\ heard' = heard
    BY <1>1, <1>2, <1>5 DEF SweepSkips, budget, process
  <2> QED
    BY <1>2, <2>1, <2>2 DEF Obedience
<1>6. CASE SendAccident
  <2>1. d \in Controllers
    BY <1>1, <1>2, <1>6, SessionAssumption DEF SendAccident, Controllers
  <2>2. /\ pc["getter"] = "sweep" /\ pc'["getter"] = "ack" /\ on' = on /\ alarms' = alarms
        /\ heard' = heard /\ ToLC(d, <<Accident>>) /\ Share("getter", d) /\ toFd' = toFd /\ lc' = lc
    BY <1>1, <1>2, <1>6 DEF SendAccident, Goto, budget, process
  <2>3. d = c => Asked(c, Accident)'
    BY <1>1, <2>2, Beginning DEF In
  <2> QED
    BY <2>2, <2>3 DEF Obedience
<1>7. CASE TakeAck("getter")
  <2>1. /\ pc["getter"] = "ack" /\ pc'["getter"] = "reply" /\ on' = on /\ alarms' = alarms /\ heard' = heard
    BY <1>1, <1>2, <1>7 DEF TakeAck, Goto, budget, process
  <2>2. d = c => c \in heard
    <3> SUFFICES ASSUME d = c PROVE c \in heard
      OBVIOUS
    <3>1. toFd[c] # <<>>
      BY <1>7 DEF TakeAck
    <3> QED
      BY <2>1, <3>1 DEF Obedience, Asked
  <2> QED
    BY <2>1, <2>2 DEF Obedience
<1>8. CASE AccidentTimeout \/ NoAccidentReply
  <2>1. pc["getter"] \in {"ack", "reply"} /\ Quiet(d)
    BY <1>8 DEF AccidentTimeout, NoAccidentReply
  <2>2. d # c
    BY <1>1, <2>1, NeverQuiet
  <2>3. alarms' = alarms /\ heard' = heard
    BY <1>8 DEF AccidentTimeout, NoAccidentReply, budget, process
  <2>4. \/ on' = on
        \/ on'["getter"] = d + 1 /\ pc'["getter"] = "sweep"
    BY <1>1, <1>2, <1>8 DEF AccidentTimeout, NoAccidentReply, NextLight, Goto
  <2> QED
    BY <1>2, <2>2, <2>3, <2>4 DEF Obedience
<1>9. CASE TakeAccidentReply \/ TakeEmptyReply \/ LightSwept
  <2>1. pc["getter"] \in {"reply", "set"} /\ alarms' = alarms /\ heard' = heard
    BY <1>9 DEF TakeAccidentReply, TakeEmptyReply, LightSwept, budget, process
  <2>2. \/ on' = on /\ pc'["getter"] = "set"
        \/ on'["getter"] = d + 1 /\ pc'["getter"] = "sweep"
    BY <1>1, <1>2, <1>9 DEF TakeAccidentReply, TakeEmptyReply, LightSwept, NextLight, Goto
  <2> QED
    BY <1>2, <2>1, <2>2 DEF Obedience
<1>10. CASE SweepEnds \/ GetterStops \/ \E e \in Controllers : Disconnects(e)
  <2>1. pc'["getter"] \in {"poll", "done"} /\ on' = on /\ alarms' = alarms /\ heard' = heard
    BY <1>1, <1>2, <1>10 DEF SweepEnds, GetterStops, Disconnects, Goto, budget, process
  <2> QED
    BY <2>1 DEF Obedience
<1> QED
  BY <1>4, <1>5, <1>6, <1>7, <1>8, <1>9, <1>10 DEF Getter

\* A server that stops waits for every controller that runs.
LEMMA NotToldStep ==
  ASSUME Types, NEW c \in Controllers, Session(c), NotTold(c), Next
  PROVE  NotTold(c)'
<1> DEFINE d == on["main"]
<1>1. "main" \in Users /\ "getter" \in Users /\ "main" # "getter"
  BY DEF Users
<1>2. /\ pc \in [Users -> Steps] /\ on \in [Users -> 0 .. NControllers]
      /\ c \in Nat /\ d \in Nat /\ c < NControllers /\ NControllers \in Nat
  <2>1. NControllers \in Nat /\ c \in 0 .. NControllers - 1
    BY SessionAssumption DEF Controllers
  <2>2. pc \in [Users -> Steps] /\ on \in [Users -> 0 .. NControllers]
    BY DEF Types, TypeOK
  <2>3. d \in 0 .. NControllers
    BY <1>1, <2>2
  <2> QED
    BY <2>1, <2>2, <2>3
<1>3. CASE CloseBegins
  <2>1. on'["main"] = 0 /\ pc'["main"] = "close"
    BY <1>1, <1>2, <1>3 DEF CloseBegins, Goto
  <2> QED
    BY <1>2, <2>1 DEF NotTold
<1>4. CASE CloseSkips
  <2>1. d # c /\ pc["main"] = "close" /\ on'["main"] = d + 1 /\ pc' = pc
    BY <1>1, <1>2, <1>4 DEF CloseSkips, Session
  <2> QED
    BY <1>2, <2>1 DEF NotTold
<1>5. CASE SendServerCC
  <2>1. pc["main"] = "close" /\ on' = on /\ pc'["main"] = "bye"
    BY <1>1, <1>2, <1>5 DEF SendServerCC, Goto
  <2> QED
    BY <2>1 DEF NotTold
<1>6. CASE CloseSocket
  <2>1. pc["main"] = "bye" /\ on'["main"] = d + 1 /\ pc'["main"] = "close" /\ (toFd[d] # <<>> \/ Quiet(d))
    BY <1>1, <1>2, <1>6 DEF CloseSocket, Goto
  <2>2. d # c
    <3> SUFFICES ASSUME d = c PROVE FALSE
      OBVIOUS
    <3>1. In("main", c) /\ ~Quiet(c)
      BY <1>1, <2>1, NeverQuiet DEF In
    <3>2. toFd[c] = <<>>
      BY <1>1, <2>1, <3>1 DEF Session, Along, Asked
    <3> QED
      BY <2>1, <3>1, <3>2
  <2> QED
    BY <1>2, <2>1, <2>2 DEF NotTold
<1>7. CASE CloseEnds
  BY <1>2, <1>7 DEF CloseEnds, NotTold
<1>8. CASE SendCommand \/ TakeAck("main") \/ CommandTimeout \/ TakeReply \/ NoReply \/ CommandEnds
           \/ \E e \in Controllers, l \in BOOLEAN : UserSetsLight(e, l)
  <2>1. pc'["main"] \notin {"close", "bye", "done"}
    BY <1>1, <1>2, <1>8 DEF SendCommand, TakeAck, CommandTimeout, TakeReply, NoReply, CommandEnds, UserSetsLight, Goto
  <2> QED
    BY <2>1 DEF NotTold
<1>9. CASE Sigint \/ SweepBegins \/ Getter
           \/ \E e \in Controllers : Controller(e) \/ Interrupted(e) \/ Lose(e)
  <2>1. pc'["main"] = pc["main"] /\ on'["main"] = on["main"]
    BY <1>1, <1>2, <1>9 DEF Sigint, SweepBegins, Getter, SweepSkips, SendAccident, TakeAck,
         AccidentTimeout, TakeAccidentReply, TakeEmptyReply, NoAccidentReply, LightSwept, SweepEnds,
         GetterStops, Disconnects, Controller, Obey, Acknowledged, ReplyTimeout, Interrupted, Lose,
         NextLight, Goto, call
  <2> QED
    BY <2>1 DEF NotTold
<1> QED
  BY <1>3, <1>4, <1>5, <1>6, <1>7, <1>8, <1>9 DEF Next, Main, User

\* The first reply of a controller is acknowledged, and its CC is its last packet.
LEMMA OnceStep ==
  ASSUME Types, NEW c \in Controllers, Once(c), Alive(c) => Session(c), Next
  PROVE  Once(c)'
<1>1. CASE \E d \in Controllers : Controller(d) \/ Interrupted(d) \/ Lose(d)
  <2> PICK d \in Controllers : Controller(d) \/ Interrupted(d) \/ Lose(d)
    BY <1>1
  <2>1. /\ lc[c] = "gone" => lc'[c] = "gone"
        /\ Excused(c) => Excused(c)'
    BY DEF Controller, Obey, Acknowledged, ReplyTimeout, Interrupted, Lose, Exit, budget, Excused, Types, TypeOK
  <2>2. ccSeen'[c] => ccSeen[c] \/ lc'[c] = "gone"
    BY DEF Controller, Obey, Acknowledged, ReplyTimeout, Interrupted, Lose, Exit, SendCC, process, Types, TypeOK
  <2>3. CASE ReplyTimeout(d)
    <3>1. d = c => Excused(c)
      BY <2>3, NoResend DEF Alive, ReplyTimeout
    <3>2. d # c => resends'[c] = resends[c]
      BY <2>3 DEF ReplyTimeout, Types, TypeOK
    <3> QED
      BY <2>1, <2>2, <3>1, <3>2 DEF Once
  <2>4. CASE ~ReplyTimeout(d)
    <3>1. resends'[c] = resends[c] \/ resends'[c] = 1
      BY <2>4 DEF Controller, Obey, Acknowledged, Interrupted, Lose, process, Types, TypeOK
    <3> QED
      BY <2>1, <2>2, <3>1 DEF Once
  <2> QED
    BY <2>3, <2>4
<1>2. CASE Main \/ Getter \/ SweepBegins \/ User
  <2>1. lc' = lc /\ resends' = resends /\ (ccSeen'[c] => ccSeen[c])
    BY <1>2 DEF Main, User, SendCommand, TakeAck, CommandTimeout, TakeReply, NoReply, CommandEnds,
         CloseSkips, SendServerCC, CloseSocket, CloseEnds, Sigint, CloseBegins, UserSetsLight,
         SweepBegins, Getter, SweepSkips, SendAccident, AccidentTimeout, TakeAccidentReply,
         TakeEmptyReply, NoAccidentReply, LightSwept, SweepEnds, GetterStops, Disconnects, process,
         Types, TypeOK
  <2>2. Excused(c) => Excused(c)'
    BY <1>2 DEF Main, User, SendCommand, TakeAck, CommandTimeout, TakeReply, NoReply, CommandEnds,
         CloseSkips, SendServerCC, CloseSocket, CloseEnds, Sigint, CloseBegins, UserSetsLight,
         SweepBegins, Getter, SweepSkips, SendAccident, AccidentTimeout, TakeAccidentReply,
         TakeEmptyReply, NoAccidentReply, LightSwept, SweepEnds, GetterStops, Disconnects, budget,
         Share, Excused
  <2> QED
    BY <2>1, <2>2 DEF Once
<1> QED
  BY <1>1, <1>2 DEF Next

----------------------------------------------------------------------------
\* The invariant, and what follows from it.

\* When the sessions begin nothing is under way.
LEMMA SessionInit == ASSUME Init PROVE SessionInv
<1>1. Types
  BY TypesInit, SessionAssumption
<1>2. ASSUME NEW c \in Controllers
      PROVE  Once(c) /\ Session(c) /\ Obedience(c) /\ NotTold(c)
  <2>1. /\ pc["main"] = "menu" /\ pc["getter"] = "poll" /\ alarms = 0
        /\ lc[c] = "recv" /\ toLC[c] = <<>> /\ toFd[c] = <<>> /\ ~ccSeen[c] /\ resends[c] = 0
        /\ is_connected[c] /\ ~light_mask[c] /\ ~lamp[c] /\ c \in open
        /\ light_mask[c] = lamp[c]
    BY DEF Init, Users
  <2>2. \A u \in Users : ~In(u, c)
    BY <2>1 DEF In, Users
  <2>3. Session(c)
    BY <2>1, <2>2 DEF Session, Resting, Users
  <2> QED
    BY <2>1, <2>3 DEF Once, Obedience, NotTold
<1> QED
  BY <1>1, <1>2 DEF SessionInv

\* Every step keeps the invariant.
LEMMA SessionStep == ASSUME SessionInv, [Next]_vars PROVE SessionInv'
<1>1. CASE Next
  <2>1. Types'
    BY <1>1, TypesStep, SessionAssumption DEF SessionInv
  <2>2. ASSUME NEW c \in Controllers PROVE Once(c)'
    BY <1>1, OnceStep DEF SessionInv
  <2>3. ASSUME NEW c \in Controllers, Alive(c)'
        PROVE  Session(c)' /\ Obedience(c)' /\ NotTold(c)'
    <3>1. Alive(c)
      BY <1>1, <2>3, AliveBefore DEF SessionInv
    <3>2. Session(c) /\ Obedience(c) /\ NotTold(c) /\ Types /\ (ccSeen[c] => lc[c] = "gone")
      BY <3>1 DEF SessionInv, Once
    <3>3. NotTold(c)'
      BY <1>1, <3>2, NotToldStep
    <3>4. CASE \E d \in Controllers : Controller(d) \/ Interrupted(d) \/ Lose(d)
      BY <2>3, <3>2, <3>3, <3>4, SessionController, ObedienceController
    <3>5. CASE Main \/ User
      <4>1. Obedience(c)'
        BY <2>3, <3>1, <3>2, <3>5, ObedienceMain
      <4>2. Session(c)'
        BY <2>3, <3>1, <3>2, <3>5, SessionCommand, SessionClose DEF Main, User
      <4> QED
        BY <3>3, <4>1, <4>2
    <3>6. CASE Getter \/ SweepBegins
      BY <2>3, <3>1, <3>2, <3>3, <3>6, SessionSweep, ObedienceSweep
    <3> QED
      BY <1>1, <3>4, <3>5, <3>6 DEF Next
  <2> QED
    BY <2>1, <2>2, <2>3 DEF SessionInv
<1>2. CASE UNCHANGED vars
  <2>1. Types'
    BY <1>2, TypesStep, SessionAssumption DEF SessionInv
  <2>2. ASSUME NEW c \in Controllers PROVE Once(c)' <=> Once(c)
    BY <1>2 DEF vars, Once, Excused
  <2>3. ASSUME NEW c \in Controllers
        PROVE  (Alive(c)' <=> Alive(c)) /\ (NotTold(c)' <=> NotTold(c)) /\ (Obedience(c)' <=> Obedience(c))
    BY <1>2 DEF vars, Alive, Excused, NotTold, Obedience, Asked, Obeyed
  <2>4. ASSUME NEW c \in Controllers, Session(c) PROVE Session(c)'
    <3>1. Still(c) /\ \A u \in Users : Stays(u)
      BY <1>2 DEF vars, Still, Stays
    <3>2. \A u \in Users : Along(u, c) => Along(u, c)'
      BY <3>1, StaysAlong
    <3> QED
      BY <2>4, <3>1, <3>2, Progress DEF Still, Resting, Session
  <2> QED
    BY <2>1, <2>2, <2>3, <2>4 DEF SessionInv
<1> QED
  BY <1>1, <1>2

\* The sessions are what the invariant says in every state of every behaviour.
THEOREM AlwaysSessionInv == Spec => []SessionInv
<1>1. Init => SessionInv
  BY SessionInit
<1>2. SessionInv /\ [Next]_vars => SessionInv'
  BY SessionStep
<1> QED
  BY <1>1, <1>2, PTL DEF Spec

\* What is true of a controller at rest.
LEMMA IdleSession ==
  ASSUME SessionInv, NEW c \in Controllers, Idle(c), ~Excused(c)
  PROVE  /\ Session(c) /\ Obedience(c) /\ NotTold(c)
         /\ light_mask[c] = lamp[c]
<1>1. Alive(c)
  BY DEF Idle, Alive
<1>2. Session(c) /\ Obedience(c) /\ NotTold(c)
  BY <1>1 DEF SessionInv
<1> QED
  BY <1>2 DEF Session, Idle

\* A controller that runs keeps its place while the server serves: no exchange
\* that only one thread is in mistakes an acknowledgement for a reply and gives
\* the controller up (sendAllAccident, jsonManager).
THEOREM PlaceKept == Spec => []KeepsPlace
<1>1. SessionInv => KeepsPlace
  BY DEF SessionInv, KeepsPlace, Alive, Session
<1> QED
  BY <1>1, AlwaysSessionInv, PTL

\* The two ends stay in step: the controller's first reply is acknowledged, and
\* handlerLightController never reads a packet without a command.
THEOREM StaysInStep == Spec => []InStep
<1>1. SessionInv => InStep
  <2> SUFFICES ASSUME SessionInv, NEW c \in Controllers, ~Excused(c)
               PROVE  resends[c] <= 1 /\ (lc[c] = "recv" /\ toLC[c] # <<>> => Head(toLC[c]).cmd # "none")
    BY DEF InStep
  <2>1. resends[c] <= 1
    BY DEF SessionInv, Once
  <2>2. ASSUME lc[c] = "recv", toLC[c] # <<>> PROVE Head(toLC[c]).cmd # "none"
    <3>1. Session(c)
      BY <2>2 DEF SessionInv, Alive
    <3>2. ~Resting(c) /\ ~Obeyed(c) /\ ~Replied(c)
      BY <2>2 DEF Resting, Obeyed, Replied
    <3>3. PICK u \in Users : In(u, c)
      BY <3>1, <3>2 DEF Session
    <3>4. PICK p \in Asks \cup {ServerCC} : Asked(c, p)
      BY <3>1, <3>2, <3>3 DEF Session, Along, In
    <3>5. Head(toLC[c]) = p
      BY <2>2, <3>4, Queues DEF Asked
    <3>6. p.cmd # "none"
      BY Commands
    <3> QED
      BY <3>5, <3>6
  <2> QED
    BY <2>1, <2>2
<1> QED
  BY <1>1, AlwaysSessionInv, PTL

\* The mask the server shows is the state of the lamp whenever nothing is under
\* way (setLight handles the replies in the order the controller gave them).
THEOREM MaskIsRight == Spec => []MasksAgree
<1>1. SessionInv => MasksAgree
  BY IdleSession DEF MasksAgree
<1> QED
  BY <1>1, AlwaysSessionInv, PTL

\* The sweep of sendAllAccident reaches every controller it passes.
THEOREM SweepReaches == Spec => []SweepPutsOutUnlessExcused
<1>1. SessionInv => SweepPutsOutUnlessExcused
  BY IdleSession DEF SweepPutsOutUnlessExcused, Swept, Obedience
<1> QED
  BY <1>1, AlwaysSessionInv, PTL

\* When disconnectAllTcp is through no controller waits for the server.
THEOREM ToldAll == Spec => []AllTold
<1>1. SessionInv => AllTold
  BY IdleSession DEF AllTold, NotTold
<1> QED
  BY <1>1, AlwaysSessionInv, PTL
=============================================================================
