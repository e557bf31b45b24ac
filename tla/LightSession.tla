--------------------------- MODULE LightSession ---------------------------
(***************************************************************************)
(* The sessions between the server and its light controllers, at the level *)
(* of packets.  The server's end of a session is one raw socket, tcp_fd,   *)
(* and two threads use it: main, for a command of the user (getLightId),   *)
(* and the getter, for the sweep that turns every light off when a sensor  *)
(* is hot (sendAllAccident).  Packets carry no number: whoever waits takes *)
(* the next packet, whatever it says, for the answer it waits for.         *)
(*                                                                         *)
(* A controller is the number of its slot in devices_tcp.  It has one      *)
(* lamp, and light_mask is that lamp's bit.  The sessions begin when every *)
(* controller has connected.                                               *)
(*                                                                         *)
(* A packet takes less than a second, so that a wait times out only when   *)
(* no packet is on its way (Quiet).                                        *)
(***************************************************************************)
EXTENDS Naturals, Sequences

CONSTANTS
  NControllers,  \* connected controllers
  TRIES,         \* MAX_REPEAT_SEND_PACKET
  Free,          \* the owner of a mutex nobody holds
  MaxLoss,       \* bound: packets the network may lose
  MaxCommands,   \* bound: commands the user gives
  MaxAlarms      \* bound: hot readings

Controllers == 0 .. NControllers - 1
Users == {"main", "getter"}

ASSUME SessionAssumption ==
  /\ NControllers \in Nat
  /\ TRIES \in Nat \ {0}
  /\ Free \notin Users
  /\ {MaxLoss, MaxCommands, MaxAlarms} \subseteq Nat

VARIABLES
  lc,             \* the controller's process: in tcpRecv, in tcpSend or gone
  lamp,           \* its lamp
  resends,        \* the times it has sent the reply it wants acknowledged
  toLC,           \* packets the controller has not read
  toFd,           \* packets for tcp_fd that nobody has read
  ccSeen,         \* a CC of the controller waits in the getter's own socket
  is_connected,   \* devices_tcp[i].is_connected
  light_mask,     \* devices_tcp[i].light_mask
  open,           \* the controllers whose tcp_fd is open
  mutex_tcp,      \* the thread that owns the mutex, or Free
  shutdown_flag,
  pc,             \* what main and the getter do next
  on,             \* the controller each is at
  attempt,        \* its sends or waits in the call of tcpSend or tcpRecv
  got,            \* the packet jsonManager handles
  wanted,         \* the state the user wants the lamp in
  lost,           \* packets lost
  commands,       \* commands given
  alarms,         \* sweeps begun
  heard,          \* controllers that did what the latest accident asked
  shared          \* controllers both threads have been in an exchange with at once

vars == <<lc, lamp, resends, toLC, toFd, ccSeen, is_connected, light_mask,
          open, mutex_tcp, shutdown_flag, pc, on, attempt, got, wanted, lost,
          commands, alarms, heard, shared>>

process == <<lamp, resends, heard>>
record == <<is_connected, light_mask, open>>
call == <<pc, on, attempt, got, wanted>>
budget == <<lost, commands, alarms>>

\* Packets: the flags, the command in the payload and, for the commands that
\* have one, the state of the lamp.
Packet(flags, cmd, l) == [flags |-> flags, cmd |-> cmd, lamp |-> l]
Empty(flags) == Packet(flags, "none", FALSE)
Command(l) == Packet("PSH|ACK", "set_light", l)
Accident == Packet("FIN", "accident", FALSE)
ServerCC == Packet("FIN", "CC", FALSE)
Reply(l) == Packet("PSH|ACK", "send", l)
ClientCC == Packet("FIN", "CC", FALSE)

\* What tcpRecv answers to a packet.
AnswerFlags == [f \in {"PSH|ACK", "FIN", "ACK", "RST"} |->
                  IF f = "PSH|ACK" THEN "PSH|ACK" ELSE IF f = "FIN" THEN "ACK" ELSE "RST"]
Answer(p) == Empty(AnswerFlags[p.flags])

Packets == [flags : {"PSH|ACK", "FIN", "ACK", "RST"},
            cmd : {"none", "set_light", "accident", "CC", "send"}, lamp : BOOLEAN]
Steps == {"menu", "close", "bye", "poll", "sweep", "send", "ack", "reply", "set", "done"}

TypeOK ==
  /\ lc \in [Controllers -> {"recv", "send", "gone"}]
  /\ lamp \in [Controllers -> BOOLEAN]
  /\ resends \in [Controllers -> 0 .. TRIES]
  /\ toLC \in [Controllers -> Seq(Packets)]
  /\ toFd \in [Controllers -> Seq(Packets)]
  /\ ccSeen \in [Controllers -> BOOLEAN]
  /\ is_connected \in [Controllers -> BOOLEAN]
  /\ light_mask \in [Controllers -> BOOLEAN]
  /\ open \in SUBSET Controllers
  /\ mutex_tcp \in Users \cup {Free}
  /\ shutdown_flag \in BOOLEAN
  /\ pc \in [Users -> Steps]
  /\ on \in [Users -> 0 .. NControllers]
  /\ attempt \in [Users -> 0 .. TRIES]
  /\ got \in [Users -> Packets]
  /\ wanted \in BOOLEAN
  /\ lost \in 0 .. MaxLoss
  /\ commands \in 0 .. MaxCommands
  /\ alarms \in 0 .. MaxAlarms
  /\ heard \in SUBSET Controllers
  /\ shared \in SUBSET Controllers

Init ==
  /\ lc = [c \in Controllers |-> "recv"]
  /\ lamp = [c \in Controllers |-> FALSE]
  /\ resends = [c \in Controllers |-> 0]
  /\ toLC = [c \in Controllers |-> <<>>]
  /\ toFd = [c \in Controllers |-> <<>>]
  /\ ccSeen = [c \in Controllers |-> FALSE]
  /\ is_connected = [c \in Controllers |-> TRUE]
  /\ light_mask = [c \in Controllers |-> FALSE]
  /\ open = Controllers
  /\ mutex_tcp = Free
  /\ shutdown_flag = FALSE
  /\ pc = [u \in Users |-> IF u = "main" THEN "menu" ELSE "poll"]
  /\ on = [u \in Users |-> 0]
  /\ attempt = [u \in Users |-> 0]
  /\ got = [u \in Users |-> Empty("RST")]
  /\ wanted = FALSE
  /\ lost = 0 /\ commands = 0 /\ alarms = 0
  /\ heard = {}
  /\ shared = {}

----------------------------------------------------------------------------
\* The wire.  A packet to a controller that has exited, or to a socket that is
\* closed, goes nowhere.

ToLC(c, ps) == IF lc[c] = "gone" THEN UNCHANGED toLC
               ELSE toLC' = [toLC EXCEPT ![c] = @ \o ps]
ToServer(c, ps) == IF c \notin open THEN UNCHANGED toFd
                   ELSE toFd' = [toFd EXCEPT ![c] = @ \o ps]

\* No packet is on its way between the controller and a thread that waits.
Quiet(c) == toLC[c] = <<>> /\ toFd[c] = <<>>
Unanswered(c) ==
  /\ toLC[c] = <<>>
  /\ \A u \in Users : on[u] = c /\ pc[u] \in {"ack", "reply", "bye"} => toFd[c] = <<>>

\* The network loses a packet.  A CC of a controller is in two sockets of the
\* server, and is lost for both.
Lose(c) ==
  /\ lost < MaxLoss
  /\ lost' = lost + 1
  /\ \/ /\ toLC[c] # <<>>
        /\ toLC' = [toLC EXCEPT ![c] = Tail(@)]
        /\ UNCHANGED <<toFd, ccSeen>>
     \/ /\ toFd[c] # <<>>
        /\ Head(toFd[c]) = ClientCC => ccSeen[c]
        /\ toFd' = [toFd EXCEPT ![c] = Tail(@)]
        /\ ccSeen' = [ccSeen EXCEPT ![c] = @ /\ Head(toFd[c]) # ClientCC]
        /\ UNCHANGED toLC
  /\ UNCHANGED <<lc, process, record, mutex_tcp, shutdown_flag, call, commands,
                 alarms, shared>>

----------------------------------------------------------------------------
\* The light controller.

Exit(c) == /\ lc' = [lc EXCEPT ![c] = "gone"]
           /\ toLC' = [toLC EXCEPT ![c] = <<>>]

SendCC(c, ps) == /\ ToServer(c, Append(ps, ClientCC))
                 /\ ccSeen' = [ccSeen EXCEPT ![c] = TRUE]

ObeyRepliesFirst(c) ==
  LET p == Head(toLC[c])
      l == p.cmd = "set_light" /\ p.lamp IN
  /\ lc[c] = "recv"
  /\ toLC[c] # <<>>
  /\ p.cmd # "CC" /\ p.cmd # "none"
  /\ lamp' = [lamp EXCEPT ![c] = l]
  /\ heard' = IF p.cmd = "accident" THEN heard \cup {c} ELSE heard
  /\ lc' = [lc EXCEPT ![c] = "send"]
  /\ resends' = [resends EXCEPT ![c] = 1]
  /\ toLC' = [toLC EXCEPT ![c] = Tail(@)]
  /\ ToServer(c, <<Answer(p), Reply(lamp[c])>>)
  /\ UNCHANGED <<ccSeen, record, mutex_tcp, shutdown_flag, call, budget, shared>>

\* handlerLightController: tcpRecv takes a packet and answers it, the command
\* is done and the first tcpSend of the reply is made.  A packet without a
\* payload leaves an old payload, or nothing, in the buffer: the command is
\* unknown or cannot be decrypted, and the controller exits with or without a
\* word.
Obey(c) ==
  LET p == Head(toLC[c])
      l == p.cmd = "set_light" /\ p.lamp IN
  /\ lc[c] = "recv"
  /\ toLC[c] # <<>>
  /\ \/ /\ p.cmd \in {"set_light", "accident"}
        /\ lamp' = [lamp EXCEPT ![c] = l]
        /\ heard' = IF p.cmd = "accident" THEN heard \cup {c} ELSE heard
        /\ lc' = [lc EXCEPT ![c] = "send"]
        /\ resends' = [resends EXCEPT ![c] = 1]
        /\ toLC' = [toLC EXCEPT ![c] = Tail(@)]
        /\ ToServer(c, <<Answer(p), Reply(l)>>)
        /\ UNCHANGED ccSeen
     \/ /\ p.cmd = "CC"
        /\ Exit(c)
        /\ ToServer(c, <<Answer(p)>>)
        /\ UNCHANGED <<process, ccSeen>>
     \/ /\ p.cmd = "none"
        /\ Exit(c)
        /\ \/ SendCC(c, <<Answer(p)>>)
           \/ ToServer(c, <<Answer(p)>>) /\ UNCHANGED ccSeen
        /\ UNCHANGED process
  /\ UNCHANGED <<record, mutex_tcp, shutdown_flag, call, budget, shared>>

\* Its tcpSend takes any packet for the acknowledgement of the reply ...
Acknowledged(c) ==
  /\ lc[c] = "send"
  /\ toLC[c] # <<>>
  /\ lc' = [lc EXCEPT ![c] = "recv"]
  /\ toLC' = [toLC EXCEPT ![c] = Tail(@)]
  /\ UNCHANGED <<process, toFd, ccSeen, record, mutex_tcp, shutdown_flag, call,
                 budget, shared>>

\* ... and the controller exits, without a CC, when none comes.
ReplyTimeout(c) ==
  /\ lc[c] = "send"
  /\ Unanswered(c)
  /\ IF resends[c] < TRIES
     THEN /\ resends' = [resends EXCEPT ![c] = @ + 1]
          /\ ToServer(c, <<Reply(lamp[c])>>)
          /\ UNCHANGED <<lc, toLC>>
     ELSE Exit(c) /\ UNCHANGED <<resends, toFd>>
  /\ UNCHANGED <<lamp, heard, ccSeen, record, mutex_tcp, shutdown_flag, call,
                 budget, shared>>

\* sigintHandler reads two variables it has not set, and sends the CC only if
\* neither happens to be negative.
Interrupted(c) ==
  /\ lc[c] # "gone"
  /\ Exit(c)
  /\ \/ SendCC(c, <<>>)
     \/ UNCHANGED <<toFd, ccSeen>>
  /\ UNCHANGED <<process, record, mutex_tcp, shutdown_flag, call, budget, shared>>

----------------------------------------------------------------------------
\* tcpSend and tcpRecv on a tcp_fd, for either thread.

Goto(u, step) == pc' = [pc EXCEPT ![u] = step]
Restart(u) == attempt' = [attempt EXCEPT ![u] = 0]

\* Thread u is in an exchange with controller c: from its first packet until
\* jsonManager has handled the reply.
In(u, c) == on[u] = c /\ \/ pc[u] \in {"ack", "reply", "set", "bye"}
                         \/ pc[u] = "send" /\ attempt[u] > 0
\* Thread u begins or goes on with an exchange; the other may be in one.
Share(u, c) == shared' = shared \cup {d \in {c} : \E v \in Users \ {u} : In(v, c)}

\* tcpSend takes any packet for the acknowledgement it waits for.
TakeAck(u) ==
  /\ pc[u] = "ack"
  /\ toFd[on[u]] # <<>>
  /\ toFd' = [toFd EXCEPT ![on[u]] = Tail(@)]
  /\ Goto(u, "reply")
  /\ Restart(u)
  /\ UNCHANGED <<lc, process, toLC, ccSeen, record, mutex_tcp, shutdown_flag, on,
                 got, wanted, budget, shared>>

TakeSilently(c) ==
  /\ toFd[c] # <<>>
  /\ toFd' = [toFd EXCEPT ![c] = Tail(@)]
  /\ UNCHANGED toLC

\* tcpRecv takes any packet and answers it.
TakeAndAnswer(c) ==
  /\ toFd[c] # <<>>
  /\ toFd' = [toFd EXCEPT ![c] = Tail(@)]
  /\ ToLC(c, <<Answer(Head(toFd[c]))>>)

\* setLight and disconnectionDevice, in jsonManager.
Heed(c, p) ==
  /\ is_connected' = [is_connected EXCEPT ![c] = @ /\ p.cmd # "CC"]
  /\ light_mask' = IF p.cmd = "send" /\ is_connected[c]
                   THEN [light_mask EXCEPT ![c] = p.lamp] ELSE light_mask

----------------------------------------------------------------------------
\* Main: a command of the user.

\* getLightId copies the socket and the address under the mutex, and uses them
\* without it.
UserSetsLight(c, l) ==
  /\ pc["main"] = "menu"
  /\ commands < MaxCommands
  /\ mutex_tcp = Free
  /\ is_connected[c]
  /\ commands' = commands + 1
  /\ Goto("main", "send")
  /\ on' = [on EXCEPT !["main"] = c]
  /\ Restart("main")
  /\ wanted' = l
  /\ UNCHANGED <<lc, process, toLC, toFd, ccSeen, record, mutex_tcp,
                 shutdown_flag, got, lost, alarms, shared>>

SendCommand ==
  LET c == on["main"] IN
  /\ pc["main"] = "send"
  /\ ToLC(c, <<Command(wanted)>>)
  /\ attempt' = [attempt EXCEPT !["main"] = @ + 1]
  /\ Goto("main", "ack")
  /\ Share("main", c)
  /\ UNCHANGED <<lc, process, toFd, ccSeen, record, mutex_tcp, shutdown_flag, on,
                 got, wanted, budget>>

CommandTimeout ==
  /\ pc["main"] = "ack"
  /\ Quiet(on["main"])
  /\ Goto("main", IF attempt["main"] < TRIES THEN "send" ELSE "menu")
  /\ UNCHANGED <<lc, process, toLC, toFd, ccSeen, record, mutex_tcp,
                 shutdown_flag, on, attempt, got, wanted, budget, shared>>

TakeReply ==
  LET c == on["main"] IN
  /\ pc["main"] = "reply"
  /\ TakeAndAnswer(c)
  /\ got' = [got EXCEPT !["main"] = Head(toFd[c])]
  /\ Goto("main", "set")
  /\ UNCHANGED <<lc, process, ccSeen, record, mutex_tcp, shutdown_flag, on,
                 attempt, wanted, budget, shared>>

NoReplyOnceMore ==
  /\ pc["main"] = "reply"
  /\ Quiet(on["main"])
  /\ attempt' = [attempt EXCEPT !["main"] = @ + 1]
  /\ Goto("main", IF attempt["main"] < TRIES THEN "reply" ELSE "menu")
  /\ UNCHANGED <<lc, process, toLC, toFd, ccSeen, record, mutex_tcp,
                 shutdown_flag, on, got, wanted, budget, shared>>

NoReply ==
  /\ pc["main"] = "reply"
  /\ Quiet(on["main"])
  /\ attempt' = [attempt EXCEPT !["main"] = @ + 1]
  /\ Goto("main", IF attempt["main"] + 1 < TRIES THEN "reply" ELSE "menu")
  /\ UNCHANGED <<lc, process, toLC, toFd, ccSeen, record, mutex_tcp,
                 shutdown_flag, on, got, wanted, budget, shared>>

\* A packet without a payload leaves the command in the buffer, and that has
\* no type: jsonManager fails.
CommandEnds ==
  LET c == on["main"] IN
  /\ pc["main"] = "set"
  /\ got["main"].cmd # "none" => mutex_tcp = Free
  /\ Heed(c, got["main"])
  /\ Goto("main", "menu")
  /\ UNCHANGED <<lc, process, toLC, toFd, ccSeen, open, mutex_tcp, shutdown_flag,
                 on, attempt, got, wanted, budget, shared>>

----------------------------------------------------------------------------
\* The getter: the sweep of the lights, which a hot reading begins.

SweepBegins ==
  /\ pc["getter"] = "poll"
  /\ alarms < MaxAlarms
  /\ mutex_tcp = Free
  /\ alarms' = alarms + 1
  /\ mutex_tcp' = "getter"
  /\ heard' = {}
  /\ on' = [on EXCEPT !["getter"] = 0]
  /\ Goto("getter", "sweep")
  /\ UNCHANGED <<lc, lamp, resends, toLC, toFd, ccSeen, record, shutdown_flag,
                 attempt, got, wanted, lost, commands, shared>>

SweepSkipsAfterGap ==
  LET c == on["getter"] IN
  /\ pc["getter"] = "sweep"
  /\ mutex_tcp \in {"getter", Free}
  /\ c < NControllers
  /\ ~is_connected[0]
  /\ mutex_tcp' = "getter"
  /\ on' = [on EXCEPT !["getter"] = c + 1]
  /\ UNCHANGED <<lc, process, toLC, toFd, ccSeen, record, shutdown_flag, pc,
                 attempt, got, wanted, budget, shared>>

\* The sweep takes the mutex back after it gave it up for jsonManager.
SweepSkips ==
  LET c == on["getter"] IN
  /\ pc["getter"] = "sweep"
  /\ mutex_tcp \in {"getter", Free}
  /\ c < NControllers
  /\ ~is_connected[c]
  /\ mutex_tcp' = "getter"
  /\ on' = [on EXCEPT !["getter"] = c + 1]
  /\ UNCHANGED <<lc, process, toLC, toFd, ccSeen, record, shutdown_flag, pc,
                 attempt, got, wanted, budget, shared>>

SendAccidentUnacked ==
  LET c == on["getter"] IN
  /\ pc["getter"] = "sweep"
  /\ mutex_tcp \in {"getter", Free}
  /\ c < NControllers
  /\ is_connected[c]
  /\ mutex_tcp' = "getter"
  /\ ToLC(c, <<Accident>>)
  /\ Share("getter", c)
  /\ Goto("getter", "reply")
  /\ UNCHANGED <<lc, process, toFd, ccSeen, record, shutdown_flag, on, attempt,
                 got, wanted, budget>>

SendAccident ==
  LET c == on["getter"] IN
  /\ pc["getter"] = "sweep"
  /\ mutex_tcp \in {"getter", Free}
  /\ c < NControllers
  /\ is_connected[c]
  /\ mutex_tcp' = "getter"
  /\ ToLC(c, <<Accident>>)
  /\ Share("getter", c)
  /\ Goto("getter", "ack")
  /\ UNCHANGED <<lc, process, toFd, ccSeen, record, shutdown_flag, on, attempt,
                 got, wanted, budget>>

\* The result of tcpSend is not looked at.
AccidentTimeout ==
  /\ pc["getter"] = "ack"
  /\ Quiet(on["getter"])
  /\ Goto("getter", "reply")
  /\ Restart("getter")
  /\ UNCHANGED <<lc, process, toLC, toFd, ccSeen, record, mutex_tcp,
                 shutdown_flag, on, got, wanted, budget, shared>>

NextLight == /\ Goto("getter", "sweep")
             /\ on' = [on EXCEPT !["getter"] = @ + 1]
Evicted(c) == is_connected' = [is_connected EXCEPT ![c] = FALSE]

\* The reply is handled without the mutex.
TakeAccidentReply ==
  LET c == on["getter"] IN
  /\ pc["getter"] = "reply"
  /\ TakeAndAnswer(c)
  /\ Head(toFd[c]).cmd # "none"
  /\ got' = [got EXCEPT !["getter"] = Head(toFd[c])]
  /\ Goto("getter", "set")
  /\ mutex_tcp' = Free
  /\ UNCHANGED <<lc, process, ccSeen, record, shutdown_flag, on, attempt, wanted,
                 budget, shared>>

\* A packet without a payload leaves rec_msg unset: it is not JSON and the
\* controller is evicted, it cannot be decrypted and is passed over, or it is
\* the reply of the controller before.
TakeEmptyReply ==
  LET c == on["getter"] IN
  /\ pc["getter"] = "reply"
  /\ TakeAndAnswer(c)
  /\ Head(toFd[c]).cmd = "none"
  /\ \/ Evicted(c) /\ NextLight /\ UNCHANGED <<got, mutex_tcp>>
     \/ NextLight /\ UNCHANGED <<is_connected, got, mutex_tcp>>
     \/ /\ got' \in {[got EXCEPT !["getter"] = Reply(l)] : l \in BOOLEAN}
        /\ Goto("getter", "set")
        /\ mutex_tcp' = Free
        /\ UNCHANGED <<is_connected, on>>
  /\ UNCHANGED <<lc, process, ccSeen, light_mask, open, shutdown_flag, attempt,
                 wanted, budget, shared>>

NoAccidentReplyForgets ==
  /\ pc["getter"] = "reply"
  /\ Quiet(on["getter"])
  /\ Restart("getter")
  /\ UNCHANGED <<lc, process, toLC, toFd, ccSeen, record, mutex_tcp,
                 shutdown_flag, pc, on, got, wanted, budget, shared>>

NoAccidentReply ==
  LET c == on["getter"] IN
  /\ pc["getter"] = "reply"
  /\ Quiet(c)
  /\ attempt' = [attempt EXCEPT !["getter"] = @ + 1]
  /\ IF attempt["getter"] + 1 < TRIES
     THEN UNCHANGED <<pc, on, is_connected>>
     ELSE Evicted(c) /\ NextLight
  /\ UNCHANGED <<lc, process, toLC, toFd, ccSeen, light_mask, open, mutex_tcp,
                 shutdown_flag, got, wanted, budget, shared>>

LightSwept ==
  LET c == on["getter"] IN
  /\ pc["getter"] = "set"
  /\ mutex_tcp = Free
  /\ Heed(c, got["getter"])
  /\ NextLight
  /\ UNCHANGED <<lc, process, toLC, toFd, ccSeen, open, mutex_tcp, shutdown_flag,
                 attempt, got, wanted, budget, shared>>

SweepEnds ==
  /\ pc["getter"] = "sweep"
  /\ mutex_tcp \in {"getter", Free}
  /\ on["getter"] = NControllers
  /\ mutex_tcp' = Free
  /\ Goto("getter", IF shutdown_flag THEN "done" ELSE "poll")
  /\ UNCHANGED <<lc, process, toLC, toFd, ccSeen, record, shutdown_flag, on,
                 attempt, got, wanted, budget, shared>>

\* getTcpPacketDisconeccted.
Disconnects(c) ==
  /\ pc["getter"] = "poll"
  /\ ccSeen[c]
  /\ mutex_tcp = Free
  /\ ccSeen' = [ccSeen EXCEPT ![c] = FALSE]
  /\ Evicted(c)
  /\ ToLC(c, <<Empty("ACK")>>)
  /\ Goto("getter", IF shutdown_flag THEN "done" ELSE "poll")
  /\ UNCHANGED <<lc, process, toFd, light_mask, open, mutex_tcp, shutdown_flag, on,
                 attempt, got, wanted, budget, shared>>

GetterStops ==
  /\ pc["getter"] = "poll"
  /\ shutdown_flag
  /\ Goto("getter", "done")
  /\ UNCHANGED <<lc, process, toLC, toFd, ccSeen, record, mutex_tcp,
                 shutdown_flag, on, attempt, got, wanted, budget, shared>>

----------------------------------------------------------------------------
\* The end of the server: main tells every controller and closes its socket.

Sigint ==
  /\ ~shutdown_flag
  /\ shutdown_flag' = TRUE
  /\ UNCHANGED <<lc, process, toLC, toFd, ccSeen, record, mutex_tcp, call, budget,
                 shared>>

\* The user chooses to exit, or the menu is left after a SIGINT.
CloseBegins ==
  /\ pc["main"] = "menu"
  /\ mutex_tcp = Free
  /\ mutex_tcp' = "main"
  /\ shutdown_flag' = TRUE
  /\ on' = [on EXCEPT !["main"] = 0]
  /\ Goto("main", "close")
  /\ UNCHANGED <<lc, process, toLC, toFd, ccSeen, record, attempt, got, wanted,
                 budget, shared>>

CloseSkips ==
  LET c == on["main"] IN
  /\ pc["main"] = "close"
  /\ c < NControllers
  /\ ~is_connected[c]
  /\ on' = [on EXCEPT !["main"] = c + 1]
  /\ UNCHANGED <<lc, process, toLC, toFd, ccSeen, record, mutex_tcp,
                 shutdown_flag, pc, attempt, got, wanted, budget, shared>>

SendNothing ==
  /\ pc["main"] = "close"
  /\ on["main"] < NControllers
  /\ is_connected[on["main"]]
  /\ Share("main", on["main"])
  /\ Goto("main", "bye")
  /\ UNCHANGED <<lc, process, toLC, toFd, ccSeen, record, mutex_tcp,
                 shutdown_flag, on, attempt, got, wanted, budget>>

SendServerCC ==
  LET c == on["main"] IN
  /\ pc["main"] = "close"
  /\ c < NControllers
  /\ is_connected[c]
  /\ ToLC(c, <<ServerCC>>)
  /\ Share("main", c)
  /\ Goto("main", "bye")
  /\ UNCHANGED <<lc, process, toFd, ccSeen, record, mutex_tcp, shutdown_flag, on,
                 attempt, got, wanted, budget>>

\* Any packet, or a second, and the socket is closed.
CloseSocket ==
  LET c == on["main"] IN
  /\ pc["main"] = "bye"
  /\ toFd[c] # <<>> \/ Quiet(c)
  /\ open' = open \ {c}
  /\ toFd' = [toFd EXCEPT ![c] = <<>>]
  /\ Evicted(c)
  /\ on' = [on EXCEPT !["main"] = c + 1]
  /\ Goto("main", "close")
  /\ UNCHANGED <<lc, process, toLC, ccSeen, light_mask, mutex_tcp, shutdown_flag,
                 attempt, got, wanted, budget, shared>>

CloseEnds ==
  /\ pc["main"] = "close"
  /\ on["main"] = NControllers
  /\ mutex_tcp' = Free
  /\ Goto("main", "done")
  /\ UNCHANGED <<lc, process, toLC, toFd, ccSeen, record, shutdown_flag, on,
                 attempt, got, wanted, budget, shared>>

----------------------------------------------------------------------------
Controller(c) == Obey(c) \/ Acknowledged(c) \/ ReplyTimeout(c)
Main == \/ SendCommand \/ TakeAck("main") \/ CommandTimeout \/ TakeReply
        \/ NoReply \/ CommandEnds
        \/ CloseSkips \/ SendServerCC \/ CloseSocket \/ CloseEnds
Getter == \/ SweepSkips \/ SendAccident \/ TakeAck("getter") \/ AccidentTimeout
          \/ TakeAccidentReply \/ TakeEmptyReply \/ NoAccidentReply
          \/ LightSwept \/ SweepEnds
          \/ GetterStops \/ \E c \in Controllers : Disconnects(c)
User == Sigint \/ CloseBegins \/ \E c \in Controllers, l \in BOOLEAN : UserSetsLight(c, l)

Next == \/ \E c \in Controllers : Controller(c) \/ Interrupted(c) \/ Lose(c)
        \/ Main \/ Getter \/ SweepBegins \/ User

Spec == Init /\ [][Next]_vars

FairSpec == /\ Spec
            /\ \A c \in Controllers : WF_vars(Controller(c))
            /\ WF_vars(Main) /\ WF_vars(Getter)

----------------------------------------------------------------------------
\* Properties.  Two things excuse a session that goes wrong: both threads were
\* in an exchange with the controller at once, or a packet was lost.
Excused(c) == c \in shared \/ lost > 0

\* Nobody does anything with c, and there is no packet for it.
Idle(c) == /\ lc[c] = "recv" /\ toLC[c] = <<>>
           /\ \A u \in Users : ~In(u, c)

\* The latest sweep is past c.
Swept(c) == alarms > 0 /\ on["getter"] > c

\* On overheating the server turns the lights off, as the README says: once
\* the sweep has passed a controller that runs and everything about it is quiet,
\* its lamp is off, or it was turned on after the accident was done.
SweepPutsOut == \A c \in Controllers : Swept(c) /\ Idle(c) => c \in heard \/ ~lamp[c]

\* Unless it is excused, the controller has done what the accident asks, even
\* when its lamp was off before.
SweepPutsOutUnlessExcused ==
  \A c \in Controllers : Swept(c) /\ Idle(c) => c \in heard \/ Excused(c)

\* The mask the server shows is the state of the lamp when nothing is under way:
\* the replies were handled in the order in which the controller gave them.
MasksAgree ==
  \A c \in Controllers :
    Idle(c) /\ is_connected[c] => light_mask[c] = lamp[c] \/ Excused(c)

\* A controller that runs keeps its place while the server serves: no exchange
\* mistakes an acknowledgement for a reply and gives it up.
KeepsPlace ==
  \A c \in Controllers :
    lc[c] # "gone" /\ pc["main"] \notin {"close", "bye", "done"}
      => is_connected[c] \/ Excused(c)

\* The two ends stay in step: the first reply is acknowledged, and a controller
\* that waits for a command never reads a packet without one, which it would
\* not survive.
InStep ==
  \A c \in Controllers :
    \/ resends[c] <= 1 /\ (lc[c] = "recv" /\ toLC[c] # <<>> => Head(toLC[c]).cmd # "none")
    \/ Excused(c)

\* When the server has stopped no controller waits for it any more: each has
\* read its CC, or has exited before (disconnectAllTcp).
AllTold == pc["main"] = "done" => \A c \in Controllers : Idle(c) => Excused(c)

\* A command of the user and the end of the server return, and so does a sweep,
\* which holds mutex_udp all along: whatever is lost and whoever exits.
ExchangesReturn ==
  /\ pc["main"] # "menu" ~> pc["main"] \in {"menu", "done"}
  /\ pc["getter"] = "sweep" ~> pc["getter"] \in {"poll", "done"}
===========================================================================
