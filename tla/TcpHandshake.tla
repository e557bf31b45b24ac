---------------------------- MODULE TcpHandshake ----------------------------
(***************************************************************************)
(* How a light controller gets its session: tcpConnect and the connect     *)
(* message on its side, accepterTCP with tcpAccept, tcpRecv and            *)
(* connectionDevice on the server's.  The accepter has one raw socket for  *)
(* all controllers, and its timeouts are blunt: the socket blocks, so that *)
(* a wait whose time is over goes on until some packet comes, and that     *)
(* packet is thrown away.                                                  *)
(*                                                                         *)
(* A controller is a number: they are started in this order, each with an  *)
(* address of its own.  A packet takes less than a second.  A session is   *)
(* LightSession's business once the controller is in its handler.          *)
(***************************************************************************)
EXTENDS Naturals, FiniteSets, SequencesExt

CONSTANTS
  NControllers,   \* controllers that are started
  TRIES,          \* MAX_REPEAT_SEND_PACKET
  MAX_DEVICE,     \* slots of devices_tcp
  Stranger,       \* the sender of any other TCP packet the host receives
  MaxTrouble      \* bound: lost packets, packets of strangers, sweeps and
                  \* interrupted controllers, together

Controllers == 0 .. NControllers - 1

ASSUME HandshakeAssumption ==
  /\ NControllers \in Nat
  /\ TRIES \in Nat \ {0}
  /\ MAX_DEVICE \in Nat
  /\ Stranger \notin Nat
  /\ MaxTrouble \in Nat

VARIABLES
  lc,            \* the controller: not started, in tcpConnect, in tcpSend of its
                 \* connect message, in its handler, or gone
  tries,         \* the sends of the packet it wants answered
  toLC,          \* packets the controller has not read
  toAcc,         \* packets in the accepter's socket
  extra,         \* a packet has come to tcp_fd before the session began
  ccSeen,        \* a CC of the controller waits in the getter's socket
  registered,    \* the controllers with a slot in devices_tcp
  acc,           \* what the accepter waits for
  peer,          \* the controller it is in a handshake with
  attempt,       \* its tries in this wait
  late,          \* the time of its wait is over
  busy,          \* another thread is in a sweep and holds mutex_tcp
  shutdown_flag,
  main,          \* at the user's menu, or in closeServer: before disconnectAllTcp,
                 \* after it, after pthread_cancel
  lost,          \* packets the network has lost
  strays,        \* packets of strangers
  sweeps,        \* sweeps of the other thread
  interrupts,    \* controllers stopped by SIGINT
  refused,       \* controllers that found the table full
  stalled        \* controllers that repeated a packet while the accepter waited
                 \* for a sweep

vars == <<lc, tries, toLC, toAcc, extra, ccSeen, registered, acc, peer, attempt,
          late, busy, shutdown_flag, main, lost, strays, sweeps, interrupts, refused, stalled>>
controllers == <<lc, tries>>
accepter == <<acc, peer, attempt, late>>
table == <<registered, refused, stalled>>
toServer == <<toAcc, extra, ccSeen>>
outside == <<busy, shutdown_flag, main, strays, sweeps, interrupts>>

TroubleLeft == lost + strays + sweeps + interrupts < MaxTrouble

\* Packets by their flags.  "MSG" is PSH|ACK with the connect message in it,
\* "FIN" carries a CC, the others are empty.
Flags == {"SYN", "SYN|ACK", "ACK", "MSG", "PSH|ACK", "FIN", "RST"}

TypeOK ==
  /\ lc \in [Controllers -> {"off", "syn", "msg", "in", "failed", "gone"}]
  /\ tries \in [Controllers -> 0 .. TRIES]
  /\ toLC \in [Controllers -> Seq(Flags)]
  /\ toAcc \in Seq([from : Controllers \cup {Stranger}, flags : Flags])
  /\ extra \in [Controllers -> BOOLEAN]
  /\ ccSeen \in [Controllers -> BOOLEAN]
  /\ registered \in SUBSET Controllers
  /\ Cardinality(registered) <= MAX_DEVICE
  /\ acc \in {"poll", "accept", "ack", "recv", "lock", "done"}
  /\ peer \in Controllers \cup {Stranger}
  /\ attempt \in 0 .. TRIES
  /\ late \in BOOLEAN /\ busy \in BOOLEAN /\ shutdown_flag \in BOOLEAN
  /\ late => acc \in {"accept", "ack", "recv"}
  /\ main \in {"run", "closing", "walked", "cancelled"}
  /\ {lost, strays, sweeps, interrupts} \subseteq 0 .. MaxTrouble
  /\ refused \in SUBSET Controllers /\ stalled \in SUBSET Controllers

Init ==
  /\ lc = [c \in Controllers |-> "off"]
  /\ tries = [c \in Controllers |-> 0]
  /\ toLC = [c \in Controllers |-> <<>>]
  /\ toAcc = <<>>
  /\ extra = [c \in Controllers |-> FALSE]
  /\ ccSeen = [c \in Controllers |-> FALSE]
  /\ registered = {} /\ refused = {} /\ stalled = {}
  /\ acc = "poll" /\ peer = Stranger /\ attempt = 0 /\ late = FALSE
  /\ busy = FALSE /\ shutdown_flag = FALSE /\ main = "run"
  /\ lost = 0 /\ strays = 0 /\ sweeps = 0 /\ interrupts = 0

----------------------------------------------------------------------------
\* The wire.  The network may lose one packet of those sent at once.  What a
\* controller sends comes to the accepter's socket and to its tcp_fd, and its CC
\* to the socket of the getter too.

Runs == {"syn", "msg", "in"}

Survivors(ps) ==
  {ps} \cup (IF TroubleLeft THEN {RemoveAt(ps, i) : i \in DOMAIN ps} ELSE {})

ToServer(c, ps) ==
  \E q \in Survivors(ps) :
    /\ lost' = lost + Len(ps) - Len(q)
    /\ toAcc' = IF acc = "done" THEN toAcc
                ELSE toAcc \o [i \in DOMAIN q |-> [from |-> c, flags |-> q[i]]]
    /\ extra' = [extra EXCEPT ![c] = @ \/ (c \in registered /\ q # <<>>)]
    /\ ccSeen' = [ccSeen EXCEPT ![c] = @ \/ Contains(q, "FIN")]

ToLC(c, ps) ==
  \E q \in Survivors(ps) :
    /\ lost' = lost + Len(ps) - Len(q)
    /\ toLC' = IF lc[c] \in Runs THEN [toLC EXCEPT ![c] = @ \o q] ELSE toLC

\* The accepter cannot read: it waits for the mutex in connectionDevice.
Stuck == acc = "lock" /\ busy

\* Seconds pass only when everybody has read his packets.
Settled == /\ toAcc = <<>> \/ Stuck
           /\ \A c \in Controllers : toLC[c] = <<>>

\* How tcpRecv answers.
Answer(flags) == CASE flags \in {"MSG", "PSH|ACK"} -> "PSH|ACK"
                   [] flags = "FIN" -> "ACK"
                   [] OTHER -> "RST"

----------------------------------------------------------------------------
\* The light controller.

\* tcpConnect sends its first SYN.
Start(c) ==
  /\ lc[c] = "off"
  /\ c > 0 => lc[c - 1] # "off"
  /\ lc' = [lc EXCEPT ![c] = "syn"]
  /\ tries' = [tries EXCEPT ![c] = 1]
  /\ ToServer(c, <<"SYN">>)
  /\ UNCHANGED <<toLC, table, accepter, outside>>

Exit(c) == lc' = [lc EXCEPT ![c] = "gone"]
Fail(c) == lc' = [lc EXCEPT ![c] = "failed"]
Read(c) == toLC' = [toLC EXCEPT ![c] = IF lc'[c] \in Runs THEN Tail(@) ELSE <<>>]

\* A SYN|ACK is acknowledged once, and the connect message follows at once;
\* with any other packet tcpConnect fails.
SynAnswered(c) ==
  /\ lc[c] = "syn"
  /\ toLC[c] # <<>>
  /\ IF Head(toLC[c]) = "SYN|ACK"
     THEN /\ lc' = [lc EXCEPT ![c] = "msg"]
          /\ tries' = [tries EXCEPT ![c] = 1]
          /\ ToServer(c, <<"ACK", "MSG">>)
     ELSE Fail(c) /\ UNCHANGED <<tries, toServer, lost>>
  /\ Read(c)
  /\ UNCHANGED <<table, accepter, outside>>

\* tcpSend takes any packet for the acknowledgement of the connect message.
MsgAnswered(c) ==
  /\ lc[c] = "msg"
  /\ toLC[c] # <<>>
  /\ lc' = [lc EXCEPT ![c] = "in"]
  /\ Read(c)
  /\ UNCHANGED <<tries, toServer, table, accepter, lost, outside>>

\* What was not answered is sent again; after the last try the controller exits.
Resend(c) ==
  /\ lc[c] \in {"syn", "msg"}
  /\ Settled
  /\ IF tries[c] < TRIES
     THEN /\ tries' = [tries EXCEPT ![c] = @ + 1]
          /\ ToServer(c, IF lc[c] = "syn" THEN <<"SYN">> ELSE <<"MSG">>)
          /\ UNCHANGED lc
     ELSE Fail(c) /\ UNCHANGED <<tries, toServer, lost>>
  /\ stalled' = IF Stuck THEN stalled \cup {c} ELSE stalled
  /\ UNCHANGED <<toLC, registered, refused, accepter, outside>>

\* sigintHandler sends a CC only once tcpConnect has returned, and then only if
\* two variables it has not set happen not to be negative.
Interrupted(c) ==
  /\ lc[c] \in Runs
  /\ TroubleLeft
  /\ interrupts' = interrupts + 1
  /\ Exit(c)
  /\ toLC' = [toLC EXCEPT ![c] = <<>>]
  /\ \/ lc[c] # "syn" /\ ToServer(c, <<"FIN">>)
     \/ UNCHANGED <<toServer, lost>>
  /\ UNCHANGED <<tries, table, accepter, busy, shutdown_flag, main, strays, sweeps>>

\* The handler reads the CC of a server that stops.
Told(c) ==
  /\ lc[c] = "in"
  /\ toLC[c] # <<>>
  /\ Head(toLC[c]) = "FIN"
  /\ Exit(c)
  /\ Read(c)
  /\ ToServer(c, <<"ACK">>)
  /\ UNCHANGED <<tries, table, accepter, outside>>

\* A packet without a payload is no command: the handler answers it and exits,
\* with or without a CC.
Misled(c) ==
  /\ lc[c] = "in"
  /\ toLC[c] # <<>>
  /\ Head(toLC[c]) # "FIN"
  /\ Fail(c)
  /\ Read(c)
  /\ \E cc \in {<<>>, <<"FIN">>} : ToServer(c, <<Answer(Head(toLC[c]))>> \o cc)
  /\ UNCHANGED <<tries, table, accepter, outside>>

----------------------------------------------------------------------------
\* The accepter.

Arrived == toAcc # <<>>
Packet == Head(toAcc)
Take == toAcc' = Tail(toAcc)
Wait(what) == acc' = what /\ late' = FALSE
Back == Wait("poll") /\ UNCHANGED <<peer, attempt>>

\* The time of a wait is over.  A wait for the connect message is longer than
\* the wait of the controller that sends it again.
TimePasses ==
  /\ acc \in {"accept", "ack", "recv"}
  /\ ~late
  /\ Settled
  /\ acc = "recv" => lc[peer] # "msg" \/ tries[peer] > 1
  /\ late' = TRUE
  /\ UNCHANGED <<controllers, toLC, toServer, table, acc, peer, attempt,
                 lost, outside>>

\* The packet that ends a wait whose time is over is lost, whatever it is.
TooLate ==
  /\ late
  /\ Arrived
  /\ Take
  /\ IF acc = "accept" \/ attempt = TRIES
     THEN Back /\ UNCHANGED <<toLC, lost>>
     ELSE /\ Wait(acc)
          /\ attempt' = attempt + 1
          /\ IF acc = "ack" THEN ToLC(peer, <<"SYN|ACK">>) ELSE UNCHANGED <<toLC, lost>>
          /\ UNCHANGED peer
  /\ UNCHANGED <<controllers, extra, ccSeen, table, outside>>

\* tcpAccept begins when poll has seen a packet, and discards all but a SYN.
Accepting == acc = "accept" \/ (acc = "poll" /\ ~shutdown_flag)

DiscardOther ==
  /\ Accepting
  /\ ~late
  /\ Arrived
  /\ Packet.flags # "SYN"
  /\ Take
  /\ Wait("accept")
  /\ UNCHANGED <<controllers, toLC, extra, ccSeen, table, peer, attempt, lost, outside>>

TakeSynOnly ==
  /\ Accepting
  /\ ~late
  /\ Arrived
  /\ Packet.flags = "SYN"
  /\ Take
  /\ Wait("recv")
  /\ peer' = Packet.from
  /\ attempt' = 1
  /\ ToLC(Packet.from, <<"SYN|ACK">>)
  /\ UNCHANGED <<controllers, extra, ccSeen, table, outside>>

TakeSyn ==
  /\ Accepting
  /\ ~late
  /\ Arrived
  /\ Packet.flags = "SYN"
  /\ Take
  /\ Wait("ack")
  /\ peer' = Packet.from
  /\ attempt' = 1
  /\ ToLC(Packet.from, <<"SYN|ACK">>)
  /\ UNCHANGED <<controllers, extra, ccSeen, table, outside>>

StopAtForeign ==
  /\ acc \in {"ack", "recv"}
  /\ ~late
  /\ Arrived
  /\ Packet.from # peer
  /\ Take
  /\ Back
  /\ UNCHANGED <<controllers, toLC, extra, ccSeen, table, lost, outside>>

\* In a handshake every packet of another sender is discarded, its SYN too.
DiscardForeign ==
  /\ acc \in {"ack", "recv"}
  /\ ~late
  /\ Arrived
  /\ Packet.from # peer
  /\ Take
  /\ UNCHANGED <<controllers, toLC, extra, ccSeen, table, accepter, lost, outside>>

\* The next packet of the peer has to be the ACK.
TakeAck ==
  /\ acc = "ack"
  /\ ~late
  /\ Arrived
  /\ Packet.from = peer
  /\ Take
  /\ IF Packet.flags = "ACK"
     THEN Wait("recv") /\ attempt' = 1 /\ UNCHANGED peer
     ELSE Back
  /\ UNCHANGED <<controllers, toLC, extra, ccSeen, table, lost, outside>>

TakeMsgTwiceAnswered ==
  /\ acc = "recv"
  /\ ~late
  /\ Arrived
  /\ Packet.from = peer
  /\ Take
  /\ ToLC(peer, <<Answer(Packet.flags), Answer(Packet.flags)>>)
  /\ \/ Packet.flags # "FIN" /\ Wait("lock") /\ UNCHANGED <<peer, attempt>>
     \/ Packet.flags # "MSG" /\ Back
  /\ UNCHANGED <<controllers, extra, ccSeen, table, outside>>

\* tcpRecv answers the next packet of the peer; a connect message goes on to
\* connectionDevice, a CC has no device name and does not.  An empty packet
\* leaves in buff what was there, which may be the message of another.
TakeMsg ==
  /\ acc = "recv"
  /\ ~late
  /\ Arrived
  /\ Packet.from = peer
  /\ Take
  /\ ToLC(peer, <<Answer(Packet.flags)>>)
  /\ \/ Packet.flags # "FIN" /\ Wait("lock") /\ UNCHANGED <<peer, attempt>>
     \/ Packet.flags # "MSG" /\ Back
  /\ UNCHANGED <<controllers, extra, ccSeen, table, outside>>

RegisterUnchecked ==
  /\ acc = "lock"
  /\ ~busy
  /\ registered' = registered \cup {peer}
  /\ Back
  /\ UNCHANGED <<controllers, toLC, toServer, refused, stalled, lost, outside>>

RegisterTryLock ==
  /\ acc = "lock"
  /\ registered' = IF Cardinality(registered) < MAX_DEVICE /\ ~busy
                   THEN registered \cup {peer} ELSE registered
  /\ refused' = IF Cardinality(registered) < MAX_DEVICE THEN refused ELSE refused \cup {peer}
  /\ Back
  /\ UNCHANGED <<controllers, toLC, toServer, stalled, lost, outside>>

\* connectionDevice opens tcp_fd only now.  Nobody looks at its result.  That
\* the peer has no slot yet is AcceptedOnce.
Register ==
  /\ acc = "lock"
  /\ ~busy
  /\ IF Cardinality(registered) < MAX_DEVICE
     THEN registered' = registered \cup {peer} /\ UNCHANGED refused
     ELSE refused' = refused \cup {peer} /\ UNCHANGED registered
  /\ UNCHANGED stalled
  /\ Back
  /\ UNCHANGED <<controllers, toLC, toServer, lost, outside>>

AccepterEndsUncancelled ==
  /\ acc = "poll"
  /\ shutdown_flag
  /\ acc' = "done"
  /\ late' = FALSE
  /\ toAcc' = <<>>
  /\ UNCHANGED <<controllers, toLC, extra, ccSeen, table, peer, attempt, lost, outside>>

\* The accepter ends by itself at its poll, or by pthread_cancel where it waits;
\* a mutex is no place to be cancelled at.
AccepterEnds ==
  /\ \/ acc = "poll" /\ shutdown_flag
     \/ main = "cancelled" /\ acc \notin {"lock", "done"}
  /\ acc' = "done"
  /\ late' = FALSE
  /\ toAcc' = <<>>
  /\ UNCHANGED <<controllers, toLC, extra, ccSeen, table, peer, attempt, lost, outside>>

----------------------------------------------------------------------------
\* The other threads of the server, and everything outside.

\* disconnectionDevice, for a CC the getter has read.
Disconnects(c) ==
  /\ ccSeen[c]
  /\ ~busy
  /\ ccSeen' = [ccSeen EXCEPT ![c] = FALSE]
  /\ registered' = registered \ {c}
  /\ UNCHANGED <<controllers, toLC, toAcc, extra, accepter, refused, stalled, lost, outside>>

\* sendAllAccident waits for every controller in the table.
SweepBegins ==
  /\ ~busy
  /\ registered # {}
  /\ TroubleLeft
  /\ busy' = TRUE
  /\ sweeps' = sweeps + 1
  /\ UNCHANGED <<controllers, toLC, toServer, table, accepter, lost,
                 shutdown_flag, main, strays, interrupts>>

SweepEnds ==
  /\ busy
  /\ busy' = FALSE
  /\ UNCHANGED <<controllers, toLC, toServer, table, accepter, lost,
                 shutdown_flag, main, strays, sweeps, interrupts>>

Stray ==
  /\ TroubleLeft
  /\ toAcc = <<>> /\ acc # "done"
  /\ strays' = strays + 1
  /\ toAcc' = <<[from |-> Stranger, flags |-> "ACK"]>>
  /\ UNCHANGED <<controllers, toLC, extra, ccSeen, table, accepter, lost, busy,
                 shutdown_flag, main, sweeps, interrupts>>

\* A SIGINT, or the user's choice to exit, sets the flag.
Sigint ==
  /\ ~shutdown_flag
  /\ shutdown_flag' = TRUE
  /\ UNCHANGED <<controllers, toLC, toServer, table, accepter, lost,
                 busy, main, strays, sweeps, interrupts>>

\* A SIGINT does not end the read of readFromCons: main comes to closeServer
\* once the user has answered, and he may never do so.
CloseBegins ==
  /\ main = "run"
  /\ shutdown_flag
  /\ main' = "closing"
  /\ UNCHANGED <<controllers, toLC, toServer, table, accepter, lost,
                 busy, shutdown_flag, strays, sweeps, interrupts>>

DisconnectAllSilently ==
  /\ main = "closing"
  /\ ~busy
  /\ main' = "walked"
  /\ registered' = {}
  /\ UNCHANGED <<controllers, toLC, toServer, refused, stalled, accepter, lost, busy,
                 shutdown_flag, strays, sweeps, interrupts>>

\* disconnectAllTcp tells every controller in the table and clears its slot.
DisconnectAll ==
  /\ main = "closing"
  /\ ~busy
  /\ main' = "walked"
  /\ toLC' = [c \in Controllers |->
                IF c \in registered /\ lc[c] \in Runs THEN Append(toLC[c], "FIN") ELSE toLC[c]]
  /\ registered' = {}
  /\ UNCHANGED <<controllers, toServer, refused, stalled, accepter, lost, busy,
                 shutdown_flag, strays, sweeps, interrupts>>

Cancel ==
  /\ main = "walked"
  /\ main' = "cancelled"
  /\ UNCHANGED <<controllers, toLC, toServer, table, accepter, lost, busy,
                 shutdown_flag, strays, sweeps, interrupts>>

----------------------------------------------------------------------------
Controller(c) == SynAnswered(c) \/ MsgAnswered(c) \/ Resend(c) \/ Told(c) \/ Misled(c)
Accepter == \/ TooLate \/ DiscardOther \/ TakeSyn \/ DiscardForeign \/ TakeAck
            \/ TakeMsg \/ Register \/ AccepterEnds
Server == SweepEnds \/ DisconnectAll \/ Cancel

Next ==
  \/ \E c \in Controllers : Start(c) \/ Controller(c) \/ Interrupted(c) \/ Disconnects(c)
  \/ Accepter \/ TimePasses \/ Server \/ SweepBegins \/ Stray
  \/ Sigint \/ CloseBegins

Spec == Init /\ [][Next]_vars

FairSpec == /\ Spec
            /\ \A c \in Controllers : WF_vars(Controller(c))
            /\ WF_vars(Accepter)
            /\ WF_vars(Server)
----------------------------------------------------------------------------
\* Properties.
Failed == {c \in Controllers : lc[c] = "failed"}
Started == {c \in Controllers : lc[c] # "off"}

\* What excuses the fate of a controller: a packet was lost, or it repeated its
\* SYN while the accepter waited for a sweep to end.
Excused(c) == lost > 0 \/ c \in stalled

\* As many controllers as there are tries can start at once, in any order and
\* with other traffic in the place of one of them, and all get through, unless
\* a packet is lost, a sweep stalls one or one is stopped halfway.
AllConnect ==
  Cardinality(Started) + strays <= TRIES
    => Failed = {} \/ lost + interrupts > 0 \/ stalled # {} \/ shutdown_flag

\* A session starts in step, as LightSession takes for granted: when the
\* controller has a slot and is in its handler, nothing of the handshake is left
\* for either end to read.
StartsInStep ==
  \A c \in registered :
    lc[c] = "in" => (toLC[c] = <<>> /\ ~extra[c]) \/ Excused(c)

\* No controller with a slot comes to connectionDevice again, whatever is
\* repeated: unical_cli would find it there and free mutex_tcp twice.
AcceptedOnce == acc = "lock" => peer \notin registered

\* The two ends agree: a controller that takes itself for connected has a slot or is
\* about to get it, or the table was full; and the server keeps no slot for a
\* controller that has given up.
SlotsAgree ==
  \A c \in Controllers :
    /\ lc[c] = "in" /\ main \in {"run", "closing"} =>
         \/ c \in registered \cup refused
         \/ acc = "lock" /\ peer = c
         \/ Excused(c)
    /\ lc[c] = "failed" /\ c \in registered => ccSeen[c] \/ Excused(c)

\* When the server has stopped, at most one controller waits in its handler for
\* a server that will never tell it: the one accepterTCP was connecting during
\* disconnectAllTcp.
AtMostOneLeftBehind ==
  acc = "done" /\ main = "cancelled" =>
    Cardinality({c \in Controllers \ refused :
                   lc[c] = "in" /\ toLC[c] = <<>> /\ ~Excused(c)}) <= 1

\* Whoever starts is connected or gives up, and once main has come to closeServer
\* the server gets rid of its accepter, which may be blocked in recvfrom for ever.
ConnectingEnds ==
  <>[](/\ \A c \in Controllers : lc[c] \notin {"syn", "msg"}
       /\ main # "run" => acc = "done")
=============================================================================
