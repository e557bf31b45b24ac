---------------------------- MODULE SensorLoop ----------------------------
(***************************************************************************)
(* A temperature sensor (temperature_sensor.c): find_server asks for the   *)
(* server and looks at one packet of the host's UDP traffic for each try;  *)
(* then the main loop takes a reading a second, sends a ping every         *)
(* PINGEVERY readings, keeps the readings taken while the server does not  *)
(* answer, and gives up after GIVEUP seconds of silence.  The listener     *)
(* thread, which starts with the loop, and SIGINT set received_pong and    *)
(* shutdown_flag between any two steps.                                    *)
(*                                                                         *)
(* The clock is time(): whole seconds.  A sleep(1) spans one of its ticks, *)
(* or two when it overshoots the end of a second; `half' is the half of    *)
(* the second the loop is in, so that a sleep overshoots by less than half *)
(* a second.  Readings are numbered in the order in which they were taken. *)
(***************************************************************************)
EXTENDS Naturals, Sequences

CONSTANTS
  CAP,          \* buffered_temps (10)
  PINGEVERY,    \* readings between two pings (5)
  GIVEUP,       \* seconds without a pong before the sensor stops (10)
  SILENCE,      \* the server forgets a sensor silent for longer (6)
  MaxReadings,  \* bound on the readings taken
  PONGS,        \* bound on the pongs the server gets through
  FAILS,        \* bound on the sendto calls of the loop that fail
  RETRIES,      \* tries of a search (5)
  TROUBLE       \* bound on what delays the search: packets of others, answers
                \* that are lost or do not decrypt, broadcasts that fail

ASSUME LoopAssumption ==
  /\ {CAP, PINGEVERY, GIVEUP, SILENCE, MaxReadings, RETRIES} \subseteq Nat \ {0}
  /\ {PONGS, FAILS, TROUBLE} \subseteq Nat

VARIABLES
  pc,                \* where main is
  taken,             \* readings taken; temp is the latest
  buffered_temps,    \* the readings kept for later
  packet_counter, server_available, received_pong, shutdown_flag,
  since,             \* time (NULL) - last_pong_time, counted up to GIVEUP
  quiet,             \* seconds since a packet left, up to SILENCE + 1
  half,              \* in the second half of a second
  out,               \* the readings that left, in order
  asked, answered,   \* pings that left, up to PONGS, and pongs received
  missed,            \* pings since the last pong main noticed, up to PINGEVERY
  fails,             \* sendto calls that failed
  retries,           \* tries of this search
  inbox,           \* packets in the sensor's raw socket
  answering,         \* an answer of the server is on its way
  trouble            \* what has delayed the search

clock == <<since, quiet, half>>
network == <<asked, answered, fails>>
sensing == <<taken, buffered_temps, packet_counter, server_available,
             received_pong, clock, out, network, missed>>
search == <<retries, inbox, answering, trouble>>
vars == <<pc, shutdown_flag, sensing, search>>

UpTo(n, bound) == IF n < bound THEN n ELSE bound

Init ==
  /\ pc = "search" /\ retries = 0 /\ inbox = <<>> /\ answering = FALSE /\ trouble = 0
  /\ taken = 0 /\ buffered_temps = <<>> /\ packet_counter = 0
  /\ server_available = TRUE /\ received_pong = FALSE /\ shutdown_flag = FALSE
  /\ since = 0 /\ quiet = 0 /\ half \in BOOLEAN
  /\ out = <<>> /\ asked = 0 /\ answered = 0 /\ missed = 0 /\ fails = 0

----------------------------------------------------------------------------
\* The listener and the handler of SIGINT.

\* A pong, however late: main does not tell which ping it answers.
Pong ==
  /\ pc # "stopped" /\ answered < asked
  /\ UNCHANGED search
  /\ answered' = answered + 1
  /\ received_pong' = TRUE
  /\ UNCHANGED <<pc, taken, buffered_temps, packet_counter, server_available,
                 shutdown_flag, clock, out, asked, missed, fails>>

\* SIGINT, or the server's CC.
Stop ==
  /\ pc # "stopped" /\ ~shutdown_flag
  /\ shutdown_flag' = TRUE
  /\ UNCHANGED <<pc, sensing, search>>

----------------------------------------------------------------------------
\* find_server, which main calls until it has found the server.

InTrouble == trouble < TROUBLE /\ trouble' = trouble + 1

\* The server answers a WHO S, and any other UDP packet may come.
Reply ==
  /\ answering
  /\ answering' = FALSE
  /\ inbox' = Append(inbox, "Im_S")
  /\ UNCHANGED <<pc, shutdown_flag, sensing, retries, trouble>>

OtherTraffic ==
  /\ pc \in {"search", "look"}
  /\ InTrouble
  /\ inbox' = Append(inbox, "other")
  /\ UNCHANGED <<pc, shutdown_flag, sensing, retries, answering>>

\* The try is over.  After the last one of a search the next search begins.
Retry ==
  /\ pc' = "search"
  /\ retries' = (retries + 1) % RETRIES

\* The broadcast of WHO S, which may fail, or its answer be lost.
Ask ==
  /\ pc = "search" /\ ~shutdown_flag
  /\ \/ pc' = "look" /\ answering' = TRUE /\ UNCHANGED <<retries, trouble>>
     \/ pc' = "look" /\ InTrouble /\ UNCHANGED <<retries, answering>>
     \/ InTrouble /\ Retry /\ UNCHANGED answering
  /\ UNCHANGED <<shutdown_flag, sensing, inbox>>

\* recvfrom returns nothing, or one packet that is not of the server.  An answer
\* that does not decrypt is not counted as a try.
Missed ==
  /\ pc = "look"
  /\ \/ inbox = <<>> /\ Retry /\ UNCHANGED <<inbox, trouble>>
     \/ /\ inbox # <<>> /\ Head(inbox) = "other"
        /\ Retry /\ inbox' = Tail(inbox) /\ UNCHANGED trouble
     \/ /\ inbox # <<>> /\ Head(inbox) = "Im_S"
        /\ InTrouble
        /\ pc' = "search" /\ inbox' = Tail(inbox) /\ UNCHANGED retries
  /\ UNCHANGED <<shutdown_flag, sensing, answering>>

SearchEnds == retries' = 0 /\ inbox' = <<>> /\ answering' = FALSE /\ trouble' = 0

\* The server is found; what else is in the socket the listener will pass over.
Found ==
  /\ pc = "look" /\ inbox # <<>>
  /\ Head(inbox) = "Im_S"
  /\ pc' = IF shutdown_flag THEN "stopped" ELSE "loop"
  /\ SearchEnds
  /\ UNCHANGED <<shutdown_flag, sensing>>

SearchStops ==
  /\ pc = "search" /\ shutdown_flag
  /\ pc' = "stopped"
  /\ SearchEnds
  /\ UNCHANGED <<shutdown_flag, sensing>>

Search == Ask \/ Missed \/ Found \/ SearchStops

----------------------------------------------------------------------------
\* Time passes for main.  A blocking call that SIGINT cuts short may span no
\* tick at all.
Passes(ticks) ==
  /\ since' = UpTo(since + ticks, GIVEUP)
  /\ quiet' = UpTo(quiet + ticks, SILENCE + 1)

\* received_pong = 0 and send_ping: the ping leaves, or sendto fails.
Ping ==
  /\ received_pong' = FALSE
  /\ missed' = UpTo(missed + 1, PINGEVERY)
  /\ \/ quiet' = 0 /\ asked' = UpTo(asked + 1, PONGS) /\ UNCHANGED <<answered, fails>>
     \/ fails < FAILS /\ fails' = fails + 1 /\ UNCHANGED <<quiet, asked, answered>>
  /\ UNCHANGED <<since, half>>

\* The top of the loop: a reading is taken, and every PINGEVERY of them the
\* server is asked for a pong first.
Measure ==
  /\ pc = "loop" /\ ~shutdown_flag /\ taken < MaxReadings
  /\ taken' = taken + 1
  /\ packet_counter' = packet_counter + 1
  /\ IF packet_counter' >= PINGEVERY
     THEN pc' = "ping" /\ Ping
     ELSE pc' = "deliver" /\ UNCHANGED <<received_pong, clock, network, missed>>
  /\ UNCHANGED <<buffered_temps, server_available, shutdown_flag, out>>

AfterWait == [ping |-> "decide", probe |-> "flush"]

\* The second in which a ping was sent is over.
WaitEnds ==
  /\ pc \in DOMAIN AfterWait
  /\ pc' = AfterWait[pc]
  /\ Passes(1) /\ half' = FALSE
  /\ UNCHANGED <<taken, buffered_temps, packet_counter, server_available,
                 received_pong, shutdown_flag, out, network, missed>>

\* The wait is cut short by a pong or by the end of the program.
WaitCut ==
  /\ pc \in DOMAIN AfterWait /\ (received_pong \/ shutdown_flag)
  /\ pc' = AfterWait[pc]
  /\ half' \in {half, TRUE}
  /\ UNCHANGED <<taken, buffered_temps, packet_counter, server_available,
                 received_pong, shutdown_flag, since, quiet, out, network, missed>>

HeardOnly == server_available' = TRUE /\ UNCHANGED since /\ missed' = 0

\* main has seen a pong: last_pong_time = time (NULL).
Heard == server_available' = TRUE /\ since' = 0 /\ missed' = 0

AnsweredKeepsCounting ==
  /\ pc = "decide" /\ received_pong
  /\ Heard
  /\ pc' = "deliver"
  /\ UNCHANGED <<taken, buffered_temps, packet_counter, received_pong,
                 shutdown_flag, quiet, half, out, network>>

\* After the ping of every PINGEVERY-th reading.
Answered ==
  /\ pc = "decide" /\ received_pong
  /\ Heard
  /\ packet_counter' = 0
  /\ pc' = "deliver"
  /\ UNCHANGED <<taken, buffered_temps, received_pong, shutdown_flag, quiet, half,
                 out, network>>

Unanswered ==
  /\ pc = "decide" /\ ~received_pong /\ since < GIVEUP
  /\ server_available' = FALSE
  /\ packet_counter' = 0
  /\ pc' = "deliver"
  /\ UNCHANGED <<taken, buffered_temps, received_pong, shutdown_flag, clock, out,
                 network, missed>>

\* "Server unreachable for 10 seconds, shutting down".
GivesUp ==
  /\ pc = "decide" /\ ~received_pong /\ since >= GIVEUP
  /\ server_available' = FALSE
  /\ shutdown_flag' = TRUE
  /\ pc' = "stopped"
  /\ UNCHANGED <<taken, buffered_temps, packet_counter, received_pong, clock, out,
                 network, missed>>

----------------------------------------------------------------------------
KeptInFront == IF Len(buffered_temps) < CAP THEN <<taken>> \o buffered_temps
               ELSE buffered_temps

\* A reading is kept for later, or discarded when the buffer is full.
Kept == IF Len(buffered_temps) < CAP THEN Append(buffered_temps, taken)
        ELSE buffered_temps

Packet(cmd, reading) == [cmd |-> cmd, reading |-> reading]
ResendsNewestFirst(readings) ==
  [i \in DOMAIN readings |-> Packet("resend", readings[Len(readings) + 1 - i])]
Resends(readings) == [i \in DOMAIN readings |-> Packet("resend", readings[i])]

AfterNoMove(readings, k) == SubSeq(readings, 1, Len(readings) - k)
\* What the loop over the buffer leaves in it after k resends: memmove, or an
\* empty buffer when none of them failed.
After(readings, k) == SubSeq(readings, k + 1, Len(readings))

\* The server is there: the reading is sent, or kept when sendto fails, and
\* then the buffer is sent again up to the first failure.
Deliver ==
  /\ pc = "deliver" /\ server_available
  /\ \E sent \in BOOLEAN :
       LET unsent == IF sent THEN buffered_temps ELSE Kept IN
       \E k \in 0 .. Len(unsent) :
         LET gone == (IF sent THEN <<Packet("send", taken)>> ELSE <<>>)
                       \o Resends(SubSeq(unsent, 1, k))
         IN
         /\ fails' = fails + (IF sent THEN 0 ELSE 1) + (IF k = Len(unsent) THEN 0 ELSE 1)
         /\ fails' <= FAILS
         /\ out' = out \o gone
         /\ buffered_temps' = After(unsent, k)
         /\ quiet' = IF gone = <<>> THEN quiet ELSE 0
  /\ pc' = "sleep"
  /\ UNCHANGED <<taken, packet_counter, server_available, received_pong,
                 shutdown_flag, since, half, asked, answered, missed>>

HoldAsksWhenFull ==
  /\ pc = "deliver" /\ ~server_available
  /\ buffered_temps' = Kept
  /\ IF Len(buffered_temps') >= CAP
     THEN pc' = "probe" /\ Ping
     ELSE pc' = "sleep" /\ UNCHANGED <<received_pong, clock, network, missed>>
  /\ UNCHANGED <<taken, packet_counter, server_available, shutdown_flag, out>>

\* The server is away: the reading is kept, and from the second one on the
\* server is asked again.
Hold ==
  /\ pc = "deliver" /\ ~server_available
  /\ buffered_temps' = Kept
  /\ IF Len(buffered_temps') >= 2
     THEN pc' = "probe" /\ Ping
     ELSE pc' = "sleep" /\ UNCHANGED <<received_pong, clock, network, missed>>
  /\ UNCHANGED <<taken, packet_counter, server_available, shutdown_flag, out>>

\* The server is back: the buffer is sent up to the first failure, and emptied
\* whatever happened (the code asks whether the function send is positive).
Flush ==
  /\ pc = "flush" /\ received_pong
  /\ Heard
  /\ \E k \in 0 .. Len(buffered_temps) :
       /\ fails' = fails + (IF k = Len(buffered_temps) THEN 0 ELSE 1)
       /\ fails' <= FAILS
       /\ out' = out \o Resends(SubSeq(buffered_temps, 1, k))
       /\ quiet' = IF k = 0 THEN quiet ELSE 0
  /\ buffered_temps' = <<>>
  /\ pc' = "sleep"
  /\ UNCHANGED <<taken, packet_counter, received_pong, shutdown_flag, half, asked,
                 answered>>

StillAway ==
  /\ pc = "flush" /\ ~received_pong
  /\ pc' = "sleep"
  /\ UNCHANGED <<taken, buffered_temps, packet_counter, server_available,
                 received_pong, shutdown_flag, clock, out, network, missed>>

\* sleep (1).
Sleep ==
  /\ pc = "sleep"
  /\ \/ Passes(1) /\ half' \in {half, TRUE}
     \/ half /\ Passes(2) /\ half' = FALSE
     \/ shutdown_flag /\ half' \in {half, TRUE} /\ UNCHANGED <<since, quiet>>
  /\ pc' = "loop"
  /\ UNCHANGED <<taken, buffered_temps, packet_counter, server_available,
                 received_pong, shutdown_flag, out, network, missed>>

LeaveIfAvailable ==
  /\ pc = "loop" /\ shutdown_flag /\ server_available
  /\ pc' = "stopped"
  /\ UNCHANGED <<taken, buffered_temps, packet_counter, server_available,
                 received_pong, shutdown_flag, clock, out, network, missed>>

\* send_disconnect and the end of the program.
Leave ==
  /\ pc = "loop" /\ shutdown_flag
  /\ pc' = "stopped"
  /\ UNCHANGED <<taken, buffered_temps, packet_counter, server_available,
                 received_pong, shutdown_flag, clock, out, network, missed>>

Loop == /\ \/ Measure \/ WaitEnds \/ WaitCut \/ Answered \/ Unanswered \/ GivesUp
           \/ Deliver \/ Hold \/ Flush \/ StillAway \/ Sleep \/ Leave
        /\ UNCHANGED search

Main == Search \/ Loop

Next == Main \/ Reply \/ OtherTraffic \/ Pong \/ Stop

Spec == Init /\ [][Next]_vars

\* main is a thread that the system runs, and a server that has been asked
\* answers unless the answer is lost.  Pongs are owed by nobody.
FairSpec == Spec /\ WF_vars(Main) /\ WF_vars(Reply)

----------------------------------------------------------------------------
Count == 0 .. MaxReadings
Buffered == {buffered_temps[i] : i \in DOMAIN buffered_temps}
Sent == {out[i].reading : i \in DOMAIN out}

\* Every variable has its type, and the buffer its capacity.
TypeOK ==
  /\ pc \in {"search", "look", "loop", "ping", "decide", "deliver", "probe", "flush", "sleep", "stopped"}
  /\ taken \in Count
  /\ Len(buffered_temps) <= CAP /\ Buffered \subseteq 1 .. taken
  /\ packet_counter \in 0 .. PINGEVERY
  /\ {server_available, received_pong, shutdown_flag, half} \subseteq BOOLEAN
  /\ since \in 0 .. GIVEUP /\ quiet \in 0 .. SILENCE + 1
  /\ \A i \in DOMAIN out : out[i].cmd \in {"send", "resend"} /\ out[i].reading \in 1 .. taken
  /\ asked \in 0 .. PONGS /\ answered \in 0 .. asked
  /\ missed \in 0 .. PINGEVERY /\ fails \in 0 .. FAILS
  /\ retries \in 0 .. RETRIES - 1 /\ inbox \in Seq({"Im_S", "other"})
  /\ answering \in BOOLEAN /\ trouble \in 0 .. TROUBLE

\* No reading reaches the server twice, whatever fails in between: the ones
\* that left are not in the buffer, and none left as send and as resend.  Readings
\* kept for later leave in the order in which they were taken, over all the
\* flushes of a run; only a fresh reading overtakes them.
OnceAndInOrder ==
  /\ Sent \cap Buffered = {}
  /\ \A i, j \in DOMAIN out :
       i < j => /\ out[i].reading # out[j].reading
                /\ out[j].cmd = "send" \/ out[i].cmd = "resend"
                     => out[i].reading < out[j].reading

\* While no sendto fails, some packet of the sensor leaves in every SILENCE
\* seconds, also when no pong ever comes back: a server that only loses its
\* answers does not forget the sensor.
NeverSilent == fails = 0 => quiet <= SILENCE

\* The sensor ends, unless it is stopped, only after PINGEVERY pings in a row that
\* main took for unanswered: no search gives up for good, and one lost pong, or
\* one late, does not end it.
GivesUpAfterManyPings ==
  [][pc # "stopped" /\ pc' = "stopped" /\ ~shutdown_flag => missed >= PINGEVERY]_vars

\* Every reading is sent or kept until it is, but for a resend that fails when the
\* server is back.  The buffer is never too full for the next reading, not even
\* when a sendto fails: the sensor gives up or gets through before.
AtHand == Buffered \cup (IF pc = "deliver" THEN {taken} ELSE {})
KeptUntilSent ==
  [][\/ AtHand \subseteq AtHand' \cup Sent'
     \/ pc = "flush" /\ fails' > fails]_vars

\* The comment on the end of the buffer's flush: "Очищаем буфер после успешной
\* отправки", the buffer is emptied after it has been sent.
ClearedAfterSending ==
  [][\A r \in Buffered : r \in Buffered' \cup Sent']_vars

\* A sensor finds its server, if that answers, and stops by itself once the server
\* has fallen silent for good.
StopsByItself == <>(pc = "stopped")

\* The temperature the server shows, when nothing is lost, is that of the packet
\* that left last, "resend" or not; the fresh reading leaves before the older ones
\* of the buffer.  While the sensor takes its server for there it shows at worst
\* the reading before the latest.
Shown == out[Len(out)].reading
ShownIsRecent ==
  pc = "sleep" /\ server_available /\ fails = 0 => taken - Shown <= 1
===========================================================================
