# TLA+ models of the IoT emulator

The program (`src/`, C, raw sockets) emulates a smart home: a **server** that
temperature **sensors** (UDP) and **light controllers** (its own TCP over raw IP)
find by a broadcast, register with and talk to in JSON messages. The server
shows the sensors' temperatures, switches lamps for the user and, when a sensor
reports more than 34.5 °C, sweeps over all lamps to turn them off. This directory
holds TLA+ modules of its core, the TLC runs that check them, and TLAPS proofs.

Contents: 1 the system and its hard parts; 2 modules and how they correspond to
the code; 3 runs, bounds and what they show; 4 fairness; 5 what is proved;
6 where code and documentation disagree; 7 assumptions and what is left out;
8 plan. `PROJECT.json` holds the machine-readable form: components, runs,
mutants, the source lines of every definition, findings, hazards, theorems.

Definitions that no specification uses (`LastFree`, `LockUnasked`, ...) are the
operator below them with a plausible bug in it. `PROJECT.json` "mutants" pairs
each of them with the property it breaks, as evidence that the property depends
on the code.

## 1. The system

### Inventory

| Part (file) | State | Operations | Concurrency and failure | What makes it correct |
|---|---|---|---|---|
| Sensor table (`server.c`) | `devices_udp`, `udp_last_receive`, `mutex_udp` | `connectionDevice`, `unical_cli`, `setTemp`, `update_last_receive`, `disconnectionDevice`, `disconnectAllUdp`, `monitor_udp_devices` | four threads; one datagram takes up to three sections of the mutex; one function unlocks twice | no sensor in two slots, a CC forgets its sensor, only silent sensors are evicted, a hot reading starts the sweep, `closeServer` returns |
| Sessions with controllers (`server.c`, `tcp.c`, `packet.c`) | `devices_tcp`, one raw socket per controller, `mutex_tcp` | `getLightId`, `sendAllAccident`, `setLight`, `getTcpPacketDisconeccted`, `disconnectAllTcp`; `tcpSend`, `tcpRecv` | main and the getter use one socket at once; loss, timeouts, retries; packets carry no number | both ends stay in step, the mask shown is the lamp, a sweep puts lamps out, nobody waits for ever |
| Light controller (`light_controller.c`) | lamps, socket | `handlerLightController`, `setStateLight`, SIGINT | exits on a failed exchange; a handler that reads unset variables | see above |
| Temperature sensor (`temperature_sensor.c`) | buffer of ten readings, pong time, flags | main loop, listener thread, `send_ping`, `send_disconnect` | late or lost pongs, failing `sendto`, SIGINT | readings sent once and in order, never silent while it runs, gives up only on real silence |
| Log (`server_ring_buffer.c`, `logg`) | ring of 100 messages, the file | `ring_buffer_push`, `ring_buffer_write_to_file` | five threads log, no mutex of their own; one of them writes the file | latest messages in order; the count stays bounded |
| Statistics writer (`stats_writer_thread`) | none | copies both tables and the log to files | takes the mutexes every five seconds | never blocks the rest |
| Accepting controllers (`accepterTCP`, `tcpAccept`, `tcpConnect`) | one raw socket for all controllers | three-way handshake, connect message, `connectionDevice` | packets of several controllers in one blocking socket; repeats, loss, a sweep that holds `mutex_tcp`, cancellation | everybody gets through, one slot per controller, sessions start in step, the close ends |
| Discovery (`broadcast.c`, `find_server`, `sendDeclare`) | retries, answers in the socket | `WHO S` / `Im S` | loss, late answers, packets of others, two modes of encryption | a client finds a server of its own mode and no other |
| Encryption (`encrypt.c`) | the caller's buffers | XOR, Base64 | rooms that the text just fills, bytes equal to the key | decoding inverts encoding, nothing is written past a room |
| JSON (`jparce.c`) | none | `parse`, `jGetVal` | results of the tokeniser that nobody looks at | accepts objects only, finds the value of a key |
| Telegram bot (`bot/`) | none | formats `statistic.info` | none | output only |

### How the parts interact

`getterPackets` is one thread that polls the UDP socket and the sockets of
controllers and calls `jsonManager` for every message. For a reading
`jsonManager` calls `unical_cli`, then `connectionDevice` if the sensor is new, then `setTemp`, then
`update_last_receive`. `setTemp` calls
`sendAllAccident` while it holds `mutex_udp`; the sweep talks to each controller over
TCP, and its reply goes through `jsonManager` to `setLight`. Main shows the menu, gives commands (`getLightId`) over the same sockets and closes the
server. The monitor evicts silent sensors, the statistics writer reads everything. Almost every
step logs.

### Hard parts

Three things make the code hard to test, and the properties are aimed at them:

1. *Atomicity of a datagram.* The mutex is released between the sections of one
   message; the monitor runs in the gap. `unical_cli` frees the mutex a second
   time, possibly while another thread holds it.
2. *Answers without numbers.* Whoever waits takes the next packet for his. One
   packet too many or too few shifts everything after it.
3. *Time.* A sensor forgotten after 6 s, pings every 5 readings, giving up after
   10 s, a buffer of 10: whether these fit together is not stated anywhere.

`PROJECT.json` "hazards" lists every hazard with its line and the properties
that would catch it.

## 2. Modules

    SensorDirectory <--implements-- UdpDevices <-- MCUdpDevices
                                        ^--------- UdpDevicesProofs
    TcpHandshake  <-- MCTcpHandshake, TcpHandshakeProofs
    LightSession  <-- MCLightSession, LightSessionProofs
    SensorLoop    <-- MCSensorLoop, SensorLoopProofs
    BoundedLog <--implements-- RingBuffer <-- MCRingBuffer
                                        ^--------- RingBufferProofs
    LogRace    <-- MCLogRace, LogRaceProofs
    Codec, Json <-- Messages <-- Discovery <-- MCMessages
      ^                            ^
      CodecProofs <------- MessagesProofs

A controller's life runs through four of them: `Discovery` finds the server,
`TcpHandshake` gets it a slot, `LightSession` starts where that ends (its initial
state is what `StartsInStep` promises), and `Messages` is what every text of it
goes through. A sensor's life is `SensorLoop`, seen from the server `UdpDevices`.

### UdpDevices, SensorDirectory

The table of sensors. `client`, `is_connected`, `temperature` are the fields of
`devices_udp[i]`; `age[i]` is the time since `udp_last_receive[i]`, capped one above
`TIMEOUT` because no code tells older ages apart. `pc` says where each of the four
threads (getter, monitor, stats, main) is. A section of the mutex is two
steps, `Lock(t)` and a step with the section's work that ends in `Unlock(t)`; walks
of the table that take several steps in the code (monitor, `disconnectAllUdp`)
advance one slot per step through `at`.

`Unlock` frees the mutex whoever owns it, as an unlock of a default pthread mutex
does. `inside` holds the threads between their lock and unlock, `robbed` those
whose lock another thread has freed: `unical_cli` unlocks in its loop and again after it,
so that `Unical` on a hit leads to `UnlockAgain`. `excuse` records why the
current datagram's sensor may have no slot, and is history only.

| Action | Code |
|---|---|
| `Receive`, `ReceiveFails`, `PollTimeout` | `getterPackets`, `getUdpPacket` |
| `Unical`, `UnlockAgain` | `unical_cli` (asked by `jsonManager`, and by `connectionDevice` again) |
| `Insert`, `InsertFull` | `connectionDevice` |
| `Pong` | the ping branch of `jsonManager` |
| `SetTemp`, `SetTempUnregistered`, `SweepDone` | `setTemp`, with the mutex held during `sendAllAccident` |
| `Touch` | `update_last_receive` |
| `Disconnect` | `disconnectionDevice` (first match of the address, live or not) |
| `ReadNow`, `Inspect`, `Evict`, `MonitorUnlock` | `monitor_udp_devices`; `now` is read before the lock |
| `StatsUnlock`, `StatsExit` | `stats_writer_thread` |
| `UserPrints` ... `UserExits`, `PrintDone`, `Sigint` | `UserInterface`, `printUDPdevices`, `sigHandle` |
| `CloseSlot`, `CloseUnlock`, `Join` | `disconnectAllUdp`, `closeServer` |

`SensorDirectory` is what the table is for: a sensor is absent, or known with one
reading; sensors register while there is room. `UdpDevices` implements it with
`status[s]` = the temperature in the live slot of `s`, or `Absent`.

### LightSession

Sessions packet by packet, from the moment the controllers are connected. `toLC` and
`toFd` are the packets on their way to a controller and to the session's raw
socket. Every raw socket of the server gets a copy of a packet: a CC of a
controller is in the getter's own socket too (`ccSeen`). Main and the getter are two users of
the same sockets: `send` / `ack` are the two halves of `tcpSend`, `reply` is `tcpRecv`,
`set` is `jsonManager` after it. `tcpSend` takes any packet of the peer for the
acknowledgement, `tcpRecv` any packet for the reply and answers it by its flags
(`AnswerFlags`); no sequence or
acknowledgement number is compared.
Controllers act through `Obey`, `Acknowledged`, `ReplyTimeout` (retries, then exit)
and `Interrupted`. Whether the controller's SIGINT handler sends its CC depends
on two variables it never sets, so both outcomes are behaviours. A packet
without payload leaves the receive buffer as it was: `Obey` and
`TakeEmptyReply` choose between the outcomes (old content, not JSON, not
decryptable). `getLightId` uses `tcp_fd` without the mutex, the sweep gives the mutex up
while it handles a reply; both are as in the code.

History variables: `shared` (controllers both threads were in an exchange with
at once), `lost`, `heard`. `Excused` is built from them.

### RingBuffer, BoundedLog, LogRace

`RingBuffer` is `server_ring_buffer.c` one call a step and implements
`BoundedLog`, a sequence of the latest `SIZE` messages and a file that is a copy
of it. `LogRace` is the same code one access a step: the threads call
`ring_buffer_push` without a mutex of its own, and the increments are a load and a store.
Five threads of the server log: the getter, the accepter (`server.c:972`), the monitor
(647), main after every successful command (334, then 1185) and the statistics writer when `fopen`
fails (612), which is also the one that writes the log file (`stats`) and logs only between two files. Some of these
messages are logged under the mutex of a table; the model leaves that out and lets all interleave, so that it has
every behaviour of the code and some more.
The first message initialises the buffer, field by field (`InitHead` ...
`InitDone`), and so may the first messages of several threads, the second over
what was pushed in between: those messages are lost, and no property says
otherwise (`SettledRing` is about messages that do not overlap). Contents are left out, except whether a slot was
ever written.

### SensorLoop

The main loop of a sensor with its listener. `since` is the time since
`last_pong_time`, `quiet` the time since a packet last left, `half` the half of the
second the loop is in (a `sleep (1)` may span two ticks of `time ()`).
Readings are numbered. `Measure` takes a reading and, every fifth time, sends a ping;
`WaitEnds` / `WaitCut` are the wait for the pong; `Answered`, `Unanswered`, `GivesUp`
decide; `Deliver` is the branch of an available server (send, then resend the
buffer up to the first failure), `Hold`, `Flush`, `StillAway` the other branch;
`Pong` and `Stop` are the listener and SIGINT between any two steps.

Before the loop comes `find_server`: `Ask` broadcasts, `Missed` and `Found` look at
one packet per try, whoever sent it; a search of five tries that fails
is followed by the next one. Answers stay in the socket and serve a later try.

### TcpHandshake

Controllers connect through `accepterTCP`'s one socket. `lc[c]` is where the
controller is (`tcpConnect`, `tcpSend` of the connect message, its handler), `acc`
where the accepter is. `TakeSyn`, `TakeAck`, `TakeMsg`, `Register` are the good
way; `DiscardOther` and `DiscardForeign` throw away what is no SYN or not of the
peer, so that a second controller's SYN is lost and repeated by its owner.
The socket blocks: a wait whose time is over (`TimePasses`) ends only with the next
packet, and that packet is lost (`TooLate`); a server that stops relies on
`pthread_cancel` (`AccepterEnds`), for which a mutex is no place to be cancelled at.
`Sigint` only sets the flag: main is in the `read` of `readFromCons`, which `signal ()` restarts, and comes to
`closeServer` when its user answers (`CloseBegins`). `busy` is a sweep of
another thread that holds `mutex_tcp`, at which `connectionDevice` waits. A packet
to the server comes to every raw socket that is open: `extra` says that one came to
`tcp_fd` before its session began. History: `refused`, `stalled`, `lost`.

### Codec, Json, Messages, Discovery

`Codec` is `encrypt.c` over sequences of bytes: XOR with the key, Base64 by packs
of three with its two ways to end, the rooms both functions ask for, and `strlen`
(`CString`) where the code calls it on bytes not yet decrypted.

`Json` is `jparce.c` over lexemes. `ReadToken` is `getToken`, `ReadArray` one round of
`getArrayToken`, and `ArrayEnds` the function that solves the recursion of the
two. They keep two peculiarities: a string or number that cannot be read leaves the
`token_t` as it was, and inside an array that is what the stack held. `GetVal` is the walk of
`jGetVal`: `Visit` is one round of its loop, `Walk` the function that solves it, over what a round starts from
(`Visits`); `Outside` says that it left the text.

`Messages` sends one message through both: built, encrypted if the sender runs
with `-e`, in the receiver's buffer (with what was there before behind it, as
`recvPacket` writes no '\0'), decrypted if the receiver runs with `-e`, and parsed
token by token (`Advance`, `Finish`, `Refuse`). What is JSON is stated
separately, by which lexeme may follow which (`Legal`), and what `jGetVal` should find by a
quantifier over the pairs (`FirstPair`).

`Discovery` extends it with `recvDataServer` and `sendDeclare`: the question is
encrypted once and broadcast until an answer compares equal, five waits have
ended with nothing, or a call fails. The two texts are built from the words of
`broadcast.c` 19 and 20 (`OnePair`), which are constants: all that the proofs need of them is
`WordsAreSafe` (no `'\0'` and no byte 0xAA) and `RoomsSuffice`.

## 3. Runs

Each component has one type invariant: `TypeOK`, which is checked by itself
(`light`, `sensor`, `connect`) or as a part of the named invariant (`TableInv`, `RingInv`,
`Bounded`, `StaysInside`).

| Run | What it checks | Instance |
|---|---|---|
| `udp_serving` | `TableInv` (inductive; `TypeOK`, `FirstMatchIsLive` and five more parts), `ExclusionUntilRobbed`, `DisconnectForgets`, `RobbedByUnical`, `EvictionIsStale`, `HotReadingSweepsUnlessExcused`, `ImplementsDirectory` | 3 sensors, 2 slots, one (hot) temperature, TIMEOUT 1, server not stopped; 0.7 M states |
| `udp_closing` | `AtMostOneStranded` | 3 sensors, 2 slots, no readings, any stop at any time; 2.0 M states |
| `udp_liveness` | `QuietNetworkEmptiesTable`, `CloseCompletes` | 1 sensor, 1 slot, fair; 0.19 M states |
| `udp_overheating` | *violated*: `HotReadingSweeps` | 2 sensors, 2 slots |
| `connect` | `AllConnect`, `StartsInStep`, `AcceptedOnce`, `SlotsAgree`, `AtMostOneLeftBehind`, `ConnectingEnds` | 3 controllers, 2 slots, 3 tries, 2 troubles, a stop at any time, fair; 1.2 M states |
| `light` | `MasksAgree`, `KeepsPlace`, `InStep`, `AllTold`, `SweepPutsOutUnlessExcused`, `ExchangesReturn` | 2 controllers, 2 tries, 1 lost packet, 1 command, 1 sweep, fair; 0.8 M states |
| `light_overheating` | *violated*: `SweepPutsOut` | 1 controller, 1 command, 1 sweep |
| `ring` | `RingInv`, `ImplementsLog` | 3 slots, 2 messages; 377 states |
| `log_shared` | `Bounded`, `SettledRing` | the 5 threads that log, one of them the writer of the file, 1 slot, initialisation included; 3.0 M states |
| `sensor` | `NeverSilent`, `OnceAndInOrder`, `ShownIsRecent`, `GivesUpAfterManyPings`, `StopsByItself`, `KeptUntilSent` | the constants of the code, 6 troubles of the search, 2 pongs, 1 failing `sendto`, fair; 0.4 M states |
| `sensor_clearing` | *violated*: `ClearedAfterSending` | buffer 3, ping every 4, give up after 6, 2 pongs, 1 failure |
| `messages` | `StaysInside`, `AcceptsExactly`, `FindsThePair`, `ArrivesAsSent`, `FindsItsServer` | all messages in all modes and rooms, all short and nearly right texts; 0.2 M states |

### What the passing runs show

- The five functions that look a sensor up in the table use three different
  conditions; they agree because no slot before a live one has its address
  (`FirstMatchIsLive`). It is not obvious: a sensor that moves to an earlier slot after
  an eviction leaves its address behind in the later one, never in an earlier.
- The only way for two threads to be inside `mutex_udp` at once is the second
  unlock of `unical_cli` (`ExclusionUntilRobbed`, `RobbedByUnical`), and without
  it the monitor evicts only sensors that have been silent for longer than
  `TIMEOUT`, although `now` is read before the lock (`EvictionIsStale`).
- A hot reading starts the sweep unless the table was full or another thread took
  the slot between registration and `setTemp`.
- When main has joined the threads at most one sensor is registered that was never sent a CC
  (`AtMostOneStranded`); the getter handles at most one datagram after the walk of `disconnectAllUdp`.
- Up to three controllers that start at once get through, whatever the order of their packets
  in the accepter's socket (`AllConnect`), no controller comes to `connectionDevice` twice, and a session
  starts with nothing left over of the handshake (`StartsInStep`). What can spoil it is a lost packet, or
  a SYN repeated while the accepter waits for a sweep, which shifts the next handshake
  by one packet. With a full table a controller believes that it is connected and has no slot (`refused`).
- The accepter's wait may outlive its time for ever; it is `pthread_cancel` that ends it, once the user has let main come to
  `closeServer` (`ConnectingEnds`), and at most one
  controller is left behind by a server that stops (`AtMostOneLeftBehind`).
- If nothing is lost and two threads do not overlap on one controller, the sessions
  stay in step, whatever the order of commands, sweep, departures and close: masks agree with lamps, no running controller is evicted.
  Whatever is lost, commands, sweeps and the close return.
- The count of the shared log stays bounded, whatever the threads do, but not near the size. With N threads it
  reaches `SIZE` and the binomial of N + `SIZE` - 1 over `SIZE` + 1 (`Limit`), and the log file with it: one more than the size with
  two threads, twice the size and two with three, 12 with four threads and 2 slots, 11 with the five threads and 1 slot, in which
  TLC finds it reached. While a thread holds a low count it loaded long ago, the rest fill
  the buffer; its store lets all of them pass the test once more, each from the high count it holds.
- With the code's constants a sensor is never silent for more than 6 seconds while `sendto`
  works (so a server that hears it never forgets it), never has to discard a reading because the buffer is
  full, shows at worst the reading before its latest although the fresh one overtakes the buffered ones, and, unless stopped,
  ends only after five pings in a row went unanswered; a search that fails is begun again.
- Although `getToken` ignores the results of `getStringToken` and `getNumToken`, `parse` accepts
  objects and nothing else, except where the first thing of a text or an array
  cannot be read (`ReadsJunk`). `jGetVal`, which compares the length of the key it meets and
  checks nothing, finds the first pair with the key in every text that begins with an object, if
  no shorter name in it begins the key (`Distinct`), which the program's texts fulfil (`TextsAreObjects`).
- A message arrives as it was sent or not at all, whatever the receive buffer
  held before. Only a mode that differs, a room too small or a byte 0xAA lose it.

### Bounds, and why they are enough

- *UdpDevices.* Slots are symmetric except for their order, and every operation
  looks at one slot and at those before it: two slots have a first match, a later one
  and a full table (with a third sensor). `TIMEOUT` 1 gives an age that is fresh, at the
  limit and over it. `udp_serving` leaves the shutdown to `udp_closing`. The proofs cover every number of slots, sensors and temperatures.
- *TcpHandshake.* Three controllers, two slots: one in the handshake, one whose packets are
  foreign to it, one more that finds the table full. `TRIES` is the code's 3. `MaxTrouble` 2 lets two things go wrong in one
  history, as a stranger's packet that ends a late wait and a lost one after it.
- *LightSession.* Two controllers give the sweep one to skip or evict and one
  after it. One sweep against a command gives every overlap of two exchanges.
  `TRIES` is 3 in the code; 2 tells a retry from the last try. Bounds: `MaxLoss`,
  `MaxCommands`, `MaxAlarms`.
- *LogRace.* All five threads that log, with a ring of one slot: it is the number of threads that makes the race, and with five of
  them a stale count is stored several times over. All but the writer of the file are alike (`Symmetric`). In one slot
  head and tail cannot go wrong; that they do not in more slots is shown by `TypeCorrect` and `SettledAlone`, for every size, and `RaceBounded` bounds
  the count for every number of threads and every size. (Changing two values of the cfg, four threads with two slots pass as well: 9.6 M states.)
- *SensorLoop.* `MaxReadings` 60 is never reached: a sensor whose server answers twice has given up
  before. Two pongs give a server that is there, away, back and away. Six troubles let a
  whole search of five tries fail and delay the next. The other constants are those of the code.
- *Messages.* `Texts` are all kinds of messages the program builds, with device names of every length modulo
  three, one that reads like a key, and two with the byte 0xAA. Keys and words other than the question's are
  abbreviated; `status` and `state` keep their common beginning. `Rooms`: 25 is `BUF_SIZE`, which
  the encrypted question fills to the last byte; 23, 29, 31 and 44 are the edges of the other texts. No
  room is a multiple of three, as in the code (25, 50, 128, 436, 512, 1024; `RoomsOdd`): there the last `'\0'` of
  `Base64Decode` would have no place. `Drafts` are all texts of a `{` and up to three lexemes and
  all that are one lexeme away from four templates with pairs, nested and empty
  arrays. `Junk` is a type of a value, of a brace and of a closing bracket.
- *Discovery.* `TRIES` 5 as in the code, one stranger.

`CHECK_DEADLOCK FALSE` is said of LightSession, TcpHandshake, SensorLoop and
Messages, where the programs exit or the message has arrived. UdpDevices and LogRace have steps that are always possible (time,
another push).

## 4. Fairness

- `UdpDevices!FairSpec`: weak fairness of every thread's steps and of time: the
  scheduler runs a thread that can run. Strong fairness of `Lock(t)`: a thread
  that waits for a mutex that is free again and again gets it in the end. The
  monitor and the writer sleep seconds between their sections, so nobody holds the mutex all the time. Nothing is
  asked of the network, the user or SIGINT.
- `LightSession!FairSpec`: weak fairness of each controller, main and the getter. Waits
  end by a packet or a timeout, both part of these actions. No fairness for the
  user, losses, interrupts.
- `TcpHandshake!FairSpec`: weak fairness of each controller, of the accepter and of the server's other
  threads: the sweep ends, and main goes through `closeServer` once it has come there. That it comes there is not
  promised: after Ctrl-C it waits for an answer of its user (`CloseBegins`, without fairness), and until then nobody cancels an
  accepter that is blocked in `recvfrom`. `ConnectingEnds` is about a main that has begun to close. The accepter's actions are enabled only by a packet: none is
  promised, which is what `ConnectingEnds` is about. No fairness for users, their answers, SIGINT, losses and strangers.
- `SensorLoop!FairSpec`: weak fairness of main and of the server's answer to `WHO S`, unless
  it is lost (counted as trouble). Pongs are not fair.
- `Discovery` states none: that the search ends is the bound on its broadcasts, a safety property.

## 5. What is proved

Every theorem holds for all values of the constants that satisfy the named
assumptions of its module; a hypothesis beyond them is in the statement. TLC has checked
each invariant on the instances above. The proofs are in seven modules
about components and one about messages.

### UdpDevicesProofs, from `DevicesAssumption` (a slot at least; the special values are distinct)

For `Spec`, with the shutdown and main's walks, which `udp_serving` leaves out.

- `TableInvariant`: `Spec => []TableInv`. `TypeOK` and `FirstMatchIsLive` are not
  inductive alone. `FirstMatchIsLive` survives an insert only because the getter's sensor
  has no live slot then (`GetterInv`), a fact established by `unical_cli` in an earlier
  section. `TypeOK` needs that the walks stay inside (`WalkInv`) and that the getter has
  a datagram while it handles one. `LockInv` says that the threads inside which were not robbed are the
  owner of the mutex; `StaleInv` that what the monitor found silent is still
  silent. There is one lemma for each part, with a step per action.
- From it: `TypeCorrect`, `FirstMatch`, `Exclusion`, and the action properties `Forgets`,
  `HotReading`, `Robbed`, `Stale`.
- `OneStranded`: `Spec => []AtMostOneStranded`. `ClosingInv` says that of the slots that
  `disconnectAllUdp` has passed one at most is live, and that it is live only once the getter
  has spent the datagram it had when the shutdown began.
- `Implements`: `Spec => ImplementsDirectory`. Every step of a thread is a step of
  the directory or leaves it alone; `FreeSlotIsRoom` counts: sensors known have
  one slot each, so a free slot is room for one more.

### LightSessionProofs, from `SessionAssumption` (a try at least)

`AlwaysSessionInv` proves `SessionInv` for any number of controllers, tries, losses, commands
and hot readings. It follows one session: as long as nothing excuses it, either nothing is under way
but perhaps an acknowledgement (`Resting`), or one exchange is, and what is in the two queues
tells how far it is: the command (`Asked`), the acknowledgement and the reply (`Obeyed`), the reply
(`Replied`). `Session` ties that to the place of the thread in `tcpSend` and `tcpRecv`, to the place of the
controller, and to lamp and mask; `Obedience` to what the sweep leaves behind, `NotTold` to the walk of
`disconnectAllTcp`, `Once` to the CC. Neither `MasksAgree` nor `InStep` is inductive: whether the
next packet is the one that is wanted depends on all packets on their way. From it `TypeCorrect`,
`PlaceKept`, `StaysInStep`, `MaskIsRight`, `SweepReaches`, `ToldAll`, all safety properties of the run.

### TcpHandshakeProofs, from `HandshakeAssumption` (a try at least)

Controllers share the accepter's queue, so that no invariant can say what it holds. The proof follows what
it holds of one controller, in order, and every action takes a prefix away or
adds one packet (`KeptOrder`). `Acks`: a controller's one ACK is spent once, and nothing of his follows the second,
sent when it exits. `Stage`: what the queues hold of a controller that nothing excuses, for each place it may be at.
`AlwaysHandshake` is `HandshakeInv`, both of them with the types. From it `NeverTwice`, `BeginsInStep`, `BothEndsAgree`
and `AllGetThrough`; `OneLeftBehind` has an invariant of the close.
`TypeCorrect` also says that the accepter's peer is never a stranger.

### SensorLoopProofs, from `LoopAssumption` (the constants are numbers)

For all of them: `Types`, and `SentOnceAndInOrder`, by `OrderInv`: the buffer ascends, and is after every resend so far
and before the next reading. The rest depends on how the numbers fit together, which the code
nowhere says; the hypotheses are what the proofs found to be needed, and 10 readings, a ping every 5 and 10 seconds satisfy them:

| Theorem | Hypothesis | Invariants |
|---|---|---|
| `GivesUpLate` | `PatientConstants`: `CAP >= 2`, `2 * GIVEUP > 3 * PINGEVERY + 3` | `ShortAway` (with the server there a reading takes a second and a half at most) and `AsksEachTime` |
| `NeverForgotten` | `CAP >= 2`, `SILENCE >= 3` | `Pace`: how long nothing has left, for each place of the loop |
| `NoneDiscarded` | `RoomyConstants`: `GIVEUP <= 2 * PINGEVERY + 1`, fewer than `PINGEVERY` failures of `sendto`, `PINGEVERY + FAILS < CAP` | `LongAway` (with the server away a reading takes two seconds) and `Room` (what is in the buffer against what the absence still takes) |
| `RecentIsShown` | `RoomyConstants` | `Fresh` |

`NeverForgotten` shows that three seconds would do for the server's six. The number of failures of `sendto` is no constant
of the code: the theorem says how many it can bear.

### LogRaceProofs, from `RaceAssumption` (a slot at least, finitely many threads)

`TypeCorrect` (no interleaving takes an index out of the buffer), `SettledAlone` (while no two pushes have overlapped, head,
tail and count describe the latest messages; `Alone` says where in its push the one thread is), and

- `RaceBounded`: `Spec => []Bounded`, for any number of threads that log. No bound on the count alone is kept: a
  thread may hold a high count that it will store, while a low one that another has loaded lets the rest pass the
  test. What a store of a low count makes possible is paid for by the thread that stored it. Of the counts in registers and in the buffer, `Above(r)` are the
  threads at or above `SIZE - r`; whoever stores a count just below joins them, and no such store can make possible
  more than the m threads above can do with it, `Gain(m, r)`, a binomial. `Gained` says that the gains so far add up to that at
  most, for each r, and `Kept` that no count is above what they allow. Loads and tests move nobody down (`Stays`); a thread that stores a
  low count or clears it joins those above it, by `Pascal`'s rule (`Drops`, which takes the largest such r with `Least`); one that stores
  a high one raises the most by one and is one more of the free (`Raises`); the sum is the limit (`WithinLimit`). These are lemmas
  about numbers and registers; `CrowdActs` says which access is which. `WritingStep` adds the lines of the file. Binomials
  are cardinalities of sets of subsets, as in the definition of `Limit` (`Choosing`, `ChooseOne`).

### RingBufferProofs, from `SizeAssumption`

`RingInvariant` (head = tail + count modulo `SIZE`) and `Implements` (`Spec => ImplementsLog`): a push appends, a
full ring drops its oldest message and no other, the file is a copy. The
modulo is taken apart once (`Wrap`, `AfterWraps`), as an index wraps at most once.

### CodecProofs, without assumptions

For data of every length: `DecodeUndoes` (Base64 and back), `RoundTrip` (Encrypt and back, with or without the `'\0'`
among the encrypted bytes), `EncryptedFits` (the room `Base64` asks for is enough) and `ModesApart` (a text that begins with
a brace is no Base64, and none is written for any data). `Codec` has no recursion: a block of three
bytes and its four symbols are arithmetic on one number, and the places of the blocks are division with remainder.
`RoundTrip` excludes the byte 0xAA, with which it is false (section 6).

### MessagesProofs, from the assumptions of Messages and Discovery

`AlwaysSearchInv` proves `SearchInv` for every set of texts, rooms, leftovers and
drafts that are lexemes, and every number of tries. From it

- `NothingIsLeft`: `SearchSpec => []StaysInside`. `parse` stays in its text, whatever it is, since every
  token ends in the text (`TokenInside`). `getArrayToken` recurses; that its recursion is defined
  and ends in the text is `ArrayEndsIs`. It is no induction by a library theorem, which needs an operator
  as parameter, but takes the last place at which the claim fails, by `Least`: every set of numbers has a least one.
- `FindsServer`: `SearchSpec => []FindsItsServer`. `Asking` and `Answering` say what is on the wire in each step: the question,
  read by the server token by token if both ends run in one mode (`QuestionToken`), refused at its first byte
  if not (`ModesApart`, `LexedIs`); and an answer that is read as it was sent (`SentIsRead`, by `RoundTrip`).
- `AcceptsObjects`: `SearchSpec => []AcceptsExactly`, for every text. The property says nothing of a parser on its
  way; `WalkInv` does: the last lexeme read stands in an object so far (`InObject`: it and all before it follow one another
  legally, at depth 0, and what came last fits `logPos`), or the text began with junk. One token takes the walk to the next place of an
  object (`ObjectBegins`, `ObjectNext`), to its end (`ObjectEnds`), or to a place where `Legal` fails. That an array is read exactly when `Legal`
  allows it up to the bracket that closes it (`ArraysRead`) is again a claim about a recursion, proved from the
  last place where it fails; the depth of brackets is a difference of cardinalities and changes by one at a bracket (`DepthNext`).
- `GetValIs`: for any text that begins with an object and any key, `GetVal` is `FirstPair`, with no state machine at all. From the same places of an object
  `jGetVal` sees the same tokens as `parse` (`TokenIsRead`, `VisitIs`), so that its walk passes every name once and no value as
  a name (`NamesInToken`), and takes for the value what reaches from behind the colon to depth 0 (`ValueIs`). `FindsPair` is
  `SearchSpec => []FindsThePair`, by it.
- `MessagesArrive`: `SearchSpec => []ArrivesAsSent`. `Arrival` says that the receiver's text is the sent one with
  something old behind it (`AsSent`), or that something excuses it and it cannot be accepted (`Unreadable`): its first byte is none of a token,
  or it has no closing brace. Of the first kind, `GoesOn` shows that what stands behind a closing brace changes neither
  the object nor what any key finds (`ObjectGoesOn`, `SamePair`); of the second, a text cut off by a byte 0xAA or by the room has
  lost its brace, its last byte (`CutShort`, `NoBraceRead`).

### Only model-checked

- Liveness, which is out of the prover's reach: `QuietNetworkEmptiesTable`, `CloseCompletes`, `ExchangesReturn`, `StopsByItself`,
  `ConnectingEnds`.
- The three violated properties.
- That `Limit` is reached: in the instance of `log_shared` TLC violates `count < Limit`.

## 6. Where code and documentation disagree

- `HotReadingSweeps` (`server.c:1091`): a sensor is registered in a slot that is as old as its
  former owner (`connectionDevice` does not stamp `udp_last_receive`); the monitor may
  evict it before `setTemp`, which then only logs. README.md:34 promises that the lights go out.
- `SweepPutsOut` (`tcp.c:231`): a controller that waits for the acknowledgement of its reply to the
  user's command takes the sweep's accident for it. Its lamp stays on.
- `ClearedAfterSending` (`temperature_sensor.c:646`): the condition reads `send >= 0`, where
  `send` is the libc function and `sent` the variable; the buffer is emptied after a failed
  resend too, against the comment at line 649.

Met while modelling, without a run of their own:

- `disconnectAllTcp` closes the sockets of connected slots only, and `disconnectionDevice` (`server.c:1010`)
  closes none, so the raw socket of a controller that left stays open, against the comment
  "Закрывает все сокеты" (`server.c:119`). `LightSession` keeps the set in `open`.
- The log file may get more lines than README.md:45 says: `Bounded` allows, and needs, far more than `SIZE`.
- `accepterTCP` ignores the result of `connectionDevice` (`server.c:215`): a controller that finds the table full is never told.
- Its socket is blocking (`server.c:150`), so that the timeouts of `tcpAccept` and `tcpRecv` end only
  with the next packet.
- "Maximum of packets sent: 5" (`broadcast.c:55`): an answer of another program is followed by one more, uncounted. On a timeout
  `buf2[msg_len]` is `buf2[-1]` (`broadcast.c:118`).
- `parse` is more lenient than JSON: text behind the last brace (needed, as `recvPacket` adds no
  `'\0'`), a last comma in an array, junk as the first element of one. And stricter: no nested
  objects, no negative numbers, no blank before the first brace.
- `accepterTCP` calls `jGetVal` on a text it has not parsed (`server.c:195`).
- A message with a byte 0xAA, such as a device name with 'Ъ' (208, 170) is refused when encrypted: `Decrypt` takes
  `strlen` before it removes the key (`encrypt.c:248`). `Encrypt` leaves its source XORed
  when `Base64` fails.

## 7. Assumptions and what is left out

- *Network.* UDP datagrams are any sensor's at any time (loss, repetition and reordering are
  included). TCP packets may be lost, are never reordered or
  duplicated, and take less than a second, so that a wait of one to ten seconds
  times out only when nothing is on its way. The hosts' kernels send no RST of their own:
  the checksum of the program's packets leaves out the pseudo-header, so that a kernel drops them.
- *Messages.* In the modules other than Messages they are read messages: what Messages
  shows of them is taken for granted. A command has one lamp; `light_mask` is its bit. The
  listener of a sensor takes the text for plain when it cannot decrypt it; that reading is not in Messages.
  No message has a `'\0'`, and numbers and strings in it are as the program writes them.
- *LightSession* starts with connected controllers. An empty reply whose
  garbage happens to parse as a JSON message is left out, and so is the double unlock of
  `unical_cli` for TCP, which `AcceptedOnce` shows not to be reached.
- *TcpHandshake.* Each controller has its own address; two started in one second on one host take the same
  port (`light_controller.c:330`) and would be one peer. A sweep is a mutex held for a while. An empty
  packet in place of the connect message leaves in the accepter's buffer what was there, so that it may be handled as a
  connect message (`TakeMsg`).
- *LogRace.* A message logged under a mutex of a table may overlap one that the code keeps apart. It assumes that the compiler does not combine accesses (the Makefile does not optimise).
- *SensorLoop.* A sleep overshoots by less than half a
  second; the half millisecond between resends is no time; encryption of
  buffers of 1024 bytes cannot fail, so that its `continue` branches are not taken.
- *Discovery.* An answer that comes after its wait counts as lost. Other programs' answers are no `Im S`.
- *Not modelled:* `sendDataServer` (nobody calls it); header layout and checksums (`packet.c`, `serverUdps.c`: no state);
  parsing of arguments and of menu input; the text of `statistic.info`; the bot (formats that file); what lies behind a buffer
  that `jGetVal` leaves, or before `buf2`.

## 8. Plan

Done: every component with state, each with its runs; the safety properties of every module, and the refinements of
UdpDevices and RingBuffer, proved for every value of the constants.

Next, for the liveness properties, which no theorem states: their safety halves, as theorems. For
`CloseCompletes`, that a walk over the table only advances; for `ExchangesReturn` and `StopsByItself`, a
measure that every step of the waiting thread lowers.
