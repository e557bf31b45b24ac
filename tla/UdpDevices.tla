---------------------------- MODULE UdpDevices ----------------------------
(***************************************************************************)
(* The server's table of temperature sensors (devices_udp and              *)
(* udp_last_receive of server.c) and the four threads that use it: the     *)
(* getter that handles datagrams, the monitor that evicts silent sensors,  *)
(* the statistics writer and main, which prints the table and closes the   *)
(* server.  A datagram is handled in several sections of mutex_udp, and    *)
(* the other threads run between them.                                     *)
(*                                                                         *)
(* A thread's section is two steps: Lock, and a step that does the         *)
(* section's work and unlocks; the monitor and main walk the table one     *)
(* slot a step.  pthread_mutex_unlock frees the mutex whoever owns it,     *)
(* which matters because unical_cli unlocks twice.                         *)
(*                                                                         *)
(* Time is in seconds.  udp_last_receive[i] is kept as its age, capped one *)
(* above TIMEOUT, the first age at which a slot is evicted.                *)
(***************************************************************************)
EXTENDS Integers, FiniteSets

CONSTANTS
  MAX_DEVICE,   \* slots of the table (10 in config.h)
  Sensors,      \* the addresses sensors send from
  Temps,        \* the temperatures they report
  HotTemps,     \* those above 34.5
  NoTemp,       \* the -1 of a slot whose sensor has not reported
  NoClient,     \* the zeroed address of a slot never used
  NoMsg,        \* no datagram is being handled
  Absent,       \* the status of a sensor with no slot
  Free,         \* the owner of a mutex nobody holds
  TIMEOUT       \* the seconds of silence the monitor allows (6)

VARIABLES
  client,         \* devices_udp[i].client
  is_connected,   \* devices_udp[i].is_connected
  temperature,    \* devices_udp[i].temperature
  age,            \* seconds since udp_last_receive[i], capped
  shutdown_flag,
  mutex_udp,      \* the thread that owns the mutex, or Free
  inside,         \* the threads between their lock and their unlock
  robbed,         \* those of them whose lock another thread has freed
  pc,             \* what each thread does next
  msg,            \* the datagram the getter handles
  excuse,         \* why that datagram's sensor may have no slot
  expired,        \* the slots older than TIMEOUT at the monitor's `now`
  at              \* the slot a walk of the table has come to

table == <<client, is_connected, temperature, age>>
locks == <<mutex_udp, inside, robbed>>
vars == <<client, is_connected, temperature, age, shutdown_flag, mutex_udp,
          inside, robbed, pc, msg, excuse, expired, at>>

Slots == 0 .. MAX_DEVICE - 1
Threads == {"getter", "monitor", "stats", "main"}
Walkers == {"monitor", "main"}
Commands == {"C", "CC", "ping"}
Messages == [cmd : Commands, from : Sensors, val : {NoTemp}]
              \cup [cmd : {"send"}, from : Sensors, val : Temps]
Old == TIMEOUT + 1

ASSUME DevicesAssumption ==
  /\ MAX_DEVICE \in Nat \ {0}
  /\ TIMEOUT \in Nat
  /\ HotTemps \subseteq Temps
  /\ NoTemp \notin Temps
  /\ Absent \notin Temps \cup {NoTemp}
  /\ NoClient \notin Sensors
  /\ NoMsg \notin Messages
  /\ Free \notin Threads

\* What each thread does in a section of mutex_udp.
Sections == [getter  |-> {"unical", "recheck", "insert", "setTemp", "touch",
                         "disconnect"},
             monitor |-> {"evict"},
             stats   |-> {"write"},
             main    |-> {"print", "close"}]

Steps == {"recv", "unical", "recheck", "unlockAgain", "insert", "pong",
          "setTemp", "sweep", "touch", "disconnect", "sleep", "now", "evict",
          "evicting", "write", "print", "ui", "close", "join", "done"}

TypeOK ==
  /\ client \in [Slots -> Sensors \cup {NoClient}]
  /\ is_connected \in [Slots -> BOOLEAN]
  /\ temperature \in [Slots -> Temps \cup {NoTemp}]
  /\ age \in [Slots -> 0 .. Old]
  /\ shutdown_flag \in BOOLEAN
  /\ mutex_udp \in Threads \cup {Free}
  /\ inside \in SUBSET Threads
  /\ robbed \in SUBSET inside
  /\ pc \in [Threads -> Steps]
  /\ msg \in Messages \cup {NoMsg}
  /\ excuse \in {"none", "full", "evicted"}
  /\ expired \in SUBSET Slots
  /\ at \in [Walkers -> 0 .. MAX_DEVICE]

Init ==
  /\ client = [i \in Slots |-> NoClient]
  /\ is_connected = [i \in Slots |-> FALSE]
  /\ temperature = [i \in Slots |-> NoTemp]
  /\ age = [i \in Slots |-> Old]
  /\ shutdown_flag = FALSE
  /\ mutex_udp = Free
  /\ inside = {}
  /\ robbed = {}
  /\ pc = [[t \in Threads |-> "ui"] EXCEPT
               !["getter"] = "recv", !["monitor"] = "sleep", !["stats"] = "write"]
  /\ msg = NoMsg
  /\ excuse = "none"
  /\ expired = {}
  /\ at = [w \in Walkers |-> 0]

Goto(t, step) == pc' = [pc EXCEPT ![t] = step]

Live == {i \in Slots : is_connected[i]}
LiveOf(c) == {i \in Live : client[i] = c}

----------------------------------------------------------------------------
\* mutex_udp.  A Lock waits for the mutex; an unlock does not ask whose it is.
\* (Definitions that nothing uses, like LockUnasked, are the program with a bug
\* in it; PROJECT.json says which property each of them breaks.)

LockUnasked(t) ==
  /\ pc[t] \in Sections[t]
  /\ t \notin inside
  /\ mutex_udp' = t
  /\ inside' = inside \cup {t}
  /\ UNCHANGED <<table, shutdown_flag, robbed, pc, msg, excuse, expired, at>>

Lock(t) ==
  /\ pc[t] \in Sections[t]
  /\ t \notin inside
  /\ mutex_udp = Free
  /\ mutex_udp' = t
  /\ inside' = inside \cup {t}
  /\ UNCHANGED <<table, shutdown_flag, robbed, pc, msg, excuse, expired, at>>

Unlock(t) ==
  /\ mutex_udp' = Free
  /\ inside' = inside \ {t}
  /\ robbed' = (robbed \cup (inside \cap {mutex_udp})) \ {t}

----------------------------------------------------------------------------
\* The getter.  A datagram is any sensor's, at any time: the network loses,
\* repeats and reorders them.  The flag is read once a round, before poll, so
\* a getter in "recv" may still handle a datagram after the flag is set.

PollTimeout ==
  /\ pc["getter"] = "recv"
  /\ shutdown_flag
  /\ Goto("getter", "done")
  /\ UNCHANGED <<table, locks, shutdown_flag, msg, excuse, expired, at>>

Receive(m) ==
  /\ pc["getter"] = "recv"
  /\ msg' = m
  /\ Goto("getter", IF m.cmd = "CC" THEN "disconnect" ELSE "unical")
  /\ UNCHANGED <<table, locks, shutdown_flag, excuse, expired, at>>

\* recvfrom fails: getUdpPacket stops the server.
ReceiveFails ==
  /\ pc["getter"] = "recv"
  /\ shutdown_flag' = TRUE
  /\ Goto("getter", "done")
  /\ UNCHANGED <<table, locks, msg, excuse, expired, at>>

\* The handler of the datagram goes on, or it returns and the getter reads the
\* flag for its next round.
Proceed(step) == Goto("getter", step) /\ UNCHANGED msg

ReturnToPoll ==
  /\ Goto("getter", "recv")
  /\ msg' = NoMsg
  /\ excuse' = "none"

Return ==
  /\ Goto("getter", IF shutdown_flag THEN "done" ELSE "recv")
  /\ msg' = NoMsg
  /\ excuse' = "none"

\* What jsonManager does once the sensor is registered, or could not be.
AfterRegistration(why) ==
  \/ msg.cmd = "C" /\ Return
  \/ msg.cmd = "ping" /\ Proceed("pong") /\ excuse' = why
  \/ msg.cmd = "send" /\ Proceed("setTemp") /\ excuse' = why

UnicalHitsDead == {i \in Slots : client[i] = msg.from} # {}
UnicalHits == LiveOf(msg.from) # {}

\* unical_cli.  For a ping or a reading jsonManager asks first, and then
\* connectionDevice asks again; for a C only connectionDevice does.
Unical ==
  /\ pc["getter"] \in {"unical", "recheck"}
  /\ "getter" \in inside
  /\ Unlock("getter")
  /\ \/ UnicalHits /\ Proceed("unlockAgain")
     \/ ~UnicalHits /\ pc["getter"] = "unical" /\ msg.cmd # "C" /\ Proceed("recheck")
     \/ ~UnicalHits /\ (pc["getter"] = "recheck" \/ msg.cmd = "C") /\ Proceed("insert")
  /\ UNCHANGED <<table, shutdown_flag, excuse, expired, at>>

\* On a hit the loop of unical_cli unlocks before the break, and its end
\* unlocks once more.
UnlockAgain ==
  /\ pc["getter"] = "unlockAgain"
  /\ Unlock("getter")
  /\ AfterRegistration(excuse)
  /\ UNCHANGED <<table, shutdown_flag, expired, at>>

LastFree(i) == ~is_connected[i] /\ \A j \in i + 1 .. MAX_DEVICE - 1 : is_connected[j]
FirstFree(i) == ~is_connected[i] /\ \A j \in 0 .. i - 1 : is_connected[j]

OccupyOnly(i) ==
  /\ is_connected' = [is_connected EXCEPT ![i] = TRUE]
  /\ client' = [client EXCEPT ![i] = msg.from]
  /\ UNCHANGED temperature

\* The slot keeps the udp_last_receive of whoever had it.
Occupy(i) ==
  /\ is_connected' = [is_connected EXCEPT ![i] = TRUE]
  /\ client' = [client EXCEPT ![i] = msg.from]
  /\ temperature' = [temperature EXCEPT ![i] = NoTemp]

\* connectionDevice.
Insert(i) ==
  /\ pc["getter"] = "insert"
  /\ "getter" \in inside
  /\ FirstFree(i)
  /\ Occupy(i)
  /\ Unlock("getter")
  /\ AfterRegistration(excuse)
  /\ UNCHANGED <<age, shutdown_flag, expired, at>>

\* Every slot is taken: connectionDevice returns 1, which nobody looks at.
InsertFull ==
  /\ pc["getter"] = "insert"
  /\ "getter" \in inside
  /\ Live = Slots
  /\ Unlock("getter")
  /\ AfterRegistration("full")
  /\ UNCHANGED <<table, shutdown_flag, expired, at>>

\* The pong is sent, or sendto fails and the ping counts for nothing.
Pong ==
  /\ pc["getter"] = "pong"
  /\ \/ Return
     \/ Proceed("touch") /\ UNCHANGED excuse
  /\ UNCHANGED <<table, locks, shutdown_flag, expired, at>>

\* udp_last_receive[i] = time (NULL): not silent, even at an earlier `now`.
Stamp(i) ==
  /\ age' = [age EXCEPT ![i] = 0]
  /\ expired' = expired \ {i}

SetTempUnlocksFirst(i) ==
  /\ pc["getter"] = "setTemp"
  /\ "getter" \in inside
  /\ i \in LiveOf(msg.from)
  /\ \A j \in LiveOf(msg.from) : i <= j
  /\ temperature' = [temperature EXCEPT ![i] = msg.val]
  /\ Stamp(i)
  /\ Unlock("getter")
  /\ Proceed(IF msg.val \in HotTemps THEN "sweep" ELSE "touch")
  /\ UNCHANGED <<client, is_connected, shutdown_flag, excuse, at>>

\* setTemp keeps the mutex while sendAllAccident sweeps the lights.
SetTemp(i) ==
  /\ pc["getter"] = "setTemp"
  /\ "getter" \in inside
  /\ i \in LiveOf(msg.from)
  /\ \A j \in LiveOf(msg.from) : i <= j
  /\ temperature' = [temperature EXCEPT ![i] = msg.val]
  /\ Stamp(i)
  /\ IF msg.val \in HotTemps
     THEN Proceed("sweep") /\ UNCHANGED locks
     ELSE Proceed("touch") /\ Unlock("getter")
  /\ UNCHANGED <<client, is_connected, shutdown_flag, excuse, at>>

\* The reading is only logged: its sensor has no slot.
SetTempUnregistered ==
  /\ pc["getter"] = "setTemp"
  /\ "getter" \in inside
  /\ LiveOf(msg.from) = {}
  /\ Unlock("getter")
  /\ Proceed("touch")
  /\ UNCHANGED <<table, shutdown_flag, excuse, expired, at>>

SweepDone ==
  /\ pc["getter"] = "sweep"
  /\ Unlock("getter")
  /\ Proceed("touch")
  /\ UNCHANGED <<table, shutdown_flag, excuse, expired, at>>

Touch ==
  /\ pc["getter"] = "touch"
  /\ "getter" \in inside
  /\ IF LiveOf(msg.from) = {}
     THEN UNCHANGED <<age, expired>>
     ELSE \E i \in LiveOf(msg.from) :
            (\A j \in LiveOf(msg.from) : i <= j) /\ Stamp(i)
  /\ Unlock("getter")
  /\ Return
  /\ UNCHANGED <<client, is_connected, temperature, shutdown_flag, at>>

\* disconnectionDevice clears the first slot with that address, live or not.
FirstOf(i, c) == client[i] = c /\ \A j \in 0 .. i - 1 : client[j] # c

Disconnect ==
  /\ pc["getter"] = "disconnect"
  /\ "getter" \in inside
  /\ is_connected' = [i \in Slots |-> is_connected[i] /\ ~FirstOf(i, msg.from)]
  /\ Unlock("getter")
  /\ Return
  /\ UNCHANGED <<client, temperature, age, shutdown_flag, expired, at>>

----------------------------------------------------------------------------
\* The monitor: `now` is read before the lock, so it may be old when used.

SilentAtLimit(i) == age[i] >= TIMEOUT
Silent(i) == age[i] > TIMEOUT

ReadNow ==
  /\ pc["monitor"] = "now"
  /\ expired' = {i \in Slots : Silent(i)}
  /\ Goto("monitor", "evict")
  /\ UNCHANGED <<table, locks, shutdown_flag, msg, excuse, at>>

\* The slot passes, or it is found silent and logged.
Inspect ==
  LET i == at["monitor"] IN
  /\ pc["monitor"] = "evict"
  /\ "monitor" \in inside
  /\ i < MAX_DEVICE
  /\ IF is_connected[i] /\ i \in expired
     THEN Goto("monitor", "evicting") /\ UNCHANGED at
     ELSE at' = [at EXCEPT !["monitor"] = i + 1] /\ UNCHANGED pc
  /\ UNCHANGED <<table, locks, shutdown_flag, msg, excuse, expired>>

\* Clearing slot i takes the current datagram's sensor its slot away.
Clear(w, i) ==
  /\ is_connected' = [is_connected EXCEPT ![i] = FALSE]
  /\ at' = [at EXCEPT ![w] = i + 1]
  /\ excuse' = IF msg # NoMsg /\ i \in LiveOf(msg.from) THEN "evicted" ELSE excuse

Evict ==
  /\ pc["monitor"] = "evicting"
  /\ Clear("monitor", at["monitor"])
  /\ Goto("monitor", "evict")
  /\ UNCHANGED <<client, temperature, age, locks, shutdown_flag, msg, expired>>

MonitorKeepsLock ==
  /\ pc["monitor"] = "evict"
  /\ "monitor" \in inside
  /\ at["monitor"] = MAX_DEVICE
  /\ inside' = inside \ {"monitor"}
  /\ Goto("monitor", IF shutdown_flag THEN "done" ELSE "sleep")
  /\ expired' = {}
  /\ at' = [at EXCEPT !["monitor"] = 0]
  /\ UNCHANGED <<table, mutex_udp, robbed, shutdown_flag, msg, excuse>>

MonitorUnlock ==
  /\ pc["monitor"] = "evict"
  /\ "monitor" \in inside
  /\ at["monitor"] = MAX_DEVICE
  /\ Unlock("monitor")
  /\ Goto("monitor", IF shutdown_flag THEN "done" ELSE "sleep")
  /\ expired' = {}
  /\ at' = [at EXCEPT !["monitor"] = 0]
  /\ UNCHANGED <<table, shutdown_flag, msg, excuse>>

----------------------------------------------------------------------------
\* The statistics writer reads the table under the lock.

StatsUnlock ==
  /\ pc["stats"] = "write"
  /\ "stats" \in inside
  /\ Unlock("stats")
  /\ Goto("stats", IF shutdown_flag THEN "done" ELSE "write")
  /\ UNCHANGED <<table, shutdown_flag, msg, excuse, expired, at>>

\* The flag cuts the delay of five seconds between two files short.
StatsExit ==
  /\ pc["stats"] = "write"
  /\ "stats" \notin inside
  /\ shutdown_flag
  /\ Goto("stats", "done")
  /\ UNCHANGED <<table, locks, shutdown_flag, msg, excuse, expired, at>>

----------------------------------------------------------------------------
\* Main.  A SIGINT sets the flag, but main stays in the read of its menu until
\* the user answers.

UserPrints ==
  /\ pc["main"] = "ui"
  /\ Goto("main", "print")
  /\ UNCHANGED <<table, locks, shutdown_flag, msg, excuse, expired, at>>

PrintDone ==
  /\ pc["main"] = "print"
  /\ "main" \in inside
  /\ Unlock("main")
  /\ Goto("main", IF shutdown_flag THEN "close" ELSE "ui")
  /\ UNCHANGED <<table, shutdown_flag, msg, excuse, expired, at>>

\* A choice that does not touch this table.
UserOther ==
  /\ pc["main"] = "ui"
  /\ shutdown_flag
  /\ Goto("main", "close")
  /\ UNCHANGED <<table, locks, shutdown_flag, msg, excuse, expired, at>>

UserExits ==
  /\ pc["main"] = "ui"
  /\ shutdown_flag' = TRUE
  /\ Goto("main", "close")
  /\ UNCHANGED <<table, locks, msg, excuse, expired, at>>

Sigint ==
  /\ ~shutdown_flag
  /\ shutdown_flag' = TRUE
  /\ UNCHANGED <<table, locks, pc, msg, excuse, expired, at>>

\* disconnectAllUdp, one slot a step.
CloseSlot ==
  LET i == at["main"] IN
  /\ pc["main"] = "close"
  /\ "main" \in inside
  /\ i < MAX_DEVICE
  /\ Clear("main", i)
  /\ UNCHANGED <<client, temperature, age, locks, shutdown_flag, pc, msg, expired>>

CloseUnlock ==
  /\ pc["main"] = "close"
  /\ "main" \in inside
  /\ at["main"] = MAX_DEVICE
  /\ Unlock("main")
  /\ Goto("main", "join")
  /\ at' = [at EXCEPT !["main"] = 0]
  /\ UNCHANGED <<table, shutdown_flag, msg, excuse, expired>>

Join ==
  /\ pc["main"] = "join"
  /\ \A t \in Threads \ {"main"} : pc[t] = "done"
  /\ Goto("main", "done")
  /\ UNCHANGED <<table, locks, shutdown_flag, msg, excuse, expired, at>>

----------------------------------------------------------------------------
\* A second passes; it wakes a monitor that sleeps.
Tick ==
  /\ age' = [i \in Slots |-> IF age[i] < Old THEN age[i] + 1 ELSE Old]
  /\ IF pc["monitor"] = "sleep" THEN Goto("monitor", "now") ELSE UNCHANGED pc
  /\ UNCHANGED <<client, is_connected, temperature, locks, shutdown_flag, msg,
                 excuse, expired, at>>

Handle ==
  \/ Unical \/ UnlockAgain \/ InsertFull \/ Pong \/ SetTempUnregistered
  \/ SweepDone \/ Touch \/ Disconnect
  \/ \E i \in Slots : Insert(i) \/ SetTemp(i)
Getter == PollTimeout \/ Handle
Monitor == ReadNow \/ Inspect \/ Evict \/ MonitorUnlock
Stats == StatsUnlock \/ StatsExit
Main == PrintDone \/ CloseSlot \/ CloseUnlock \/ Join
User == UserPrints \/ UserOther \/ UserExits \/ Sigint

Next ==
  \/ \E t \in Threads : Lock(t)
  \/ Getter \/ ReceiveFails \/ \E m \in Messages : Receive(m)
  \/ Monitor \/ Stats \/ Main \/ User \/ Tick

Spec == Init /\ [][Next]_vars

\* Time passes, every thread runs on, and one that waits for the mutex gets it
\* if it is free again and again.  Nobody has to send, to choose or to stop.
Fairness ==
  /\ WF_vars(Tick) /\ WF_vars(Getter) /\ WF_vars(Monitor)
  /\ WF_vars(Stats) /\ WF_vars(Main)
  /\ \A t \in Threads : SF_vars(Lock(t))

FairSpec == Spec /\ Fairness

----------------------------------------------------------------------------
\* Properties.

\* The first slot that has a registered sensor's address is the live one.
\* disconnectionDevice clears the first match without asking whether it is
\* live, and unical_cli, setTemp and update_last_receive stop at the first
\* live match: they all mean the same slot, and no sensor has two.
FirstMatchIsLive == \A j \in Live : \A i \in 0 .. j - 1 : client[i] # client[j]

\* What the getter knows of the table while other threads run between its
\* sections: before an insert its sensor has no slot; before setTemp it has
\* one, unless there is an excuse.
Handling == {"unical", "recheck", "unlockAgain", "insert", "pong", "setTemp",
             "sweep", "touch", "disconnect"}

GetterInv ==
  /\ IF pc["getter"] \in Handling THEN msg \in Messages ELSE msg = NoMsg
  /\ pc["getter"] = "insert" => LiveOf(msg.from) = {}
  /\ pc["getter"] = "setTemp" => msg.cmd = "send"
  /\ pc["getter"] \in {"unlockAgain", "setTemp"} /\ excuse = "none"
       => LiveOf(msg.from) # {}

LiveInv == \A i \in Live : client[i] \in Sensors

WalkInv == pc["monitor"] = "evicting" => at["monitor"] < MAX_DEVICE

\* The threads inside that have lost no lock are the owner of the mutex.
LockInv ==
  /\ inside \ robbed = {mutex_udp} \ {Free}
  /\ pc["getter"] = "sweep" => "getter" \in inside
  /\ pc["monitor"] = "evicting" => "monitor" \in inside

\* The monitor's `now` stays a lower bound, and the slot it is about to clear
\* stays silent while nobody has lost a lock.
StaleInv ==
  /\ \A i \in expired : age[i] > TIMEOUT
  /\ pc["monitor"] = "evicting" /\ robbed = {} => at["monitor"] \in expired

\* The inductive invariant: what TypeOK and FirstMatchIsLive need to hold
\* after every step of every thread, and what the action properties rest on.
TableInv == /\ TypeOK /\ GetterInv /\ LiveInv /\ WalkInv
            /\ FirstMatchIsLive /\ LockInv /\ StaleInv

\* Once disconnectionDevice has handled a sensor's CC, the sensor is gone.
DisconnectForgets ==
  [][pc["getter"] = "disconnect" /\ pc'["getter"] # "disconnect"
       => \A i \in Slots : is_connected'[i] => client[i] # msg.from]_vars

\* Two threads are inside the mutex only after one of them had its lock freed
\* by another thread ...
ExclusionUntilRobbed == Cardinality(inside) > 1 => robbed # {}

\* ... and the first to lose a lock loses it to the second unlock of
\* unical_cli.
RobbedByUnical ==
  [][robbed = {} /\ robbed' # {} => pc["getter"] = "unlockAgain"]_vars

\* The monitor clears a slot only when its last stamp is more than TIMEOUT
\* seconds old, although it compares with a `now` read before the lock; the
\* one way to lose a slot stamped just now is a lock lost to unical_cli.
EvictionIsStale ==
  [][pc["monitor"] = "evicting" /\ pc'["monitor"] = "evict"
       => age[at["monitor"]] > TIMEOUT \/ robbed # {}]_vars

SetsHot == /\ pc["getter"] = "setTemp"
           /\ pc'["getter"] # "setTemp"
           /\ msg.val \in HotTemps

\* A reading above 34.5 that setTemp handles starts the sweep of the lights,
\* as the README says.
HotReadingSweeps == [][SetsHot => pc'["getter"] = "sweep"]_vars

\* It does, unless the table was full or another thread took the sensor's slot
\* between the registration and setTemp.
HotReadingSweepsUnlessExcused ==
  [][SetsHot /\ excuse = "none" => pc'["getter"] = "sweep"]_vars

\* When main has joined every thread, at most one sensor is still registered
\* (it was never sent a CC): the getter handles one datagram more, at most,
\* after it last read the flag, and disconnectAllUdp came after the flag.
AtMostOneStranded == pc["main"] = "done" => Cardinality(Live) <= 1

\* When no more datagrams come, the monitor empties the table.
QuietNetworkEmptiesTable ==
  <>[](pc["getter"] = "recv" /\ ~shutdown_flag) => <>[](Live = {})

\* closeServer returns: no thread keeps main in a join, whatever it was doing
\* and whatever still arrives.
CloseCompletes == pc["main"] = "close" ~> pc["main"] = "done"

\* Slots, locks and threads aside, the table is a directory of sensors.
SlotOf(s) == CHOOSE i \in LiveOf(s) : TRUE
Status(s) == IF LiveOf(s) = {} THEN Absent ELSE temperature[SlotOf(s)]
status == [s \in Sensors |-> Status(s)]

Directory == INSTANCE SensorDirectory WITH Capacity <- MAX_DEVICE

\* Every step of the table is a step of SensorDirectory: no step of a thread
\* changes what is known of two sensors, none gives a reading to a sensor that
\* is not registered, and no sensor is registered twice or without room.
ImplementsDirectory == Directory!Spec
===========================================================================
