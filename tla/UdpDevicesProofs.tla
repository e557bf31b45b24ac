------------------------- MODULE UdpDevicesProofs -------------------------
(***************************************************************************)
(* Theorems about UdpDevices for every number of slots, sensors and        *)
(* temperatures and every timeout, with any number of steps of the four    *)
(* threads in any order.  First the inductive invariant, a lemma for each  *)
(* of its parts and in it a step for each action; then the properties that *)
(* follow from it; last, that the table implements SensorDirectory.        *)
(***************************************************************************)
EXTENDS UdpDevices, FiniteSetTheorems, TLAPS

\* What a datagram says.
LEMMA MessageFields ==
  ASSUME NEW m \in Messages
  PROVE  m.from \in Sensors /\ m.val \in Temps \cup {NoTemp}
  BY DEF Messages

----------------------------------------------------------------------------
\* Every step of every thread preserves the inductive invariant, part by part.

\* Types, and the monitor's walk stays inside the table.
LEMMA TypeStep == TypeOK /\ GetterInv /\ WalkInv /\ [Next]_vars => TypeOK' /\ WalkInv'
<1> SUFFICES ASSUME TypeOK, GetterInv, WalkInv, [Next]_vars PROVE TypeOK' /\ WalkInv'
  OBVIOUS
<1> USE DevicesAssumption DEF TypeOK, WalkInv, Slots, Threads, Walkers, Old, Steps, Goto, Unlock, table, locks
<1>1. ASSUME NEW t \in Threads, Lock(t) PROVE TypeOK' /\ WalkInv'
  BY <1>1 DEF Lock
<1>2. ASSUME NEW m \in Messages, Receive(m) PROVE TypeOK' /\ WalkInv'
  BY <1>2 DEF Receive
<1>3. ASSUME NEW i \in Slots, Insert(i) PROVE TypeOK' /\ WalkInv'
  <2>1. msg.from \in Sensors
    BY <1>3, MessageFields DEF Insert, GetterInv, Handling
  <2> QED
    BY <1>3, <2>1 DEF Insert, Occupy, AfterRegistration, Return, Proceed
<1>4. ASSUME NEW i \in Slots, SetTemp(i) PROVE TypeOK' /\ WalkInv'
  <2>1. msg.val \in Temps \cup {NoTemp}
    BY <1>4, MessageFields DEF SetTemp, GetterInv, Handling
  <2>2. temperature' \in [Slots -> Temps \cup {NoTemp}] /\ age' \in [Slots -> 0 .. Old]
    BY <1>4, <2>1 DEF SetTemp, Stamp
  <2>3. /\ mutex_udp' \in Threads \cup {Free}
        /\ inside' \in SUBSET Threads
        /\ robbed' \in SUBSET inside'
    BY <1>4 DEF SetTemp
  <2>4. pc' \in [Threads -> Steps] /\ pc'["monitor"] = pc["monitor"] /\ msg' = msg
    BY <1>4 DEF SetTemp, Proceed
  <2>5. expired' \in SUBSET Slots
    BY <1>4 DEF SetTemp, Stamp
  <2>6. UNCHANGED <<client, is_connected, shutdown_flag, excuse, at>>
    BY <1>4 DEF SetTemp
  <2> QED
    BY <2>2, <2>3, <2>4, <2>5, <2>6
<1>5. CASE Unical
  BY <1>5 DEF Unical, Proceed
<1>6. CASE UnlockAgain
  BY <1>6 DEF UnlockAgain, AfterRegistration, Return, Proceed
<1>7. CASE InsertFull
  BY <1>7 DEF InsertFull, AfterRegistration, Return, Proceed
<1>8. CASE Pong
  BY <1>8 DEF Pong, Return, Proceed
<1>9. CASE SetTempUnregistered
  BY <1>9 DEF SetTempUnregistered, Proceed
<1>10. CASE SweepDone
  BY <1>10 DEF SweepDone, Proceed
<1>11. CASE Touch
  <2>1. CASE LiveOf(msg.from) = {}
    BY <1>11, <2>1 DEF Touch, Return
  <2>2. CASE LiveOf(msg.from) # {}
    <3>1. PICK i \in Slots : Stamp(i)
      BY <1>11, <2>2 DEF Touch, LiveOf, Live
    <3>2. age' \in [Slots -> 0 .. Old] /\ expired' \in SUBSET Slots
      BY <3>1 DEF Stamp
    <3> QED
      BY <1>11, <3>2 DEF Touch, Return
  <2> QED
    BY <2>1, <2>2
<1>12. CASE Disconnect
  BY <1>12 DEF Disconnect, Return
<1>13. CASE PollTimeout
  BY <1>13 DEF PollTimeout
<1>14. CASE ReceiveFails
  BY <1>14 DEF ReceiveFails
<1>15. CASE ReadNow
  BY <1>15 DEF ReadNow
<1>16. CASE Inspect
  BY <1>16 DEF Inspect
<1>17. CASE Evict
  BY <1>17 DEF Evict, Clear
<1>18. CASE MonitorUnlock
  BY <1>18 DEF MonitorUnlock
<1>19. CASE StatsUnlock
  BY <1>19 DEF StatsUnlock
<1>20. CASE StatsExit
  BY <1>20 DEF StatsExit
<1>21. CASE PrintDone
  BY <1>21 DEF PrintDone
<1>22. CASE CloseSlot
  BY <1>22 DEF CloseSlot, Clear
<1>23. CASE CloseUnlock
  BY <1>23 DEF CloseUnlock
<1>24. CASE Join
  BY <1>24 DEF Join
<1>25. CASE UserPrints
  BY <1>25 DEF UserPrints
<1>26. CASE UserOther
  BY <1>26 DEF UserOther
<1>27. CASE UserExits
  BY <1>27 DEF UserExits
<1>28. CASE Sigint
  BY <1>28 DEF Sigint
<1>29. CASE Tick
  BY <1>29 DEF Tick
<1>30. CASE UNCHANGED vars
  BY <1>30 DEF vars
<1> QED
  BY <1>1, <1>2, <1>3, <1>4, <1>5, <1>6, <1>7, <1>8, <1>9, <1>10, <1>11, <1>12, <1>13, <1>14, <1>15, <1>16, <1>17, <1>18, <1>19, <1>20, <1>21, <1>22, <1>23, <1>24, <1>25, <1>26, <1>27, <1>28, <1>29, <1>30
     DEF Next, Getter, Handle, Monitor, Stats, Main, User

\* Clearing a slot under the getter's feet leaves an excuse behind.
LEMMA ClearKeepsGetterInv ==
  ASSUME TypeOK, GetterInv, NEW w, NEW i, Clear(w, i),
         pc'["getter"] = pc["getter"], UNCHANGED <<client, msg>>
  PROVE  GetterInv'
<1>1. CASE msg # NoMsg /\ i \in LiveOf(msg.from)
  BY <1>1, DevicesAssumption DEF Clear, TypeOK, GetterInv, Handling, LiveOf, Live
<1>2. CASE msg # NoMsg /\ i \notin LiveOf(msg.from)
  BY <1>2, DevicesAssumption DEF Clear, TypeOK, GetterInv, Handling, LiveOf, Live
<1>3. CASE msg = NoMsg
  BY <1>3, DevicesAssumption DEF Clear, TypeOK, GetterInv, Handling
<1> QED
  BY <1>1, <1>2, <1>3

\* What the getter knows between its sections.
LEMMA GetterStep == TypeOK /\ GetterInv /\ WalkInv /\ [Next]_vars => GetterInv'
<1> SUFFICES ASSUME TypeOK, GetterInv, WalkInv, [Next]_vars PROVE GetterInv'
  OBVIOUS
<1> USE DevicesAssumption DEF TypeOK, GetterInv, Handling, LiveOf, Live, Slots, Threads, Goto, Unlock, table, locks
<1>1. ASSUME NEW t \in Threads, Lock(t) PROVE GetterInv'
  BY <1>1 DEF Lock
<1>2. ASSUME NEW m \in Messages, Receive(m) PROVE GetterInv'
  BY <1>2 DEF Receive
<1>3. ASSUME NEW i \in Slots, Insert(i) PROVE GetterInv'
  BY <1>3, ZenonT(60) DEF Insert, Occupy, AfterRegistration, Return, Proceed
<1>4. ASSUME NEW i \in Slots, SetTemp(i) PROVE GetterInv'
  BY <1>4 DEF SetTemp, Stamp, Proceed
<1>5. CASE Unical
  BY <1>5 DEF Unical, UnicalHits, Proceed
<1>6. CASE UnlockAgain
  BY <1>6 DEF UnlockAgain, AfterRegistration, Return, Proceed
<1>7. CASE InsertFull
  BY <1>7 DEF InsertFull, AfterRegistration, Return, Proceed
<1>8. CASE Pong
  BY <1>8 DEF Pong, Return, Proceed
<1>9. CASE SetTempUnregistered
  BY <1>9 DEF SetTempUnregistered, Proceed
<1>10. CASE SweepDone
  BY <1>10 DEF SweepDone, Proceed
<1>11. CASE Touch
  BY <1>11 DEF Touch, Stamp, Return
<1>12. CASE Disconnect
  BY <1>12 DEF Disconnect, Return
<1>13. CASE PollTimeout
  BY <1>13 DEF PollTimeout
<1>14. CASE ReceiveFails
  BY <1>14 DEF ReceiveFails
<1>15. CASE ReadNow
  BY <1>15 DEF ReadNow
<1>16. CASE Inspect
  BY <1>16 DEF Inspect
<1>17. CASE Evict
  BY <1>17, ClearKeepsGetterInv DEF Evict
<1>18. CASE MonitorUnlock
  BY <1>18 DEF MonitorUnlock
<1>19. CASE StatsUnlock
  BY <1>19 DEF StatsUnlock
<1>20. CASE StatsExit
  BY <1>20 DEF StatsExit
<1>21. CASE PrintDone
  BY <1>21 DEF PrintDone
<1>22. CASE CloseSlot
  BY <1>22, ClearKeepsGetterInv DEF CloseSlot
<1>23. CASE CloseUnlock
  BY <1>23 DEF CloseUnlock
<1>24. CASE Join
  BY <1>24 DEF Join
<1>25. CASE UserPrints
  BY <1>25 DEF UserPrints
<1>26. CASE UserOther
  BY <1>26 DEF UserOther
<1>27. CASE UserExits
  BY <1>27 DEF UserExits
<1>28. CASE Sigint
  BY <1>28 DEF Sigint
<1>29. CASE Tick
  BY <1>29 DEF Tick
<1>30. CASE UNCHANGED vars
  BY <1>30 DEF vars
<1> QED
  BY <1>1, <1>2, <1>3, <1>4, <1>5, <1>6, <1>7, <1>8, <1>9, <1>10, <1>11, <1>12, <1>13, <1>14, <1>15, <1>16, <1>17, <1>18, <1>19, <1>20, <1>21, <1>22, <1>23, <1>24, <1>25, <1>26, <1>27, <1>28, <1>29, <1>30
     DEF Next, Getter, Handle, Monitor, Stats, Main, User

\* No slot before a live one has its address: an insert takes the first free
\* slot, the ones before it are live, and none of them has the new address.
LEMMA FirstMatchStep == TypeOK /\ GetterInv /\ FirstMatchIsLive /\ [Next]_vars => FirstMatchIsLive'
<1> SUFFICES ASSUME TypeOK, GetterInv, FirstMatchIsLive, [Next]_vars PROVE FirstMatchIsLive'
  OBVIOUS
<1> USE DevicesAssumption DEF TypeOK, FirstMatchIsLive, Live, LiveOf, Slots, Goto, Unlock, table, locks
<1>1. ASSUME NEW t \in Threads, Lock(t) PROVE FirstMatchIsLive'
  BY <1>1 DEF Lock
<1>2. ASSUME NEW m \in Messages, Receive(m) PROVE FirstMatchIsLive'
  BY <1>2 DEF Receive
<1>3. ASSUME NEW i \in Slots, Insert(i) PROVE FirstMatchIsLive'
  <2>1. /\ is_connected' = [is_connected EXCEPT ![i] = TRUE]
        /\ client' = [client EXCEPT ![i] = msg.from]
        /\ \A k \in 0 .. i - 1 : is_connected[k]
        /\ \A k \in Slots : is_connected[k] => client[k] # msg.from
    BY <1>3 DEF Insert, Occupy, FirstFree, GetterInv
  <2>2. SUFFICES ASSUME NEW j \in Slots, is_connected'[j], NEW k \in 0 .. j - 1
                 PROVE  client'[k] # client'[j]
    OBVIOUS
  <2>3. CASE j = i
    BY <2>1, <2>2, <2>3
  <2>4. CASE j # i
    BY <2>1, <2>2, <2>4
  <2> QED
    BY <2>3, <2>4
<1>4. ASSUME NEW i \in Slots, SetTemp(i) PROVE FirstMatchIsLive'
  BY <1>4 DEF SetTemp, Stamp, Proceed
<1>5. CASE Unical
  BY <1>5 DEF Unical, Proceed
<1>6. CASE UnlockAgain
  BY <1>6 DEF UnlockAgain, AfterRegistration, Return, Proceed
<1>7. CASE InsertFull
  BY <1>7 DEF InsertFull, AfterRegistration, Return, Proceed
<1>8. CASE Pong
  BY <1>8 DEF Pong, Return, Proceed
<1>9. CASE SetTempUnregistered
  BY <1>9 DEF SetTempUnregistered, Proceed
<1>10. CASE SweepDone
  BY <1>10 DEF SweepDone, Proceed
<1>11. CASE Touch
  BY <1>11 DEF Touch, Stamp, Return
<1>12. CASE Disconnect
  BY <1>12 DEF Disconnect, Return
<1>13. CASE PollTimeout
  BY <1>13 DEF PollTimeout
<1>14. CASE ReceiveFails
  BY <1>14 DEF ReceiveFails
<1>15. CASE ReadNow
  BY <1>15 DEF ReadNow
<1>16. CASE Inspect
  BY <1>16 DEF Inspect
<1>17. CASE Evict
  BY <1>17 DEF Evict, Clear
<1>18. CASE MonitorUnlock
  BY <1>18 DEF MonitorUnlock
<1>19. CASE StatsUnlock
  BY <1>19 DEF StatsUnlock
<1>20. CASE StatsExit
  BY <1>20 DEF StatsExit
<1>21. CASE PrintDone
  BY <1>21 DEF PrintDone
<1>22. CASE CloseSlot
  BY <1>22 DEF CloseSlot, Clear
<1>23. CASE CloseUnlock
  BY <1>23 DEF CloseUnlock
<1>24. CASE Join
  BY <1>24 DEF Join
<1>25. CASE UserPrints
  BY <1>25 DEF UserPrints
<1>26. CASE UserOther
  BY <1>26 DEF UserOther
<1>27. CASE UserExits
  BY <1>27 DEF UserExits
<1>28. CASE Sigint
  BY <1>28 DEF Sigint
<1>29. CASE Tick
  BY <1>29 DEF Tick
<1>30. CASE UNCHANGED vars
  BY <1>30 DEF vars
<1> QED
  BY <1>1, <1>2, <1>3, <1>4, <1>5, <1>6, <1>7, <1>8, <1>9, <1>10, <1>11, <1>12, <1>13, <1>14, <1>15, <1>16, <1>17, <1>18, <1>19, <1>20, <1>21, <1>22, <1>23, <1>24, <1>25, <1>26, <1>27, <1>28, <1>29, <1>30
     DEF Next, Getter, Handle, Monitor, Stats, Main, User

\* A live slot has the address of a sensor.
LEMMA LiveStep == TypeOK /\ GetterInv /\ LiveInv /\ [Next]_vars => LiveInv'
<1> SUFFICES ASSUME TypeOK, GetterInv, LiveInv, [Next]_vars PROVE LiveInv'
  OBVIOUS
<1> USE DevicesAssumption DEF TypeOK, LiveInv, Live, Slots, Goto, Unlock, table, locks
<1>1. ASSUME NEW t \in Threads, Lock(t) PROVE LiveInv'
  BY <1>1 DEF Lock
<1>2. ASSUME NEW m \in Messages, Receive(m) PROVE LiveInv'
  BY <1>2 DEF Receive
<1>3. ASSUME NEW i \in Slots, Insert(i) PROVE LiveInv'
  BY <1>3, MessageFields DEF Insert, Occupy, GetterInv, Handling
<1>4. ASSUME NEW i \in Slots, SetTemp(i) PROVE LiveInv'
  BY <1>4 DEF SetTemp, Stamp, Proceed
<1>5. CASE Unical
  BY <1>5 DEF Unical, Proceed
<1>6. CASE UnlockAgain
  BY <1>6 DEF UnlockAgain, AfterRegistration, Return, Proceed
<1>7. CASE InsertFull
  BY <1>7 DEF InsertFull, AfterRegistration, Return, Proceed
<1>8. CASE Pong
  BY <1>8 DEF Pong, Return, Proceed
<1>9. CASE SetTempUnregistered
  BY <1>9 DEF SetTempUnregistered, Proceed
<1>10. CASE SweepDone
  BY <1>10 DEF SweepDone, Proceed
<1>11. CASE Touch
  BY <1>11 DEF Touch, Stamp, Return
<1>12. CASE Disconnect
  BY <1>12 DEF Disconnect, Return
<1>13. CASE PollTimeout
  BY <1>13 DEF PollTimeout
<1>14. CASE ReceiveFails
  BY <1>14 DEF ReceiveFails
<1>15. CASE ReadNow
  BY <1>15 DEF ReadNow
<1>16. CASE Inspect
  BY <1>16 DEF Inspect
<1>17. CASE Evict
  BY <1>17 DEF Evict, Clear
<1>18. CASE MonitorUnlock
  BY <1>18 DEF MonitorUnlock
<1>19. CASE StatsUnlock
  BY <1>19 DEF StatsUnlock
<1>20. CASE StatsExit
  BY <1>20 DEF StatsExit
<1>21. CASE PrintDone
  BY <1>21 DEF PrintDone
<1>22. CASE CloseSlot
  BY <1>22 DEF CloseSlot, Clear
<1>23. CASE CloseUnlock
  BY <1>23 DEF CloseUnlock
<1>24. CASE Join
  BY <1>24 DEF Join
<1>25. CASE UserPrints
  BY <1>25 DEF UserPrints
<1>26. CASE UserOther
  BY <1>26 DEF UserOther
<1>27. CASE UserExits
  BY <1>27 DEF UserExits
<1>28. CASE Sigint
  BY <1>28 DEF Sigint
<1>29. CASE Tick
  BY <1>29 DEF Tick
<1>30. CASE UNCHANGED vars
  BY <1>30 DEF vars
<1> QED
  BY <1>1, <1>2, <1>3, <1>4, <1>5, <1>6, <1>7, <1>8, <1>9, <1>10, <1>11, <1>12, <1>13, <1>14, <1>15, <1>16, <1>17, <1>18, <1>19, <1>20, <1>21, <1>22, <1>23, <1>24, <1>25, <1>26, <1>27, <1>28, <1>29, <1>30
     DEF Next, Getter, Handle, Monitor, Stats, Main, User

\* An unlock leaves nobody with a lock, and robs nobody when its thread is the
\* only one inside.
LEMMA UnlockKeepsLocks ==
  ASSUME NEW t, inside \ robbed = {mutex_udp} \ {Free}, Unlock(t)
  PROVE  /\ inside' \ robbed' = {mutex_udp'} \ {Free}
         /\ t \in inside /\ robbed = {} => robbed' = {}
  BY DEF Unlock

\* Whoever is inside and was not robbed owns the mutex.
LEMMA LockStep == TypeOK /\ LockInv /\ [Next]_vars => LockInv'
<1> SUFFICES ASSUME TypeOK, LockInv, [Next]_vars PROVE LockInv'
  OBVIOUS
<1> USE DevicesAssumption DEF TypeOK, LockInv, Threads, Goto, table, locks
<1>1. ASSUME NEW t \in Threads, Lock(t) PROVE LockInv'
  BY <1>1 DEF Lock
<1>2. ASSUME NEW m \in Messages, Receive(m) PROVE LockInv'
  BY <1>2 DEF Receive
<1>3. ASSUME NEW i \in Slots, Insert(i) PROVE LockInv'
  BY <1>3, UnlockKeepsLocks DEF TypeOK, Unlock, Insert, Occupy, AfterRegistration, Return, Proceed
<1>4. ASSUME NEW i \in Slots, SetTemp(i) PROVE LockInv'
  BY <1>4, UnlockKeepsLocks DEF TypeOK, Unlock, SetTemp, Stamp, Proceed
<1>5. CASE Unical
  BY <1>5, UnlockKeepsLocks DEF TypeOK, Unlock, Unical, Proceed
<1>6. CASE UnlockAgain
  BY <1>6, UnlockKeepsLocks DEF TypeOK, Unlock, UnlockAgain, AfterRegistration, Return, Proceed
<1>7. CASE InsertFull
  BY <1>7, UnlockKeepsLocks DEF TypeOK, Unlock, InsertFull, AfterRegistration, Return, Proceed
<1>8. CASE Pong
  BY <1>8 DEF Pong, Return, Proceed
<1>9. CASE SetTempUnregistered
  BY <1>9, UnlockKeepsLocks DEF TypeOK, Unlock, SetTempUnregistered, Proceed
<1>10. CASE SweepDone
  BY <1>10, UnlockKeepsLocks DEF TypeOK, Unlock, SweepDone, Proceed
<1>11. CASE Touch
  BY <1>11, UnlockKeepsLocks DEF TypeOK, Unlock, Touch, Stamp, Return
<1>12. CASE Disconnect
  BY <1>12, UnlockKeepsLocks DEF TypeOK, Unlock, Disconnect, Return
<1>13. CASE PollTimeout
  BY <1>13 DEF PollTimeout
<1>14. CASE ReceiveFails
  BY <1>14 DEF ReceiveFails
<1>15. CASE ReadNow
  BY <1>15 DEF ReadNow
<1>16. CASE Inspect
  BY <1>16 DEF Inspect
<1>17. CASE Evict
  BY <1>17 DEF Evict, Clear
<1>18. CASE MonitorUnlock
  BY <1>18, UnlockKeepsLocks DEF TypeOK, Unlock, MonitorUnlock
<1>19. CASE StatsUnlock
  BY <1>19, UnlockKeepsLocks DEF TypeOK, Unlock, StatsUnlock
<1>20. CASE StatsExit
  BY <1>20 DEF StatsExit
<1>21. CASE PrintDone
  BY <1>21, UnlockKeepsLocks DEF TypeOK, Unlock, PrintDone
<1>22. CASE CloseSlot
  BY <1>22 DEF CloseSlot, Clear
<1>23. CASE CloseUnlock
  BY <1>23, UnlockKeepsLocks DEF TypeOK, Unlock, CloseUnlock
<1>24. CASE Join
  BY <1>24 DEF Join
<1>25. CASE UserPrints
  BY <1>25 DEF UserPrints
<1>26. CASE UserOther
  BY <1>26 DEF UserOther
<1>27. CASE UserExits
  BY <1>27 DEF UserExits
<1>28. CASE Sigint
  BY <1>28 DEF Sigint
<1>29. CASE Tick
  BY <1>29 DEF Tick
<1>30. CASE UNCHANGED vars
  BY <1>30 DEF vars
<1> QED
  BY <1>1, <1>2, <1>3, <1>4, <1>5, <1>6, <1>7, <1>8, <1>9, <1>10, <1>11, <1>12, <1>13, <1>14, <1>15, <1>16, <1>17, <1>18, <1>19, <1>20, <1>21, <1>22, <1>23, <1>24, <1>25, <1>26, <1>27, <1>28, <1>29, <1>30
     DEF Next, Getter, Handle, Monitor, Stats, Main, User

\* What the monitor found silent stays silent until somebody stamps it.
LEMMA StaleStep == TypeOK /\ LockInv /\ StaleInv /\ [Next]_vars => StaleInv'
<1> SUFFICES ASSUME TypeOK, LockInv, StaleInv, [Next]_vars PROVE StaleInv'
  OBVIOUS
<1> USE DevicesAssumption DEF TypeOK, LockInv, StaleInv, Threads, Slots, Old, Goto, Unlock, table, locks
<1>1. ASSUME NEW t \in Threads, Lock(t) PROVE StaleInv'
  BY <1>1 DEF Lock
<1>2. ASSUME NEW m \in Messages, Receive(m) PROVE StaleInv'
  BY <1>2 DEF Receive
<1>3. ASSUME NEW i \in Slots, Insert(i) PROVE StaleInv'
  BY <1>3 DEF Insert, Occupy, AfterRegistration, Return, Proceed
<1>4. ASSUME NEW i \in Slots, SetTemp(i) PROVE StaleInv'
  BY <1>4 DEF SetTemp, Stamp, Proceed
<1>5. CASE Unical
  BY <1>5 DEF Unical, Proceed
<1>6. CASE UnlockAgain
  BY <1>6 DEF UnlockAgain, AfterRegistration, Return, Proceed
<1>7. CASE InsertFull
  BY <1>7 DEF InsertFull, AfterRegistration, Return, Proceed
<1>8. CASE Pong
  BY <1>8 DEF Pong, Return, Proceed
<1>9. CASE SetTempUnregistered
  BY <1>9 DEF SetTempUnregistered, Proceed
<1>10. CASE SweepDone
  BY <1>10 DEF SweepDone, Proceed
<1>11. CASE Touch
  BY <1>11 DEF Touch, Stamp, Return
<1>12. CASE Disconnect
  BY <1>12 DEF Disconnect, Return
<1>13. CASE PollTimeout
  BY <1>13 DEF PollTimeout
<1>14. CASE ReceiveFails
  BY <1>14 DEF ReceiveFails
<1>15. CASE ReadNow
  BY <1>15 DEF ReadNow, Silent
<1>16. CASE Inspect
  BY <1>16 DEF Inspect
<1>17. CASE Evict
  BY <1>17 DEF Evict, Clear
<1>18. CASE MonitorUnlock
  BY <1>18 DEF MonitorUnlock
<1>19. CASE StatsUnlock
  BY <1>19 DEF StatsUnlock
<1>20. CASE StatsExit
  BY <1>20 DEF StatsExit
<1>21. CASE PrintDone
  BY <1>21 DEF PrintDone
<1>22. CASE CloseSlot
  BY <1>22 DEF CloseSlot, Clear
<1>23. CASE CloseUnlock
  BY <1>23 DEF CloseUnlock
<1>24. CASE Join
  BY <1>24 DEF Join
<1>25. CASE UserPrints
  BY <1>25 DEF UserPrints
<1>26. CASE UserOther
  BY <1>26 DEF UserOther
<1>27. CASE UserExits
  BY <1>27 DEF UserExits
<1>28. CASE Sigint
  BY <1>28 DEF Sigint
<1>29. CASE Tick
  BY <1>29 DEF Tick
<1>30. CASE UNCHANGED vars
  BY <1>30 DEF vars
<1> QED
  BY <1>1, <1>2, <1>3, <1>4, <1>5, <1>6, <1>7, <1>8, <1>9, <1>10, <1>11, <1>12, <1>13, <1>14, <1>15, <1>16, <1>17, <1>18, <1>19, <1>20, <1>21, <1>22, <1>23, <1>24, <1>25, <1>26, <1>27, <1>28, <1>29, <1>30
     DEF Next, Getter, Handle, Monitor, Stats, Main, User

----------------------------------------------------------------------------
\* Theorems.

\* The inductive invariant holds whatever the threads do in whatever order.
THEOREM TableInvariant == Spec => []TableInv
<1>1. Init => TableInv
  <2> SUFFICES ASSUME Init PROVE TableInv
    OBVIOUS
  <2>1. pc \in [Threads -> Steps] /\ pc["getter"] = "recv" /\ pc["monitor"] = "sleep"
    BY DEF Init, Threads, Steps
  <2>2. client \in [Slots -> Sensors \cup {NoClient}]
    BY DEF Init
  <2>3. is_connected \in [Slots -> BOOLEAN] /\ Live = {}
    BY DEF Init, Live
  <2>4. age \in [Slots -> 0 .. Old]
    BY DevicesAssumption DEF Init, Old
  <2>5. at \in [Walkers -> 0 .. MAX_DEVICE]
    BY DevicesAssumption DEF Init
  <2>6. TypeOK
    BY <2>1, <2>2, <2>3, <2>4, <2>5 DEF Init, TypeOK
  <2>7. GetterInv /\ WalkInv
    BY <2>1 DEF Init, GetterInv, WalkInv, Handling
  <2>8. LiveInv /\ FirstMatchIsLive
    BY <2>3 DEF LiveInv, FirstMatchIsLive
  <2>9. LockInv /\ StaleInv
    BY <2>1 DEF Init, LockInv, StaleInv
  <2> QED
    BY <2>6, <2>7, <2>8, <2>9 DEF TableInv
<1>2. TableInv /\ [Next]_vars => TableInv'
  BY TypeStep, GetterStep, LiveStep, FirstMatchStep, LockStep, StaleStep DEF TableInv
<1> QED
  BY <1>1, <1>2, PTL DEF Spec

\* Every variable of the table and its threads has its type: no walk leaves the
\* table and no thread reads a datagram it does not have.
THEOREM TypeCorrect == Spec => []TypeOK
  BY TableInvariant, PTL DEF TableInv

\* The first slot with a registered sensor's address is the live one, so the
\* five functions that look a sensor up mean the same slot.
THEOREM FirstMatch == Spec => []FirstMatchIsLive
  BY TableInvariant, PTL DEF TableInv

\* Two threads are in sections of mutex_udp at once only if one of them had its
\* lock freed by another.
THEOREM Exclusion == Spec => []ExclusionUntilRobbed
<1>1. TableInv => ExclusionUntilRobbed
  <2> SUFFICES ASSUME TableInv, robbed = {} PROVE ~(Cardinality(inside) > 1)
    BY DEF ExclusionUntilRobbed
  <2>1. inside = {mutex_udp} \/ inside = {}
    BY DEF TableInv, LockInv
  <2>2. Cardinality({}) = 0 /\ Cardinality({mutex_udp}) = 1
    BY FS_EmptySet, FS_Singleton
  <2> QED
    BY <2>1, <2>2
<1> QED
  BY <1>1, TableInvariant, PTL

\* Only the getter's own steps move the getter.
LEMMA OnlyGetterMoves ==
  ASSUME TypeOK, Next, pc'["getter"] # pc["getter"]
  PROVE  Getter \/ ReceiveFails \/ \E m \in Messages : Receive(m)
<1> USE DEF TypeOK, Goto, Threads
<1>1. CASE \E t \in Threads : Lock(t)
  BY <1>1 DEF Lock
<1>2. CASE ReadNow
  BY <1>2 DEF ReadNow
<1>3. CASE Inspect
  BY <1>3 DEF Inspect
<1>4. CASE Evict
  BY <1>4 DEF Evict
<1>5. CASE MonitorUnlock
  BY <1>5 DEF MonitorUnlock
<1>6. CASE StatsUnlock
  BY <1>6 DEF StatsUnlock
<1>7. CASE StatsExit
  BY <1>7 DEF StatsExit
<1>8. CASE PrintDone
  BY <1>8 DEF PrintDone
<1>9. CASE CloseSlot
  BY <1>9 DEF CloseSlot
<1>10. CASE CloseUnlock
  BY <1>10 DEF CloseUnlock
<1>11. CASE Join
  BY <1>11 DEF Join
<1>12. CASE UserPrints
  BY <1>12 DEF UserPrints
<1>13. CASE UserOther
  BY <1>13 DEF UserOther
<1>14. CASE UserExits
  BY <1>14 DEF UserExits
<1>15. CASE Sigint
  BY <1>15 DEF Sigint
<1>16. CASE Tick
  BY <1>16 DEF Tick
<1> QED
  BY <1>1, <1>2, <1>3, <1>4, <1>5, <1>6, <1>7, <1>8, <1>9, <1>10, <1>11, <1>12, <1>13, <1>14, <1>15, <1>16
     DEF Next, Monitor, Stats, Main, User

\* disconnectionDevice clears the first slot with the sensor's address.
LEMMA DisconnectClears ==
  ASSUME TypeOK, FirstMatchIsLive, Disconnect
  PROVE  /\ \A i \in Slots : is_connected'[i] => client[i] # msg.from
         /\ \/ is_connected' = is_connected
            \/ \E i \in Slots : is_connected' = [is_connected EXCEPT ![i] = FALSE]
<1>1. is_connected' = [i \in Slots |-> is_connected[i] /\ ~FirstOf(i, msg.from)]
  BY DEF Disconnect
<1>2. ASSUME NEW i \in Slots, is_connected'[i], client[i] = msg.from PROVE FALSE
  <2>1. is_connected[i] /\ ~FirstOf(i, msg.from)
    BY <1>1, <1>2
  <2>2. PICK j \in 0 .. i - 1 : client[j] = msg.from
    BY <1>2, <2>1 DEF FirstOf
  <2> QED
    BY <1>2, <2>1, <2>2 DEF FirstMatchIsLive, Live
<1>3. CASE \A i \in Slots : ~FirstOf(i, msg.from)
  <2>1. \A i \in Slots : is_connected'[i] = is_connected[i]
    BY <1>1, <1>3 DEF TypeOK
  <2>2. is_connected' = is_connected
    BY <1>1, <2>1 DEF TypeOK
  <2> QED
    BY <1>2, <2>2
<1>4. CASE \E i \in Slots : FirstOf(i, msg.from)
  <2>1. PICK i \in Slots : FirstOf(i, msg.from)
    BY <1>4
  <2>2. \A j \in Slots : FirstOf(j, msg.from) => j = i
    BY <2>1 DEF FirstOf, Slots
  <2>3. is_connected' = [is_connected EXCEPT ![i] = FALSE]
    BY <1>1, <2>1, <2>2 DEF TypeOK
  <2> QED
    BY <1>2, <2>3
<1> QED
  BY <1>3, <1>4

\* Handling a CC leaves its sensor without a live slot, although
\* disconnectionDevice does not look whether the slot it clears is live.
THEOREM Forgets == Spec => DisconnectForgets
<1>1. TableInv /\ [Next]_vars =>
        [pc["getter"] = "disconnect" /\ pc'["getter"] # "disconnect"
           => \A i \in Slots : is_connected'[i] => client[i] # msg.from]_vars
  <2> SUFFICES ASSUME TableInv, Next, pc["getter"] = "disconnect",
                      pc'["getter"] # "disconnect"
               PROVE  \A i \in Slots : is_connected'[i] => client[i] # msg.from
    OBVIOUS
  <2>1. Disconnect
    BY OnlyGetterMoves DEF TableInv, Getter, PollTimeout, ReceiveFails, Receive, Handle,
       Unical, UnlockAgain, InsertFull, Pong, SetTempUnregistered, SweepDone, Touch,
       Insert, SetTemp
  <2> QED
    BY <2>1, DisconnectClears DEF TableInv
<1> QED
  BY <1>1, TableInvariant, PTL DEF Spec, DisconnectForgets

\* A hot reading that reaches setTemp starts the sweep of the lights unless its
\* sensor found the table full or lost its slot in the meantime.
THEOREM HotReading == Spec => HotReadingSweepsUnlessExcused
<1>1. TableInv /\ [Next]_vars =>
        [SetsHot /\ excuse = "none" => pc'["getter"] = "sweep"]_vars
  <2> SUFFICES ASSUME TableInv, Next, SetsHot, excuse = "none"
               PROVE  pc'["getter"] = "sweep"
    OBVIOUS
  <2>1. SetTempUnregistered \/ \E i \in Slots : SetTemp(i)
    BY OnlyGetterMoves DEF SetsHot, TableInv, Getter, PollTimeout, ReceiveFails, Receive,
       Handle, Unical, UnlockAgain, InsertFull, Pong, SweepDone, Touch, Disconnect, Insert
  <2>2. ~SetTempUnregistered
    BY DEF SetTempUnregistered, SetsHot, TableInv, GetterInv
  <2>3. ASSUME NEW i \in Slots, SetTemp(i) PROVE pc'["getter"] = "sweep"
    BY <2>3 DEF SetTemp, SetsHot, Proceed, Goto, TableInv, TypeOK, Threads
  <2> QED
    BY <2>1, <2>2, <2>3
<1> QED
  BY <1>1, TableInvariant, PTL DEF Spec, HotReadingSweepsUnlessExcused

\* An unlock by a thread that is inside robs nobody while nobody is robbed.
LEMMA RobbedStep == TypeOK /\ LockInv /\ robbed = {} /\ [Next]_vars => robbed' = {} \/ pc["getter"] = "unlockAgain"
<1> SUFFICES ASSUME TypeOK, LockInv, robbed = {}, [Next]_vars PROVE robbed' = {} \/ pc["getter"] = "unlockAgain"
  OBVIOUS
<1> USE DevicesAssumption DEF LockInv, locks
<1>1. ASSUME NEW t \in Threads, Lock(t) PROVE robbed' = {} \/ pc["getter"] = "unlockAgain"
  BY <1>1 DEF Lock
<1>2. ASSUME NEW m \in Messages, Receive(m) PROVE robbed' = {} \/ pc["getter"] = "unlockAgain"
  BY <1>2 DEF Receive
<1>3. ASSUME NEW i \in Slots, Insert(i) PROVE robbed' = {} \/ pc["getter"] = "unlockAgain"
  BY <1>3, UnlockKeepsLocks DEF Insert
<1>4. ASSUME NEW i \in Slots, SetTemp(i) PROVE robbed' = {} \/ pc["getter"] = "unlockAgain"
  BY <1>4, UnlockKeepsLocks DEF SetTemp
<1>5. CASE Unical
  BY <1>5, UnlockKeepsLocks DEF Unical
<1>6. CASE UnlockAgain
  BY <1>6 DEF UnlockAgain, AfterRegistration, Return, Proceed
<1>7. CASE InsertFull
  BY <1>7, UnlockKeepsLocks DEF InsertFull
<1>8. CASE Pong
  BY <1>8 DEF Pong, Return, Proceed
<1>9. CASE SetTempUnregistered
  BY <1>9, UnlockKeepsLocks DEF SetTempUnregistered
<1>10. CASE SweepDone
  BY <1>10, UnlockKeepsLocks DEF SweepDone
<1>11. CASE Touch
  BY <1>11, UnlockKeepsLocks DEF Touch
<1>12. CASE Disconnect
  BY <1>12, UnlockKeepsLocks DEF Disconnect
<1>13. CASE PollTimeout
  BY <1>13 DEF PollTimeout
<1>14. CASE ReceiveFails
  BY <1>14 DEF ReceiveFails
<1>15. CASE ReadNow
  BY <1>15 DEF ReadNow
<1>16. CASE Inspect
  BY <1>16 DEF Inspect
<1>17. CASE Evict
  BY <1>17 DEF Evict, Clear
<1>18. CASE MonitorUnlock
  BY <1>18, UnlockKeepsLocks DEF MonitorUnlock
<1>19. CASE StatsUnlock
  BY <1>19, UnlockKeepsLocks DEF StatsUnlock
<1>20. CASE StatsExit
  BY <1>20 DEF StatsExit
<1>21. CASE PrintDone
  BY <1>21, UnlockKeepsLocks DEF PrintDone
<1>22. CASE CloseSlot
  BY <1>22 DEF CloseSlot, Clear
<1>23. CASE CloseUnlock
  BY <1>23, UnlockKeepsLocks DEF CloseUnlock
<1>24. CASE Join
  BY <1>24 DEF Join
<1>25. CASE UserPrints
  BY <1>25 DEF UserPrints
<1>26. CASE UserOther
  BY <1>26 DEF UserOther
<1>27. CASE UserExits
  BY <1>27 DEF UserExits
<1>28. CASE Sigint
  BY <1>28 DEF Sigint
<1>29. CASE Tick
  BY <1>29 DEF Tick
<1>30. CASE UNCHANGED vars
  BY <1>30 DEF vars
<1> QED
  BY <1>1, <1>2, <1>3, <1>4, <1>5, <1>6, <1>7, <1>8, <1>9, <1>10, <1>11, <1>12, <1>13, <1>14, <1>15, <1>16, <1>17, <1>18, <1>19, <1>20, <1>21, <1>22, <1>23, <1>24, <1>25, <1>26, <1>27, <1>28, <1>29, <1>30
     DEF Next, Getter, Handle, Monitor, Stats, Main, User

\* Nobody loses a lock before the second unlock of unical_cli takes one away.
THEOREM Robbed == Spec => RobbedByUnical
<1>1. TableInv /\ [Next]_vars =>
        [robbed = {} /\ robbed' # {} => pc["getter"] = "unlockAgain"]_vars
  BY RobbedStep DEF TableInv
<1> QED
  BY <1>1, TableInvariant, PTL DEF Spec, RobbedByUnical

\* The monitor clears a slot stamped within TIMEOUT seconds only when a lock has
\* been lost: its old `now` alone never does it.
THEOREM Stale == Spec => EvictionIsStale
<1>1. TableInv /\ [Next]_vars =>
        [pc["monitor"] = "evicting" /\ pc'["monitor"] = "evict"
           => age[at["monitor"]] > TIMEOUT \/ robbed # {}]_vars
  BY DEF TableInv, StaleInv
<1> QED
  BY <1>1, TableInvariant, PTL DEF Spec, EvictionIsStale

----------------------------------------------------------------------------
\* The table implements the directory.

\* The status of a sensor whose slots and reading a step leaves alone.
LEMMA StatusUnchanged ==
  ASSUME NEW s \in Sensors, LiveOf(s)' = LiveOf(s),
         \A i \in LiveOf(s) : temperature'[i] = temperature[i]
  PROVE  Status(s)' = Status(s)
<1>1. SlotOf(s)' = SlotOf(s)
  BY DEF SlotOf
<1>2. LiveOf(s) # {} => SlotOf(s) \in LiveOf(s)
  BY DEF SlotOf
<1> QED
  BY <1>1, <1>2 DEF Status

\* The directory knows the sensors that have a slot.
LEMMA KnownHasSlot ==
  ASSUME TypeOK
  PROVE  Directory!Known = {s \in Sensors : LiveOf(s) # {}}
<1>1. ASSUME NEW s \in Sensors, LiveOf(s) # {} PROVE Status(s) # Absent
  <2>1. SlotOf(s) \in Slots
    BY <1>1 DEF SlotOf, LiveOf, Live
  <2> QED
    BY <1>1, <2>1, DevicesAssumption DEF Status, TypeOK
<1> QED
  BY <1>1 DEF Directory!Known, status, Status

\* While a slot is free there is room for a sensor: the sensors known have one
\* slot each, and none has the free one.
LEMMA FreeSlotIsRoom ==
  ASSUME TypeOK, NEW i \in Slots, ~is_connected[i]
  PROVE  Cardinality(Directory!Known) < MAX_DEVICE
<1> DEFINE K == {s \in Sensors : LiveOf(s) # {}}
           T == Slots \ {i}
           f == [s \in K |-> SlotOf(s)]
<1>1. ASSUME NEW s \in K PROVE f[s] \in LiveOf(s)
  BY DEF SlotOf
<1>2. f \in [K -> T]
  BY <1>1 DEF LiveOf, Live
<1>3. \A s, u \in K : f[s] = f[u] => s = u
  BY <1>1 DEF LiveOf
<1>4. f \in Injection(K, T)
  BY <1>2, <1>3 DEF Injection, IsInjective
<1>5. IsFiniteSet(Slots) /\ Cardinality(Slots) = MAX_DEVICE
  BY FS_Interval, DevicesAssumption DEF Slots
<1>6. IsFiniteSet(T) /\ Cardinality(T) = MAX_DEVICE - 1
  BY <1>5, FS_RemoveElement
<1>7. IsFiniteSet(K) /\ Cardinality(K) <= MAX_DEVICE - 1
  BY <1>4, <1>6, FS_Injection
<1> HIDE DEF f, T
<1>8. Directory!Known = K
  BY KnownHasSlot
<1>9. Cardinality(K) \in Nat
  BY <1>7, FS_CardinalityType
<1> QED
  BY <1>7, <1>8, <1>9, DevicesAssumption

\* A step that leaves addresses, connections and readings alone changes nothing
\* in the directory.
LEMMA TableUnchanged ==
  ASSUME TypeOK, UNCHANGED <<client, is_connected, temperature>>
  PROVE  UNCHANGED status
<1>1. ASSUME NEW s \in Sensors PROVE Status(s)' = Status(s)
  <2>1. LiveOf(s)' = LiveOf(s)
    BY DEF LiveOf, Live
  <2> QED
    BY <2>1, StatusUnchanged DEF LiveOf, Live
<1> QED
  BY <1>1 DEF status

\* Clearing a slot forgets the sensor that has it, if it is live.
LEMMA ClearForgets ==
  ASSUME TypeOK, LiveInv, FirstMatchIsLive, NEW i \in Slots,
         is_connected' = [is_connected EXCEPT ![i] = FALSE],
         UNCHANGED <<client, temperature>>
  PROVE  UNCHANGED status \/ \E s \in Sensors : Directory!Forget(s)
<1>1. CASE ~is_connected[i]
  <2>1. is_connected' = is_connected
    BY <1>1 DEF TypeOK
  <2> QED
    BY <2>1, TableUnchanged
<1>2. CASE is_connected[i]
  <2>1. PICK c \in Sensors : c = client[i]
    BY <1>2 DEF LiveInv, Live
  <2>2. i \in LiveOf(c)
    BY <1>2, <2>1 DEF LiveOf, Live
  <2>3. \A j \in LiveOf(c) : j = i
    BY <2>2 DEF FirstMatchIsLive, LiveOf, Live, Slots
  <2>4. LiveOf(c)' = {}
    BY <2>3 DEF LiveOf, Live, TypeOK
  <2>5. ASSUME NEW s \in Sensors, s # c PROVE Status(s)' = Status(s)
    <3>1. LiveOf(s)' = LiveOf(s)
      BY <2>1, <2>5 DEF LiveOf, Live, TypeOK
    <3> QED
      BY <3>1, StatusUnchanged
  <2>6. Status(c)' = Absent
    BY <2>4 DEF Status
  <2>7. c \in Directory!Known
    BY <2>1, <2>2, KnownHasSlot
  <2>8. status' = [status EXCEPT ![c] = Absent]
    BY <2>1, <2>5, <2>6 DEF status
  <2> QED
    BY <2>1, <2>7, <2>8 DEF Directory!Forget
<1> QED
  BY <1>1, <1>2 DEF TypeOK

\* The directory counts with its own copy of FiniteSets.
LEMMA SameCardinality ==
  ASSUME NEW S
  PROVE  Directory!Cardinality(S) = Cardinality(S)
  BY DEF Directory!Cardinality, Cardinality

\* connectionDevice registers the sensor of the datagram.
LEMMA InsertRegisters ==
  ASSUME TypeOK, GetterInv, NEW i \in Slots, Insert(i)
  PROVE  \E s \in Sensors : Directory!Register(s)
<1>0. PICK c \in Sensors : c = msg.from
  BY MessageFields DEF Insert, GetterInv, Handling
<1>1. LiveOf(c) = {} /\ ~is_connected[i]
  BY <1>0 DEF Insert, FirstFree, GetterInv
<1>2. /\ is_connected' = [is_connected EXCEPT ![i] = TRUE]
      /\ client' = [client EXCEPT ![i] = c]
      /\ temperature' = [temperature EXCEPT ![i] = NoTemp]
  BY <1>0 DEF Insert, Occupy
<1>3. LiveOf(c)' = {i} /\ temperature'[i] = NoTemp
  BY <1>1, <1>2 DEF LiveOf, Live, TypeOK
<1>4. Status(c)' = NoTemp
  <2>1. SlotOf(c)' = i
    BY <1>3 DEF SlotOf
  <2> QED
    BY <1>3, <2>1 DEF Status
<1>5. ASSUME NEW s \in Sensors, s # c PROVE Status(s)' = Status(s)
  <2>1. LiveOf(s)' = LiveOf(s)
    BY <1>1, <1>2, <1>5 DEF LiveOf, Live, TypeOK
  <2>2. \A k \in LiveOf(s) : temperature'[k] = temperature[k]
    BY <1>1, <1>2 DEF LiveOf, Live, TypeOK
  <2> QED
    BY <2>1, <2>2, StatusUnchanged
<1>6. status' = [status EXCEPT ![c] = NoTemp]
  BY <1>1, <1>4, <1>5 DEF status
<1>7. c \notin Directory!Known
  BY <1>1, KnownHasSlot
<1>8. Cardinality(Directory!Known) < MAX_DEVICE
  BY <1>1, FreeSlotIsRoom
<1> QED
  BY <1>0, <1>6, <1>7, <1>8, SameCardinality DEF Directory!Register

\* setTemp reports the reading of the datagram's sensor.
LEMMA SetTempReports ==
  ASSUME TypeOK, GetterInv, FirstMatchIsLive, NEW i \in Slots, SetTemp(i)
  PROVE  \E s \in Sensors, t \in Temps : Directory!Report(s, t)
<1>1. PICK c \in Sensors, t \in Temps : c = msg.from /\ t = msg.val
  BY DEF SetTemp, GetterInv, Handling, Messages, Commands
<1>2. i \in LiveOf(c)
  BY <1>1 DEF SetTemp
<1>3. /\ temperature' = [temperature EXCEPT ![i] = t]
      /\ UNCHANGED <<client, is_connected>>
  BY <1>1 DEF SetTemp
<1>4. LiveOf(c) = {i}
  BY <1>2 DEF FirstMatchIsLive, LiveOf, Live, Slots
<1>5. ASSUME NEW s \in Sensors PROVE LiveOf(s)' = LiveOf(s)
  BY <1>3 DEF LiveOf, Live
<1>6. Status(c)' = t
  <2>1. SlotOf(c)' = i
    BY <1>1, <1>4, <1>5 DEF SlotOf
  <2>2. temperature'[i] = t
    BY <1>3 DEF TypeOK
  <2> QED
    BY <1>1, <1>2, <1>5, <2>1, <2>2 DEF Status
<1>7. ASSUME NEW s \in Sensors, s # c PROVE Status(s)' = Status(s)
  <2>1. \A k \in LiveOf(s) : temperature'[k] = temperature[k]
    BY <1>2, <1>3, <1>7 DEF LiveOf, Live, TypeOK
  <2> QED
    BY <1>5, <2>1, StatusUnchanged
<1>8. status' = [status EXCEPT ![c] = t]
  BY <1>1, <1>6, <1>7 DEF status
<1>9. c \in Directory!Known
  BY <1>1, <1>2, KnownHasSlot
<1> QED
  BY <1>1, <1>8, <1>9 DEF Directory!Report

\* A step of the table is a step of the directory, or leaves it alone.
LEMMA DirectoryStep == TypeOK /\ GetterInv /\ LiveInv /\ WalkInv /\ FirstMatchIsLive /\ [Next]_vars => [Directory!Next]_status
<1> SUFFICES ASSUME TypeOK, GetterInv, LiveInv, WalkInv, FirstMatchIsLive, [Next]_vars PROVE [Directory!Next]_status
  OBVIOUS
<1>1. ASSUME NEW t \in Threads, Lock(t) PROVE [Directory!Next]_status
  BY <1>1, TableUnchanged DEF Lock, table
<1>2. ASSUME NEW m \in Messages, Receive(m) PROVE [Directory!Next]_status
  BY <1>2, TableUnchanged DEF Receive, table
<1>3. ASSUME NEW i \in Slots, Insert(i) PROVE [Directory!Next]_status
  BY <1>3, InsertRegisters DEF Directory!Next
<1>4. ASSUME NEW i \in Slots, SetTemp(i) PROVE [Directory!Next]_status
  BY <1>4, SetTempReports DEF Directory!Next
<1>5. CASE Unical
  BY <1>5, TableUnchanged DEF Unical, table
<1>6. CASE UnlockAgain
  BY <1>6, TableUnchanged DEF UnlockAgain, table
<1>7. CASE InsertFull
  BY <1>7, TableUnchanged DEF InsertFull, table
<1>8. CASE Pong
  BY <1>8, TableUnchanged DEF Pong, table
<1>9. CASE SetTempUnregistered
  BY <1>9, TableUnchanged DEF SetTempUnregistered, table
<1>10. CASE SweepDone
  BY <1>10, TableUnchanged DEF SweepDone, table
<1>11. CASE Touch
  BY <1>11, TableUnchanged DEF Touch, table
<1>12. CASE Disconnect
  <2>1. UNCHANGED <<client, temperature>>
    BY <1>12 DEF Disconnect
  <2> QED
    BY <1>12, <2>1, DisconnectClears, ClearForgets, TableUnchanged DEF Directory!Next
<1>13. CASE PollTimeout
  BY <1>13, TableUnchanged DEF PollTimeout, table
<1>14. CASE ReceiveFails
  BY <1>14, TableUnchanged DEF ReceiveFails, table
<1>15. CASE ReadNow
  BY <1>15, TableUnchanged DEF ReadNow, table
<1>16. CASE Inspect
  BY <1>16, TableUnchanged DEF Inspect, table
<1>17. CASE Evict
  <2>1. at["monitor"] \in Slots
    BY <1>17, DevicesAssumption DEF Evict, WalkInv, TypeOK, Walkers, Slots
  <2> QED
    BY <1>17, <2>1, ClearForgets DEF Evict, Clear, Directory!Next
<1>18. CASE MonitorUnlock
  BY <1>18, TableUnchanged DEF MonitorUnlock, table
<1>19. CASE StatsUnlock
  BY <1>19, TableUnchanged DEF StatsUnlock, table
<1>20. CASE StatsExit
  BY <1>20, TableUnchanged DEF StatsExit, table
<1>21. CASE PrintDone
  BY <1>21, TableUnchanged DEF PrintDone, table
<1>22. CASE CloseSlot
  <2>1. at["main"] \in Slots
    BY <1>22, DevicesAssumption DEF CloseSlot, TypeOK, Walkers, Slots
  <2> QED
    BY <1>22, <2>1, ClearForgets DEF CloseSlot, Clear, Directory!Next
<1>23. CASE CloseUnlock
  BY <1>23, TableUnchanged DEF CloseUnlock, table
<1>24. CASE Join
  BY <1>24, TableUnchanged DEF Join, table
<1>25. CASE UserPrints
  BY <1>25, TableUnchanged DEF UserPrints, table
<1>26. CASE UserOther
  BY <1>26, TableUnchanged DEF UserOther, table
<1>27. CASE UserExits
  BY <1>27, TableUnchanged DEF UserExits, table
<1>28. CASE Sigint
  BY <1>28, TableUnchanged DEF Sigint, table
<1>29. CASE Tick
  BY <1>29, TableUnchanged DEF Tick, table
<1>30. CASE UNCHANGED vars
  BY <1>30, TableUnchanged DEF vars
<1> QED
  BY <1>1, <1>2, <1>3, <1>4, <1>5, <1>6, <1>7, <1>8, <1>9, <1>10, <1>11, <1>12, <1>13, <1>14, <1>15, <1>16, <1>17, <1>18, <1>19, <1>20, <1>21, <1>22, <1>23, <1>24, <1>25, <1>26, <1>27, <1>28, <1>29, <1>30
     DEF Next, Getter, Handle, Monitor, Stats, Main, User

\* Every behaviour of the table, with its slots, locks and threads, is one of a
\* directory with room for MAX_DEVICE sensors.
THEOREM Implements == Spec => ImplementsDirectory
<1>1. Init => Directory!Init
  BY DEF Init, Directory!Init, status, Status, LiveOf, Live
<1>2. TableInv /\ [Next]_vars => [Directory!Next]_status
  BY DirectoryStep DEF TableInv
<1> QED
  BY <1>1, <1>2, TableInvariant, PTL DEF Spec, ImplementsDirectory, Directory!Spec

----------------------------------------------------------------------------
\* What closeServer leaves in the table.

\* The slots main is through with: those its walk has passed, and all of them
\* when it waits in the joins.
Passed == IF pc["main"] = "close" THEN {i \in Slots : i < at["main"]} ELSE Slots

\* The getter inserts nothing any more: with the flag set it leaves its loop
\* when it is through with this datagram.
Spent == pc["getter"] \in {"unlockAgain", "pong", "setTemp", "sweep", "touch", "disconnect", "done"}

\* From the walk on the flag is set, a slot behind the walk is live only by an
\* insert the getter made with the flag set, and that was its last.
ClosingInv ==
  /\ pc["main"] # "close" => at["main"] = 0
  /\ pc["main"] \in {"close", "join", "done"} =>
       /\ shutdown_flag
       /\ \A i \in Passed : is_connected[i] => Spent
       /\ \A i \in Passed : \A j \in Passed : is_connected[i] /\ is_connected[j] => i = j

\* A step that registers nobody and moves neither main nor the getter's last
\* insert back.
LEMMA ClosingUnchanged ==
  ASSUME TypeOK, ClosingInv, shutdown_flag => shutdown_flag',
         pc'["main"] = pc["main"], at'["main"] = at["main"], Spent => Spent',
         \A i \in Slots : is_connected'[i] => is_connected[i]
  PROVE  ClosingInv'
<1>1. Passed' = Passed
  BY DEF Passed
<1>2. Passed \subseteq Slots
  BY DEF Passed
<1> QED
  BY <1>1, <1>2 DEF ClosingInv

\* Every step of every thread keeps it.
LEMMA ClosingStep == TypeOK /\ ClosingInv /\ [Next]_vars => ClosingInv'
<1> SUFFICES ASSUME TypeOK, ClosingInv, [Next]_vars PROVE ClosingInv'
  OBVIOUS
<1> DEFINE Quiet == /\ shutdown_flag => shutdown_flag'
                    /\ pc'["main"] = pc["main"]
                    /\ at'["main"] = at["main"]
                    /\ Spent => Spent'
                    /\ \A i \in Slots : is_connected'[i] => is_connected[i]
<1>0. Quiet => ClosingInv'
  BY ClosingUnchanged
<1>a. /\ pc \in [Threads -> Steps] /\ at \in [Walkers -> 0 .. MAX_DEVICE]
      /\ is_connected \in [Slots -> BOOLEAN]
      /\ {"getter", "monitor", "stats", "main"} \subseteq Threads
      /\ {"monitor", "main"} \subseteq Walkers
  BY DEF TypeOK, Threads, Walkers
<1>b. pc["main"] \in {"close", "join", "done"} => shutdown_flag
  BY DEF ClosingInv
<1> HIDE DEF Quiet
<1>1. ASSUME NEW t \in Threads, Lock(t) PROVE ClosingInv'
  BY <1>1, <1>0 DEF Lock, Quiet, Spent, table
<1>2. ASSUME NEW m \in Messages, Receive(m) PROVE ClosingInv'
  BY <1>2, <1>0, <1>a DEF Receive, Quiet, Spent, table, Goto
<1>3. ASSUME NEW i \in Slots, Insert(i) PROVE ClosingInv'
  <2>1. /\ is_connected' = [is_connected EXCEPT ![i] = TRUE]
        /\ pc["getter"] = "insert" /\ ~Spent
        /\ pc'["main"] = pc["main"] /\ at' = at /\ shutdown_flag' = shutdown_flag
    BY <1>3, <1>a DEF Insert, Occupy, AfterRegistration, Return, Proceed, Goto, Spent
  <2>2. shutdown_flag => Spent'
    BY <1>3, <1>a DEF Insert, AfterRegistration, Return, Proceed, Goto, Spent
  <2>3. Passed' = Passed /\ Passed \subseteq Slots
    BY <2>1 DEF Passed
  <2>4. pc["main"] \in {"close", "join", "done"} => \A k \in Passed : ~is_connected[k]
    BY <2>1, <1>a, <2>3 DEF ClosingInv
  <2>5. \A k \in Slots : is_connected'[k] => is_connected[k] \/ k = i
    BY <2>1, <1>a
  <2> QED
    BY <2>1, <2>2, <2>3, <2>4, <2>5 DEF ClosingInv
<1>4. ASSUME NEW i \in Slots, SetTemp(i) PROVE ClosingInv'
  BY <1>4, <1>0, <1>a DEF SetTemp, Proceed, Goto, Quiet, Spent
<1>5. CASE Unical
  BY <1>5, <1>0, <1>a DEF Unical, Proceed, Goto, Quiet, Spent, table
<1>6. CASE UnlockAgain
  <2>1. shutdown_flag' = shutdown_flag /\ pc'["main"] = pc["main"] /\ UNCHANGED <<at, is_connected>>
    BY <1>6, <1>a DEF UnlockAgain, AfterRegistration, Return, Proceed, Goto, table
  <2>2. shutdown_flag => Spent'
    BY <1>6, <1>a DEF UnlockAgain, AfterRegistration, Return, Proceed, Goto, Spent
  <2> QED
    BY <2>1, <2>2 DEF ClosingInv, Passed
<1>7. CASE InsertFull
  <2>1. shutdown_flag' = shutdown_flag /\ pc'["main"] = pc["main"] /\ UNCHANGED <<at, is_connected>>
    BY <1>7, <1>a DEF InsertFull, AfterRegistration, Return, Proceed, Goto, table
  <2>2. ~Spent
    BY <1>7 DEF InsertFull, Spent
  <2> QED
    BY <2>1, <2>2, <1>0 DEF Quiet
<1>8. CASE Pong
  <2>1. shutdown_flag' = shutdown_flag /\ pc'["main"] = pc["main"] /\ UNCHANGED <<at, is_connected>>
    BY <1>8, <1>a DEF Pong, Return, Proceed, Goto, table
  <2>2. shutdown_flag => Spent'
    BY <1>8, <1>a DEF Pong, Return, Proceed, Goto, Spent
  <2> QED
    BY <2>1, <2>2 DEF ClosingInv, Passed
<1>9. CASE SetTempUnregistered
  BY <1>9, <1>0, <1>a DEF SetTempUnregistered, Proceed, Goto, Quiet, Spent, table
<1>10. CASE SweepDone
  BY <1>10, <1>0, <1>a DEF SweepDone, Proceed, Goto, Quiet, Spent, table
<1>11. CASE Touch
  <2>1. shutdown_flag' = shutdown_flag /\ pc'["main"] = pc["main"] /\ UNCHANGED <<at, is_connected>>
    BY <1>11, <1>a DEF Touch, Return, Goto
  <2>2. shutdown_flag => Spent'
    BY <1>11, <1>a DEF Touch, Return, Goto, Spent
  <2> QED
    BY <2>1, <2>2 DEF ClosingInv, Passed
<1>12. CASE Disconnect
  <2>1. shutdown_flag' = shutdown_flag /\ pc'["main"] = pc["main"] /\ UNCHANGED at
    BY <1>12, <1>a DEF Disconnect, Return, Goto
  <2>2. \A i \in Slots : is_connected'[i] => is_connected[i]
    BY <1>12 DEF Disconnect
  <2>3. shutdown_flag => Spent'
    BY <1>12, <1>a DEF Disconnect, Return, Goto, Spent
  <2>4. Passed' = Passed /\ Passed \subseteq Slots
    BY <2>1 DEF Passed
  <2> QED
    BY <2>1, <2>2, <2>3, <2>4 DEF ClosingInv
<1>13. CASE PollTimeout
  BY <1>13, <1>0, <1>a DEF PollTimeout, Goto, Quiet, Spent, table
<1>14. CASE ReceiveFails
  BY <1>14, <1>0, <1>a DEF ReceiveFails, Goto, Quiet, Spent, table
<1>15. CASE ReadNow
  BY <1>15, <1>0, <1>a DEF ReadNow, Goto, Quiet, Spent, table
<1>16. CASE Inspect
  BY <1>16, <1>0, <1>a DEF Inspect, Goto, Quiet, Spent, table
<1>17. CASE Evict
  BY <1>17, <1>0, <1>a DEF Evict, Clear, Goto, Quiet, Spent
<1>18. CASE MonitorUnlock
  BY <1>18, <1>0, <1>a DEF MonitorUnlock, Goto, Quiet, Spent, table
<1>19. CASE StatsUnlock
  BY <1>19, <1>0, <1>a DEF StatsUnlock, Goto, Quiet, Spent, table
<1>20. CASE StatsExit
  BY <1>20, <1>0, <1>a DEF StatsExit, Goto, Quiet, Spent, table
<1> DEFINE Enters == /\ pc["main"] # "close" /\ UNCHANGED at
                     /\ pc'["main"] \in {"ui", "print", "close"}
                     /\ pc'["main"] = "close" => shutdown_flag'
<1>c. Enters => ClosingInv'
  <2> SUFFICES ASSUME Enters PROVE ClosingInv'
    OBVIOUS
  <2>1. at'["main"] = 0
    BY DEF ClosingInv
  <2>2. pc'["main"] = "close" => Passed' = {}
    BY <2>1 DEF Passed, Slots
  <2> QED
    BY <2>1, <2>2 DEF ClosingInv
<1> HIDE DEF Enters
<1>21. CASE PrintDone
  BY <1>21, <1>c, <1>a DEF PrintDone, Goto, Enters
<1>22. CASE CloseSlot
  <2> DEFINE k == at["main"]
  <2>1. /\ pc["main"] = "close" /\ UNCHANGED <<pc, shutdown_flag>>
        /\ is_connected' = [is_connected EXCEPT ![k] = FALSE] /\ at'["main"] = k + 1
        /\ k \in Slots
    BY <1>22, <1>a, DevicesAssumption DEF CloseSlot, Clear, Slots
  <2>2. \A i \in Passed' : i = k \/ i \in Passed
    BY <2>1 DEF Passed, Slots
  <2>3. ~is_connected'[k] /\ \A i \in Slots : is_connected'[i] => is_connected[i]
    BY <2>1, <1>a
  <2>4. Passed \subseteq Slots
    BY DEF Passed
  <2>5. \A i \in Passed' : is_connected'[i] => i \in Passed /\ is_connected[i]
    BY <2>2, <2>3, <2>4
  <2>6. Spent' = Spent
    BY <2>1 DEF Spent
  <2> QED
    BY <2>1, <2>5, <2>6 DEF ClosingInv
<1>23. CASE CloseUnlock
  <2>1. /\ pc["main"] = "close" /\ pc'["main"] = "join" /\ pc'["getter"] = pc["getter"]
        /\ UNCHANGED <<shutdown_flag, is_connected>>
        /\ at["main"] = MAX_DEVICE /\ at'["main"] = 0
    BY <1>23, <1>a DEF CloseUnlock, Goto, table
  <2>2. Passed = Slots /\ Passed' = Slots
    BY <2>1, DevicesAssumption DEF Passed, Slots
  <2> QED
    BY <2>1, <2>2 DEF ClosingInv, Spent
<1>24. CASE Join
  <2>1. /\ pc["main"] = "join" /\ pc'["main"] = "done" /\ pc'["getter"] = pc["getter"]
        /\ UNCHANGED <<shutdown_flag, is_connected, at>>
    BY <1>24, <1>a DEF Join, Goto, table
  <2>2. Passed = Slots /\ Passed' = Slots
    BY <2>1 DEF Passed
  <2> QED
    BY <2>1, <2>2 DEF ClosingInv, Spent
<1>25. CASE UserPrints
  BY <1>25, <1>c, <1>a DEF UserPrints, Goto, Enters
<1>26. CASE UserOther
  BY <1>26, <1>c, <1>a DEF UserOther, Goto, Enters
<1>27. CASE UserExits
  BY <1>27, <1>c, <1>a DEF UserExits, Goto, Enters
<1>28. CASE Sigint
  BY <1>28, <1>0 DEF Sigint, Quiet, Spent, table
<1>29. CASE Tick
  BY <1>29, <1>0, <1>a DEF Tick, Goto, Quiet, Spent
<1>30. CASE UNCHANGED vars
  BY <1>30, <1>0 DEF vars, Quiet, Spent
<1> QED
  BY <1>1, <1>2, <1>3, <1>4, <1>5, <1>6, <1>7, <1>8, <1>9, <1>10, <1>11, <1>12, <1>13, <1>14, <1>15, <1>16, <1>17, <1>18, <1>19, <1>20, <1>21, <1>22, <1>23, <1>24, <1>25, <1>26, <1>27, <1>28, <1>29, <1>30
     DEF Next, Getter, Handle, Monitor, Stats, Main, User

\* When main has joined every thread the table holds one sensor at most, however
\* many there are and however the getter's last datagram meets the walk.
THEOREM OneStranded == Spec => []AtMostOneStranded
<1>1. Init => ClosingInv
  BY DEF Init, ClosingInv, Threads, Walkers
<1>2. ClosingInv => AtMostOneStranded
  <2> SUFFICES ASSUME ClosingInv, pc["main"] = "done" PROVE Cardinality(Live) <= 1
    BY DEF AtMostOneStranded
  <2>1. \A i \in Live : \A j \in Live : i = j
    BY DEF ClosingInv, Passed, Live
  <2>2. CASE Live = {}
    BY <2>2, FS_EmptySet
  <2>3. CASE Live # {}
    <3>1. PICK i \in Live : Live = {i}
      BY <2>1, <2>3
    <3> QED
      BY <3>1, FS_Singleton, SMTT(60)
  <2> QED
    BY <2>2, <2>3
<1> QED
  BY <1>1, <1>2, ClosingStep, TypeCorrect, PTL DEF Spec
=============================================================================
