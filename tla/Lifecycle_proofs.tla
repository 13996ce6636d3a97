-------------------------- MODULE Lifecycle_proofs --------------------------
(* Theorems about Lifecycle, for every number of devices, data points,     *)
(* loops and attempts, and every fault.                                    *)
EXTENDS Lifecycle, FiniteSetTheorems, TLAPS

Early == {"connect", "mqtt", "announce", "start"}
Drained == {"web", "goodbye", "disconnect", "devices", "ended"}
Closed == {"goodbye", "disconnect", "devices", "ended"}
Left == {"disconnect", "devices", "ended"}

(* Nothing runs before run() starts it; past the drain the evaluation loop *)
(* has ended, past `await web_task' the web server has.                    *)
EarlyInv == main \in Early => loop = "off" /\ web = "off"
DrainedInv == main \in Drained => loop = "end"
ClosedInv == main \in Closed => web = "closed"

(* A task awaits a driver in the phases that call one, and of a device     *)
(* that is connected; so are those publish_states has still to read.       *)
IdleInv ==
  /\ loop \in {"off", "sleep", "confirm", "end"} => using["loop"] = None
  /\ web \notin {"evaluate", "last"} => using["web"] = None
TodoInv == loop = "publish" => todo \subseteq Live

(* A command that is tried again is one, and has an attempt left.          *)
CommandInv ==
  /\ cmd \in {"write", "backoff"} => cmdPoint \in PointSet
  /\ cmd = "backoff" => tries < Attempts

OrderInv ==
  TypeOK /\ EarlyInv /\ DrainedInv /\ ClosedInv /\ IdleInv /\ TodoInv
  /\ CommandInv /\ LoopsStopBeforeDevices

(* The broker has been in reach exactly while the client was there; after  *)
(* the goodbye it was in reach for, the topic says offline.                *)
ReachInv ==
  /\ link = "up" => reached
  /\ main \notin Left /\ reached => link = "up" \/ main = "dead"
  /\ main \in Left /\ reached => availability = "offline"

-----------------------------------------------------------------------------
(* A set of positions has a last one.                                      *)
LEMMA LastExists ==
  ASSUME NEW n \in Nat, NEW I \in SUBSET (1..n), I # {}
  PROVE  \E i \in I : \A j \in I : j <= i
<1> DEFINE S == 1..n
           T == {i..n : i \in I}
           R == StrictSubsetOrdering(S)
<1>1. IsWellFoundedOn(R, FiniteSubsetsOf(S))
  BY FS_StrictSubsetOrderingWellFounded
<1>2. IsFiniteSet(S)
  BY FS_Interval
<1>3. ASSUME NEW i \in I PROVE i..n \in FiniteSubsetsOf(S)
  <2>1. i..n \subseteq S
    OBVIOUS
  <2>2. QED
    BY <1>2, <2>1, FS_Subset DEF FiniteSubsetsOf
<1>4. T \subseteq FiniteSubsetsOf(S) /\ T # {}
  BY <1>3
<1>5. \E t \in T : \A u \in T : <<u, t>> \notin R
  <2> HIDE DEF T, R, S
  <2> QED
    BY <1>1, <1>4, WFMin
<1>6. PICK i \in I : \A j \in I : <<j..n, i..n>> \notin R
  BY <1>5
<1>7. ASSUME NEW j \in I PROVE j <= i
  <2>1. SUFFICES ASSUME j > i PROVE FALSE
    OBVIOUS
  <2>2. i \in i..n /\ i \notin j..n /\ j..n \subseteq i..n /\ j..n \subseteq S
      /\ i..n \subseteq S
    BY <2>1
  <2>3. <<j..n, i..n>> \in R
    BY <2>2 DEF StrictSubsetOrdering
  <2>4. QED
    BY <1>6, <2>3
<1>8. QED
  BY <1>7

(* announce_all enters data points of the configuration.                   *)
LEMMA LookupType == ASSUME NEW s PROVE LastWith(s) \in PointSet \cup {None}
<1> DEFINE I == {i \in 1..Len(Points) : SlugOf[Points[i]] = s /\ Points[i] \in Live}
<1>1. CASE I = {}
  BY <1>1 DEF LastWith
<1>2. CASE I # {}
  <2>1. Len(Points) \in Nat
    BY LifecycleAssumption
  <2>2. \E i \in I : \A j \in I : j <= i
    <3> HIDE DEF I
    <3>1. I \in SUBSET (1..Len(Points))
      BY DEF I
    <3>2. QED
      BY <1>2, <2>1, <3>1, LastExists
  <2>3. (CHOOSE i \in I : \A j \in I : j <= i) \in 1..Len(Points)
    BY <2>2
  <2>4. QED
    BY <1>2, <2>3 DEF LastWith, PointSet
<1>3. QED
  BY <1>1, <1>2

(* OrderInv holds when the process starts.                                 *)
LEMMA InitOrder == Init => OrderInv
<1> SUFFICES ASSUME Init PROVE OrderInv
  OBVIOUS
<1>1. shutdown \in BOOLEAN /\ published \in BOOLEAN /\ reached \in BOOLEAN
  BY Zenon DEF Init
<1>2. QED
  BY <1>1, LifecycleAssumption
     DEF Init, OrderInv, TypeOK, EarlyInv, DrainedInv, ClosedInv, IdleInv, TodoInv,
         CommandInv, LoopsStopBeforeDevices, Tasks, Drained, Closed

(* Every step of run(), its tasks and the environment keeps OrderInv.      *)
LEMMA StepOrder == OrderInv /\ [Next]_vars => OrderInv'
<1> SUFFICES ASSUME OrderInv, [Next]_vars PROVE OrderInv'
  OBVIOUS
<1> USE LifecycleAssumption
    DEF OrderInv, EarlyInv, DrainedInv, ClosedInv, IdleInv, TodoInv, CommandInv,
        LoopsStopBeforeDevices, Early, Drained, Closed, Uses, Tasks, vars, tasks, mqtt, topics
<1>1. CASE MainConnected
  BY <1>1 DEF MainConnected, TypeOK, Live
<1>2. CASE MainMqtt
  <2>1. shutdown' \in BOOLEAN /\ published' \in BOOLEAN /\ reached' \in BOOLEAN
    BY <1>2, Zenon DEF MainMqtt, TypeOK
  <2>2. QED
    BY <1>2, <2>1 DEF MainMqtt, TypeOK, Live
<1>3. CASE MainAnnounce
  BY <1>3, LookupType DEF MainAnnounce, TypeOK, Live
<1>4. CASE MainStart
  BY <1>4 DEF MainStart, TypeOK, Live
<1>5. CASE MainDrain
  BY <1>5 DEF MainDrain, TypeOK, Live
<1>6. CASE MainDrained
  BY <1>6 DEF MainDrained, TypeOK, Live
<1>7. CASE MainWeb
  BY <1>7 DEF MainWeb, TypeOK, Live
<1>8. CASE MainGoodbye
  BY <1>8 DEF MainGoodbye, TypeOK, Live
<1>9. CASE MainDisconnect
  BY <1>9 DEF MainDisconnect, TypeOK, Live
<1>10. CASE MainEnd
  BY <1>10 DEF MainEnd, TypeOK, Live, Connected
<1>11. CASE LoopWakes
  <2>1. shutdown' \in BOOLEAN /\ published' \in BOOLEAN /\ reached' \in BOOLEAN
    BY <1>11, Zenon DEF LoopWakes, TypeOK, AfterEvaluate
  <2>2. QED
    BY <1>11, <2>1 DEF LoopWakes, TypeOK, Live, Running, Cancelled, Connected, AfterEvaluate
<1>12. CASE LoopWritten
  <2>1. shutdown' \in BOOLEAN /\ published' \in BOOLEAN /\ reached' \in BOOLEAN
    BY <1>12, Zenon DEF LoopWritten, TypeOK, AfterEvaluate
  <2>2. QED
    BY <1>12, <2>1 DEF LoopWritten, TypeOK, Live, Running, Cancelled, Connected, AfterEvaluate
<1>13. CASE LoopPublishes
  <2>1. shutdown' \in BOOLEAN /\ published' \in BOOLEAN /\ reached' \in BOOLEAN
    BY <1>13, Zenon DEF LoopPublishes, TypeOK
  <2>2. /\ UNCHANGED <<main, shutdown, conn, mqtt, side, web, cmd, cmdPoint, tries, asked>>
        /\ loop = "publish" /\ loop' \in {"publish", "confirm", "sleep"}
        /\ availability' \in {availability, "online"}
    BY <1>13 DEF LoopPublishes, Online
  <2>3. CASE todo # {}
    <3>1. PICK p \in todo : todo' = todo \ {p} /\ using' = [using EXCEPT !["loop"] = DeviceOf[p]]
      BY <1>13, <2>3 DEF LoopPublishes
    <3>2. p \in PointSet /\ conn[DeviceOf[p]] = "connected" /\ loop' = loop
      BY <1>13, <2>2, <2>3, <3>1 DEF Live, LoopPublishes
    <3>3. QED
      BY <2>1, <2>2, <3>1, <3>2 DEF TypeOK, Live
  <2>4. CASE todo = {}
    <3>1. using' = [using EXCEPT !["loop"] = None] /\ todo' = todo /\ loop' # "publish"
      BY <1>13, <2>4 DEF LoopPublishes
    <3>2. QED
      BY <2>1, <2>2, <3>1 DEF TypeOK, Live
  <2>5. QED
    BY <2>3, <2>4
<1>14. CASE LoopConfirmed
  BY <1>14 DEF LoopConfirmed, TypeOK, Live, Running, Cancelled
<1>15. CASE LoopCancelled
  BY <1>15 DEF LoopCancelled, TypeOK, Live, Cancelled
<1>16. CASE WebRequest
  BY <1>16 DEF WebRequest, TypeOK, Live, Running, Connected
<1>17. CASE WebWritten
  BY <1>17 DEF WebWritten, TypeOK, Live, Running, Connected
<1>18. CASE WebExits
  BY <1>18 DEF WebExits, TypeOK, Live, Running
<1>19. CASE CommandEnds
  BY <1>19 DEF CommandEnds, TypeOK, Live, Running
<1>20. CASE CommandFails
  BY <1>20 DEF CommandFails, TypeOK, Live, Running
<1>21. CASE CommandRetries
  BY <1>21 DEF CommandRetries, TypeOK, Live, Running
<1>22. CASE CommandLoopEnds
  BY <1>22 DEF CommandLoopEnds, TypeOK, Live, Running
<1>23. CASE Signal
  <2>1. shutdown' \in BOOLEAN /\ published' \in BOOLEAN /\ reached' \in BOOLEAN
    BY <1>23, Zenon DEF Signal, TypeOK
  <2>2. QED
    BY <1>23, <2>1 DEF Signal, TypeOK, Live
<1>24. CASE Crash
  BY <1>24 DEF Crash, TypeOK, Live, Running
<1>25. CASE Restart
  <2>1. shutdown' \in BOOLEAN /\ published' \in BOOLEAN /\ reached' \in BOOLEAN
    BY <1>25, Zenon DEF Restart, TypeOK
  <2>2. QED
    BY <1>25, <2>1 DEF Restart, TypeOK, Live, Running
<1>26. CASE LinkLost
  <2>1. shutdown' \in BOOLEAN /\ published' \in BOOLEAN /\ reached' \in BOOLEAN
    BY <1>26, Zenon DEF LinkLost, TypeOK
  <2>2. QED
    BY <1>26, <2>1 DEF LinkLost, TypeOK, Live, Running
<1>27. ASSUME NEW d \in Devices, MainConnect(d) PROVE OrderInv'
  BY <1>27 DEF MainConnect, TypeOK, Live
<1>28. ASSUME NEW d \in Devices, MainClose(d) PROVE OrderInv'
  BY <1>28 DEF MainClose, TypeOK, Live
<1>29. ASSUME NEW s \in Slugs, CommandArrives(s) PROVE OrderInv'
  BY <1>29 DEF CommandArrives, TypeOK, Live, Running
<1>30. ASSUME NEW l \in SideLoops, SideStep(l) PROVE OrderInv'
  BY <1>30 DEF SideStep, TypeOK, Live, Running, Cancelled
<1>31. ASSUME NEW s \in Slugs, UserCommands(s) PROVE OrderInv'
  BY <1>31 DEF UserCommands, TypeOK, Live
<1>32. CASE UNCHANGED vars
  BY <1>32 DEF TypeOK, Live
<1>33. CASE WebAnswers
  BY <1>33 DEF WebAnswers, TypeOK, Live, Running
<1>34. CASE MainAnnounceRaises
  BY <1>34 DEF MainAnnounceRaises, TypeOK, Live
<1>35. QED
  BY <1>1, <1>2, <1>3, <1>4, <1>5, <1>6, <1>7, <1>8, <1>9, <1>10, <1>11,
     <1>12, <1>13, <1>14, <1>15, <1>16, <1>17, <1>18, <1>19, <1>20, <1>21,
     <1>22, <1>23, <1>24, <1>25, <1>26, <1>27, <1>28, <1>29, <1>30, <1>31,
     <1>32, <1>33, <1>34
     DEF Next, MainStep, LoopStep, WebStep, CommandStep, Environment

(* Types, for every configuration.                                         *)
THEOREM TypeCorrect == Spec => []TypeOK
<1>1. OrderInv => TypeOK
  BY DEF OrderInv
<1>2. QED
  BY <1>1, InitOrder, StepOrder, PTL DEF Spec

(* No evaluation, publication or web request calls the driver of a device  *)
(* that run() has closed, whenever the signal comes.                       *)
THEOREM ShutdownOrder == Spec => []LoopsStopBeforeDevices
<1>1. OrderInv => LoopsStopBeforeDevices
  BY DEF OrderInv
<1>2. QED
  BY <1>1, InitOrder, StepOrder, PTL DEF Spec

-----------------------------------------------------------------------------
(* The availability topic.                                                 *)

(* Before the first connection the broker has not been in reach.           *)
LEMMA InitReach == Init => ReachInv
  BY DEF Init, ReachInv, Left

(* Every step keeps what the topic and the link tell of each other.        *)
LEMMA StepReach == ReachInv /\ OrderInv /\ [Next]_vars => ReachInv'
<1> SUFFICES ASSUME ReachInv, OrderInv, [Next]_vars PROVE ReachInv'
  OBVIOUS
<1> USE DEF ReachInv, Left, vars, tasks, mqtt, topics
<1>1. CASE MainConnected
  BY <1>1 DEF MainConnected
<1>2. CASE MainMqtt
  BY <1>2 DEF MainMqtt
<1>3. CASE MainAnnounce
  BY <1>3 DEF MainAnnounce
<1>4. CASE MainStart
  BY <1>4 DEF MainStart
<1>5. CASE MainDrain
  BY <1>5 DEF MainDrain
<1>6. CASE MainDrained
  BY <1>6 DEF MainDrained
<1>7. CASE MainWeb
  BY <1>7 DEF MainWeb
<1>8. CASE MainGoodbye
  BY <1>8 DEF MainGoodbye
<1>9. CASE MainDisconnect
  BY <1>9 DEF MainDisconnect
<1>10. CASE MainEnd
  BY <1>10 DEF MainEnd
<1>11. CASE LoopWakes
  BY <1>11 DEF LoopWakes
<1>12. CASE LoopWritten
  BY <1>12 DEF LoopWritten
<1>13. CASE LoopPublishes
  <2>1. main \notin Left
    BY <1>13 DEF LoopPublishes, OrderInv, DrainedInv, Drained
  <2>2. UNCHANGED <<main, link, reached>>
    BY <1>13 DEF LoopPublishes
  <2>3. QED
    BY <2>1, <2>2
<1>14. CASE LoopConfirmed
  BY <1>14 DEF LoopConfirmed
<1>15. CASE LoopCancelled
  BY <1>15 DEF LoopCancelled
<1>16. CASE WebRequest
  BY <1>16 DEF WebRequest
<1>17. CASE WebWritten
  BY <1>17 DEF WebWritten
<1>18. CASE WebExits
  BY <1>18 DEF WebExits
<1>19. CASE CommandEnds
  BY <1>19 DEF CommandEnds
<1>20. CASE CommandFails
  BY <1>20 DEF CommandFails
<1>21. CASE CommandRetries
  BY <1>21 DEF CommandRetries
<1>22. CASE CommandLoopEnds
  BY <1>22 DEF CommandLoopEnds
<1>23. CASE Signal
  BY <1>23 DEF Signal
<1>24. CASE Crash
  BY <1>24 DEF Crash
<1>25. CASE Restart
  BY <1>25 DEF Restart
<1>26. CASE LinkLost
  BY <1>26 DEF LinkLost
<1>27. ASSUME NEW d \in Devices, MainConnect(d) PROVE ReachInv'
  BY <1>27 DEF MainConnect
<1>28. ASSUME NEW d \in Devices, MainClose(d) PROVE ReachInv'
  BY <1>28 DEF MainClose
<1>29. ASSUME NEW s \in Slugs, CommandArrives(s) PROVE ReachInv'
  BY <1>29 DEF CommandArrives
<1>30. ASSUME NEW l \in SideLoops, SideStep(l) PROVE ReachInv'
  BY <1>30 DEF SideStep
<1>31. ASSUME NEW s \in Slugs, UserCommands(s) PROVE ReachInv'
  BY <1>31 DEF UserCommands
<1>32. CASE UNCHANGED vars
  BY <1>32
<1>33. CASE WebAnswers
  BY <1>33 DEF WebAnswers
<1>34. CASE MainAnnounceRaises
  BY <1>34 DEF MainAnnounceRaises
<1>35. QED
  BY <1>1, <1>2, <1>3, <1>4, <1>5, <1>6, <1>7, <1>8, <1>9, <1>10, <1>11,
     <1>12, <1>13, <1>14, <1>15, <1>16, <1>17, <1>18, <1>19, <1>20, <1>21,
     <1>22, <1>23, <1>24, <1>25, <1>26, <1>27, <1>28, <1>29, <1>30, <1>31,
     <1>32, <1>33, <1>34
     DEF Next, MainStep, LoopStep, WebStep, CommandStep, Environment

(* The process starts in an initial state of Availability.                 *)
LEMMA InitPromise == Init => Promise!Init
  BY DEF Init, Promise!Init, PhaseOf

(* Every step is one of Availability, or changes nothing it speaks of.     *)
LEMMA StepPromise == ReachInv /\ OrderInv /\ [Next]_vars => [Promise!Next]_Promise!vars
<1> SUFFICES ASSUME ReachInv, OrderInv, [Next]_vars PROVE [Promise!Next]_Promise!vars
  OBVIOUS
<1> USE DEF ReachInv, Left, vars, tasks, mqtt, topics, PhaseOf, Promise!vars
<1>1. CASE MainConnected
  BY <1>1 DEF MainConnected
<1>2. CASE MainMqtt
  BY <1>2 DEF MainMqtt, Promise!Next, Promise!Connect
<1>3. CASE MainAnnounce
  BY <1>3 DEF MainAnnounce
<1>4. CASE MainStart
  BY <1>4 DEF MainStart, Promise!Next, Promise!Run
<1>5. CASE MainDrain
  BY <1>5 DEF MainDrain, Promise!Next, Promise!Stop
<1>6. CASE MainDrained
  BY <1>6 DEF MainDrained
<1>7. CASE MainWeb
  BY <1>7 DEF MainWeb
<1>8. CASE MainGoodbye
  BY <1>8 DEF MainGoodbye, Promise!Next, Promise!Offline
<1>9. CASE MainDisconnect
  BY <1>9 DEF MainDisconnect
<1>10. CASE MainEnd
  BY <1>10 DEF MainEnd, Promise!Next, Promise!Down
<1>11. CASE LoopWakes
  BY <1>11 DEF LoopWakes
<1>12. CASE LoopWritten
  BY <1>12 DEF LoopWritten
<1>13. CASE LoopPublishes
  <2>1. main = "running"
    BY <1>13 DEF LoopPublishes, Running, Cancelled, OrderInv, TypeOK, EarlyInv, DrainedInv, Early, Drained
  <2>2. UNCHANGED <<main, link, reached>>
    BY <1>13 DEF LoopPublishes
  <2>3. availability' = availability \/ (link = "up" /\ availability' = "online")
    BY <1>13 DEF LoopPublishes, Online
  <2>4. QED
    BY <2>1, <2>2, <2>3 DEF Promise!Next, Promise!Online
<1>14. CASE LoopConfirmed
  BY <1>14 DEF LoopConfirmed
<1>15. CASE LoopCancelled
  BY <1>15 DEF LoopCancelled
<1>16. CASE WebRequest
  BY <1>16 DEF WebRequest
<1>17. CASE WebWritten
  BY <1>17 DEF WebWritten
<1>18. CASE WebExits
  BY <1>18 DEF WebExits
<1>19. CASE CommandEnds
  BY <1>19 DEF CommandEnds
<1>20. CASE CommandFails
  BY <1>20 DEF CommandFails
<1>21. CASE CommandRetries
  BY <1>21 DEF CommandRetries
<1>22. CASE CommandLoopEnds
  BY <1>22 DEF CommandLoopEnds
<1>23. CASE Signal
  BY <1>23 DEF Signal, Promise!Next, Promise!Die
<1>24. CASE Crash
  BY <1>24 DEF Crash, Promise!Next, Promise!Die
<1>25. CASE Restart
  <2>1. PhaseOf \in {"down", "dead"} /\ PhaseOf' = "starting" /\ availability' = availability
    BY <1>25 DEF Restart, Running
  <2>2. reached' = FALSE
    BY <1>25, Zenon DEF Restart
  <2>3. Promise!Restart
    BY <2>1, <2>2, Zenon DEF Promise!Restart
  <2>4. QED
    BY <2>3 DEF Promise!Next
<1>26. CASE LinkLost
  BY <1>26 DEF LinkLost, Promise!Next, Promise!Lose
<1>27. ASSUME NEW d \in Devices, MainConnect(d) PROVE UNCHANGED Promise!vars
  BY <1>27 DEF MainConnect
<1>28. ASSUME NEW d \in Devices, MainClose(d) PROVE UNCHANGED Promise!vars
  BY <1>28 DEF MainClose
<1>29. ASSUME NEW s \in Slugs, CommandArrives(s) PROVE UNCHANGED Promise!vars
  BY <1>29 DEF CommandArrives
<1>30. ASSUME NEW l \in SideLoops, SideStep(l) PROVE UNCHANGED Promise!vars
  BY <1>30 DEF SideStep
<1>31. ASSUME NEW s \in Slugs, UserCommands(s) PROVE UNCHANGED Promise!vars
  BY <1>31 DEF UserCommands
<1>32. CASE UNCHANGED vars
  BY <1>32
<1>33. CASE WebAnswers
  BY <1>33 DEF WebAnswers
<1>34. CASE MainAnnounceRaises
  BY <1>34 DEF MainAnnounceRaises, Promise!Next, Promise!Die
<1>35. QED
  BY <1>1, <1>2, <1>3, <1>4, <1>5, <1>6, <1>7, <1>8, <1>9, <1>10, <1>11,
     <1>12, <1>13, <1>14, <1>15, <1>16, <1>17, <1>18, <1>19, <1>20, <1>21,
     <1>22, <1>23, <1>24, <1>25, <1>26, <1>27, <1>28, <1>29, <1>30, <1>31,
     <1>32, <1>33, <1>34
     DEF Next, MainStep, LoopStep, WebStep, CommandStep, Environment

(* The topic says online only while the add-on runs, and offline after an  *)
(* end in good order with the broker in reach, for every configuration.    *)
THEOREM AvailabilityImplemented == Spec => ImplementsAvailability
<1>1. QED
  BY InitOrder, StepOrder, InitReach, StepReach, InitPromise, StepPromise, PTL
     DEF Spec, ImplementsAvailability, Promise!Spec
=============================================================================
