----------------------------- MODULE Lifecycle ------------------------------
(***************************************************************************)
(* run() of main.py and the tasks it starts on one event loop: the         *)
(* evaluation loop, the PV-forecast and optimizer loops, the web server and *)
(* the MQTT command loop of mqtt_discovery.py, with the device connections *)
(* of sgr_service.py they share; start-up, shutdown, crash and restart.    *)
(*                                                                         *)
(* `using[t]' is the device whose driver task t is awaiting.  The broker   *)
(* keeps the retained `availability' when the add-on is gone.              *)
(***************************************************************************)
EXTENDS Integers, Sequences, FiniteSets

CONSTANTS
  None,
  Devices,       \* the enabled devices of the configuration
  Points,        \* their data points, in the order they are announced
  DeviceOf,      \* the device of a data point
  SlugOf,        \* its (device slug, data point slug), the key of its topics
  SideLoops,     \* the periodic loops that touch no device
  Attempts,      \* attempts SGrService._retry makes of one write
  Faults         \* which faults the environment may show, see FaultKinds

FaultKinds ==
  {"refused",  \* a device cannot be connected
   "driver",   \* a driver call fails
   "unit",     \* the unit of a data point cannot be read
   "nobroker", \* no broker at start-up
   "link",     \* the broker drops the connection
   "crash",    \* the process is killed
   "command"}  \* not a fault: Home Assistant sends commands

PointSet == {Points[i] : i \in 1..Len(Points)}
Slugs == {SlugOf[p] : p \in PointSet}

ASSUME LifecycleAssumption ==
  /\ None \notin Devices \cup PointSet \cup Slugs
  /\ DeviceOf \in [PointSet -> Devices] /\ Attempts \in Nat \ {0}
  /\ Faults \subseteq FaultKinds

VARIABLES
  main,          \* where run() is
  shutdown,      \* shutdown_event
  conn,          \* SGrService.devices: absent, connected, failed, closed
  link,          \* MqttBridge._client: none, up, lost
  lookup,        \* MqttBridge._dp_lookup
  loop, todo, published,     \* the evaluation loop and its publish_states
  side,          \* the side loops
  web,           \* the web server
  cmd, cmdPoint, tries,      \* the command loop and the write it handles
  using,         \* task -> the device it awaits, or None
  availability,  \* at the broker: the retained availability topic
  asked,         \* at the broker: slugs with a command nobody has handled
  reached        \* history: the broker was in reach since connect()

tasks == <<loop, todo, published, side, web, cmd, cmdPoint, tries, using>>
mqtt  == <<link, lookup, reached>>
topics == <<availability, asked>>
vars  == <<main, shutdown, conn, mqtt, tasks, topics>>

Tasks == {"loop", "web", "cmd"}
Connected == {d \in Devices : conn[d] = "connected"}
Live == {p \in PointSet : conn[DeviceOf[p]] = "connected"}
Uses(t, d) == using' = [using EXCEPT ![t] = d]
Online == IF link = "up" THEN "online" ELSE availability

-----------------------------------------------------------------------------
(* Start-up.                                                               *)

(* connect_all: a device that cannot be connected does not stop the rest.  *)
MainConnect(d) ==
  /\ main = "connect" /\ conn[d] = "absent"
  /\ \/ conn' = [conn EXCEPT ![d] = "connected"]
     \/ "refused" \in Faults /\ conn' = [conn EXCEPT ![d] = "failed"]
  /\ UNCHANGED <<main, shutdown, mqtt, tasks, topics>>

MainConnected ==
  /\ main = "connect" /\ \A d \in Devices : conn[d] # "absent"
  /\ main' = "mqtt"
  /\ UNCHANGED <<shutdown, conn, mqtt, tasks, topics>>

(* MqttBridge.connect, which is tried once.                                *)
MainMqtt ==
  /\ main = "mqtt"
  /\ \/ main' = "announce" /\ link' = "up" /\ reached' = TRUE
     \/ "nobroker" \in Faults /\ main' = "start" /\ UNCHANGED <<link, reached>>
  /\ UNCHANGED <<shutdown, conn, lookup, tasks, topics>>

(* announce_all: the data point announced last gets a shared slug.         *)
LastWith(s) ==
  LET I == {i \in 1..Len(Points) : SlugOf[Points[i]] = s /\ Points[i] \in Live}
  IN  IF I = {} THEN None ELSE Points[CHOOSE i \in I : \A j \in I : j <= i]
MainAnnounce ==
  /\ main = "announce"
  /\ lookup' = [s \in Slugs |-> LastWith(s)]
  /\ cmd' = "listen" /\ main' = "start"
  /\ UNCHANGED <<shutdown, conn, link, reached, loop, todo, published, side, web,
                 cmdPoint, tries, using, topics>>

(* unit() is read outside the try of announce_all, and run() outside any.  *)
MainAnnounceRaises ==
  /\ main = "announce" /\ "unit" \in Faults /\ Live # {}
  /\ main' = "dead"
  /\ UNCHANGED <<shutdown, conn, mqtt, tasks, topics>>

(* Signal handlers, web server and tasks; a loop that is not configured    *)
(* returns at once.                                                        *)
MainStart ==
  /\ main = "start"
  /\ loop' = "sleep" /\ web' = "serving" /\ main' = "running"
  /\ side' \in [SideLoops -> {"sleep", "end"}]
  /\ UNCHANGED <<shutdown, conn, mqtt, todo, published, cmd, cmdPoint, tries,
                 using, topics>>

(* SIGTERM: the handler sets the event; before it is installed, it kills.  *)
Signal ==
  /\ ~shutdown /\ main \notin {"ended", "dead"}
  /\ IF main \in {"connect", "mqtt", "announce", "start"}
     THEN main' = "dead" /\ Uses("cmd", None) /\ UNCHANGED shutdown
     ELSE shutdown' = TRUE /\ UNCHANGED <<main, using>>
  /\ UNCHANGED <<conn, mqtt, loop, todo, published, side, web, cmd, cmdPoint,
                 tries, topics>>

-----------------------------------------------------------------------------
(* The tasks.                                                              *)

Running == main \notin {"ended", "dead"}
Cancelled == main = "drain"    \* the loops have been cancelled

(* After evaluate(), whether it returned or raised: publish_states.        *)
AfterEvaluate ==
  /\ Uses("loop", None)
  /\ IF link = "none"
     THEN loop' = "sleep" /\ UNCHANGED <<todo, published>>
     ELSE loop' = "publish" /\ todo' = Live /\ published' = FALSE

(* The evaluation loop wakes and evaluates; or it finds the event set.     *)
LoopWakes ==
  /\ Running /\ ~Cancelled /\ loop = "sleep"
  /\ \/ shutdown /\ loop' = "end" /\ UNCHANGED <<todo, published, using>>
     \/ ~shutdown /\ AfterEvaluate
     \/ /\ ~shutdown /\ loop' = "evaluate"
        /\ \E d \in Connected : Uses("loop", d)
        /\ UNCHANGED <<todo, published>>
  /\ UNCHANGED <<main, shutdown, conn, mqtt, side, web, cmd, cmdPoint, tries, topics>>

(* The write the evaluation awaits is over: the next one, or the end.      *)
LoopWritten ==
  /\ Running /\ ~Cancelled /\ loop = "evaluate"
  /\ \/ AfterEvaluate
     \/ /\ \E d \in Connected : Uses("loop", d)
        /\ UNCHANGED <<loop, todo, published>>
  /\ UNCHANGED <<main, shutdown, conn, mqtt, side, web, cmd, cmdPoint, tries, topics>>

(* publish_states: a read is over, and its value published if there is one; *)
(* after the last point "online", if anything was published.               *)
LoopPublishes ==
  /\ Running /\ ~Cancelled /\ loop = "publish"
  /\ \E ok \in BOOLEAN :
       /\ ok => using["loop"] # None /\ link = "up"
       /\ ~ok => using["loop"] = None \/ link # "up" \/ "driver" \in Faults
       /\ published' = (published \/ ok)
  /\ IF todo # {}
     THEN /\ \E p \in todo : todo' = todo \ {p} /\ Uses("loop", DeviceOf[p])
          /\ UNCHANGED <<loop, availability>>
     ELSE /\ Uses("loop", None)
          /\ loop' = IF published' THEN "confirm" ELSE "sleep"
          /\ availability' = IF published' THEN Online ELSE availability
          /\ UNCHANGED todo
  /\ UNCHANGED <<main, shutdown, conn, mqtt, side, web, cmd, cmdPoint, tries, asked>>

LoopConfirmed ==
  /\ Running /\ ~Cancelled /\ loop = "confirm"
  /\ loop' = "sleep"
  /\ UNCHANGED <<main, shutdown, conn, mqtt, todo, published, side, web, cmd,
                 cmdPoint, tries, using, topics>>

(* eval_task.cancel(): CancelledError passes `except Exception'.           *)
LoopSwallowsCancel ==               \* mutant: `except BaseException' goes on
  /\ Cancelled /\ loop # "end"
  /\ loop' = "sleep" /\ Uses("loop", None)
  /\ UNCHANGED <<main, shutdown, conn, mqtt, todo, published, side, web, cmd,
                 cmdPoint, tries, topics>>
LoopCancelled ==
  /\ Cancelled /\ loop # "end"
  /\ loop' = "end" /\ Uses("loop", None)
  /\ UNCHANGED <<main, shutdown, conn, mqtt, todo, published, side, web, cmd,
                 cmdPoint, tries, topics>>

(* pv_forecast_loop and optimizer_loop: sleep, work, and end like the      *)
(* evaluation loop.                                                        *)
SideStep(l) ==
  /\ side[l] \notin {"off", "end"}
  /\ \/ /\ Running /\ ~Cancelled
        /\ side' = [side EXCEPT ![l] = IF @ = "work" THEN "sleep"
                                       ELSE IF shutdown THEN "end" ELSE "work"]
     \/ Cancelled /\ side' = [side EXCEPT ![l] = "end"]
  /\ UNCHANGED <<main, shutdown, conn, mqtt, loop, todo, published, web, cmd,
                 cmdPoint, tries, using, topics>>

(* The web server: POST /api/evaluate awaits writes of its own.  Uvicorn   *)
(* looks at should_exit between its ticks: until it sees what run() sets   *)
(* it accepts requests, then it ends when the last one is answered.        *)
WebRequest ==
  /\ Running /\ web = "serving"
  /\ web' = "evaluate" /\ \E d \in Connected : Uses("web", d)
  /\ UNCHANGED <<main, shutdown, conn, mqtt, loop, todo, published, side, cmd,
                 cmdPoint, tries, topics>>
WebWritten ==
  /\ Running /\ web \in {"evaluate", "last"}
  /\ \E d \in Connected : Uses("web", d)
  /\ UNCHANGED <<main, shutdown, conn, mqtt, loop, todo, published, side, web, cmd,
                 cmdPoint, tries, topics>>
WebAnswers ==
  /\ Running /\ web \in {"evaluate", "last"}
  /\ web' = (IF web = "last" THEN "closed" ELSE "serving") /\ Uses("web", None)
  /\ UNCHANGED <<main, shutdown, conn, mqtt, loop, todo, published, side, cmd,
                 cmdPoint, tries, topics>>
WebExits ==
  /\ main \in {"drain", "web"} /\ web \in {"serving", "evaluate"}
  /\ web' = (IF web = "evaluate" THEN "last" ELSE "closed")
  /\ UNCHANGED <<main, shutdown, conn, mqtt, loop, todo, published, side, cmd,
                 cmdPoint, tries, using, topics>>

(* A command reaches the command loop: an unknown slug, a device that is   *)
(* not connected and a payload that cannot be cast are dropped.            *)
CommandArrives(s) ==
  /\ Running /\ cmd = "listen" /\ link = "up" /\ s \in asked
  /\ asked' = asked \ {s}
  /\ \/ /\ lookup[s] \in Live
        /\ cmd' = "write" /\ cmdPoint' = lookup[s] /\ tries' = 1
        /\ Uses("cmd", DeviceOf[lookup[s]])
     \/ UNCHANGED <<cmd, cmdPoint, tries, using>>
  /\ UNCHANGED <<main, shutdown, conn, mqtt, loop, todo, published, side, web,
                 availability>>

(* The attempt succeeds, or it was the last: the next message.             *)
CommandEnds ==
  /\ Running /\ cmd = "write"
  /\ cmd' = "listen" /\ cmdPoint' = None /\ tries' = 0 /\ Uses("cmd", None)
  /\ UNCHANGED <<main, shutdown, conn, mqtt, loop, todo, published, side, web, topics>>

(* The attempt fails: _retry sleeps, then calls the driver again.          *)
CommandFailsAgain ==                \* mutant: attempts are not counted against retries
  /\ Running /\ cmd = "write" /\ "driver" \in Faults
  /\ cmd' = "backoff" /\ Uses("cmd", None)
  /\ UNCHANGED <<main, shutdown, conn, mqtt, loop, todo, published, side, web,
                 cmdPoint, tries, topics>>
CommandFails ==
  /\ Running /\ cmd = "write" /\ tries < Attempts /\ "driver" \in Faults
  /\ cmd' = "backoff" /\ Uses("cmd", None)
  /\ UNCHANGED <<main, shutdown, conn, mqtt, loop, todo, published, side, web,
                 cmdPoint, tries, topics>>
CommandRetries ==
  /\ Running /\ cmd = "backoff"
  /\ cmd' = "write" /\ tries' = tries + 1 /\ Uses("cmd", DeviceOf[cmdPoint])
  /\ UNCHANGED <<main, shutdown, conn, mqtt, loop, todo, published, side, web,
                 cmdPoint, topics>>

(* Without its client the message iterator raises and the loop ends.       *)
CommandLoopEnds ==
  /\ Running /\ cmd = "listen" /\ link # "up"
  /\ cmd' = "end"
  /\ UNCHANGED <<main, shutdown, conn, mqtt, loop, todo, published, side, web,
                 cmdPoint, tries, using, topics>>

-----------------------------------------------------------------------------
(* Shutdown.                                                               *)

MainDrain ==
  /\ main = "running" /\ shutdown
  /\ main' = "drain"
  /\ UNCHANGED <<shutdown, conn, mqtt, tasks, topics>>

MainDrained ==
  /\ main = "drain" /\ loop = "end" /\ \A l \in SideLoops : side[l] = "end"
  /\ main' = "web"
  /\ UNCHANGED <<shutdown, conn, mqtt, tasks, topics>>

MainWebUnawaited ==                 \* mutant: web_task is not awaited
  /\ main = "web"
  /\ main' = "goodbye"
  /\ UNCHANGED <<shutdown, conn, mqtt, tasks, topics>>
MainWeb ==
  /\ main = "web" /\ web = "closed"
  /\ main' = "goodbye"
  /\ UNCHANGED <<shutdown, conn, mqtt, tasks, topics>>

(* publish_offline, whose failure is swallowed, and disconnect.            *)
MainGoodbyeSilent ==                \* mutant: disconnect before publish_offline
  /\ main = "goodbye"
  /\ main' = "devices" /\ link' = "none"
  /\ UNCHANGED <<shutdown, conn, lookup, reached, tasks, topics>>
MainGoodbye ==
  /\ main = "goodbye"
  /\ availability' = IF link = "up" THEN "offline" ELSE availability
  /\ main' = IF link = "none" THEN "devices" ELSE "disconnect"
  /\ UNCHANGED <<shutdown, conn, mqtt, tasks, asked>>

MainDisconnect ==
  /\ main = "disconnect"
  /\ main' = "devices" /\ link' = "none"
  /\ UNCHANGED <<shutdown, conn, lookup, reached, tasks, topics>>

(* disconnect_all, device after device.                                    *)
MainClose(d) ==
  /\ main = "devices" /\ conn[d] = "connected"
  /\ conn' = [conn EXCEPT ![d] = "closed"]
  /\ UNCHANGED <<main, shutdown, mqtt, tasks, topics>>

(* run() returns and asyncio.run cancels what is left: the command loop.   *)
MainEnd ==
  /\ main = "devices" /\ Connected = {}
  /\ main' = "ended" /\ cmd' = "end" /\ Uses("cmd", None)
  /\ UNCHANGED <<shutdown, conn, mqtt, loop, todo, published, side, web, cmdPoint,
                 tries, topics>>

-----------------------------------------------------------------------------
(* The environment.                                                        *)

Crash ==
  /\ "crash" \in Faults /\ Running
  /\ main' = "dead" /\ using' = [t \in Tasks |-> None]
  /\ UNCHANGED <<shutdown, conn, mqtt, loop, todo, published, side, web, cmd,
                 cmdPoint, tries, topics>>

(* The supervisor starts the add-on again: only the broker remembers.      *)
Restart ==
  /\ ~Running
  /\ main' = "connect" /\ shutdown' = FALSE
  /\ conn' = [d \in Devices |-> "absent"]
  /\ link' = "none" /\ lookup' = [s \in Slugs |-> None] /\ reached' = FALSE
  /\ loop' = "off" /\ todo' = {} /\ published' = FALSE
  /\ side' = [l \in SideLoops |-> "off"]
  /\ web' = "off" /\ cmd' = "off" /\ cmdPoint' = None /\ tries' = 0
  /\ using' = [t \in Tasks |-> None]
  /\ asked' = {}
  /\ UNCHANGED availability

LinkLost ==
  /\ "link" \in Faults /\ link = "up" /\ Running
  /\ link' = "lost" /\ reached' = FALSE
  /\ UNCHANGED <<main, shutdown, conn, lookup, tasks, topics>>

(* A user sets the entity of a data point Home Assistant shows available.  *)
UserCommands(s) ==
  /\ "command" \in Faults /\ availability = "online" /\ main = "running"
  /\ lookup[s] # None /\ s \notin asked
  /\ asked' = asked \cup {s}
  /\ UNCHANGED <<main, shutdown, conn, mqtt, tasks, availability>>

-----------------------------------------------------------------------------
Init ==
  /\ main = "connect" /\ shutdown = FALSE
  /\ conn = [d \in Devices |-> "absent"]
  /\ link = "none" /\ lookup = [s \in Slugs |-> None] /\ reached = FALSE
  /\ loop = "off" /\ todo = {} /\ published = FALSE
  /\ side = [l \in SideLoops |-> "off"]
  /\ web = "off" /\ cmd = "off" /\ cmdPoint = None /\ tries = 0
  /\ using = [t \in Tasks |-> None]
  /\ availability = "none" /\ asked = {}

MainStep ==
  \/ \E d \in Devices : MainConnect(d) \/ MainClose(d)
  \/ MainConnected \/ MainMqtt \/ MainAnnounce \/ MainAnnounceRaises \/ MainStart
  \/ MainDrain \/ MainDrained \/ MainWeb \/ MainGoodbye \/ MainDisconnect \/ MainEnd
LoopStep == LoopWakes \/ LoopWritten \/ LoopPublishes \/ LoopConfirmed \/ LoopCancelled
WebStep == WebRequest \/ WebWritten \/ WebAnswers \/ WebExits
CommandStep ==
  \/ \E s \in Slugs : CommandArrives(s)
  \/ CommandEnds \/ CommandFails \/ CommandRetries \/ CommandLoopEnds
Environment ==
  \/ Signal \/ Crash \/ Restart \/ LinkLost \/ \E s \in Slugs : UserCommands(s)

Next ==
  \/ MainStep \/ LoopStep \/ WebStep \/ CommandStep
  \/ \E l \in SideLoops : SideStep(l)
  \/ Environment

Spec == Init /\ [][Next]_vars

(* Every task whose await is over runs; a driver call, a sleep and a       *)
(* request come to an end.                                                 *)
FairSpec ==
  /\ Spec
  /\ WF_vars(MainStep) /\ WF_vars(LoopStep)
  /\ \A l \in SideLoops : WF_vars(SideStep(l))
  /\ WF_vars(WebExits) /\ WF_vars(WebAnswers)
  /\ \A s \in Slugs : WF_vars(CommandArrives(s))
  /\ SF_vars(CommandEnds) /\ WF_vars(CommandRetries) /\ WF_vars(CommandLoopEnds)

-----------------------------------------------------------------------------
(* Properties.                                                             *)

(* The types of the variables.                                             *)
TypeOK ==
  /\ main \in {"connect", "mqtt", "announce", "start", "running", "drain", "web",
               "goodbye", "disconnect", "devices", "ended", "dead"}
  /\ shutdown \in BOOLEAN /\ published \in BOOLEAN /\ reached \in BOOLEAN
  /\ conn \in [Devices -> {"absent", "connected", "failed", "closed"}]
  /\ link \in {"none", "up", "lost"} /\ lookup \in [Slugs -> PointSet \cup {None}]
  /\ loop \in {"off", "sleep", "evaluate", "publish", "confirm", "end"}
  /\ todo \subseteq PointSet
  /\ side \in [SideLoops -> {"off", "sleep", "work", "end"}]
  /\ web \in {"off", "serving", "evaluate", "last", "closed"}
  /\ cmd \in {"off", "listen", "write", "backoff", "end"}
  /\ cmdPoint \in PointSet \cup {None} /\ tries \in 0..Attempts
  /\ using \in [Tasks -> Devices \cup {None}]
  /\ availability \in {"none", "online", "offline"} /\ asked \subseteq Slugs

(* The shutdown order of run(): no evaluation, no publication and no web   *)
(* request is still calling a driver when disconnect_all closes its device.*)
LoopsStopBeforeDevices ==
  \A t \in {"loop", "web"} : using[t] # None => conn[using[t]] = "connected"

(* SGrService's life cycle: no driver is called after its disconnection.   *)
NoCallAfterDisconnect ==
  \A t \in Tasks : using[t] # None => conn[using[t]] = "connected"

(* Every data point of every connected device has an entity of its own.    *)
EveryPointIsExposed ==
  main = "running" /\ link # "none" => \A p \in Live : lookup[SlugOf[p]] = p

(* A command for an entity Home Assistant shows available reaches the      *)
(* command loop as long as the add-on runs.                                *)
CommandsAreServed ==
  \A s \in Slugs : s \in asked ~> s \notin asked \/ main # "running"

(* A shutdown signal ends the process: every loop can be cancelled, the    *)
(* web server drains, and no step of the shutdown waits for another.       *)
ShutdownCompletes == shutdown ~> ~Running

(* The abstract promise of the availability topic, see Availability.       *)
PhaseOf ==
  CASE main \in {"connect", "mqtt", "announce", "start"} -> "starting"
    [] main = "running" -> "running"
    [] main = "ended" -> "down"
    [] main = "dead" -> "dead"
    [] OTHER -> "stopping"
Promise == INSTANCE Availability WITH phase <- PhaseOf, status <- availability
ImplementsAvailability == Promise!Spec
=============================================================================
