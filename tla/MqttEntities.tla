---------------------------- MODULE MqttEntities ----------------------------
(***************************************************************************)
(* mqtt_discovery.py from a data point to its entity in Home Assistant and *)
(* back: announce_all, publish_states and _handle_command, whose awaits    *)
(* interleave, over sessions in which the description of a device may have *)
(* changed.  The broker keeps what is retained; Lifecycle has the tasks.   *)
(*                                                                         *)
(* Numbers are in tenths; a text that is no number is a model value.  A    *)
(* driver returns numbers, Yes, No, texts, or None.                        *)
(***************************************************************************)
EXTENDS Integers, Sequences, FiniteSets

CONSTANTS
  None, Yes, No,
  OnText, OffText, Empty,  \* payloads
  Literals,      \* other payloads
  Numbers,       \* numbers a user may enter
  Points,        \* the data points, in the order they are announced
  SlugOf,        \* the key of their topics
  Declares,      \* per session, point -> [writable, type, low, high, step, options]
  Values,        \* per session, point -> what its driver may return
  Scripted,      \* payloads an automation sends to any command topic
  Faults         \* which faults the environment may show, see FaultKinds

FaultKinds ==
  {"direction",  \* direction() or data_type() raises while announcing
   "unit",       \* unit() raises while announcing, which ends the process
   "read", "write", "publish",  \* such a call fails
   "kill"}       \* the process ends without a goodbye

PointSet == {Points[i] : i \in DOMAIN Points}
Slugs == {SlugOf[p] : p \in PointSet}
Types == {"BOOLEAN", "INT", "FLOAT", "ENUM", "STRING", "OTHER"}
Payloads == {OnText, OffText, Empty} \cup Literals \cup Numbers
Read == {None, Yes, No} \cup Payloads

(* A driver returns Yes and No for a BOOLEAN only.                         *)
Marks == {None, Yes, No, OnText, OffText, Empty}
ASSUME MqttAssumption ==
  /\ Numbers \subseteq Int /\ Marks \cap (Literals \cup Int) = {}
  /\ None \notin {Yes, No} \cup Payloads /\ {Yes, No} \cap Payloads = {}
  /\ Yes # No /\ OnText # OffText
  /\ 1 \in DOMAIN Declares /\ DOMAIN Declares \subseteq Nat \ {0}
  /\ \A s \in DOMAIN Declares : \A p \in PointSet :
       LET d == Declares[s][p]
       IN  /\ d.type \in Types /\ d.options \subseteq Literals
           /\ d.writable \in BOOLEAN /\ {d.low, d.high, d.step} \subseteq Int \cup {None}
           /\ Values[s][p] \subseteq IF d.type = "BOOLEAN" THEN Read ELSE Read \ {Yes, No}
  /\ Points \in Seq(PointSet) /\ None \notin [point : PointSet, value : Read \cup Int]
  /\ Scripted \subseteq Payloads /\ Faults \subseteq FaultKinds

VARIABLES
  phase,         \* of the session: down, announce, idle, publish
  session,       \* which description is in use
  value,         \* the devices: point -> its value
  todo, job,     \* of announce_all and publish_states: the points to come, and
                 \* the point and value whose publication is awaited, or None
  lookup,        \* _dp_lookup: slug -> point
  discovery, shown, availability,  \* retained: configurations, states, status
  inbox, cmd,    \* a command on its way, and the write it became, or None
  recent,        \* history: for a point the last cycle published, the values it
                 \* has had since it was read, for any other {}
  fresh          \* history: the same of the cycle under way; with anything in
                 \* it, the count of publish_states is not 0

broker == <<discovery, shown, availability>>
history == <<recent, fresh>>
vars == <<phase, session, value, todo, job, lookup, broker, inbox, cmd, history>>

Declared(p) == Declares[session][p]

-----------------------------------------------------------------------------
(* Components and conversions.                                             *)

HaComponent(d) ==
  CASE d.writable /\ d.type = "ENUM" -> "select"
    [] d.writable /\ d.type = "BOOLEAN" -> "switch"
    [] d.writable /\ d.type \in {"INT", "FLOAT"} -> "number"
    [] d.writable /\ d.type = "STRING" -> "text"
    [] ~d.writable /\ d.type = "BOOLEAN" -> "binary_sensor"
    [] OTHER -> "sensor"

FormatRaw(v, type) == v                            \* mutant: no ON and OFF
FormatState(v, type) ==
  IF v = None THEN Empty
  ELSE IF type = "BOOLEAN" THEN IF v \in {No, 0, Empty} THEN OffText ELSE OnText
  ELSE v

CastTruthy(payload, type) ==                       \* mutant: bool(payload)
  IF type = "BOOLEAN" THEN IF payload = Empty THEN No ELSE Yes ELSE payload
Toward0(x) == IF x >= 0 THEN 10 * (x \div 10) ELSE -(10 * ((-x) \div 10))
CanCast(payload, type) == type \in {"INT", "FLOAT"} => payload \in Numbers
CastCommand(payload, type) ==
  CASE type = "BOOLEAN" -> IF payload \in {OnText, 10} THEN Yes ELSE No
    [] type = "INT" -> Toward0(payload)
    [] OTHER -> payload

UnlessZero(d) ==                                   \* mutant: `if mn:'
  [low |-> IF d.low = 0 THEN None ELSE d.low, high |-> IF d.high = 0 THEN None ELSE d.high]
NumericBounds(d) == [low |-> d.low, high |-> d.high]
StepOf(d) == IF d.step # None /\ d.step > 0 THEN d.step ELSE IF d.type = "INT" THEN 10 ELSE 1

(* The configuration of an entity; a select without options is a text.     *)
Config(p) ==
  LET d == Declared(p)
      component == HaComponent(d)
  IN  [component |-> IF component = "select" /\ d.options = {} THEN "text" ELSE component,
       slug |-> SlugOf[p], session |-> session,
       bounds |-> IF component = "number" THEN NumericBounds(d) ELSE None,
       step |-> IF component = "number" THEN StepOf(d) ELSE None,
       options |-> IF component = "select" THEN d.options ELSE {}]
Commands(c) == c.component \in {"number", "switch", "select", "text"}

-----------------------------------------------------------------------------
(* announce_all: a configuration that cannot be published is not retried.  *)
Skipped == "direction" \in Faults /\ UNCHANGED <<lookup, discovery>>
Announced(p) ==
  /\ lookup' = [lookup EXCEPT ![SlugOf[p]] = p]
  /\ \/ discovery' = {c \in discovery : <<c.component, c.slug>> #
                        <<Config(p).component, SlugOf[p]>>} \cup {Config(p)}
     \/ "publish" \in Faults /\ UNCHANGED discovery

Announces ==
  /\ phase = "announce" /\ todo # <<>>
  /\ Skipped \/ Announced(Head(todo))
  /\ todo' = Tail(todo) /\ phase' = IF Len(todo) = 1 THEN "idle" ELSE phase
  /\ UNCHANGED <<session, value, job, shown, availability, inbox, cmd, history>>

(* publish_states, once per evaluation.                                    *)
BeginCycle ==
  /\ phase = "idle" /\ phase' = "publish" /\ todo' = Points
  /\ UNCHANGED <<session, value, job, lookup, broker, inbox, cmd, history>>

Reads ==
  /\ phase = "publish" /\ todo # <<>> /\ job = None
  /\ \/ /\ job' = [point |-> Head(todo), value |-> value[Head(todo)]]
        /\ fresh' = [fresh EXCEPT ![Head(todo)] = {value[Head(todo)]}]
        /\ UNCHANGED todo
     \/ "read" \in Faults /\ todo' = Tail(todo) /\ UNCHANGED <<job, fresh>>
  /\ UNCHANGED <<phase, session, value, lookup, broker, inbox, cmd, recent>>

Publication == FormatState(job.value, Declared(job.point).type)
PublishesFirst ==                   \* mutant: only what has no state yet
  /\ job # None /\ todo' = Tail(todo) /\ job' = None
  /\ shown' = [shown EXCEPT ![SlugOf[job.point]] = IF @ = None THEN Publication ELSE @]
  /\ UNCHANGED <<phase, session, value, lookup, discovery, availability, inbox, cmd,
                 history>>
Publishes ==
  /\ job # None /\ todo' = Tail(todo) /\ job' = None
  /\ \/ shown' = [shown EXCEPT ![SlugOf[job.point]] = Publication] /\ UNCHANGED fresh
     \/ /\ "publish" \in Faults /\ UNCHANGED shown
        /\ fresh' = [fresh EXCEPT ![job.point] = {}]
  /\ UNCHANGED <<phase, session, value, lookup, discovery, availability, inbox, cmd,
                 recent>>

EndCycle ==
  /\ phase = "publish" /\ todo = <<>> /\ phase' = "idle"
  /\ \/ availability' = IF \E p \in PointSet : fresh[p] # {} THEN "online" ELSE availability
     \/ "publish" \in Faults /\ UNCHANGED availability
  /\ recent' = fresh /\ fresh' = [p \in PointSet |-> {}]
  /\ UNCHANGED <<session, value, todo, job, lookup, discovery, shown, inbox, cmd>>

-----------------------------------------------------------------------------
(* _handle_command: neither the component nor the direction is looked at.  *)
CommandArrives ==
  /\ phase \in {"idle", "publish"} /\ inbox # None /\ cmd = None /\ inbox' = None
  /\ LET p == lookup[inbox.slug]
     IN  IF p # None /\ CanCast(inbox.payload, Declared(p).type)
         THEN cmd' = [point |-> p, value |-> CastCommand(inbox.payload, Declared(p).type),
                      asked |-> inbox.payload, by |-> inbox.by]
         ELSE UNCHANGED cmd
  /\ UNCHANGED <<phase, session, value, todo, job, lookup, broker, history>>

Becomes(p, v) ==
  /\ value' = [value EXCEPT ![p] = v]
  /\ recent' = [recent EXCEPT ![p] = IF @ = {} THEN {} ELSE @ \cup {v}]
  /\ fresh' = [fresh EXCEPT ![p] = IF @ = {} THEN {} ELSE @ \cup {v}]

(* The device takes the value, or not.                                     *)
CommandLands ==
  /\ cmd # None /\ cmd' = None
  /\ \/ Becomes(cmd.point, cmd.value)
     \/ "write" \in Faults /\ UNCHANGED <<value, history>>
  /\ UNCHANGED <<phase, session, todo, job, lookup, broker, inbox>>

-----------------------------------------------------------------------------
(* Sessions: the devices may have got another description in between.      *)
Starts ==
  /\ phase = "down" /\ phase' = "announce" /\ todo' = Points
  /\ session' \in session..(session + 1) /\ session' \in DOMAIN Declares
  /\ value' \in {f \in [PointSet -> Read] : \A p \in PointSet : f[p] \in Values[session'][p]}
  /\ UNCHANGED <<job, lookup, broker, inbox, cmd, history>>

Ends ==
  /\ phase # "down" /\ phase' = "down"
  /\ \/ availability' = "offline" /\ phase # "announce"
     \/ "kill" \in Faults /\ UNCHANGED availability
     \/ "unit" \in Faults /\ phase = "announce" /\ UNCHANGED availability
  /\ todo' = <<>> /\ job' = None /\ lookup' = [s \in Slugs |-> None]
  /\ inbox' = None /\ cmd' = None
  /\ fresh' = [p \in PointSet |-> {}] /\ recent' = fresh'
  /\ UNCHANGED <<session, value, discovery, shown>>

(* The device.                                                             *)
Moves ==
  /\ phase \in {"idle", "publish"}
  /\ \E p \in PointSet : \E v \in Values[session][p] \ {value[p]} : Becomes(p, v)
  /\ UNCHANGED <<phase, session, todo, job, lookup, broker, inbox, cmd>>

(* Home Assistant: what an entity lets its user send.  A number has the    *)
(* limits 1 and 100 where its configuration gives none.                    *)
Offers(c) ==
  CASE c.component = "switch" -> {OnText, OffText}
    [] c.component = "select" -> c.options
    [] c.component = "text" -> Literals
    [] c.component = "number" ->
         LET low == IF c.bounds.low = None THEN 10 ELSE c.bounds.low
             high == IF c.bounds.high = None THEN 1000 ELSE c.bounds.high
         IN  {x \in Numbers : low <= x /\ x <= high /\ (x - low) % c.step = 0}

UserCommands ==                     \* bound: one command at a time
  /\ inbox = None /\ cmd = None /\ phase # "down"
  /\ \/ /\ availability = "online"
        /\ \E c \in discovery : Commands(c) /\ \E x \in Offers(c) :
             inbox' = [slug |-> c.slug, payload |-> x, by |-> c.session]
     \/ \E s \in Slugs, x \in Scripted : inbox' = [slug |-> s, payload |-> x, by |-> 0]
  /\ UNCHANGED <<phase, session, value, todo, job, lookup, broker, cmd, history>>

Init ==
  /\ phase = "down" /\ session = 1 /\ value = [p \in PointSet |-> None]
  /\ todo = <<>> /\ job = None /\ lookup = [s \in Slugs |-> None]
  /\ discovery = {} /\ shown = [s \in Slugs |-> None] /\ availability = "offline"
  /\ inbox = None /\ cmd = None
  /\ recent = [p \in PointSet |-> {}] /\ fresh = [p \in PointSet |-> {}]

Next ==
  \/ Starts \/ Ends \/ Announces
  \/ BeginCycle \/ Reads \/ Publishes \/ EndCycle
  \/ CommandArrives \/ CommandLands
  \/ Moves \/ UserCommands

Spec == Init /\ [][Next]_vars

-----------------------------------------------------------------------------
(* Properties.                                                             *)

(* Types; what is retained are payloads, and no task works while down.     *)
TypeOK ==
  /\ phase \in {"down", "announce", "idle", "publish"} /\ session \in DOMAIN Declares
  /\ value \in [PointSet -> Read \cup Int] /\ lookup \in [Slugs -> PointSet \cup {None}]
  /\ shown \in [Slugs -> Payloads \cup Int \cup {None}] /\ availability \in {"online", "offline"}
  /\ {c.slug : c \in discovery} \subseteq Slugs
  /\ job # None => phase = "publish" /\ job.value \in Read \cup Int
  /\ phase = "down" => inbox = None /\ cmd = None

(* A topic of its own, and the entity of this session commands it.         *)
Alone(p) == \A q \in PointSet : SlugOf[q] = SlugOf[p] => q = p
Meant == cmd # None /\ cmd.by = session /\ Alone(cmd.point)

(* What a user asks of an entity of this session is what is written: the   *)
(* state that would be published of it reads as what was asked, as long as *)
(* the steps an integer is offered in are whole numbers.                   *)
Whole(x) == x # None => x % 10 = 0
WholeSteps(d) == d.type = "INT" => Whole(d.low) /\ Whole(StepOf(d))
AskedIsWritten ==
  Meant /\ WholeSteps(Declared(cmd.point)) =>
    FormatState(cmd.value, Declared(cmd.point).type) = cmd.asked

(* ... and the description allows it: the point is writable, the number    *)
(* within its limits, those of an integer being whole, and the text one of *)
(* its options where it names some.                                        *)
WholeLimits(d) == d.type = "INT" => Whole(d.low) /\ Whole(d.high)
WrittenIsDeclared ==
  Meant =>
    LET d == Declared(cmd.point)
    IN  /\ d.writable
        /\ d.type \in {"INT", "FLOAT"} /\ WholeLimits(d) =>
             /\ d.low # None => cmd.value >= d.low
             /\ d.high # None => cmd.value <= d.high
        /\ d.type = "ENUM" /\ d.options # {} => cmd.value \in d.options

(* The state of a point that the last cycle published is that of a value   *)
(* the device has had since the cycle read it, whatever commands and the   *)
(* device did between the reading and its publication.                     *)
ShownIsRecent ==
  \A p \in PointSet : Alone(p) /\ recent[p] # {} =>
    shown[SlugOf[p]] \in {FormatState(v, Declared(p).type) : v \in recent[p]}

(* The claim of mqtt_discovery.py, a data point is updated once per cycle: *)
(* with the add-on available, its state is at most that old.               *)
AllAreRecent ==
  availability = "online" /\ phase = "idle" =>
    \A p \in PointSet : Alone(p) /\ shown[SlugOf[p]] # None =>
      shown[SlugOf[p]] \in {FormatState(v, Declared(p).type) : v \in recent[p]}

(* The claim of mqtt_discovery.py, the mapping respects the semantics of   *)
(* the EID: what has no writable declaration cannot be commanded, ...      *)
OnlyWritableIsWritten == cmd # None => Declared(cmd.point).writable
(* ... an entity that is there is that of the description in use.          *)
EntitiesAreDeclared ==
  phase = "idle" => \A c \in discovery :
    \E p \in PointSet : SlugOf[p] = c.slug /\ Config(p) = c
(* An integer with fractional steps is written as it was asked.            *)
FractionsAreWritten ==
  Meant => FormatState(cmd.value, Declared(cmd.point).type) = cmd.asked
=============================================================================
