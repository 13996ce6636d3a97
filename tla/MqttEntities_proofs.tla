------------------------ MODULE MqttEntities_proofs -------------------------
(* Theorems about MqttEntities, for all data points, descriptions and      *)
(* faults, any number of sessions, and commands at every await.            *)
EXTENDS MqttEntities, TLAPS

(* The variables that hold something for each point or topic.              *)
Functions ==
  /\ value = [p \in PointSet |-> value[p]]
  /\ shown = [s \in Slugs |-> shown[s]]
  /\ recent = [p \in PointSet |-> recent[p]]
  /\ fresh = [p \in PointSet |-> fresh[p]]

(* What a user may send are payloads, what a device may have is read or    *)
(* cast from one.                                                          *)
Seen == Read \cup Int
TypeInv ==
  /\ session \in DOMAIN Declares
  /\ value \in [PointSet -> Seen]
  /\ \A c \in discovery : c.slug \in Slugs /\ c.options \subseteq Literals
  /\ inbox # None => inbox.slug \in Slugs /\ inbox.payload \in Payloads
  /\ cmd # None => cmd.value \in Seen

(* What announce_all and publish_states go through, and what a command     *)
(* names, are points; nothing is under way while the add-on is down.       *)
TaskInv ==
  /\ todo \in Seq(PointSet)
  /\ lookup \in [Slugs -> PointSet \cup {None}]
  /\ cmd # None => cmd.point \in PointSet
  /\ phase = "down" => /\ job = None /\ cmd = None
                       /\ \A p \in PointSet : recent[p] = {} /\ fresh[p] = {}

(* The value whose publication is awaited is one of those since it was     *)
(* read, by the count of this cycle and by that of the last.               *)
JobInv ==
  job # None =>
    /\ phase = "publish" /\ job.point \in PointSet /\ todo # <<>>
    /\ job.value \in fresh[job.point]
    /\ recent[job.point] # {} => job.value \in recent[job.point]

(* What a point has now is one of the values it has had.                   *)
ValueInv ==
  \A p \in PointSet :
    /\ recent[p] # {} => value[p] \in recent[p]
    /\ fresh[p] # {} => value[p] \in fresh[p]

(* What this cycle has published so far is as recent.                      *)
Fits(p, values) ==
  shown[SlugOf[p]] \in {FormatState(v, Declared(p).type) : v \in values}
FreshInv ==
  \A p \in PointSet :
    Alone(p) /\ fresh[p] # {} /\ (job = None \/ job.point # p) => Fits(p, fresh[p])
RecentInv ==
  \A p \in PointSet : Alone(p) /\ recent[p] # {} => Fits(p, recent[p])

MqttInv == Functions /\ TypeInv /\ TaskInv /\ JobInv /\ ValueInv /\ FreshInv /\ RecentInv

(* Every point has a topic.                                                *)
LEMMA SlugsOfPoints == \A p \in PointSet : SlugOf[p] \in Slugs
  BY DEF Slugs

(* Nothing is published at first.                                          *)
LEMMA InitMqtt == Init => MqttInv
<1> SUFFICES ASSUME Init PROVE MqttInv
  OBVIOUS
<1>1. /\ value = [p \in PointSet |-> None] /\ shown = [s \in Slugs |-> None]
      /\ recent = [p \in PointSet |-> {}] /\ fresh = [p \in PointSet |-> {}]
      /\ lookup = [s \in Slugs |-> None] /\ todo = <<>> /\ job = None /\ cmd = None
      /\ inbox = None /\ discovery = {} /\ session = 1
  BY DEF Init
<1>2. TypeInv
  BY <1>1, MqttAssumption DEF TypeInv, Seen, Read
<1>3. QED
  BY <1>1, <1>2 DEF MqttInv, Functions, TaskInv, JobInv, ValueInv, FreshInv, RecentInv

(* A step that neither reads nor publishes nor writes keeps the invariant. *)
LEMMA QuietKeeps ==
  ASSUME MqttInv, UNCHANGED <<session, value, job, shown, recent, fresh>>,
         TypeInv', phase # "down", phase' # "down",
         todo' \in Seq(PointSet), lookup' \in [Slugs -> PointSet \cup {None}],
         cmd' # None => cmd'.point \in PointSet,
         job # None => phase' = "publish" /\ todo' # <<>>
  PROVE  MqttInv'
<1>1. Functions' /\ TaskInv'
  BY DEF MqttInv, Functions, TaskInv
<1>2. JobInv' /\ ValueInv'
  BY DEF MqttInv, JobInv, ValueInv
<1>3. FreshInv' /\ RecentInv'
  BY DEF MqttInv, FreshInv, RecentInv, Fits, Declared
<1>4. QED
  BY <1>1, <1>2, <1>3 DEF MqttInv

(* What an entity lets its user send are payloads ...                      *)
LEMMA OffersType ==
  ASSUME TypeInv, NEW c \in discovery, Commands(c)
  PROVE  Offers(c) \subseteq Payloads
  BY DEF TypeInv, Commands, Offers, Payloads

(* ... and what they are cast to is a value a device may have.             *)
LEMMA CastType ==
  ASSUME NEW x \in Payloads, NEW type, CanCast(x, type)
  PROVE  CastCommand(x, type) \in Seen
<1>1. CASE type = "INT"
  <2>1. x \in Int
    BY <1>1, MqttAssumption DEF CanCast
  <2>2. QED
    BY <1>1, <2>1 DEF CastCommand, Toward0, Seen
<1>2. CASE type # "INT"
  BY <1>2 DEF CastCommand, Seen, Read
<1>3. QED
  BY <1>1, <1>2

(* A configuration names the options of the description, or none.          *)
LEMMA ConfigType ==
  ASSUME TypeInv, NEW p \in PointSet
  PROVE  Config(p).slug = SlugOf[p] /\ Config(p).options \subseteq Literals
<1>1. Declares[session][p].options \subseteq Literals
  BY MqttAssumption DEF TypeInv
<1>2. QED
  BY <1>1 DEF Config, Declared

(* The values a point has had go on with those it gets.                    *)
LEMMA BecomesKeeps ==
  ASSUME MqttInv, NEW p \in PointSet, NEW v, Becomes(p, v),
         UNCHANGED <<phase, session, todo, job, lookup, broker>>,
         TypeInv', cmd' # None => cmd'.point \in PointSet, phase # "down"
  PROVE  MqttInv'
<1> USE DEF MqttInv, Becomes, broker
<1>1. Functions'
  BY DEF Functions
<1>2. \A q \in PointSet :
        /\ value'[q] = IF q = p THEN v ELSE value[q]
        /\ recent'[q] = IF q = p /\ recent[p] # {} THEN recent[p] \cup {v} ELSE recent[q]
        /\ fresh'[q] = IF q = p /\ fresh[p] # {} THEN fresh[p] \cup {v} ELSE fresh[q]
  BY DEF Functions
<1>3. TaskInv'
  BY DEF TaskInv
<1>4. JobInv'
  BY <1>2 DEF JobInv
<1>5. ValueInv'
  BY <1>2 DEF ValueInv
<1>6. FreshInv' /\ RecentInv'
  BY <1>2 DEF FreshInv, RecentInv, Fits, Declared
<1>7. QED
  BY <1>1, <1>3, <1>4, <1>5, <1>6

(* A publication puts on the topic what was read.                          *)
LEMMA PublishesKeeps == ASSUME MqttInv, Publishes PROVE MqttInv'
<1> USE DEF MqttInv
<1>1. /\ job # None /\ job' = None /\ phase = "publish"
      /\ UNCHANGED <<phase, session, value, lookup, cmd, recent, discovery, inbox>>
      /\ job.point \in PointSet /\ todo # <<>> /\ todo' = Tail(todo)
  BY DEF Publishes, JobInv
<1>2. TypeInv' /\ TaskInv' /\ JobInv'
  <2>1. TypeInv' /\ JobInv'
    BY <1>1 DEF TypeInv, JobInv
  <2>2. todo' \in Seq(PointSet)
    BY <1>1 DEF TaskInv
  <2>3. TaskInv'
    BY <1>1, <2>2 DEF TaskInv
  <2>4. QED
    BY <2>1, <2>3
<1>3. CASE shown' = [shown EXCEPT ![SlugOf[job.point]] = Publication] /\ UNCHANGED fresh
  <2>1. \A q \in PointSet :
          shown'[SlugOf[q]] = IF SlugOf[q] = SlugOf[job.point] THEN Publication
                              ELSE shown[SlugOf[q]]
    BY <1>1, <1>3, SlugsOfPoints DEF Functions
  <2>2. Functions' /\ ValueInv'
    BY <1>1, <1>3 DEF Functions, ValueInv
  <2>3. FreshInv'
    BY <1>1, <1>3, <2>1 DEF FreshInv, Fits, Declared, Publication, JobInv, Alone
  <2>4. RecentInv'
    BY <1>1, <1>3, <2>1 DEF RecentInv, Fits, Declared, Publication, JobInv, Alone
  <2>5. QED
    BY <1>2, <2>2, <2>3, <2>4
<1>4. CASE UNCHANGED shown /\ fresh' = [fresh EXCEPT ![job.point] = {}]
  <2>1. \A q \in PointSet : fresh'[q] = IF q = job.point THEN {} ELSE fresh[q]
    BY <1>1, <1>4 DEF Functions
  <2>2. Functions' /\ ValueInv'
    BY <1>1, <1>4, <2>1 DEF Functions, ValueInv
  <2>3. FreshInv' /\ RecentInv'
    BY <1>1, <1>4, <2>1 DEF FreshInv, RecentInv, Fits, Declared
  <2>4. QED
    BY <1>2, <2>2, <2>3
<1>5. QED
  BY <1>3, <1>4 DEF Publishes

(* A reading begins the values since it anew.                              *)
LEMMA ReadsKeeps == ASSUME MqttInv, Reads PROVE MqttInv'
<1> USE DEF MqttInv
<1>1. /\ phase = "publish" /\ job = None /\ todo # <<>> /\ Head(todo) \in PointSet
      /\ UNCHANGED <<phase, session, value, lookup, shown, discovery, inbox, cmd, recent>>
  BY DEF Reads, TaskInv, broker
<1>2. CASE /\ job' = [point |-> Head(todo), value |-> value[Head(todo)]]
           /\ fresh' = [fresh EXCEPT ![Head(todo)] = {value[Head(todo)]}]
           /\ UNCHANGED todo
  <2> DEFINE p == Head(todo)
  <2>1. \A q \in PointSet : fresh'[q] = IF q = p THEN {value[p]} ELSE fresh[q]
    BY <1>1, <1>2 DEF Functions
  <2>2. job'.point = p /\ job'.value = value[p]
    BY <1>2
  <2>3. Functions' /\ TypeInv' /\ ValueInv' /\ TaskInv'
    BY <1>1, <1>2, <2>1 DEF Functions, TypeInv, ValueInv, TaskInv
  <2>4. JobInv'
    BY <1>1, <1>2, <2>1, <2>2 DEF JobInv, ValueInv
  <2>5. job' # None
    <3>1. value[p] \in Read \cup Int
      BY <1>1 DEF TypeInv, Seen
    <3>2. job' \in [point : PointSet, value : Read \cup Int]
      BY <1>1, <1>2, <3>1
    <3>3. QED
      BY <3>2, MqttAssumption
  <2>6. FreshInv' /\ RecentInv'
    BY <1>1, <2>1, <2>2, <2>5 DEF FreshInv, RecentInv, Fits, Declared
  <2>7. QED
    BY <2>3, <2>4, <2>6
<1>3. CASE todo' = Tail(todo) /\ UNCHANGED <<job, fresh>>
  <2>1. todo' \in Seq(PointSet) /\ TypeInv'
    BY <1>1, <1>3 DEF TaskInv, TypeInv
  <2>2. QED
    BY <1>1, <1>3, <2>1, QuietKeeps DEF TaskInv
<1>4. QED
  BY <1>2, <1>3 DEF Reads

(* The cycle ends: what it published is what was published last.           *)
LEMMA EndCycleKeeps == ASSUME MqttInv, EndCycle PROVE MqttInv'
<1>1. /\ phase = "publish" /\ phase' = "idle" /\ todo = <<>>
      /\ recent' = fresh /\ fresh' = [p \in PointSet |-> {}]
      /\ UNCHANGED <<session, value, todo, job, lookup, discovery, shown, inbox, cmd>>
  BY DEF EndCycle
<1>2. job = None
  BY <1>1 DEF MqttInv, JobInv
<1>3. Functions' /\ TypeInv' /\ TaskInv'
  BY <1>1 DEF MqttInv, Functions, TypeInv, TaskInv
<1>4. JobInv' /\ ValueInv' /\ FreshInv'
  BY <1>1, <1>2 DEF MqttInv, JobInv, ValueInv, FreshInv
<1>5. RecentInv'
  BY <1>1, <1>2 DEF MqttInv, FreshInv, RecentInv, Fits, Declared
<1>6. QED
  BY <1>3, <1>4, <1>5 DEF MqttInv

(* A configuration is announced, with its point in _dp_lookup.             *)
LEMMA AnnouncesKeeps == ASSUME MqttInv, Announces PROVE MqttInv'
<1> DEFINE p == Head(todo)
<1>1. /\ phase = "announce" /\ todo # <<>> /\ todo' = Tail(todo) /\ phase' \in {"announce", "idle"}
      /\ UNCHANGED <<session, value, job, shown, inbox, cmd, recent, fresh>>
  BY DEF Announces, history
<1>2. p \in PointSet /\ todo' \in Seq(PointSet)
  BY <1>1 DEF MqttInv, TaskInv
<1>3. /\ lookup' \in {lookup, [lookup EXCEPT ![SlugOf[p]] = p]}
      /\ \A c \in discovery' : c \in discovery \/ c = Config(p)
  BY DEF Announces, Skipped, Announced
<1>4. lookup' \in [Slugs -> PointSet \cup {None}]
  BY <1>2, <1>3 DEF MqttInv, TaskInv
<1>5. TypeInv'
  BY <1>1, <1>2, <1>3, ConfigType, SlugsOfPoints DEF MqttInv, TypeInv
<1>6. job = None
  BY <1>1 DEF MqttInv, JobInv
<1>7. QED
  BY <1>1, <1>2, <1>4, <1>5, <1>6, QuietKeeps DEF MqttInv, TaskInv

(* A command arrives and becomes a write, or is dropped.                   *)
LEMMA CommandArrivesKeeps == ASSUME MqttInv, CommandArrives PROVE MqttInv'
<1> DEFINE p == lookup[inbox.slug]
           type == Declared(p).type
<1>1. /\ phase \in {"idle", "publish"} /\ inbox # None /\ cmd = None /\ inbox' = None
      /\ UNCHANGED <<phase, session, value, todo, job, lookup, discovery, shown, recent, fresh>>
  BY DEF CommandArrives, broker, history
<1>2. cmd' # None => /\ p # None /\ CanCast(inbox.payload, type)
                     /\ cmd' = [point |-> p, value |-> CastCommand(inbox.payload, type),
                                asked |-> inbox.payload, by |-> inbox.by]
  BY <1>1 DEF CommandArrives
<1>3. cmd' # None => cmd'.value \in Seen
  BY <1>1, <1>2, CastType DEF MqttInv, TypeInv
<1>4. TypeInv'
  BY <1>1, <1>3 DEF MqttInv, TypeInv
<1>5. cmd' # None => cmd'.point \in PointSet
  <2>1. p \in PointSet \cup {None}
    BY <1>1 DEF MqttInv, TypeInv, TaskInv
  <2>2. QED
    BY <1>2, <2>1
<1>6. QED
  BY <1>1, <1>4, <1>5, QuietKeeps DEF MqttInv, TaskInv, JobInv

(* A user or an automation sends a payload.                                *)
LEMMA UserCommandsKeeps == ASSUME MqttInv, UserCommands PROVE MqttInv'
<1>1. /\ cmd = None /\ phase # "down"
      /\ UNCHANGED <<phase, session, value, todo, job, lookup, discovery, shown, cmd, recent, fresh>>
  BY DEF UserCommands, broker, history
<1>2. inbox'.slug \in Slugs /\ inbox'.payload \in Payloads
  <2>1. CASE \E c \in discovery : Commands(c) /\ \E x \in Offers(c) :
               inbox' = [slug |-> c.slug, payload |-> x, by |-> c.session]
    BY <2>1, OffersType DEF MqttInv, TypeInv
  <2>2. CASE \E s \in Slugs, x \in Scripted : inbox' = [slug |-> s, payload |-> x, by |-> 0]
    BY <2>2, MqttAssumption
  <2>3. QED
    BY <2>1, <2>2 DEF UserCommands
<1>3. TypeInv'
  BY <1>1, <1>2 DEF MqttInv, TypeInv
<1>4. QED
  BY <1>1, <1>3, QuietKeeps DEF MqttInv, TaskInv, JobInv

(* A session starts with the devices as they are, and ends anywhere.       *)
LEMMA SessionKeeps == ASSUME MqttInv, Starts \/ Ends PROVE MqttInv'
<1>1. CASE Starts
  <2>1. /\ phase = "down" /\ phase' = "announce" /\ todo' = Points
        /\ session' \in DOMAIN Declares
        /\ UNCHANGED <<job, lookup, discovery, shown, inbox, cmd, recent, fresh>>
    BY <1>1 DEF Starts, broker, history
  <2>2. /\ value' \in [PointSet -> Read]
    BY <1>1 DEF Starts
  <2>3. job = None /\ \A p \in PointSet : recent[p] = {} /\ fresh[p] = {}
    BY <2>1 DEF MqttInv, TaskInv
  <2>4. Functions' /\ TypeInv'
    BY <2>1, <2>2 DEF MqttInv, Functions, TypeInv, Seen
  <2>5. TaskInv'
    BY <2>1, MqttAssumption DEF MqttInv, TaskInv
  <2>6. JobInv' /\ ValueInv' /\ FreshInv' /\ RecentInv'
    BY <2>1, <2>3 DEF JobInv, ValueInv, FreshInv, RecentInv
  <2>7. QED
    BY <2>4, <2>5, <2>6 DEF MqttInv
<1>2. CASE Ends
  <2>1. /\ phase' = "down" /\ todo' = <<>> /\ job' = None
        /\ lookup' = [s \in Slugs |-> None] /\ inbox' = None /\ cmd' = None
        /\ fresh' = [p \in PointSet |-> {}] /\ recent' = fresh'
        /\ UNCHANGED <<session, value, discovery, shown>>
    BY <1>2 DEF Ends
  <2>2. Functions' /\ TypeInv' /\ TaskInv'
    BY <2>1 DEF MqttInv, Functions, TypeInv, TaskInv
  <2>3. JobInv' /\ ValueInv' /\ FreshInv' /\ RecentInv'
    BY <2>1 DEF JobInv, ValueInv, FreshInv, RecentInv
  <2>4. QED
    BY <2>2, <2>3 DEF MqttInv
<1>3. QED
  BY <1>1, <1>2

(* Every step keeps the invariant.                                         *)
LEMMA StepMqtt == MqttInv /\ [Next]_vars => MqttInv'
<1> SUFFICES ASSUME MqttInv, [Next]_vars PROVE MqttInv'
  OBVIOUS
<1>1. CASE BeginCycle
  <2>1. phase = "idle" /\ phase' = "publish" /\ todo' = Points
        /\ UNCHANGED <<session, value, job, lookup, discovery, shown, inbox, cmd, recent, fresh>>
    BY <1>1 DEF BeginCycle, broker, history
  <2>2. TypeInv' /\ job = None
    BY <2>1 DEF MqttInv, TypeInv, JobInv
  <2>3. QED
    BY <2>1, <2>2, QuietKeeps, MqttAssumption DEF MqttInv, TaskInv
<1>2. CASE CommandLands
  <2>1. /\ cmd # None /\ cmd' = None
        /\ UNCHANGED <<phase, session, todo, job, lookup, discovery, shown, availability, inbox>>
        /\ phase # "down"
    BY <1>2 DEF CommandLands, broker, MqttInv, TaskInv
  <2>2. CASE Becomes(cmd.point, cmd.value)
    <3>1. TypeInv'
      BY <2>1, <2>2 DEF MqttInv, TypeInv, TaskInv, Becomes
    <3>2. QED
      BY <2>1, <2>2, <3>1, BecomesKeeps DEF MqttInv, TaskInv, broker
  <2>3. CASE UNCHANGED <<value, history>>
    <3>1. TypeInv' /\ UNCHANGED <<value, recent, fresh>>
      BY <2>1, <2>3 DEF MqttInv, TypeInv, history
    <3>2. QED
      BY <2>1, <3>1, QuietKeeps DEF MqttInv, TaskInv, JobInv
  <2>4. QED
    BY <1>2, <2>2, <2>3 DEF CommandLands
<1>3. CASE Moves
  <2>1. PICK p \in PointSet : \E v \in Values[session][p] \ {value[p]} : Becomes(p, v)
    BY <1>3 DEF Moves
  <2>2. PICK v \in Values[session][p] : Becomes(p, v)
    BY <2>1
  <2>3. /\ phase # "down" /\ UNCHANGED <<phase, session, todo, job, lookup, broker, inbox, cmd>>
    BY <1>3 DEF Moves
  <2>4. v \in Read
    BY <2>2, MqttAssumption DEF MqttInv, TypeInv
  <2>5. TypeInv'
    BY <2>2, <2>3, <2>4 DEF MqttInv, TypeInv, Becomes, Seen, broker
  <2>6. QED
    BY <2>2, <2>3, <2>5, BecomesKeeps DEF MqttInv, TaskInv
<1>4. CASE UNCHANGED vars
  BY <1>4 DEF vars, broker, history, MqttInv, Functions, TypeInv, TaskInv, JobInv, ValueInv,
     FreshInv, RecentInv, Fits, Declared
<1>5. QED
  BY <1>1, <1>2, <1>3, <1>4, SessionKeeps, AnnouncesKeeps, ReadsKeeps, PublishesKeeps,
     EndCycleKeeps, CommandArrivesKeeps, UserCommandsKeeps
     DEF Next

(* Whatever commands, devices and faults do between the reading of a point *)
(* and its publication, the state of a point that the last cycle published *)
(* is that of a value it has had since it was read.                        *)
THEOREM StatesAreRecent == Spec => []ShownIsRecent
<1>1. MqttInv => ShownIsRecent
  BY DEF MqttInv, RecentInv, Fits, ShownIsRecent
<1>2. QED
  BY <1>1, InitMqtt, StepMqtt, PTL DEF Spec

-----------------------------------------------------------------------------
(* From an entity to the device: what a command of this session's entities  *)
(* becomes.                                                                *)

(* Yes and No belong to a BOOLEAN.                                         *)
Proper(p, v) == v \in Seen /\ (Declared(p).type = "BOOLEAN" \/ v \notin {Yes, No})
ValuesInv ==
  /\ \A p \in PointSet : Proper(p, value[p])
  /\ job # None => Proper(job.point, job.value)
  /\ cmd # None => Proper(cmd.point, cmd.value)
  /\ shown \in [Slugs -> Payloads \cup Int \cup {None}]
  /\ phase \in {"down", "announce", "idle", "publish"}
  /\ availability \in {"online", "offline"}

(* A topic commands a point of its own slug; what is retained was announced *)
(* by this session as it is declared, or by an earlier one.                *)
TopicsInv ==
  /\ \A s \in Slugs : lookup[s] # None => SlugOf[lookup[s]] = s
  /\ \A c \in discovery : c.session \in 1..session
  /\ \A c \in discovery : c.session = session => \E p \in PointSet : c = Config(p)

(* A user of this session's entity sends what that entity offers, ...      *)
OfferedBy(slug, x) ==
  \E p \in PointSet : SlugOf[p] = slug /\ Commands(Config(p)) /\ x \in Offers(Config(p))
InboxInv ==
  /\ phase = "down" => inbox = None
  /\ inbox # None /\ inbox.by = session => OfferedBy(inbox.slug, inbox.payload)

(* ... and it is cast by the type of the point.                            *)
CmdInv ==
  cmd # None =>
    /\ cmd.asked \in Payloads /\ CanCast(cmd.asked, Declared(cmd.point).type)
    /\ cmd.value = CastCommand(cmd.asked, Declared(cmd.point).type)
    /\ cmd.by = session => OfferedBy(SlugOf[cmd.point], cmd.asked)

EntityInv == MqttInv /\ ValuesInv /\ TopicsInv /\ InboxInv /\ CmdInv

(* What is published is text or a number, never None.                      *)
LEMMA FormatType ==
  ASSUME NEW p \in PointSet, NEW v, Proper(p, v)
  PROVE  FormatState(v, Declared(p).type) \in Payloads \cup Int
BY MqttAssumption DEF Proper, Seen, Read, FormatState, Payloads

(* A cast yields what belongs to the type.                                 *)
LEMMA CastProper ==
  ASSUME NEW p \in PointSet, NEW x \in Payloads, CanCast(x, Declared(p).type)
  PROVE  Proper(p, CastCommand(x, Declared(p).type))
<1> DEFINE type == Declared(p).type
<1>1. CastCommand(x, type) \in Seen
  BY CastType
<1>2. CASE type = "BOOLEAN"
  BY <1>1, <1>2 DEF Proper
<1>3. CASE type = "INT"
  <2>1. x \in Int
    BY <1>3, MqttAssumption DEF CanCast
  <2>2. CastCommand(x, type) \in Int
    BY <1>3, <2>1 DEF CastCommand, Toward0
  <2> QED BY <1>1, <2>2, MqttAssumption DEF Proper, Marks
<1>4. CASE type \notin {"BOOLEAN", "INT"}
  <2>1. CastCommand(x, type) = x
    BY <1>4 DEF CastCommand
  <2> QED BY <1>1, <2>1, MqttAssumption DEF Proper
<1> QED BY <1>2, <1>3, <1>4

(* The first session starts with nothing announced.                        *)
LEMMA InitEntity == Init => EntityInv
<1> SUFFICES ASSUME Init PROVE EntityInv
  OBVIOUS
<1>1. ValuesInv
  BY MqttAssumption DEF Init, ValuesInv, Proper, Seen, Read, Payloads
<1>2. TopicsInv /\ InboxInv /\ CmdInv
  BY DEF Init, TopicsInv, InboxInv, CmdInv
<1> QED BY <1>1, <1>2, InitMqtt DEF EntityInv

(* Within a session the description and what is offered stay.              *)
LEMMA SameSession ==
  ASSUME session' = session
  PROVE  /\ \A p : Declared(p)' = Declared(p) /\ Config(p)' = Config(p)
         /\ \A p, v : Proper(p, v)' = Proper(p, v)
         /\ \A slug, x : OfferedBy(slug, x)' = OfferedBy(slug, x)
<1>1. \A p : Declared(p)' = Declared(p)
  BY DEF Declared
<1>2. \A p : Config(p)' = Config(p)
  BY <1>1 DEF Config
<1>3. \A p, v : Proper(p, v)' = Proper(p, v)
  BY <1>1 DEF Proper
<1>4. \A slug, x : OfferedBy(slug, x)' = OfferedBy(slug, x)
  BY <1>2 DEF OfferedBy
<1> QED BY <1>1, <1>2, <1>3, <1>4

(* Announcing: the point gets its topic, its configuration this session's. *)
LEMMA AnnouncesEntity == ASSUME EntityInv, Announces PROVE ValuesInv' /\ TopicsInv' /\ InboxInv' /\ CmdInv'
<1> DEFINE p == Head(todo)
<1>1. /\ todo # <<>> /\ phase = "announce" /\ phase' \in {"announce", "idle"}
      /\ UNCHANGED <<session, value, job, shown, availability, inbox, cmd>>
  BY DEF Announces
<1>2. p \in PointSet /\ SlugOf[p] \in Slugs /\ session \in Nat \ {0}
      /\ lookup \in [Slugs -> PointSet \cup {None}]
  BY <1>1, SlugsOfPoints, MqttAssumption DEF EntityInv, MqttInv, TaskInv, TypeInv
<1>3. /\ lookup' \in {lookup, [lookup EXCEPT ![SlugOf[p]] = p]}
      /\ \A c \in discovery' : c \in discovery \/ c = Config(p)
  BY DEF Announces, Skipped, Announced
<1>4. ValuesInv' /\ InboxInv' /\ CmdInv'
  BY <1>1, SameSession DEF EntityInv, ValuesInv, InboxInv, CmdInv
<1>5. Config(p).session = session
  BY DEF Config
<1>6. TopicsInv'
  <2>1. \A s \in Slugs : lookup'[s] # None => SlugOf[lookup'[s]] = s
    BY <1>2, <1>3 DEF EntityInv, TopicsInv
  <2>2. \A c \in discovery' : c.session \in 1..session
    BY <1>2, <1>3, <1>5 DEF EntityInv, TopicsInv
  <2>3. \A c \in discovery' : c.session = session => \E q \in PointSet : c = Config(q)
    BY <1>2, <1>3 DEF EntityInv, TopicsInv
  <2> QED BY <1>1, <2>1, <2>2, <2>3, SameSession DEF TopicsInv
<1> QED BY <1>4, <1>6

(* The cycle: what is read is proper, and published as text or number.     *)
LEMMA CycleEntity ==
  ASSUME EntityInv, BeginCycle \/ Reads \/ Publishes \/ EndCycle
  PROVE  ValuesInv' /\ TopicsInv' /\ InboxInv' /\ CmdInv'
<1>1. /\ UNCHANGED <<session, value, lookup, discovery, inbox, cmd>>
      /\ phase' \in {"idle", "publish"} /\ phase # "down"
  BY DEF BeginCycle, Reads, Publishes, EndCycle, EntityInv, MqttInv, JobInv, broker
<1>2. TopicsInv' /\ InboxInv' /\ CmdInv'
  BY <1>1, SameSession DEF EntityInv, TopicsInv, InboxInv, CmdInv
<1>3. job' # None => Proper(job'.point, job'.value)
  <2>1. CASE job' = job
    BY <2>1 DEF EntityInv, ValuesInv
  <2>2. CASE job' = [point |-> Head(todo), value |-> value[Head(todo)]] /\ Reads
    <3>1. Head(todo) \in PointSet
      BY <2>2 DEF Reads, EntityInv, MqttInv, TaskInv
    <3> QED BY <2>2, <3>1 DEF EntityInv, ValuesInv
  <2>3. CASE job' = None
    BY <2>3
  <2> QED BY <2>1, <2>2, <2>3 DEF BeginCycle, Reads, Publishes, EndCycle
<1>4. shown' \in [Slugs -> Payloads \cup Int \cup {None}]
  <2>1. CASE shown' = shown
    BY <2>1 DEF EntityInv, ValuesInv
  <2>2. CASE job # None /\ shown' = [shown EXCEPT ![SlugOf[job.point]] = Publication]
    <3>1. Publication \in Payloads \cup Int
      BY <2>2, FormatType DEF Publication, EntityInv, MqttInv, JobInv, ValuesInv
    <3> QED BY <2>2, <3>1 DEF EntityInv, ValuesInv
  <2> QED BY <2>1, <2>2 DEF BeginCycle, Reads, Publishes, EndCycle, broker
<1>5. availability' \in {"online", "offline"}
  BY DEF BeginCycle, Reads, Publishes, EndCycle, broker, EntityInv, ValuesInv
<1>6. ValuesInv'
  BY <1>1, <1>3, <1>4, <1>5, SameSession DEF EntityInv, ValuesInv
<1> QED BY <1>2, <1>6

(* A command arrives: it is cast for the point of its topic.               *)
LEMMA CommandArrivesEntity ==
  ASSUME EntityInv, CommandArrives PROVE ValuesInv' /\ TopicsInv' /\ InboxInv' /\ CmdInv'
<1> DEFINE p == lookup[inbox.slug]
           type == Declared(p).type
<1>1. /\ inbox # None /\ cmd = None /\ inbox' = None
      /\ UNCHANGED <<phase, session, value, job, lookup, discovery, shown, availability>>
  BY DEF CommandArrives, broker
<1>2. inbox.slug \in Slugs /\ inbox.payload \in Payloads /\ p \in PointSet \cup {None}
  BY <1>1 DEF EntityInv, MqttInv, TypeInv, TaskInv
<1>3. TopicsInv' /\ InboxInv'
  BY <1>1, SameSession DEF EntityInv, TopicsInv, InboxInv
<1>4. ASSUME cmd' # None
      PROVE  /\ p \in PointSet /\ CanCast(inbox.payload, type) /\ SlugOf[p] = inbox.slug
             /\ cmd'.point = p /\ cmd'.value = CastCommand(inbox.payload, type)
             /\ cmd'.asked = inbox.payload /\ cmd'.by = inbox.by
  BY <1>1, <1>2, <1>4 DEF CommandArrives, EntityInv, TopicsInv
<1>5. CmdInv'
  BY <1>1, <1>2, <1>4, SameSession DEF EntityInv, InboxInv, CmdInv
<1>6. cmd' # None => Proper(cmd'.point, cmd'.value)
  BY <1>2, <1>4, CastProper
<1>7. ValuesInv'
  BY <1>1, <1>6, SameSession DEF EntityInv, ValuesInv
<1> QED BY <1>3, <1>5, <1>7

(* A device takes a value, by a command or of its own.                     *)
LEMMA DeviceEntity ==
  ASSUME EntityInv, CommandLands \/ Moves
  PROVE  ValuesInv' /\ TopicsInv' /\ InboxInv' /\ CmdInv'
<1>1. /\ UNCHANGED <<phase, session, job, lookup, discovery, shown, availability, inbox>>
      /\ cmd' \in {None, cmd}
  BY DEF CommandLands, Moves, broker
<1>2. TopicsInv' /\ InboxInv' /\ CmdInv'
  BY <1>1, SameSession DEF EntityInv, TopicsInv, InboxInv, CmdInv
<1>3. CASE UNCHANGED value
  BY <1>1, <1>2, <1>3, SameSession DEF EntityInv, ValuesInv
<1>4. ASSUME NEW p \in PointSet, NEW v, Proper(p, v), Becomes(p, v) PROVE ValuesInv'
  <2>1. \A q \in PointSet : Proper(q, value'[q])
    BY <1>4 DEF Becomes, EntityInv, MqttInv, TypeInv, ValuesInv
  <2> QED BY <1>1, <2>1, SameSession DEF EntityInv, ValuesInv
<1>5. CASE CommandLands
  <2>1. cmd # None /\ cmd.point \in PointSet /\ Proper(cmd.point, cmd.value)
    BY <1>5 DEF CommandLands, EntityInv, MqttInv, TaskInv, ValuesInv
  <2> QED BY <1>2, <1>3, <1>4, <1>5, <2>1 DEF CommandLands
<1>6. CASE Moves
  <2>1. PICK p \in PointSet : \E v \in Values[session][p] \ {value[p]} : Becomes(p, v)
    BY <1>6 DEF Moves
  <2>2. PICK v \in Values[session][p] : Becomes(p, v)
    BY <2>1
  <2>3. Proper(p, v)
    BY <2>2, MqttAssumption DEF EntityInv, MqttInv, TypeInv, Proper, Seen, Declared
  <2> QED BY <1>2, <1>4, <2>2, <2>3
<1> QED BY <1>5, <1>6

(* A session starts, with new descriptions or the same, or ends.           *)
LEMMA SessionEntity ==
  ASSUME EntityInv, Starts \/ Ends PROVE ValuesInv' /\ TopicsInv' /\ InboxInv' /\ CmdInv'
<1>1. CASE Starts
  <2>1. /\ phase = "down" /\ phase' = "announce"
        /\ session' \in session..(session + 1) /\ session' \in DOMAIN Declares
        /\ value' \in [PointSet -> Read] /\ \A p \in PointSet : value'[p] \in Values[session'][p]
        /\ UNCHANGED <<job, lookup, discovery, shown, availability, inbox, cmd>>
    BY <1>1 DEF Starts, broker
  <2>2. job' = None /\ inbox' = None /\ cmd' = None /\ session \in Nat \ {0}
    BY <2>1, MqttAssumption DEF EntityInv, MqttInv, TaskInv, TypeInv, InboxInv
  <2>3. ASSUME NEW p \in PointSet PROVE Proper(p, value[p])'
    BY <2>1, MqttAssumption DEF Proper, Seen, Declared
  <2>4. ValuesInv'
    BY <2>1, <2>2, <2>3 DEF EntityInv, ValuesInv
  <2>5. CASE session' = session
    BY <2>1, <2>2, <2>4, <2>5, SameSession DEF EntityInv, TopicsInv, InboxInv, CmdInv
  <2>6. CASE session' = session + 1
    BY <2>1, <2>2, <2>4, <2>6 DEF EntityInv, TopicsInv, InboxInv, CmdInv
  <2> QED BY <2>1, <2>2, <2>5, <2>6
<1>2. CASE Ends
  <2>1. /\ phase' = "down" /\ job' = None /\ lookup' = [s \in Slugs |-> None]
        /\ inbox' = None /\ cmd' = None /\ availability' \in {"offline", availability}
        /\ UNCHANGED <<session, value, discovery, shown>>
    BY <1>2 DEF Ends
  <2> QED BY <2>1, SameSession DEF EntityInv, ValuesInv, TopicsInv, InboxInv, CmdInv
<1> QED BY <1>1, <1>2

(* A user sends what an entity offers, an automation what it likes.        *)
LEMMA UserCommandsEntity ==
  ASSUME EntityInv, UserCommands PROVE ValuesInv' /\ TopicsInv' /\ InboxInv' /\ CmdInv'
<1>1. /\ cmd = None /\ phase # "down"
      /\ UNCHANGED <<phase, session, value, job, lookup, discovery, shown, availability, cmd>>
  BY DEF UserCommands, broker
<1>2. ValuesInv' /\ TopicsInv' /\ CmdInv'
  BY <1>1, SameSession DEF EntityInv, ValuesInv, TopicsInv, CmdInv
<1>3. inbox'.by = session => OfferedBy(inbox'.slug, inbox'.payload)
  <2>1. ASSUME NEW c \in discovery, Commands(c), NEW x \in Offers(c),
               inbox' = [slug |-> c.slug, payload |-> x, by |-> c.session], c.session = session
        PROVE  OfferedBy(inbox'.slug, inbox'.payload)
    <3>1. PICK p \in PointSet : c = Config(p)
      BY <2>1 DEF EntityInv, TopicsInv
    <3>2. c.slug = SlugOf[p]
      BY <3>1 DEF Config
    <3> QED BY <2>1, <3>1, <3>2 DEF OfferedBy
  <2>2. session # 0
    BY MqttAssumption DEF EntityInv, MqttInv, TypeInv
  <2> QED BY <2>1, <2>2 DEF UserCommands
<1>4. InboxInv'
  BY <1>1, <1>3, SameSession DEF InboxInv
<1> QED BY <1>2, <1>4

(* Every step keeps what an entity asks for and what is published.         *)
LEMMA StepEntity == EntityInv /\ [Next]_vars => EntityInv'
<1> SUFFICES ASSUME EntityInv, [Next]_vars PROVE EntityInv'
  OBVIOUS
<1>1. MqttInv'
  BY StepMqtt DEF EntityInv
<1>2. CASE UNCHANGED vars
  <2>1. UNCHANGED <<phase, session, value, job, lookup, discovery, shown, availability, inbox, cmd>>
    BY <1>2 DEF vars, broker
  <2> QED BY <1>1, <2>1, SameSession DEF EntityInv, ValuesInv, TopicsInv, InboxInv, CmdInv
<1> QED
  BY <1>1, <1>2, SessionEntity, AnnouncesEntity, CycleEntity, CommandArrivesEntity, DeviceEntity,
     UserCommandsEntity
  DEF Next, EntityInv

(* The invariant of the entities holds in every state.                     *)
LEMMA EntitySpec == Spec => []EntityInv
BY InitEntity, StepEntity, PTL DEF Spec

(* The types of the variables; every retained state is text or a number,   *)
(* whatever type a description gives a point and its driver returns.       *)
THEOREM TypeCorrect == Spec => []TypeOK
<1>1. ASSUME EntityInv PROVE TypeOK
  <2> USE <1>1 DEF EntityInv, MqttInv
  <2>1. /\ value \in [PointSet -> Read \cup Int] /\ session \in DOMAIN Declares
        /\ {c.slug : c \in discovery} \subseteq Slugs
    BY DEF TypeInv, Seen
  <2>2. /\ lookup \in [Slugs -> PointSet \cup {None}]
        /\ phase = "down" => inbox = None /\ cmd = None
    BY DEF TaskInv, InboxInv
  <2>3. job # None => phase = "publish" /\ job.value \in Read \cup Int
    BY DEF JobInv, ValuesInv, Proper, Seen
  <2> QED BY <2>1, <2>2, <2>3 DEF TypeOK, ValuesInv
<1> QED BY <1>1, EntitySpec, PTL

(* A command of this session's only entity of a topic is one that the      *)
(* point's own configuration offers.                                       *)
LEMMA MeantIsOffered ==
  ASSUME EntityInv, Meant
  PROVE  LET p == cmd.point
         IN  /\ p \in PointSet /\ session \in DOMAIN Declares
             /\ Commands(Config(p)) /\ cmd.asked \in Offers(Config(p))
             /\ cmd.value = CastCommand(cmd.asked, Declared(p).type)
<1>1. /\ cmd # None /\ cmd.by = session /\ Alone(cmd.point) /\ cmd.point \in PointSet
      /\ session \in DOMAIN Declares
  BY DEF Meant, EntityInv, MqttInv, TaskInv, TypeInv
<1>2. PICK q \in PointSet : /\ SlugOf[q] = SlugOf[cmd.point]
                            /\ Commands(Config(q)) /\ cmd.asked \in Offers(Config(q))
  BY <1>1 DEF EntityInv, CmdInv, OfferedBy
<1>3. q = cmd.point
  BY <1>1, <1>2 DEF Alone
<1> QED BY <1>1, <1>2, <1>3 DEF EntityInv, CmdInv

(* What the entity of a point is, by its description.                      *)
LEMMA EntityOf ==
  ASSUME NEW p \in PointSet, session \in DOMAIN Declares, Commands(Config(p)),
         NEW x \in Offers(Config(p))
  PROVE  LET d == Declared(p)
         IN  /\ d.writable /\ d.type \in {"BOOLEAN", "INT", "FLOAT", "ENUM", "STRING"}
             /\ d.type = "BOOLEAN" => x \in {OnText, OffText}
             /\ d.type = "STRING" => x \in Literals
             /\ d.type = "ENUM" => x \in Literals /\ (d.options # {} => x \in d.options)
             /\ d.type \in {"INT", "FLOAT"} =>
                  LET low == IF d.low = None THEN 10 ELSE d.low
                  IN  /\ x \in Numbers /\ low <= x /\ (d.high # None => x <= d.high)
                      /\ (x - low) % StepOf(d) = 0
<1> DEFINE d == Declared(p)
           c == Config(p)
<1>1. d.type \in Types /\ d.options \subseteq Literals /\ d.writable \in BOOLEAN
  BY MqttAssumption DEF Declared
<1>2. c.component = IF HaComponent(d) = "select" /\ d.options = {} THEN "text" ELSE HaComponent(d)
  BY DEF Config
<1>3. c.component \in {"number", "switch", "select", "text"}
  BY DEF Commands
<1>4. d.writable /\ d.type \in {"BOOLEAN", "INT", "FLOAT", "ENUM", "STRING"}
  BY <1>1, <1>2, <1>3 DEF HaComponent, Types
<1>5. CASE d.type = "BOOLEAN"
  <2>1. c.component = "switch"
    BY <1>2, <1>4, <1>5 DEF HaComponent
  <2> QED BY <1>4, <1>5, <2>1 DEF Offers
<1>6. CASE d.type = "STRING"
  <2>1. c.component = "text"
    BY <1>2, <1>4, <1>6 DEF HaComponent
  <2> QED BY <1>4, <1>6, <2>1 DEF Offers
<1>7. CASE d.type = "ENUM"
  <2>1. HaComponent(d) = "select"
    BY <1>4, <1>7 DEF HaComponent
  <2>2. CASE d.options = {}
    BY <1>2, <1>4, <1>7, <2>1, <2>2 DEF Offers
  <2>3. CASE d.options # {}
    <3>1. c.component = "select" /\ c.options = d.options
      BY <1>2, <2>1, <2>3 DEF Config
    <3> QED BY <1>1, <1>4, <1>7, <3>1 DEF Offers
  <2> QED BY <2>2, <2>3
<1>8. CASE d.type \in {"INT", "FLOAT"}
  <2>1. HaComponent(d) = "number"
    BY <1>4, <1>8 DEF HaComponent
  <2>2. c.component = "number" /\ c.bounds = NumericBounds(d) /\ c.step = StepOf(d)
    BY <1>2, <2>1 DEF Config
  <2>3. c.bounds.low = d.low /\ c.bounds.high = d.high
    BY <2>2 DEF NumericBounds
  <2> QED BY <1>4, <1>8, <2>2, <2>3 DEF Offers
<1> QED BY <1>4, <1>5, <1>6, <1>7, <1>8

(* Whole steps from a whole lowest value are whole numbers.                *)
LEMMA WholeMultiples ==
  ASSUME NEW x \in Int, NEW low \in Int, NEW step \in Int, step > 0,
         low % 10 = 0, step % 10 = 0, (x - low) % step = 0
  PROVE  x % 10 = 0
<1>1. PICK k \in Int : step = 10 * k
  OBVIOUS
<1>2. PICK n \in Int : x - low = step * n
  OBVIOUS
<1>3. PICK l \in Int : low = 10 * l
  OBVIOUS
<1>4. x = 10 * (k * n + l) /\ k * n + l \in Int
  BY <1>1, <1>2, <1>3
<1> QED BY <1>4

(* Truncation leaves a whole number, and no whole limit behind.            *)
LEMMA TruncationKeeps ==
  ASSUME NEW x \in Int
  PROVE  /\ x % 10 = 0 => Toward0(x) = x
         /\ \A b \in Int : b % 10 = 0 =>
              (b <= x => b <= Toward0(x)) /\ (x <= b => Toward0(x) <= b)
BY DEF Toward0

(* What a user asks of an entity of the running session is what is written *)
(* to the device, for all descriptions, values, limits and steps.          *)
THEOREM AskedIsWrittenCorrect == Spec => []AskedIsWritten
<1>1. ASSUME EntityInv, Meant, WholeSteps(Declared(cmd.point))
      PROVE  FormatState(cmd.value, Declared(cmd.point).type) = cmd.asked
  <2> DEFINE p == cmd.point
             d == Declared(p)
             x == cmd.asked
  <2>1. /\ p \in PointSet /\ session \in DOMAIN Declares
        /\ Commands(Config(p)) /\ x \in Offers(Config(p)) /\ cmd.value = CastCommand(x, d.type)
    BY <1>1, MeantIsOffered
  <2>2. {d.low, d.high, d.step} \subseteq Int \cup {None}
    BY <2>1, MqttAssumption DEF Declared
  <2> SUFFICES FormatState(cmd.value, d.type) = x
    OBVIOUS
  <2> HIDE DEF p, d, x
  <2>3. CASE d.type = "BOOLEAN"
    <3>1. x \in {OnText, OffText}
      BY <2>1, <2>3, EntityOf DEF d
    <3>2. cmd.value = IF x = OnText THEN Yes ELSE No
      <4>1. OffText # 10
        BY MqttAssumption DEF Marks
      <4> QED BY <2>1, <2>3, <3>1, <4>1, MqttAssumption DEF CastCommand
    <3>3. Yes \notin {None, No, 0, Empty} /\ No # None
      BY MqttAssumption DEF Marks, Payloads
    <3> QED BY <2>3, <3>1, <3>2, <3>3, MqttAssumption DEF FormatState
  <2>4. CASE d.type \in {"STRING", "ENUM"}
    <3>1. x \in Literals
      BY <2>1, <2>4, EntityOf DEF d
    <3>2. cmd.value = x /\ x # None
      BY <2>1, <2>4, <3>1, MqttAssumption DEF CastCommand, Marks
    <3> QED BY <2>4, <3>2 DEF FormatState
  <2>5. CASE d.type = "FLOAT"
    <3>1. x \in Int
      BY <2>1, <2>5, EntityOf, MqttAssumption DEF d
    <3>2. cmd.value = x /\ x # None
      BY <2>1, <2>5, <3>1, MqttAssumption DEF CastCommand, Marks
    <3> QED BY <2>5, <3>2 DEF FormatState
  <2>6. CASE d.type = "INT"
    <3> DEFINE low == IF d.low = None THEN 10 ELSE d.low
    <3>1. x \in Int /\ (x - low) % StepOf(d) = 0
      BY <2>1, <2>6, EntityOf, MqttAssumption DEF d
    <3>2. low \in Int /\ low % 10 = 0
      BY <1>1, <2>2, <2>6 DEF WholeSteps, Whole, d, p
    <3>3. StepOf(d) \in Int /\ StepOf(d) > 0 /\ StepOf(d) # None
      <4>1. StepOf(d) \in Int /\ StepOf(d) > 0
        BY <2>2, <2>6 DEF StepOf
      <4>2. None \notin Int
        BY MqttAssumption DEF Marks
      <4> QED BY <4>1, <4>2
    <3>4. StepOf(d) % 10 = 0
      BY <1>1, <2>6, <3>3 DEF WholeSteps, Whole, d, p
    <3>5. x % 10 = 0
      BY <3>1, <3>2, <3>3, <3>4, WholeMultiples
    <3>6. cmd.value = x /\ x # None
      BY <2>1, <2>6, <3>1, <3>5, TruncationKeeps, MqttAssumption DEF CastCommand, Marks, d
    <3> QED BY <2>6, <3>6 DEF FormatState
  <2>7. d.type \in {"BOOLEAN", "INT", "FLOAT", "ENUM", "STRING"}
    BY <2>1, EntityOf DEF d
  <2> QED BY <2>3, <2>4, <2>5, <2>6, <2>7
<1> QED BY <1>1, EntitySpec, PTL DEF AskedIsWritten

(* ... and within what the description allows.                             *)
THEOREM WrittenIsDeclaredCorrect == Spec => []WrittenIsDeclared
<1>1. ASSUME EntityInv PROVE WrittenIsDeclared
  <2> SUFFICES ASSUME Meant
               PROVE  LET d == Declared(cmd.point)
                      IN  /\ d.writable
                          /\ d.type \in {"INT", "FLOAT"} /\ WholeLimits(d) =>
                               /\ d.low # None => cmd.value >= d.low
                               /\ d.high # None => cmd.value <= d.high
                          /\ d.type = "ENUM" /\ d.options # {} => cmd.value \in d.options
    BY DEF WrittenIsDeclared
  <2> DEFINE p == cmd.point
             d == Declared(p)
             x == cmd.asked
  <2>1. /\ p \in PointSet /\ session \in DOMAIN Declares
        /\ Commands(Config(p)) /\ x \in Offers(Config(p)) /\ cmd.value = CastCommand(x, d.type)
    BY <1>1, MeantIsOffered
  <2>2. {d.low, d.high, d.step} \subseteq Int \cup {None}
    BY <2>1, MqttAssumption DEF Declared
  <2> HIDE DEF p, d, x
  <2>3. d.writable
    BY <2>1, EntityOf DEF d
  <2>4. ASSUME d.type \in {"INT", "FLOAT"}, WholeLimits(d)
        PROVE  /\ d.low # None => cmd.value >= d.low
               /\ d.high # None => cmd.value <= d.high
    <3>1. x \in Int /\ (d.low # None => d.low <= x) /\ (d.high # None => x <= d.high)
      BY <2>1, <2>4, EntityOf, MqttAssumption DEF d
    <3>2. CASE d.type = "FLOAT"
      BY <2>1, <2>2, <3>1, <3>2 DEF CastCommand
    <3>3. CASE d.type = "INT"
      <4>1. cmd.value = Toward0(x)
        BY <2>1, <3>3 DEF CastCommand
      <4>2. /\ d.low # None => d.low \in Int /\ d.low % 10 = 0
            /\ d.high # None => d.high \in Int /\ d.high % 10 = 0
        BY <2>2, <2>4, <3>3 DEF WholeLimits, Whole
      <4>3. Toward0(x) \in Int
        BY <3>1 DEF Toward0
      <4> QED BY <3>1, <4>1, <4>2, <4>3, TruncationKeeps
    <3> QED BY <2>4, <3>2, <3>3
  <2>5. d.type = "ENUM" /\ d.options # {} => cmd.value \in d.options
    BY <2>1, EntityOf DEF CastCommand, d
  <2> QED BY <2>3, <2>4, <2>5 DEF d, p
<1> QED BY <1>1, EntitySpec, PTL
=============================================================================
