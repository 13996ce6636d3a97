--------------------------- MODULE DeviceService ----------------------------
(***************************************************************************)
(* _connect_device of sgr_service.py from the description of a charger to  *)
(* its communication-loss watchdog, over starts and kills: the description *)
(* is that of EidCache, whatever version of it the add-on happens to hold. *)
(*                                                                         *)
(* A data point is a pair of a functional profile and "SafeCurrent" or     *)
(* "MaxReceiveTimeSec".  The charger keeps what was written while it has   *)
(* power, and counts as silent a time without a write of the rules engine, *)
(* which writes on change only; that time is left open.  A list of profiles *)
(* is the set of their places in the description, in whose order they are  *)
(* tried; place 0 is that of the default.                                  *)
(***************************************************************************)
EXTENDS EidCache, FiniteSetsExt

CONSTANTS
  Profiles,      \* functional profiles, in the order describe() has them
  Declares,      \* version -> the pairs that the description declares
  Configured,    \* evse_safety: which of the two points are given
  Currents,      \* currents the engine may set
  Fallback,      \* the safe current, or what the charger takes for it
  DeviceFaults   \* "refused": no connection, "describe": it raises,
                 \* "write": a write fails, "unacked": its answer is lost

EvseProfiles == {"EMS_Current_Limit", "EVSECurrentLimit", "LoadReduction"}
Default == "EMS_Current_Limit"   \* tried when none is known
ProfileAt(i) == IF i = 0 THEN Default ELSE Profiles[i]
TimeoutFirst == <<"MaxReceiveTimeSec", "SafeCurrent">>      \* mutant
SafetyPoints == <<"SafeCurrent", "MaxReceiveTimeSec">>      \* in this order
PointNames == {"SafeCurrent", "MaxReceiveTimeSec"}
ProfileSet == {Profiles[i] : i \in DOMAIN Profiles}

ASSUME DeviceAssumption ==
  /\ Configured \subseteq PointNames
  /\ Declares \in [1..MaxVersion -> SUBSET (ProfileSet \X (PointNames \cup {"other"}))]
  /\ {None, Fallback} \cap Currents = {} /\ None # Fallback /\ None \notin EvseProfiles
  /\ Profiles \in Seq(ProfileSet)
  /\ DeviceFaults \subseteq {"refused", "describe", "write", "unacked"}

VARIABLES
  step,          \* none, connect, describe, a point of SafetyPoints, done, failed
  known, left,   \* candidate_profiles, and those the present loop has not tried
  charger,       \* the points the charger has a value for
  setting,       \* the current the charger applies: of the engine, or Fallback
  last,          \* _last_values of the engine for the charger
  clean          \* history: since the charger has power, nothing has failed

link == <<step, known, left, charger, setting, last, clean>>
allVars == <<vars, link>>

Declared(p, point) == <<p, point>> \in Declares[xml.version]
HasProfile(p) == \E point \in PointNames \cup {"other"} : Declared(p, point)
HasEvseProfile(p) == p \in EvseProfiles /\ HasProfile(p)

(* The loop over the candidates for the i-th point or a later one.         *)
LoopFrom(i) ==
  LET given == {j \in i..2 : SafetyPoints[j] \in Configured}
  IN  IF given = {} THEN step' = "done" /\ left' = {}
      ELSE step' = SafetyPoints[Min(given)] /\ left' = known'
Rest == left \ {Min(left)}
NextLoopGoesOn ==                \* mutant: one iterator for both loops
  IF step = SafetyPoints[1] /\ Rest # {}
  THEN step' = SafetyPoints[2] /\ left' = Rest
  ELSE step' = "done" /\ left' = {}
NextLoop == LoopFrom(IF step = SafetyPoints[1] THEN 2 ELSE 3)

-----------------------------------------------------------------------------
(* The cache, and a connection that begins once the XML is there.          *)
Resolves ==
  /\ Next
  /\ UNCHANGED <<charger, setting, clean>>
  /\ IF phase # "up" /\ phase' = "up"
     THEN step' = "connect" /\ known' = {} /\ left' = {} /\ last' = None
     ELSE IF phase' = "down"
     THEN step' = "none" /\ known' = {} /\ left' = {} /\ last' = None
     ELSE UNCHANGED <<step, known, left, last>>

Connects ==
  /\ step = "connect"
  /\ \/ step' = "describe"
     \/ "refused" \in DeviceFaults /\ step' = "failed"
  /\ UNCHANGED <<vars, known, left, charger, setting, last, clean>>

(* describe(), whose failure leaves no known profile.                      *)
Describes ==
  /\ step = "describe"
  /\ \E ok \in BOOLEAN :
       /\ ok \/ "describe" \in DeviceFaults
       /\ clean' = (clean /\ ok)
       /\ LET found == {i \in DOMAIN Profiles : ok /\ HasEvseProfile(Profiles[i])}
          IN  known' = IF found = {} THEN {0} ELSE found
  /\ LoopFrom(1)
  /\ UNCHANGED <<vars, charger, setting, last>>

(* write_if_exists for the next candidate: True ends the loop; a point that *)
(* is not declared and every error are False, and the next one is tried.   *)
Configures ==
  /\ step \in PointNames /\ left # {} /\ UNCHANGED known
  /\ LET point == <<ProfileAt(Min(left)), step>>
         there == Declared(ProfileAt(Min(left)), step)
     IN  \/ /\ there /\ charger' = charger \cup {point}
            /\ NextLoop /\ UNCHANGED clean
         \/ /\ \/ ~there /\ UNCHANGED <<charger, clean>>
               \/ /\ there /\ "write" \in DeviceFaults
                  /\ clean' = FALSE /\ UNCHANGED charger
               \/ /\ there /\ "unacked" \in DeviceFaults
                  /\ clean' = FALSE /\ charger' = charger \cup {point}
            /\ IF Rest # {} THEN left' = Rest /\ UNCHANGED step ELSE NextLoop
  /\ UNCHANGED <<vars, setting, last>>

(* The rules engine skips a value it believes the charger has.             *)
EngineSets(c) ==
  /\ step = "done" /\ c # last
  /\ last' = c /\ setting' = c
  /\ UNCHANGED <<vars, step, known, left, charger, clean>>

-----------------------------------------------------------------------------
(* The charger.                                                            *)

(* It has received nothing for its timeout.                                *)
FallsBack ==
  /\ \E p \in ProfileSet : <<p, "MaxReceiveTimeSec">> \in charger
  /\ setting \in Currents /\ setting' = Fallback
  /\ UNCHANGED <<vars, step, known, left, charger, last, clean>>

PowerCut ==
  /\ charger # {} \/ ~clean
  /\ charger' = {} /\ setting' = None
  /\ clean' = (step \in {"none", "connect", "describe", "failed"})
  /\ UNCHANGED <<vars, step, known, left, last>>

DeviceInit ==
  /\ Init
  /\ step = "none" /\ known = {} /\ left = {}
  /\ charger = {} /\ setting = None /\ last = None /\ clean = TRUE

DeviceNext ==
  \/ Resolves \/ Connects \/ Describes \/ Configures
  \/ \E c \in Currents : EngineSets(c)
  \/ FallsBack \/ PowerCut

DeviceSpec == DeviceInit /\ [][DeviceNext]_allVars

-----------------------------------------------------------------------------
(* Properties.                                                             *)

(* Types; a device is connected only with a description, and no profile    *)
(* but those of chargers is written to.                                    *)
DeviceTypeOK ==
  /\ TypeOK
  /\ step \in {"none", "connect", "describe", "done", "failed"} \cup PointNames
  /\ step # "none" <=> phase = "up"
  /\ known \subseteq {i \in 0..Len(Profiles) : ProfileAt(i) \in EvseProfiles} /\ left \subseteq known
  /\ charger \subseteq EvseProfiles \X PointNames
  /\ setting \in Currents \cup {None, Fallback} /\ last \in Currents \cup {None}
  /\ clean \in BOOLEAN

(* When nothing failed and the charger has had power, a configured device  *)
(* has every point that is given, in the first of the profiles, as the     *)
(* description in use orders them, that declares it.                       *)
Holder(point) ==
  LET I == {i \in DOMAIN Profiles : Profiles[i] \in EvseProfiles /\ Declared(Profiles[i], point)}
  IN  IF I = {} THEN None ELSE Profiles[Min(I)]

WatchdogIsArmed ==
  step = "done" /\ clean =>
    \A point \in Configured :
      Holder(point) # None => <<Holder(point), point>> \in charger

(* Wherever the process is killed and whichever descriptions it has had, a *)
(* charger whose timeout is set has been given a safe current, unless a    *)
(* call failed.  (Of a description that declares a timeout and no safe     *)
(* current, nothing is said.)                                              *)
TimeoutHasSafeCurrent ==
  clean /\ Configured = PointNames =>
    \A p \in ProfileSet : <<p, "MaxReceiveTimeSec">> \in charger =>
      \E q \in ProfileSet : <<q, "SafeCurrent">> \in charger

(* The claim of a comment: an operator learns that the watchdog is not     *)
(* armed.  Nothing is reported in step "done", whatever failed.            *)
DoneMeansArmed ==
  step = "done" =>
    \A point \in Configured :
      Holder(point) # None => \E p \in ProfileSet : <<p, point>> \in charger

(* The claim of the docstring: the charger falls back when the EMS goes    *)
(* silent.  An engine that is satisfied is silent to it, too, and believes *)
(* in the current of before.                                               *)
ChargerFollows == last # None /\ setting # None => setting = last

(* The safe current and the timeout belong to one profile.                 *)
OneProfile ==
  step = "done" /\ clean /\ charger # {} =>
    \A p, q \in charger : p[1] = q[1]
=============================================================================
