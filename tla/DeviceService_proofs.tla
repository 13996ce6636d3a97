------------------------ MODULE DeviceService_proofs ------------------------
(* Theorems about DeviceService, for every charger, description, set of    *)
(* faults and history of the cache the description comes from.             *)
EXTENDS DeviceService, WellFoundedInduction, TLAPS

(* The least of some places.                                               *)
LEMMA MinIsLeast ==
  ASSUME NEW S \in SUBSET Nat, S # {}
  PROVE  Min(S) \in S /\ \A i \in S : Min(S) <= i
<1> DEFINE R == OpToRel(<, Nat)
<1>1. PICK m \in S : \A k \in S : ~(<<k, m>> \in R)
  <2> HIDE DEF R
  <2> QED BY NatLessThanWellFounded, WFMin DEF R
<1>2. \A i, j \in Nat : <<i, j>> \in R <=> i < j
  BY DEF OpToRel
<1> HIDE DEF R
<1>3. \A i \in S : m <= i
  <2>1. ASSUME NEW i \in S PROVE m <= i
    <3>1. ~(<<i, m>> \in R) /\ i \in Nat /\ m \in Nat
      BY <1>1
    <3> QED BY <1>2, <3>1
  <2> QED BY <2>1
<1> QED BY <1>1, <1>3 DEF Min

-----------------------------------------------------------------------------
(* Of EidCache, for every time to live, library and history.               *)

(* Why a fresh cache is current enough: no later version is older than the *)
(* file, and what was returned is not from the future.                     *)
FileInv ==
  file # None => /\ file.day <= today
                 /\ \A v \in (file.version + 1)..Current : file.day <= published[v]

XmlInv == xml # None => xml.at <= today

(* A file that is being written exists.                                    *)
WriteInv == phase = "write" => file # None

CacheInv == TypeOK /\ FileInv /\ XmlInv /\ WriteInv /\ CorrectionsFlowIn

(* The first state has no file and no XML.                                 *)
LEMMA InitCacheInv == Init => CacheInv
<1> SUFFICES ASSUME Init PROVE CacheInv
  OBVIOUS
<1>1. /\ <<0>> \in Seq(Nat) /\ Len(<<0>>) = 1
      /\ published = <<0>>
  BY DEF Init
<1>2. online \in BOOLEAN /\ cached \in BOOLEAN
  BY Zenon DEF Init
<1>3. published \in Seq(Nat) /\ Current > 0
  BY <1>1 DEF Current
<1>4. /\ today \in Nat /\ phase \in {"down", "resolve", "write", "up", "failed"}
      /\ file = None /\ xml = None
  BY DEF Init
<1>5. TypeOK
  BY <1>2, <1>3, <1>4, Zenon DEF TypeOK
<1>6. QED
  BY <1>5 DEF Init, CacheInv, FileInv, XmlInv, WriteInv, CorrectionsFlowIn

(* What a file younger than Ttl holds meets CorrectionsFlowIn.             *)
LEMMA FreshIsCurrent ==
  ASSUME CacheInv, Fresh
  PROVE  \A v \in (file.version + 1)..Current : today < published[v] + Ttl
<1>1. /\ file \in [version : 1..Current, day : Nat, whole : BOOLEAN]
      /\ today - file.day < Ttl /\ today \in Nat /\ published \in Seq(Nat)
      /\ \A v \in (file.version + 1)..Current : file.day <= published[v]
  BY DEF CacheInv, TypeOK, FileInv, Fresh
<1>2. TAKE v \in (file.version + 1)..Current
<1>3. published[v] \in Nat /\ file.day <= published[v]
  BY <1>1, <1>2 DEF Current
<1>4. QED
  BY <1>1, <1>3, EidCacheAssumption

(* Every step keeps the invariant.                                         *)
LEMMA StepCacheInv == CacheInv /\ [Next]_vars => CacheInv'
<1> SUFFICES ASSUME CacheInv, [Next]_vars PROVE CacheInv'
  OBVIOUS
<1> USE EidCacheAssumption DEF CacheInv, Current, WriteInv
<1>1. CASE Boot
  BY <1>1 DEF Boot, TypeOK, FileInv, XmlInv, CorrectionsFlowIn
<1>2. CASE CacheHit
  <2>1. file \in [version : 1..Current, day : Nat, whole : BOOLEAN]
    BY <1>2 DEF CacheHit, Fresh, TypeOK
  <2>2. TypeOK' /\ XmlInv' /\ FileInv'
    BY <1>2, <2>1 DEF CacheHit, Connect, FromFile, TypeOK, FileInv, XmlInv
  <2>3. CorrectionsFlowIn'
    BY <1>2, <2>1, FreshIsCurrent DEF CacheHit, Connect, FromFile, CorrectionsFlowIn
  <2>4. WriteInv'
    BY <1>2 DEF CacheHit, Fresh
  <2>5. QED
    BY <2>2, <2>3, <2>4
<1>3. CASE Download
  <2>1. xml' = Fetched /\ published' = published /\ today' = today
    BY <1>3 DEF Download, Connect
  <2>2. /\ Current \in 1..Current /\ today \in Nat /\ xml'.at = today
        /\ xml'.version = Current
        /\ Fetched \in [version : 1..Current, whole : BOOLEAN, at : Nat, online : BOOLEAN]
    BY <2>1 DEF TypeOK, Fetched
  <2>3. XmlInv' /\ CorrectionsFlowIn'
    BY <2>1, <2>2 DEF XmlInv, CorrectionsFlowIn
  <2>4. phase' \in {"write", "up"}
    BY <1>3 DEF Download, Connect, Fetched
  <2>5. CASE file' = [version |-> Current, day |-> today, whole |-> FALSE]
    <3>1. TypeOK'
      BY <1>3, <2>1, <2>2, <2>4, <2>5 DEF Download, TypeOK
    <3>2. file' \in [version : Nat, day : Nat, whole : BOOLEAN]
      BY <2>2, <2>5
    <3>3. file'.version = Current /\ file'.day = today /\ file' # None
      BY <2>5, <3>2
    <3>4. FileInv' /\ WriteInv'
      BY <2>1, <2>2, <3>3 DEF FileInv, TypeOK
    <3>5. QED
      BY <2>3, <3>1, <3>4
  <2>6. CASE file' = file /\ Connect(Fetched)
    <3>1. TypeOK' /\ FileInv' /\ WriteInv'
      BY <1>3, <2>1, <2>2, <2>4, <2>6 DEF Download, TypeOK, FileInv, Connect, Fetched
    <3>2. QED
      BY <2>3, <3>1
  <2>7. QED
    BY <1>3, <2>5, <2>6 DEF Download
<1>4. CASE Stored
  <2>1. file \in [version : 1..Current, day : Nat, whole : BOOLEAN]
    BY <1>4 DEF Stored, TypeOK
  <2>2. /\ file' \in [version : 1..Current, day : Nat, whole : BOOLEAN]
        /\ file'.version = file.version /\ file'.day = file.day
        /\ cached' \in BOOLEAN /\ phase' = "up"
        /\ today' = today /\ online' = online /\ published' = published /\ xml' = xml
    BY <1>4, <2>1 DEF Stored, TypeOK
  <2>3. TypeOK' /\ FileInv'
    BY <1>4, <2>1, <2>2 DEF Stored, TypeOK, FileInv
  <2>4. XmlInv' /\ WriteInv' /\ CorrectionsFlowIn'
    BY <2>2 DEF XmlInv, CorrectionsFlowIn
  <2>5. QED
    BY <2>3, <2>4
<1>5. CASE Stale
  <2>1. file \in [version : 1..Current, day : Nat, whole : BOOLEAN]
    BY <1>5 DEF Stale, TypeOK
  <2>2. QED
    BY <1>5, <2>1 DEF Stale, Connect, FromFile, TypeOK, FileInv, XmlInv, CorrectionsFlowIn
<1>6. CASE Unresolved
  BY <1>6 DEF Unresolved, TypeOK, FileInv, XmlInv, CorrectionsFlowIn
<1>7. CASE Stop
  BY <1>7 DEF Stop, TypeOK, FileInv, XmlInv, CorrectionsFlowIn
<1>8. CASE DeleteFile
  BY <1>8 DEF DeleteFile, TypeOK, FileInv, XmlInv, CorrectionsFlowIn
<1>9. CASE Publish
  <2>1. /\ published' = Append(published, today) /\ today' = today /\ today \in Nat
        /\ file' = file /\ xml' = xml /\ published \in Seq(Nat)
    BY <1>9 DEF Publish, TypeOK
  <2>2. /\ published' \in Seq(Nat) /\ Len(published') = Len(published) + 1
        /\ published'[Len(published) + 1] = today
        /\ \A v \in 1..Len(published) : published'[v] = published[v]
    BY <2>1
  <2>3. TypeOK' /\ XmlInv'
    BY <1>9, <2>1, <2>2 DEF Publish, TypeOK, XmlInv
  <2>4. FileInv'
    BY <2>1, <2>2 DEF FileInv, TypeOK
  <2>5. CorrectionsFlowIn'
    BY <2>1, <2>2 DEF CorrectionsFlowIn, XmlInv, TypeOK
  <2>6. WriteInv'
    BY <1>9 DEF Publish
  <2>7. QED
    BY <2>3, <2>4, <2>5, <2>6
<1>10. CASE Network
  BY <1>10 DEF Network, TypeOK, FileInv, XmlInv, CorrectionsFlowIn
<1>11. CASE Tick
  BY <1>11 DEF Tick, TypeOK, FileInv, XmlInv, CorrectionsFlowIn
<1>12. CASE UNCHANGED vars
  BY <1>12 DEF vars, TypeOK, FileInv, XmlInv, CorrectionsFlowIn
<1>13. QED
  BY <1>1, <1>2, <1>3, <1>4, <1>5, <1>6, <1>7, <1>8, <1>9, <1>10, <1>11, <1>12 DEF Next

(* The description of a device connected with the library in reach is at   *)
(* most Ttl days out of date, whatever kills, full disks and days happen.  *)
THEOREM CorrectionsCorrect == Spec => [](TypeOK /\ CorrectionsFlowIn)
<1>1. CacheInv => TypeOK /\ CorrectionsFlowIn
  BY DEF CacheInv
<1>2. QED
  BY <1>1, InitCacheInv, StepCacheInv, PTL DEF Spec

-----------------------------------------------------------------------------
(* A stored download stays until it is deleted, be it whole or torn.       *)
BootInv == (cached => file # None) /\ StillBoots

(* At first nothing was stored.                                            *)
LEMMA InitBootInv == Init => BootInv
  BY DEF Init, BootInv, StillBoots

(* Every step keeps the file of a stored download, and uses it.            *)
LEMMA StepBootInv == CacheInv /\ BootInv /\ [Next]_vars => BootInv'
<1> SUFFICES ASSUME CacheInv, BootInv, [Next]_vars PROVE BootInv'
  OBVIOUS
<1> USE DEF BootInv, StillBoots
<1>1. CASE Boot
  BY <1>1 DEF Boot
<1>2. CASE CacheHit
  BY <1>2 DEF CacheHit, Connect, FromFile
<1>3. CASE Download
  <2>1. CASE file' = [version |-> Current, day |-> today, whole |-> FALSE]
    <3>1. file' \in [version : Nat, day : Nat, whole : BOOLEAN] /\ ~file'.whole
      BY <2>1 DEF CacheInv, TypeOK, Current
    <3>2. QED
      BY <3>1, EidCacheAssumption
  <2>2. CASE file' = file /\ Connect(Fetched)
    BY <1>3, <2>2 DEF Download, Connect, Fetched
  <2>3. QED
    BY <1>3, <2>1, <2>2 DEF Download
<1>4. CASE Stored
  <2>1. file \in [version : Nat, day : Nat, whole : BOOLEAN] /\ phase' = "up"
    BY <1>4 DEF Stored, CacheInv, WriteInv, TypeOK, Current
  <2>2. CASE file' = [file EXCEPT !.whole = TRUE]
    <3>1. file' \in [version : Nat, day : Nat, whole : BOOLEAN]
      BY <2>1, <2>2
    <3>2. QED
      BY <2>1, <3>1, EidCacheAssumption
  <2>3. CASE UNCHANGED <<file, cached>>
    BY <2>1, <2>3
  <2>4. QED
    BY <1>4, <2>2, <2>3 DEF Stored
<1>5. CASE Stale
  BY <1>5 DEF Stale, Connect, FromFile
<1>6. CASE Unresolved
  BY <1>6 DEF Unresolved
<1>7. CASE Stop
  BY <1>7 DEF Stop
<1>8. CASE DeleteFile
  BY <1>8 DEF DeleteFile
<1>9. CASE Publish
  BY <1>9 DEF Publish
<1>10. CASE Network
  BY <1>10 DEF Network
<1>11. CASE Tick
  BY <1>11 DEF Tick
<1>12. CASE UNCHANGED vars
  BY <1>12 DEF vars
<1>13. QED
  BY <1>1, <1>2, <1>3, <1>4, <1>5, <1>6, <1>7, <1>8, <1>9, <1>10, <1>11, <1>12 DEF Next

(* "An offline add-on still boots": however long ago a description was     *)
(* stored, a start finds it and the device comes up, unless it is torn.    *)
THEOREM BootsOffline == Spec => []StillBoots
<1>1. BootInv => StillBoots
  BY DEF BootInv
<1>2. QED
  BY <1>1, InitCacheInv, StepCacheInv, InitBootInv, StepBootInv, PTL DEF Spec

-----------------------------------------------------------------------------
(* The service on top of the cache.                                        *)

(* The service only reads what the cache resolved: its steps are those of  *)
(* EidCache, or leave the cache alone.                                     *)
LEMMA CacheStep == [DeviceNext]_allVars => [Next]_vars
BY DEF DeviceNext, Resolves, Connects, Describes, Configures, EngineSets, FallsBack, PowerCut,
   allVars

(* What EidCache promises of the descriptions holds with the service on it.*)
THEOREM ServiceKeepsCache == DeviceSpec => Spec
<1>1. DeviceInit => Init
  BY DEF DeviceInit
<1> QED BY <1>1, CacheStep, PTL DEF DeviceSpec, Spec

(* A device in use keeps its description until the add-on stops.           *)
LEMMA InUse ==
  ASSUME Next, phase = "up"
  PROVE  phase' = "down" \/ (phase' = "up" /\ xml' = xml)
<1>1. ~Boot /\ ~CacheHit /\ ~Download /\ ~Stored /\ ~Stale /\ ~Unresolved
  BY DEF Boot, CacheHit, Download, Stored, Stale, Unresolved
<1>2. Stop => phase' = "down"
  BY DEF Stop
<1>3. DeleteFile \/ Publish \/ Network \/ Tick => phase' = "up" /\ xml' = xml
  BY DEF DeleteFile, Publish, Network, Tick
<1>4. Boot \/ CacheHit \/ Download \/ Stored \/ Stale \/ Unresolved \/ Stop
      \/ DeleteFile \/ Publish \/ Network \/ Tick
  BY DEF Next
<1> QED BY <1>1, <1>2, <1>3, <1>4

(* The description in use is a version of the library.                     *)
VersionInv == /\ Current <= MaxVersion
              /\ phase \in {"write", "up"} => xml.version \in 1..MaxVersion

(* The version in use is one the library has published.                    *)
LEMMA VersionStep == ASSUME CacheInv, VersionInv, [Next]_vars PROVE VersionInv'
<1> USE DEF VersionInv
<1>1. /\ Current \in Nat /\ Current > 0 /\ published \in Seq(Nat) /\ MaxVersion \in Nat
      /\ file # None => file.version \in 1..Current
  BY EidCacheAssumption DEF CacheInv, TypeOK, Current
<1>2. CASE CacheHit \/ Stale
  <2>1. /\ UNCHANGED published /\ xml'.version = file.version /\ file # None
    BY <1>2 DEF CacheHit, Stale, Fresh, Connect, FromFile
  <2> QED BY <1>1, <2>1 DEF Current
<1>3. CASE Download
  <2>1. UNCHANGED published /\ xml'.version = Current
    BY <1>3 DEF Download, Connect, Fetched
  <2> QED BY <1>1, <2>1 DEF Current
<1>4. CASE Publish
  <2>1. Len(published') = Len(published) + 1
    BY <1>1, <1>4 DEF Publish
  <2> QED BY <1>1, <1>4, <2>1 DEF Publish, Current
<1>5. CASE Boot \/ Unresolved \/ Stop
  BY <1>5 DEF Boot, Unresolved, Stop, Current
<1>6. CASE Stored
  BY <1>6 DEF Stored, Current
<1>7. CASE DeleteFile \/ Network \/ Tick \/ UNCHANGED vars
  BY <1>7 DEF DeleteFile, Network, Tick, vars, Current
<1> QED BY <1>2, <1>3, <1>4, <1>5, <1>6, <1>7 DEF Next

-----------------------------------------------------------------------------
(* The two loops.                                                          *)

Found == {i \in DOMAIN Profiles : HasEvseProfile(Profiles[i])}
Holding(point) ==
  {i \in DOMAIN Profiles : Profiles[i] \in EvseProfiles /\ Declared(Profiles[i], point)}

(* A loop begins, or the last one is over.                                 *)
Enters(point) == step' = point /\ left' = known'
Leaves == step' = "done" /\ left' = {}

(* The first loop is that of the first point given, if any is.             *)
LEMMA FirstLoop ==
  ASSUME LoopFrom(1)
  PROVE  \/ "SafeCurrent" \in Configured /\ Enters("SafeCurrent")
         \/ /\ "SafeCurrent" \notin Configured
            /\ "MaxReceiveTimeSec" \in Configured /\ Enters("MaxReceiveTimeSec")
         \/ Configured \cap PointNames = {} /\ Leaves
<1> DEFINE given == {j \in 1..2 : SafetyPoints[j] \in Configured}
<1>1. /\ 1 \in given <=> "SafeCurrent" \in Configured
      /\ 2 \in given <=> "MaxReceiveTimeSec" \in Configured
      /\ given \subseteq {1, 2}
  BY DEF SafetyPoints
<1>2. IF given = {} THEN Leaves ELSE step' = SafetyPoints[Min(given)] /\ left' = known'
  BY DEF LoopFrom, Leaves
<1> HIDE DEF given
<1>3. given # {} => Min(given) \in given /\ \A j \in given : Min(given) <= j
  BY <1>1, MinIsLeast
<1>4. /\ 1 \in given => Min(given) = 1
      /\ 1 \notin given /\ 2 \in given => Min(given) = 2
      /\ 1 \notin given /\ 2 \notin given => given = {}
  <2>1. given # {} => Min(given) \in {1, 2}
    BY <1>1, <1>3
  <2> QED BY <1>1, <1>3, <2>1
<1> QED BY <1>1, <1>2, <1>4 DEF SafetyPoints, PointNames, Enters

(* What comes after the loop of a point.                                   *)
LEMMA LaterLoop ==
  ASSUME step \in PointNames, NextLoop
  PROVE  \/ /\ step = "SafeCurrent"
            /\ "MaxReceiveTimeSec" \in Configured /\ Enters("MaxReceiveTimeSec")
         \/ /\ step = "MaxReceiveTimeSec" \/ "MaxReceiveTimeSec" \notin Configured
            /\ Leaves
<1>1. CASE step = "SafeCurrent"
  <2> DEFINE given == {j \in 2..2 : SafetyPoints[j] \in Configured}
  <2>1. given = IF "MaxReceiveTimeSec" \in Configured THEN {2} ELSE {}
    BY DEF SafetyPoints
  <2>2. IF given = {} THEN Leaves ELSE step' = SafetyPoints[Min(given)] /\ left' = known'
    BY <1>1 DEF NextLoop, LoopFrom, SafetyPoints, Leaves
  <2> HIDE DEF given
  <2>3. Min({2}) = 2
    BY MinIsLeast
  <2> QED BY <1>1, <2>1, <2>2, <2>3 DEF SafetyPoints, Enters
<1>2. CASE step = "MaxReceiveTimeSec"
  <2>1. {j \in 3..2 : SafetyPoints[j] \in Configured} = {}
    OBVIOUS
  <2> QED BY <1>2, <2>1 DEF NextLoop, LoopFrom, SafetyPoints, Leaves
<1> QED BY <1>1, <1>2 DEF PointNames

-----------------------------------------------------------------------------
(* Types.                                                                  *)

Places == {i \in 0..Len(Profiles) : ProfileAt(i) \in EvseProfiles}
LinkType ==
  /\ step \in {"none", "connect", "describe", "done", "failed"} \cup PointNames
  /\ step # "none" <=> phase = "up"
  /\ known \subseteq Places /\ left \subseteq known
  /\ step \in PointNames => step \in Configured /\ left # {}
  /\ charger \subseteq EvseProfiles \X PointNames
  /\ setting \in Currents \cup {None, Fallback} /\ last \in Currents \cup {None}
  /\ clean \in BOOLEAN

(* The candidate that is tried is one of the places, and the first left.   *)
LEMMA FirstLeft ==
  ASSUME LinkType, left # {}
  PROVE  /\ Min(left) \in left /\ \A i \in left : Min(left) <= i
         /\ Min(left) \in Places /\ Rest \subseteq left
<1>1. left \in SUBSET Nat
  BY DeviceAssumption DEF LinkType, Places
<1> QED BY <1>1, MinIsLeast DEF LinkType, Rest

(* The places found are places; that of the default is not among them.     *)
LEMMA FoundPlaces == Found \subseteq Places /\ 0 \in Places /\ 0 \notin Found
<1>1. DOMAIN Profiles = 1..Len(Profiles) /\ Len(Profiles) \in Nat
  BY DeviceAssumption
<1>2. 0 \in Places
  BY <1>1 DEF Places, ProfileAt, Default, EvseProfiles
<1>3. ASSUME NEW i \in Found PROVE i \in Places /\ i # 0
  BY <1>1 DEF Found, HasEvseProfile, Places, ProfileAt
<1> QED BY <1>2, <1>3

(* Every step keeps the types.                                             *)
LEMMA LinkTypeStep == ASSUME LinkType, [DeviceNext]_allVars PROVE LinkType'
<1>1. CASE Resolves
  <2>1. UNCHANGED <<charger, setting, clean>>
    BY <1>1 DEF Resolves
  <2>2. CASE phase # "up" /\ phase' = "up"
    BY <1>1, <2>1, <2>2 DEF Resolves, LinkType, PointNames
  <2>3. CASE ~(phase # "up" /\ phase' = "up") /\ phase' = "down"
    BY <1>1, <2>1, <2>3 DEF Resolves, LinkType, PointNames
  <2>4. CASE ~(phase # "up" /\ phase' = "up") /\ phase' # "down"
    <3>1. UNCHANGED <<step, known, left, last>> /\ (phase = "up" => phase' = "up")
      BY <1>1, <2>4, InUse DEF Resolves
    <3> QED BY <2>1, <2>4, <3>1 DEF LinkType
  <2> QED BY <2>2, <2>3, <2>4
<1>2. CASE Connects
  BY <1>2 DEF Connects, LinkType, vars, PointNames
<1>3. CASE Describes
  <2>1. /\ step = "describe" /\ clean' \in BOOLEAN /\ LoopFrom(1)
        /\ UNCHANGED <<phase, charger, setting, last>>
    BY <1>3 DEF Describes, LinkType, vars
  <2>2. PICK ok \in BOOLEAN :
          LET found == {i \in DOMAIN Profiles : ok /\ HasEvseProfile(Profiles[i])}
          IN  known' = IF found = {} THEN {0} ELSE found
    BY <1>3 DEF Describes
  <2>3. known' = {0} \/ (known' = Found /\ Found # {})
    <3>1. ok => {i \in DOMAIN Profiles : ok /\ HasEvseProfile(Profiles[i])} = Found
      BY DEF Found
    <3>2. ~ok => {i \in DOMAIN Profiles : ok /\ HasEvseProfile(Profiles[i])} = {}
      OBVIOUS
    <3>3. ok \/ ~ok
      OBVIOUS
    <3> QED BY <2>2, <3>1, <3>2, <3>3, Zenon
  <2>4. known' \subseteq Places /\ known' # {}
    BY <2>3, FoundPlaces
  <2>5. left' \subseteq known' /\ step' \in PointNames \cup {"done"}
        /\ (step' \in PointNames => step' \in Configured /\ left' # {})
    BY <2>1, <2>4, FirstLoop DEF Enters, Leaves, PointNames
  <2> QED BY <2>1, <2>4, <2>5 DEF LinkType, PointNames
<1>4. CASE Configures
  <2>1. /\ step \in PointNames /\ left # {} /\ known' = known /\ known # {}
        /\ UNCHANGED <<phase, setting, last>>
    BY <1>4 DEF Configures, LinkType, vars
  <2>2. <<ProfileAt(Min(left)), step>> \in EvseProfiles \X PointNames /\ Rest \subseteq left
    BY <2>1, FirstLeft DEF Places
  <2>3. charger' \subseteq EvseProfiles \X PointNames /\ clean' \in BOOLEAN
    BY <1>4, <2>2 DEF Configures, LinkType
  <2>4. NextLoop \/ (left' = Rest /\ Rest # {} /\ step' = step)
    <3>1. Rest # {} => (left' = Rest /\ step' = step) \/ NextLoop
      BY <1>4 DEF Configures
    <3>2. Rest = {} => NextLoop
      BY <1>4 DEF Configures
    <3> QED BY <3>1, <3>2, Zenon
  <2>5. left' \subseteq known /\ step' \in PointNames \cup {"done"}
        /\ (step' \in PointNames => step' \in Configured /\ left' # {})
    BY <2>1, <2>2, <2>4, LaterLoop DEF Enters, Leaves, PointNames, LinkType
  <2> QED BY <2>1, <2>3, <2>5 DEF LinkType, PointNames
<1>5. CASE \E c \in Currents : EngineSets(c)
  BY <1>5 DEF EngineSets, LinkType, vars
<1>6. CASE FallsBack
  BY <1>6 DEF FallsBack, LinkType, vars
<1>7. CASE PowerCut
  BY <1>7 DEF PowerCut, LinkType, vars
<1>8. CASE UNCHANGED allVars
  BY <1>8 DEF allVars, link, vars, LinkType
<1> QED BY <1>1, <1>2, <1>3, <1>4, <1>5, <1>6, <1>7, <1>8 DEF DeviceNext

-----------------------------------------------------------------------------
(* The loops reach the first profile that declares a point.                *)

Armed(point) ==
  point \in Configured /\ Holder(point) # None => <<Holder(point), point>> \in charger
Tried(point) == \A i \in known \ left : ~Declared(ProfileAt(i), point) /\ \A j \in left : i < j

(* While nothing has failed: the candidates are those of the description,   *)
(* the ones before the first left do not declare the point, and a point    *)
(* whose loop is over is set.                                              *)
LoopInv ==
  clean /\ step \in PointNames \cup {"done"} =>
    /\ known = IF Found = {} THEN {0} ELSE Found
    /\ step \in PointNames => Tried(step)
    /\ step \in {"MaxReceiveTimeSec", "done"} => Armed("SafeCurrent")
    /\ step = "done" => Armed("MaxReceiveTimeSec")

(* The holder of a point is the first that declares it.                    *)
LEMMA HolderIs ==
  ASSUME NEW point \in PointNames
  PROVE  /\ Holding(point) \subseteq Found
         /\ Holding(point) = {} => Holder(point) = None
         /\ \A i \in Holding(point) :
              (\A j \in Holding(point) : i <= j) => Holder(point) = ProfileAt(i)
<1>1. Holding(point) \subseteq Found
  BY DEF Holding, Found, HasEvseProfile, HasProfile
<1>2. Holder(point) = IF Holding(point) = {} THEN None ELSE Profiles[Min(Holding(point))]
  BY DEF Holder, Holding
<1>3. ASSUME NEW i \in Holding(point), \A j \in Holding(point) : i <= j
      PROVE  Holder(point) = ProfileAt(i)
  <2>1. Holding(point) \in SUBSET Nat /\ i # 0
    BY DeviceAssumption DEF Holding
  <2>2. Min(Holding(point)) \in Holding(point) /\ Min(Holding(point)) <= i
    BY <2>1, MinIsLeast
  <2>3. Min(Holding(point)) = i
    BY <1>3, <2>1, <2>2
  <2> QED BY <1>2, <2>1, <2>3 DEF ProfileAt
<1> QED BY <1>1, <1>2, <1>3

(* A candidate that declares the point, when none before it does, is the    *)
(* holder, unless there is none.                                           *)
LEMMA HitIsHolder ==
  ASSUME LinkType, LoopInv, clean, step \in PointNames, Declared(ProfileAt(Min(left)), step),
         Holder(step) # None
  PROVE  Holder(step) = ProfileAt(Min(left))
<1>1. /\ Min(left) \in left /\ \A i \in left : Min(left) <= i
      /\ Min(left) \in Places /\ left \subseteq known
  BY FirstLeft DEF LinkType
<1>2. /\ Holding(step) # {} /\ Holding(step) \subseteq Found /\ Found # {}
      /\ known = Found /\ Tried(step)
  BY HolderIs DEF LoopInv
<1>3. Min(left) \in Holding(step)
  BY <1>1, <1>2 DEF Found, Holding, Places, ProfileAt
<1>4. ASSUME NEW j \in Holding(step) PROVE Min(left) <= j
  <2>1. j # 0 /\ Declared(ProfileAt(j), step)
    BY DeviceAssumption DEF Holding, ProfileAt
  <2>2. j \in left
    BY <1>2, <2>1 DEF Tried
  <2> QED BY <1>1, <2>2
<1> QED BY <1>3, <1>4, HolderIs

(* When the last candidate does not declare it either, there is none.      *)
LEMMA NoneLeft ==
  ASSUME LinkType, LoopInv, clean, step \in PointNames, Rest = {},
         ~Declared(ProfileAt(Min(left)), step)
  PROVE  Holder(step) = None
<1>1. Tried(step) /\ (Found # {} => known = Found) /\ Holding(step) \subseteq Found
  BY HolderIs DEF LoopInv
<1>2. ASSUME NEW j \in Holding(step) PROVE FALSE
  <2>1. j # 0 /\ Declared(ProfileAt(j), step) /\ j \in known
    BY <1>1, DeviceAssumption DEF Holding, ProfileAt
  <2>2. j \in left
    BY <1>1, <2>1 DEF Tried
  <2> QED BY <2>1, <2>2 DEF Rest
<1> QED BY <1>2, HolderIs

(* While a device is in use, what its description declares stays.          *)
LEMMA SameDescription ==
  ASSUME xml' = xml
  PROVE  /\ \A p, point : Declared(p, point)' = Declared(p, point)
         /\ Found' = Found /\ \A point : Holder(point)' = Holder(point)
<1>1. \A p, point : Declared(p, point)' = Declared(p, point)
  BY DEF Declared
<1>2. Found' = Found
  BY <1>1 DEF Found, HasEvseProfile, HasProfile
<1>3. \A point : Holder(point)' = Holder(point)
  BY <1>1 DEF Holder
<1> QED BY <1>1, <1>2, <1>3

(* Every step keeps it.                                                    *)
LEMMA LoopInvStep == ASSUME LinkType, LoopInv, [DeviceNext]_allVars PROVE LoopInv'
<1>1. CASE Resolves
  <2>1. CASE phase = "up" /\ phase' = "up" /\ xml' = xml
    <3>1. UNCHANGED <<step, known, left, charger, clean>>
      BY <1>1, <2>1 DEF Resolves
    <3> QED BY <2>1, <3>1, SameDescription DEF LoopInv, Tried, Armed
  <2>2. CASE phase # "up" \/ phase' # "up"
    <3>1. step' \in {"none", "connect"}
      BY <1>1, <2>2, InUse DEF Resolves, LinkType
    <3> QED BY <3>1 DEF LoopInv, PointNames
  <2> QED BY <1>1, <2>1, <2>2, InUse DEF Resolves
<1>2. CASE Connects
  BY <1>2 DEF Connects, LoopInv, PointNames
<1>3. CASE Describes
  <2> SUFFICES ASSUME clean' PROVE LoopInv'
    BY DEF LoopInv
  <2>1. LoopFrom(1) /\ xml' = xml /\ charger' = charger
    BY <1>3 DEF Describes, vars
  <2>2. known' = IF Found = {} THEN {0} ELSE Found
    <3>1. {i \in DOMAIN Profiles : TRUE /\ HasEvseProfile(Profiles[i])} = Found
      BY DEF Found
    <3>2. \E ok \in BOOLEAN :
            /\ ok
            /\ LET found == {i \in DOMAIN Profiles : ok /\ HasEvseProfile(Profiles[i])}
               IN  known' = IF found = {} THEN {0} ELSE found
      BY <1>3 DEF Describes
    <3> QED BY <3>1, <3>2
  <2>3. known' = IF Found' = {} THEN {0} ELSE Found'
    BY <2>1, <2>2, SameDescription
  <2>4. ASSUME NEW point, point \notin Configured PROVE Armed(point)'
    BY <2>4 DEF Armed
  <2>5. left' = known' => Tried(step)'
    BY DEF Tried
  <2> QED BY <2>1, <2>3, <2>4, <2>5, FirstLoop DEF LoopInv, Enters, Leaves, PointNames
<1>4. CASE Configures
  <2> SUFFICES ASSUME clean' PROVE LoopInv'
    BY DEF LoopInv
  <2> DEFINE there == Declared(ProfileAt(Min(left)), step)
  <2>1. /\ step \in PointNames /\ left # {} /\ known' = known /\ xml' = xml /\ clean
        /\ charger \subseteq charger'
        /\ \/ there /\ charger' = charger \cup {<<ProfileAt(Min(left)), step>>} /\ NextLoop
           \/ ~there /\ Rest # {} /\ left' = Rest /\ step' = step
           \/ ~there /\ Rest = {} /\ NextLoop
    BY <1>4 DEF Configures, vars, LinkType
  <2>2. /\ known' = IF Found' = {} THEN {0} ELSE Found'
        /\ \A point : Armed(point) => Armed(point)'
    BY <2>1, SameDescription DEF LoopInv, Armed
  <2>3. CASE ~there /\ Rest # {} /\ left' = Rest /\ step' = step
    <3>1. left \in SUBSET Nat /\ Min(left) \in left /\ \A i \in left : Min(left) <= i
      BY <2>1, FirstLeft DEF LinkType, Places
    <3>2. Tried(step)'
      <4>1. ASSUME NEW i \in known \ Rest PROVE ~Declared(ProfileAt(i), step) /\ \A j \in Rest : i < j
        <5>1. Tried(step)
          BY <2>1 DEF LoopInv
        <5>2. CASE i \notin left
          BY <4>1, <5>1, <5>2 DEF Tried, Rest
        <5>3. CASE i \in left
          <6>1. i = Min(left)
            BY <4>1, <5>3 DEF Rest
          <6>2. ~Declared(ProfileAt(i), step)
            BY <2>3, <6>1
          <6>3. \A j \in Rest : j \in Nat /\ i <= j /\ j # i
            BY <3>1, <6>1 DEF Rest
          <6>4. i \in Nat
            BY <3>1, <6>1
          <6> QED BY <6>2, <6>3, <6>4
        <5> QED BY <5>2, <5>3
      <4> QED BY <2>1, <2>3, <4>1, SameDescription DEF Tried
    <3> QED BY <2>1, <2>2, <2>3, <3>2 DEF LoopInv, PointNames
  <2>4. CASE NextLoop /\ ((~there /\ Rest = {})
                         \/ (there /\ charger' = charger \cup {<<ProfileAt(Min(left)), step>>}))
    <3>0. PICK point \in PointNames : point = step
      BY <2>1
    <3>1. Armed(point)'
      <4>1. CASE ~there /\ Rest = {}
        <5>1. Holder(point) = None
          BY <2>1, <3>0, <4>1, NoneLeft
        <5> QED BY <2>1, <5>1, SameDescription DEF Armed
      <4>2. CASE there /\ charger' = charger \cup {<<ProfileAt(Min(left)), step>>}
        <5>1. Holder(point) # None => Holder(point) = ProfileAt(Min(left))
          BY <2>1, <3>0, <4>2, HitIsHolder
        <5>2. <<ProfileAt(Min(left)), point>> \in charger'
          BY <3>0, <4>2
        <5> QED BY <2>1, <5>1, <5>2, SameDescription DEF Armed
      <4> QED BY <2>4, <4>1, <4>2
    <3>2. CASE step = "SafeCurrent"
      <4>1. CASE "MaxReceiveTimeSec" \in Configured /\ Enters("MaxReceiveTimeSec")
        <5>1. Tried("MaxReceiveTimeSec")'
          BY <4>1 DEF Enters, Tried
        <5> QED BY <2>2, <3>0, <3>1, <3>2, <4>1, <5>1 DEF LoopInv, Enters, PointNames
      <4>2. CASE "MaxReceiveTimeSec" \notin Configured /\ Leaves
        <5>1. Armed("MaxReceiveTimeSec")'
          BY <4>2 DEF Armed
        <5> QED BY <2>2, <3>0, <3>1, <3>2, <4>2, <5>1 DEF LoopInv, Leaves, PointNames
      <4> QED BY <2>1, <2>4, <3>2, <4>1, <4>2, LaterLoop
    <3>3. CASE step = "MaxReceiveTimeSec"
      <4>1. Leaves
        BY <2>1, <2>4, <3>3, LaterLoop
      <4>2. Armed("SafeCurrent")'
        BY <2>1, <2>2, <3>3 DEF LoopInv
      <4> QED BY <2>2, <3>0, <3>1, <3>3, <4>1, <4>2 DEF LoopInv, Leaves, PointNames
    <3> QED BY <2>1, <3>2, <3>3 DEF PointNames
  <2> QED BY <2>1, <2>3, <2>4
<1>5. CASE (\E c \in Currents : EngineSets(c)) \/ FallsBack \/ UNCHANGED allVars
  <2>1. UNCHANGED <<xml, step, known, left, charger, clean>>
    BY <1>5 DEF EngineSets, FallsBack, allVars, link, vars
  <2> QED BY <2>1, SameDescription DEF LoopInv, Tried, Armed
<1>6. CASE PowerCut
  BY <1>6 DEF PowerCut, LoopInv, PointNames
<1> QED BY <1>1, <1>2, <1>3, <1>4, <1>5, <1>6 DEF DeviceNext

-----------------------------------------------------------------------------
(* The theorems.                                                           *)

LinkInv == CacheInv /\ VersionInv /\ LinkType /\ LoopInv

(* Nothing is connected at first.                                          *)
LEMMA LinkInvInit == DeviceInit => LinkInv
<1> SUFFICES ASSUME DeviceInit PROVE LinkInv
  OBVIOUS
<1>1. CacheInv
  BY InitCacheInv DEF DeviceInit
<1>2. VersionInv
  BY EidCacheAssumption DEF DeviceInit, Init, VersionInv, Current
<1>3. LinkType
  BY DEF DeviceInit, Init, LinkType, PointNames
<1>4. LoopInv
  BY DEF DeviceInit, LoopInv, PointNames
<1> QED BY <1>1, <1>2, <1>3, <1>4 DEF LinkInv

(* Every step keeps the four parts together.                               *)
LEMMA LinkInvStep == LinkInv /\ [DeviceNext]_allVars => LinkInv'
BY CacheStep, StepCacheInv, VersionStep, LinkTypeStep, LoopInvStep DEF LinkInv

(* ... so they hold in every state.                                        *)
LEMMA LinkInvAlways == DeviceSpec => []LinkInv
BY LinkInvInit, LinkInvStep, PTL DEF DeviceSpec

(* The types of the variables; a device is connected only with a           *)
(* description, and no profile but those of chargers is written to.        *)
THEOREM DeviceTypes == DeviceSpec => []DeviceTypeOK
<1>1. LinkInv => DeviceTypeOK
  BY DEF LinkInv, CacheInv, LinkType, Places, DeviceTypeOK
<1> QED BY <1>1, LinkInvAlways, PTL

(* The watchdog: whatever profiles a description has, in whatever order,   *)
(* the two loops of _configure_evse_watchdog set every given point in the  *)
(* first profile that declares it, when no call fails.                     *)
THEOREM WatchdogCorrect == DeviceSpec => []WatchdogIsArmed
<1>1. LinkInv => WatchdogIsArmed
  BY DeviceAssumption DEF LinkInv, LoopInv, Armed, WatchdogIsArmed, PointNames
<1> QED BY <1>1, LinkInvAlways, PTL

(* A description with a timeout for the charger has a safe current too.    *)
SafeWithTimeout ==
  \A v \in 1..MaxVersion :
    (\E p \in EvseProfiles : <<p, "MaxReceiveTimeSec">> \in Declares[v])
      => \E q \in EvseProfiles : <<q, "SafeCurrent">> \in Declares[v]

(* Then a timeout is written only to a charger with a safe current.        *)
LEMMA TimeoutStep ==
  ASSUME SafeWithTimeout, LinkInv, TimeoutHasSafeCurrent, [DeviceNext]_allVars
  PROVE  TimeoutHasSafeCurrent'
<1> SUFFICES ASSUME clean', Configured = PointNames, NEW p \in ProfileSet,
                    <<p, "MaxReceiveTimeSec">> \in charger'
             PROVE  \E q \in ProfileSet : <<q, "SafeCurrent">> \in charger'
  BY DEF TimeoutHasSafeCurrent
<1>1. CASE clean /\ <<p, "MaxReceiveTimeSec">> \in charger /\ charger \subseteq charger'
  BY <1>1 DEF TimeoutHasSafeCurrent
<1>2. CASE Configures
  <2> DEFINE point == <<ProfileAt(Min(left)), step>>
  <2>1. /\ clean /\ step \in PointNames /\ left # {}
        /\ \/ charger' = charger
           \/ Declared(ProfileAt(Min(left)), step) /\ charger' = charger \cup {point}
    BY <1>2 DEF Configures, LinkInv, LinkType
  <2>2. CASE <<p, "MaxReceiveTimeSec">> \in charger
    BY <1>1, <2>1, <2>2
  <2>3. CASE <<p, "MaxReceiveTimeSec">> \notin charger
    <3>1. step = "MaxReceiveTimeSec" /\ Declared(ProfileAt(Min(left)), "MaxReceiveTimeSec")
      BY <2>1, <2>3
    <3>2. ProfileAt(Min(left)) \in EvseProfiles /\ xml.version \in 1..MaxVersion
      BY <2>1, <3>1, FirstLeft DEF LinkInv, Places, LinkType, VersionInv, PointNames
    <3>3. PICK q \in EvseProfiles : Declared(q, "SafeCurrent")
      BY <3>1, <3>2 DEF SafeWithTimeout, Declared
    <3>4. q \in ProfileSet
      BY <3>2, <3>3, DeviceAssumption DEF Declared
    <3>5. PICK i \in DOMAIN Profiles : Profiles[i] = q
      BY <3>4 DEF ProfileSet
    <3>6. Holder("SafeCurrent") # None
      <4>1. i \in Holding("SafeCurrent") /\ Holding("SafeCurrent") \in SUBSET Nat
        BY <3>3, <3>5, DeviceAssumption DEF Holding
      <4>2. PICK m \in Holding("SafeCurrent") : \A j \in Holding("SafeCurrent") : m <= j
        BY <4>1, MinIsLeast
      <4>3. Holder("SafeCurrent") = Profiles[m] /\ Profiles[m] \in EvseProfiles
        BY <4>2, HolderIs, DeviceAssumption DEF Holding, ProfileAt, PointNames
      <4> QED BY <4>3, DeviceAssumption
    <3>7. <<Holder("SafeCurrent"), "SafeCurrent">> \in charger
      BY <2>1, <3>1, <3>6 DEF LinkInv, LoopInv, Armed, PointNames
    <3>8. Holder("SafeCurrent") \in ProfileSet
      <4>1. Holding("SafeCurrent") # {}
        BY <3>6, HolderIs DEF PointNames
      <4>2. PICK m \in Holding("SafeCurrent") : \A j \in Holding("SafeCurrent") : m <= j
        <5>1. Holding("SafeCurrent") \in SUBSET Nat
          BY DeviceAssumption DEF Holding
        <5> QED BY <4>1, <5>1, MinIsLeast
      <4>3. Holder("SafeCurrent") = Profiles[m]
        BY <4>2, HolderIs, DeviceAssumption DEF Holding, ProfileAt, PointNames
      <4> QED BY <4>2, <4>3 DEF Holding, ProfileSet
    <3> QED BY <2>1, <3>7, <3>8
  <2> QED BY <2>2, <2>3
<1>3. CASE Resolves \/ Connects \/ (\E c \in Currents : EngineSets(c)) \/ FallsBack
           \/ UNCHANGED allVars
  BY <1>1, <1>3 DEF Resolves, Connects, EngineSets, FallsBack, allVars, link
<1>4. CASE Describes
  BY <1>1, <1>4 DEF Describes
<1>5. CASE PowerCut
  BY <1>5 DEF PowerCut
<1> QED BY <1>2, <1>3, <1>4, <1>5 DEF DeviceNext

(* Wherever the process is killed, whatever is corrected in the            *)
(* description, and however often the charger loses power: its timeout is  *)
(* set only with a safe current to fall back to, unless a call failed.     *)
THEOREM TimeoutCorrect == ASSUME SafeWithTimeout PROVE DeviceSpec => []TimeoutHasSafeCurrent
<1>1. DeviceInit => TimeoutHasSafeCurrent
  BY DEF DeviceInit, TimeoutHasSafeCurrent
<1>2. LinkInv /\ TimeoutHasSafeCurrent /\ [DeviceNext]_allVars => TimeoutHasSafeCurrent'
  BY TimeoutStep
<1> QED BY <1>1, <1>2, LinkInvAlways, PTL DEF DeviceSpec
=============================================================================
