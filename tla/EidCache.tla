------------------------------ MODULE EidCache ------------------------------
(***************************************************************************)
(* The EID cache of SGrService: how the XML that describes a device is     *)
(* found when the add-on starts, with a library that publishes new         *)
(* versions and is not always reachable, over days, stops and kills.       *)
(*                                                                         *)
(* Versions are numbered, published[v] is the day of version v.  The cache *)
(* file is a record: its version, the day of its modification time and     *)
(* whether all of it was written.  An EID that is a path of the file       *)
(* system is left out.                                                     *)
(***************************************************************************)
EXTENDS Integers, Sequences

CONSTANTS
  None,
  Ttl,           \* EID_CACHE_TTL_DAYS
  MaxDay,        \* bound of the clock
  MaxVersion,    \* bound of the library
  Faults         \* "kill": the process dies anywhere, "disk": no space left

ASSUME EidCacheAssumption ==
  /\ Ttl \in Nat \ {0} /\ MaxDay \in Nat /\ MaxVersion \in Nat \ {0}
  /\ Faults \subseteq {"kill", "disk"}
  /\ None \notin [version : Nat, day : Nat, whole : BOOLEAN]

VARIABLES
  today, online, published,     \* the clock and the library
  file,                         \* <cache_path>/<eid>.xml
  phase,                        \* down, resolve, write, up, failed
  xml,                          \* what _resolve_eid returned (or will return)
  cached                        \* history: a download was stored, and not deleted

vars == <<today, online, published, file, phase, xml, cached>>

Current == Len(published)
Fetched == [version |-> Current, whole |-> TRUE, at |-> today, online |-> TRUE]
FromFile == [version |-> file.version, whole |-> file.whole, at |-> today, online |-> online]

(* _connect_device: a torn XML does not build.                             *)
Connect(x) == xml' = x /\ phase' = IF x.whole THEN "up" ELSE "failed"

FreshToTheDay == file # None /\ today - file.day <= Ttl     \* mutant: <= for <
Fresh == file # None /\ today - file.day < Ttl

-----------------------------------------------------------------------------
Boot ==
  /\ phase = "down" /\ phase' = "resolve" /\ xml' = None
  /\ UNCHANGED <<today, online, published, file, cached>>

(* 1. A cache hit within the time to live.                                 *)
CacheHit ==
  /\ phase = "resolve" /\ Fresh
  /\ Connect(FromFile)
  /\ UNCHANGED <<today, online, published, file, cached>>

(* 3. The library: write_text truncates the file, then writes it ...       *)
Download ==
  /\ phase = "resolve" /\ ~Fresh /\ online
  /\ \/ /\ file' = [version |-> Current, day |-> today, whole |-> FALSE]
        /\ phase' = "write" /\ xml' = Fetched
     \/ /\ "disk" \in Faults      \* the directory or the file cannot be made
        /\ UNCHANGED file /\ Connect(Fetched)
  /\ UNCHANGED <<today, online, published, cached>>

(* ... to its end, or as far as the disk allows.                           *)
Stored ==
  /\ phase = "write"
  /\ \/ file' = [file EXCEPT !.whole = TRUE] /\ cached' = TRUE
     \/ "disk" \in Faults /\ UNCHANGED <<file, cached>>
  /\ phase' = "up"
  /\ UNCHANGED <<today, online, published, xml>>

(* 4. The library is unreachable: the stale cache, or no device.           *)
StaleNever ==                       \* mutant: no fallback
  /\ phase = "resolve" /\ ~Fresh /\ ~online /\ phase' = "failed"
  /\ UNCHANGED <<today, online, published, file, xml, cached>>
Stale ==
  /\ phase = "resolve" /\ ~Fresh /\ ~online /\ file # None
  /\ Connect(FromFile)
  /\ UNCHANGED <<today, online, published, file, cached>>
Unresolved ==
  /\ phase = "resolve" /\ file = None /\ ~online
  /\ phase' = "failed"
  /\ UNCHANGED <<today, online, published, file, xml, cached>>

-----------------------------------------------------------------------------
Stop ==
  /\ \/ phase \in {"up", "failed"}
     \/ "kill" \in Faults /\ phase \in {"resolve", "write"}
  /\ phase' = "down" /\ xml' = None
  /\ UNCHANGED <<today, online, published, file, cached>>

(* The documented way to force a refresh.                                  *)
DeleteFile ==
  /\ phase # "write" /\ file # None /\ file' = None /\ cached' = FALSE
  /\ UNCHANGED <<today, online, published, phase, xml>>

Publish ==
  /\ Current < MaxVersion /\ published' = Append(published, today)
  /\ UNCHANGED <<today, online, file, phase, xml, cached>>

Network == online' = ~online /\ UNCHANGED <<today, published, file, phase, xml, cached>>

(* Resolving takes less than a day.                                        *)
Tick ==
  /\ today < MaxDay /\ phase \notin {"resolve", "write"} /\ today' = today + 1
  /\ UNCHANGED <<online, published, file, phase, xml, cached>>

Init ==
  /\ today = 0 /\ online \in BOOLEAN /\ published = <<0>>
  /\ file = None /\ phase = "down" /\ xml = None /\ cached = FALSE

Next ==
  \/ Boot \/ CacheHit \/ Download \/ Stored \/ Stale \/ Unresolved \/ Stop
  \/ DeleteFile \/ Publish \/ Network \/ Tick

Spec == Init /\ [][Next]_vars

-----------------------------------------------------------------------------
(* Properties.                                                             *)

(* Types.                                                                  *)
TypeOK ==
  /\ today \in Nat /\ online \in BOOLEAN /\ cached \in BOOLEAN
  /\ published \in Seq(Nat) /\ Current > 0
  /\ phase \in {"down", "resolve", "write", "up", "failed"}
  /\ file \in [version : 1..Current, day : Nat, whole : BOOLEAN] \cup {None}
  /\ xml \in [version : 1..Current, whole : BOOLEAN, at : Nat, online : BOOLEAN] \cup {None}

(* "Manufacturer corrections flow in automatically": a device that was     *)
(* connected while the library was reachable has no description that was   *)
(* superseded Ttl days before.                                             *)
CorrectionsFlowIn ==
  xml # None /\ xml.online =>
    \A v \in (xml.version + 1)..Current : xml.at < published[v] + Ttl

(* "An offline add-on still boots": once a download was stored, the XML of *)
(* the device is found at every start, unless a later one was torn.        *)
StillBoots == cached /\ file.whole => phase # "failed"

(* The same without a reservation: no kill and no full disk takes a stored *)
(* description away.                                                       *)
AlwaysBoots == cached => phase # "failed"

(* "Subsequent restarts are fully offline": the library is asked only when *)
(* there is no cached file.                                                *)
OfflineOnceCached == [][phase' = "write" /\ phase # "write" => file = None]_vars
=============================================================================
