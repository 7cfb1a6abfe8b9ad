------------------------------- MODULE Region -------------------------------
(***************************************************************************)
(* The life of the shared region and of the process that owns it: made     *)
(* under a name no control looks for, finished, renamed, declared running, *)
(* and removed (host/region.c, host/main.c), across orderly ends, kills    *)
(* and restarts; and the other way the program is run, --setsserial.       *)
(*                                                                         *)
(* Each run of hm2-host is a member of Hosts and makes one object, so an   *)
(* object is named by the run that made it.  One run lives at a time: the  *)
(* service manager that starts the next is external, and so is the core.   *)
(***************************************************************************)

CONSTANTS Hosts, None

ASSUME RegionAssumption == None \notin Hosts

VARIABLES
  pc,        \* where each run is
  linked,    \* the two names, and the object each refers to
  made,      \* how far each object is: "none", "empty", "declared", "finished"
  state,     \* cnc_outboard_channel_state of each object
  ownName,   \* region.name of each run
  core,      \* the object the core has mapped
  tool       \* a run of --setsserial: "off", "looked", "driving"

vars == <<pc, linked, made, state, ownName, core, tool>>

Names == {"region", "measuring"}
Steps == {"out", "started", "made", "declared", "measured", "named", "running",
          "left", "released", "failing", "gone", "killed"}
Ended == {"gone", "killed"}

Init ==
  /\ pc = [h \in Hosts |-> "out"]
  /\ linked = [n \in Names |-> None]
  /\ made = [h \in Hosts |-> "none"] /\ state = [h \in Hosts |-> "STARTING"]
  /\ ownName = [h \in Hosts |-> "measuring"]
  /\ core = None /\ tool = "off"

Step(h, from, to) == pc[h] = from /\ pc' = [pc EXCEPT ![h] = to]

-----------------------------------------------------------------------------
(* main, up to the cycle. *)

(* The modules' rtapi_app_main: from here on the card is talked to.        *)
StartDriver(h) ==
  /\ \A other \in Hosts \ {h} : pc[other] \in Ended \cup {"out"}
  /\ Step(h, "out", "started")
  /\ UNCHANGED <<linked, made, state, ownName, core, tool>>

(* A refused configuration or a region that cannot be made ends the run.   *)
StartFails(h) ==
  /\ Step(h, "started", "gone")
  /\ UNCHANGED <<linked, made, state, ownName, core, tool>>

(* hm2_region_create: what bore the name is unlinked, never reused.        *)
Create_inPlace(h) ==
  LET old == linked["region"]
  IN  /\ Step(h, "started", "made")
      /\ state' = [g \in Hosts |-> IF g = old THEN "STARTING" ELSE state[g]]
      /\ linked' = [linked EXCEPT !["measuring"] = h]
      /\ made' = [made EXCEPT ![h] = "empty"]
      /\ UNCHANGED <<ownName, core, tool>>
Create(h) ==
  /\ Step(h, "started", "made")
  /\ linked' = [linked EXCEPT !["measuring"] = h]
  /\ made' = [made EXCEPT ![h] = "empty"]
  /\ UNCHANGED <<state, ownName, core, tool>>

(* The header, the table and every output's starting value. *)
Declare(h) ==
  /\ Step(h, "made", "declared")
  /\ made' = [made EXCEPT ![h] = "declared"]
  /\ UNCHANGED <<linked, state, ownName, core, tool>>

(* declare_worst_cycle *)
Measure_late(h) ==
  /\ Step(h, "declared", "measured")
  /\ UNCHANGED <<linked, made, state, ownName, core, tool>>
Measure(h) ==
  /\ Step(h, "declared", "measured")
  /\ made' = [made EXCEPT ![h] = "finished"]
  /\ UNCHANGED <<linked, state, ownName, core, tool>>

(* hm2_region_rename, which also notes the name the object now has.        *)
Rename(h) ==
  /\ Step(h, "measured", "named")
  /\ linked' = [region |-> linked["measuring"], measuring |-> None]
  /\ ownName' = [ownName EXCEPT ![h] = "region"]
  /\ UNCHANGED <<made, state, core, tool>>

SetRunning(h) ==
  /\ Step(h, "named", "running")
  /\ state' = [state EXCEPT ![h] = "RUNNING"]
  /\ UNCHANGED <<linked, made, ownName, core, tool>>

-----------------------------------------------------------------------------
(* The ends of a run. *)

(* hm2_region_destroy: the state, then the name the object has. *)
Destroy(h, from, to) ==
  /\ Step(h, from, to)
  /\ state' = [state EXCEPT ![h] = "SHUTDOWN"]
  /\ linked' = [linked EXCEPT ![ownName[h]] = None]
  /\ UNCHANGED <<made, ownName, core, tool>>

(* A signal during the measurement, or a rename that fails.                *)
GiveUpStart(h) == Destroy(h, "measured", "failing")
FailExit(h) ==
  /\ Step(h, "failing", "gone")
  /\ UNCHANGED <<linked, made, state, ownName, core, tool>>

(* The loop is left on a signal or when the core said it goes, ... *)
Leave(h) ==
  /\ Step(h, "running", "left")
  /\ UNCHANGED <<linked, made, state, ownName, core, tool>>

(* ... or when the core has been silent for response_watchdog_cycles.      *)
GiveUp(h) ==
  /\ Step(h, "running", "left")
  /\ state' = [state EXCEPT ![h] = "FAULTED"]
  /\ UNCHANGED <<linked, made, ownName, core, tool>>

(* The modules' rtapi_app_exit, and only then the region. *)
Release(h) ==
  /\ Step(h, "left", "released")
  /\ UNCHANGED <<linked, made, state, ownName, core, tool>>

End_beforeExit(h) == Destroy(h, "left", "failing")
End(h) == Destroy(h, "released", "gone")

(* At any moment the run may be killed; what it made stays. *)
Kill(h) ==
  /\ pc[h] \notin Ended \cup {"out"}
  /\ pc' = [pc EXCEPT ![h] = "killed"]
  /\ UNCHANGED <<linked, made, state, ownName, core, tool>>

-----------------------------------------------------------------------------
(* The core maps the region by its name.  When it goes away it moves the   *)
(* channel's state, whatever the state is by then.                         *)
Attach ==
  /\ linked["region"] # None /\ core # linked["region"]
  /\ core' = linked["region"]
  /\ UNCHANGED <<pc, linked, made, state, ownName, tool>>

CoreGoes ==
  /\ core # None
  /\ \E s \in {"SHUTDOWN", "FAULTED"} : state' = [state EXCEPT ![core] = s]
  /\ UNCHANGED <<pc, linked, made, ownName, core, tool>>

(* --setsserial: refused while the region exists; else it goes on, and     *)
(* opens the card when it calls the modules' rtapi_app_main.               *)
InUse == linked["region"] # None

ToolStep(from, to) ==
  /\ tool = from /\ tool' = to
  /\ UNCHANGED <<pc, linked, made, state, ownName, core>>

ToolLooks == ~InUse /\ ToolStep("off", "looked")
ToolOpens == ToolStep("looked", "driving")
ToolEnds == \E from \in {"looked", "driving"} : ToolStep(from, "off")

-----------------------------------------------------------------------------
Host(h) ==
  \/ StartDriver(h) \/ StartFails(h) \/ Create(h) \/ Declare(h) \/ Measure(h)
  \/ Rename(h) \/ SetRunning(h) \/ GiveUpStart(h) \/ FailExit(h)
  \/ Leave(h) \/ GiveUp(h) \/ Release(h) \/ End(h) \/ Kill(h)

Tool == ToolLooks \/ ToolOpens \/ ToolEnds

Next == (\E h \in Hosts : Host(h)) \/ Attach \/ CoreGoes \/ Tool

Spec == Init /\ [][Next]_vars

-----------------------------------------------------------------------------
(* Types; a run that named its object knows it by that name.               *)
TypeOK ==
  /\ pc \in [Hosts -> Steps]
  /\ linked \in [Names -> Hosts \cup {None}]
  /\ made \in [Hosts -> {"none", "empty", "declared", "finished"}]
  /\ state \in [Hosts -> {"STARTING", "RUNNING", "SHUTDOWN", "FAULTED"}]
  /\ ownName \in [Hosts -> Names]
  /\ core \in Hosts \cup {None} /\ tool \in {"off", "looked", "driving"}
  /\ \A h \in Hosts :
       pc[h] \in {"named", "running", "left", "released"} => ownName[h] = "region"

Driving(h) == pc[h] \in Steps \ ({"out", "released"} \cup Ended)

(* No core ever attaches to a region half made: whatever was killed and    *)
(* started before, the object it finds has its table, its starting values  *)
(* and its worst cycle.                                                    *)
NeverHalfMade ==
  /\ linked["region"] # None => made[linked["region"]] = "finished"
  /\ core # None => made[core] = "finished"

Over(s) == s \in {"SHUTDOWN", "FAULTED"}

(* A channel that either side ended is not run again under a core that     *)
(* still maps it, by this run or a later one.  Excepted is the one store   *)
(* of RUNNING that follows a run's own rename: it comes after the core     *)
(* can find the region, and over what a quick core stored.                 *)
NotResumed ==
  [][\A h \in Hosts :
       Over(state[h]) => Over(state'[h]) \/ (pc[h] = "named" /\ pc'[h] = "running")]_vars

(* What cnc_outboard.h:701-704 says of the state, with nothing excepted:   *)
(* either side may move it to SHUTDOWN or FAULTED, neither moves it back.  *)
NeitherMovesBack == [][\A h \in Hosts : Over(state[h]) => Over(state'[h])]_vars

(* While the driver of a run that has the region's name still has the     *)
(* card, the name stays with that run, up to the last write of             *)
(* rtapi_app_exit, and a --setsserial that looks for it then is refused.   *)
Master(h) == ownName[h] = "region" /\ Driving(h)

CardFreedFirst ==
  [][\A h \in Hosts : Master(h) =>
       /\ linked["region"] = h => linked'["region"] = h
       /\ tool' = "looked" => tool = "looked"]_vars

(* What main.c:863-866 looks for the region for: that the tool never opens *)
(* the card under a run that drives it.  The look comes before the modules *)
(* are loaded and started, and a run may take the name in between.         *)
ToolAlone == [][tool' = "driving" /\ tool # "driving" => \A h \in Hosts : ~Master(h)]_vars
=============================================================================
