----------------------------- MODULE MCServices -----------------------------
(* The program's own machinery around the work: its start and stop, its    *)
(* background services, the files of its log and the throttle before them. *)
(* They share nothing here, so a behaviour is of one of them.              *)
(*                                                                         *)
(* Of the services one has its worker to itself and waits for the network, *)
(* the other needs no gate; the queues take both.  The log has four files  *)
(* of two lines, three of which its budget allows, and three events, two   *)
(* of which are watched.                                                   *)
EXTENDS Background, Startup, LogFiles

TwoLanes == {"synchronization", "shared"}
SmallLaneOf == [s \in {"sync", "digest"} |-> IF s = "sync" THEN "synchronization" ELSE "shared"]
SmallGates == [s \in {"sync", "digest"} |-> IF s = "sync" THEN {"network"} ELSE {}]

VARIABLE part

MCVars == <<part, backgroundVars, startupVars, filesVars, throttleVars>>

MCInit ==
  /\ part \in {"services", "startup", "files", "throttle"}
  /\ BackgroundInit /\ StartupInit /\ FilesInit /\ ThrottleInit

OfServices ==
  part = "services" /\ UNCHANGED <<part, startupVars, filesVars, throttleVars>>
OfStartup ==
  part = "startup" /\ UNCHANGED <<part, backgroundVars, filesVars, throttleVars>>
OfFiles == part = "files" /\ UNCHANGED <<part, backgroundVars, startupVars, throttleVars>>
OfThrottle ==
  part = "throttle" /\ UNCHANGED <<part, backgroundVars, startupVars, filesVars>>

MCNext ==
  \/ OfServices /\ BackgroundNext
  \/ OfStartup /\ StartupNext
  \/ OfFiles /\ WriteLine
  \/ OfThrottle /\ ThrottleNext

(* The fairness of Background and of Startup, each in its own behaviours.  *)
MCSpec ==
  /\ MCInit /\ [][MCNext]_MCVars
  /\ \A lane \in Lanes : SF_MCVars(OfServices /\ WorkerStep(lane))
  /\ \A s \in Services : /\ SF_MCVars(OfServices /\ Submit(s))
                         /\ \A gate \in GateNames : WF_MCVars(OfServices /\ SweepOver(gate, s))
  /\ SF_MCVars(OfServices /\ CloserStep)
  /\ WF_MCVars(OfStartup /\ StartupProgress)
=============================================================================
