------------------------------- MODULE Startup -------------------------------
(***************************************************************************)
(* The program's start and stop: app/startup_sequence runs twelve steps in *)
(* a fixed order and, when one fails or somebody asks to stop, takes back  *)
(* what was started in reverse; app/real_startup_runtime,                  *)
(* ui/real_startup_services_qt and shell/qml_surface_qt say what each step *)
(* needs, gains and gives back.  Start runs on the thread of the interface *)
(* and shutdown may be called from any.                                    *)
(***************************************************************************)
EXTENDS Naturals, Sequences, FiniteSets, SequencesExt, TLC

VARIABLES
  life,       \* state_
  completed,  \* completed_
  requested,  \* stop_requested_
  pc,         \* where start() is: "outside", or a section of it
  at,         \* the number of the step it is at
  outcome,    \* what that step said
  closer,     \* where shutdown() is: "outside" or "unwinding"
  popped,     \* the step that is being stopped, or none
  held,       \* what the runtime and the services hold
  surface     \* state_ of the SurfaceLifecycle, "none" without a surface

startupVars ==
  <<life, completed, requested, pc, at, outcome, closer, popped, held, surface>>

(* startup_order.                                                          *)
StartupOrder ==
  <<"Paths", "Logging", "CrashHandler", "SingleInstance", "DatabaseConnection", "Migrations",
    "IntegrityCheck", "IdentitySession", "Activation", "ModuleRegistration", "Shell", "Window">>

Steps == ToSet(StartupOrder)

-----------------------------------------------------------------------------
(* What a step needs to be there, what it adds, and what stopping it takes *)
(* away: start_step and stop of the runtime, and the services under them.  *)
StepNeeds ==
  [step \in {"Paths", "ModuleRegistration"} |-> {}]
  @@ [step \in {"Logging", "SingleInstance", "DatabaseConnection"} |-> {"layout"}]
  @@ [step \in {"IntegrityCheck", "IdentitySession", "Activation"} |-> {"database"}]
  @@ "CrashHandler" :> {"layout", "log"} @@ "Migrations" :> {"store"}
  @@ "Shell" :> {"registry", "database", "session"} @@ "Window" :> {"surface"}

StepGains ==
  "Paths" :> {"layout"} @@ "Logging" :> {"log"} @@ "CrashHandler" :> {"handler"}
  @@ "SingleInstance" :> {"lock"} @@ "DatabaseConnection" :> {"store"}
  @@ "Migrations" :> {"database"} @@ "IntegrityCheck" :> {} @@ "IdentitySession" :> {"session"}
  @@ "Activation" :> {"disabled"} @@ "ModuleRegistration" :> {"registry"}
  @@ "Shell" :> {"surface", "workspace"} @@ "Window" :> {"window"}

StepDrops == "DatabaseConnection" :> {"store", "database"} @@ StepGains

(* What a failure of the step leaves behind of what it had or made: a      *)
(* failed migration lets go of the store, and the names of the disabled    *)
(* modules stay although they do not resolve.                              *)
AfterFailure(step) ==
  IF step = "Migrations" THEN {held \ {"store", "database"}}
  ELSE IF step = "Activation" THEN {held, held \cup {"disabled"}}
  ELSE {held}

(* SurfaceLifecycle, as the steps drive it.                                *)
SurfaceStarted(step) ==
  IF step = "Shell" THEN "ShellReady" ELSE IF step = "Window" THEN "WindowReady" ELSE surface

SurfaceFailed(step) == IF step = "Window" THEN "Failed" ELSE surface

SurfaceStopped(step) ==
  IF step = "Window" /\ surface \in {"WindowReady", "ShutdownRequested"} THEN "ShellReady"
  ELSE IF step = "Shell" THEN "none" ELSE surface

-----------------------------------------------------------------------------
(* start().                                                                *)
BeginStart ==
  /\ life = "Idle" /\ pc = "outside"
  /\ life' = "Starting"
  /\ pc' = "step" /\ at' = 1
  /\ UNCHANGED <<completed, requested, outcome, closer, popped, held, surface>>

(* runtime_.start(step), with no lock held.                                *)
RunStep ==
  /\ pc = "step"
  /\ LET step == StartupOrder[at]
     IN  \/ /\ StepNeeds[step] \subseteq held
            /\ outcome' = "Started"
            /\ held' = held \cup StepGains[step]
            /\ surface' = SurfaceStarted(step)
         \/ /\ outcome' = "Failed"
            /\ held' \in AfterFailure(step)
            /\ surface' = SurfaceFailed(step)
         \/ /\ step = "SingleInstance"
            /\ outcome' = "SecondaryInstance"
            /\ UNCHANGED <<held, surface>>
  /\ pc' = "ran"
  /\ UNCHANGED <<life, completed, requested, at, closer, popped>>

(* The step is noted and the wish to stop is read, under the mutex.  With  *)
(* nothing wrong and nothing asked, the next step runs, and after the last *)
(* one the start is about to succeed.                                      *)
NoteStep ==
  /\ pc = "ran"
  /\ completed' = IF outcome = "Started" THEN Append(completed, StartupOrder[at]) ELSE completed
  /\ IF outcome = "Started" /\ ~requested
     THEN /\ pc' = IF at < Len(StartupOrder) THEN "step" ELSE "finishing"
          /\ at' = IF at < Len(StartupOrder) THEN at + 1 ELSE at
     ELSE pc' = "giving up" /\ at' = at
  /\ UNCHANGED <<life, requested, outcome, closer, popped, held, surface>>

(* unwind, its first section.                                              *)
GiveUp ==
  /\ pc = "giving up"
  /\ life' = "Stopping"
  /\ pc' = "unwinding"
  /\ UNCHANGED <<completed, requested, at, outcome, closer, popped, held, surface>>

FinishStart ==
  /\ pc = "finishing"
  /\ life' = "Running"
  /\ pc' = "outside"
  /\ UNCHANGED <<completed, requested, at, outcome, closer, popped, held, surface>>

-----------------------------------------------------------------------------
(* unwind, one completed step after another, the last first.               *)
Pop ==
  /\ popped = {} /\ completed # <<>>
  /\ popped' = {Last(completed)}
  /\ completed' = Front(completed)
  /\ UNCHANGED <<life, requested, pc, at, outcome, closer, held, surface>>

StopStepUncaught ==
  /\ \E step \in popped :
       /\ surface' = SurfaceStopped(step)
       /\ \/ held' = held \ StepDrops[step] /\ UNCHANGED <<pc, closer>>
          \/ step = "Migrations" /\ held' = held /\ pc' = "outside" /\ closer' = "outside"
  /\ popped' = {}
  /\ UNCHANGED <<life, completed, requested, at, outcome>>

(* runtime_.stop(step); closing the database may throw, which is recorded  *)
(* and stops nothing else.                                                 *)
StopStep ==
  /\ \E step \in popped :
       /\ \/ held' = held \ StepDrops[step]
          \/ step = "Migrations" /\ held' = held
       /\ surface' = SurfaceStopped(step)
  /\ popped' = {}
  /\ UNCHANGED <<life, completed, requested, pc, at, outcome, closer>>

(* Everything is taken back.                                               *)
Unwound ==
  /\ popped = {} /\ completed = <<>>
  /\ pc' = IF pc = "unwinding" THEN "outside" ELSE pc
  /\ closer' = IF closer = "unwinding" THEN "outside" ELSE closer
  /\ life' = IF pc = "unwinding" /\ outcome # "Started" THEN outcome ELSE "Stopped"
  /\ UNCHANGED <<completed, requested, at, outcome, popped, held, surface>>

Unwind == (pc = "unwinding" \/ closer = "unwinding") /\ (Pop \/ StopStep \/ Unwound)

-----------------------------------------------------------------------------
(* shutdown().                                                             *)
ShutdownSections(nextSurface) ==
  /\ surface' = nextSurface
  /\ \/ /\ life = "Starting"
        /\ requested' = TRUE
        /\ UNCHANGED <<life, closer>>
     \/ /\ life = "Idle"
        /\ life' = "Stopped"
        /\ UNCHANGED <<requested, closer>>
     \/ /\ life \in {"Running", "Failed"}
        /\ life' = "Stopping"
        /\ closer' = "unwinding"
        /\ UNCHANGED requested
     \/ /\ life \in {"Stopping", "Stopped", "SecondaryInstance"}
        /\ UNCHANGED <<life, requested, closer>>
  /\ UNCHANGED <<completed, pc, at, outcome, popped, held>>

Shutdown == ShutdownSections(surface)

(* The window is closed, on the thread of the interface, so outside start. *)
CloseWindow ==
  /\ pc = "outside"
  /\ surface = "WindowReady"
  /\ ShutdownSections("ShutdownRequested")

StartupInit ==
  /\ life = "Idle" /\ completed = <<>> /\ requested = FALSE
  /\ pc = "outside" /\ at = 1 /\ outcome = "Started"
  /\ closer = "outside" /\ popped = {}
  /\ held = {} /\ surface = "none"

StartupProgress ==
  RunStep \/ NoteStep \/ GiveUp \/ FinishStart \/ Unwind

StartupNext == BeginStart \/ StartupProgress \/ Shutdown \/ CloseWindow

StartupSpec == StartupInit /\ [][StartupNext]_startupVars /\ WF_startupVars(StartupProgress)

-----------------------------------------------------------------------------
(* However far a start came and whoever stops it, nothing lives without    *)
(* what it was built on, a running program has everything, and a program   *)
(* that is not running holds nothing but, at most, a list of names         *)
(* (startup_sequence.cpp, unwind; real_startup_runtime.cpp, stop).         *)
NothingOutlivesItsGround ==
  /\ "handler" \in held => "log" \in held
  /\ "database" \in held => "store" \in held
  /\ "workspace" \in held => {"registry", "database", "session"} \subseteq held
  /\ "surface" \in held <=> "workspace" \in held
  /\ "window" \in held => "surface" \in held
  /\ {"store", "surface"} \cap held # {} => {"lock", "layout"} \subseteq held
  /\ life = "Running" =>
       /\ completed = StartupOrder
       /\ held = UNION {StepGains[step] : step \in Steps}
  /\ life \in {"Idle", "Stopped", "Failed", "SecondaryInstance"} =>
       held \subseteq {"disabled"} /\ surface = "none"
  /\ surface = "ShutdownRequested" => life \in {"Stopping", "Stopped"}

(* A start succeeds or gives up, and what is being stopped stops           *)
(* (startup_sequence.cpp; every step returns or throws).                   *)
StartSettles ==
  life \in {"Starting", "Stopping"}
    ~> life \in {"Running", "Stopped", "Failed", "SecondaryInstance"}

(* Every start and every stop comes to its end, and on the way nothing     *)
(* outlives what it was built on (startup_sequence.cpp, unwind).           *)
StartSound == []NothingOutlivesItsGround /\ StartSettles
=============================================================================
