------------------------------ MODULE Commands ------------------------------
(***************************************************************************)
(* What the gateway and the registry make of a request under an            *)
(* idempotency key: app/primary/command_gateway.cpp, Registry::run in      *)
(* modules/registry.cpp and engine/audit.  The authority is asked first;   *)
(* then one transaction looks for the key in the outbox, runs the handler, *)
(* records the audit of a workflow and queues the change.  The answer may  *)
(* be lost, and the same request is then sent again.                       *)
(*                                                                         *)
(* What a handler does is the business of the other modules; here it runs, *)
(* or a rule refuses it and the transaction leaves nothing.                *)
(***************************************************************************)
EXTENDS Workspace

CONSTANTS
  Workflows,  \* the operations of the table that are workflows
  Needed,     \* of each workflow, the modules it is declared to require
  RequestKeys,\* idempotency keys
  Request,    \* of each key, the operation it is sent with, every time
  MaxRuns     \* bound on the runs under one key

Trade == DOMAIN Table \ Administering

ASSUME CommandAssumption ==
  /\ Workflows \subseteq DOMAIN Table
  /\ Needed \in [Workflows -> SUBSET Modules]
  /\ \A op \in Workflows : Table[op].module \in Needed[op]
  /\ Request \in [RequestKeys -> Trade]
  /\ MaxRuns \in Nat

VARIABLES
  queued,   \* the keys on file in the outbox
  logged,   \* the table workflow_audit_entry: of each key Void or [op, person, device]
  pruned,   \* the keys the outbox has forgotten
  runs,     \* how often a handler ran to its end under each key
  escaped   \* an exception the gateway does not catch came out of it

commandVars == <<queued, logged, pruned, runs, escaped>>

(* audit_entry.                                                            *)
LogRows == [op : Workflows, person : People, device : Devices]

ASSUME LogAssumption == Void \notin LogRows

RequirementsUnasked(k) == TRUE

(* A workflow also needs every module it was declared to require.          *)
RequirementsOn(k) == Request[k] \in Workflows => Needed[Request[k]] \subseteq active

(* The handler runs and its change is queued; replayed when the key is     *)
(* already on file, which changes nothing.                                 *)
Run(c, k) ==
  /\ Dispatched(c, Request[k])
  /\ RequirementsOn(k)
  /\ k \notin queued
  /\ logged[k] = Void
  /\ runs[k] < MaxRuns
  /\ runs' = [runs EXCEPT ![k] = @ + 1]
  /\ queued' = queued \cup {k}
  /\ logged' = IF Request[k] \notin Workflows THEN logged
               ELSE [logged EXCEPT ![k] = [op |-> Request[k], person |-> session.person,
                                           device |-> session.device]]
  /\ UNCHANGED <<pruned, escaped, administrationVars, sessionVars>>

(* AuditLog::record finds the key: the store's error, which is no rule     *)
(* violation, takes the transaction back and passes the gateway.           *)
RunTwice(c, k) ==
  /\ Dispatched(c, Request[k])
  /\ RequirementsOn(k)
  /\ k \notin queued
  /\ logged[k] # Void
  /\ escaped' = TRUE
  /\ UNCHANGED <<queued, logged, pruned, runs, administrationVars, sessionVars>>

(* The outbox forgets what the server confirmed (module Outbox).           *)
PruneOutbox(k) ==
  /\ k \in queued
  /\ queued' = queued \ {k}
  /\ pruned' = pruned \cup {k}
  /\ UNCHANGED <<logged, runs, escaped, administrationVars, sessionVars>>

CommandsInit ==
  /\ queued = {} /\ pruned = {} /\ escaped = FALSE
  /\ logged = [k \in RequestKeys |-> Void]
  /\ runs = [k \in RequestKeys |-> 0]

CommandsNext ==
  \/ \E c \in contexts, k \in RequestKeys : Run(c, k) \/ RunTwice(c, k)
  \/ \E k \in RequestKeys : PruneOutbox(k)

(* A shop with its owner and one of the staff, as administration leaves    *)
(* it; from here on nobody is administered.                                *)
TradeInit(owner, staff, d) ==
  /\ off \in {disabled \in SUBSET Modules : ActivationOk(disabled)}
  /\ \E names \in [People -> Usernames] :
       /\ names[owner] # names[staff]
       /\ person = [p \in People |-> IF p \notin {owner, staff} THEN Void
            ELSE [username |-> names[p], owner |-> p = owner, disabled |-> FALSE]]
       /\ audit = [subject \in Subjects |->
            CASE subject \in {<<"person", owner>>, <<"person", staff>>} -> "person_create"
              [] subject \in {"right"} \X {staff} \X Rights -> "right_grant"
              [] subject = <<"device", d>> -> "device_register"
              [] subject = <<"modules">> /\ off # {} -> "module_activation_set"
              [] OTHER -> Void]
  /\ granted = {owner, staff} \X Rights
  /\ device = [x \in Devices |-> IF x = d THEN "active" ELSE Void]
  /\ setting = [s \in Settings |-> Void]
  /\ session = Void /\ generation = 0 /\ login = 0
  /\ contexts = {}
  /\ connection = "offline"
  /\ active = Modules

TradeNext ==
  \/ UNCHANGED commandVars /\
       \/ Boot
       \/ session # Void /\ \E username \in Usernames : Authenticate(username, session.device)
       \/ SetConnectionState
       \/ Capture
       \/ \E c \in contexts : Forget(c)
  \/ CommandsNext

TradeSpec ==
  /\ \E owner, staff \in People, d \in Devices : owner # staff /\ TradeInit(owner, staff, d)
  /\ CommandsInit
  /\ [][TradeNext]_<<workspaceVars, commandVars>>

-----------------------------------------------------------------------------
(* However often a request is sent again, by whom and after whatever       *)
(* answer was lost, its handler runs once; an ordinary one until the       *)
(* outbox has forgotten its key, a workflow for good, and it leaves one    *)
(* row of audit; an exception reaches the shell only after such a          *)
(* forgetting (registry.cpp, run, and audit_log.cpp, record).              *)
RunsOnce ==
  /\ \A k \in RequestKeys :
       /\ runs[k] > 1 => k \in pruned /\ Request[k] \notin Workflows
       /\ runs[k] > 0 <=> k \in queued \cup pruned
       /\ logged[k] \in LogRows \cup {Void}
       /\ logged[k] # Void <=> runs[k] > 0 /\ Request[k] \in Workflows
  /\ escaped => \E k \in pruned : logged[k] # Void

(* While the connection is down the staff change only what the protocol    *)
(* excepts, and nothing of a module that is off is run, not even through a *)
(* workflow of another (capability.cpp, may_run).                          *)
OfflineKept ==
  [][\A k \in RequestKeys : runs'[k] > runs[k] =>
       /\ connection = "offline" /\ ~person[session.person].owner => Table[Request[k]].staff
       /\ Table[Request[k]].module \notin off
       /\ Request[k] \in Workflows => Needed[Request[k]] \cap off = {}
       /\ <<session.person, Table[Request[k]].right>> \in granted]_<<runs>>

(* What the gateway lets through runs once and within the rights, the      *)
(* modules and the connection of its moment (registry.cpp, run).           *)
CommandsSound == []RunsOnce /\ OfflineKept
=============================================================================
