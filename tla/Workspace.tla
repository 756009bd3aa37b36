------------------------------ MODULE Workspace ------------------------------
(***************************************************************************)
(* The signed-in workspace: app/workspace_runtime, session_authorization,  *)
(* credential_authentication, the command gateway, the decision may_run,   *)
(* and what a start of the program loads before it.  A screen captures a   *)
(* context when it loads its data and sends it with each request.          *)
(*                                                                         *)
(* One machine at a time runs the store.  A password is right or wrong by  *)
(* choice of the person who types it.                                      *)
(***************************************************************************)
EXTENDS Administration

CONSTANTS
  Table,         \* the operation table: of each, [module, right, offline, staff]
  Administering, \* the operations of administration in it
  MaxLogins,     \* bound on the sign-ins of one run of the program
  MaxContexts    \* bound on the contexts screens hold

ASSUME WorkspaceAssumption ==
  /\ \A op \in DOMAIN Table :
       Table[op] \in [module : Modules, right : Rights, offline : BOOLEAN, staff : BOOLEAN]
  /\ "administration" \in CoreModules
  /\ Administering = {op \in DOMAIN Table : Table[op].module = "administration"}
  /\ MaxLogins \in Nat \ {0} /\ MaxContexts \in Nat

VARIABLES
  session,     \* session_: Void, or [person, device, rights, owner]
  generation,  \* generation_
  login,       \* which sign-in of this run it is, counted by nobody in the code
  contexts,    \* held by screens: [person, rights, generation, login]
  connection,  \* connection_: "online" or "offline"; weak and metered are online
  active       \* activation_ of the registry

sessionVars == <<session, generation, login, contexts, connection, active>>
workspaceVars == <<administrationVars, sessionVars>>

SessionRows == [person : People, device : Devices, rights : SUBSET Rights, owner : BOOLEAN]

ContextRows ==
  [person : People, rights : SUBSET Rights, generation : 1..MaxLogins, login : 0..MaxLogins]

SessionOf(p, d) ==
  [person |-> p, device |-> d, rights |-> RightsOf(p), owner |-> person[p].owner]

-----------------------------------------------------------------------------

(* authorize_session: does the context describe the session that is live.  *)
Authorized(c) ==
  /\ session # Void
  /\ generation # 0
  /\ c.generation = generation
  /\ c.person = session.person
  /\ c.rights \subseteq session.rights

(* may_run.                                                                *)
MayRun(op) ==
  /\ Table[op].module \in active
  /\ Table[op].right \in session.rights
  /\ connection = "offline" => Table[op].offline /\ (session.owner \/ Table[op].staff)

Dispatched(c, op) == Authorized(c) /\ MayRun(op)

-----------------------------------------------------------------------------
(* Sessions.                                                               *)
SignInAgain(who) ==
  /\ login < MaxLogins
  /\ session' = who
  /\ generation' = IF generation = 0 THEN 1 ELSE generation
  /\ login' = login + 1

(* AuthenticatedWorkspace::sign_in.                                        *)
SignIn(who) ==
  /\ login < MaxLogins
  /\ session' = who
  /\ generation' = generation + 1
  /\ login' = login + 1

(* authenticate: nobody switched off gets a session.                       *)
Authenticate(username, d) ==
  /\ \E p \in PersonNamed(username) : ~person[p].disabled /\ SignIn(SessionOf(p, d))
  /\ UNCHANGED <<administrationVars, contexts, connection, active>>

(* AuthenticatedWorkspace::sign_out: the generations start anew, and a     *)
(* context from before (login 0) is no longer told from a later one.       *)
SignOut ==
  /\ session # Void
  /\ session' = Void
  /\ generation' = 0
  /\ contexts' = {[c EXCEPT !.login = 0] : c \in contexts}
  /\ UNCHANGED <<administrationVars, login, connection, active>>

(* A start of the program: load_session takes the owner, or the last of    *)
(* the people when there is none, and the first machine on file that is    *)
(* not retired, whichever this is; the registry takes what is switched off *)
(* now; a new workspace is signed in, and screens of an earlier run are    *)
(* gone.                                                                   *)
Boot ==
  /\ \E p \in People, d \in Devices :
       /\ person[p] # Void
       /\ person[p].owner \/ \A q \in People : person[q] # Void => ~person[q].owner
       /\ device[d] = "active"
       /\ session' = SessionOf(p, d)
  /\ generation' = 1 /\ login' = 1
  /\ contexts' = {}
  /\ ActivationOk(off)
  /\ active' = ResolveActivation(off)
  /\ connection' = "offline"
  /\ UNCHANGED administrationVars

SetConnectionState ==
  /\ connection' \in {"online", "offline"} \ {connection}
  /\ UNCHANGED <<administrationVars, session, generation, login, contexts, active>>

(* The shell makes the context of a request as it is asked for, and keeps  *)
(* it until the answer comes (navigation_bridge_qt.cpp).                   *)
Capture ==
  /\ session # Void /\ generation # 0
  /\ Cardinality(contexts) < MaxContexts
  /\ contexts' = contexts \cup
       {[person |-> session.person, rights |-> session.rights,
         generation |-> generation, login |-> login]}
  /\ UNCHANGED <<administrationVars, session, generation, login, connection, active>>

Forget(c) ==
  /\ contexts' = contexts \ {c}
  /\ UNCHANGED <<administrationVars, session, generation, login, connection, active>>

(* First-run provisioning: the owner and the machine, before any session.  *)
Provision(p, username, d) ==
  /\ \A q \in People : person[q] = Void
  /\ person' = [person EXCEPT ![p] = [username |-> username, owner |-> TRUE, disabled |-> FALSE]]
  /\ granted' = {p} \X Rights
  /\ device' = [device EXCEPT ![d] = "active"]
  /\ audit' = [audit EXCEPT ![<<"person", p>>] = "person_create",
                            ![<<"device", d>>] = "device_register"]
  /\ UNCHANGED <<setting, off, sessionVars>>

(* AuthenticatedWorkspace::dispatch of an operation of administration; the *)
(* registry's activation is not told of module_activation_set.             *)
Administer(c) ==
  /\ \/ \E p \in People, username \in Usernames :
          \/ \E owner \in BOOLEAN :
               Dispatched(c, "person_create") /\ CreatePerson(session, p, username, owner)
          \/ Dispatched(c, "person_update") /\ UpdatePerson(session, p, username)
     \/ \E p \in People : Dispatched(c, "person_disable") /\ DisablePerson(session, p)
     \/ \E p \in People, r \in Rights :
          \/ Dispatched(c, "right_grant") /\ GrantRight(session, p, r)
          \/ Dispatched(c, "right_revoke") /\ RevokeRight(session, p, r)
     \/ \E d \in Devices :
          \/ Dispatched(c, "device_register") /\ RegisterDevice(session, d)
          \/ Dispatched(c, "device_retire") /\ RetireDevice(session, d)
     \/ \E s \in Settings, value \in Values :
          Dispatched(c, "shop_setting_update") /\ UpdateSetting(session, s, value)
     \/ \E disabled \in SUBSET Modules :
          Dispatched(c, "module_activation_set") /\ SetActivation(session, disabled)
  /\ UNCHANGED sessionVars

WorkspaceInit ==
  /\ AdministrationInit
  /\ session = Void /\ generation = 0 /\ login = 0
  /\ contexts = {}
  /\ connection = "offline"
  /\ active = Modules

WorkspaceNext ==
  \/ \E p \in People, username \in Usernames, d \in Devices : Provision(p, username, d)
  \/ Boot
  \/ \E username \in Usernames, d \in Devices :
       /\ login > 0 /\ device[d] = "active"
       /\ session # Void => d = session.device
       /\ Authenticate(username, d)
  \/ SignOut
  \/ SetConnectionState
  \/ Capture
  \/ \E c \in contexts : Forget(c) \/ Administer(c)

WorkspaceSpec == WorkspaceInit /\ [][WorkspaceNext]_workspaceVars

-----------------------------------------------------------------------------
(* What the variables hold.                                                *)
WorkspaceTypeOK ==
  /\ session \in SessionRows \cup {Void}
  /\ generation \in 0..MaxLogins /\ login \in 0..MaxLogins
  /\ contexts \subseteq ContextRows
  /\ connection \in {"online", "offline"} /\ active \subseteq Modules
  /\ \A p \in People : person[p] \in PersonRows \cup {Void}
  /\ granted \subseteq People \X Rights
  /\ \A d \in Devices : device[d] \in DeviceRows \cup {Void}

(* Whoever is added, switched off, renamed, given or refused rights, and   *)
(* whichever machines and modules come and go, the shop has one owner, who *)
(* can sign in under a name of their own and may do everything; some       *)
(* machine can start; and the next start finds the core modules on and     *)
(* nothing active without what it needs (administration_service.cpp and    *)
(* resolve_activation).                                                    *)
StaysGovernable ==
  (\E p \in People : person[p] # Void) =>
    /\ \E p \in People :
         /\ person[p] # Void /\ person[p].owner /\ ~person[p].disabled
         /\ RightsOf(p) = Rights
         /\ PersonNamed(person[p].username) = {p}
         /\ \A q \in People \ {p} : person[q] # Void => ~person[q].owner
    /\ \E d \in Devices : device[d] = "active"
    /\ session # Void => person[session.person] # Void /\ device[session.device] = "active"
    /\ ActivationOk(off)
    /\ \A on \in {active, ResolveActivation(off)} :
         /\ CoreModules \subseteq on
         /\ \A edge \in Requires : edge[1] \in on => edge[2] \in on

(* The audit says why things are as they are: the last row about a right   *)
(* of a person who is not the owner is a grant exactly when it is held,    *)
(* the last about a machine a retirement exactly when it is retired, and   *)
(* nobody is switched off without a row that says so                       *)
(* (administration_service.cpp, record).                                   *)
AuditTells ==
  /\ \A p \in People, r \in Rights : person[p] # Void /\ ~person[p].owner =>
       (<<p, r>> \in granted <=> audit[<<"right", p, r>>] = "right_grant")
  /\ \A d \in Devices : device[d] = "retired" <=> audit[<<"device", d>>] = "device_retire"
  /\ \A p \in People : person[p] # Void =>
       /\ audit[<<"person", p>>] # Void
       /\ person[p].disabled => audit[<<"person", p>>] \in {"person_disable", "person_update"}
  /\ off # {} => audit[<<"modules">>] # Void

(* The shop can always be governed, and its audit says why things are as  *)
(* they are (administration_service.cpp).                                  *)
Governed == WorkspaceTypeOK /\ StaysGovernable /\ AuditTells

(* A context captured under an earlier sign-in is refused from the moment  *)
(* of the next one, even when the same person signs back in, unless        *)
(* somebody signed out in between (workspace_runtime.hpp, sign_in).        *)
ContextsExpire == \A c \in contexts : Authorized(c) => c.login \in {0, login}
=============================================================================
