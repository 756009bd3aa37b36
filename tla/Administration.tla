--------------------------- MODULE Administration ---------------------------
(***************************************************************************)
(* Administration: modules/administration (service, domain, data).  Who    *)
(* may sign in, which rights they hold, which machines there are, what is  *)
(* set and which modules are switched off; every change leaves a row of    *)
(* audit.  A handler is told who acts by the session it runs under.        *)
(*                                                                         *)
(* Names and passwords are left out.  Of the audit, which only grows, the  *)
(* last row about each subject is kept: the operation it names.            *)
(***************************************************************************)
EXTENDS Integers, FiniteSets

CONSTANTS
  Void,        \* no row, or no session
  People, Usernames, Devices, Settings, Values,
  Rights,      \* the rights of the protocol, "rights_grant" among them
  Modules,     \* the modules of the build
  CoreModules, \* the modules that cannot be switched off
  Requires     \* pairs of a module and one it cannot do without

ASSUME AdministrationAssumption ==
  /\ "rights_grant" \in Rights
  /\ IsFiniteSet(Modules)
  /\ CoreModules \subseteq Modules
  /\ Requires \subseteq Modules \X Modules
  /\ \A edge \in Requires : edge[1] \in CoreModules => edge[2] \in CoreModules

VARIABLES
  person,   \* the table person: [username, owner, disabled]
  granted,  \* the table person_right: pairs of a person and a right
  device,   \* the table device: Void, "active" or "retired"
  setting,  \* the table shop_setting
  off,      \* the table module_state: the modules switched off
  audit     \* of each subject, the operation its last audit row names

administrationVars == <<person, granted, device, setting, off, audit>>

PersonRows == [username : Usernames, owner : BOOLEAN, disabled : BOOLEAN]

DeviceRows == {"active", "retired"}

(* The operations that leave a row of audit.                               *)
Operations ==
  {"person_create", "person_update", "person_disable", "right_grant", "right_revoke",
   "device_register", "device_retire", "shop_setting_update", "module_activation_set"}

ASSUME VoidAssumption == Void \notin PersonRows \cup DeviceRows \cup Operations

RightsOf(p) == {r \in Rights : <<p, r>> \in granted}

HoldersOf(r) == {p \in People : <<p, r>> \in granted}

PersonNamed(username) == {p \in People : person[p] # Void /\ person[p].username = username}

Subjects ==
  ({"person"} \X People) \cup ({"right"} \X People \X Rights) \cup ({"device"} \X Devices)
    \cup ({"setting"} \X Settings) \cup {<<"modules">>}

Note(subject, operation) == audit' = [audit EXCEPT ![subject] = operation]

(* resolve_activation: a switched-off module takes with it whatever needs  *)
(* it, and so on; ok is that no core module was named.                     *)
ActivationOk(disabled) == disabled \cap CoreModules = {}

Needy(rest) == {m \in rest : \E edge \in Requires : edge[1] = m /\ edge[2] \notin rest}

Resolve[rest \in SUBSET Modules] ==
  IF Needy(rest) = {} THEN rest ELSE Resolve[rest \ Needy(rest)]

ResolveActivation(disabled) == Resolve[Modules \ disabled]

-----------------------------------------------------------------------------
(* The handlers; "who" is the session: [person, device, rights, owner].    *)

(* The first person is the owner and holds every right.                    *)
CreatePerson(who, p, username, owner) ==
  LET first == \A q \in People : person[q] = Void
  IN  /\ person[p] = Void
      /\ PersonNamed(username) = {}
      /\ owner => first
      /\ person' = [person EXCEPT ![p] =
           [username |-> username, owner |-> first, disabled |-> FALSE]]
      /\ granted' = IF first THEN granted \cup ({p} \X Rights) ELSE granted
      /\ Note(<<"person", p>>, "person_create")
      /\ UNCHANGED <<device, setting, off>>

UpdatePerson(who, p, username) ==
  /\ person[p] # Void
  /\ PersonNamed(username) \subseteq {p}
  /\ person' = [person EXCEPT ![p].username = username]
  /\ Note(<<"person", p>>, "person_update")
  /\ UNCHANGED <<granted, device, setting, off>>

DisableAnyone(who, p) ==
  /\ person[p] # Void
  /\ p # who.person
  /\ ~person[p].disabled
  /\ person' = [person EXCEPT ![p].disabled = TRUE]
  /\ Note(<<"person", p>>, "person_disable")
  /\ UNCHANGED <<granted, device, setting, off>>

DisablePerson(who, p) ==
  /\ person[p] # Void
  /\ ~person[p].owner
  /\ p # who.person
  /\ ~person[p].disabled
  /\ person' = [person EXCEPT ![p].disabled = TRUE]
  /\ Note(<<"person", p>>, "person_disable")
  /\ UNCHANGED <<granted, device, setting, off>>

(* What may be handed out is what the session held when it was signed in.  *)
GrantRight(who, p, r) ==
  /\ person[p] # Void
  /\ ~person[p].disabled
  /\ r \in who.rights
  /\ granted' = granted \cup {<<p, r>>}
  /\ Note(<<"right", p, r>>, "right_grant")
  /\ UNCHANGED <<person, device, setting, off>>

RevokeRight(who, p, r) ==
  /\ person[p] # Void
  /\ ~person[p].owner
  /\ r = "rights_grant" => Cardinality(HoldersOf(r)) > 1
  /\ granted' = granted \ {<<p, r>>}
  /\ Note(<<"right", p, r>>, "right_revoke")
  /\ UNCHANGED <<person, device, setting, off>>

RegisterDevice(who, d) ==
  /\ device[d] = Void
  /\ device' = [device EXCEPT ![d] = "active"]
  /\ Note(<<"device", d>>, "device_register")
  /\ UNCHANGED <<person, granted, setting, off>>

RetireDevice(who, d) ==
  /\ device[d] = "active"
  /\ d # who.device
  /\ device' = [device EXCEPT ![d] = "retired"]
  /\ Note(<<"device", d>>, "device_retire")
  /\ UNCHANGED <<person, granted, setting, off>>

UpdateSetting(who, s, value) ==
  /\ setting' = [setting EXCEPT ![s] = value]
  /\ Note(<<"setting", s>>, "shop_setting_update")
  /\ UNCHANGED <<person, granted, device, off>>

(* The whole table is rewritten with what was asked for; what follows from *)
(* it is worked out when it is read.                                       *)
SetActivation(who, disabled) ==
  /\ ActivationOk(disabled)
  /\ off' = disabled
  /\ Note(<<"modules">>, "module_activation_set")
  /\ UNCHANGED <<person, granted, device, setting>>

AdministrationInit ==
  /\ person = [p \in People |-> Void]
  /\ granted = {}
  /\ device = [d \in Devices |-> Void]
  /\ setting = [s \in Settings |-> Void]
  /\ off = {}
  /\ audit = [subject \in Subjects |-> Void]
=============================================================================
