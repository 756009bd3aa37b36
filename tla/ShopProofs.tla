----------------------------- MODULE ShopProofs -----------------------------
(***************************************************************************)
(* Theorems about the shop.  The signed-in workspace: administration keeps *)
(* the shop governable and its audit true, contexts expire, and what the   *)
(* gateway lets through runs once and within its rights.  The work: a line *)
(* of an order becomes one job, what is offered stays as it was issued,    *)
(* and what is accepted is ordered once and as agreed.  The shop floor:    *)
(* its ledgers tell what happened, and prices are the best that apply.     *)
(* For any people, machines, rights, modules and operations, any offers,   *)
(* orders, lines and jobs, and any rates, purchases, tasks and calendar.   *)
(***************************************************************************)
EXTENDS Commands, Sales, MCBackoffice, Sums, FunctionTheorems, SequenceTheorems

(* Modules that do without the others.                                     *)
Closed(on) == \A edge \in Requires : edge[1] \in on => edge[2] \in on

(* What a start makes of a choice of modules.                              *)
Sound(rest, on) ==
  /\ on \subseteq rest
  /\ Closed(on)
  /\ CoreModules \subseteq rest => CoreModules \subseteq on

-----------------------------------------------------------------------------
(* resolve_activation.                                                     *)

(* What is left of a set when whatever needs something outside it goes,    *)
(* again and again, is its largest closed part: so the recursion defines   *)
(* a function.                                                             *)
LargestClosed(rest) == UNION {on \in SUBSET rest : Closed(on)}

LEMMA OneRound ==
  ASSUME NEW rest \in SUBSET Modules
  PROVE LargestClosed(rest) =
          IF Needy(rest) = {} THEN rest ELSE LargestClosed(rest \ Needy(rest))
<1>1. CASE Needy(rest) = {}
  <2>1. Closed(rest)
    BY <1>1, AdministrationAssumption DEF Needy, Closed
  <2> QED
    BY <1>1, <2>1 DEF LargestClosed
<1>2. CASE Needy(rest) # {}
  <2>1. ASSUME NEW on \in SUBSET rest, Closed(on)
        PROVE on \subseteq rest \ Needy(rest)
    BY <2>1 DEF Closed, Needy
  <2>2. \A on : on \in SUBSET rest /\ Closed(on) <=> on \in SUBSET (rest \ Needy(rest)) /\ Closed(on)
    BY <2>1
  <2>3. {on \in SUBSET rest : Closed(on)} = {on \in SUBSET (rest \ Needy(rest)) : Closed(on)}
    BY <2>2
  <2> QED
    BY <1>2, <2>3 DEF LargestClosed
<1> QED
  BY <1>1, <1>2

LEMMA ResolveIsDefined ==
  /\ DOMAIN Resolve = SUBSET Modules
  /\ \A rest \in SUBSET Modules :
       Resolve[rest] = IF Needy(rest) = {} THEN rest ELSE Resolve[rest \ Needy(rest)]
<1> DEFINE Defines(f) ==
      f = [rest \in SUBSET Modules |-> IF Needy(rest) = {} THEN rest ELSE f[rest \ Needy(rest)]]
<1> DEFINE largest == [rest \in SUBSET Modules |-> LargestClosed(rest)]
<1>1. \A rest \in SUBSET Modules : rest \ Needy(rest) \in SUBSET Modules
  OBVIOUS
<1>2. \A rest \in SUBSET Modules :
        LargestClosed(rest) = IF Needy(rest) = {} THEN rest ELSE largest[rest \ Needy(rest)]
  BY <1>1, OneRound
<1>3. Defines(largest)
  BY <1>2
<1>4. Resolve = CHOOSE f : Defines(f)
  BY DEF Resolve
<1>5. Defines(Resolve)
  BY <1>3, <1>4
<1> QED
  BY <1>5

(* A start takes a sound choice, whatever was switched off.                *)
LEMMA ResolveIsSound ==
  ASSUME NEW rest \in SUBSET Modules
  PROVE Sound(rest, Resolve[rest])
<1> DEFINE Sizes == {Cardinality(some) : some \in {any \in SUBSET Modules : ~Sound(any, Resolve[any])}}
<1> SUFFICES Sizes = {}
  OBVIOUS
<1> SUFFICES ASSUME Sizes # {} PROVE FALSE
  OBVIOUS
<1>1. \A any \in SUBSET Modules : IsFiniteSet(any) /\ Cardinality(any) \in Nat
  BY AdministrationAssumption, FS_Subset, FS_CardinalityType
<1>2. Sizes \subseteq Nat
  BY <1>1
<1>3. PICK least \in Sizes : \A size \in Sizes : ~(<<size, least>> \in OpToRel(<, Nat))
  BY <1>2, NatLessThanWellFounded, WFMin
<1>4. PICK any \in SUBSET Modules : Cardinality(any) = least /\ ~Sound(any, Resolve[any])
  OBVIOUS
<1>5. Needy(any) # {}
  <2> SUFFICES ASSUME Needy(any) = {} PROVE FALSE
    OBVIOUS
  <2>1. Resolve[any] = any
    BY ResolveIsDefined
  <2>2. Closed(any)
    BY AdministrationAssumption DEF Needy, Closed
  <2> QED
    BY <1>4, <2>1, <2>2 DEF Sound
<1> DEFINE fewer == any \ Needy(any)
<1>6. fewer \in SUBSET Modules /\ fewer \subseteq any /\ fewer # any
  BY <1>5 DEF Needy
<1>7. Cardinality(fewer) < least
  <2>1. Cardinality(fewer) <= Cardinality(any)
    BY <1>1, <1>6, FS_Subset
  <2>2. Cardinality(fewer) # Cardinality(any)
    BY <1>1, <1>6, FS_Subset
  <2> QED
    BY <1>1, <1>4, <1>6, <2>1, <2>2
<1>8. Sound(fewer, Resolve[fewer])
  <2> SUFFICES ASSUME ~Sound(fewer, Resolve[fewer]) PROVE FALSE
    OBVIOUS
  <2>1. Cardinality(fewer) \in Sizes
    BY <1>6
  <2> QED
    BY <1>1, <1>2, <1>3, <1>6, <1>7, <2>1 DEF OpToRel
<1>9. Resolve[any] = Resolve[fewer]
  BY <1>5, ResolveIsDefined
<1>10. CoreModules \subseteq any => CoreModules \subseteq fewer
  BY AdministrationAssumption DEF Needy
<1> QED
  BY <1>4, <1>6, <1>8, <1>9, <1>10 DEF Sound

-----------------------------------------------------------------------------
(* The inductive invariant of the workspace.                               *)

TablesOK ==
  /\ person \in [People -> PersonRows \cup {Void}]
  /\ granted \subseteq People \X Rights
  /\ device \in [Devices -> DeviceRows \cup {Void}]
  /\ off \subseteq Modules
  /\ audit \in [Subjects -> Operations \cup {Void}]

SessionOK ==
  /\ session \in SessionRows \cup {Void}
  /\ login \in 0..MaxLogins
  /\ generation \in 0..login
  /\ contexts \subseteq ContextRows
  /\ connection \in {"online", "offline"}
  /\ active \subseteq Modules

(* A context that still tells its sign-in is of no later generation.       *)
ContextsDated ==
  \A c \in contexts : c.login # 0 =>
    c.generation <= generation /\ (c.generation = generation => c.login = login)

Owns(p) ==
  /\ person[p] # Void /\ person[p].owner /\ ~person[p].disabled
  /\ RightsOf(p) = Rights
  /\ PersonNamed(person[p].username) = {p}
  /\ \A q \in People \ {p} : person[q] # Void => ~person[q].owner

Nobody == \A p \in People : person[p] = Void

(* Somebody owns the shop from the first person on, and before there is    *)
(* no session and no right.                                                *)
OwnerStands ==
  /\ Nobody \/ \E p \in People : Owns(p)
  /\ Nobody => session = Void /\ granted = {}

MachineStands == Nobody \/ \E d \in Devices : device[d] = "active"

(* Who is signed in is on file, and so is the machine.                     *)
SessionStands ==
  session # Void => person[session.person] # Void /\ device[session.device] = "active"

ModulesStand ==
  /\ ActivationOk(off)
  /\ CoreModules \subseteq active /\ Closed(active)

(* What the audit says of rights, machines, people and modules.            *)
RightsTold ==
  \A p \in People, r \in Rights : person[p] = Void \/ ~person[p].owner =>
    (<<p, r>> \in granted <=> audit[<<"right", p, r>>] = "right_grant")

DevicesTold ==
  \A d \in Devices : device[d] = "retired" <=> audit[<<"device", d>>] = "device_retire"

PeopleTold ==
  \A p \in People : person[p] # Void =>
    /\ audit[<<"person", p>>] # Void
    /\ person[p].disabled => audit[<<"person", p>>] \in {"person_disable", "person_update"}

ModulesTold == off # {} => audit[<<"modules">>] # Void

AuditStands == RightsTold /\ DevicesTold /\ PeopleTold /\ ModulesTold

TablesStand ==
  TablesOK /\ OwnerStands /\ MachineStands /\ SessionStands /\ ModulesStand /\ AuditStands

WorkspaceInv == SessionOK /\ ContextsDated /\ TablesStand

-----------------------------------------------------------------------------
(* A row of the audit is about one subject, and names an operation.        *)

LEMMA VoidApart ==
  /\ \A r \in PersonRows : r # Void
  /\ \A state \in DeviceRows : state # Void
  /\ \A operation \in Operations : operation # Void
  /\ "active" # Void /\ "retired" # Void
BY VoidAssumption DEF DeviceRows

LEMMA SubjectsApart ==
  /\ \A p \in People : <<"person", p>> \in Subjects
  /\ \A d \in Devices : <<"device", d>> \in Subjects
  /\ \A s \in Settings : <<"setting", s>> \in Subjects
  /\ \A p \in People, r \in Rights : <<"right", p, r>> \in Subjects
  /\ <<"modules">> \in Subjects
  /\ \A p, d : <<"person", p>> # <<"device", d>>
  /\ \A p, s : <<"person", p>> # <<"setting", s>>
  /\ \A d, s : <<"device", d>> # <<"setting", s>>
  /\ \A p, q, r : <<"person", p>> # <<"right", q, r>>
  /\ \A d, q, r : <<"device", d>> # <<"right", q, r>>
  /\ \A s, q, r : <<"setting", s>> # <<"right", q, r>>
  /\ \A p : <<"person", p>> # <<"modules">>
  /\ \A d : <<"device", d>> # <<"modules">>
  /\ \A s : <<"setting", s>> # <<"modules">>
  /\ \A q, r : <<"right", q, r>> # <<"modules">>
<1>1. \A p \in People, r \in Rights : <<"right", p, r>> \in Subjects
  BY DEF Subjects
<1>2. \A p, q, r : <<"person", p>> # <<"right", q, r>>
  OBVIOUS
<1>3. \A p : <<"person", p>> # <<"modules">>
  OBVIOUS
<1>4. \A q, r : <<"right", q, r>> # <<"modules">>
  OBVIOUS
<1>5. \A d, q, r : <<"device", d>> # <<"right", q, r>>
  OBVIOUS
<1>6. \A s, q, r : <<"setting", s>> # <<"right", q, r>>
  OBVIOUS
<1>7. (\A d : <<"device", d>> # <<"modules">>) /\ (\A s : <<"setting", s>> # <<"modules">>)
  OBVIOUS
<1>8. /\ \A p, d : <<"person", p>> # <<"device", d>>
      /\ \A p, s : <<"person", p>> # <<"setting", s>>
      /\ \A d, s : <<"device", d>> # <<"setting", s>>
  OBVIOUS
<1>9. /\ \A p \in People : <<"person", p>> \in Subjects
      /\ \A d \in Devices : <<"device", d>> \in Subjects
      /\ \A s \in Settings : <<"setting", s>> \in Subjects
      /\ <<"modules">> \in Subjects
  BY DEF Subjects
<1> QED
  BY <1>1, <1>2, <1>3, <1>4, <1>5, <1>6, <1>7, <1>8, <1>9

LEMMA NoteTells ==
  ASSUME audit \in [Subjects -> Operations \cup {Void}],
         NEW subject \in Subjects, NEW operation \in Operations, Note(subject, operation)
  PROVE  /\ audit' \in [Subjects -> Operations \cup {Void}]
         /\ audit'[subject] = operation
         /\ \A other \in Subjects : other # subject => audit'[other] = audit[other]
BY DEF Note

PersonRowsStand(some) == \A p \in some : audit'[<<"person", p>>] = audit[<<"person", p>>]
RightRowsStand ==
  \A p \in People, r \in Rights : audit'[<<"right", p, r>>] = audit[<<"right", p, r>>]
DeviceRowsStand(some) == \A d \in some : audit'[<<"device", d>>] = audit[<<"device", d>>]
ModulesRowStands == audit'[<<"modules">>] = audit[<<"modules">>]

LEMMA PersonNoted ==
  ASSUME TablesOK, NEW p \in People, NEW operation \in Operations, Note(<<"person", p>>, operation)
  PROVE  /\ audit' \in [Subjects -> Operations \cup {Void}]
         /\ audit'[<<"person", p>>] = operation
         /\ PersonRowsStand(People \ {p}) /\ RightRowsStand /\ DeviceRowsStand(Devices)
         /\ ModulesRowStands
<1>1. <<"person", p>> \in Subjects
  BY SubjectsApart
<1>2. /\ audit' \in [Subjects -> Operations \cup {Void}]
      /\ audit'[<<"person", p>>] = operation
      /\ \A other \in Subjects : other # <<"person", p>> => audit'[other] = audit[other]
  BY <1>1, NoteTells DEF TablesOK
<1>3. PersonRowsStand(People \ {p})
  BY <1>2, SubjectsApart DEF PersonRowsStand
<1>4. \A q \in People, r \in Rights : audit'[<<"right", q, r>>] = audit[<<"right", q, r>>]
  BY <1>2, SubjectsApart
<1>5. DeviceRowsStand(Devices)
  BY <1>2, SubjectsApart DEF DeviceRowsStand
<1>6. ModulesRowStands
  BY <1>2, SubjectsApart DEF ModulesRowStands
<1> QED
  BY <1>2, <1>3, <1>4, <1>5, <1>6 DEF RightRowsStand

LEMMA RightNoted ==
  ASSUME TablesOK, NEW p \in People, NEW right \in Rights, NEW operation \in Operations,
         Note(<<"right", p, right>>, operation)
  PROVE  /\ audit' \in [Subjects -> Operations \cup {Void}]
         /\ audit'[<<"right", p, right>>] = operation
         /\ \A q \in People, r \in Rights :
              q # p \/ r # right => audit'[<<"right", q, r>>] = audit[<<"right", q, r>>]
         /\ PersonRowsStand(People) /\ DeviceRowsStand(Devices) /\ ModulesRowStands
<1>1. <<"right", p, right>> \in Subjects
  BY SubjectsApart
<1>2. /\ audit' \in [Subjects -> Operations \cup {Void}]
      /\ audit'[<<"right", p, right>>] = operation
      /\ \A other \in Subjects : other # <<"right", p, right>> => audit'[other] = audit[other]
  BY <1>1, NoteTells DEF TablesOK
<1>3. PersonRowsStand(People)
  BY <1>2, SubjectsApart DEF PersonRowsStand
<1>4. \A q \in People, r \in Rights : 
        q # p \/ r # right => audit'[<<"right", q, r>>] = audit[<<"right", q, r>>]
  BY <1>2, SubjectsApart
<1>5. DeviceRowsStand(Devices)
  BY <1>2, SubjectsApart DEF DeviceRowsStand
<1>6. ModulesRowStands
  BY <1>2, SubjectsApart DEF ModulesRowStands
<1> QED
  BY <1>2, <1>3, <1>4, <1>5, <1>6 DEF RightRowsStand

LEMMA DeviceNoted ==
  ASSUME TablesOK, NEW d \in Devices, NEW operation \in Operations, Note(<<"device", d>>, operation)
  PROVE  /\ audit' \in [Subjects -> Operations \cup {Void}]
         /\ audit'[<<"device", d>>] = operation
         /\ PersonRowsStand(People) /\ RightRowsStand /\ DeviceRowsStand(Devices \ {d})
         /\ ModulesRowStands
<1>1. <<"device", d>> \in Subjects
  BY SubjectsApart
<1>2. /\ audit' \in [Subjects -> Operations \cup {Void}]
      /\ audit'[<<"device", d>>] = operation
      /\ \A other \in Subjects : other # <<"device", d>> => audit'[other] = audit[other]
  BY <1>1, NoteTells DEF TablesOK
<1>3. PersonRowsStand(People)
  BY <1>2, SubjectsApart DEF PersonRowsStand
<1>4. \A q \in People, r \in Rights : audit'[<<"right", q, r>>] = audit[<<"right", q, r>>]
  BY <1>2, SubjectsApart
<1>5. DeviceRowsStand(Devices \ {d})
  BY <1>2, SubjectsApart DEF DeviceRowsStand
<1>6. ModulesRowStands
  BY <1>2, SubjectsApart DEF ModulesRowStands
<1> QED
  BY <1>2, <1>3, <1>4, <1>5, <1>6 DEF RightRowsStand

LEMMA SettingNoted ==
  ASSUME TablesOK, NEW s \in Settings, NEW operation \in Operations, Note(<<"setting", s>>, operation)
  PROVE  /\ audit' \in [Subjects -> Operations \cup {Void}]
         /\ PersonRowsStand(People) /\ RightRowsStand /\ DeviceRowsStand(Devices)
         /\ ModulesRowStands
<1>1. <<"setting", s>> \in Subjects
  BY SubjectsApart
<1>2. /\ audit' \in [Subjects -> Operations \cup {Void}]
      /\ audit'[<<"setting", s>>] = operation
      /\ \A other \in Subjects : other # <<"setting", s>> => audit'[other] = audit[other]
  BY <1>1, NoteTells DEF TablesOK
<1>3. PersonRowsStand(People)
  BY <1>2, SubjectsApart DEF PersonRowsStand
<1>4. \A q \in People, r \in Rights : audit'[<<"right", q, r>>] = audit[<<"right", q, r>>]
  BY <1>2, SubjectsApart
<1>5. DeviceRowsStand(Devices)
  BY <1>2, SubjectsApart DEF DeviceRowsStand
<1>6. ModulesRowStands
  BY <1>2, SubjectsApart DEF ModulesRowStands
<1> QED
  BY <1>2, <1>3, <1>4, <1>5, <1>6 DEF RightRowsStand

LEMMA ModulesNoted ==
  ASSUME TablesOK, NEW operation \in Operations, Note(<<"modules">>, operation)
  PROVE  /\ audit' \in [Subjects -> Operations \cup {Void}]
         /\ audit'[<<"modules">>] = operation
         /\ PersonRowsStand(People) /\ RightRowsStand /\ DeviceRowsStand(Devices)
<1>1. <<"modules">> \in Subjects
  BY SubjectsApart
<1>2. /\ audit' \in [Subjects -> Operations \cup {Void}]
      /\ audit'[<<"modules">>] = operation
      /\ \A other \in Subjects : other # <<"modules">> => audit'[other] = audit[other]
  BY <1>1, NoteTells DEF TablesOK
<1>3. PersonRowsStand(People)
  BY <1>2, SubjectsApart DEF PersonRowsStand
<1>4. \A q \in People, r \in Rights : audit'[<<"right", q, r>>] = audit[<<"right", q, r>>]
  BY <1>2, SubjectsApart
<1>5. DeviceRowsStand(Devices)
  BY <1>2, SubjectsApart DEF DeviceRowsStand
<1> QED
  BY <1>2, <1>3, <1>4, <1>5 DEF RightRowsStand

-----------------------------------------------------------------------------
(* Each handler of administration, run by somebody who is signed in.       *)

LEMMA CreateKeeps ==
  ASSUME SessionOK, TablesStand, session # Void,
         NEW p \in People, NEW username \in Usernames, NEW owner \in BOOLEAN,
         CreatePerson(session, p, username, owner), UNCHANGED sessionVars
  PROVE  TablesStand'
<1> USE DEF sessionVars
<1>1. ~Nobody /\ session.person \in People
  BY DEF TablesStand, OwnerStands, SessionOK, SessionRows
<1>2. /\ person[p] = Void /\ PersonNamed(username) = {}
      /\ person' = [person EXCEPT ![p] =
           [username |-> username, owner |-> FALSE, disabled |-> FALSE]]
      /\ UNCHANGED <<granted, device, setting, off>>
      /\ Note(<<"person", p>>, "person_create")
  BY <1>1 DEF CreatePerson, Nobody
<1>3. /\ audit' \in [Subjects -> Operations \cup {Void}]
      /\ audit'[<<"person", p>>] = "person_create"
      /\ PersonRowsStand(People \ {p}) /\ RightRowsStand /\ DeviceRowsStand(Devices)
      /\ ModulesRowStands
  <2>1. TablesOK /\ "person_create" \in Operations /\ "person_update" \in Operations
    BY DEF TablesStand, Operations
  <2> QED
    BY <1>2, <2>1, PersonNoted
<1> DEFINE new == [username |-> username, owner |-> FALSE, disabled |-> FALSE]
<1>a. new \in PersonRows
  BY DEF PersonRows
<1>b. new # Void
  BY <1>a, VoidApart
<1>c. new.username = username /\ ~new.owner /\ ~new.disabled
  OBVIOUS
<1>4. /\ \A q \in People \ {p} : person'[q] = person[q]
      /\ person'[p] = new
  BY <1>2 DEF TablesStand, TablesOK
<1> HIDE DEF new
<1>5. TablesOK'
  <2>1. person' \in [People -> PersonRows \cup {Void}]
    BY <1>2, <1>a DEF TablesStand, TablesOK, new
  <2> QED
    BY <1>2, <1>3, <2>1 DEF TablesStand, TablesOK
<1>6. OwnerStands'
  <2>1. PICK q \in People : Owns(q)
    BY <1>1 DEF TablesStand, OwnerStands
  <2>2. q # p
    BY <1>2, <2>1 DEF Owns
  <2>3. PersonNamed(person[q].username)' = {q}
    BY <1>2, <1>4, <2>1, <2>2 DEF Owns, PersonNamed
  <2>4. Owns(q)'
    BY <1>2, <1>4, <2>1, <2>2, <2>3 DEF Owns, RightsOf
  <2> QED
    BY <2>4 DEF OwnerStands, Nobody, Owns
<1>7. MachineStands'
  BY <1>1, <1>2 DEF TablesStand, MachineStands
<1>8. SessionStands'
  BY <1>1, <1>2, <1>4 DEF TablesStand, SessionStands
<1>9. ModulesStand'
  BY <1>2 DEF TablesStand, ModulesStand, ActivationOk
<1>10. AuditStands'
  <2>1. RightsTold'
    BY <1>2, <1>3, <1>4 DEF TablesStand, AuditStands, RightsTold, RightRowsStand
  <2>2. DevicesTold'
    BY <1>2, <1>3 DEF TablesStand, AuditStands, DevicesTold, DeviceRowsStand
  <2>3. PeopleTold'
    <3>1. audit'[<<"person", p>>] # Void
      BY <1>3, VoidApart DEF Operations
    <3> QED
      BY <1>2, <1>3, <1>4, <3>1 DEF TablesStand, AuditStands, PeopleTold, PersonRowsStand
  <2>4. ModulesTold'
    BY <1>2, <1>3 DEF TablesStand, AuditStands, ModulesTold, ModulesRowStands
  <2> QED
    BY <2>1, <2>2, <2>3, <2>4 DEF AuditStands
<1> QED
  BY <1>5, <1>6, <1>7, <1>8, <1>9, <1>10 DEF TablesStand

(* A change of one person's row that keeps what makes an owner.            *)
LEMMA RenamingKeeps ==
  ASSUME SessionOK, TablesStand, session # Void,
         NEW p \in People, NEW username \in Usernames,
         UpdatePerson(session, p, username), UNCHANGED sessionVars
  PROVE  TablesStand'
<1> USE DEF sessionVars
<1>1. ~Nobody /\ session.person \in People
  BY DEF TablesStand, OwnerStands, SessionOK, SessionRows
<1>2. /\ person[p] # Void /\ PersonNamed(username) \subseteq {p}
      /\ person' = [person EXCEPT ![p].username = username]
      /\ UNCHANGED <<granted, device, setting, off>>
      /\ Note(<<"person", p>>, "person_update")
  BY DEF UpdatePerson
<1>3. /\ audit' \in [Subjects -> Operations \cup {Void}]
      /\ audit'[<<"person", p>>] = "person_update"
      /\ PersonRowsStand(People \ {p}) /\ RightRowsStand /\ DeviceRowsStand(Devices)
      /\ ModulesRowStands
  <2>1. TablesOK /\ "person_create" \in Operations /\ "person_update" \in Operations
    BY DEF TablesStand, Operations
  <2> QED
    BY <1>2, <2>1, PersonNoted
<1>4. /\ \A q \in People \ {p} : person'[q] = person[q]
      /\ person'[p] \in PersonRows /\ person'[p] # Void
      /\ person'[p].username = username
      /\ person'[p].owner = person[p].owner /\ person'[p].disabled = person[p].disabled
  BY <1>2, VoidAssumption DEF TablesStand, TablesOK, PersonRows
<1>5. TablesOK'
  BY <1>2, <1>3, <1>4 DEF TablesStand, TablesOK
<1>6. OwnerStands'
  <2>1. PICK q \in People : Owns(q)
    BY <1>1 DEF TablesStand, OwnerStands
  <2>2. PersonNamed(person[q].username)' = {q}
    <3>1. CASE q = p
      <4>1. \A other \in People \ {p} : person[other] # Void => person[other].username # username
        BY <1>2 DEF PersonNamed
      <4> QED
        BY <1>4, <3>1, <4>1 DEF PersonNamed
    <3>2. CASE q # p
      <4>1. person[q].username # username
        BY <1>2, <2>1, <3>2 DEF PersonNamed, Owns
      <4> QED
        BY <1>4, <2>1, <3>2, <4>1 DEF PersonNamed, Owns
    <3> QED
      BY <3>1, <3>2
  <2>3. Owns(q)'
    BY <1>2, <1>4, <2>1, <2>2 DEF Owns, RightsOf
  <2> QED
    BY <2>3 DEF OwnerStands, Nobody, Owns
<1>7. MachineStands'
  BY <1>1, <1>2 DEF TablesStand, MachineStands
<1>8. SessionStands'
  BY <1>1, <1>2, <1>4 DEF TablesStand, SessionStands
<1>9. ModulesStand'
  BY <1>2 DEF TablesStand, ModulesStand, ActivationOk
<1>10. AuditStands'
  <2>1. RightsTold'
    BY <1>2, <1>3, <1>4 DEF TablesStand, AuditStands, RightsTold, RightRowsStand
  <2>2. DevicesTold'
    BY <1>2, <1>3 DEF TablesStand, AuditStands, DevicesTold, DeviceRowsStand
  <2>3. PeopleTold'
    <3>1. audit'[<<"person", p>>] # Void
      BY <1>3, VoidApart DEF Operations
    <3> QED
      BY <1>2, <1>3, <1>4, <3>1 DEF TablesStand, AuditStands, PeopleTold, PersonRowsStand
  <2>4. ModulesTold'
    BY <1>2, <1>3 DEF TablesStand, AuditStands, ModulesTold, ModulesRowStands
  <2> QED
    BY <2>1, <2>2, <2>3, <2>4 DEF AuditStands
<1> QED
  BY <1>5, <1>6, <1>7, <1>8, <1>9, <1>10 DEF TablesStand

LEMMA DisablingKeeps ==
  ASSUME SessionOK, TablesStand, session # Void,
         NEW p \in People, DisablePerson(session, p), UNCHANGED sessionVars
  PROVE  TablesStand'
<1> USE DEF sessionVars
<1>1. ~Nobody /\ session.person \in People
  BY DEF TablesStand, OwnerStands, SessionOK, SessionRows
<1>2. /\ person[p] # Void /\ ~person[p].owner
      /\ person' = [person EXCEPT ![p].disabled = TRUE]
      /\ UNCHANGED <<granted, device, setting, off>>
      /\ Note(<<"person", p>>, "person_disable")
  BY DEF DisablePerson
<1>3. /\ audit' \in [Subjects -> Operations \cup {Void}]
      /\ audit'[<<"person", p>>] = "person_disable"
      /\ PersonRowsStand(People \ {p}) /\ RightRowsStand /\ DeviceRowsStand(Devices)
      /\ ModulesRowStands
  <2>1. TablesOK /\ "person_disable" \in Operations
    BY DEF TablesStand, Operations
  <2> QED
    BY <1>2, <2>1, PersonNoted
<1>4. /\ \A q \in People \ {p} : person'[q] = person[q]
      /\ person'[p] \in PersonRows /\ person'[p] # Void
      /\ person'[p].username = person[p].username
      /\ person'[p].owner = person[p].owner
  BY <1>2, VoidAssumption DEF TablesStand, TablesOK, PersonRows
<1>5. TablesOK'
  BY <1>2, <1>3, <1>4 DEF TablesStand, TablesOK
<1>6. OwnerStands'
  <2>1. PICK q \in People : Owns(q)
    BY <1>1 DEF TablesStand, OwnerStands
  <2>2. q # p
    BY <1>2, <2>1 DEF Owns
  <2>3. PersonNamed(person[q].username)' = {q}
    BY <1>2, <1>4, <2>1, <2>2 DEF Owns, PersonNamed
  <2>4. Owns(q)'
    BY <1>2, <1>4, <2>1, <2>2, <2>3 DEF Owns, RightsOf
  <2> QED
    BY <2>4 DEF OwnerStands, Nobody, Owns
<1>7. MachineStands'
  BY <1>1, <1>2 DEF TablesStand, MachineStands
<1>8. SessionStands'
  BY <1>1, <1>2, <1>4 DEF TablesStand, SessionStands
<1>9. ModulesStand'
  BY <1>2 DEF TablesStand, ModulesStand, ActivationOk
<1>10. AuditStands'
  <2>1. RightsTold'
    BY <1>2, <1>3, <1>4 DEF TablesStand, AuditStands, RightsTold, RightRowsStand
  <2>2. DevicesTold'
    BY <1>2, <1>3 DEF TablesStand, AuditStands, DevicesTold, DeviceRowsStand
  <2>3. PeopleTold'
    <3>1. audit'[<<"person", p>>] # Void
      BY <1>3, VoidApart DEF Operations
    <3> QED
      BY <1>2, <1>3, <1>4, <3>1 DEF TablesStand, AuditStands, PeopleTold, PersonRowsStand
  <2>4. ModulesTold'
    BY <1>2, <1>3 DEF TablesStand, AuditStands, ModulesTold, ModulesRowStands
  <2> QED
    BY <2>1, <2>2, <2>3, <2>4 DEF AuditStands
<1> QED
  BY <1>5, <1>6, <1>7, <1>8, <1>9, <1>10 DEF TablesStand

LEMMA GrantingKeeps ==
  ASSUME SessionOK, TablesStand, session # Void,
         NEW p \in People, NEW right \in Rights, GrantRight(session, p, right), UNCHANGED sessionVars
  PROVE  TablesStand'
<1> USE DEF sessionVars
<1>1. ~Nobody /\ session.person \in People
  BY DEF TablesStand, OwnerStands, SessionOK, SessionRows
<1>2. /\ granted' = granted \cup {<<p, right>>}
      /\ UNCHANGED <<person, device, setting, off>>
      /\ Note(<<"right", p, right>>, "right_grant")
  BY DEF GrantRight
<1>3. /\ audit' \in [Subjects -> Operations \cup {Void}]
      /\ audit'[<<"right", p, right>>] = "right_grant"
      /\ \A q \in People, r \in Rights :
           q # p \/ r # right => audit'[<<"right", q, r>>] = audit[<<"right", q, r>>]
      /\ PersonRowsStand(People) /\ DeviceRowsStand(Devices) /\ ModulesRowStands
  <2>1. TablesOK /\ "right_grant" \in Operations
    BY DEF TablesStand, Operations
  <2> QED
    BY <1>2, <2>1, RightNoted
<1>5. TablesOK'
  BY <1>2, <1>3 DEF TablesStand, TablesOK
<1>6. OwnerStands'
  BY <1>1, <1>2 DEF TablesStand, OwnerStands, Nobody, Owns, RightsOf, PersonNamed
<1>7. MachineStands'
  BY <1>1, <1>2 DEF TablesStand, MachineStands
<1>8. SessionStands'
  BY <1>1, <1>2 DEF TablesStand, SessionStands
<1>9. ModulesStand'
  BY <1>2 DEF TablesStand, ModulesStand, ActivationOk
<1>10. AuditStands'
  <2>1. RightsTold'
    BY <1>2, <1>3 DEF TablesStand, AuditStands, RightsTold
  <2>2. DevicesTold'
    BY <1>2, <1>3 DEF TablesStand, AuditStands, DevicesTold, DeviceRowsStand
  <2>3. PeopleTold'
    BY <1>2, <1>3 DEF TablesStand, AuditStands, PeopleTold, PersonRowsStand
  <2>4. ModulesTold'
    BY <1>2, <1>3 DEF TablesStand, AuditStands, ModulesTold, ModulesRowStands
  <2> QED
    BY <2>1, <2>2, <2>3, <2>4 DEF AuditStands
<1> QED
  BY <1>5, <1>6, <1>7, <1>8, <1>9, <1>10 DEF TablesStand

LEMMA RevokingKeeps ==
  ASSUME SessionOK, TablesStand, session # Void,
         NEW p \in People, NEW right \in Rights, RevokeRight(session, p, right), UNCHANGED sessionVars
  PROVE  TablesStand'
<1> USE DEF sessionVars
<1>1. ~Nobody /\ session.person \in People
  BY DEF TablesStand, OwnerStands, SessionOK, SessionRows
<1>2. /\ person[p] # Void /\ ~person[p].owner
      /\ granted' = granted \ {<<p, right>>}
      /\ UNCHANGED <<person, device, setting, off>>
      /\ Note(<<"right", p, right>>, "right_revoke")
  BY DEF RevokeRight
<1>3. /\ audit' \in [Subjects -> Operations \cup {Void}]
      /\ audit'[<<"right", p, right>>] = "right_revoke"
      /\ \A q \in People, r \in Rights :
           q # p \/ r # right => audit'[<<"right", q, r>>] = audit[<<"right", q, r>>]
      /\ PersonRowsStand(People) /\ DeviceRowsStand(Devices) /\ ModulesRowStands
  <2>1. TablesOK /\ "right_revoke" \in Operations
    BY DEF TablesStand, Operations
  <2> QED
    BY <1>2, <2>1, RightNoted
<1>5. TablesOK'
  BY <1>2, <1>3 DEF TablesStand, TablesOK
<1>6. OwnerStands'
  BY <1>1, <1>2 DEF TablesStand, OwnerStands, Nobody, Owns, RightsOf, PersonNamed
<1>7. MachineStands'
  BY <1>1, <1>2 DEF TablesStand, MachineStands
<1>8. SessionStands'
  BY <1>1, <1>2 DEF TablesStand, SessionStands
<1>9. ModulesStand'
  BY <1>2 DEF TablesStand, ModulesStand, ActivationOk
<1>10. AuditStands'
  <2>1. RightsTold'
    BY <1>2, <1>3 DEF TablesStand, AuditStands, RightsTold
  <2>2. DevicesTold'
    BY <1>2, <1>3 DEF TablesStand, AuditStands, DevicesTold, DeviceRowsStand
  <2>3. PeopleTold'
    BY <1>2, <1>3 DEF TablesStand, AuditStands, PeopleTold, PersonRowsStand
  <2>4. ModulesTold'
    BY <1>2, <1>3 DEF TablesStand, AuditStands, ModulesTold, ModulesRowStands
  <2> QED
    BY <2>1, <2>2, <2>3, <2>4 DEF AuditStands
<1> QED
  BY <1>5, <1>6, <1>7, <1>8, <1>9, <1>10 DEF TablesStand

LEMMA RegisteringKeeps ==
  ASSUME SessionOK, TablesStand, session # Void,
         NEW d \in Devices, RegisterDevice(session, d), UNCHANGED sessionVars
  PROVE  TablesStand'
<1> USE DEF sessionVars
<1>1. ~Nobody /\ session.person \in People
  BY DEF TablesStand, OwnerStands, SessionOK, SessionRows
<1>2. /\ device[d] = Void
      /\ device' = [device EXCEPT ![d] = "active"]
      /\ UNCHANGED <<person, granted, setting, off>>
      /\ Note(<<"device", d>>, "device_register")
  BY DEF RegisterDevice
<1>3. /\ audit' \in [Subjects -> Operations \cup {Void}]
      /\ audit'[<<"device", d>>] = "device_register"
      /\ PersonRowsStand(People) /\ RightRowsStand /\ DeviceRowsStand(Devices \ {d})
      /\ ModulesRowStands
  <2>1. TablesOK /\ "device_register" \in Operations
    BY DEF TablesStand, Operations
  <2> QED
    BY <1>2, <2>1, DeviceNoted
<1>4. device'[d] = "active" /\ \A x \in Devices \ {d} : device'[x] = device[x]
  BY <1>2 DEF TablesStand, TablesOK
<1>5. TablesOK'
  BY <1>2, <1>3 DEF TablesStand, TablesOK, DeviceRows
<1>6. OwnerStands'
  BY <1>1, <1>2 DEF TablesStand, OwnerStands, Nobody, Owns, RightsOf, PersonNamed
<1>7. MachineStands'
  BY <1>4 DEF MachineStands
<1>8. SessionStands'
  BY <1>1, <1>2, <1>4 DEF TablesStand, SessionStands, SessionOK, SessionRows
<1>9. ModulesStand'
  BY <1>2 DEF TablesStand, ModulesStand, ActivationOk
<1>10. AuditStands'
  <2>1. RightsTold'
    BY <1>2, <1>3 DEF TablesStand, AuditStands, RightsTold, RightRowsStand
  <2>2. DevicesTold'
    BY <1>2, <1>3, <1>4 DEF TablesStand, AuditStands, DevicesTold, DeviceRowsStand
  <2>3. PeopleTold'
    BY <1>2, <1>3 DEF TablesStand, AuditStands, PeopleTold, PersonRowsStand
  <2>4. ModulesTold'
    BY <1>2, <1>3 DEF TablesStand, AuditStands, ModulesTold, ModulesRowStands
  <2> QED
    BY <2>1, <2>2, <2>3, <2>4 DEF AuditStands
<1> QED
  BY <1>5, <1>6, <1>7, <1>8, <1>9, <1>10 DEF TablesStand

(* The machine that is used stays.                                         *)
LEMMA RetiringKeeps ==
  ASSUME SessionOK, TablesStand, session # Void,
         NEW d \in Devices, RetireDevice(session, d), UNCHANGED sessionVars
  PROVE  TablesStand'
<1> USE DEF sessionVars
<1>1. ~Nobody /\ session.person \in People
  BY DEF TablesStand, OwnerStands, SessionOK, SessionRows
<1>2. /\ d # session.device
      /\ device' = [device EXCEPT ![d] = "retired"]
      /\ UNCHANGED <<person, granted, setting, off>>
      /\ Note(<<"device", d>>, "device_retire")
  BY DEF RetireDevice
<1>3. /\ audit' \in [Subjects -> Operations \cup {Void}]
      /\ audit'[<<"device", d>>] = "device_retire"
      /\ PersonRowsStand(People) /\ RightRowsStand /\ DeviceRowsStand(Devices \ {d})
      /\ ModulesRowStands
  <2>1. TablesOK /\ "device_retire" \in Operations
    BY DEF TablesStand, Operations
  <2> QED
    BY <1>2, <2>1, DeviceNoted
<1>4. /\ device'[d] = "retired" /\ \A x \in Devices \ {d} : device'[x] = device[x]
      /\ session.device \in Devices \ {d} /\ device[session.device] = "active"
  BY <1>2 DEF TablesStand, TablesOK, SessionStands, SessionOK, SessionRows
<1>5. TablesOK'
  BY <1>2, <1>3 DEF TablesStand, TablesOK, DeviceRows
<1>6. OwnerStands'
  BY <1>1, <1>2 DEF TablesStand, OwnerStands, Nobody, Owns, RightsOf, PersonNamed
<1>7. MachineStands'
  BY <1>4 DEF MachineStands
<1>8. SessionStands'
  BY <1>1, <1>2, <1>4 DEF TablesStand, SessionStands
<1>9. ModulesStand'
  BY <1>2 DEF TablesStand, ModulesStand, ActivationOk
<1>10. AuditStands'
  <2>1. RightsTold'
    BY <1>2, <1>3 DEF TablesStand, AuditStands, RightsTold, RightRowsStand
  <2>2. DevicesTold'
    <3> SUFFICES ASSUME NEW x \in Devices
                 PROVE  device'[x] = "retired" <=> audit'[<<"device", x>>] = "device_retire"
      BY DEF DevicesTold
    <3>1. CASE x = d
      BY <1>3, <1>4, <3>1
    <3>2. CASE x # d
      <4>1. device'[x] = device[x] /\ audit'[<<"device", x>>] = audit[<<"device", x>>]
        BY <1>3, <1>4, <3>2 DEF DeviceRowsStand
      <4> QED
        BY <4>1 DEF TablesStand, AuditStands, DevicesTold
    <3> QED
      BY <3>1, <3>2
  <2>3. PeopleTold'
    BY <1>2, <1>3 DEF TablesStand, AuditStands, PeopleTold, PersonRowsStand
  <2>4. ModulesTold'
    BY <1>2, <1>3 DEF TablesStand, AuditStands, ModulesTold, ModulesRowStands
  <2> QED
    BY <2>1, <2>2, <2>3, <2>4 DEF AuditStands
<1> QED
  BY <1>5, <1>6, <1>7, <1>8, <1>9, <1>10 DEF TablesStand

LEMMA SettingKeeps ==
  ASSUME SessionOK, TablesStand, session # Void,
         NEW s \in Settings, NEW value \in Values, UpdateSetting(session, s, value), UNCHANGED sessionVars
  PROVE  TablesStand'
<1> USE DEF sessionVars
<1>1. ~Nobody /\ session.person \in People
  BY DEF TablesStand, OwnerStands, SessionOK, SessionRows
<1>2. /\ UNCHANGED <<person, granted, device, off>>
      /\ Note(<<"setting", s>>, "shop_setting_update")
  BY DEF UpdateSetting
<1>3. /\ audit' \in [Subjects -> Operations \cup {Void}]
      /\ PersonRowsStand(People) /\ RightRowsStand /\ DeviceRowsStand(Devices)
      /\ ModulesRowStands
  <2>1. TablesOK /\ "shop_setting_update" \in Operations
    BY DEF TablesStand, Operations
  <2> QED
    BY <1>2, <2>1, SettingNoted
<1>5. TablesOK'
  BY <1>2, <1>3 DEF TablesStand, TablesOK
<1>6. OwnerStands'
  BY <1>1, <1>2 DEF TablesStand, OwnerStands, Nobody, Owns, RightsOf, PersonNamed
<1>7. MachineStands'
  BY <1>1, <1>2 DEF TablesStand, MachineStands
<1>8. SessionStands'
  BY <1>1, <1>2 DEF TablesStand, SessionStands
<1>9. ModulesStand'
  BY <1>2 DEF TablesStand, ModulesStand, ActivationOk
<1>10. AuditStands'
  <2>1. RightsTold'
    BY <1>2, <1>3 DEF TablesStand, AuditStands, RightsTold, RightRowsStand
  <2>2. DevicesTold'
    BY <1>2, <1>3 DEF TablesStand, AuditStands, DevicesTold, DeviceRowsStand
  <2>3. PeopleTold'
    BY <1>2, <1>3 DEF TablesStand, AuditStands, PeopleTold, PersonRowsStand
  <2>4. ModulesTold'
    BY <1>2, <1>3 DEF TablesStand, AuditStands, ModulesTold, ModulesRowStands
  <2> QED
    BY <2>1, <2>2, <2>3, <2>4 DEF AuditStands
<1> QED
  BY <1>5, <1>6, <1>7, <1>8, <1>9, <1>10 DEF TablesStand

LEMMA SwitchingKeeps ==
  ASSUME SessionOK, TablesStand, session # Void,
         NEW disabled \in SUBSET Modules, SetActivation(session, disabled), UNCHANGED sessionVars
  PROVE  TablesStand'
<1> USE DEF sessionVars
<1>1. ~Nobody /\ session.person \in People
  BY DEF TablesStand, OwnerStands, SessionOK, SessionRows
<1>2. /\ off' = disabled /\ ActivationOk(disabled)
      /\ UNCHANGED <<person, granted, device, setting>>
      /\ Note(<<"modules">>, "module_activation_set")
  BY DEF SetActivation
<1>3. /\ audit' \in [Subjects -> Operations \cup {Void}]
      /\ audit'[<<"modules">>] = "module_activation_set"
      /\ PersonRowsStand(People) /\ RightRowsStand /\ DeviceRowsStand(Devices)
  <2>1. TablesOK /\ "module_activation_set" \in Operations
    BY DEF TablesStand, Operations
  <2> QED
    BY <1>2, <2>1, ModulesNoted
<1>5. TablesOK'
  BY <1>2, <1>3 DEF TablesStand, TablesOK
<1>6. OwnerStands'
  BY <1>1, <1>2 DEF TablesStand, OwnerStands, Nobody, Owns, RightsOf, PersonNamed
<1>7. MachineStands'
  BY <1>1, <1>2 DEF TablesStand, MachineStands
<1>8. SessionStands'
  BY <1>1, <1>2 DEF TablesStand, SessionStands
<1>9. ModulesStand'
  BY <1>2 DEF TablesStand, ModulesStand, ActivationOk
<1>10. AuditStands'
  <2>1. RightsTold'
    BY <1>2, <1>3 DEF TablesStand, AuditStands, RightsTold, RightRowsStand
  <2>2. DevicesTold'
    BY <1>2, <1>3 DEF TablesStand, AuditStands, DevicesTold, DeviceRowsStand
  <2>3. PeopleTold'
    BY <1>2, <1>3 DEF TablesStand, AuditStands, PeopleTold, PersonRowsStand
  <2>4. ModulesTold'
    BY <1>3, VoidApart DEF ModulesTold, Operations
  <2> QED
    BY <2>1, <2>2, <2>3, <2>4 DEF AuditStands
<1> QED
  BY <1>5, <1>6, <1>7, <1>8, <1>9, <1>10 DEF TablesStand

-----------------------------------------------------------------------------
(* The other steps: the first person, sessions, contexts, the connection.  *)

LEMMA ProvisioningKeeps ==
  ASSUME WorkspaceInv, NEW p \in People, NEW username \in Usernames, NEW d \in Devices,
         Provision(p, username, d)
  PROVE  WorkspaceInv'
<1> DEFINE owner == [username |-> username, owner |-> TRUE, disabled |-> FALSE]
<1> DEFINE first == <<"person", p>>
<1> DEFINE machine == <<"device", d>>
<1>1. /\ Nobody /\ session = Void /\ granted = {}
      /\ person' = [person EXCEPT ![p] = owner]
      /\ granted' = {p} \X Rights
      /\ device' = [device EXCEPT ![d] = "active"]
      /\ audit' = [audit EXCEPT ![first] = "person_create", ![machine] = "device_register"]
      /\ UNCHANGED <<off, session, generation, login, contexts, connection, active>>
  BY DEF Provision, WorkspaceInv, TablesStand, OwnerStands, Nobody, sessionVars
<1>2. owner \in PersonRows /\ owner.username = username /\ owner.owner /\ ~owner.disabled
  BY DEF PersonRows
<1>3. owner # Void
  BY <1>2, VoidApart
<1> HIDE DEF owner
<1>4. TablesOK
  BY DEF WorkspaceInv, TablesStand
<1>5. /\ audit' \in [Subjects -> Operations \cup {Void}]
      /\ audit'[first] = "person_create" /\ audit'[machine] = "device_register"
      /\ \A other \in Subjects \ {first, machine} : audit'[other] = audit[other]
  <2>1. first \in Subjects /\ machine \in Subjects /\ first # machine
    BY SubjectsApart
  <2>2. "person_create" \in Operations /\ "device_register" \in Operations
    BY DEF Operations
  <2> HIDE DEF first, machine
  <2> QED
    BY <1>1, <1>4, <2>1, <2>2 DEF TablesOK
<1>6. /\ person'[p] = owner /\ \A q \in People \ {p} : person'[q] = Void
      /\ person' \in [People -> PersonRows \cup {Void}]
  BY <1>1, <1>2, <1>4 DEF TablesOK, Nobody
<1>7. device'[d] = "active" /\ \A x \in Devices \ {d} : device'[x] = device[x]
  BY <1>1, <1>4 DEF TablesOK
<1>8. TablesOK'
  BY <1>1, <1>4, <1>5, <1>6 DEF TablesOK, DeviceRows
<1>9. OwnerStands'
  <2>1. RightsOf(p)' = Rights
    BY <1>1 DEF RightsOf
  <2>2. PersonNamed(person[p].username)' = {p}
    BY <1>2, <1>3, <1>6 DEF PersonNamed
  <2>3. Owns(p)'
    BY <1>2, <1>3, <1>6, <2>1, <2>2 DEF Owns
  <2> QED
    BY <2>3 DEF OwnerStands, Owns, Nobody
<1>10. MachineStands' /\ SessionStands'
  BY <1>1, <1>7 DEF MachineStands, SessionStands
<1>11. ModulesStand'
  BY <1>1 DEF WorkspaceInv, TablesStand, ModulesStand, ActivationOk
<1>12. AuditStands'
  <2>1. RightsTold'
    <3>1. \A q \in People, r \in Rights : audit'[<<"right", q, r>>] = audit[<<"right", q, r>>]
      BY <1>5, SubjectsApart
    <3>2. \A q \in People, r \in Rights : audit[<<"right", q, r>>] # "right_grant"
      BY <1>1 DEF WorkspaceInv, TablesStand, AuditStands, RightsTold, Nobody
    <3>3. \A q \in People \ {p}, r \in Rights : <<q, r>> \notin granted'
      BY <1>1
    <3> HIDE DEF first, machine
    <3> QED
      BY <1>2, <1>3, <1>6, <3>1, <3>2, <3>3 DEF RightsTold
  <2>2. DevicesTold'
    <3>1. \A x \in Devices \ {d} : audit'[<<"device", x>>] = audit[<<"device", x>>]
      <4>1. \A x \in Devices \ {d} : <<"device", x>> \in Subjects \ {first, machine}
        BY SubjectsApart
      <4> HIDE DEF first, machine
      <4> QED
        BY <1>5, <4>1
    <3> QED
      BY <1>5, <1>7, <3>1 DEF WorkspaceInv, TablesStand, AuditStands, DevicesTold
  <2>3. PeopleTold'
    <3>1. "person_create" # Void
      BY VoidApart DEF Operations
    <3> QED
      BY <1>2, <1>5, <1>6, <3>1 DEF PeopleTold
  <2>4. ModulesTold'
    BY <1>1, <1>5, SubjectsApart DEF WorkspaceInv, TablesStand, AuditStands, ModulesTold
  <2> QED
    BY <2>1, <2>2, <2>3, <2>4 DEF AuditStands
<1>13. SessionOK' /\ ContextsDated'
  BY <1>1 DEF WorkspaceInv, SessionOK, ContextsDated
<1> QED
  BY <1>8, <1>9, <1>10, <1>11, <1>12, <1>13 DEF WorkspaceInv, TablesStand

(* What only moves the session keeps the tables.                           *)
LEMMA SessionsKeep ==
  ASSUME TablesStand, UNCHANGED administrationVars,
         SessionStands', session' # Void => ~Nobody,
         active' = active \/ (CoreModules \subseteq active' /\ Closed(active'))
  PROVE  TablesStand'
<1>1. TablesOK'
  BY DEF TablesStand, TablesOK, administrationVars
<1>2. OwnerStands'
  BY DEF TablesStand, OwnerStands, Owns, Nobody, RightsOf, PersonNamed, administrationVars
<1>3. MachineStands'
  BY DEF TablesStand, MachineStands, Nobody, administrationVars
<1>4. ModulesStand'
  BY DEF TablesStand, ModulesStand, ActivationOk, Closed, administrationVars
<1>5. AuditStands'
  BY DEF TablesStand, AuditStands, RightsTold, DevicesTold, PeopleTold, ModulesTold,
         administrationVars
<1> QED
  BY <1>1, <1>2, <1>3, <1>4, <1>5 DEF TablesStand

LEMMA SessionRow ==
  ASSUME TablesOK, NEW p \in People, NEW d \in Devices, person[p] # Void
  PROVE  /\ SessionOf(p, d) \in SessionRows
         /\ SessionOf(p, d).person = p /\ SessionOf(p, d).device = d
         /\ SessionOf(p, d).owner = person[p].owner /\ SessionOf(p, d).rights = RightsOf(p)
<1>1. person[p].owner \in BOOLEAN /\ RightsOf(p) \in SUBSET Rights
  BY DEF TablesOK, PersonRows, RightsOf
<1> QED
  BY <1>1 DEF SessionOf, SessionRows

LEMMA SigningInKeeps ==
  ASSUME WorkspaceInv, NEW username \in Usernames, NEW d \in Devices, device[d] = "active",
         Authenticate(username, d)
  PROVE  WorkspaceInv'
<1>1. PICK p \in PersonNamed(username) : SignIn(SessionOf(p, d))
  BY DEF Authenticate
<1>2. p \in People /\ person[p] # Void /\ UNCHANGED <<administrationVars, contexts, connection, active>>
  BY DEF Authenticate, PersonNamed
<1>3. /\ session' = SessionOf(p, d) /\ generation' = generation + 1 /\ login' = login + 1
      /\ login < MaxLogins
  BY <1>1 DEF SignIn
<1>4. /\ session' \in SessionRows /\ session'.person = p /\ session'.device = d
  BY <1>2, <1>3, SessionRow DEF WorkspaceInv, TablesStand
<1>5. SessionOK'
  BY <1>2, <1>3, <1>4, WorkspaceAssumption DEF WorkspaceInv, SessionOK
<1>6. ContextsDated'
  BY <1>2, <1>3 DEF WorkspaceInv, ContextsDated, SessionOK, ContextRows
<1>7. SessionStands' /\ ~Nobody
  BY <1>2, <1>4 DEF SessionStands, Nobody, administrationVars
<1> QED
  BY <1>2, <1>5, <1>6, <1>7, SessionsKeep DEF WorkspaceInv

LEMMA BootingKeeps ==
  ASSUME WorkspaceInv, Boot
  PROVE  /\ WorkspaceInv'
         /\ active' \cap off = {}
         /\ \E p \in People, d \in Devices : session' = SessionOf(p, d) /\ person[p] # Void
<1>1. PICK p \in People, d \in Devices :
        person[p] # Void /\ device[d] = "active" /\ session' = SessionOf(p, d)
  BY DEF Boot
<1>2. /\ generation' = 1 /\ login' = 1 /\ contexts' = {}
      /\ active' = Resolve[Modules \ off] /\ connection' = "offline"
      /\ UNCHANGED administrationVars
  BY DEF Boot, ResolveActivation
<1>3. /\ session' \in SessionRows /\ session'.person = p /\ session'.device = d
  BY <1>1, SessionRow DEF WorkspaceInv, TablesStand
<1>4. /\ active' \subseteq Modules \ off /\ Closed(active')
      /\ CoreModules \subseteq active'
  <2>1. Sound(Modules \ off, active')
    BY <1>2, ResolveIsSound
  <2>2. CoreModules \subseteq Modules \ off
    BY AdministrationAssumption DEF WorkspaceInv, TablesStand, ModulesStand, ActivationOk
  <2> QED
    BY <2>1, <2>2 DEF Sound
<1>5. SessionOK' /\ ContextsDated'
  <2>1. 1 \in 0..MaxLogins /\ 1 \in 0..1
    BY WorkspaceAssumption
  <2>2. active' \subseteq Modules
    BY <1>4
  <2>3. SessionOK'
    BY <1>2, <1>3, <2>1, <2>2 DEF SessionOK
  <2> QED
    BY <1>2, <2>3 DEF ContextsDated
<1>6. SessionStands' /\ ~Nobody
  BY <1>1, <1>2, <1>3 DEF SessionStands, Nobody, administrationVars
<1>7. TablesStand'
  BY <1>2, <1>4, <1>6, SessionsKeep DEF WorkspaceInv
<1> QED
  BY <1>1, <1>4, <1>5, <1>7 DEF WorkspaceInv

LEMMA SigningOutKeeps == WorkspaceInv /\ SignOut => WorkspaceInv'
<1> SUFFICES ASSUME WorkspaceInv, SignOut PROVE WorkspaceInv'
  OBVIOUS
<1>1. /\ session' = Void /\ generation' = 0 /\ UNCHANGED <<administrationVars, login, connection, active>>
      /\ contexts' = {[c EXCEPT !.login = 0] : c \in contexts}
  BY DEF SignOut
<1>2. \A c \in contexts : [c EXCEPT !.login = 0] \in ContextRows /\ [c EXCEPT !.login = 0].login = 0
  BY WorkspaceAssumption DEF WorkspaceInv, SessionOK, ContextRows
<1>3. SessionOK'
  BY <1>1, <1>2 DEF WorkspaceInv, SessionOK
<1>4. ContextsDated'
  BY <1>1, <1>2 DEF ContextsDated
<1>5. SessionStands'
  BY <1>1 DEF SessionStands
<1> QED
  BY <1>1, <1>3, <1>4, <1>5, SessionsKeep DEF WorkspaceInv

LEMMA CapturingKeeps == WorkspaceInv /\ Capture => WorkspaceInv'
<1> SUFFICES ASSUME WorkspaceInv, Capture PROVE WorkspaceInv'
  OBVIOUS
<1> DEFINE taken == [person |-> session.person, rights |-> session.rights,
                     generation |-> generation, login |-> login]
<1>1. /\ session # Void /\ generation # 0 /\ contexts' = contexts \cup {taken}
      /\ UNCHANGED <<administrationVars, session, generation, login, connection, active>>
  BY DEF Capture
<1>2. taken \in ContextRows /\ taken.generation = generation /\ taken.login = login
  BY <1>1, WorkspaceAssumption DEF WorkspaceInv, SessionOK, SessionRows, ContextRows
<1> HIDE DEF taken
<1>3. SessionOK'
  BY <1>1, <1>2 DEF WorkspaceInv, SessionOK
<1>4. ContextsDated'
  BY <1>1, <1>2 DEF WorkspaceInv, SessionOK, ContextsDated
<1>5. SessionStands' /\ (session' # Void => ~Nobody)
  BY <1>1 DEF WorkspaceInv, TablesStand, SessionStands, OwnerStands, administrationVars
<1> QED
  BY <1>1, <1>3, <1>4, <1>5, SessionsKeep DEF WorkspaceInv

(* The connection changes, a screen forgets a context, or nothing.         *)
LEMMA RestKeeps ==
  ASSUME WorkspaceInv, contexts' \subseteq contexts, connection' \in {"online", "offline"},
         UNCHANGED <<administrationVars, session, generation, login, active>>
  PROVE  WorkspaceInv'
<1>1. SessionOK' /\ ContextsDated'
  BY DEF WorkspaceInv, SessionOK, ContextsDated
<1>2. SessionStands' /\ (session' # Void => ~Nobody)
  BY DEF WorkspaceInv, TablesStand, SessionStands, OwnerStands, administrationVars
<1> QED
  BY <1>1, <1>2, SessionsKeep DEF WorkspaceInv

LEMMA AdministeringKeeps ==
  ASSUME WorkspaceInv, NEW c \in contexts, Administer(c)
  PROVE  WorkspaceInv'
<1>1. UNCHANGED sessionVars
  BY DEF Administer
<1>2. SessionOK' /\ ContextsDated'
  BY <1>1 DEF WorkspaceInv, SessionOK, ContextsDated, sessionVars
<1>3. session # Void
  BY DEF Administer, Dispatched, Authorized
<1>4. SessionOK /\ TablesStand
  BY DEF WorkspaceInv
<1>5. TablesStand'
  <2>1. ASSUME NEW p \in People, NEW username \in Usernames, NEW owner \in BOOLEAN,
               CreatePerson(session, p, username, owner)
        PROVE TablesStand'
    BY <1>1, <1>3, <1>4, <2>1, CreateKeeps
  <2>2. ASSUME NEW p \in People, NEW username \in Usernames, UpdatePerson(session, p, username)
        PROVE TablesStand'
    BY <1>1, <1>3, <1>4, <2>2, RenamingKeeps
  <2>3. ASSUME NEW p \in People, DisablePerson(session, p)
        PROVE TablesStand'
    BY <1>1, <1>3, <1>4, <2>3, DisablingKeeps
  <2>4. ASSUME NEW p \in People, NEW right \in Rights, GrantRight(session, p, right)
        PROVE TablesStand'
    BY <1>1, <1>3, <1>4, <2>4, GrantingKeeps
  <2>5. ASSUME NEW p \in People, NEW right \in Rights, RevokeRight(session, p, right)
        PROVE TablesStand'
    BY <1>1, <1>3, <1>4, <2>5, RevokingKeeps
  <2>6. ASSUME NEW d \in Devices, RegisterDevice(session, d)
        PROVE TablesStand'
    BY <1>1, <1>3, <1>4, <2>6, RegisteringKeeps
  <2>7. ASSUME NEW d \in Devices, RetireDevice(session, d)
        PROVE TablesStand'
    BY <1>1, <1>3, <1>4, <2>7, RetiringKeeps
  <2>8. ASSUME NEW s \in Settings, NEW value \in Values, UpdateSetting(session, s, value)
        PROVE TablesStand'
    BY <1>1, <1>3, <1>4, <2>8, SettingKeeps
  <2>9. ASSUME NEW disabled \in SUBSET Modules, SetActivation(session, disabled)
        PROVE TablesStand'
    BY <1>1, <1>3, <1>4, <2>9, SwitchingKeeps
  <2> QED
    BY <2>1, <2>2, <2>3, <2>4, <2>5, <2>6, <2>7, <2>8, <2>9 DEF Administer
<1> QED
  BY <1>2, <1>5 DEF WorkspaceInv

-----------------------------------------------------------------------------
(* Every step of the workspace, and what the invariant says.               *)

LEMMA WorkspaceStepKeeps == WorkspaceInv /\ [WorkspaceNext]_workspaceVars => WorkspaceInv'
<1> SUFFICES ASSUME WorkspaceInv, [WorkspaceNext]_workspaceVars PROVE WorkspaceInv'
  OBVIOUS
<1>1. ASSUME NEW p \in People, NEW username \in Usernames, NEW d \in Devices,
             Provision(p, username, d)
      PROVE WorkspaceInv'
  BY <1>1, ProvisioningKeeps
<1>2. CASE Boot
  BY <1>2, BootingKeeps
<1>3. ASSUME NEW username \in Usernames, NEW d \in Devices, device[d] = "active",
             Authenticate(username, d)
      PROVE WorkspaceInv'
  BY <1>3, SigningInKeeps
<1>4. CASE SignOut
  BY <1>4, SigningOutKeeps
<1>5. CASE SetConnectionState
  BY <1>5, RestKeeps DEF SetConnectionState
<1>6. CASE Capture
  BY <1>6, CapturingKeeps
<1>7. ASSUME NEW c \in contexts, Forget(c)
      PROVE WorkspaceInv'
  <2>1. /\ contexts' \subseteq contexts
        /\ UNCHANGED <<administrationVars, session, generation, login, connection, active>>
    BY <1>7 DEF Forget
  <2> QED
    BY <2>1, RestKeeps DEF WorkspaceInv, SessionOK
<1>8. ASSUME NEW c \in contexts, Administer(c)
      PROVE WorkspaceInv'
  BY <1>8, AdministeringKeeps
<1>9. CASE UNCHANGED workspaceVars
  BY <1>9, RestKeeps DEF workspaceVars, sessionVars, WorkspaceInv, SessionOK
<1> QED
  BY <1>1, <1>2, <1>3, <1>4, <1>5, <1>6, <1>7, <1>8, <1>9 DEF WorkspaceNext

LEMMA WorkspaceStarts == WorkspaceInit => WorkspaceInv
<1> SUFFICES ASSUME WorkspaceInit PROVE WorkspaceInv
  OBVIOUS
<1> USE DEF WorkspaceInit, AdministrationInit
<1>1. SessionOK /\ ContextsDated
  BY WorkspaceAssumption DEF SessionOK, ContextsDated
<1>2. TablesOK
  BY DEF TablesOK
<1>3. OwnerStands /\ MachineStands /\ SessionStands
  BY DEF OwnerStands, MachineStands, SessionStands, Nobody
<1>4. ModulesStand
  BY AdministrationAssumption DEF ModulesStand, ActivationOk, Closed
<1>5. AuditStands
  <2>1. RightsTold
    BY SubjectsApart, VoidApart DEF RightsTold, Operations
  <2>2. DevicesTold
    BY SubjectsApart, VoidApart DEF DevicesTold, Operations
  <2>3. PeopleTold
    BY DEF PeopleTold
  <2>4. ModulesTold
    BY DEF ModulesTold
  <2> QED
    BY <2>1, <2>2, <2>3, <2>4 DEF AuditStands
<1> QED
  BY <1>1, <1>2, <1>3, <1>4, <1>5 DEF WorkspaceInv, TablesStand

LEMMA InvGoverns == WorkspaceInv => Governed /\ ContextsExpire
<1> SUFFICES ASSUME WorkspaceInv PROVE Governed /\ ContextsExpire
  OBVIOUS
<1>1. WorkspaceTypeOK
  BY WorkspaceAssumption DEF WorkspaceInv, SessionOK, TablesStand, TablesOK, WorkspaceTypeOK
<1>2. StaysGovernable
  <2> SUFFICES ASSUME ~Nobody
               PROVE StaysGovernable
    BY DEF StaysGovernable, Nobody
  <2>1. PICK p \in People : Owns(p)
    BY DEF WorkspaceInv, TablesStand, OwnerStands
  <2>2. PICK d \in Devices : device[d] = "active"
    BY DEF WorkspaceInv, TablesStand, MachineStands
  <2>3. SessionStands /\ ActivationOk(off) /\ CoreModules \subseteq active /\ Closed(active)
    BY DEF WorkspaceInv, TablesStand, ModulesStand
  <2>4. CoreModules \subseteq ResolveActivation(off) /\ Closed(ResolveActivation(off))
    <3>1. Sound(Modules \ off, ResolveActivation(off))
      BY ResolveIsSound DEF ResolveActivation
    <3>2. CoreModules \subseteq Modules \ off
      BY <2>3, AdministrationAssumption DEF ActivationOk
    <3> QED
      BY <3>1, <3>2 DEF Sound
  <2>5. \A on \in {active, ResolveActivation(off)} :
          /\ CoreModules \subseteq on
          /\ \A edge \in Requires : edge[1] \in on => edge[2] \in on
    BY <2>3, <2>4 DEF Closed
  <2>6. \E q \in People :
          /\ person[q] # Void /\ person[q].owner /\ ~person[q].disabled
          /\ RightsOf(q) = Rights
          /\ PersonNamed(person[q].username) = {q}
          /\ \A other \in People \ {q} : person[other] # Void => ~person[other].owner
    BY <2>1 DEF Owns
  <2> QED
    BY <2>2, <2>3, <2>5, <2>6 DEF StaysGovernable, SessionStands
<1>3. AuditTells
  BY DEF WorkspaceInv, TablesStand, AuditStands, RightsTold, DevicesTold, PeopleTold,
         ModulesTold, AuditTells
<1>4. ContextsExpire
  BY WorkspaceAssumption
     DEF WorkspaceInv, SessionOK, ContextsDated, ContextsExpire, Authorized, ContextRows
<1> QED
  BY <1>1, <1>2, <1>3, <1>4 DEF Governed

(* Through every handler of administration, sign-in, sign-out and restart  *)
(* the shop keeps its one owner with every right, a machine that starts    *)
(* and its core modules, and the last rows of the audit say why things are *)
(* as they are (administration_service.cpp, resolve_activation).           *)
THEOREM Governable == WorkspaceSpec => []Governed
<1>1. WorkspaceInv => Governed
  BY InvGoverns
<1> QED
  BY <1>1, WorkspaceStarts, WorkspaceStepKeeps, PTL DEF WorkspaceSpec

(* No request passes under a context of an earlier sign-in, unless         *)
(* somebody signed out in between (workspace_runtime.hpp, sign_in).        *)
THEOREM Expiring == WorkspaceSpec => []ContextsExpire
<1>1. WorkspaceInv => ContextsExpire
  BY InvGoverns
<1> QED
  BY <1>1, WorkspaceStarts, WorkspaceStepKeeps, PTL DEF WorkspaceSpec

-----------------------------------------------------------------------------
(* Trade: requests under their keys, while nobody is administered.         *)

CommandsOK ==
  /\ queued \subseteq RequestKeys /\ pruned \subseteq RequestKeys
  /\ logged \in [RequestKeys -> LogRows \cup {Void}]
  /\ runs \in [RequestKeys -> Nat]

(* The session is what the tables make of its person, and since the start  *)
(* that made the first one nothing that is off is active.                  *)
SessionTold ==
  session # Void =>
    /\ session.owner = person[session.person].owner
    /\ session.rights \subseteq RightsOf(session.person)
    /\ active \cap off = {}

TradeInv == WorkspaceInv /\ SessionTold /\ CommandsOK /\ RunsOnce

LEMMA TradeStarts ==
  ASSUME NEW owner \in People, NEW staff \in People, NEW d \in Devices, owner # staff,
         TradeInit(owner, staff, d), CommandsInit
  PROVE  TradeInv
<1>1. PICK names \in [People -> Usernames] :
        /\ names[owner] # names[staff]
        /\ person = [p \in People |-> IF p \notin {owner, staff} THEN Void
             ELSE [username |-> names[p], owner |-> p = owner, disabled |-> FALSE]]
        /\ audit = [subject \in Subjects |->
             CASE subject \in {<<"person", owner>>, <<"person", staff>>} -> "person_create"
               [] subject \in {"right"} \X {staff} \X Rights -> "right_grant"
               [] subject = <<"device", d>> -> "device_register"
               [] subject = <<"modules">> /\ off # {} -> "module_activation_set"
               [] OTHER -> Void]
  BY DEF TradeInit
<1>2. /\ off \in SUBSET Modules /\ ActivationOk(off)
      /\ granted = {owner, staff} \X Rights
      /\ device = [x \in Devices |-> IF x = d THEN "active" ELSE Void]
      /\ session = Void /\ generation = 0 /\ login = 0
      /\ contexts = {} /\ connection = "offline" /\ active = Modules
  BY DEF TradeInit
<1>3. /\ person[owner] = [username |-> names[owner], owner |-> TRUE, disabled |-> FALSE]
      /\ person[staff] = [username |-> names[staff], owner |-> FALSE, disabled |-> FALSE]
      /\ \A p \in People \ {owner, staff} : person[p] = Void
  BY <1>1
<1>4. person[owner] \in PersonRows /\ person[staff] \in PersonRows
  BY <1>3 DEF PersonRows
<1>5. person[owner] # Void /\ person[staff] # Void
  BY <1>4, VoidApart
<1>6. /\ person[owner].username = names[owner] /\ person[owner].owner /\ ~person[owner].disabled
      /\ person[staff].username = names[staff] /\ ~person[staff].owner /\ ~person[staff].disabled
  BY <1>3
<1>7. person \in [People -> PersonRows \cup {Void}]
  BY <1>1, <1>3, <1>4
<1>8. /\ audit \in [Subjects -> Operations \cup {Void}]
      /\ audit[<<"person", owner>>] = "person_create" /\ audit[<<"person", staff>>] = "person_create"
      /\ \A r \in Rights : audit[<<"right", staff, r>>] = "right_grant"
      /\ \A p \in People \ {staff}, r \in Rights : audit[<<"right", p, r>>] = Void
      /\ audit[<<"device", d>>] = "device_register"
      /\ \A x \in Devices \ {d} : audit[<<"device", x>>] = Void
      /\ off # {} => audit[<<"modules">>] = "module_activation_set"
  <2>1. audit \in [Subjects -> Operations \cup {Void}]
    BY <1>1 DEF Operations
  <2>2. audit[<<"person", owner>>] = "person_create" /\ audit[<<"person", staff>>] = "person_create"
    BY <1>1, SubjectsApart
  <2>3. ASSUME NEW r \in Rights
        PROVE audit[<<"right", staff, r>>] = "right_grant"
    <3>1. <<"right", staff, r>> \in Subjects
      BY SubjectsApart
    <3>2. <<"right", staff, r>> \notin {<<"person", owner>>, <<"person", staff>>}
      BY SubjectsApart
    <3>3. <<"right", staff, r>> \in {"right"} \X {staff} \X Rights
      OBVIOUS
    <3> QED
      BY <1>1, <3>1, <3>2, <3>3
  <2>4. ASSUME NEW p \in People \ {staff}, NEW r \in Rights
        PROVE audit[<<"right", p, r>>] = Void
    <3>1. <<"right", p, r>> \in Subjects
      BY SubjectsApart
    <3>2. <<"right", p, r>> \notin {<<"person", owner>>, <<"person", staff>>}
      BY SubjectsApart
    <3>3. <<"right", p, r>> \notin {"right"} \X {staff} \X Rights
      OBVIOUS
    <3>4. <<"right", p, r>> # <<"device", d>> /\ <<"right", p, r>> # <<"modules">>
      BY SubjectsApart
    <3> QED
      BY <1>1, <3>1, <3>2, <3>3, <3>4
  <2>5. ASSUME NEW x \in Devices
        PROVE audit[<<"device", x>>] = IF x = d THEN "device_register" ELSE Void
    <3>1. <<"device", x>> \in Subjects
      BY SubjectsApart
    <3>2. <<"device", x>> \notin {<<"person", owner>>, <<"person", staff>>}
      BY SubjectsApart
    <3>3. <<"device", x>> \notin {"right"} \X {staff} \X Rights
      BY SubjectsApart
    <3>4. <<"device", x>> # <<"modules">> /\ (<<"device", x>> = <<"device", d>> <=> x = d)
      BY SubjectsApart
    <3> QED
      BY <1>1, <3>1, <3>2, <3>3, <3>4
  <2>6. off # {} => audit[<<"modules">>] = "module_activation_set"
    <3>1. <<"modules">> \in Subjects
      BY SubjectsApart
    <3>2. <<"modules">> \notin {<<"person", owner>>, <<"person", staff>>}
      BY SubjectsApart
    <3>3. <<"modules">> \notin {"right"} \X {staff} \X Rights
      BY SubjectsApart
    <3>4. <<"modules">> # <<"device", d>>
      BY SubjectsApart
    <3> QED
      BY <1>1, <3>1, <3>2, <3>3, <3>4
  <2> QED
    BY <2>1, <2>2, <2>3, <2>4, <2>5, <2>6
<1>9. TablesOK
  BY <1>2, <1>7, <1>8 DEF TablesOK, DeviceRows
<1>10. OwnerStands
  <2>1. PersonNamed(person[owner].username) = {owner}
    BY <1>1, <1>3, <1>5, <1>6 DEF PersonNamed
  <2>2. RightsOf(owner) = Rights
    BY <1>2 DEF RightsOf
  <2>3. Owns(owner)
    BY <1>3, <1>5, <1>6, <2>1, <2>2 DEF Owns
  <2> QED
    BY <1>5, <2>3 DEF OwnerStands, Nobody
<1>11. MachineStands /\ SessionStands
  BY <1>2 DEF MachineStands, SessionStands
<1>12. ModulesStand
  BY <1>2, AdministrationAssumption DEF ModulesStand, Closed
<1>13. AuditStands
  <2>1. RightsTold
    <3>1. \A p \in People, r \in Rights : <<p, r>> \in granted <=> p \in {owner, staff}
      BY <1>2
    <3>2. Void # "right_grant"
      BY VoidApart DEF Operations
    <3> QED
      BY <1>3, <1>5, <1>6, <1>8, <3>1, <3>2 DEF RightsTold
  <2>2. DevicesTold
    <3>1. Void # "device_retire" /\ Void # "retired"
      BY VoidApart DEF Operations
    <3> QED
      BY <1>2, <1>8, <3>1 DEF DevicesTold
  <2>3. PeopleTold
    <3>1. Void # "person_create"
      BY VoidApart DEF Operations
    <3> QED
      BY <1>3, <1>6, <1>8, <3>1 DEF PeopleTold
  <2>4. ModulesTold
    BY <1>8, VoidApart DEF ModulesTold, Operations
  <2> QED
    BY <2>1, <2>2, <2>3, <2>4 DEF AuditStands
<1>14. SessionOK /\ ContextsDated
  BY <1>2, WorkspaceAssumption DEF SessionOK, ContextsDated
<1>15. SessionTold /\ CommandsOK
  BY <1>2 DEF SessionTold, CommandsInit, CommandsOK
<1>16. RunsOnce
  BY DEF CommandsInit, RunsOnce
<1> QED
  BY <1>9, <1>10, <1>11, <1>12, <1>13, <1>14, <1>15, <1>16
     DEF TradeInv, WorkspaceInv, TablesStand

(* A handler runs to its end.                                              *)
LEMMA RunKeeps ==
  ASSUME TradeInv, NEW c \in contexts, NEW k \in RequestKeys, Run(c, k)
  PROVE  CommandsOK' /\ RunsOnce'
<1>1. /\ k \notin queued /\ logged[k] = Void /\ session # Void
      /\ runs' = [runs EXCEPT ![k] = @ + 1] /\ queued' = queued \cup {k}
      /\ UNCHANGED <<pruned, escaped>>
  BY DEF Run, Dispatched, Authorized
<1> DEFINE entry == [op |-> Request[k], person |-> session.person, device |-> session.device]
<1>2. logged' = IF Request[k] \notin Workflows THEN logged ELSE [logged EXCEPT ![k] = entry]
  BY DEF Run
<1>3. Request[k] \in Workflows => entry \in LogRows /\ entry # Void
  BY <1>1, LogAssumption DEF TradeInv, WorkspaceInv, SessionOK, SessionRows, LogRows
<1> HIDE DEF entry
<1>4. CommandsOK'
  BY <1>1, <1>2, <1>3 DEF TradeInv, CommandsOK
<1>5. /\ \A other \in RequestKeys \ {k} : runs'[other] = runs[other] /\ logged'[other] = logged[other]
      /\ runs'[k] = runs[k] + 1 /\ runs[k] \in Nat
      /\ logged'[k] = IF Request[k] \in Workflows THEN entry ELSE Void
  BY <1>1, <1>2 DEF TradeInv, CommandsOK
<1>6. ASSUME NEW other \in RequestKeys
      PROVE /\ runs'[other] > 1 => other \in pruned /\ Request[other] \notin Workflows
            /\ runs'[other] > 0 <=> other \in queued' \cup pruned
            /\ logged'[other] \in LogRows \cup {Void}
            /\ logged'[other] # Void <=> runs'[other] > 0 /\ Request[other] \in Workflows
  BY <1>1, <1>3, <1>5 DEF TradeInv, RunsOnce
<1>7. escaped' => \E other \in pruned' : logged'[other] # Void
  BY <1>1, <1>3, <1>5 DEF TradeInv, RunsOnce, CommandsOK
<1> QED
  BY <1>1, <1>4, <1>6, <1>7 DEF RunsOnce

LEMMA RunTwiceKeeps ==
  ASSUME TradeInv, NEW c \in contexts, NEW k \in RequestKeys, RunTwice(c, k)
  PROVE  CommandsOK' /\ RunsOnce'
<1>1. k \notin queued /\ logged[k] # Void /\ UNCHANGED <<queued, logged, pruned, runs>>
  BY DEF RunTwice
<1>2. k \in pruned
  BY <1>1 DEF TradeInv, RunsOnce
<1>3. CommandsOK'
  BY <1>1 DEF TradeInv, CommandsOK
<1> QED
  BY <1>1, <1>2, <1>3 DEF TradeInv, RunsOnce

LEMMA PruneKeeps ==
  ASSUME TradeInv, NEW k \in RequestKeys, PruneOutbox(k)
  PROVE  CommandsOK' /\ RunsOnce'
<1>1. /\ k \in queued /\ queued' = queued \ {k} /\ pruned' = pruned \cup {k}
      /\ UNCHANGED <<logged, runs, escaped>>
  BY DEF PruneOutbox
<1>2. CommandsOK'
  BY <1>1 DEF TradeInv, CommandsOK
<1> QED
  BY <1>1, <1>2 DEF TradeInv, RunsOnce

LEMMA CommandsStand ==
  ASSUME TradeInv, UNCHANGED commandVars
  PROVE  CommandsOK' /\ RunsOnce'
BY DEF TradeInv, CommandsOK, RunsOnce, commandVars

LEMMA TradeStepKeeps ==
  TradeInv /\ [TradeNext]_<<workspaceVars, commandVars>> => TradeInv'
<1> SUFFICES ASSUME TradeInv, [TradeNext]_<<workspaceVars, commandVars>> PROVE TradeInv'
  OBVIOUS
<1> DEFINE still == UNCHANGED <<administrationVars, session, active>>
<1>a. ASSUME still
      PROVE SessionTold'
  BY <1>a DEF TradeInv, SessionTold, RightsOf, administrationVars
<1>1. CASE Boot /\ UNCHANGED commandVars
  <2>1. WorkspaceInv' /\ active' \cap off = {}
    BY <1>1, BootingKeeps DEF TradeInv
  <2>2. PICK p \in People, d \in Devices : session' = SessionOf(p, d) /\ person[p] # Void
    BY <1>1, BootingKeeps DEF TradeInv
  <2>3. UNCHANGED administrationVars
    BY <1>1 DEF Boot
  <2>4. /\ session'.person = p /\ session'.owner = person[p].owner
        /\ session'.rights = RightsOf(p)
    BY <2>2, SessionRow DEF TradeInv, WorkspaceInv, TablesStand
  <2>5. SessionTold'
    BY <2>1, <2>3, <2>4 DEF SessionTold, RightsOf, administrationVars
  <2> QED
    BY <1>1, <2>1, <2>5, CommandsStand DEF TradeInv
<1>2. ASSUME session # Void, NEW username \in Usernames, Authenticate(username, session.device),
             UNCHANGED commandVars
      PROVE TradeInv'
  <2>1. session.device \in Devices /\ device[session.device] = "active"
    BY <1>2 DEF TradeInv, WorkspaceInv, SessionOK, SessionRows, TablesStand, SessionStands
  <2>2. WorkspaceInv'
    BY <1>2, <2>1, SigningInKeeps DEF TradeInv
  <2>3. PICK p \in PersonNamed(username) : session' = SessionOf(p, session.device)
    BY <1>2 DEF Authenticate, SignIn
  <2>4. UNCHANGED <<administrationVars, active>>
    BY <1>2 DEF Authenticate
  <2>5. /\ session'.person = p /\ session'.owner = person[p].owner
        /\ session'.rights = RightsOf(p)
    BY <2>1, <2>3, SessionRow DEF TradeInv, WorkspaceInv, TablesStand, PersonNamed
  <2>6. SessionTold'
    BY <1>2, <2>4, <2>5 DEF TradeInv, SessionTold, RightsOf, administrationVars
  <2> QED
    BY <1>2, <2>2, <2>6, CommandsStand DEF TradeInv
<1>3. CASE SetConnectionState /\ UNCHANGED commandVars
  <2>1. WorkspaceInv' /\ still
    BY <1>3, RestKeeps DEF TradeInv, SetConnectionState
  <2> QED
    BY <1>3, <1>a, <2>1, CommandsStand DEF TradeInv
<1>4. CASE Capture /\ UNCHANGED commandVars
  <2>1. WorkspaceInv' /\ still
    BY <1>4, CapturingKeeps DEF TradeInv, Capture
  <2> QED
    BY <1>4, <1>a, <2>1, CommandsStand DEF TradeInv
<1>5. ASSUME NEW c \in contexts, Forget(c), UNCHANGED commandVars
      PROVE TradeInv'
  <2>1. /\ contexts' \subseteq contexts
        /\ UNCHANGED <<administrationVars, session, generation, login, connection, active>>
    BY <1>5 DEF Forget
  <2>2. WorkspaceInv' /\ still
    BY <2>1, RestKeeps DEF TradeInv, WorkspaceInv, SessionOK
  <2> QED
    BY <1>5, <1>a, <2>2, CommandsStand DEF TradeInv
<1>6. CASE CommandsNext \/ UNCHANGED <<workspaceVars, commandVars>>
  <2>1. UNCHANGED <<administrationVars, sessionVars>>
    BY <1>6 DEF CommandsNext, Run, RunTwice, PruneOutbox, workspaceVars
  <2>2. WorkspaceInv' /\ still
    BY <2>1, RestKeeps DEF TradeInv, WorkspaceInv, SessionOK, sessionVars
  <2>3. CommandsOK' /\ RunsOnce'
    BY <1>6, RunKeeps, RunTwiceKeeps, PruneKeeps, CommandsStand DEF CommandsNext
  <2> QED
    BY <1>a, <2>2, <2>3 DEF TradeInv
<1> QED
  BY <1>1, <1>2, <1>3, <1>4, <1>5, <1>6 DEF TradeNext

(* What a run is allowed by, at its moment.                                *)
Allowed(k) ==
  /\ connection = "offline" /\ ~person[session.person].owner => Table[Request[k]].staff
  /\ Table[Request[k]].module \notin off
  /\ Request[k] \in Workflows => Needed[Request[k]] \cap off = {}
  /\ <<session.person, Table[Request[k]].right>> \in granted

LEMMA RunsAreAllowed ==
  ASSUME TradeInv, [TradeNext]_<<workspaceVars, commandVars>>
  PROVE  \A k \in RequestKeys : runs'[k] > runs[k] => Allowed(k)
<1> SUFFICES ASSUME NEW k \in RequestKeys, runs'[k] > runs[k] PROVE Allowed(k)
  OBVIOUS
<1>1. runs \in [RequestKeys -> Nat]
  BY DEF TradeInv, CommandsOK
<1>2. runs' # runs
  BY <1>1
<1>3. PICK c \in contexts, other \in RequestKeys : Run(c, other)
  BY <1>2 DEF TradeNext, CommandsNext, RunTwice, PruneOutbox, commandVars
<1>4. runs' = [runs EXCEPT ![other] = @ + 1]
  BY <1>3 DEF Run
<1>5. other = k
  BY <1>1, <1>4
<1>6. session # Void /\ MayRun(Request[k]) /\ RequirementsOn(k)
  BY <1>3, <1>5 DEF Run, Dispatched, Authorized
<1>7. /\ session.owner = person[session.person].owner
      /\ session.rights \subseteq RightsOf(session.person)
      /\ active \cap off = {}
  BY <1>6 DEF TradeInv, SessionTold
<1> QED
  BY <1>6, <1>7 DEF Allowed, MayRun, RequirementsOn, RightsOf

(* Sent again or answered late, a request runs once, a workflow for good;  *)
(* and each run is within the rights on file, the modules that are on and, *)
(* offline, what the protocol excepts (registry.cpp, run; may_run).        *)
THEOREM Commanded == TradeSpec => CommandsSound
<1>1. TradeInv => RunsOnce
  BY DEF TradeInv
<1>2. /\ \E owner, staff \in People, d \in Devices : owner # staff /\ TradeInit(owner, staff, d)
      /\ CommandsInit
      => TradeInv
  BY TradeStarts
<1>3. TradeInv /\ [TradeNext]_<<workspaceVars, commandVars>> =>
        [\A k \in RequestKeys : runs'[k] > runs[k] => Allowed(k)]_<<runs>>
  BY RunsAreAllowed
<1>4. TradeSpec => []TradeInv
  BY <1>2, TradeStepKeeps, PTL DEF TradeSpec
<1>5. TradeSpec => []RunsOnce
  BY <1>1, <1>4, PTL
<1>6. TradeSpec => OfflineKept
  <2>1. TradeSpec => [][\A k \in RequestKeys : runs'[k] > runs[k] => Allowed(k)]_<<runs>>
    BY <1>3, <1>4, PTL DEF TradeSpec
  <2> QED
    BY <2>1 DEF OfflineKept, Allowed
<1> QED
  BY <1>5, <1>6, PTL DEF CommandsSound

(* While the shop trades it stays governable, and contexts expire.         *)
THEOREM Trading == TradeSpec => [](Governed /\ ContextsExpire)
<1>1. TradeInv => Governed /\ ContextsExpire
  BY InvGoverns DEF TradeInv
<1>2. /\ \E owner, staff \in People, d \in Devices : owner # staff /\ TradeInit(owner, staff, d)
      /\ CommandsInit
      => TradeInv
  BY TradeStarts
<1> QED
  BY <1>1, <1>2, TradeStepKeeps, PTL DEF TradeSpec

-----------------------------------------------------------------------------
(* From an order to the work, for any orders, lines, requests and jobs.    *)

JobsOfOrder ==
  \A j \in JobIds : job[j] # None /\ job[j].line # None /\ j \notin moved =>
    /\ job[j].line \in OrderLineIds
    /\ line[job[j].line] # None /\ line[job[j].line].of = job[j].order

OneJobOfLine ==
  \A j, k \in JobIds :
    /\ j \notin moved /\ k \notin moved
    /\ job[j] # None /\ job[k] # None /\ job[j].line # None /\ job[j].line = job[k].line
    => j = k

(* A draft has no ticket; who took delivery is known of what is done only. *)
EvidenceTells ==
  \A j \in JobIds : job[j] # None =>
    /\ job[j].state = "draft" => job[j].ticket = None
    /\ job[j].state = "done" <=> job[j].delivered
    /\ job[j].fulfilment = "delivered" <=> job[j].delivered

WorkInv ==
  /\ now \in Nat
  /\ line \in [OrderLineIds -> OrderLineRows \cup {None}]
  /\ job \in [JobIds -> JobRows \cup {None}]
  /\ JobsOfOrder /\ OneJobOfLine /\ EvidenceTells

(* A line once ordered stays with its order.                               *)
LinesStay == \A l \in OrderLineIds : line[l] # None => line'[l] = line[l]

LEMMA OrdersKeepWork ==
  ASSUME WorkInv, OrderNext, UNCHANGED <<jobVars, now>>
  PROVE  WorkInv' /\ LinesStay
<1>1. LinesStay /\ line' \in [OrderLineIds -> OrderLineRows \cup {None}]
  <2>1. ASSUME NEW o \in OrderIds, NEW l \in OrderLineIds, NEW answer \in Answers,
               AddLine(o, l, answer)
        PROVE  LinesStay /\ line' \in [OrderLineIds -> OrderLineRows \cup {None}]
    <3>1. [of |-> o, price |-> answer] \in OrderLineRows
      BY DEF OrderLineRows
    <3> QED
      BY <2>1, <3>1 DEF AddLine, WorkInv, LinesStay
  <2>2. ASSUME UNCHANGED line
        PROVE  LinesStay /\ line' \in [OrderLineIds -> OrderLineRows \cup {None}]
    BY <2>2 DEF WorkInv, LinesStay
  <2> QED
    BY <2>1, <2>2 DEF OrderNext, CreateOrder, UpdateOrder, CancelOrder
<1>2. JobsOfOrder'
  BY <1>1 DEF JobsOfOrder, LinesStay, WorkInv, jobVars
<1> QED
  BY <1>1, <1>2 DEF WorkInv, OneJobOfLine, EvidenceTells, jobVars

(* What every request about one job saves.                                 *)
LEMMA SaveKeepsWork ==
  ASSUME WorkInv, UNCHANGED <<line, now>>,
         NEW j \in JobIds, NEW row \in JobRows, Save(j, row),
         moved' = moved \/ moved' = moved \cup {j},
         row.line # None /\ j \notin moved' =>
           job[j] # None /\ row.line = job[j].line /\ row.order = job[j].order,
         row.state = "done" <=> row.delivered,
         job[j] # None =>
           /\ job[j].state \in {"draft", "in_progress"}
           /\ job[j].ticket # None => row.ticket = job[j].ticket
  PROVE  WorkInv' /\ TicketsStay
<1>1. /\ job' \in [JobIds -> JobRows \cup {None}]
      /\ \A k \in JobIds : job'[k] = IF k = j THEN row ELSE job[k]
  BY DEF Save, WorkInv
<1>2. /\ row # None /\ (row.state = "draft" => row.ticket = None)
      /\ row.fulfilment = "delivered" <=> row.delivered
  BY JobAssumption DEF Save, ValidJob
<1>3. JobsOfOrder'
  BY <1>1 DEF WorkInv, JobsOfOrder
<1>4. OneJobOfLine'
  BY <1>1 DEF WorkInv, OneJobOfLine
<1>5. EvidenceTells'
  BY <1>1, <1>2 DEF WorkInv, EvidenceTells
<1>6. TicketsStay
  BY <1>1, <1>2 DEF TicketsStay, WorkInv, EvidenceTells
<1> QED
  BY <1>1, <1>3, <1>4, <1>5, <1>6 DEF WorkInv

LEMMA JobsKeepWork ==
  ASSUME WorkInv, JobNext, UNCHANGED <<orderVars, now>>
  PROVE  WorkInv' /\ TicketsStay
<1>0. UNCHANGED <<line, now>> /\ now \in Nat
  BY DEF orderVars, WorkInv
<1>1. \A j \in JobIds : job[j] # None =>
        /\ job[j] \in JobRows
        /\ job[j].state = "draft" => job[j].ticket = None
        /\ job[j].state = "done" <=> job[j].delivered
  BY DEF WorkInv, EvidenceTells
<1>2. \A stage \in Stages : stage[1] \in Production /\ stage[2] \in Fulfilment
  BY JobAssumption
<1>3. ASSUME NEW j \in JobIds, NEW o \in SourceOrders \cup {None}, NEW stage \in Stages,
             CreateJob(j, o, stage)
      PROVE  WorkInv' /\ TicketsStay
  <2>1. /\ NewJob(o, None, stage) \in JobRows /\ job[j] = None /\ Save(j, NewJob(o, None, stage))
        /\ NewJob(o, None, stage).line = None /\ NewJob(o, None, stage).state = "draft"
        /\ NewJob(o, None, stage).delivered = FALSE /\ moved' = moved
    BY <1>2, <1>3 DEF CreateJob, NewJob, JobRows
  <2> QED
    BY <1>0, <2>1, SaveKeepsWork
<1>4. ASSUME NEW j \in JobIds, NEW o \in SourceOrders \cup {None}, NEW stage \in Stages,
             UpdateJob(j, o, stage)
      PROVE  WorkInv' /\ TicketsStay
  <2> DEFINE row == [job[j] EXCEPT !.order = o, !.production = stage[1], !.fulfilment = stage[2]]
  <2>1. /\ job[j] # None /\ job[j] \in JobRows /\ job[j].state \in {"draft", "in_progress"}
        /\ job[j].line = None \/ o = job[j].order \/ j \in moved'
        /\ moved' = moved \/ moved' = moved \cup {j}
        /\ Save(j, row)
    BY <1>1, <1>4 DEF UpdateJob, CanChange
  <2>2. /\ row \in JobRows /\ row.line = job[j].line /\ row.ticket = job[j].ticket
        /\ row.order = o /\ row.state = job[j].state /\ row.delivered = job[j].delivered
    BY <1>2, <2>1 DEF JobRows
  <2> HIDE DEF row
  <2> QED
    BY <1>0, <1>1, <2>1, <2>2, SaveKeepsWork
<1>5. ASSUME NEW j \in JobIds, NEW ticket \in Tickets, NEW stage \in Stages,
             StartJob(j, ticket, stage)
      PROVE  WorkInv' /\ TicketsStay
  <2> DEFINE row == [job[j] EXCEPT !.state = "in_progress", !.ticket = ticket, !.started = now,
                       !.production = IF stage[1] = "queued" THEN "running" ELSE stage[1],
                       !.fulfilment = stage[2]]
  <2>1. job[j] # None /\ job[j] \in JobRows /\ job[j].state = "draft" /\ Save(j, row)
        /\ moved' = moved
    BY <1>1, <1>5 DEF StartJob, JobTransitions
  <2>2. /\ row \in JobRows /\ row.line = job[j].line /\ row.order = job[j].order
        /\ row.state = "in_progress" /\ row.delivered = job[j].delivered
    BY <1>0, <1>2, <2>1 DEF JobRows, Production
  <2> HIDE DEF row
  <2> QED
    BY <1>0, <1>1, <2>1, <2>2, SaveKeepsWork
<1>6. ASSUME NEW j \in JobIds, NEW ticket \in Tickets, CancelJob(j, ticket)
      PROVE  WorkInv' /\ TicketsStay
  <2> DEFINE row == [job[j] EXCEPT !.state = "cancelled",
                       !.ticket = IF @ = None THEN ticket ELSE @]
  <2>1. /\ job[j] # None /\ job[j] \in JobRows /\ job[j].state \in {"draft", "in_progress"}
        /\ Save(j, row) /\ moved' = moved
    BY <1>1, <1>6 DEF CancelJob, CanChange
  <2>2. /\ row \in JobRows /\ row.line = job[j].line /\ row.order = job[j].order
        /\ row.state = "cancelled" /\ row.delivered = job[j].delivered
        /\ job[j].ticket # None => row.ticket = job[j].ticket
    BY <2>1 DEF JobRows
  <2> HIDE DEF row
  <2> QED
    BY <1>0, <1>1, <2>1, <2>2, SaveKeepsWork
<1>7. ASSUME NEW j \in JobIds, FinishJob(j)
      PROVE  WorkInv' /\ TicketsStay
  <2> DEFINE row == [job[j] EXCEPT !.state = "done", !.production = "produced",
                                   !.fulfilment = "delivered", !.delivered = TRUE]
  <2>1. job[j] # None /\ job[j] \in JobRows /\ job[j].state = "in_progress" /\ Save(j, row)
        /\ moved' = moved
    BY <1>1, <1>7 DEF FinishJob, JobTransitions
  <2>2. /\ row \in JobRows /\ row.line = job[j].line /\ row.order = job[j].order
        /\ row.state = "done" /\ row.delivered = TRUE /\ row.ticket = job[j].ticket
    BY <2>1 DEF JobRows, Production, Fulfilment
  <2> HIDE DEF row
  <2> QED
    BY <1>0, <2>1, <2>2, SaveKeepsWork
<1> QED
  BY <1>3, <1>4, <1>5, <1>6, <1>7 DEF JobNext

(* Lines that have no job yet get one each, under identities of their own. *)
LEMMA ConversionKeepsWork ==
  ASSUME WorkInv, NEW c \in Conversions, NEW o \in OrderIds, NEW chosen \in SUBSET OrderLineIds,
         OrderToJobs(c, o, chosen)
  PROVE  WorkInv' /\ TicketsStay
<1> DEFINE made(l) == NewJob(o, l, <<"queued", "waiting">>)
<1>1. \A l \in chosen : /\ made(l) \in JobRows /\ made(l) # None
                        /\ made(l).line = l /\ made(l).order = o /\ made(l).state = "draft"
                        /\ made(l).delivered = FALSE /\ made(l).ticket = None
                        /\ made(l).fulfilment = "waiting"
  <2> TAKE l \in chosen
  <2>1. made(l) \in JobRows
    BY WorkAssumption DEF NewJob, JobRows, Production, Fulfilment
  <2> QED
    BY <2>1, JobAssumption DEF NewJob
<1>2. UNCHANGED <<line, now, moved>>
  BY DEF OrderToJobs, orderVars
<1>3. \A l \in chosen : /\ l # None /\ l \in OrderLineIds /\ <<c, l>> \in JobIds
                        /\ line[l] # None /\ line[l].of = o
                        /\ job[<<c, l>>] = None
                        /\ \A k \in JobIds : job[k] # None /\ job[k].order = o => job[k].line # l
  BY OrderAssumption, WorkAssumption DEF OrderToJobs, LinesForOrder, JobForOrderLine, DerivedJob
<1> HIDE DEF made
<1>4. \A j \in JobIds :
        \/ (\E l \in chosen : j = <<c, l>> /\ job'[j] = made(l))
        \/ job'[j] = job[j] /\ ~\E l \in chosen : j = <<c, l>>
  <2> TAKE j \in JobIds
  <2>1. CASE \E l \in chosen : j = DerivedJob(c, l)
    <3>1. PICK l \in chosen : j = DerivedJob(c, l)
      BY <2>1
    <3>2. (CHOOSE m \in chosen : j = DerivedJob(c, m)) = l
      BY <3>1 DEF DerivedJob
    <3>3. job'[j] = made(l)
      BY <2>1, <3>2 DEF OrderToJobs, made
    <3> QED
      BY <3>1, <3>3 DEF DerivedJob
  <2>2. CASE ~\E l \in chosen : j = DerivedJob(c, l)
    BY <2>2 DEF OrderToJobs, DerivedJob
  <2> QED
    BY <2>1, <2>2
<1>5. job' \in [JobIds -> JobRows \cup {None}]
  <2>1. job' = [j \in JobIds |-> job'[j]]
    BY DEF OrderToJobs
  <2>2. \A j \in JobIds : job'[j] \in JobRows \cup {None}
    BY <1>1, <1>4 DEF WorkInv
  <2> QED
    BY <2>1, <2>2
<1>6. JobsOfOrder'
  <2> SUFFICES ASSUME NEW j \in JobIds, job'[j] # None, job'[j].line # None, j \notin moved
               PROVE  /\ job'[j].line \in OrderLineIds
                      /\ line[job'[j].line] # None /\ line[job'[j].line].of = job'[j].order
    BY <1>2 DEF JobsOfOrder
  <2> QED
    BY <1>1, <1>3, <1>4 DEF WorkInv, JobsOfOrder
<1>7. OneJobOfLine'
  <2> SUFFICES ASSUME NEW j \in JobIds, NEW k \in JobIds, job'[j] # None, job'[k] # None,
                      job'[j].line # None, job'[j].line = job'[k].line,
                      j \notin moved, k \notin moved
               PROVE  j = k
    BY <1>2 DEF OneJobOfLine
  <2>1. CASE job'[j] = job[j] /\ job'[k] = job[k]
    BY <2>1 DEF WorkInv, OneJobOfLine
  <2>2. ASSUME NEW x \in JobIds \ moved, job[x] # None, NEW l \in chosen, job[x].line = l PROVE FALSE
    BY <1>3, <2>2 DEF WorkInv, JobsOfOrder
  <2> QED
    BY <1>1, <1>4, <2>1, <2>2
<1>8. EvidenceTells'
  BY <1>1, <1>4 DEF WorkInv, EvidenceTells
<1>9. TicketsStay
  BY <1>3, <1>4 DEF WorkInv, EvidenceTells, TicketsStay
<1> QED
  BY <1>2, <1>5, <1>6, <1>7, <1>8, <1>9 DEF WorkInv

LEMMA WorkStep ==
  ASSUME WorkInv, [WorkNext]_workVars
  PROVE  WorkInv' /\ [TicketsStay]_workVars
<1>1. ASSUME UNCHANGED job PROVE TicketsStay
  BY <1>1 DEF WorkInv, EvidenceTells, TicketsStay
<1>2. CASE SetClock /\ UNCHANGED <<orderVars, jobVars>>
  <2>1. now' \in Nat
    BY <1>2, ClockAssumption DEF SetClock
  <2> QED
    BY <1>1, <1>2, <2>1 DEF orderVars, jobVars, WorkInv, JobsOfOrder, OneJobOfLine, EvidenceTells
<1>3. CASE UNCHANGED workVars
  BY <1>3 DEF workVars, jobVars, orderVars, WorkInv, JobsOfOrder, OneJobOfLine, EvidenceTells
<1> QED
  BY <1>1, <1>2, <1>3, OrdersKeepWork, JobsKeepWork, ConversionKeepsWork DEF WorkNext, jobVars

LEMMA WorkIsMadeOnce == ASSUME WorkInv PROVE MadeOnce
<1>1. \A j \in Unmoved : j \in JobIds /\ j \notin moved /\ job[j] # None /\ job[j].line # None
  BY DEF Unmoved
<1> QED
  BY <1>1 DEF MadeOnce, WorkInv, JobsOfOrder, OneJobOfLine

(* A line of an order becomes at most one job that no update ever moved to *)
(* another order, and that job is of the line's order, whatever requests   *)
(* are repeated, under whatever identities, and whatever is updated,       *)
(* numbered, finished or cancelled in between; the ticket and the end of   *)
(* every job stay (order_to_jobs.cpp, jobs_service.cpp).                   *)
THEOREM Work == WorkSpec => WorkStands
<1>1. WorkInit => WorkInv
  BY ClockAssumption DEF WorkInit, ClockInit, OrderInit, JobInit, WorkInv, JobsOfOrder,
                         OneJobOfLine, EvidenceTells
<1>2. WorkInv /\ [WorkNext]_workVars => WorkInv' /\ [TicketsStay]_workVars
  BY WorkStep
<1> QED
  BY <1>1, <1>2, WorkIsMadeOnce, PTL DEF WorkSpec, WorkStands, TicketKept

-----------------------------------------------------------------------------
(* Quotations, for any offers, lines, dates and revisions.                 *)

QuotesOK ==
  /\ now \in 1..MaxTime
  /\ quote \in [Quotes -> QuotationRows \cup {None}]
  /\ revision \in [Revisions -> RevisionRows \cup {None}]
  /\ offered \in [Lines -> LineRows \cup {None}]

(* Lines lie under revisions and these under quotations.                   *)
RowsHang ==
  /\ \A l \in Lines : offered[l] # None => revision[offered[l].of] # None
  /\ \A r \in Revisions : revision[r] # None => quote[revision[r].of] # None

Numbered(q) ==
  /\ quote[q].current >= 1
  /\ \A r \in RevisionsOf(q) : revision[r].revision \in 1..quote[q].current
  /\ \A n \in 1..quote[q].current : \E r \in RevisionsOf(q) : revision[r].revision = n
  /\ \A r, other \in RevisionsOf(q) :
       revision[r].revision = revision[other].revision => r = other

LastIsOpen(q) ==
  \A r \in RevisionsOf(q) :
    /\ revision[r].revision < quote[q].current => revision[r].issued
    /\ revision[r].revision = quote[q].current =>
         /\ quote[q].state = "draft" => ~revision[r].issued
         /\ quote[q].state \in {"issued", "accepted"} => revision[r].issued

AcceptedStands(q) ==
  quote[q].state = "accepted" =>
    \E r \in RevisionNumbered(q, quote[q].accepted) :
      revision[r].issued /\ (revision[r].valid > 0 => quote[q].settled <= revision[r].valid)

StackOf(q) == quote[q] # None => Numbered(q) /\ LastIsOpen(q) /\ AcceptedStands(q)

NumbersOnce ==
  \A r, other \in Revisions :
    revision[r] # None /\ revision[other] # None /\ revision[r].number = revision[other].number
      => r = other \/ revision[r].number = None

TotalsTell == \A r \in Revisions : revision[r] # None => revision[r].total = RevisionTotal(OffersOf(r))

QuotesInv == QuotesOK /\ RowsHang /\ (\A q \in Quotes : StackOf(q)) /\ NumbersOnce /\ TotalsTell

LEMMA LatestIs ==
  ASSUME QuotesOK, NEW q \in Quotes, quote[q] # None, StackOf(q)
  PROVE  /\ LatestRevision(q) \in RevisionsOf(q)
         /\ revision[LatestRevision(q)].revision = quote[q].current
<1>0. quote[q].current \in Nat \ {0} /\ \A r \in RevisionsOf(q) : revision[r].revision \in Nat
  <2>1. quote[q] \in QuotationRows
    BY DEF QuotesOK
  <2>2. quote[q].current \in Nat
    BY <2>1 DEF QuotationRows
  <2>3. \A r \in RevisionsOf(q) : revision[r] \in RevisionRows
    BY DEF QuotesOK, RevisionsOf
  <2>4. \A r \in RevisionsOf(q) : revision[r].revision \in Nat
    BY <2>3 DEF RevisionRows
  <2> QED
    BY <2>2, <2>4 DEF StackOf, Numbered
<1>1. PICK last \in RevisionsOf(q) : revision[last].revision = quote[q].current
  BY <1>0 DEF StackOf, Numbered
<1>2. \A other \in RevisionsOf(q) : revision[other].revision <= revision[last].revision
  BY <1>0, <1>1 DEF StackOf, Numbered
<1>3. /\ LatestRevision(q) \in RevisionsOf(q)
      /\ \A other \in RevisionsOf(q) : revision[other].revision <= revision[LatestRevision(q)].revision
  BY <1>1, <1>2 DEF LatestRevision
<1>4. revision[LatestRevision(q)].revision <= quote[q].current
  BY <1>0, <1>3 DEF StackOf, Numbered
<1> QED
  BY <1>0, <1>1, <1>3, <1>4

LinesKept(r) ==
  /\ LinesForRevision(r)' = LinesForRevision(r)
  /\ \A l \in LinesForRevision(r) : offered'[l] = offered[l]

LEMMA SameOffers ==
  ASSUME NEW r, LinesKept(r)
  PROVE  OffersOf(r)' = OffersOf(r)
BY DEF LinesKept, OffersOf

(* A step on the revision r, which is not issued, of the quotation q,      *)
(* which is not accepted.                                                  *)
Touches(q, r) ==
  /\ QuotesOK'
  /\ \A p \in Quotes \ {q} : quote'[p] = quote[p]
  /\ \A s \in Revisions \ {r} : revision'[s] = revision[s] /\ LinesKept(s)
  /\ \A l \in Lines :
       offered'[l] = offered[l] \/ offered'[l] = None \/ offered'[l].of = r
  /\ quote[q] # None => quote[q].state # "accepted"
  /\ revision[r] # None => revision[r].of = q /\ ~revision[r].issued
  /\ quote'[q] # None /\ quote'[q].state # "accepted"
  /\ revision'[r] # None /\ revision'[r].of = q
  /\ revision'[r].number = None \/ ~NumberTaken(revision'[r].number, r)
  /\ revision'[r].total = RevisionTotal(OffersOf(r))'

LEMMA TouchKeeps ==
  ASSUME QuotesInv, NEW q \in Quotes, NEW r \in Revisions, Touches(q, r)
  PROVE  /\ RowsHang' /\ NumbersOnce' /\ TotalsTell' /\ IssuedKept
         /\ \A p \in Quotes \ {q} : StackOf(p)'
<1>1. RowsHang'
  <2>1. \A l \in Lines : offered'[l] # None => revision'[offered'[l].of] # None
    <3> SUFFICES ASSUME NEW l \in Lines, offered'[l] # None PROVE revision'[offered'[l].of] # None
      OBVIOUS
    <3>1. offered'[l].of \in Revisions
      BY DEF Touches, QuotesOK, LineRows
    <3> QED
      BY <3>1 DEF Touches, QuotesInv, RowsHang
  <2>2. \A s \in Revisions : revision'[s] # None => quote'[revision'[s].of] # None
    <3> SUFFICES ASSUME NEW s \in Revisions, revision'[s] # None
                 PROVE  quote'[revision'[s].of] # None
      OBVIOUS
    <3>1. revision'[s].of \in Quotes
      BY DEF Touches, QuotesOK, RevisionRows
    <3> QED
      BY <3>1 DEF Touches, QuotesInv, RowsHang
  <2> QED
    BY <2>1, <2>2 DEF RowsHang
<1>2. NumbersOnce'
  <2> SUFFICES ASSUME NEW s \in Revisions, NEW t \in Revisions,
                      revision'[s] # None, revision'[t] # None,
                      revision'[s].number = revision'[t].number, s # t
               PROVE  revision'[s].number = None
    BY DEF NumbersOnce
  <2>1. CASE s # r /\ t # r
    BY <2>1 DEF Touches, QuotesInv, NumbersOnce
  <2>2. CASE s = r \/ t = r
    BY <2>2 DEF Touches, NumberTaken
  <2> QED
    BY <2>1, <2>2
<1>3. TotalsTell'
  <2> SUFFICES ASSUME NEW s \in Revisions, revision'[s] # None
               PROVE  revision'[s].total = RevisionTotal(OffersOf(s))'
    BY DEF TotalsTell
  <2>1. CASE s = r
    BY <2>1 DEF Touches
  <2>2. CASE s # r
    <3>1. revision'[s] = revision[s] /\ OffersOf(s)' = OffersOf(s)
      BY <2>2, SameOffers DEF Touches
    <3>2. RevisionTotal(OffersOf(s))' = RevisionTotal(OffersOf(s))
      BY <3>1 DEF RevisionTotal
    <3> QED
      BY <3>1, <3>2 DEF QuotesInv, TotalsTell
  <2> QED
    BY <2>1, <2>2
<1>4. IssuedKept
  BY DEF IssuedKept, Touches, LinesKept
<1>5. ASSUME NEW p \in Quotes \ {q} PROVE StackOf(p)'
  <2>1. quote'[p] = quote[p]
    BY DEF Touches
  <2>2. RevisionsOf(p)' = RevisionsOf(p) /\ \A s \in RevisionsOf(p) : revision'[s] = revision[s]
    BY DEF Touches, RevisionsOf
  <2>3. StackOf(p)
    BY DEF QuotesInv
  <2> QED
    BY <2>1, <2>2, <2>3 DEF StackOf, Numbered, LastIsOpen, AcceptedStands, RevisionNumbered
<1> QED
  BY <1>1, <1>2, <1>3, <1>4, <1>5

(* Lines written for one revision, of which all that it had are removed.   *)
LEMMA RewriteKeeps ==
  ASSUME FreshLines, QuotesOK, NEW r \in Revisions, NEW lines \in OfferedLines,
         ReadLines(r, lines), WriteLines(r, lines, LinesForRevision(r))
  PROVE  /\ offered' \in [Lines -> LineRows \cup {None}]
         /\ \A s \in Revisions \ {r} : LinesKept(s)
         /\ \A l \in Lines : offered'[l] = offered[l] \/ offered'[l] = None \/ offered'[l].of = r
         /\ OffersOf(r)' = lines
         /\ RevisionTotal(lines) \in Nat
<1>1. DOMAIN lines \subseteq Lines /\ lines = [l \in DOMAIN lines |-> lines[l]]
      /\ \A l \in DOMAIN lines : lines[l] \in Offers
  BY DEF OfferedLines
<1>2. \A l \in DOMAIN lines : /\ [of |-> r, offer |-> lines[l]] \in LineRows
                              /\ [of |-> r, offer |-> lines[l]] # None
                              /\ offered[l] = None \/ offered[l].of = r
  BY <1>1, QuotationAssumption DEF LineRows, ReadLines
<1>3. \A l \in Lines :
        offered'[l] = IF l \in DOMAIN lines THEN [of |-> r, offer |-> lines[l]]
                      ELSE IF l \in LinesForRevision(r) THEN None ELSE offered[l]
  BY DEF WriteLines
<1> DEFINE put(l) == [of |-> r, offer |-> lines[l]]
<1>4. \A l \in DOMAIN lines : put(l).of = r /\ put(l).offer = lines[l] /\ put(l) # None
  BY <1>2
<1>5. \A l \in Lines : offered'[l] = IF l \in DOMAIN lines THEN put(l)
                       ELSE IF l \in LinesForRevision(r) THEN None ELSE offered[l]
  BY <1>3
<1> HIDE DEF put
<1>6. offered' \in [Lines -> LineRows \cup {None}]
  BY <1>1, <1>2 DEF WriteLines, QuotesOK
<1>7. ASSUME NEW s \in Revisions \ {r} PROVE LinesKept(s)
  <2>1. \A l \in LinesForRevision(s) : offered'[l] = offered[l]
    BY <1>2, <1>4, <1>5 DEF LinesForRevision
  <2>2. \A l \in Lines : offered'[l] # None /\ offered'[l].of = s => l \in LinesForRevision(s)
    BY <1>2, <1>4, <1>5 DEF LinesForRevision
  <2> QED
    BY <2>1, <2>2 DEF LinesKept, LinesForRevision
<1>8. LinesForRevision(r)' = DOMAIN lines
  BY <1>1, <1>4, <1>5 DEF LinesForRevision
<1>9. OffersOf(r)' = lines
  <2>1. OffersOf(r)' = [l \in LinesForRevision(r)' |-> offered'[l].offer]
    BY DEF OffersOf
  <2>2. \A l \in DOMAIN lines : offered'[l].offer = lines[l]
    BY <1>1, <1>4, <1>5
  <2> QED
    BY <1>1, <1>8, <2>1, <2>2
<1>10. RevisionTotal(lines) \in Nat
  <2> DEFINE f == [l \in DOMAIN lines |-> lines[l].amount]
  <2>1. IsFiniteSet(DOMAIN lines)
    BY <1>1, QuotationAssumption, FS_Subset
  <2>2. \A l \in DOMAIN lines : f[l] \in Nat
    BY <1>1, QuotationAssumption
  <2> HIDE DEF f
  <2>3. SumOver(f, DOMAIN lines) \in Nat
    BY <2>1, <2>2, SumNat
  <2> QED
    BY <2>3 DEF RevisionTotal, f
<1> QED
  BY <1>6, <1>7, <1>9, <1>10, <1>4, <1>5

LEMMA RewrittenTotal ==
  ASSUME NEW r, NEW lines, OffersOf(r)' = lines
  PROVE  RevisionTotal(OffersOf(r))' = RevisionTotal(lines)
BY DEF RevisionTotal

LEMMA CreatingKeeps ==
  ASSUME FreshLines, QuotesInv, NEW q \in Quotes, NEW r \in Revisions, NEW valid \in Validities,
         NEW lines \in OfferedLines, CreateQuotation(q, r, valid, lines), UNCHANGED now
  PROVE  Touches(q, r) /\ StackOf(q)'
<1> DEFINE row == [state |-> "draft", current |-> 1, accepted |-> 0, created |-> now, settled |-> 0]
           stacked == [of |-> q, revision |-> 1, issued |-> FALSE, number |-> None, valid |-> valid,
                       total |-> RevisionTotal(lines), created |-> now]
<1>1. LinesForRevision(r) = {} /\ RevisionsOf(q) = {}
  BY DEF CreateQuotation, QuotesInv, RowsHang, QuotesOK, LinesForRevision, RevisionsOf
<1>2. ReadLines(r, lines) /\ WriteLines(r, lines, LinesForRevision(r)) /\ QuotesOK
  BY <1>1 DEF CreateQuotation, QuotesInv
<1>3. /\ offered' \in [Lines -> LineRows \cup {None}]
      /\ \A s \in Revisions \ {r} : LinesKept(s)
      /\ \A l \in Lines : offered'[l] = offered[l] \/ offered'[l] = None \/ offered'[l].of = r
      /\ OffersOf(r)' = lines
      /\ RevisionTotal(lines) \in Nat
  BY <1>2, RewriteKeeps
<1>4. now \in Nat /\ valid \in Nat
  BY ClockAssumption, QuotationAssumption DEF QuotesInv, QuotesOK
<1>5. row \in QuotationRows /\ row # None /\ stacked \in RevisionRows /\ stacked # None
  <2>1. row \in QuotationRows
    BY <1>4 DEF QuotationRows
  <2>2. stacked \in RevisionRows
    BY <1>3, <1>4 DEF RevisionRows
  <2> QED
    BY <2>1, <2>2, QuotationAssumption
<1>6. /\ quote' = [quote EXCEPT ![q] = row] /\ revision' = [revision EXCEPT ![r] = stacked]
      /\ quote[q] = None /\ revision[r] = None
  BY DEF CreateQuotation
<1>7. /\ row.state = "draft" /\ row.current = 1 /\ stacked.of = q /\ stacked.revision = 1
      /\ stacked.issued = FALSE /\ stacked.number = None /\ stacked.total = RevisionTotal(lines)
  OBVIOUS
<1> HIDE DEF row, stacked
<1>8. QuotesOK' /\ quote'[q] = row /\ revision'[r] = stacked
  BY <1>3, <1>5, <1>6 DEF QuotesInv, QuotesOK
<1>9. /\ \A p \in Quotes \ {q} : quote'[p] = quote[p]
      /\ \A s \in Revisions \ {r} : revision'[s] = revision[s]
  BY <1>6 DEF QuotesInv, QuotesOK
<1>10. revision'[r].total = RevisionTotal(OffersOf(r))'
  BY <1>3, <1>7, <1>8, RewrittenTotal
<1>11. Touches(q, r)
  BY <1>3, <1>5, <1>6, <1>7, <1>8, <1>9, <1>10 DEF Touches
<1>12. RevisionsOf(q)' = {r}
  BY <1>1, <1>5, <1>7, <1>8, <1>9 DEF RevisionsOf
<1>13. Numbered(q)'
  BY <1>7, <1>8, <1>12 DEF Numbered
<1>14. LastIsOpen(q)' /\ AcceptedStands(q)'
  BY <1>7, <1>8, <1>12 DEF LastIsOpen, AcceptedStands
<1> QED
  BY <1>11, <1>13, <1>14 DEF StackOf

LEMMA RestackingKeeps ==
  ASSUME FreshLines, QuotesInv, NEW q \in Quotes, NEW r \in Revisions, NEW valid \in Validities,
         NEW lines \in OfferedLines, ReviseIssued(q, r, valid, lines), UNCHANGED now
  PROVE  Touches(q, r) /\ StackOf(q)'
<1> DEFINE last == LatestRevision(q)
           next == revision[last].revision + 1
           row == [quote[q] EXCEPT !.state = "draft", !.current = next]
           stacked == [of |-> q, revision |-> next, issued |-> FALSE, number |-> None,
                       valid |-> valid, total |-> RevisionTotal(lines), created |-> now]
<1>1. /\ quote[q] # None /\ quote[q].state \in {"draft", "issued"} /\ revision[last].issued
      /\ revision[r] = None /\ ReadLines(r, lines) /\ WriteLines(r, lines, {})
      /\ quote' = [quote EXCEPT ![q].state = "draft", ![q].current = next]
      /\ revision' = [revision EXCEPT ![r] = stacked]
  BY DEF ReviseIssued, CanRevise
<1>2. QuotesOK /\ StackOf(q)
  BY DEF QuotesInv
<1>3. last \in RevisionsOf(q) /\ revision[last].revision = quote[q].current
  BY <1>1, <1>2, LatestIs
<1>4. LinesForRevision(r) = {}
  BY <1>1 DEF QuotesInv, RowsHang, QuotesOK, LinesForRevision
<1>5. /\ offered' \in [Lines -> LineRows \cup {None}]
      /\ \A s \in Revisions \ {r} : LinesKept(s)
      /\ \A l \in Lines : offered'[l] = offered[l] \/ offered'[l] = None \/ offered'[l].of = r
      /\ OffersOf(r)' = lines
      /\ RevisionTotal(lines) \in Nat
  BY <1>1, <1>2, <1>4, RewriteKeeps
<1>6. now \in Nat /\ valid \in Nat
  BY ClockAssumption, QuotationAssumption DEF QuotesInv, QuotesOK
<1>7. quote[q] \in QuotationRows /\ quote[q].current \in Nat
  BY <1>1, <1>2 DEF QuotesOK, QuotationRows
<1>8. next = quote[q].current + 1 /\ next \in Nat
  BY <1>3, <1>7
<1> HIDE DEF next, last
<1>9. row \in QuotationRows /\ row # None /\ stacked \in RevisionRows /\ stacked # None
  <2>1. row \in QuotationRows
    BY <1>7, <1>8 DEF QuotationRows
  <2>2. stacked \in RevisionRows
    BY <1>5, <1>6, <1>8 DEF RevisionRows
  <2> QED
    BY <2>1, <2>2, QuotationAssumption
<1>10. /\ row.state = "draft" /\ row.current = next /\ stacked.of = q /\ stacked.revision = next
       /\ stacked.issued = FALSE /\ stacked.number = None /\ stacked.total = RevisionTotal(lines)
  BY <1>7 DEF QuotationRows
<1>11. quote' = [quote EXCEPT ![q] = row] /\ revision' = [revision EXCEPT ![r] = stacked]
  BY <1>1
<1> HIDE DEF row, stacked
<1>12. QuotesOK' /\ quote'[q] = row /\ revision'[r] = stacked
  BY <1>2, <1>5, <1>9, <1>11 DEF QuotesOK
<1>13. /\ \A p \in Quotes \ {q} : quote'[p] = quote[p]
       /\ \A s \in Revisions \ {r} : revision'[s] = revision[s]
  BY <1>1, <1>2, <1>11 DEF QuotesOK
<1>14. revision'[r].total = RevisionTotal(OffersOf(r))'
  BY <1>5, <1>10, <1>12, RewrittenTotal
<1>15. Touches(q, r)
  BY <1>1, <1>5, <1>9, <1>10, <1>12, <1>13, <1>14 DEF Touches
<1>16. RevisionsOf(q)' = RevisionsOf(q) \cup {r} /\ r \notin RevisionsOf(q)
  BY <1>1, <1>9, <1>10, <1>12, <1>13 DEF RevisionsOf
<1>17. Numbered(q) /\ LastIsOpen(q)
  BY <1>1, <1>2 DEF StackOf
<1>18. \A s \in RevisionsOf(q) : /\ revision'[s] = revision[s]
                                 /\ revision[s].revision \in 1..quote[q].current
                                 /\ revision[s].issued
  <2>1. \A s \in RevisionsOf(q) : revision'[s] = revision[s] /\ revision[s].revision \in 1..quote[q].current
    BY <1>13, <1>16, <1>17 DEF Numbered, RevisionsOf
  <2>2. \A s \in RevisionsOf(q) : revision[s].revision = quote[q].current => s = last
    BY <1>3, <1>17 DEF Numbered
  <2>3. \A s \in RevisionsOf(q) : revision[s].revision < quote[q].current => revision[s].issued
    BY <1>17 DEF LastIsOpen
  <2>4. \A n \in 1..quote[q].current : n < quote[q].current \/ n = quote[q].current
    BY <1>7
  <2> QED
    BY <1>1, <2>1, <2>2, <2>3, <2>4
<1>19. Numbered(q)'
  <2>1. quote'[q].current = quote[q].current + 1 /\ revision'[r].revision = quote[q].current + 1
    BY <1>8, <1>10, <1>12
  <2>2. 1..(quote[q].current + 1) = 1..quote[q].current \cup {quote[q].current + 1}
        /\ quote[q].current + 1 \notin 1..quote[q].current /\ quote[q].current + 1 >= 1
    BY <1>7
  <2>3. \A s \in RevisionsOf(q)' : revision'[s].revision \in 1..quote'[q].current
    BY <1>16, <1>18, <2>1, <2>2
  <2>4. \A n \in 1..quote'[q].current : \E s \in RevisionsOf(q)' : revision'[s].revision = n
    BY <1>16, <1>17, <1>18, <2>1, <2>2 DEF Numbered
  <2>5. \A s, t \in RevisionsOf(q)' : revision'[s].revision = revision'[t].revision => s = t
    BY <1>16, <1>17, <1>18, <2>1, <2>2 DEF Numbered
  <2> QED
    BY <2>1, <2>2, <2>3, <2>4, <2>5 DEF Numbered
<1>20. LastIsOpen(q)' /\ AcceptedStands(q)'
  <2>1. \A s \in RevisionsOf(q) : revision'[s].issued /\ revision'[s].revision # quote'[q].current
    BY <1>7, <1>8, <1>10, <1>12, <1>18
  <2>2. revision'[r].revision = quote'[q].current /\ ~revision'[r].issued /\ quote'[q].state = "draft"
        /\ ~(quote'[q].current < quote'[q].current)
    BY <1>8, <1>10, <1>12
  <2>3. LastIsOpen(q)'
    BY <1>16, <2>1, <2>2 DEF LastIsOpen
  <2> QED
    BY <2>2, <2>3 DEF AcceptedStands
<1> QED
  BY <1>15, <1>19, <1>20 DEF StackOf

LEMMA RedraftingKeeps ==
  ASSUME FreshLines, QuotesInv, NEW q \in Quotes, NEW valid \in Validities,
         NEW lines \in OfferedLines, ReviseDraft(q, valid, lines), UNCHANGED now
  PROVE  \E r \in Revisions : Touches(q, r) /\ StackOf(q)'
<1>1. QuotesOK /\ StackOf(q) /\ quote[q] # None
  BY DEF QuotesInv, ReviseDraft, CanRevise
<1>2. PICK r \in RevisionsOf(q) : r = LatestRevision(q) /\ revision[r].revision = quote[q].current
  BY <1>1, LatestIs
<1> DEFINE row == [quote[q] EXCEPT !.state = "draft"]
           redrawn == [revision[r] EXCEPT !.valid = valid, !.total = RevisionTotal(lines)]
<1>3. /\ quote[q] # None /\ quote[q].state \in {"draft", "issued"} /\ ~revision[r].issued
      /\ ReadLines(r, lines) /\ WriteLines(r, lines, LinesForRevision(r))
      /\ quote' = [quote EXCEPT ![q] = row]
      /\ revision' = [revision EXCEPT ![r] = redrawn]
  BY <1>2 DEF ReviseDraft, CanRevise
<1>4. r \in Revisions /\ revision[r] # None /\ revision[r].of = q /\ revision[r] \in RevisionRows
  BY <1>1, <1>2 DEF RevisionsOf, QuotesOK
<1>5. /\ offered' \in [Lines -> LineRows \cup {None}]
      /\ \A s \in Revisions \ {r} : LinesKept(s)
      /\ \A l \in Lines : offered'[l] = offered[l] \/ offered'[l] = None \/ offered'[l].of = r
      /\ OffersOf(r)' = lines
      /\ RevisionTotal(lines) \in Nat
  BY <1>3, <1>1, <1>4, RewriteKeeps
<1>6. quote[q] \in QuotationRows /\ valid \in Nat
  BY <1>3, <1>1, QuotationAssumption DEF QuotesOK
<1>7. /\ row \in QuotationRows /\ row.state = "draft" /\ row.current = quote[q].current
  BY <1>6 DEF QuotationRows
<1>8. /\ redrawn \in RevisionRows /\ redrawn.of = q /\ redrawn.revision = revision[r].revision
      /\ redrawn.issued = revision[r].issued /\ redrawn.number = revision[r].number
      /\ redrawn.total = RevisionTotal(lines)
  BY <1>4, <1>5, <1>6 DEF RevisionRows
<1>9. row # None /\ redrawn # None
  BY <1>7, <1>8, QuotationAssumption
<1> HIDE DEF row, redrawn
<1>10. QuotesOK' /\ quote'[q] = row /\ revision'[r] = redrawn
  BY <1>3, <1>1, <1>4, <1>5, <1>7, <1>8 DEF QuotesOK
<1>11. /\ \A p \in Quotes \ {q} : quote'[p] = quote[p]
       /\ \A s \in Revisions \ {r} : revision'[s] = revision[s]
  BY <1>3, <1>1 DEF QuotesOK
<1>12. revision'[r].total = RevisionTotal(OffersOf(r))'
  BY <1>5, <1>8, <1>10, RewrittenTotal
<1>13. revision[r].number = None \/ ~NumberTaken(revision[r].number, r)
  BY <1>4 DEF QuotesInv, NumbersOnce, NumberTaken
<1>14. Touches(q, r)
  BY <1>3, <1>4, <1>5, <1>7, <1>8, <1>9, <1>10, <1>11, <1>12, <1>13 DEF Touches
<1>15. RevisionsOf(q)' = RevisionsOf(q)
  BY <1>4, <1>8, <1>9, <1>10, <1>11 DEF RevisionsOf
<1>16. \A s \in RevisionsOf(q) : /\ revision'[s].revision = revision[s].revision
                                 /\ revision'[s].issued = revision[s].issued
  BY <1>8, <1>10, <1>11 DEF RevisionsOf
<1>17. Numbered(q) /\ LastIsOpen(q)
  BY <1>3, <1>1 DEF StackOf
<1>18. Numbered(q)'
  BY <1>7, <1>10, <1>15, <1>16, <1>17 DEF Numbered
<1>19. \A s \in RevisionsOf(q) : revision[s].revision = quote[q].current => s = r
  BY <1>2, <1>17 DEF Numbered
<1>20. LastIsOpen(q)' /\ AcceptedStands(q)'
  BY <1>3, <1>7, <1>10, <1>15, <1>16, <1>17, <1>19 DEF LastIsOpen, AcceptedStands
<1> QED
  BY <1>4, <1>14, <1>18, <1>20 DEF StackOf

LEMMA IssuingKeeps ==
  ASSUME QuotesInv, NEW q \in Quotes, NEW number \in Numbers, NEW valid \in Validities,
         IssueQuotation(q, number, valid), UNCHANGED now
  PROVE  \E r \in Revisions : Touches(q, r) /\ StackOf(q)'
<1>1. QuotesOK /\ StackOf(q) /\ quote[q] # None
  BY DEF QuotesInv, IssueQuotation, CanRevise
<1>2. PICK r \in RevisionsOf(q) : r = LatestRevision(q) /\ revision[r].revision = quote[q].current
  BY <1>1, LatestIs
<1> DEFINE row == [quote[q] EXCEPT !.state = "issued"]
           signed == [revision[r] EXCEPT !.issued = TRUE, !.number = number, !.valid = valid]
<1>3. /\ quote[q] # None /\ quote[q].state \in {"draft", "issued"} /\ ~revision[r].issued
      /\ ~NumberTaken(number, r) /\ UNCHANGED offered
      /\ quote' = [quote EXCEPT ![q] = row]
      /\ revision' = [revision EXCEPT ![r] = signed]
  BY <1>2 DEF IssueQuotation, CanRevise
<1>4. r \in Revisions /\ revision[r] # None /\ revision[r].of = q /\ revision[r] \in RevisionRows
  BY <1>1, <1>2 DEF RevisionsOf, QuotesOK
<1>5. \A s \in Revisions : LinesKept(s)
  BY <1>3 DEF LinesKept, LinesForRevision
<1>6. quote[q] \in QuotationRows /\ valid \in Nat
  BY <1>3, <1>1, QuotationAssumption DEF QuotesOK
<1>7. /\ row \in QuotationRows /\ row.state = "issued" /\ row.current = quote[q].current
  BY <1>6 DEF QuotationRows
<1>8. /\ signed \in RevisionRows /\ signed.of = q /\ signed.revision = revision[r].revision
      /\ signed.issued = TRUE /\ signed.number = number /\ signed.total = revision[r].total
  BY <1>4, <1>6 DEF RevisionRows
<1>9. row # None /\ signed # None
  BY <1>7, <1>8, QuotationAssumption
<1> HIDE DEF row, signed
<1>10. QuotesOK' /\ quote'[q] = row /\ revision'[r] = signed
  BY <1>3, <1>1, <1>4, <1>7, <1>8 DEF QuotesOK
<1>11. /\ \A p \in Quotes \ {q} : quote'[p] = quote[p]
       /\ \A s \in Revisions \ {r} : revision'[s] = revision[s]
  BY <1>3, <1>1 DEF QuotesOK
<1>12. revision'[r].total = RevisionTotal(OffersOf(r))'
  <2>1. RevisionTotal(OffersOf(r))' = RevisionTotal(OffersOf(r))
    <3>1. OffersOf(r)' = OffersOf(r)
      BY <1>4, <1>5, SameOffers
    <3> QED
      BY <3>1 DEF RevisionTotal
  <2> QED
    BY <1>4, <1>8, <1>10, <2>1 DEF QuotesInv, TotalsTell
<1>13. Touches(q, r)
  BY <1>3, <1>4, <1>5, <1>7, <1>8, <1>9, <1>10, <1>11, <1>12 DEF Touches
<1>14. RevisionsOf(q)' = RevisionsOf(q)
  BY <1>4, <1>8, <1>9, <1>10, <1>11 DEF RevisionsOf
<1>15. /\ \A s \in RevisionsOf(q) : revision'[s].revision = revision[s].revision
       /\ \A s \in RevisionsOf(q) : revision[s].issued => revision'[s].issued
       /\ revision'[r].issued
  BY <1>8, <1>10, <1>11 DEF RevisionsOf
<1>16. Numbered(q) /\ LastIsOpen(q)
  BY <1>3, <1>1 DEF StackOf
<1>17. Numbered(q)'
  BY <1>7, <1>10, <1>14, <1>15, <1>16 DEF Numbered
<1>18. \A s \in RevisionsOf(q) : revision[s].revision = quote[q].current => s = r
  BY <1>2, <1>16 DEF Numbered
<1>19. LastIsOpen(q)' /\ AcceptedStands(q)'
  BY <1>7, <1>10, <1>14, <1>15, <1>16, <1>18 DEF LastIsOpen, AcceptedStands
<1> QED
  BY <1>4, <1>13, <1>17, <1>19 DEF StackOf

(* What only moves the quotation on leaves what lies under it.             *)
LEMMA MovingOnKeeps ==
  ASSUME QuotesInv, NEW q \in Quotes, NEW row \in QuotationRows, quote[q] # None,
         quote' = [quote EXCEPT ![q] = row], UNCHANGED <<revision, offered, now>>,
         row.current = quote[q].current,
         row.state = "expired" \/ row.state = quote[q].state
           \/ (row.state = "accepted" /\ quote[q].state = "issued"),
         row.state = "accepted" =>
           \E r \in RevisionNumbered(q, row.accepted) :
             revision[r].issued /\ (revision[r].valid > 0 => row.settled <= revision[r].valid)
  PROVE  QuotesInv' /\ IssuedKept
<1>1. QuotesOK /\ row # None
  BY QuotationAssumption DEF QuotesInv
<1>2. /\ quote'[q] = row
      /\ \A p \in Quotes \ {q} : quote'[p] = quote[p]
      /\ QuotesOK'
  BY <1>1 DEF QuotesOK
<1>3. \A p : /\ RevisionsOf(p)' = RevisionsOf(p)
             /\ \A n : RevisionNumbered(p, n)' = RevisionNumbered(p, n)
  BY DEF RevisionsOf, RevisionNumbered
<1>4. RowsHang' /\ NumbersOnce' /\ IssuedKept
  <2>1. RowsHang'
    <3>1. \A p \in Quotes : quote[p] # None => quote'[p] # None
      BY <1>1, <1>2
    <3>2. \A r \in Revisions : revision[r] # None => revision[r].of \in Quotes
      BY <1>1 DEF QuotesOK, RevisionRows
    <3> QED
      BY <3>1, <3>2 DEF QuotesInv, RowsHang
  <2>2. NumbersOnce'
    BY DEF QuotesInv, NumbersOnce
  <2> QED
    BY <2>1, <2>2 DEF IssuedKept, LinesForRevision
<1>5. TotalsTell'
  BY DEF QuotesInv, TotalsTell, RevisionTotal, OffersOf, LinesForRevision
<1>6. ASSUME NEW p \in Quotes, p # q PROVE StackOf(p)'
  <2>1. StackOf(p) /\ quote'[p] = quote[p] /\ RevisionsOf(p)' = RevisionsOf(p)
    BY <1>2, <1>3, <1>6 DEF QuotesInv
  <2> QED
    BY <2>1 DEF StackOf, Numbered, LastIsOpen, AcceptedStands, RevisionNumbered
<1>7. StackOf(q)'
  <2>1. StackOf(q) /\ quote'[q] = row /\ RevisionsOf(q)' = RevisionsOf(q)
    BY <1>2, <1>3 DEF QuotesInv
  <2>2. Numbered(q)' /\ LastIsOpen(q)'
    BY <2>1 DEF StackOf, Numbered, LastIsOpen
  <2>3. AcceptedStands(q)'
    BY <2>1 DEF AcceptedStands, RevisionNumbered
  <2> QED
    BY <2>2, <2>3 DEF StackOf
<1> QED
  BY <1>2, <1>4, <1>5, <1>6, <1>7 DEF QuotesInv

Accepted(q) == quote[q] # None /\ quote[q].state = "accepted"

AcceptedStay == \A q \in Quotes : Accepted(q) => quote'[q] = quote[q]

OneIsAccepted == \E q \in Quotes : \A p \in Quotes \ {q} : Accepted(p)' => Accepted(p)

LEMMA QuotesStep ==
  ASSUME FreshLines, QuotesInv, QuotationNext, UNCHANGED now
  PROVE  QuotesInv' /\ IssuedKept /\ AcceptedStay /\ OneIsAccepted
<1>1. ASSUME NEW q \in Quotes, NEW r \in Revisions, Touches(q, r), StackOf(q)'
      PROVE  QuotesInv' /\ IssuedKept /\ AcceptedStay /\ OneIsAccepted
  <2>1. RowsHang' /\ NumbersOnce' /\ TotalsTell' /\ IssuedKept /\ \A p \in Quotes \ {q} : StackOf(p)'
    BY <1>1, TouchKeeps
  <2>2. \A p \in Quotes : StackOf(p)'
    BY <1>1, <2>1
  <2>3. QuotesInv'
    BY <1>1, <2>1, <2>2 DEF QuotesInv, Touches
  <2>4. AcceptedStay /\ OneIsAccepted
    BY <1>1 DEF Touches, AcceptedStay, OneIsAccepted, Accepted
  <2> QED
    BY <2>1, <2>3, <2>4
<1>2. ASSUME NEW q \in Quotes, NEW row \in QuotationRows,
             quote' = [quote EXCEPT ![q] = row], ~Accepted(q)
      PROVE  AcceptedStay /\ OneIsAccepted
  <2>1. \A p \in Quotes \ {q} : quote'[p] = quote[p]
    BY <1>2
  <2> QED
    BY <1>2, <2>1 DEF AcceptedStay, OneIsAccepted, Accepted
<1>3. ASSUME NEW q \in Quotes, NEW n \in 1..Cardinality(Revisions), AcceptQuotation(q, n)
      PROVE  QuotesInv' /\ IssuedKept /\ AcceptedStay /\ OneIsAccepted
  <2> DEFINE row == [quote[q] EXCEPT !.state = "accepted", !.accepted = n, !.settled = now]
  <2>1. /\ quote[q] # None /\ quote[q].state = "issued" /\ UNCHANGED <<revision, offered, now>>
        /\ quote' = [quote EXCEPT ![q] = row]
    BY <1>3 DEF AcceptQuotation, QuotationTransitions
  <2>2. PICK r \in RevisionNumbered(q, n) : revision[r].issued /\ ~ExpiredAtMoment(r)
    BY <1>3 DEF AcceptQuotation
  <2>3. quote[q] \in QuotationRows /\ now \in Nat /\ revision[r].valid \in Nat /\ n \in Nat
    <3>1. revision[r] \in RevisionRows
      BY <2>2 DEF QuotesInv, QuotesOK, RevisionNumbered, RevisionsOf
    <3>2. revision[r].valid \in Nat
      BY <3>1 DEF RevisionRows
    <3> QED
      BY <2>1, <3>2, ClockAssumption DEF QuotesInv, QuotesOK
  <2>4. /\ row \in QuotationRows /\ row.state = "accepted" /\ row.current = quote[q].current
        /\ row.accepted = n /\ row.settled = now
    BY <2>3 DEF QuotationRows
  <2> HIDE DEF row
  <2>5. \E s \in RevisionNumbered(q, row.accepted) :
          revision[s].issued /\ (revision[s].valid > 0 => row.settled <= revision[s].valid)
    BY <2>2, <2>3, <2>4 DEF ExpiredAtMoment
  <2>6. QuotesInv' /\ IssuedKept
    BY <2>1, <2>4, <2>5, MovingOnKeeps
  <2> QED
    BY <1>2, <2>1, <2>4, <2>6 DEF Accepted
<1>4. ASSUME NEW q \in Quotes, ExpireQuotation(q)
      PROVE  QuotesInv' /\ IssuedKept /\ AcceptedStay /\ OneIsAccepted
  <2> DEFINE row == [quote[q] EXCEPT !.state = "expired", !.settled = now]
  <2>1. /\ quote[q] # None /\ quote[q].state # "accepted" /\ UNCHANGED <<revision, offered, now>>
        /\ quote' = [quote EXCEPT ![q] = row]
    BY <1>4 DEF ExpireQuotation, QuotationTransitions
  <2>2. quote[q] \in QuotationRows /\ now \in Nat
    BY <2>1, ClockAssumption DEF QuotesInv, QuotesOK
  <2>3. row \in QuotationRows /\ row.state = "expired" /\ row.current = quote[q].current
    BY <2>2 DEF QuotationRows
  <2> HIDE DEF row
  <2>4. QuotesInv' /\ IssuedKept
    BY <2>1, <2>3, MovingOnKeeps
  <2> QED
    BY <1>2, <2>1, <2>3, <2>4 DEF Accepted
<1>5. ASSUME NEW q \in Quotes, NEW valid \in Validities, NEW lines \in OfferedLines,
             \/ \E r \in Revisions :
                  CreateQuotation(q, r, valid, lines) \/ ReviseIssued(q, r, valid, lines)
             \/ ReviseDraft(q, valid, lines)
      PROVE  QuotesInv' /\ IssuedKept /\ AcceptedStay /\ OneIsAccepted
  BY <1>1, <1>5, CreatingKeeps, RestackingKeeps, RedraftingKeeps
<1>6. ASSUME NEW q \in Quotes, NEW number \in Numbers, NEW valid \in Validities,
             IssueQuotation(q, number, valid)
      PROVE  QuotesInv' /\ IssuedKept /\ AcceptedStay /\ OneIsAccepted
  BY <1>1, <1>6, IssuingKeeps
<1> QED
  BY <1>3, <1>4, <1>5, <1>6 DEF QuotationNext

LEMMA QuotesStill ==
  ASSUME QuotesInv, UNCHANGED quotationVars, now' \in 1..MaxTime
  PROVE  QuotesInv' /\ IssuedKept /\ AcceptedStay
<1>1. quote' = quote /\ revision' = revision /\ offered' = offered
  BY DEF quotationVars
<1>2. QuotesOK' /\ RowsHang' /\ NumbersOnce'
  BY <1>1 DEF QuotesInv, QuotesOK, RowsHang, NumbersOnce
<1>3. TotalsTell'
  BY <1>1 DEF QuotesInv, TotalsTell, RevisionTotal, OffersOf, LinesForRevision
<1>4. \A q \in Quotes : StackOf(q)'
  BY <1>1 DEF QuotesInv, StackOf, Numbered, LastIsOpen, AcceptedStands, RevisionNumbered, RevisionsOf
<1>5. IssuedKept /\ AcceptedStay
  BY <1>1 DEF IssuedKept, LinesForRevision, AcceptedStay
<1> QED
  BY <1>2, <1>3, <1>4, <1>5 DEF QuotesInv

LEMMA QuotesStack == ASSUME QuotesInv PROVE StackStands
<1>1. ASSUME NEW q \in Quotes, quote[q] # None
      PROVE  /\ {revision[r].revision : r \in RevisionsOf(q)} = 1..quote[q].current
             /\ Cardinality(RevisionsOf(q)) = quote[q].current
             /\ \A r \in RevisionsOf(q) : revision[r].revision < quote[q].current => revision[r].issued
             /\ quote[q].state = "draft" => ~revision[LatestRevision(q)].issued
             /\ quote[q].state \in {"issued", "accepted"} => revision[LatestRevision(q)].issued
             /\ quote[q].state = "accepted" =>
                  \E r \in RevisionNumbered(q, quote[q].accepted) :
                    revision[r].issued /\ (revision[r].valid > 0 => quote[q].settled <= revision[r].valid)
  <2>0. QuotesOK /\ StackOf(q)
    BY DEF QuotesInv
  <2>1. Numbered(q) /\ LastIsOpen(q) /\ AcceptedStands(q) /\ quote[q].current \in Nat
    BY <1>1, <2>0 DEF StackOf, QuotesOK, QuotationRows
  <2>2. /\ LatestRevision(q) \in RevisionsOf(q)
        /\ revision[LatestRevision(q)].revision = quote[q].current
    BY <1>1, <2>0, LatestIs
  <2>3. {revision[r].revision : r \in RevisionsOf(q)} = 1..quote[q].current
    BY <2>1 DEF Numbered
  <2>4. Cardinality(RevisionsOf(q)) = quote[q].current
    <3> DEFINE at == [n \in 1..quote[q].current |->
                        CHOOSE r \in RevisionsOf(q) : revision[r].revision = n]
    <3>1. \A n \in 1..quote[q].current : at[n] \in RevisionsOf(q) /\ revision[at[n]].revision = n
      BY <2>1 DEF Numbered
    <3>2. at \in [1..quote[q].current -> RevisionsOf(q)]
      BY <3>1
    <3> HIDE DEF at
    <3>3. at \in Bijection(1..quote[q].current, RevisionsOf(q))
      BY <2>1, <3>1, <3>2 DEF Numbered, Bijection, Injection, Surjection, IsInjective
    <3>4. ExistsBijection(1..quote[q].current, RevisionsOf(q))
      BY <3>3 DEF ExistsBijection
    <3> QED
      BY <2>1, <3>4, FS_CountingElements
  <2> QED
    BY <2>1, <2>2, <2>3, <2>4 DEF LastIsOpen, AcceptedStands
<1> QED
  BY <1>1 DEF StackStands, QuotesInv, NumbersOnce, TotalsTell

-----------------------------------------------------------------------------
(* From an offer to an order.                                              *)

Agreed(r) ==
  /\ revision[r] # None /\ revision[r].issued
  /\ Accepted(revision[r].of) /\ revision[r].revision = quote[revision[r].of].accepted

Carries(o, r) ==
  \A l \in LinesForRevision(r) :
    line[l] # None /\ line[l].of = o /\ line[l].price = CopiedPrice(offered[l].offer)

(* An order made of a revision is of one that was agreed, and carries it.  *)
SourcesTell ==
  \A o \in OrderIds, r \in Revisions :
    order[o] # None /\ order[o].source = r => Agreed(r) /\ Carries(o, r)

OneOrder ==
  \A r \in Revisions : \A o, other \in OrderForRevision(r) : o = other

OrdersOK ==
  /\ order \in [OrderIds -> SoldRows \cup {None}]
  /\ line \in [OrderLineIds -> OrderLineRows \cup {None}]

SalesInv == QuotesInv /\ OrdersOK /\ SourcesTell /\ OneOrder

(* The revision that was accepted is the only one with its number.         *)
LEMMA AgreedIs ==
  ASSUME QuotesInv, NEW q \in Quotes, Accepted(q)
  PROVE  /\ \E r \in Revisions : Agreed(r) /\ revision[r].of = q
         /\ \A r \in Revisions : Agreed(r) /\ revision[r].of = q => AcceptedRevision(q) = r
<1>1. StackOf(q) /\ quote[q] # None /\ quote[q].state = "accepted"
  BY DEF QuotesInv, Accepted
<1>2. \E r \in Revisions : Agreed(r) /\ revision[r].of = q
  BY <1>1 DEF StackOf, AcceptedStands, RevisionNumbered, RevisionsOf, Agreed, Accepted
<1>3. ASSUME NEW r \in Revisions, Agreed(r), revision[r].of = q
      PROVE  AcceptedRevision(q) = r
  <2>1. r \in RevisionsOf(q) /\ revision[r].revision = quote[q].accepted
    BY <1>3 DEF RevisionsOf, Agreed
  <2>2. \A s \in RevisionsOf(q) : revision[s].revision = quote[q].accepted => s = r
    BY <1>1, <2>1 DEF StackOf, Numbered
  <2> QED
    BY <2>1, <2>2 DEF AcceptedRevision
<1> QED
  BY <1>2, <1>3

LEMMA AgreedNext ==
  ASSUME QuotesInv', NEW q \in Quotes, Accepted(q)', NEW r \in Revisions, Agreed(r)',
         revision'[r].of = q
  PROVE  AcceptedRevision(q)' = r
<1>1. StackOf(q)' /\ quote'[q] # None /\ quote'[q].state = "accepted"
  BY DEF QuotesInv, Accepted
<1>2. r \in RevisionsOf(q)' /\ revision'[r].revision = quote'[q].accepted
  BY DEF RevisionsOf, Agreed
<1>3. \A s \in RevisionsOf(q)' : revision'[s].revision = quote'[q].accepted => s = r
  BY <1>1, <1>2 DEF StackOf, Numbered
<1> QED
  BY <1>2, <1>3 DEF AcceptedRevision

LEMMA PricesAreBargains ==
  ASSUME QuotesInv, NEW r \in Revisions
  PROVE  PricesOf(r) \in Bargains /\ PricesOf(r) # None
<1>1. \A l \in LinesForRevision(r) : l \in Lines /\ offered[l].offer \in Offers
  BY DEF QuotesInv, QuotesOK, LinesForRevision, LineRows
<1>2. PricesOf(r) \in Bargains
  BY <1>1 DEF PricesOf, Bargains
<1> QED
  BY <1>2, SalesAssumption

(* What an accepted quotation agreed on, and what orders made of it.       *)
LEMMA BargainIs ==
  ASSUME QuotesInv, NEW q \in Quotes
  PROVE  /\ ~Accepted(q) => Bargain(q) = None /\ Honoured(q) = {}
         /\ \A r \in Revisions : Agreed(r) /\ revision[r].of = q =>
              /\ Bargain(q) = PricesOf(r)
              /\ Honoured(q) = {PricesOrdered(x, r) : x \in OrderForRevision(r)}
<1>1. ~Accepted(q) => Bargain(q) = None
  BY DEF Bargain, Accepted
<1>2. ASSUME NEW r \in Revisions, Agreed(r), revision[r].of = q
      PROVE  /\ Bargain(q) = PricesOf(r)
             /\ Honoured(q) = {PricesOrdered(x, r) : x \in OrderForRevision(r)}
  <2>1. Accepted(q)
    BY <1>2 DEF Agreed
  <2>2. AcceptedRevision(q) = r
    BY <1>2, <2>1, AgreedIs
  <2>3. Bargain(q) = PricesOf(r) /\ PricesOf(r) # None
    BY <2>1, <2>2, PricesAreBargains DEF Bargain, Accepted
  <2> QED
    BY <2>2, <2>3 DEF Honoured
<1> QED
  BY <1>1, <1>2 DEF Honoured

LEMMA BargainNext ==
  ASSUME QuotesInv', NEW q \in Quotes
  PROVE  /\ ~Accepted(q)' => Bargain(q)' = None /\ Honoured(q)' = {}
         /\ \A r \in Revisions : Agreed(r)' /\ revision'[r].of = q =>
              /\ Bargain(q)' = PricesOf(r)' /\ PricesOf(r)' \in Bargains
              /\ Honoured(q)' = {PricesOrdered(x, r)' : x \in OrderForRevision(r)'}
<1>1. ~Accepted(q)' => Bargain(q)' = None
  BY DEF Bargain, Accepted
<1>2. ASSUME NEW r \in Revisions, Agreed(r)', revision'[r].of = q
      PROVE  /\ Bargain(q)' = PricesOf(r)' /\ PricesOf(r)' \in Bargains
             /\ Honoured(q)' = {PricesOrdered(x, r)' : x \in OrderForRevision(r)'}
  <2>1. Accepted(q)'
    BY <1>2 DEF Agreed
  <2>2. AcceptedRevision(q)' = r
    BY <1>2, <2>1, AgreedNext
  <2>3. PricesOf(r)' \in Bargains /\ PricesOf(r)' # None
    <3>1. \A l \in LinesForRevision(r)' : l \in Lines /\ offered'[l].offer \in Offers
      BY DEF QuotesInv, QuotesOK, LinesForRevision, LineRows
    <3>2. PricesOf(r)' \in Bargains
      BY <3>1 DEF PricesOf, Bargains
    <3> QED
      BY <3>2, SalesAssumption
  <2>4. Bargain(q)' = PricesOf(r)'
    BY <2>1, <2>2 DEF Bargain, Accepted, PricesOf
  <2> QED
    BY <2>2, <2>3, <2>4 DEF Honoured, PricesOrdered, OrderForRevision
<1> QED
  BY <1>1, <1>2 DEF Honoured

Same(q) == Bargain(q)' = Bargain(q) /\ Honoured(q)' = Honoured(q)

OrdersStand(r) ==
  /\ OrderForRevision(r)' = OrderForRevision(r)
  /\ \A o \in OrderForRevision(r) : PricesOrdered(o, r)' = PricesOrdered(o, r)

LEMMA AgreedStays ==
  ASSUME QuotesInv, IssuedKept, AcceptedStay, NEW r \in Revisions, Agreed(r)
  PROVE  Agreed(r)' /\ revision'[r] = revision[r] /\ LinesKept(r) /\ PricesOf(r)' = PricesOf(r)
<1>1. revision'[r] = revision[r] /\ LinesKept(r)
  BY DEF IssuedKept, Agreed, LinesKept
<1>2. revision[r].of \in Quotes
  BY DEF QuotesInv, QuotesOK, RevisionRows, Agreed
<1>3. quote'[revision[r].of] = quote[revision[r].of]
  BY <1>2 DEF AcceptedStay, Agreed
<1> QED
  BY <1>1, <1>2, <1>3 DEF Agreed, Accepted, LinesKept, PricesOf

LEMMA SameIfAgreed ==
  ASSUME QuotesInv, QuotesInv', IssuedKept, AcceptedStay, NEW q \in Quotes, NEW r \in Revisions,
         Agreed(r), revision[r].of = q, OrdersStand(r)
  PROVE  Same(q)
<1>1. Agreed(r)' /\ revision'[r].of = q /\ PricesOf(r)' = PricesOf(r)
  BY AgreedStays
<1>2. Bargain(q) = PricesOf(r) /\ Honoured(q) = {PricesOrdered(x, r) : x \in OrderForRevision(r)}
  BY BargainIs
<1>3. /\ Bargain(q)' = PricesOf(r)'
      /\ Honoured(q)' = {PricesOrdered(x, r)' : x \in OrderForRevision(r)'}
  BY <1>1, BargainNext
<1> QED
  BY <1>1, <1>2, <1>3 DEF Same, OrdersStand

LEMMA SameIfOpen ==
  ASSUME QuotesInv, QuotesInv', NEW q \in Quotes, ~Accepted(q), ~Accepted(q)'
  PROVE  Same(q)
BY BargainIs, BargainNext DEF Same

(* Orders may be taken, changed and given lines; those made of a revision  *)
(* stay, and so do lines.                                                  *)
SourcesStay ==
  \A o \in OrderIds, r \in Revisions :
    (order'[o] # None /\ order'[o].source = r) <=> (order[o] # None /\ order[o].source = r)

LEMMA OrdersGrow ==
  ASSUME SalesInv, QuotesInv', IssuedKept, AcceptedStay, OrdersOK', SourcesStay, LinesStay
  PROVE  SalesInv' /\ \A r \in Revisions : OrdersStand(r)
<1>1. \A r \in Revisions : OrderForRevision(r)' = OrderForRevision(r)
  BY DEF SourcesStay, OrderForRevision
<1>2. ASSUME NEW o \in OrderIds, NEW r \in Revisions, order[o] # None, order[o].source = r
      PROVE  /\ Agreed(r)' /\ Carries(o, r)' /\ PricesOrdered(o, r)' = PricesOrdered(o, r)
  <2>1. Agreed(r) /\ Carries(o, r)
    BY <1>2 DEF SalesInv, SourcesTell
  <2>2. Agreed(r)' /\ LinesForRevision(r)' = LinesForRevision(r)
        /\ \A l \in LinesForRevision(r) : offered'[l] = offered[l]
    BY <2>1, AgreedStays DEF SalesInv, LinesKept
  <2>3. \A l \in LinesForRevision(r) : line'[l] = line[l]
    <3>1. \A l \in LinesForRevision(r) : l \in OrderLineIds
      BY SalesAssumption DEF LinesForRevision
    <3> QED
      BY <2>1, <3>1 DEF Carries, LinesStay
  <2>4. PricesOrdered(o, r)' = PricesOrdered(o, r)
    BY <2>2, <2>3 DEF PricesOrdered
  <2> QED
    BY <2>1, <2>2, <2>3, <2>4 DEF Carries
<1>3. SourcesTell'
  BY <1>2 DEF SourcesTell, SourcesStay
<1>4. OneOrder'
  BY <1>1 DEF OneOrder, SalesInv
<1>5. \A r \in Revisions : OrdersStand(r)
  BY <1>1, <1>2 DEF OrdersStand, OrderForRevision
<1> QED
  BY <1>3, <1>4, <1>5 DEF SalesInv

LEMMA OrdersStep ==
  ASSUME SalesInv, OrderNext
  PROVE  OrdersOK' /\ SourcesStay /\ LinesStay
<1>1. ASSUME NEW o \in OrderIds, NEW row \in SoldRows, UNCHANGED line,
             order' = [order EXCEPT ![o] = row],
             IF order[o] = None THEN row.source = None ELSE row.source = order[o].source
      PROVE  OrdersOK' /\ SourcesStay /\ LinesStay
  <2>1. OrdersOK' /\ order'[o] = row /\ row # None /\ \A x \in OrderIds \ {o} : order'[x] = order[x]
    BY <1>1, SalesAssumption DEF SalesInv, OrdersOK
  <2> QED
    BY <1>1, <2>1, QuotationAssumption DEF SourcesStay, LinesStay
<1>2. ASSUME NEW o \in OrderIds, NEW promised \in Promises, CreateOrder(o, promised)
      PROVE  OrdersOK' /\ SourcesStay /\ LinesStay
  <2> DEFINE row == [state |-> "open", source |-> None, promised |-> promised]
  <2>1. row \in SoldRows /\ row.source = None /\ order[o] = None /\ UNCHANGED line
        /\ order' = [order EXCEPT ![o] = row]
    BY <1>2 DEF CreateOrder, SoldRows
  <2> HIDE DEF row
  <2> QED
    BY <1>1, <2>1
<1>3. ASSUME NEW o \in OrderIds, NEW promised \in Promises, UpdateOrder(o, promised)
      PROVE  OrdersOK' /\ SourcesStay /\ LinesStay
  <2> DEFINE row == [order[o] EXCEPT !.promised = promised]
  <2>1. order[o] # None /\ order[o] \in SoldRows /\ UNCHANGED line
        /\ order' = [order EXCEPT ![o] = row]
    BY <1>3 DEF UpdateOrder, IsOpen, SalesInv, OrdersOK
  <2>2. row \in SoldRows /\ row.source = order[o].source
    BY <2>1 DEF SoldRows
  <2> HIDE DEF row
  <2> QED
    BY <1>1, <2>1, <2>2
<1>4. ASSUME NEW o \in OrderIds, CancelOrder(o)
      PROVE  OrdersOK' /\ SourcesStay /\ LinesStay
  <2> DEFINE row == [order[o] EXCEPT !.state = "cancelled"]
  <2>1. order[o] # None /\ order[o] \in SoldRows /\ UNCHANGED line
        /\ order' = [order EXCEPT ![o] = row]
    BY <1>4 DEF CancelOrder, IsOpen, SalesInv, OrdersOK
  <2>2. row \in SoldRows /\ row.source = order[o].source
    BY <2>1 DEF SoldRows
  <2> HIDE DEF row
  <2> QED
    BY <1>1, <2>1, <2>2
<1>5. ASSUME NEW o \in OrderIds, NEW l \in OrderLineIds, NEW answer \in Answers,
             AddLine(o, l, answer)
      PROVE  OrdersOK' /\ SourcesStay /\ LinesStay
  <2>1. [of |-> o, price |-> answer] \in OrderLineRows
    BY DEF OrderLineRows
  <2>2. LinesStay /\ OrdersOK'
    BY <1>5, <2>1 DEF AddLine, LinesStay, OrdersOK, SalesInv
  <2> QED
    BY <1>5, <2>2 DEF AddLine, SourcesStay
<1> QED
  BY <1>2, <1>3, <1>4, <1>5 DEF OrderNext

(* A conversion carries the lines of the agreed revision over, once.       *)
LEMMA ConvertingHonours ==
  ASSUME SalesInv, NEW o \in OrderIds, NEW q \in Quotes, NEW promised \in Promises,
         QuoteToOrder(o, q, promised)
  PROVE  /\ SalesInv' /\ IssuedKept
         /\ Accepted(q) /\ Bargain(q) # None /\ Honoured(q) = {}
         /\ Bargain(q)' = Bargain(q) /\ Honoured(q)' = {Bargain(q)}
         /\ \A p \in Quotes \ {q} : Same(p)
<1>1. PICK r \in RevisionNumbered(q, quote[q].accepted) :
        /\ revision[r].issued /\ order[o] = None /\ OrderForRevision(r) = {}
        /\ \A l \in LinesForRevision(r) : line[l] = None
        /\ order' = [order EXCEPT ![o] = [state |-> "open", source |-> r, promised |-> promised]]
        /\ line' = [l \in OrderLineIds |->
             IF l \in LinesForRevision(r)
             THEN [of |-> o, price |-> CopiedPrice(offered[l].offer)] ELSE line[l]]
  BY DEF QuoteToOrder
<1>2. r \in Revisions /\ revision[r].of = q /\ Accepted(q) /\ Agreed(r)
  BY <1>1 DEF QuoteToOrder, RevisionNumbered, RevisionsOf, Agreed, Accepted
<1>3. QuotesInv /\ QuotesInv' /\ IssuedKept /\ AcceptedStay
  <2>1. UNCHANGED quotationVars /\ now' \in 1..MaxTime
    BY DEF QuoteToOrder, SalesInv, QuotesInv, QuotesOK
  <2> QED
    BY <2>1, QuotesStill DEF SalesInv
<1> DEFINE row == [state |-> "open", source |-> r, promised |-> promised]
           carried(l) == [of |-> o, price |-> CopiedPrice(offered[l].offer)]
<1>4. row \in SoldRows /\ row # None /\ row.source = r
  <2>1. row \in SoldRows
    BY <1>2 DEF SoldRows
  <2> QED
    BY <2>1, SalesAssumption
<1>5. \A l \in LinesForRevision(r) :
        /\ carried(l) \in OrderLineRows /\ carried(l) # None
        /\ carried(l).of = o /\ carried(l).price = CopiedPrice(offered[l].offer)
        /\ l \in OrderLineIds
  <2> SUFFICES ASSUME NEW l \in LinesForRevision(r)
               PROVE  /\ carried(l) \in OrderLineRows /\ l \in OrderLineIds
    BY OrderAssumption
  <2>1. offered[l].offer \in Offers /\ l \in Lines
    BY <1>3 DEF QuotesInv, QuotesOK, LinesForRevision, LineRows
  <2>2. CopiedPrice(offered[l].offer) \in Quoted
    BY <2>1, SalesAssumption
  <2> QED
    BY <2>1, <2>2, SalesAssumption DEF OrderLineRows
<1>6. /\ order' = [order EXCEPT ![o] = row]
      /\ line' = [l \in OrderLineIds |-> IF l \in LinesForRevision(r) THEN carried(l) ELSE line[l]]
  BY <1>1
<1> HIDE DEF row, carried
<1>7. OrdersOK' /\ order'[o] = row /\ \A x \in OrderIds \ {o} : order'[x] = order[x]
  BY <1>4, <1>5, <1>6 DEF SalesInv, OrdersOK
<1>8. /\ \A l \in LinesForRevision(r) : line'[l] = carried(l)
      /\ \A s \in Revisions \ {r} : \A l \in LinesForRevision(s) : line'[l] = line[l]
  <2>1. \A s \in Revisions \ {r} : \A l \in LinesForRevision(s) :
          l \in OrderLineIds /\ l \notin LinesForRevision(r)
    BY SalesAssumption DEF LinesForRevision
  <2> QED
    BY <1>5, <1>6, <2>1
<1>9. \A s \in Revisions : LinesForRevision(s)' = LinesForRevision(s)
  BY DEF QuoteToOrder, quotationVars, LinesForRevision
<1>10. offered' = offered /\ quote' = quote /\ revision' = revision
  BY DEF QuoteToOrder, quotationVars
<1>11. OrderForRevision(r)' = {o}
  BY <1>1, <1>4, <1>7 DEF OrderForRevision
<1>12. \A s \in Revisions \ {r} : OrderForRevision(s)' = OrderForRevision(s)
  BY <1>1, <1>4, <1>7 DEF OrderForRevision
<1>13. Carries(o, r)' /\ PricesOrdered(o, r)' = PricesOf(r)
  <2>1. \A l \in LinesForRevision(r) :
          line'[l] # None /\ line'[l].of = o /\ line'[l].price = CopiedPrice(offered[l].offer)
    BY <1>5, <1>8
  <2>2. Carries(o, r)'
    BY <1>2, <1>9, <1>10, <2>1 DEF Carries
  <2>3. {x \in LinesForRevision(r) : line'[x] # None /\ line'[x].of = o} = LinesForRevision(r)
    BY <2>1
  <2>4. PricesOrdered(o, r)' = {<<l, line'[l].price>> : l \in LinesForRevision(r)}
    BY <1>2, <1>9, <2>3 DEF PricesOrdered
  <2> QED
    BY <2>1, <2>2, <2>4 DEF PricesOf
<1>14. \A s \in Revisions \ {r} : OrdersStand(s)
  BY <1>8, <1>9, <1>12 DEF OrdersStand, PricesOrdered
<1>15. SourcesTell'
  <2> SUFFICES ASSUME NEW x \in OrderIds, NEW s \in Revisions, order'[x] # None,
                      order'[x].source = s
               PROVE  Agreed(s)' /\ Carries(x, s)'
    BY DEF SourcesTell
  <2>1. CASE x = o
    <3>1. s = r
      BY <1>4, <1>7, <2>1
    <3> QED
      BY <1>2, <1>3, <1>13, <2>1, <3>1, AgreedStays
  <2>2. CASE x # o
    <3>1. order[x] # None /\ order[x].source = s
      BY <1>7, <2>2
    <3>2. s # r
      BY <1>1, <3>1 DEF OrderForRevision
    <3>3. Agreed(s) /\ Carries(x, s)
      BY <3>1 DEF SalesInv, SourcesTell
    <3>4. Agreed(s)'
      BY <1>3, <3>3, AgreedStays
    <3>5. Carries(x, s)'
      BY <1>8, <1>9, <1>10, <3>2, <3>3 DEF Carries
    <3> QED
      BY <3>4, <3>5
  <2> QED
    BY <2>1, <2>2
<1>16. OneOrder'
  BY <1>11, <1>12 DEF SalesInv, OneOrder
<1>17. Bargain(q) = PricesOf(r) /\ Honoured(q) = {} /\ Bargain(q) # None
  <2>1. Bargain(q) = PricesOf(r) /\ Honoured(q) = {PricesOrdered(x, r) : x \in OrderForRevision(r)}
    BY <1>2, <1>3, BargainIs
  <2> QED
    BY <1>1, <1>2, <1>3, <2>1, PricesAreBargains
<1>18. Bargain(q)' = PricesOf(r) /\ Honoured(q)' = {PricesOf(r)}
  <2>1. Agreed(r)' /\ revision'[r].of = q /\ PricesOf(r)' = PricesOf(r)
    BY <1>2, <1>3, AgreedStays
  <2>2. /\ Bargain(q)' = PricesOf(r)'
        /\ Honoured(q)' = {PricesOrdered(x, r)' : x \in OrderForRevision(r)'}
    BY <1>2, <1>3, <2>1, BargainNext
  <2>3. Honoured(q)' = {PricesOrdered(o, r)'}
    BY <1>11, <2>2
  <2> QED
    BY <1>13, <2>1, <2>2, <2>3
<1>19. ASSUME NEW p \in Quotes \ {q} PROVE Same(p)
  <2>1. CASE Accepted(p)
    <3>1. PICK s \in Revisions : Agreed(s) /\ revision[s].of = p
      BY <1>3, <2>1, AgreedIs
    <3>2. s # r
      BY <1>2, <3>1
    <3> QED
      BY <1>3, <1>14, <3>1, <3>2, SameIfAgreed
  <2>2. CASE ~Accepted(p)
    <3>1. ~Accepted(p)'
      BY <1>10, <2>2 DEF Accepted
    <3> QED
      BY <1>3, <2>2, <3>1, SameIfOpen
  <2> QED
    BY <2>1, <2>2
<1> QED
  BY <1>2, <1>3, <1>7, <1>15, <1>16, <1>17, <1>18, <1>19 DEF SalesInv

(* Everything else leaves what was agreed and what orders made of it; of   *)
(* a quotation that is accepted there was no order yet.                    *)
LEMMA OthersHonour ==
  ASSUME SalesInv, QuotesInv', IssuedKept, AcceptedStay, OrdersOK', SourcesStay, LinesStay
  PROVE  /\ SalesInv'
         /\ \A q \in Quotes :
              \/ Same(q)
              \/ /\ Accepted(q)' /\ ~Accepted(q)
                 /\ Bargain(q) = None /\ Bargain(q)' \in Bargains /\ Honoured(q)' = Honoured(q)
<1>1. SalesInv' /\ \A r \in Revisions : OrdersStand(r)
  BY OrdersGrow
<1>2. ASSUME NEW p \in Quotes, Accepted(p) PROVE Same(p)
  <2>1. PICK r \in Revisions : Agreed(r) /\ revision[r].of = p
    BY <1>2, AgreedIs DEF SalesInv
  <2> QED
    BY <1>1, <2>1, SameIfAgreed DEF SalesInv
<1>3. ASSUME NEW p \in Quotes, ~Accepted(p), ~Accepted(p)' PROVE Same(p)
  BY <1>3, SameIfOpen DEF SalesInv
<1>4. ASSUME NEW q \in Quotes, ~Accepted(q), Accepted(q)'
      PROVE  Bargain(q) = None /\ Bargain(q)' \in Bargains /\ Honoured(q)' = Honoured(q)
  <2>1. Bargain(q) = None /\ Honoured(q) = {}
    BY <1>4, BargainIs DEF SalesInv
  <2>2. PICK r \in Revisions : Agreed(r)' /\ revision'[r].of = q
    <3>1. StackOf(q)' /\ quote'[q] # None /\ quote'[q].state = "accepted"
      BY <1>4 DEF QuotesInv, Accepted
    <3> QED
      BY <1>4, <3>1 DEF StackOf, AcceptedStands, RevisionNumbered, RevisionsOf, Agreed, Accepted
  <2>3. /\ Bargain(q)' \in Bargains
        /\ Honoured(q)' = {PricesOrdered(x, r)' : x \in OrderForRevision(r)'}
    BY <1>4, <2>2, BargainNext
  <2>4. OrderForRevision(r)' = {}
    <3>1. OrderForRevision(r)' = OrderForRevision(r)
      BY <1>1 DEF OrdersStand
    <3>2. ASSUME NEW o \in OrderForRevision(r) PROVE FALSE
      <4>1. Agreed(r)
        BY <3>2 DEF SalesInv, SourcesTell, OrderForRevision
      <4>2. revision'[r] = revision[r]
        BY <4>1, AgreedStays DEF SalesInv
      <4> QED
        BY <1>4, <2>2, <4>1, <4>2 DEF Agreed
    <3> QED
      BY <3>1, <3>2
  <2> QED
    BY <2>1, <2>3, <2>4
<1> QED
  BY <1>1, <1>2, <1>3, <1>4

LEMMA SalesStarts ==
  ASSUME SalesInit
  PROVE  SalesInv /\ B!Init
<1>1. QuotesInv
  <2>1. QuotesOK
    BY ClockAssumption DEF SalesInit, ClockInit, QuotationInit, QuotesOK
  <2>2. RowsHang /\ NumbersOnce /\ TotalsTell
    BY DEF SalesInit, QuotationInit, RowsHang, NumbersOnce, TotalsTell
  <2>3. \A q \in Quotes : StackOf(q)
    BY DEF SalesInit, QuotationInit, StackOf
  <2> QED
    BY <2>1, <2>2, <2>3 DEF QuotesInv
<1>2. SalesInv
  BY <1>1, QuotationAssumption
     DEF SalesInit, OrderInit, SalesInv, OrdersOK, SourcesTell, OneOrder, OrderForRevision
<1>3. \A q \in Quotes : Bargain(q) = None /\ Honoured(q) = {}
  BY DEF SalesInit, QuotationInit, Bargain, Honoured
<1> QED
  BY <1>2, <1>3 DEF B!Init

bargains == <<[q \in Quotes |-> Bargain(q)], [q \in Quotes |-> Honoured(q)]>>

LEMMA AllSame ==
  ASSUME \A q \in Quotes : Same(q)
  PROVE  UNCHANGED bargains
BY DEF Same, bargains

LEMMA OneAgrees ==
  ASSUME NEW q \in Quotes, \A p \in Quotes \ {q} : Same(p),
         Bargain(q) = None, Bargain(q)' \in Bargains, Honoured(q)' = Honoured(q)
  PROVE  B!Agree(q)
<1>1. [p \in Quotes |-> Bargain(p)]' = [p \in Quotes |-> IF p = q THEN Bargain(q)' ELSE Bargain(p)]
  BY DEF Same
<1>2. [p \in Quotes |-> Honoured(p)]' = [p \in Quotes |-> Honoured(p)]
  BY DEF Same
<1> QED
  BY <1>1, <1>2 DEF B!Agree

LEMMA OneIsHonoured ==
  ASSUME NEW q \in Quotes, \A p \in Quotes \ {q} : Same(p),
         Bargain(q) # None, Honoured(q) = {}, Bargain(q)' = Bargain(q),
         Honoured(q)' = {Bargain(q)}
  PROVE  B!Honour(q)
<1>1. [p \in Quotes |-> Honoured(p)]' =
        [p \in Quotes |-> IF p = q THEN {Bargain(q)} ELSE Honoured(p)]
  BY DEF Same
<1>2. [p \in Quotes |-> Bargain(p)]' = [p \in Quotes |-> Bargain(p)]
  BY DEF Same
<1> QED
  BY <1>1, <1>2 DEF B!Honour

LEMMA SalesStep ==
  ASSUME FreshLines, SalesInv, [SalesNext]_salesVars
  PROVE  SalesInv' /\ IssuedKept /\ [B!Next]_bargains
<1>1. CASE UNCHANGED <<quotationVars, orderVars>> /\ now' \in 1..MaxTime
  <2>1. QuotesInv' /\ IssuedKept /\ AcceptedStay
    BY <1>1, QuotesStill DEF SalesInv
  <2>2. OrdersOK' /\ SourcesStay /\ LinesStay
    BY <1>1 DEF SalesInv, OrdersOK, SourcesStay, LinesStay, orderVars
  <2>3. \A p \in Quotes : Accepted(p)' => Accepted(p)
    BY <1>1 DEF quotationVars, Accepted
  <2>4. SalesInv'
    BY <2>1, <2>2, OthersHonour
  <2>5. \A p \in Quotes : Same(p)
    BY <2>1, <2>2, <2>3, OthersHonour
  <2> QED
    BY <2>1, <2>4, <2>5, AllSame
<1>2. CASE QuotationNext /\ UNCHANGED <<orderVars, now>>
  <2>1. QuotesInv' /\ IssuedKept /\ AcceptedStay /\ OneIsAccepted
    BY <1>2, QuotesStep DEF SalesInv
  <2>2. OrdersOK' /\ SourcesStay /\ LinesStay
    BY <1>2 DEF SalesInv, OrdersOK, SourcesStay, LinesStay, orderVars
  <2>3. PICK q \in Quotes : \A p \in Quotes \ {q} : Accepted(p)' => Accepted(p)
    BY <2>1 DEF OneIsAccepted
  <2>4. /\ SalesInv'
        /\ \A p \in Quotes \ {q} : Same(p)
        /\ \/ Same(q)
           \/ Bargain(q) = None /\ Bargain(q)' \in Bargains /\ Honoured(q)' = Honoured(q)
    BY <2>1, <2>2, <2>3, OthersHonour
  <2>5. CASE Same(q)
    BY <2>1, <2>4, <2>5, AllSame
  <2>6. CASE Bargain(q) = None /\ Bargain(q)' \in Bargains /\ Honoured(q)' = Honoured(q)
    BY <2>1, <2>4, <2>6, OneAgrees DEF B!Next
  <2> QED
    BY <2>4, <2>5, <2>6
<1>3. CASE OrderNext /\ UNCHANGED <<quotationVars, now>>
  <2>1. QuotesInv' /\ IssuedKept /\ AcceptedStay
    <3>1. now' \in 1..MaxTime
      BY <1>3 DEF SalesInv, QuotesInv, QuotesOK
    <3> QED
      BY <1>3, <3>1, QuotesStill DEF SalesInv
  <2>2. OrdersOK' /\ SourcesStay /\ LinesStay
    BY <1>3, OrdersStep
  <2>3. \A p \in Quotes : Accepted(p)' => Accepted(p)
    BY <1>3 DEF quotationVars, Accepted
  <2>4. SalesInv'
    BY <2>1, <2>2, OthersHonour
  <2>5. \A p \in Quotes : Same(p)
    BY <2>1, <2>2, <2>3, OthersHonour
  <2> QED
    BY <2>1, <2>4, <2>5, AllSame
<1>4. ASSUME NEW o \in OrderIds, NEW q \in Quotes, NEW promised \in Promises,
             QuoteToOrder(o, q, promised)
      PROVE  SalesInv' /\ IssuedKept /\ [B!Next]_bargains
  <2>1. /\ SalesInv' /\ IssuedKept
        /\ Bargain(q) # None /\ Honoured(q) = {}
        /\ Bargain(q)' = Bargain(q) /\ Honoured(q)' = {Bargain(q)}
        /\ \A p \in Quotes \ {q} : Same(p)
    BY <1>4, ConvertingHonours
  <2> QED
    BY <2>1, OneIsHonoured DEF B!Next
<1> QED
  <2>1. CASE SetClock /\ UNCHANGED <<quotationVars, orderVars>>
    BY <1>1, <2>1 DEF SetClock
  <2>2. CASE UNCHANGED salesVars
    BY <1>1, <2>2 DEF salesVars, SalesInv, QuotesInv, QuotesOK
  <2> QED
    BY <1>2, <1>3, <1>4, <2>1, <2>2 DEF SalesNext

(* A quotation is a stack of revisions without a gap, of which those that  *)
(* were issued never change, in whatever order quotations are revised,     *)
(* issued, accepted and expired and however the clock is set               *)
(* (quotations_service.cpp), as long as no caller names a line of another  *)
(* revision.                                                               *)
THEOREM Quoting == ASSUME FreshLines PROVE SalesSpec => QuotesStand
<1>1. SalesInit => SalesInv
  BY SalesStarts
<1>2. SalesInv /\ [SalesNext]_salesVars => SalesInv' /\ [IssuedKept]_salesVars
  BY SalesStep
<1>3. SalesInv => SalesTypeOK /\ StackStands
  BY QuotesStack DEF SalesInv, QuotesInv, QuotesOK, OrdersOK, SalesTypeOK
<1> QED
  BY <1>1, <1>2, <1>3, PTL DEF SalesSpec, QuotesStand, IssuedIsFrozen

(* What a customer accepted is ordered at most once and as it was agreed:  *)
(* quotations and orders implement HonouredBargain (quote_to_order.cpp).   *)
THEOREM Honouring == ASSUME FreshLines PROVE SalesSpec => BargainHonoured
<1>1. SalesInit => SalesInv /\ B!Init
  BY SalesStarts
<1>2. SalesInv /\ [SalesNext]_salesVars => SalesInv' /\ [B!Next]_bargains
  BY SalesStep
<1> QED
  BY <1>1, <1>2, PTL DEF SalesSpec, BargainHonoured, B!Spec, bargains

-----------------------------------------------------------------------------
(* Tasks and the calendar, for any months, tasks and keys.                 *)

(* The months of the calendar follow each other.                           *)
Months == Len(MonthDays)

LEMMA MonthsFollow ==
  /\ Months \in Nat /\ LastDay \in Nat
  /\ FirstDay(1) = 1 /\ FirstDay(Months + 1) = LastDay + 1
  /\ \A m \in 1..Months : MonthDays[m] \in Nat \ {0} /\ FirstDay(m + 1) = FirstDay(m) + MonthDays[m]
  /\ \A m \in 1..(Months + 1) : FirstDay(m) \in Nat \ {0} /\ FirstDay(m) <= LastDay + 1
<1>1. Months \in Nat /\ \A m \in 1..Months : MonthDays[m] \in Nat \ {0}
  BY CompanionAssumption, LenProperties, ElementOfSeq DEF Months
<1>2. IsFiniteSet(1..Months) /\ \A m \in 1..Months : IsFiniteSet(1..(m - 1))
  BY <1>1, FS_Interval
<1>3. ASSUME NEW m \in 1..(Months + 1) PROVE 1..(m - 1) \in SUBSET (1..Months)
  BY <1>1
<1>4. \A m \in 1..(Months + 1) : /\ SumOver(MonthDays, 1..(m - 1)) \in Nat
                                 /\ SumOver(MonthDays, 1..(m - 1)) <= SumOver(MonthDays, 1..Months)
  <2> TAKE m \in 1..(Months + 1)
  <2>1. IsFiniteSet(1..(m - 1)) /\ \A x \in 1..(m - 1) : MonthDays[x] \in Nat
    BY <1>1, <1>2, <1>3, FS_Subset
  <2> QED
    BY <1>1, <1>2, <1>3, <2>1, SumNat, SumPart
<1>5. SumOver(MonthDays, 1..0) = 0
  <2>1. IsFiniteSet(1..0) /\ 1..0 = {}
    BY FS_EmptySet
  <2> QED
    BY <2>1, SumStep
<1>6. ASSUME NEW m \in 1..Months PROVE FirstDay(m + 1) = FirstDay(m) + MonthDays[m]
  <2>1. m \notin 1..(m - 1) /\ 1..m = (1..(m - 1)) \cup {m} /\ (m + 1) - 1 = m
    BY <1>1
  <2>2. \A x \in (1..(m - 1)) \cup {m} : MonthDays[x] \in Int
    BY <1>1
  <2>3. SumOver(MonthDays, (1..(m - 1)) \cup {m}) = MonthDays[m] + SumOver(MonthDays, 1..(m - 1))
    BY <1>2, <2>1, <2>2, SumAdd
  <2>4. m \in 1..(Months + 1)
    BY <1>1
  <2>5. FirstDay(m + 1) = SumOver(MonthDays, 1..m) + 1
    BY <2>1 DEF FirstDay
  <2>6. FirstDay(m) = SumOver(MonthDays, 1..(m - 1)) + 1 /\ SumOver(MonthDays, 1..(m - 1)) \in Nat
    BY <1>4, <2>4 DEF FirstDay
  <2>7. SumOver(MonthDays, 1..m) = MonthDays[m] + SumOver(MonthDays, 1..(m - 1))
    BY <2>1, <2>3, Zenon
  <2>8. MonthDays[m] \in Int
    BY <1>1
  <2> QED
    BY <2>5, <2>6, <2>7, <2>8
<1>7. Months + 1 \in 1..(Months + 1) /\ (Months + 1) - 1 = Months /\ 1 - 1 = 0
  BY <1>1
<1>8. LastDay \in Nat /\ FirstDay(1) = 1 /\ FirstDay(Months + 1) = LastDay + 1
  BY <1>4, <1>5, <1>7 DEF FirstDay, LastDay, Months
<1>9. \A m \in 1..(Months + 1) : FirstDay(m) \in Nat \ {0} /\ FirstDay(m) <= LastDay + 1
  <2>1. SumOver(MonthDays, 1..Months) + 1 = LastDay + 1
    BY <1>7, <1>8 DEF FirstDay
  <2> TAKE m \in 1..(Months + 1)
  <2>2. /\ SumOver(MonthDays, 1..(m - 1)) \in Nat /\ SumOver(MonthDays, 1..Months) \in Nat
        /\ SumOver(MonthDays, 1..(m - 1)) <= SumOver(MonthDays, 1..Months)
        /\ FirstDay(m) = SumOver(MonthDays, 1..(m - 1)) + 1
    BY <1>4, <1>7 DEF FirstDay
  <2> QED
    BY <1>8, <2>1, <2>2
<1> QED
  BY <1>1, <1>6, <1>8, <1>9

(* Every day of it is in some month: the one before the first that starts  *)
(* later.                                                                  *)
LEMMA DayHasMonth ==
  ASSUME NEW day \in 1..LastDay
  PROVE  /\ MonthOf(day) \in 1..Months
         /\ FirstDay(MonthOf(day)) <= day /\ day < FirstDay(MonthOf(day) + 1)
<1> DEFINE Later == {m \in 1..(Months + 1) : day < FirstDay(m)}
<1>1. Months + 1 \in Later /\ Later \in SUBSET Nat
  BY MonthsFollow
<1>2. PICK n \in Later : \A m \in Later : n <= m
  <2> HIDE DEF Later
  <2> QED
    BY <1>1, LeastMember
<1>3. n # 1 /\ n - 1 \in 1..Months /\ n - 1 \in 1..(Months + 1) /\ n - 1 + 1 = n
  BY <1>2, MonthsFollow
<1>4. ~(day < FirstDay(n - 1)) /\ FirstDay(n - 1) \in Nat /\ day < FirstDay(n)
  BY <1>2, <1>3, MonthsFollow
<1>5. DOMAIN MonthDays = 1..Months
  BY CompanionAssumption, LenProperties DEF Months
<1>6. \E m \in DOMAIN MonthDays : day \in FirstDay(m)..(FirstDay(m) + MonthDays[m] - 1)
  <2>1. MonthDays[n - 1] \in Nat \ {0} /\ FirstDay(n - 1 + 1) = FirstDay(n - 1) + MonthDays[n - 1]
    BY <1>3, MonthsFollow
  <2>2. day \in FirstDay(n - 1)..(FirstDay(n - 1) + MonthDays[n - 1] - 1)
    BY <1>3, <1>4, <2>1
  <2> QED
    BY <1>3, <1>5, <2>2
<1>7. MonthOf(day) \in 1..Months
      /\ day \in FirstDay(MonthOf(day))..(FirstDay(MonthOf(day)) + MonthDays[MonthOf(day)] - 1)
  BY <1>5, <1>6 DEF MonthOf
<1> QED
  BY <1>7, MonthsFollow

LEMMA OfTwo ==
  ASSUME NEW a \in Int, NEW b \in Int
  PROVE  /\ Min({a, b}) = IF a <= b THEN a ELSE b
         /\ Max({a, b}) = IF a <= b THEN b ELSE a
BY DEF Min, Max

(* The next due date is in the calendar, and later.                        *)
LEMMA NextIsLater ==
  ASSUME NEW due \in 0..LastDay, NEW recurrence \in Recurrences
  PROVE  /\ NextDue(due, recurrence) \in 0..LastDay
         /\ NextDue(due, recurrence) > 0 => NextDue(due, recurrence) > due
<1>1. CASE due = 0 \/ recurrence # "month"
  BY <1>1, MonthsFollow DEF NextDue, Recurrences
<1>2. CASE due # 0 /\ recurrence = "month" /\ MonthOf(due) = Months
  BY <1>2, MonthsFollow DEF NextDue, Months
<1>3. CASE due # 0 /\ recurrence = "month" /\ MonthOf(due) # Months
  <2> DEFINE m == MonthOf(due)
             least == Min({due - FirstDay(m), MonthDays[m + 1] - 1})
  <2>1. m \in 1..Months /\ FirstDay(m) <= due /\ due < FirstDay(m + 1)
    BY <1>3, DayHasMonth
  <2> HIDE DEF m
  <2>2. /\ m + 1 \in 1..Months
        /\ m \in 1..(Months + 1) /\ m + 1 \in 1..(Months + 1) /\ m + 1 + 1 \in 1..(Months + 1)
    BY <1>3, <2>1, MonthsFollow DEF m
  <2>3. /\ FirstDay(m) \in Nat /\ FirstDay(m + 1) \in Nat /\ MonthDays[m + 1] \in Nat \ {0}
        /\ FirstDay(m + 1 + 1) = FirstDay(m + 1) + MonthDays[m + 1] /\ FirstDay(m + 1 + 1) <= LastDay + 1
    BY <2>2, MonthsFollow
  <2>4. least \in Nat /\ least <= MonthDays[m + 1] - 1
    BY <2>1, <2>3, OfTwo
  <2> HIDE DEF least
  <2>5. NextDue(due, recurrence) = FirstDay(m + 1) + least
    BY <1>3 DEF NextDue, Months, m, least
  <2> QED
    BY <2>1, <2>3, <2>4, <2>5, MonthsFollow
<1> QED
  BY <1>1, <1>2, <1>3

-----------------------------------------------------------------------------
(* What every request about the tasks keeps.                               *)

EventKinds == {"created", "updated", "completed", "snoozed"}

(* What its events tell of a task on file.                                 *)
Told(t) ==
  /\ Cardinality(EventsOf(t, "created")) = 1
  /\ Cardinality(EventsOf(t, "completed")) <= task[t].completions
  /\ task[t].completions > 0 => EventsOf(t, "completed") # {}
  /\ \E k \in EventsOf(t, "created") \cup EventsOf(t, "updated") \cup EventsOf(t, "completed") :
       event[k].next = task[t].due
  /\ task[t].snoozed > 0 => \E k \in EventsOf(t, "snoozed") : event[k].next = task[t].snoozed
  /\ task[t].open /\ task[t].kind # "recurring" => task[t].completions = 0
  /\ ~task[t].open =>
       /\ EventsOf(t, "completed") # {}
       /\ \A k \in EventsOf(t, "completed") : event[k].happened = task[t].completed

SourcesOnce ==
  \A t, other \in Tasks : task[t] # None /\ task[other] # None
    /\ task[t].source = task[other].source => t = other \/ task[t].source = None

TasksTyped ==
  /\ task \in [Tasks -> TaskRows \cup {None}]
  /\ event \in [Keys -> EventRows \cup {None}]
  /\ IsFiniteSet({k \in Keys : event[k] # None})

CompanionInv ==
  /\ TasksTyped /\ SourcesOnce
  /\ \A t \in Tasks : task[t] # None => Told(t) /\ \E at \in 1..MaxTime : ValidTask(task[t], at)
  /\ \A k \in Keys : event[k] # None => task[event[k].task] # None

(* An event of task t that is new or says the same request again, and no   *)
(* other event touched.                                                    *)
Adds(t, k, kind, next) ==
  /\ event'[k].next = next /\ event'[k].happened = now
  /\ EventsOf(t, kind)' = EventsOf(t, kind) \cup {k}
  /\ Cardinality(EventsOf(t, kind)') <= Cardinality(EventsOf(t, kind)) + 1
  /\ \A x \in EventKinds : x # kind =>
       /\ EventsOf(t, x)' = EventsOf(t, x)
       /\ \A old \in EventsOf(t, x) : event'[old] = event[old]
  /\ \A x \in EventKinds :
       Cardinality(EventsOf(t, x)) \in Nat /\ Cardinality(EventsOf(t, x)') \in Nat

LEMMA RecordAdds ==
  ASSUME TasksTyped, now \in 1..MaxTime, NEW t \in Tasks, NEW k \in Keys,
         NEW row \in TaskRows, NEW kind \in EventKinds,
         NEW previous \in 0..LastDay, NEW next \in 0..LastDay,
         SameRequest(k, t, kind), Record(t, k, row, kind, previous, next)
  PROVE  /\ TasksTyped' /\ row # None /\ ValidTask(row, now)
         /\ \A u \in Tasks : task'[u] = IF u = t THEN row ELSE task[u]
         /\ event'[k] # None /\ event'[k].task = t
         /\ \A x \in Keys : x # k => event'[x] = event[x]
         /\ Adds(t, k, kind, next)
         /\ \A u \in Tasks : u # t => \A x \in EventKinds :
              /\ EventsOf(u, x)' = EventsOf(u, x)
              /\ \A old \in EventsOf(u, x) : event'[old] = event[old]
<1> DEFINE made == [task |-> t, kind |-> kind, happened |-> now, previous |-> previous, next |-> next]
           Used == {x \in Keys : event[x] # None}
<1>1. made \in EventRows /\ made # None /\ row # None
  BY CompanionAssumption DEF EventRows, EventKinds
<1>2. /\ event[k] = None \/ (event[k].task = t /\ event[k].kind = kind)
      /\ ValidTask(row, now)
      /\ task' = [task EXCEPT ![t] = row] /\ event' = [event EXCEPT ![k] = made]
  BY DEF Record, SameRequest
<1>3. made.task = t /\ made.kind = kind /\ made.happened = now /\ made.next = next
  OBVIOUS
<1> HIDE DEF made
<1>4. /\ \A u \in Tasks : task'[u] = IF u = t THEN row ELSE task[u]
      /\ event'[k] = made /\ \A x \in Keys : x # k => event'[x] = event[x]
  BY <1>2 DEF TasksTyped
<1>5. task' \in [Tasks -> TaskRows \cup {None}] /\ event' \in [Keys -> EventRows \cup {None}]
  BY <1>1, <1>2 DEF TasksTyped
<1>6. {x \in Keys : event'[x] # None} = Used \cup {k} /\ IsFiniteSet(Used)
  BY <1>1, <1>2, <1>4 DEF TasksTyped
<1>7. IsFiniteSet({x \in Keys : event'[x] # None})
  <2> HIDE DEF Used
  <2>1. IsFiniteSet(Used \cup {k})
    BY <1>6, FS_AddElement
  <2> QED
    BY <1>6, <2>1
<1>8. \A u \in Tasks : \A x \in EventKinds :
        /\ EventsOf(u, x)' = IF u = t /\ x = kind THEN EventsOf(u, x) \cup {k} ELSE EventsOf(u, x)
        /\ u # t \/ x # kind => \A old \in EventsOf(u, x) : event'[old] = event[old]
  BY <1>1, <1>2, <1>3, <1>4 DEF EventsOf
<1>9. \A x \in EventKinds : /\ IsFiniteSet(EventsOf(t, x))
                            /\ Cardinality(EventsOf(t, x)) \in Nat
  <2> TAKE x \in EventKinds
  <2>1. EventsOf(t, x) \subseteq Used
    BY DEF EventsOf
  <2> HIDE DEF Used
  <2> QED
    BY <1>6, <2>1, FS_Subset, FS_CardinalityType
<1>10. /\ Cardinality(EventsOf(t, kind) \cup {k}) \in Nat
       /\ Cardinality(EventsOf(t, kind) \cup {k}) <= Cardinality(EventsOf(t, kind)) + 1
  <2>1. Cardinality(EventsOf(t, kind) \cup {k})
          = IF k \in EventsOf(t, kind) THEN Cardinality(EventsOf(t, kind))
                                       ELSE Cardinality(EventsOf(t, kind)) + 1
    BY <1>9, FS_AddElement
  <2> QED
    BY <1>9, <2>1
<1>11. Adds(t, k, kind, next)
  BY <1>3, <1>4, <1>8, <1>9, <1>10 DEF Adds
<1> QED
  BY <1>1, <1>2, <1>3, <1>4, <1>5, <1>7, <1>8, <1>11 DEF TasksTyped

(* When the events tell of the task that changed, they tell of all.        *)
LEMMA RecordKeeps ==
  ASSUME CompanionInv, now \in 1..MaxTime, NEW t \in Tasks, NEW k \in Keys,
         NEW row \in TaskRows, NEW kind \in EventKinds,
         NEW previous \in 0..LastDay, NEW next \in 0..LastDay,
         SameRequest(k, t, kind), Record(t, k, row, kind, previous, next),
         task'[t] = row /\ Adds(t, k, kind, next) => Told(t)',
         row.source = None
           \/ \A other \in Tasks : other # t /\ task[other] # None => task[other].source # row.source
  PROVE  CompanionInv'
<1>1. /\ TasksTyped' /\ row # None /\ ValidTask(row, now)
      /\ \A u \in Tasks : task'[u] = IF u = t THEN row ELSE task[u]
      /\ event'[k] # None /\ event'[k].task = t
      /\ \A x \in Keys : x # k => event'[x] = event[x]
      /\ Adds(t, k, kind, next)
      /\ \A u \in Tasks : u # t => \A x \in EventKinds :
           /\ EventsOf(u, x)' = EventsOf(u, x)
           /\ \A old \in EventsOf(u, x) : event'[old] = event[old]
  BY RecordAdds DEF CompanionInv
<1>2. Told(t)'
  BY <1>1
<1>3. ASSUME NEW u \in Tasks, u # t, task[u] # None PROVE Told(u)'
  <2>1. Told(u) /\ task'[u] = task[u]
    BY <1>1, <1>3 DEF CompanionInv
  <2>2. \A x \in EventKinds : /\ EventsOf(u, x)' = EventsOf(u, x)
                              /\ \A old \in EventsOf(u, x) : event'[old] = event[old]
    BY <1>1, <1>3
  <2>3. /\ EventsOf(u, "created")' = EventsOf(u, "created")
        /\ EventsOf(u, "updated")' = EventsOf(u, "updated")
        /\ EventsOf(u, "completed")' = EventsOf(u, "completed")
        /\ EventsOf(u, "snoozed")' = EventsOf(u, "snoozed")
    BY <2>2 DEF EventKinds
  <2>4. \A old \in EventsOf(u, "created") \cup EventsOf(u, "updated")
                  \cup EventsOf(u, "completed") \cup EventsOf(u, "snoozed") : event'[old] = event[old]
    BY <2>2 DEF EventKinds
  <2> QED
    BY <2>1, <2>3, <2>4 DEF Told
<1>4. \A u \in Tasks : task'[u] # None => Told(u)' /\ \E at \in 1..MaxTime : ValidTask(task'[u], at)
  BY <1>1, <1>2, <1>3 DEF CompanionInv
<1>5. \A x \in Keys : event'[x] # None => task'[event'[x].task] # None
  BY <1>1 DEF CompanionInv, TasksTyped, EventRows
<1>6. SourcesOnce'
  BY <1>1 DEF CompanionInv, SourcesOnce
<1> QED
  BY <1>1, <1>4, <1>5, <1>6 DEF CompanionInv

LEMMA CreatingTaskKeeps ==
  ASSUME CompanionInv, now \in 1..MaxTime, NEW t \in Tasks, NEW k \in Keys, NEW kind \in Kinds,
         NEW source \in SourceKeys \cup {None}, NEW due \in 0..LastDay, NEW recurrence \in Recurrences,
         SameRequest(k, t, "created"), CreateTask(t, k, kind, source, due, recurrence)
  PROVE  CompanionInv'
<1> DEFINE row == [kind |-> kind, open |-> TRUE, source |-> source, due |-> due, snoozed |-> 0,
                   recurrence |-> recurrence, completions |-> 0, created |-> now, completed |-> 0]
<1>1. row \in TaskRows
  BY MonthsFollow, ClockAssumption DEF TaskRows
<1>2. /\ row.open /\ row.due = due /\ row.snoozed = 0 /\ row.completions = 0
      /\ row.source = source /\ row.kind = kind
  OBVIOUS
<1>3. Record(t, k, row, "created", 0, due) /\ task[t] = None
      /\ (kind = "attention" => \A other \in Tasks : task[other] # None => task[other].source # source)
  BY DEF CreateTask
<1> HIDE DEF row
<1>4. \A x \in EventKinds : EventsOf(t, x) = {}
  BY <1>3 DEF CompanionInv, EventsOf
<1>5. Cardinality({}) = 0
  BY FS_EmptySet
<1>6. ASSUME task'[t] = row, Adds(t, k, "created", due) PROVE Told(t)'
  <2>0. EventsOf(t, "created") = {} /\ EventsOf(t, "completed") = {} /\ "completed" \in EventKinds
    BY <1>4 DEF EventKinds
  <2>1. EventsOf(t, "created")' = {k} /\ event'[k].next = due
    BY <1>6, <2>0 DEF Adds
  <2>2. Cardinality(EventsOf(t, "created")') = 1
    BY <2>1, FS_Singleton, Zenon
  <2>3. EventsOf(t, "completed")' = {}
    BY <1>6, <2>0 DEF Adds
  <2>4. Cardinality(EventsOf(t, "completed")') = 0
    BY <1>5, <2>3, Zenon
  <2> QED
    BY <1>2, <1>6, <2>1, <2>2, <2>3, <2>4 DEF Told
<1>7. ValidTask(row, now)
  BY <1>3 DEF Record
<1>8. row.source = None
        \/ \A other \in Tasks : other # t /\ task[other] # None => task[other].source # row.source
  BY <1>2, <1>3, <1>7 DEF ValidTask
<1>9. "created" \in EventKinds /\ 0 \in 0..LastDay
  BY MonthsFollow DEF EventKinds
<1> QED
  BY <1>1, <1>3, <1>6, <1>8, <1>9, RecordKeeps

(* What the other requests change of a task on file.                       *)
LEMMA ChangeKeeps ==
  ASSUME CompanionInv, now \in 1..MaxTime, NEW t \in Tasks, NEW k \in Keys,
         NEW row \in TaskRows, NEW kind \in EventKinds,
         NEW previous \in 0..LastDay, NEW next \in 0..LastDay,
         SameRequest(k, t, kind), Record(t, k, row, kind, previous, next),
         task[t] # None, row.source = task[t].source,
         task[t] \in TaskRows /\ Told(t) /\ task'[t] = row /\ Adds(t, k, kind, next) => Told(t)'
  PROVE  CompanionInv'
<1>1. task[t] \in TaskRows /\ Told(t)
  BY DEF CompanionInv, TasksTyped
<1>2. row.source = None
        \/ \A other \in Tasks : other # t /\ task[other] # None => task[other].source # row.source
  BY DEF CompanionInv, SourcesOnce
<1> QED
  BY <1>1, <1>2, RecordKeeps

LEMMA UpdatingTaskKeeps ==
  ASSUME CompanionInv, now \in 1..MaxTime, NEW t \in Tasks, NEW k \in Keys,
         NEW due \in 0..LastDay, NEW recurrence \in Recurrences,
         SameRequest(k, t, "updated"), UpdateTask(t, k, due, recurrence)
  PROVE  CompanionInv'
<1> DEFINE row == [task[t] EXCEPT !.due = due, !.recurrence = recurrence]
<1>1. task[t] \in TaskRows /\ task[t] # None /\ task[t].due \in 0..LastDay
      /\ Record(t, k, row, "updated", task[t].due, due)
  BY DEF UpdateTask, CompanionInv, TasksTyped, TaskRows
<1>2. /\ row \in TaskRows /\ row.due = due /\ row.source = task[t].source /\ row.kind = task[t].kind
      /\ row.open = task[t].open /\ row.snoozed = task[t].snoozed
      /\ row.completions = task[t].completions /\ row.completed = task[t].completed
  BY <1>1 DEF TaskRows
<1> HIDE DEF row
<1>3. ASSUME Told(t), task'[t] = row, Adds(t, k, "updated", due) PROVE Told(t)'
  <2>1. /\ EventsOf(t, "created")' = EventsOf(t, "created")
        /\ EventsOf(t, "completed")' = EventsOf(t, "completed")
        /\ EventsOf(t, "snoozed")' = EventsOf(t, "snoozed")
        /\ k \in EventsOf(t, "updated")' /\ event'[k].next = due
        /\ \A old \in EventsOf(t, "completed") \cup EventsOf(t, "snoozed") : event'[old] = event[old]
    BY <1>3 DEF Adds, EventKinds
  <2> QED
    BY <1>2, <1>3, <2>1 DEF Told
<1>4. "updated" \in EventKinds
  BY DEF EventKinds
<1> QED
  BY <1>1, <1>2, <1>3, <1>4, ChangeKeeps

LEMMA SnoozingTaskKeeps ==
  ASSUME CompanionInv, now \in 1..MaxTime, NEW t \in Tasks, NEW k \in Keys,
         NEW until \in 1..LastDay, SameRequest(k, t, "snoozed"), SnoozeTask(t, k, until)
  PROVE  CompanionInv'
<1> DEFINE row == [task[t] EXCEPT !.snoozed = until]
<1>1. task[t] \in TaskRows /\ task[t] # None /\ task[t].snoozed \in 0..LastDay /\ until \in 0..LastDay
      /\ Record(t, k, row, "snoozed", task[t].snoozed, until)
  BY DEF SnoozeTask, CompanionInv, TasksTyped, TaskRows
<1>2. /\ row \in TaskRows /\ row.due = task[t].due /\ row.source = task[t].source /\ row.kind = task[t].kind
      /\ row.open = task[t].open /\ row.snoozed = until
      /\ row.completions = task[t].completions /\ row.completed = task[t].completed
  BY <1>1 DEF TaskRows
<1> HIDE DEF row
<1>3. ASSUME Told(t), task'[t] = row, Adds(t, k, "snoozed", until) PROVE Told(t)'
  <2>1. /\ EventsOf(t, "created")' = EventsOf(t, "created")
        /\ EventsOf(t, "completed")' = EventsOf(t, "completed")
        /\ EventsOf(t, "updated")' = EventsOf(t, "updated")
        /\ k \in EventsOf(t, "snoozed")' /\ event'[k].next = until
        /\ \A old \in EventsOf(t, "created") \cup EventsOf(t, "completed") \cup EventsOf(t, "updated") :
             event'[old] = event[old]
    BY <1>3 DEF Adds, EventKinds
  <2> QED
    BY <1>2, <1>3, <2>1 DEF Told
<1>4. "snoozed" \in EventKinds
  BY DEF EventKinds
<1> QED
  BY <1>1, <1>2, <1>3, <1>4, ChangeKeeps

LEMMA CompletingTaskKeeps ==
  ASSUME CompanionInv, now \in 1..MaxTime, NEW t \in Tasks, NEW k \in Keys,
         SameRequest(k, t, "completed"), CompleteTask(t, k)
  PROVE  CompanionInv'
<1>0. task[t] \in TaskRows /\ task[t] # None /\ task[t].open /\ task[t].due \in 0..LastDay
      /\ task[t].recurrence \in Recurrences /\ "completed" \in EventKinds
      /\ task[t].completions \in Nat /\ task[t].completions + 1 \in Nat
      /\ 0 \in 0..LastDay /\ now \in 0..MaxTime
  <2>1. 0 \in 0..LastDay /\ now \in 0..MaxTime
    BY MonthsFollow, ClockAssumption
  <2>2. task[t] \in TaskRows /\ task[t] # None /\ task[t].open
    BY DEF CompleteTask, CompanionInv, TasksTyped
  <2> QED
    BY <2>1, <2>2 DEF TaskRows, EventKinds
<1>1. ASSUME Adds(t, k, "completed", 0) \/ \E next \in Nat : Adds(t, k, "completed", next)
      PROVE  /\ EventsOf(t, "created")' = EventsOf(t, "created")
             /\ EventsOf(t, "updated")' = EventsOf(t, "updated")
             /\ EventsOf(t, "completed")' = EventsOf(t, "completed") \cup {k}
             /\ Cardinality(EventsOf(t, "completed")') <= Cardinality(EventsOf(t, "completed")) + 1
             /\ Cardinality(EventsOf(t, "completed")) \in Nat /\ Cardinality(EventsOf(t, "completed")') \in Nat
             /\ event'[k].happened = now
             /\ \A old \in EventsOf(t, "created") \cup EventsOf(t, "updated") : event'[old] = event[old]
  BY <1>1 DEF Adds, EventKinds
<1>2. CASE task[t].kind = "recurring"
  <2> DEFINE next == NextDue(task[t].due, task[t].recurrence)
             row == [task[t] EXCEPT !.snoozed = 0, !.due = next, !.completions = @ + 1]
  <2>1. Record(t, k, row, "completed", task[t].due, next) /\ next \in 0..LastDay /\ next \in Nat
    BY <1>0, <1>2, NextIsLater, MonthsFollow DEF CompleteTask
  <2> HIDE DEF next
  <2>2. /\ row \in TaskRows /\ row.due = next /\ row.source = task[t].source /\ row.kind = "recurring"
        /\ row.open = task[t].open /\ row.snoozed = 0
        /\ row.completions = task[t].completions + 1
    BY <1>0, <1>2, <2>1 DEF TaskRows
  <2> HIDE DEF row
  <2>3. ASSUME Told(t), task'[t] = row, Adds(t, k, "completed", next) PROVE Told(t)'
    <3>1. /\ event'[k].next = next
          /\ EventsOf(t, "created")' = EventsOf(t, "created")
          /\ EventsOf(t, "completed")' = EventsOf(t, "completed") \cup {k}
          /\ Cardinality(EventsOf(t, "completed")') <= Cardinality(EventsOf(t, "completed")) + 1
          /\ Cardinality(EventsOf(t, "completed")) \in Nat /\ Cardinality(EventsOf(t, "completed")') \in Nat
      BY <1>1, <2>1, <2>3 DEF Adds
    <3>2. /\ Cardinality(EventsOf(t, "created")') = 1 /\ k \in EventsOf(t, "completed")'
          /\ Cardinality(EventsOf(t, "completed")') <= task[t].completions + 1
      <4>1. Cardinality(EventsOf(t, "created")) = 1
            /\ Cardinality(EventsOf(t, "completed")) <= task[t].completions
        BY <2>3 DEF Told
      <4>2. Cardinality(EventsOf(t, "created")') = Cardinality(EventsOf(t, "created"))
        BY <3>1, Zenon
      <4> QED
        BY <1>0, <3>1, <4>1, <4>2
    <3>3. task'[t].due = next /\ task'[t].snoozed = 0 /\ task'[t].open /\ task'[t].kind = "recurring"
          /\ task'[t].completions = task[t].completions + 1
      BY <1>0, <2>2, <2>3
    <3> QED
      BY <3>1, <3>2, <3>3 DEF Told
  <2> QED
    BY <1>0, <2>1, <2>2, <2>3, ChangeKeeps
<1>3. CASE task[t].kind # "recurring"
  <2> DEFINE row == [task[t] EXCEPT !.snoozed = 0, !.open = FALSE, !.completed = now, !.completions = @ + 1]
  <2>1. Record(t, k, row, "completed", task[t].due, 0)
    BY <1>0, <1>3 DEF CompleteTask
  <2>2. /\ row \in TaskRows /\ row.due = task[t].due /\ row.source = task[t].source
        /\ row.open = FALSE /\ row.snoozed = 0 /\ row.completed = now
        /\ row.completions = task[t].completions + 1
    BY <1>0 DEF TaskRows
  <2> HIDE DEF row
  <2>3. ASSUME Told(t), task'[t] = row, Adds(t, k, "completed", 0) PROVE Told(t)'
    <3>1. Cardinality(EventsOf(t, "completed")) = 0 /\ task[t].completions = 0
      BY <1>0, <1>1, <1>3, <2>3 DEF Told
    <3>2. EventsOf(t, "completed") = {}
      <4>1. IsFiniteSet(EventsOf(t, "completed"))
        BY FS_Subset DEF CompanionInv, TasksTyped, EventsOf
      <4> QED
        BY <3>1, <4>1, FS_EmptySet
    <3> QED
      BY <1>0, <1>1, <2>2, <2>3, <3>1, <3>2 DEF Told
  <2> QED
    BY <1>0, <2>1, <2>2, <2>3, ChangeKeeps
<1> QED
  BY <1>2, <1>3

LEMMA TasksKeep ==
  ASSUME CompanionInv, now \in 1..MaxTime, CompanionNext
  PROVE  CompanionInv'
BY CreatingTaskKeeps, UpdatingTaskKeeps, CompletingTaskKeeps, SnoozingTaskKeeps DEF CompanionNext

LEMMA TasksStay == ASSUME CompanionInv, UNCHANGED companionVars PROVE CompanionInv'
<1>1. task' = task /\ event' = event
  BY DEF companionVars
<1>2. \A t \in Tasks : \A x : EventsOf(t, x)' = EventsOf(t, x)
  BY <1>1 DEF EventsOf
<1>3. \A t \in Tasks : Told(t)' <=> Told(t)
  BY <1>1, <1>2 DEF Told
<1>4. TasksTyped' /\ SourcesOnce'
  BY <1>1 DEF CompanionInv, TasksTyped, SourcesOnce
<1> QED
  BY <1>1, <1>3, <1>4 DEF CompanionInv, ValidTask

LEMMA TasksStart == CompanionInit => CompanionInv
<1> SUFFICES ASSUME CompanionInit PROVE CompanionInv
  OBVIOUS
<1>1. {k \in Keys : event[k] # None} = {} /\ IsFiniteSet({})
  BY FS_EmptySet DEF CompanionInit
<1> QED
  BY <1>1 DEF CompanionInit, CompanionInv, TasksTyped, SourcesOnce

LEMMA EventsAreHistory == ASSUME CompanionInv PROVE HistoryTells
<1>1. ASSUME NEW t \in Tasks, task[t] # None
      PROVE  /\ \A at \in 1..MaxTime : VisibleAt(t, at) => task[t].due <= at
             /\ task[t].kind = "recurring" =>
                  task[t].open /\ NextDue(task[t].due, task[t].recurrence) > task[t].due
  <2>1. task[t] \in TaskRows /\ \E at \in 1..MaxTime : ValidTask(task[t], at)
    BY <1>1 DEF CompanionInv, TasksTyped
  <2>2. task[t].due \in 0..LastDay /\ task[t].snoozed \in 0..LastDay /\ task[t].recurrence \in Recurrences
    BY <2>1 DEF TaskRows
  <2>3. EffectiveDue(t) \in Int /\ task[t].due <= EffectiveDue(t)
    <3>1. task[t].due \in Int /\ task[t].snoozed \in Int
      BY <2>2, MonthsFollow
    <3>2. Max({task[t].snoozed, task[t].due})
            = IF task[t].snoozed <= task[t].due THEN task[t].due ELSE task[t].snoozed
      BY <3>1, OfTwo
    <3> QED
      BY <3>1, <3>2 DEF EffectiveDue
  <2>4. ASSUME NEW at \in 1..MaxTime, VisibleAt(t, at) PROVE task[t].due <= at
    BY <2>2, <2>3, <2>4, ClockAssumption, MonthsFollow DEF VisibleAt
  <2>5. ASSUME task[t].kind = "recurring"
        PROVE  task[t].open /\ NextDue(task[t].due, task[t].recurrence) > task[t].due
    BY <2>1, <2>2, <2>5, NextIsLater DEF ValidTask, TaskRows
  <2> QED
    BY <2>4, <2>5
<1>2. ASSUME NEW t \in Tasks, task[t] # None PROVE Told(t)
  BY <1>2 DEF CompanionInv
<1>3. SourcesOnce
  BY DEF CompanionInv
<1> QED
  BY <1>1, <1>2, <1>3 DEF HistoryTells, Told, SourcesOnce

-----------------------------------------------------------------------------
(* Prices, for any rates, products and customers.                          *)

(* What every request about the prices keeps.                              *)
PricingInv ==
  /\ rate \in [RateIds -> RateRows \cup {None}]
  /\ standard \in [Products -> Prices \cup {None}]
  /\ override \in [OverrideIds -> OverrideRows \cup {None}]
  /\ \A r \in RateIds : rate[r] # None => rate[r].id = r /\ ValidRate(rate[r])
  /\ IsFiniteSet({r \in RateIds : rate[r] # None})

LEMMA RateSetKeeps ==
  ASSUME PricingInv, now \in 1..MaxTime, NEW r \in RateIds, NEW p \in Products,
         NEW party \in Parties \cup {None}, NEW amount \in Prices,
         NEW from \in 0..MaxTime, NEW until \in 0..MaxTime, SetRate(r, p, party, amount, from, until)
  PROVE  PricingInv'
<1> DEFINE row == [id |-> r, product |-> p, party |-> party, amount |-> amount, from |-> from,
                   until |-> until, created |-> IF rate[r] = None THEN now ELSE rate[r].created]
<1>1. now \in Nat /\ from \in Nat /\ until \in Nat
  BY ClockAssumption
<1>2. row \in RateRows /\ row.id = r
  BY <1>1 DEF PricingInv, RateRows
<1>3. ValidRate(row) /\ rate' = [rate EXCEPT ![r] = row] /\ UNCHANGED <<standard, override>>
  BY DEF SetRate
<1> HIDE DEF row
<1>4. /\ rate' \in [RateIds -> RateRows \cup {None}]
      /\ \A x \in RateIds : rate'[x] = IF x = r THEN row ELSE rate[x]
  BY <1>2, <1>3 DEF PricingInv
<1>5. IsFiniteSet({x \in RateIds : rate'[x] # None})
  <2>1. IsFiniteSet({x \in RateIds : rate[x] # None} \cup {r})
    BY FS_AddElement DEF PricingInv
  <2>2. {x \in RateIds : rate'[x] # None} \subseteq {x \in RateIds : rate[x] # None} \cup {r}
    BY <1>4
  <2> QED
    BY <2>1, <2>2, FS_Subset
<1> QED
  BY <1>2, <1>3, <1>4, <1>5 DEF PricingInv

LEMMA RateRemovedKeeps ==
  ASSUME PricingInv, NEW r \in RateIds, RemoveRate(r) PROVE PricingInv'
<1>1. /\ rate' \in [RateIds -> RateRows \cup {None}]
      /\ \A x \in RateIds : rate'[x] # None => rate'[x] = rate[x]
  BY DEF PricingInv, RemoveRate
<1>2. IsFiniteSet({x \in RateIds : rate'[x] # None})
  <2>1. {x \in RateIds : rate'[x] # None} \subseteq {x \in RateIds : rate[x] # None}
    BY <1>1
  <2> QED
    BY <2>1, FS_Subset DEF PricingInv
<1> QED
  BY <1>1, <1>2 DEF PricingInv, RemoveRate

LEMMA PricesKeep ==
  ASSUME PricingInv, now \in 1..MaxTime, PricingNext PROVE PricingInv'
<1>1. ASSUME NEW o \in OverrideIds, NEW l \in PricedLines, NEW amount \in Prices, OverrideRate(o, l, amount)
      PROVE  PricingInv'
  <2>1. [id |-> o, line |-> l, amount |-> amount, applied |-> now] \in OverrideRows
    BY ClockAssumption DEF OverrideRows
  <2> QED
    BY <1>1, <2>1 DEF OverrideRate, PricingInv
<1>2. ASSUME NEW p \in Products, NEW amount \in Prices, SetDefaultRate(p, amount) PROVE PricingInv'
  BY <1>2 DEF SetDefaultRate, PricingInv
<1> QED
  BY <1>1, <1>2, RateSetKeeps, RateRemovedKeeps DEF PricingNext

LEMMA PricesStay == ASSUME PricingInv, UNCHANGED pricingVars PROVE PricingInv'
BY DEF pricingVars, PricingInv

LEMMA PricesStart == PricingInit => PricingInv
<1> SUFFICES ASSUME PricingInit PROVE PricingInv
  OBVIOUS
<1>1. {r \in RateIds : rate[r] # None} = {} /\ IsFiniteSet({})
  BY FS_EmptySet DEF PricingInit
<1> QED
  BY <1>1 DEF PricingInit, PricingInv

-----------------------------------------------------------------------------
(* The order among the rates that apply.                                   *)

Applies(row, party, at) == Specificity(row, party) # 0 /\ Covers(row, at)

LEMMA RatesOfProduct ==
  ASSUME PricingInv, NEW p
  PROVE  /\ RatesForProduct(p) \subseteq RateRows /\ None \notin RatesForProduct(p)
         /\ IsFiniteSet(RatesForProduct(p))
         /\ \A a, b \in RatesForProduct(p) : a.id = b.id => a = b
         /\ \A a \in RatesForProduct(p) : a.product = p
<1> DEFINE S == {x \in RateIds : rate[x] # None /\ rate[x].product = p}
<1>1. IsFiniteSet(S)
  <2>1. S \subseteq {r \in RateIds : rate[r] # None}
    OBVIOUS
  <2> QED
    BY <2>1, FS_Subset DEF PricingInv
<1>2. \A x \in S : rate[x] \in RateRows /\ rate[x] # None /\ rate[x].id = x /\ rate[x].product = p
  BY DEF PricingInv
<1>3. RatesForProduct(p) = {rate[x] : x \in S}
  BY DEF RatesForProduct
<1> HIDE DEF S
<1>4. IsFiniteSet({rate[x] : x \in S})
  <2> DEFINE T == {rate[x] : x \in S}
             f == [x \in S |-> rate[x]]
  <2>1. f \in Surjection(S, T)
    BY DEF Surjection
  <2> HIDE DEF f, T
  <2>2. IsFiniteSet(T)
    BY <1>1, <2>1, FS_Surjection
  <2> QED
    BY <2>2 DEF T
<1> QED
  BY <1>2, <1>3, <1>4

LEMMA ApplicableIs ==
  ASSUME PricingInv, NEW p, NEW party, NEW at \in 1..MaxTime
  PROVE  Applicable(p, party, at) = {row \in RatesForProduct(p) : Applies(row, party, at)}
<1>1. ASSUME NEW row \in RatesForProduct(p)
      PROVE  row.party \in {None, party} /\ InWindow(row, at) <=> Applies(row, party, at)
  <2>1. row.from \in Nat /\ row.until \in Nat /\ at \in Nat /\ at > 0 /\ at <= MaxTime /\ MaxTime \in Nat
    BY RatesOfProduct, ClockAssumption DEF RateRows
  <2>2. InWindow(row, at) <=> Covers(row, at)
    BY <2>1 DEF InWindow, Covers
  <2> QED
    BY <2>2 DEF Applies, Specificity
<1> QED
  BY <1>1 DEF Applicable

(* Between any two of them one stands above, and beats the other.          *)
LEMMA AboveIsTotal ==
  ASSUME PricingInv, NEW p, NEW party, NEW at,
         NEW a \in RatesForProduct(p), Applies(a, party, at),
         NEW b \in RatesForProduct(p), Applies(b, party, at)
  PROVE  /\ Above(Rank(a), Rank(b)) <=> Beats(a, b, party)
         /\ a # b => (Above(Rank(a), Rank(b)) <=> ~Above(Rank(b), Rank(a)))
         /\ \A c \in RatesForProduct(p) :
              Above(Rank(a), Rank(b)) /\ Above(Rank(b), Rank(c)) => Above(Rank(a), Rank(c))
<1> DEFINE s(row) == IF row.party = None THEN 0 ELSE 1
<1>1. \A row \in RatesForProduct(p) :
        /\ s(row) \in 0..1 /\ row.from \in Nat /\ row.created \in Nat /\ row.id \in Nat
        /\ Rank(row) = <<s(row), row.from, row.created, row.id>>
  BY RatesOfProduct, PricingAssumption DEF RateRows, Rank
<1>2. /\ Specificity(a, party) = s(a) + 1 /\ Specificity(b, party) = s(b) + 1
      /\ a.id = b.id => a = b
  BY RatesOfProduct DEF Applies, Specificity
<1>3. \A x, y \in RatesForProduct(p) : Above(Rank(x), Rank(y)) <=>
        \/ s(x) > s(y)
        \/ s(x) = s(y) /\ x.from > y.from
        \/ s(x) = s(y) /\ x.from = y.from /\ x.created > y.created
        \/ s(x) = s(y) /\ x.from = y.from /\ x.created = y.created /\ x.id > y.id
  <2> TAKE x, y \in RatesForProduct(p)
  <2> DEFINE u == Rank(x)
             v == Rank(y)
  <2>1. /\ u[1] = s(x) /\ u[2] = x.from /\ u[3] = x.created /\ u[4] = x.id
        /\ v[1] = s(y) /\ v[2] = y.from /\ v[3] = y.created /\ v[4] = y.id
    BY <1>1
  <2> HIDE DEF u, v
  <2>2. Above(u, v) <=> \/ u[1] > v[1]
                        \/ u[2] > v[2] /\ u[1] = v[1]
                        \/ u[3] > v[3] /\ u[1] = v[1] /\ u[2] = v[2]
                        \/ u[4] > v[4] /\ u[1] = v[1] /\ u[2] = v[2] /\ u[3] = v[3]
    <3>1. /\ 1..(1 - 1) = {} /\ 1..(2 - 1) = {1} /\ 1..(3 - 1) = {1, 2} /\ 1..(4 - 1) = {1, 2, 3}
          /\ 1..4 = {1, 2, 3, 4}
      OBVIOUS
    <3> QED
      BY <3>1 DEF Above
  <2> QED
    BY <2>1, <2>2 DEF u, v
<1> HIDE DEF s
<1>4. Above(Rank(a), Rank(b)) <=> Beats(a, b, party)
  BY <1>1, <1>2, <1>3 DEF Beats
<1>5. a # b => (Above(Rank(a), Rank(b)) <=> ~Above(Rank(b), Rank(a)))
  BY <1>1, <1>2, <1>3
<1>6. \A c \in RatesForProduct(p) :
        Above(Rank(a), Rank(b)) /\ Above(Rank(b), Rank(c)) => Above(Rank(a), Rank(c))
  BY <1>1, <1>3
<1> QED
  BY <1>4, <1>5, <1>6

(* One pass over the rows, the best so far.                                *)
Better(best, row, party, at) ==
  IF Specificity(row, party) = 0 \/ ~Covers(row, at) THEN best
  ELSE IF best = None THEN row
  ELSE IF Beats(row, best, party) THEN row ELSE best

IsChoosing(best, rows, party, at) ==
  best = [n \in 0..Len(rows) |-> IF n = 0 THEN None ELSE Better(best[n - 1], rows[n], party, at)]

LEMMA ChoiceIsDefined ==
  ASSUME NEW S, NEW rows \in Seq(S), NEW party, NEW at
  PROVE  \E best : IsChoosing(best, rows, party, at) /\ ChooseRate(rows, party, at) = best[Len(rows)]
<1> DEFINE N == Len(rows)
           X == S \cup {None}
           step == [n \in 0..N |-> [x \in X |-> IF n = 0 THEN None ELSE Better(x, rows[n], party, at)]]
<1>0. N \in Nat /\ None \in X /\ \A n \in 1..N : rows[n] \in X
  BY LenProperties, ElementOfSeq
<1> HIDE DEF N, X
<1>1. \A n \in 0..N : \A x \in X :
        step[n][x] = IF n = 0 THEN None ELSE Better(x, rows[n], party, at)
  OBVIOUS
<1> HIDE DEF step
<1>2. ASSUME NEW n \in 0..N, NEW x \in X PROVE step[n][x] \in X
  <2>1. n # 0 => rows[n] \in X
    BY <1>0
  <2> QED
    BY <1>0, <1>1, <2>1 DEF Better
<1>3. PICK f : StepsTo(f, X, None, N, step)
  <2>1. HasSteps(X, None, N, step)
    BY <1>0, <1>2, StepByStep
  <2> QED
    BY <2>1 DEF HasSteps
<1>4. f \in [0..N -> X]
  BY <1>3 DEF StepsTo
<1>5. ASSUME NEW n \in 0..N
      PROVE  f[n] = IF n = 0 THEN None ELSE Better(f[n - 1], rows[n], party, at)
  <2>1. CASE n = 0
    BY <1>0, <1>1, <1>3, <2>1 DEF StepsTo
  <2>2. CASE n # 0
    <3>1. n \in 1..N /\ f[n - 1] \in X
      BY <1>0, <1>4, <2>2
    <3>2. f[n] = step[n][f[n - 1]]
      BY <1>3, <3>1 DEF StepsTo
    <3> QED
      BY <1>1, <2>2, <3>1, <3>2
  <2> QED
    BY <2>1, <2>2
<1>6. IsChoosing(f, rows, party, at)
  <2>1. f = [n \in 0..N |-> IF n = 0 THEN None ELSE Better(f[n - 1], rows[n], party, at)]
    BY <1>4, <1>5
  <2> QED
    BY <2>1 DEF IsChoosing, N
<1> DEFINE c == CHOOSE best : IsChoosing(best, rows, party, at)
<1>7. IsChoosing(c, rows, party, at)
  BY <1>6
<1>8. ChooseRate(rows, party, at) = c[Len(rows)]
  BY DEF ChooseRate, IsChoosing, Better
<1> QED
  BY <1>7, <1>8

(* The rows in any order are all of them.                                  *)
LEMMA RowsInOrder ==
  ASSUME NEW S, IsFiniteSet(S)
  PROVE  /\ SetToSeqs(S) # {}
         /\ \A rows \in SetToSeqs(S) :
              /\ rows \in Seq(S) /\ \A row \in S : \E i \in 1..Len(rows) : rows[i] = row
<1> DEFINE N == Cardinality(S)
<1>1. N \in Nat /\ ExistsBijection(1..N, S) /\ IsFiniteSet(1..N) /\ Cardinality(1..N) = N
  <2>1. N \in Nat /\ ExistsBijection(1..N, S)
    BY FS_CardinalityType
  <2> HIDE DEF N
  <2> QED
    BY <2>1, FS_Interval
<1>2. SetToSeqs(S) = {f \in [1..N -> S] : \A i, j \in 1..N : i # j => f[i] # f[j]}
  BY DEF SetToSeqs
<1> HIDE DEF N
<1>3. \A f \in Injection(1..N, S) : f \in SetToSeqs(S)
  BY <1>2 DEF Injection, IsInjective
<1>4. SetToSeqs(S) # {}
  BY <1>1, <1>3 DEF ExistsBijection, Bijection
<1>5. ASSUME NEW rows \in SetToSeqs(S)
      PROVE  rows \in Seq(S) /\ \A row \in S : \E i \in 1..Len(rows) : rows[i] = row
  <2>1. rows \in [1..N -> S] /\ \A i, j \in 1..N : rows[i] = rows[j] => i = j
    BY <1>2
  <2>2. rows \in Seq(S) /\ Len(rows) = N
    BY <1>1, <2>1, SeqDef, LenProperties
  <2>3. rows \in Injection(1..N, S)
    BY <2>1 DEF Injection, IsInjective
  <2>4. rows \in Surjection(1..N, S)
    BY <1>1, <2>3, FS_Injection DEF N
  <2> QED
    BY <2>2, <2>4 DEF Surjection
<1> QED
  BY <1>4, <1>5

(* Whichever order they come in, the one above all others is chosen.       *)
Best(best, among, party, at) ==
  \/ best = None /\ \A row \in among : ~Applies(row, party, at)
  \/ /\ best \in among /\ Applies(best, party, at)
     /\ \A row \in among : Applies(row, party, at) /\ row # best => Above(Rank(best), Rank(row))

LEMMA ChosenIsBest ==
  ASSUME PricingInv, NEW p, NEW rows \in SetToSeqs(RatesForProduct(p)), NEW party, NEW at
  PROVE  Best(ChooseRate(rows, party, at), RatesForProduct(p), party, at)
<1> DEFINE R == RatesForProduct(p)
           N == Len(rows)
           Upto(n) == {rows[i] : i \in 1..n}
<1>1. /\ IsFiniteSet(R) /\ None \notin R
      /\ rows \in Seq(R) /\ \A row \in R : \E i \in 1..N : rows[i] = row
  <2>1. IsFiniteSet(R) /\ None \notin R /\ rows \in SetToSeqs(R)
    BY RatesOfProduct
  <2> HIDE DEF R
  <2> QED
    BY <2>1, RowsInOrder
<1>2. N \in Nat /\ \A i \in 1..N : rows[i] \in R
  BY <1>1, LenProperties, ElementOfSeq
<1>3. PICK best : IsChoosing(best, rows, party, at) /\ ChooseRate(rows, party, at) = best[N]
  BY <1>1, ChoiceIsDefined
<1>4. \A n \in 0..N : best[n] = IF n = 0 THEN None ELSE Better(best[n - 1], rows[n], party, at)
  BY <1>3 DEF IsChoosing
<1>5. Upto(N) = R
  BY <1>1, <1>2
<1> HIDE DEF N
<1> DEFINE G == {n \in Nat : Best(best[n], Upto(n), party, at)}
<1>6. ASSUME NEW n \in 0..N, n > 0 => n - 1 \in G PROVE n \in G
  <2>1. CASE n = 0
    BY <1>2, <1>4, <2>1 DEF Best
  <2>2. CASE n # 0
    <3> DEFINE before == best[n - 1]
               row == rows[n]
               T == Upto(n - 1)
    <3>1. Best(before, T, party, at) /\ n \in 1..N /\ n \in Nat
      BY <1>2, <1>6, <2>2
    <3>2. best[n] = Better(before, row, party, at)
      BY <1>4, <2>2
    <3>3. row \in R /\ T \subseteq R /\ Upto(n) = T \cup {row}
      BY <1>2, <3>1
    <3> HIDE DEF before, row, T, Upto, R
    <3>4. CASE ~Applies(row, party, at)
      BY <3>1, <3>2, <3>3, <3>4 DEF Best, Better, Applies
    <3>5. CASE Applies(row, party, at) /\ before = None
      <4>1. best[n] = row /\ \A other \in T : ~Applies(other, party, at)
        BY <1>1, <3>1, <3>2, <3>3, <3>5 DEF Best, Better, Applies
      <4> QED
        BY <3>1, <3>3, <3>5, <4>1 DEF Best
    <3>6. CASE Applies(row, party, at) /\ before # None
      <4>1. /\ before \in T /\ before \in R /\ Applies(before, party, at)
            /\ \A other \in T : Applies(other, party, at) /\ other # before =>
                 Above(Rank(before), Rank(other))
        BY <3>1, <3>3, <3>6 DEF Best
      <4>2. best[n] = IF Beats(row, before, party) THEN row ELSE before
        BY <3>2, <3>6 DEF Better, Applies
      <4>3. Beats(row, before, party) <=> Above(Rank(row), Rank(before))
        BY <3>3, <3>6, <4>1, AboveIsTotal DEF R
      <4>4. row # before /\ ~Beats(row, before, party) => Above(Rank(before), Rank(row))
        BY <3>3, <3>6, <4>1, <4>3, AboveIsTotal DEF R
      <4>5. \A other \in T : Above(Rank(row), Rank(before)) /\ Above(Rank(before), Rank(other))
                               => Above(Rank(row), Rank(other))
        BY <3>3, <3>6, <4>1, AboveIsTotal DEF R
      <4>6. CASE Beats(row, before, party)
        BY <3>1, <3>3, <3>6, <4>1, <4>2, <4>3, <4>5, <4>6 DEF Best
      <4>7. CASE ~Beats(row, before, party)
        BY <3>1, <3>3, <3>6, <4>1, <4>2, <4>4, <4>7 DEF Best
      <4> QED
        BY <4>6, <4>7
    <3> QED
      BY <3>4, <3>5, <3>6
  <2> QED
    BY <2>1, <2>2
<1> HIDE DEF G
<1>7. N \in 0..N /\ \A n \in 0..N : n \in G
  BY <1>2, <1>6, NumberInduction
<1> QED
  BY <1>3, <1>5, <1>7 DEF G

LEMMA PricesAreResolved == ASSUME PricingInv, now \in 1..MaxTime PROVE PricesResolve
<1> SUFFICES ASSUME NEW p \in Products, NEW party \in Parties, NEW at \in 1..MaxTime, NEW l \in PricedLines
             PROVE  LET best == {row \in Applicable(p, party, at) :
                   \A other \in Applicable(p, party, at) \ {row} : Above(Rank(row), Rank(other))}
    IN  /\ \A rows \in SetToSeqs(RatesForProduct(p)) :
             LET price == EffectivePrice(l, rows, p, party, at)
                 resolved == ResolveRate(rows, p, party, at)
             IN  /\ price.overridden <=> \E o \in OverrideIds : override[o] # None /\ override[o].line = l
                 /\ ~price.overridden => price.amount = resolved.amount
                 /\ price.found <=> price.overridden \/ best # {} \/ standard[p] # None
                 /\ best # {} => \E row \in best : resolved.id = row.id
                 /\ best = {} => resolved.id = None
        /\ Applicable(p, party, at) # {} => Cardinality(best) = 1
        /\ \A a, b \in RatesForProduct(p) : a.until # 0 /\ a.until = b.from =>
             ~(Covers(a, at) /\ Covers(b, at))
  BY DEF PricesResolve
<1> DEFINE A == Applicable(p, party, at)
           best == {row \in A : \A other \in A \ {row} : Above(Rank(row), Rank(other))}
           R == RatesForProduct(p)
<1>1. A = {row \in R : Applies(row, party, at)} /\ None \notin R /\ IsFiniteSet(R)
  BY ApplicableIs, RatesOfProduct
<1>2. \A x, y \in best : x = y
  BY <1>1, AboveIsTotal
<1>3. ASSUME NEW c, Best(c, R, party, at)
      PROVE  /\ c = None <=> best = {}
             /\ c # None => best = {c}
             /\ A # {} => c # None
  BY <1>1, <1>2, <1>3 DEF Best
<1> HIDE DEF A, best
<1>4. ASSUME NEW rows \in SetToSeqs(R)
      PROVE  LET price == EffectivePrice(l, rows, p, party, at)
                 resolved == ResolveRate(rows, p, party, at)
             IN  /\ price.overridden <=> \E o \in OverrideIds : override[o] # None /\ override[o].line = l
                 /\ ~price.overridden => price.amount = resolved.amount
                 /\ price.found <=> price.overridden \/ best # {} \/ standard[p] # None
                 /\ best # {} => \E row \in best : resolved.id = row.id
                 /\ best = {} => resolved.id = None
  <2> DEFINE c == ChooseRate(rows, party, at)
             resolved == ResolveRate(rows, p, party, at)
             price == EffectivePrice(l, rows, p, party, at)
  <2>1. Best(c, R, party, at)
    BY ChosenIsBest
  <2>2. /\ c # None => resolved.id = c.id /\ resolved.source # "none"
        /\ c = None => resolved.id = None
        /\ c = None => (resolved.source # "none" <=> standard[p] # None)
    BY DEF ResolveRate
  <2>3. /\ price.overridden <=> OverridesForLine(l) # {}
        /\ ~price.overridden => price.amount = resolved.amount
        /\ price.found <=> price.overridden \/ resolved.source # "none"
    BY DEF EffectivePrice
  <2>4. OverridesForLine(l) # {} <=> \E o \in OverrideIds : override[o] # None /\ override[o].line = l
    BY DEF OverridesForLine
  <2> HIDE DEF c, resolved, price
  <2>5. /\ price.overridden <=> \E o \in OverrideIds : override[o] # None /\ override[o].line = l
        /\ ~price.overridden => price.amount = resolved.amount
        /\ price.found <=> price.overridden \/ best # {} \/ standard[p] # None
        /\ best # {} => \E row \in best : resolved.id = row.id
        /\ best = {} => resolved.id = None
    <3>1. (c = None <=> best = {}) /\ (c # None => c \in best)
      BY <1>3, <2>1
    <3>2. resolved.source # "none" <=> best # {} \/ standard[p] # None
      BY <2>2, <3>1
    <3>3. best # {} => \E row \in best : resolved.id = row.id
      BY <2>2, <3>1
    <3>4. best = {} => resolved.id = None
      BY <2>2, <3>1
    <3> QED
      BY <2>3, <2>4, <3>2, <3>3, <3>4, Zenon
  <2> QED
    BY <2>5 DEF resolved, price
<1>5. A # {} => Cardinality(best) = 1
  <2> SUFFICES ASSUME A # {} PROVE Cardinality(best) = 1
    OBVIOUS
  <2>1. PICK rows : rows \in SetToSeqs(R)
    BY <1>1, RowsInOrder
  <2>2. PICK c : best = {c}
    BY <1>3, <2>1, ChosenIsBest
  <2>3. Cardinality({c}) = 1
    BY FS_Singleton
  <2> QED
    BY <2>2, <2>3
<1>6. ASSUME NEW a \in R, NEW b \in R, a.until # 0, a.until = b.from PROVE ~(Covers(a, at) /\ Covers(b, at))
  <2>1. a.until \in Nat /\ b.from \in Nat /\ at \in Int
    BY RatesOfProduct, ClockAssumption DEF RateRows
  <2> QED
    BY <1>6, <2>1 DEF Covers
<1> QED
  BY <1>4, <1>5, <1>6 DEF A, best

-----------------------------------------------------------------------------
(* What every request about purchases keeps.                               *)

SupplierRows == [created : 1..MaxTime, updated : 1..MaxTime]

SourcingInv ==
  /\ supplier \in [Suppliers -> SupplierRows \cup {None}]
  /\ material \in [Materials -> Names \cup {None}]
  /\ purchase \in [Purchases -> PurchaseRows \cup {None}]
  /\ MemoryStands

LEMMA SuppliersKeep ==
  ASSUME SourcingInv, now \in 1..MaxTime, NEW s \in Suppliers, CreateSupplier(s) \/ UpdateSupplier(s)
  PROVE  SourcingInv'
<1>1. UNCHANGED <<material, purchase>>
  BY DEF CreateSupplier, UpdateSupplier
<1>2. PICK row \in SupplierRows : supplier' = [supplier EXCEPT ![s] = row] /\ ValidSupplier(row)
  <2>1. CASE CreateSupplier(s)
    <3> DEFINE row == [created |-> now, updated |-> now]
    <3>1. row \in SupplierRows /\ ValidSupplier(row)
      BY ClockAssumption DEF SupplierRows, ValidSupplier
    <3>2. supplier' = [supplier EXCEPT ![s] = row]
      BY <2>1 DEF CreateSupplier
    <3> HIDE DEF row
    <3> QED
      BY <3>1, <3>2
  <2>2. CASE UpdateSupplier(s)
    <3>1. supplier[s] \in SupplierRows /\ [supplier[s] EXCEPT !.updated = now] \in SupplierRows
      BY <2>2 DEF UpdateSupplier, SourcingInv, SupplierRows
    <3> QED
      BY <2>2, <3>1 DEF UpdateSupplier
  <2> QED
    BY <2>1, <2>2
<1>3. /\ supplier' \in [Suppliers -> SupplierRows \cup {None}] /\ row # None
      /\ \A x \in Suppliers : supplier'[x] = IF x = s THEN row ELSE supplier[x]
  BY <1>2, SourcingAssumption DEF SourcingInv, SupplierRows
<1>4. \A p \in Purchases : purchase[p] # None => purchase[p].supplier \in Suppliers
  BY DEF SourcingInv, PurchaseRows
<1>5. MemoryStands'
  BY <1>1, <1>2, <1>3, <1>4 DEF SourcingInv, MemoryStands
<1> QED
  BY <1>1, <1>3, <1>5 DEF SourcingInv

LEMMA SettlingKeeps ==
  ASSUME SourcingInv, now \in 1..MaxTime, NEW p \in Purchases, Settle(p)
  PROVE  SourcingInv'
<1> DEFINE row == [purchase[p] EXCEPT !.state = "paid", !.settled = now]
<1>1. /\ purchase[p] \in PurchaseRows /\ ValidPurchase(purchase[p])
      /\ purchase[p] # None /\ now >= purchase[p].purchased /\ now \in 0..MaxTime /\ now > 0
  BY ClockAssumption DEF Settle, SourcingInv, MemoryStands
<1>2. /\ row \in PurchaseRows /\ row.supplier = purchase[p].supplier /\ row.material = purchase[p].material
      /\ row.purchased = purchase[p].purchased /\ row.created = purchase[p].created
      /\ row.state = "paid" /\ row.settled = now
  BY <1>1 DEF PurchaseRows
<1>3. UNCHANGED <<supplier, material>> /\ purchase' = [purchase EXCEPT ![p] = row]
  BY <1>1 DEF Settle, SourcingInv, PurchaseRows
<1> HIDE DEF row
<1>4. ValidPurchase(row)
  BY <1>1, <1>2 DEF ValidPurchase
<1>5. /\ purchase' \in [Purchases -> PurchaseRows \cup {None}]
      /\ \A x \in Purchases : purchase'[x] = IF x = p THEN row ELSE purchase[x]
  BY <1>2, <1>3 DEF SourcingInv
<1>6. MemoryStands'
  BY <1>1, <1>2, <1>3, <1>4, <1>5 DEF SourcingInv, MemoryStands
<1> QED
  BY <1>3, <1>5, <1>6 DEF SourcingInv

LEMMA RecordingKeeps ==
  ASSUME SourcingInv, now \in 1..MaxTime, NEW p \in Purchases, NEW s \in Suppliers, NEW m \in Materials,
         NEW name \in Names, NEW purchased \in 1..MaxTime, NEW settled \in 0..MaxTime,
         RecordPurchase(p, s, m, name, purchased, settled)
  PROVE  SourcingInv'
<1> DEFINE row == [supplier |-> s, material |-> m, purchased |-> purchased,
                   state |-> IF settled > 0 THEN "paid" ELSE "owed", settled |-> settled,
                   created |-> now]
<1>1. row \in PurchaseRows /\ row.supplier = s /\ row.material = m
  BY DEF PurchaseRows
<1>2. /\ ValidPurchase(row) /\ supplier[s] # None
      /\ IF material[m] # None THEN material[m] = name ELSE MaterialsNamed(name) = {}
      /\ material' = [material EXCEPT ![m] = name] /\ purchase' = [purchase EXCEPT ![p] = row]
      /\ UNCHANGED supplier
  BY DEF RecordPurchase
<1> HIDE DEF row
<1>3. /\ material' \in [Materials -> Names \cup {None}]
      /\ purchase' \in [Purchases -> PurchaseRows \cup {None}]
      /\ \A x \in Materials : material'[x] = IF x = m THEN name ELSE material[x]
      /\ \A x \in Purchases : purchase'[x] = IF x = p THEN row ELSE purchase[x]
  BY <1>1, <1>2 DEF SourcingInv
<1>4. name # None /\ \A x \in Materials : x # m => material[x] # name
  BY <1>2, SourcingAssumption DEF MaterialsNamed, SourcingInv, MemoryStands
<1>5. \A x \in Purchases : purchase[x] # None =>
        purchase[x] \in PurchaseRows /\ purchase[x].material \in Materials
  BY DEF SourcingInv, PurchaseRows
<1>6. \A x, y \in Materials : material'[x] # None /\ material'[x] = material'[y] => x = y
  BY <1>3, <1>4 DEF SourcingInv, MemoryStands
<1>7. \A x \in Purchases : purchase'[x] # None =>
        /\ ValidPurchase(purchase'[x])
        /\ supplier[purchase'[x].supplier] # None
        /\ material'[purchase'[x].material] # None
  BY <1>1, <1>2, <1>3, <1>4, <1>5 DEF SourcingInv, MemoryStands
<1>8. MemoryStands'
  BY <1>2, <1>6, <1>7 DEF SourcingInv, MemoryStands, ValidPurchase, ValidSupplier
<1> QED
  BY <1>2, <1>3, <1>8 DEF SourcingInv

LEMMA PurchasesKeep ==
  ASSUME SourcingInv, now \in 1..MaxTime, SourcingNext PROVE SourcingInv'
BY SuppliersKeep, SettlingKeeps, RecordingKeeps DEF SourcingNext

LEMMA PurchasesStay == ASSUME SourcingInv, UNCHANGED sourcingVars PROVE SourcingInv'
BY DEF sourcingVars, SourcingInv, MemoryStands, ValidPurchase, ValidSupplier

LEMMA PurchasesStart == SourcingInit => SourcingInv
BY DEF SourcingInit, SourcingInv, MemoryStands

-----------------------------------------------------------------------------
(* The rows of orders and jobs, whatever updates do with a job's order.    *)

WorkTyped ==
  /\ order \in [OrderIds -> OrderRows \cup {None}]
  /\ line \in [OrderLineIds -> OrderLineRows \cup {None}]
  /\ job \in [JobIds -> JobRows \cup {None}]

LEMMA OrdersAreTyped == ASSUME WorkTyped, OrderNext PROVE UNCHANGED job => WorkTyped'
<1>1. ASSUME NEW o \in OrderIds, NEW promised \in Promises, CreateOrder(o, promised)
      PROVE  UNCHANGED job => WorkTyped'
  <2>1. [state |-> "open", source |-> None, promised |-> promised] \in OrderRows
    BY DEF OrderRows
  <2> QED
    BY <1>1, <2>1 DEF CreateOrder, WorkTyped
<1>2. ASSUME NEW o \in OrderIds, NEW promised \in Promises, UpdateOrder(o, promised)
      PROVE  UNCHANGED job => WorkTyped'
  BY <1>2 DEF UpdateOrder, IsOpen, WorkTyped, OrderRows
<1>3. ASSUME NEW o \in OrderIds, NEW l \in OrderLineIds, NEW answer \in Answers, AddLine(o, l, answer)
      PROVE  UNCHANGED job => WorkTyped'
  <2>1. [of |-> o, price |-> answer] \in OrderLineRows
    BY DEF OrderLineRows
  <2> QED
    BY <1>3, <2>1 DEF AddLine, WorkTyped
<1>4. ASSUME NEW o \in OrderIds, CancelOrder(o) PROVE UNCHANGED job => WorkTyped'
  BY <1>4 DEF CancelOrder, IsOpen, WorkTyped, OrderRows
<1> QED
  BY <1>1, <1>2, <1>3, <1>4 DEF OrderNext

LEMMA JobsAreTyped == ASSUME WorkTyped, now \in 1..MaxTime, JobNext PROVE UNCHANGED orderVars => WorkTyped'
<1>1. ASSUME NEW j \in JobIds, NEW row \in JobRows, Save(j, row) PROVE UNCHANGED orderVars => WorkTyped'
  BY <1>1 DEF Save, orderVars, WorkTyped
<1>2. \A stage \in Stages : stage[1] \in Production /\ stage[2] \in Fulfilment
  BY JobAssumption
<1>3. \A j \in JobIds : job[j] # None => job[j] \in JobRows
  BY DEF WorkTyped
<1>4. ASSUME NEW j \in JobIds, NEW o \in SourceOrders \cup {None}, NEW stage \in Stages,
             CreateJob(j, o, stage)
      PROVE  UNCHANGED orderVars => WorkTyped'
  <2>1. NewJob(o, None, stage) \in JobRows
    BY <1>2 DEF NewJob, JobRows
  <2> QED
    BY <1>1, <1>4, <2>1 DEF CreateJob
<1>5. ASSUME NEW j \in JobIds, NEW o \in SourceOrders \cup {None}, NEW stage \in Stages,
             UpdateJob(j, o, stage)
      PROVE  UNCHANGED orderVars => WorkTyped'
  <2>1. [job[j] EXCEPT !.order = o, !.production = stage[1], !.fulfilment = stage[2]] \in JobRows
    BY <1>2, <1>3, <1>5 DEF UpdateJob, CanChange, JobRows
  <2> QED
    BY <1>1, <1>5, <2>1 DEF UpdateJob
<1>6. ASSUME NEW j \in JobIds, NEW ticket \in Tickets, NEW stage \in Stages, StartJob(j, ticket, stage)
      PROVE  UNCHANGED orderVars => WorkTyped'
  <2> DEFINE row == [job[j] EXCEPT !.state = "in_progress", !.ticket = ticket, !.started = now,
                       !.production = IF stage[1] = "queued" THEN "running" ELSE stage[1],
                       !.fulfilment = stage[2]]
  <2>1. job[j] \in JobRows /\ Save(j, row)
    BY <1>3, <1>6 DEF StartJob
  <2>2. now \in Nat
    BY ClockAssumption
  <2>3. row \in JobRows
    BY <1>2, <2>1, <2>2 DEF JobRows, Production
  <2> HIDE DEF row
  <2> QED
    BY <1>1, <2>1, <2>3
<1>7. ASSUME NEW j \in JobIds, NEW ticket \in Tickets, CancelJob(j, ticket)
      PROVE  UNCHANGED orderVars => WorkTyped'
  <2> DEFINE row == [job[j] EXCEPT !.state = "cancelled",
                       !.ticket = IF @ = None THEN ticket ELSE @]
  <2>1. job[j] \in JobRows /\ Save(j, row)
    BY <1>3, <1>7 DEF CancelJob, CanChange
  <2>2. row \in JobRows
    BY <2>1 DEF JobRows
  <2> HIDE DEF row
  <2> QED
    BY <1>1, <2>1, <2>2
<1>8. ASSUME NEW j \in JobIds, FinishJob(j) PROVE UNCHANGED orderVars => WorkTyped'
  <2> DEFINE row == [job[j] EXCEPT !.state = "done", !.production = "produced",
                                   !.fulfilment = "delivered", !.delivered = TRUE]
  <2>1. job[j] \in JobRows /\ Save(j, row)
    BY <1>3, <1>8 DEF FinishJob
  <2>2. row \in JobRows
    BY <2>1 DEF JobRows, Production, Fulfilment
  <2> HIDE DEF row
  <2> QED
    BY <1>1, <2>1, <2>2
<1> QED
  BY <1>4, <1>5, <1>6, <1>7, <1>8 DEF JobNext

LEMMA DerivedAreTyped ==
  ASSUME WorkTyped, NEW c \in Conversions, NEW o \in OrderIds, NEW chosen \in SUBSET OrderLineIds,
         OrderToJobs(c, o, chosen)
  PROVE  WorkTyped'
<1>1. \A l \in chosen : NewJob(o, l, <<"queued", "waiting">>) \in JobRows
  BY WorkAssumption DEF NewJob, JobRows, Production, Fulfilment
<1>2. job' \in [JobIds -> JobRows \cup {None}]
  <2> SUFFICES ASSUME NEW j \in JobIds PROVE job'[j] \in JobRows \cup {None}
    BY DEF OrderToJobs
  <2>1. CASE \E l \in chosen : j = DerivedJob(c, l)
    <3> DEFINE l == CHOOSE m \in chosen : j = DerivedJob(c, m)
    <3>1. l \in chosen
      BY <2>1
    <3>2. job'[j] = NewJob(o, l, <<"queued", "waiting">>)
      BY <2>1 DEF OrderToJobs
    <3> QED
      BY <1>1, <3>1, <3>2
  <2>2. CASE ~\E l \in chosen : j = DerivedJob(c, l)
    BY <2>2 DEF OrderToJobs, WorkTyped
  <2> QED
    BY <2>1, <2>2
<1> QED
  BY <1>2 DEF OrderToJobs, orderVars, WorkTyped

LEMMA WorkIsTyped ==
  ASSUME WorkTyped, now \in 1..MaxTime, WorkNext PROVE WorkTyped' /\ now' \in 1..MaxTime
<1>1. CASE SetClock /\ UNCHANGED <<orderVars, jobVars>>
  BY <1>1 DEF SetClock, orderVars, jobVars, WorkTyped
<1>2. CASE OrderNext /\ UNCHANGED <<jobVars, now>>
  BY <1>2, OrdersAreTyped DEF jobVars
<1>3. CASE JobNext /\ UNCHANGED <<orderVars, now>>
  BY <1>3, JobsAreTyped
<1>4. ASSUME NEW c \in Conversions, NEW o \in OrderIds, NEW chosen \in SUBSET OrderLineIds,
             OrderToJobs(c, o, chosen)
      PROVE  WorkTyped' /\ now' \in 1..MaxTime
  BY <1>4, DerivedAreTyped DEF OrderToJobs
<1> QED
  BY <1>1, <1>2, <1>3, <1>4 DEF WorkNext

-----------------------------------------------------------------------------
(* The modules of the shop floor together.                                 *)

FloorInv == now \in 1..MaxTime /\ WorkTyped /\ PricingInv /\ SourcingInv /\ CompanionInv

LEMMA FloorStarts == BackofficeInit => FloorInv
<1> SUFFICES ASSUME BackofficeInit PROVE FloorInv
  OBVIOUS
<1>1. now \in 1..MaxTime
  BY ClockAssumption DEF BackofficeInit, WorkInit, ClockInit
<1>2. WorkTyped
  BY DEF BackofficeInit, WorkInit, OrderInit, JobInit, WorkTyped
<1> QED
  BY <1>1, <1>2, PricesStart, PurchasesStart, TasksStart DEF BackofficeInit, FloorInv

LEMMA FloorKeeps == FloorInv /\ [BackofficeNext]_backofficeVars => FloorInv'
<1> SUFFICES ASSUME FloorInv, [BackofficeNext]_backofficeVars PROVE FloorInv'
  OBVIOUS
<1>0. now \in 1..MaxTime /\ WorkTyped /\ PricingInv /\ SourcingInv /\ CompanionInv
  BY DEF FloorInv
<1>1. UNCHANGED <<orderVars, jobVars>> => WorkTyped'
  BY <1>0 DEF orderVars, jobVars, WorkTyped
<1>2. CASE Only("work") /\ WorkNext
  <2>1. UNCHANGED pricingVars /\ UNCHANGED sourcingVars /\ UNCHANGED companionVars
    BY <1>2 DEF Only
  <2> QED
    BY <1>0, <1>2, <2>1, WorkIsTyped, PricesStay, PurchasesStay, TasksStay DEF FloorInv
<1>3. CASE Only("pricing") /\ PricingNext /\ UNCHANGED now
  <2>1. UNCHANGED <<orderVars, jobVars>> /\ UNCHANGED sourcingVars /\ UNCHANGED companionVars
    BY <1>3 DEF Only
  <2> QED
    BY <1>0, <1>1, <1>3, <2>1, PricesKeep, PurchasesStay, TasksStay DEF FloorInv
<1>4. CASE Only("sourcing") /\ SourcingNext /\ UNCHANGED now
  <2>1. UNCHANGED <<orderVars, jobVars>> /\ UNCHANGED pricingVars /\ UNCHANGED companionVars
    BY <1>4 DEF Only
  <2> QED
    BY <1>0, <1>1, <1>4, <2>1, PricesStay, PurchasesKeep, TasksStay DEF FloorInv
<1>5. CASE Only("companion") /\ CompanionNext /\ UNCHANGED now
  <2>1. UNCHANGED <<orderVars, jobVars>> /\ UNCHANGED pricingVars /\ UNCHANGED sourcingVars
    BY <1>5 DEF Only
  <2> QED
    BY <1>0, <1>1, <1>5, <2>1, PricesStay, PurchasesStay, TasksKeep DEF FloorInv
<1>6. CASE SetClock /\ UNCHANGED <<orderVars, jobVars, pricingVars, sourcingVars, companionVars>>
  <2>1. now' \in 1..MaxTime
    BY <1>6 DEF SetClock
  <2> QED
    BY <1>0, <1>1, <1>6, <2>1, PricesStay, PurchasesStay, TasksStay DEF FloorInv
<1>7. CASE UNCHANGED backofficeVars
  <2>1. /\ UNCHANGED <<orderVars, jobVars>> /\ UNCHANGED now /\ UNCHANGED pricingVars
        /\ UNCHANGED sourcingVars /\ UNCHANGED companionVars
    BY <1>7 DEF backofficeVars, workVars
  <2> QED
    BY <1>0, <1>1, <2>1, PricesStay, PurchasesStay, TasksStay DEF FloorInv
<1> QED
  BY <1>2, <1>3, <1>4, <1>5, <1>6, <1>7 DEF BackofficeNext

LEMMA FloorTells == ASSUME FloorInv PROVE LedgersTell
<1>1. BackofficeTypeOK
  BY DEF FloorInv, WorkTyped, PricingInv, SourcingInv, CompanionInv, TasksTyped, BackofficeTypeOK
<1>2. MemoryStands
  BY DEF FloorInv, SourcingInv
<1>3. HistoryTells
  BY EventsAreHistory DEF FloorInv
<1> QED
  BY <1>1, <1>2, <1>3 DEF LedgersTell

(* The ledgers of the shop floor tell what happened in it: every row of    *)
(* every table is one its validate passes, purchases stand on suppliers    *)
(* and materials on file, of which no two share a name, and the events of  *)
(* a task tell what became of it, whichever requests run again under their *)
(* key and however the clock is set                                        *)
(* (sourcing_service.cpp, companion_service.cpp, jobs_service.cpp).        *)
THEOREM Ledgers == BackofficeSpec => []LedgersTell
BY FloorStarts, FloorKeeps, FloorTells, PTL DEF BackofficeSpec

(* Whoever asks for a price is told the best applicable rate, whichever    *)
(* order the table hands out its rows in (rate.cpp, choose_rate).          *)
THEOREM Priced == BackofficeSpec => []PricesResolve
<1>1. FloorInv => PricesResolve
  BY PricesAreResolved DEF FloorInv
<1> QED
  BY <1>1, FloorStarts, FloorKeeps, PTL DEF BackofficeSpec
=============================================================================
