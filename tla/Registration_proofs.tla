------------------------ MODULE Registration_proofs ------------------------
(***************************************************************************)
(* Registration implements ServiceStore, for any number of services, tasks, *)
(* managers, errors and losses of the connection.                           *)
(***************************************************************************)
EXTENDS Registration, ServiceStore_proofs

\* A user's task that waits for the manager knows what it is to do with which service.
Named == \A t \in Users : doing[t] # "idle" =>
           item[t] \in Items /\ job[t] \in {"register", "unregister"}
TaskInv == /\ StoreTypeOK
           /\ doing \in [Tasks -> {"idle", "event", "manager", "register", "unregister", "subscribe"}]
           /\ item \in [Tasks -> Items \cup {Absent}]
           /\ todo \in [Reporters -> SUBSET Items]
           /\ job \in [Users -> {"none", "register", "unregister"}]
           /\ Named

\* What a step does to the services, to those of StoreSpec or to none.
StoreStep == [StoreNext]_storeVars

LEMMA ListItems == StoreTypeOK => {[id |-> s, api |-> services[s]] : s \in Listed} \in SUBSET Items
BY DEF StoreTypeOK, Listed, Items, Stored, Ids

LEMMA TaskInit == Init => TaskInv
<1> SUFFICES ASSUME Init PROVE TaskInv
  OBVIOUS
<1>1. StoreTypeOK
  BY StoreTypeInit DEF Init
<1>2. doing \in [Tasks -> {"idle", "event", "manager", "register", "unregister", "subscribe"}]
  BY DEF Init
<1>3. Named
  BY TasksDiffer DEF Init, Named, Tasks
<1> QED
  BY <1>1, <1>2, <1>3 DEF Init, TaskInv

\* A step of one task that leaves the services alone, and what the users' tasks work
\* on, unless they end.
LEMMA QuietStep ==
  ASSUME TaskInv, UNCHANGED <<storeVars, item, todo, job>>,
         doing' \in [Tasks -> {"idle", "event", "manager", "register", "unregister", "subscribe"}],
         \A t \in Users : doing[t] = "idle" => doing'[t] = "idle"
  PROVE  TaskInv' /\ StoreStep
BY DEF TaskInv, Named, StoreStep, StoreTypeOK, storeVars

LEMMA RegisterStep ==
  ASSUME TaskInv, NEW t \in Users, NEW s \in Registered, RegisterService(t, s)
  PROVE  TaskInv' /\ StoreStep
<1>1. PICK o \in Offers[s], ow \in BOOLEAN :
        /\ AddService(s, ApiOf(o, NoCaller), ow)
        /\ Begins(t, s, "register", ApiOf(o, NoCaller))
  BY DEF RegisterService
<1>2. Add(s)
  BY <1>1 DEF Add, Begins
<1>3. StoreStep
  BY <1>2 DEF StoreStep, StoreNext
<1>4. StoreTypeOK'
  BY <1>3, StoreTypeStep DEF StoreStep, TaskInv
<1>5. [id |-> s, api |-> ApiOf(o, NoCaller)] \in Items
  BY OfferedApi DEF Items, Ids
<1> QED
  BY <1>1, <1>3, <1>4, <1>5, TasksDiffer DEF Begins, Ask, TaskInv, Named, Tasks

LEMMA RefusalStep ==
  ASSUME TaskInv, NEW s \in Registered, RegisterRefused(s)
  PROVE  TaskInv' /\ StoreStep
<1>1. Add(s)
  BY DEF RegisterRefused, Add
<1>2. StoreStep
  BY <1>1 DEF StoreStep, StoreNext
<1> QED
  BY <1>2, StoreTypeStep DEF StoreStep, TaskInv, RegisterRefused, taskVars, Named

LEMMA UnregisterStep ==
  ASSUME TaskInv, NEW t \in Users, NEW s \in Registered, UnregisterService(t, s)
  PROVE  TaskInv' /\ StoreStep
<1>1. [id |-> s, api |-> services[s]] \in Items
  BY DEF UnregisterService, Stored, TaskInv, StoreTypeOK, Items, Ids
<1>2. UNCHANGED storeVars
  BY DEF UnregisterService, Begins, storeVars
<1> QED
  BY <1>1, <1>2 DEF UnregisterService, Begins, Ask, TaskInv, Named, Tasks, StoreStep, StoreTypeOK, storeVars

LEMMA UserStepStep ==
  ASSUME TaskInv, NEW t \in Users, UserStep(t)
  PROVE  TaskInv' /\ StoreStep
<1> USE TasksDiffer DEF Tasks
<1>1. CASE UserHasManager(t)
  <2>1. doing[t] = "manager" /\ UNCHANGED <<storeVars, item, todo, job>>
    BY <1>1 DEF UserHasManager, Got
  <2>2. job[t] \in {"register", "unregister"}
    BY <2>1 DEF TaskInv, Named
  <2> QED
    BY <1>1, <2>1, <2>2, QuietStep DEF UserHasManager, Ask, TaskInv
<1>2. CASE Registers(t) \/ UserFails(t)
  <2>1. UNCHANGED storeVars /\ UserEnds(t)
    BY <1>2 DEF Registers, UserFails, UserEnds, storeVars
  <2> QED
    BY <2>1 DEF UserEnds, Ends, TaskInv, Named, StoreStep, StoreTypeOK, storeVars
<1>3. CASE Unregisters(t)
  <2>1. item[t] \in Items /\ item[t].id \in Registered
    BY <1>3 DEF Unregisters, Got, TaskInv, Named, Items
  <2>2. RemoveServices({item[t].id}) /\ UNCHANGED <<caller_index, disposing>>
    BY <1>3 DEF Unregisters, UserEnds
  <2>3. ASSUME Stored(item[t].id) PROVE StoreStep
    BY <2>1, <2>2, <2>3 DEF StoreStep, StoreNext, Remove
  <2>4. ASSUME ~Stored(item[t].id) PROVE StoreStep
    <3>1. UNCHANGED <<services, annotations>>
      BY <2>1, <2>2, <2>4 DEF RemoveServices, Without, Unannotated, Stored, TaskInv, StoreTypeOK
    <3> QED
      BY <2>2, <3>1 DEF StoreStep, storeVars
  <2>5. StoreStep
    BY <2>3, <2>4
  <2> QED
    BY <1>3, <2>5, StoreTypeStep DEF StoreStep, Unregisters, UserEnds, Ends, TaskInv, Named
<1> QED
  BY <1>1, <1>2, <1>3 DEF UserStep

\* The reporter goes on with one of the services in rest, or has reported them all.
LEMMA ProceedsStep ==
  ASSUME TaskInv, NEW t \in Reporters, NEW rest \in SUBSET Items, NEW bad \in BOOLEAN,
         Proceeds(t, rest, bad), UNCHANGED <<storeVars, job>>
  PROVE  TaskInv' /\ StoreStep
<1> USE TasksDiffer DEF Tasks
<1>1. StoreStep /\ StoreTypeOK'
  BY DEF StoreStep, TaskInv, StoreTypeOK, storeVars
<1>2. CASE rest # {}
  <2>1. PICK i \in rest : /\ item' = [item EXCEPT ![t] = i]
                          /\ todo' = [todo EXCEPT ![t] = rest \ {i}]
    BY <1>2 DEF Proceeds
  <2>2. doing' = [doing EXCEPT ![t] = "register"]
    BY <1>2 DEF Proceeds, Ask
  <2> QED
    BY <1>1, <2>1, <2>2 DEF TaskInv, Named
<1>3. CASE rest = {}
  <2>1. /\ item' = [item EXCEPT ![t] = Absent]
        /\ todo' = [todo EXCEPT ![t] = {}]
    BY <1>3 DEF Proceeds
  <2> DEFINE S == {t} \cup (IF doing[Connector] = "event" THEN {Connector} ELSE {})
  <2> DEFINE ask == [x \in S |-> IF x = t THEN "subscribe" ELSE "manager"]
  <2>2. doing' = [x \in Tasks |-> IF x \in DOMAIN ask THEN ask[x] ELSE doing[x]]
    BY <1>3 DEF Proceeds
  <2>3. \A x \in Tasks : doing'[x] = doing[x] \/ (x \notin Users /\ doing'[x] \in {"subscribe", "manager"})
    BY <2>2
  <2>4. doing' \in [Tasks -> {"idle", "event", "manager", "register", "unregister", "subscribe"}]
    BY <2>2, <2>3 DEF TaskInv
  <2> QED
    BY <1>1, <2>1, <2>3, <2>4 DEF TaskInv, Named
<1> QED
  BY <1>2, <1>3

LEMMA ReporterStepStep ==
  ASSUME TaskInv, failed \in [Reporters -> BOOLEAN], NEW t \in Reporters, ReporterStep(t)
  PROVE  TaskInv' /\ StoreStep
<1> USE TasksDiffer DEF Tasks
<1>1. CASE ReporterHasManager(t)
  <2> DEFINE list == {[id |-> s, api |-> services[s]] : s \in Listed}
  <2>1. list \in SUBSET Items
    BY ListItems DEF TaskInv
  <2>2. Proceeds(t, list, FALSE) /\ UNCHANGED <<storeVars, job>>
    BY <1>1 DEF ReporterHasManager
  <2> HIDE DEF list
  <2> QED
    BY <2>1, <2>2, ProceedsStep
<1>2. CASE ReporterGoesOn(t)
  <2>1. todo[t] \in SUBSET Items /\ failed[t] \in BOOLEAN
    BY DEF TaskInv
  <2>2. Proceeds(t, todo[t], failed[t]) \/ Proceeds(t, todo[t], TRUE)
    BY <1>2 DEF ReporterGoesOn
  <2>3. UNCHANGED <<storeVars, job>>
    BY <1>2 DEF ReporterGoesOn
  <2> QED
    BY <2>1, <2>2, <2>3, ProceedsStep
<1>3. CASE ReporterEnds(t)
  BY <1>3, QuietStep DEF ReporterEnds, Ends, TaskInv
<1> QED
  BY <1>1, <1>2, <1>3 DEF ReporterStep

LEMMA OtherStep ==
  ASSUME TaskInv, NEW t \in Tasks, Serve(t) \/ Refuse(t) \/ GivesUp(t) \/ FetchAgain(t) \/ (t = Connector /\ Connects)
  PROVE  TaskInv' /\ StoreStep
<1> USE TasksDiffer DEF Tasks
<1>1. CASE Serve(t) \/ Refuse(t)
  BY <1>1, QuietStep DEF Serve, Refuse, TaskInv
<1>2. CASE GivesUp(t)
  <2>1. UNCHANGED storeVars
    BY <1>2 DEF GivesUp
  <2> QED
    BY <1>2, <2>1 DEF GivesUp, Ends, TaskInv, Named, StoreStep, StoreTypeOK, storeVars
<1>3. CASE FetchAgain(t)
  BY <1>3, QuietStep DEF FetchAgain, Failed, Ask, TaskInv
<1>4. CASE t = Connector /\ Connects
  BY <1>4, QuietStep DEF Connects, Ends, TaskInv
<1> QED
  BY <1>1, <1>2, <1>3, <1>4

LEMMA LinkStep ==
  ASSUME TaskInv, LinkLost \/ LinkRestored
  PROVE  TaskInv' /\ StoreStep
<1> USE TasksDiffer DEF Tasks
<1>1. CASE LinkLost
  BY <1>1, QuietStep DEF LinkLost, TaskInv
<1>2. CASE LinkRestored
  <2>1. PICK t \in Reporters : doing' = [doing EXCEPT ![t] = "manager"]
    BY <1>2 DEF LinkRestored
  <2> QED
    BY <1>2, <2>1, QuietStep DEF LinkRestored, TaskInv
<1> QED
  BY <1>1, <1>2

\* Whether on_connected has noted a failure.
FailedType == failed \in [Reporters -> BOOLEAN]

LEMMA FailedStep == FailedType /\ [Next]_vars => FailedType'
<1> SUFFICES ASSUME FailedType, [Next]_vars PROVE FailedType'
  OBVIOUS
<1>1. ASSUME NEW t \in Tasks, t \in Reporters, ReporterStep(t) PROVE FailedType'
  BY <1>1 DEF ReporterStep, ReporterHasManager, ReporterGoesOn, ReporterEnds, Proceeds, FailedType
<1>2. ASSUME NEW t \in Tasks, t \in Users, UserStep(t) PROVE FailedType'
  BY <1>2 DEF UserStep, UserHasManager, Registers, Unregisters, UserFails, UserEnds, FailedType
<1>3. ASSUME NEW t \in Tasks, Serve(t) \/ Refuse(t) \/ GivesUp(t) \/ FetchAgain(t) \/ Connects PROVE FailedType'
  BY <1>3 DEF Serve, Refuse, GivesUp, FetchAgain, Connects, FailedType
<1>4. ASSUME NEW s \in Registered, RegisterRefused(s) PROVE FailedType'
  BY <1>4 DEF RegisterRefused, taskVars, FailedType
<1>5. ASSUME NEW t \in Users, NEW s \in Registered, RegisterService(t, s) \/ UnregisterService(t, s) PROVE FailedType'
  BY <1>5 DEF RegisterService, UnregisterService, Begins, FailedType
<1>6. ASSUME LinkLost \/ LinkRestored PROVE FailedType'
  BY <1>6 DEF LinkLost, LinkRestored, FailedType
<1>7. CASE UNCHANGED vars
  BY <1>7 DEF vars, taskVars, FailedType
<1> QED
  BY <1>1, <1>2, <1>3, <1>4, <1>5, <1>6, <1>7 DEF Next, Step

LEMMA StepStore ==
  TaskInv /\ FailedType /\ [Next]_vars => TaskInv' /\ StoreStep
<1> SUFFICES ASSUME TaskInv, FailedType, [Next]_vars PROVE TaskInv' /\ StoreStep
  OBVIOUS
<1>1. CASE LinkLost \/ LinkRestored
  BY <1>1, LinkStep
<1>2. ASSUME NEW s \in Registered, RegisterRefused(s) PROVE TaskInv' /\ StoreStep
  BY <1>2, RefusalStep
<1>3. ASSUME NEW t \in Users, NEW s \in Registered, RegisterService(t, s) \/ UnregisterService(t, s)
      PROVE TaskInv' /\ StoreStep
  BY <1>3, RegisterStep, UnregisterStep
<1>4. ASSUME NEW t \in Tasks, Serve(t) \/ Refuse(t) \/ GivesUp(t) \/ Step(t) PROVE TaskInv' /\ StoreStep
  BY <1>4, OtherStep, UserStepStep, ReporterStepStep DEF Step, FailedType
<1>5. CASE UNCHANGED vars
  <2>1. UNCHANGED <<storeVars, doing, item, todo, job>>
    BY <1>5 DEF vars, taskVars
  <2> QED
    BY <2>1, QuietStep DEF TaskInv
<1> QED
  BY <1>1, <1>2, <1>3, <1>4, <1>5 DEF Next

\* Whatever happens between the client and the manager, the services are only
\* changed as ServiceStore says.
THEOREM StoreRefined == Spec => StoreImplemented
<1>1. Init => TaskInv /\ FailedType /\ StoreInit
  BY TaskInit DEF Init, FailedType
<1> QED
  BY <1>1, StepStore, FailedStep, PTL DEF Spec, StoreImplemented, StoreSpec, StoreStep
=============================================================================
