--------------------- MODULE RegistryAgreement_proofs ---------------------
(***************************************************************************)
(* What client and manager know of each other, for any number of services,  *)
(* tasks, managers, errors and losses of the connection: they agree on the  *)
(* services nobody works on, no service gets lost, and there is one handler *)
(* of client_disconnected.                                                  *)
(*                                                                         *)
(* The invariant says, for each service, who is responsible for it when     *)
(* both sides do not agree: the user's task that works on it, or the        *)
(* reporter of this connection.  TLC has checked it on the instance of the  *)
(* run registration.                                                        *)
(***************************************************************************)
EXTENDS Registration_proofs, FiniteSets, FiniteSetTheorems

\* Service s is what task t has in hand.
On(t, s) == item[t] # Absent /\ item[t].id = s

\* What a task has in hand fits what it waits for.
FitsInv ==
  /\ \A t \in Users : /\ doing[t] \in {"idle", "manager", "register", "unregister"}
                      /\ doing[t] = "idle" <=> item[t] = Absent
                      /\ doing[t] # "idle" => job[t] # "none"
                      /\ doing[t] \in {"register", "unregister"} => job[t] = doing[t]
  /\ \A t \in Reporters : /\ doing[t] \in {"idle", "manager", "register", "subscribe"}
                          /\ doing[t] # "register" => item[t] = Absent /\ todo[t] = {}
                          /\ doing[t] = "register" => item[t] \in Items \ todo[t]
  /\ item[Connector] = Absent /\ doing[Connector] \in {"idle", "event", "manager"}

\* The reporters at work, and that each handler installed was so by one of them.
Active == {t \in Reporters : doing[t] # "idle"}
CountInv == /\ IsFiniteSet(Active)
            /\ \A t \in Reporters : handlers[t] + Cardinality(Active) + (IF link THEN 0 ELSE 1) <= losses + 1

\* The types that TaskInv and FailedType do not have.
RestType ==
  /\ link \in BOOLEAN /\ losses \in 0..MaxLosses /\ errors \in 0..MaxErrors
  /\ manager \in Managers
  /\ registry \in [Registered -> Apis \cup {Absent}]
  /\ stage \in [Tasks -> {"none", "waiting", "sent", "served", "refused", "lost"}]
  /\ proxy \in [Tasks -> Managers \cup {NoManager}]
  /\ failed \in [Reporters -> BOOLEAN]
  /\ handlers \in [Reporters -> Nat]
  /\ bound \in Reporters \cup {NoTask}
  /\ subscribed \in BOOLEAN /\ server_sub \in BOOLEAN
  /\ wm \in Managers \cup {NoManager} /\ skip \in BOOLEAN
  /\ current \in Reporters \cup {NoTask} /\ reported \in BOOLEAN
  /\ overlap \in BOOLEAN /\ raced \subseteq Registered /\ unsure \subseteq Registered

LEMMA TaskOfFits == TypeOK /\ FitsInv => TaskInv /\ FailedType /\ RestType
BY TasksDiffer, ItemsAssumption DEF TypeOK, FitsInv, TaskInv, FailedType, RestType, Named, Tasks

\* What reporter t has changed when it has gone on with the services in rest.
Proceeded(t, rest, bad) ==
  /\ \A x \in Tasks \ {t} : item'[x] = item[x]
  /\ \A x \in Reporters \ {t} : todo'[x] = todo[x] /\ failed'[x] = failed[x]
  /\ \A x \in Tasks \ {t, Connector} : doing'[x] = doing[x] /\ stage'[x] = stage[x]
  /\ failed'[t] = bad /\ failed' \in [Reporters -> BOOLEAN]
  /\ stage'[t] = OnItsWay /\ doing'[t] \in {"register", "subscribe"}
  /\ \/ doing'[Connector] = doing[Connector] /\ stage'[Connector] = stage[Connector]
     \/ doing'[Connector] = "manager" /\ stage'[Connector] = OnItsWay
  /\ UNCHANGED current
  /\ doing' \in [Tasks -> {"idle", "event", "manager", "register", "unregister", "subscribe"}]
  /\ stage' \in [Tasks -> {"none", "waiting", "sent", "served", "refused", "lost"}]
  /\ manager \in Managers => proxy' \in [Tasks -> Managers \cup {NoManager}]
  /\ rest # {} => /\ \E i \in rest : item'[t] = i /\ todo'[t] = rest \ {i}
                  /\ doing'[t] = "register" /\ UNCHANGED <<handlers, bound, subscribed, reported>>
  /\ rest = {} => /\ item'[t] = Absent /\ todo'[t] = {} /\ doing'[t] = "subscribe"
                  /\ reported' = IF t = current THEN ~bad ELSE reported
                  /\ subscribed' = FALSE /\ handlers' = TakenOut /\ bound' = t

LEMMA ProceedsFacts ==
  ASSUME TaskInv, RestType, NEW t \in Reporters, NEW rest \in SUBSET Items, NEW bad \in BOOLEAN,
         Proceeds(t, rest, bad)
  PROVE  Proceeded(t, rest, bad)
<1> USE DEF Proceeded, subVars
<1> USE TasksDiffer DEF Tasks
<1>1. failed' = [failed EXCEPT ![t] = bad] /\ OnItsWay \in {"sent", "waiting"}
  BY DEF Proceeds, OnItsWay
<1>2. CASE rest # {}
  <2>1. PICK i \in rest : /\ item' = [item EXCEPT ![t] = i]
                          /\ todo' = [todo EXCEPT ![t] = rest \ {i}]
    BY <1>2 DEF Proceeds
  <2>2. /\ Ask(t, "register", proxy[t]) /\ UNCHANGED <<subVars, current, reported>>
    BY <1>2 DEF Proceeds
  <2> QED BY <1>1, <1>2, <2>1, <2>2 DEF Ask, TaskInv, RestType
<1>3. CASE rest = {}
  <2> DEFINE heard == doing[Connector] = "event"
             S == {t} \cup (IF heard THEN {Connector} ELSE {})
             ask == [x \in S |-> IF x = t THEN "subscribe" ELSE "manager"]
  <2>1. /\ item' = [item EXCEPT ![t] = Absent] /\ todo' = [todo EXCEPT ![t] = {}]
        /\ reported' = IF t = current THEN ~bad ELSE reported
        /\ subscribed' = FALSE /\ handlers' = TakenOut /\ bound' = t /\ UNCHANGED current
    BY <1>3 DEF Proceeds
  <2>2. /\ doing' = [x \in Tasks |-> IF x \in DOMAIN ask THEN ask[x] ELSE doing[x]]
        /\ stage' = [x \in Tasks |-> IF x \in DOMAIN ask THEN OnItsWay ELSE stage[x]]
        /\ proxy' = IF heard THEN [proxy EXCEPT ![Connector] = manager] ELSE proxy
    BY <1>3 DEF Proceeds
  <2>3. \A x \in Tasks : /\ doing'[x] = IF x = t THEN "subscribe" ELSE IF heard /\ x = Connector THEN "manager" ELSE doing[x]
                         /\ stage'[x] = IF x = t \/ (heard /\ x = Connector) THEN OnItsWay ELSE stage[x]
    BY <2>2
  <2>4. /\ doing' \in [Tasks -> {"idle", "event", "manager", "register", "unregister", "subscribe"}]
        /\ stage' \in [Tasks -> {"none", "waiting", "sent", "served", "refused", "lost"}]
        /\ manager \in Managers => proxy' \in [Tasks -> Managers \cup {NoManager}]
    BY <1>1, <2>2, <2>3 DEF TaskInv, RestType
  <2> HIDE DEF heard, S, ask
  <2> QED BY <1>1, <1>3, <2>1, <2>3, <2>4 DEF TaskInv, RestType
<1> QED BY <1>2, <1>3

LEMMA TakenOutType == handlers \in [Reporters -> Nat] => TakenOut \in [Reporters -> Nat]
BY DEF TakenOut

\* Both ways to go on: with all services, and with what is left of them.
LEMMA ReporterMoves ==
  TaskInv /\ FailedType /\ RestType =>
    \A t \in Reporters :
      /\ ReporterHasManager(t) =>
           \E list \in SUBSET Items : /\ list = {[id |-> s, api |-> services[s]] : s \in Listed}
                                      /\ Proceeded(t, list, FALSE)
      /\ ReporterGoesOn(t) => /\ todo[t] \in SUBSET Items /\ failed[t] \in BOOLEAN
                              /\ \/ Got(t, "register") /\ Proceeded(t, todo[t], failed[t])
                                 \/ Failed(t, "register") /\ Proceeded(t, todo[t], TRUE)
<1> SUFFICES ASSUME TaskInv, FailedType, RestType, NEW t \in Reporters
             PROVE  /\ ReporterHasManager(t) =>
                         \E list \in SUBSET Items : /\ list = {[id |-> s, api |-> services[s]] : s \in Listed}
                                                    /\ Proceeded(t, list, FALSE)
                    /\ ReporterGoesOn(t) => /\ todo[t] \in SUBSET Items /\ failed[t] \in BOOLEAN
                                            /\ \/ Got(t, "register") /\ Proceeded(t, todo[t], failed[t])
                                               \/ Failed(t, "register") /\ Proceeded(t, todo[t], TRUE)
  OBVIOUS
<1>1. ASSUME ReporterHasManager(t)
      PROVE  \E list \in SUBSET Items : /\ list = {[id |-> s, api |-> services[s]] : s \in Listed}
                                        /\ Proceeded(t, list, FALSE)
  <2> DEFINE list == {[id |-> s, api |-> services[s]] : s \in Listed}
  <2>1. list \in SUBSET Items /\ Proceeds(t, list, FALSE)
    BY <1>1, ListItems DEF TaskInv, ReporterHasManager
  <2> HIDE DEF list
  <2>2. Proceeded(t, list, FALSE)
    BY <2>1, ProceedsFacts
  <2> QED BY <2>1, <2>2 DEF list
<1>2. todo[t] \in SUBSET Items /\ failed[t] \in BOOLEAN
  BY DEF TaskInv, FailedType
<1>3. ASSUME ReporterGoesOn(t) PROVE \/ Got(t, "register") /\ Proceeded(t, todo[t], failed[t])
                                     \/ Failed(t, "register") /\ Proceeded(t, todo[t], TRUE)
  BY <1>2, <1>3, ProceedsFacts DEF ReporterGoesOn
<1> QED BY <1>1, <1>2, <1>3

LEMMA RestStep == TaskInv /\ FailedType /\ RestType /\ FitsInv /\ [Next]_vars => RestType'
<1> SUFFICES ASSUME TaskInv, FailedType, RestType, FitsInv, [Next]_vars PROVE RestType'
  OBVIOUS
<1>m. \A t \in Reporters :
        /\ ReporterHasManager(t) => \E list \in SUBSET Items : Proceeded(t, list, FALSE)
        /\ ReporterGoesOn(t) => todo[t] \in SUBSET Items /\ \E bad \in BOOLEAN : Proceeded(t, todo[t], bad)
  BY ReporterMoves
<1> USE LossesAssumption DEF LossesAssumption, RestType, linkVars, subVars, wmVars, ghostVars
<1>1. ASSUME NEW t \in Tasks, Serve(t) PROVE RestType'
  <2>1. doing[t] \in {"register", "unregister"} => item[t] \in Items
    BY TasksDiffer DEF FitsInv, TaskInv, Tasks, Named
  <2>2. registry' \in [Registered -> Apis \cup {Absent}]
    BY <1>1, <2>1 DEF Serve, Items
  <2> QED BY <1>1, <2>2 DEF Serve
<1>2. ASSUME NEW t \in Tasks, Refuse(t) PROVE RestType'
  BY <1>2 DEF Refuse
<1>3. ASSUME NEW t \in Tasks, GivesUp(t) PROVE RestType'
  BY <1>3 DEF GivesUp, Failed, Ends, TaskInv, Named, Items
<1>4. ASSUME NEW t \in Tasks, FetchAgain(t) PROVE RestType'
  BY <1>4 DEF FetchAgain, Ask, OnItsWay
<1>5. ASSUME NEW t \in Users, UserStep(t) PROVE RestType'
  <2>1. CASE UserHasManager(t)
    BY <2>1 DEF UserHasManager, Ask, OnItsWay, Tasks
  <2>2. CASE Registers(t)
    BY <2>2 DEF Registers, UserEnds, Ends
  <2>3. CASE Unregisters(t)
    BY <2>3 DEF Unregisters, UserEnds, Ends
  <2>4. CASE UserFails(t)
    BY <2>4 DEF UserFails, Failed, UserEnds, Ends, TaskInv, Named, Items
  <2> QED BY <1>5, <2>1, <2>2, <2>3, <2>4 DEF UserStep
<1>6. ASSUME NEW t \in Reporters, NEW rest \in SUBSET Items, NEW bad \in BOOLEAN, Proceeded(t, rest, bad),
             UNCHANGED <<link, losses, errors, manager, registry, server_sub, overlap, unsure>>,
             raced' \subseteq Registered, wm' \in Managers \cup {NoManager}, skip' \in BOOLEAN
      PROVE  RestType'
  <2>1. UNCHANGED <<handlers, bound, subscribed, reported>> \/
           (handlers' = TakenOut /\ bound' = t /\ subscribed' = FALSE /\ reported' \in BOOLEAN)
    <3>1. CASE rest # {}
      BY <1>6, <3>1 DEF Proceeded
    <3>2. CASE rest = {}
      <4>1. handlers' = TakenOut /\ bound' = t /\ subscribed' = FALSE /\ reported' = IF t = current THEN ~bad ELSE reported
        BY <1>6, <3>2 DEF Proceeded
      <4> QED BY <1>6, <4>1
    <3> QED BY <3>1, <3>2
  <2>2. /\ stage' \in [Tasks -> {"none", "waiting", "sent", "served", "refused", "lost"}]
        /\ proxy' \in [Tasks -> Managers \cup {NoManager}]
        /\ failed' \in [Reporters -> BOOLEAN] /\ UNCHANGED current
    BY <1>6 DEF Proceeded
  <2> QED BY <1>6, <2>1, <2>2, TakenOutType
<1>7. ASSUME NEW t \in Reporters, ReporterStep(t) PROVE RestType'
  <2>1. CASE ReporterHasManager(t)
    <3>1. PICK list \in SUBSET Items : Proceeded(t, list, FALSE)
      BY <2>1, <1>m
    <3>2. wm' \in Managers \cup {NoManager} /\ skip' \in BOOLEAN /\ raced' \subseteq Registered
      BY <2>1 DEF ReporterHasManager, Retarget, Listed
    <3> QED BY <2>1, <3>1, <3>2, <1>6 DEF ReporterHasManager
  <2>2. CASE ReporterGoesOn(t)
    <3>1. PICK bad \in BOOLEAN : Proceeded(t, todo[t], bad) /\ todo[t] \in SUBSET Items
      BY <2>2, <1>m
    <3> QED BY <2>2, <3>1, <1>6 DEF ReporterGoesOn
  <2>3. CASE ReporterEnds(t)
    <3>1. handlers' \in [Reporters -> Nat] /\ subscribed' \in BOOLEAN
      <4>1. CASE handlers' = [handlers EXCEPT ![bound] = @ + 1] /\ subscribed' = TRUE
        <5>1. \A x \in Reporters : handlers[x] + 1 \in Nat
          OBVIOUS
        <5> QED BY <4>1, <5>1
      <4>2. CASE UNCHANGED handlers /\ subscribed' = FALSE
        BY <4>2
      <4> QED BY <2>3, <4>1, <4>2 DEF ReporterEnds
    <3> QED BY <2>3, <3>1 DEF ReporterEnds, Ends
  <2> QED BY <1>7, <2>1, <2>2, <2>3 DEF ReporterStep
<1>8. ASSUME Connects PROVE RestType'
  BY <1>8 DEF Connects, Ends, Tasks
<1>9. ASSUME NEW s \in Registered, RegisterRefused(s) PROVE RestType'
  BY <1>9 DEF RegisterRefused, taskVars
<1>10. ASSUME NEW t \in Users, NEW s \in Registered, RegisterService(t, s) \/ UnregisterService(t, s) PROVE RestType'
  BY <1>10 DEF RegisterService, UnregisterService, Begins, Ask, OnItsWay
<1>11. CASE LinkLost
  <2>1. losses' \in 0..MaxLosses /\ raced' \subseteq Registered
    BY <1>11 DEF LinkLost
  <2> QED BY <1>11, <2>1 DEF LinkLost
<1>12. CASE LinkRestored
  BY <1>12 DEF LinkRestored
<1>13. CASE UNCHANGED vars
  BY <1>13 DEF vars, taskVars
<1> QED
  BY <1>1, <1>2, <1>3, <1>4, <1>5, <1>7, <1>8, <1>9, <1>10, <1>11, <1>12, <1>13 DEF Next, Step

\* The users' tasks, reporters and the connector do not get into each other's way.
LEMMA FitsStep == TaskInv /\ FailedType /\ RestType /\ FitsInv /\ [Next]_vars => FitsInv'
<1> SUFFICES ASSUME TaskInv, FailedType, RestType, FitsInv, [Next]_vars PROVE FitsInv'
  OBVIOUS
<1>m. \A t \in Reporters :
        /\ ReporterHasManager(t) => \E list \in SUBSET Items : Proceeded(t, list, FALSE)
        /\ ReporterGoesOn(t) => todo[t] \in SUBSET Items /\ \E bad \in BOOLEAN : Proceeded(t, todo[t], bad)
  BY ReporterMoves
<1> USE TasksDiffer DEF FitsInv, Tasks
<1>a. /\ doing \in [Tasks -> {"idle", "event", "manager", "register", "unregister", "subscribe"}]
      /\ item \in [Tasks -> Items \cup {Absent}]
      /\ todo \in [Reporters -> SUBSET Items]
      /\ job \in [Users -> {"none", "register", "unregister"}]
  BY DEF TaskInv
<1>1. ASSUME NEW t \in Tasks, Serve(t) \/ Refuse(t) PROVE FitsInv'
  BY <1>1 DEF Serve, Refuse
<1>3. ASSUME NEW t \in Tasks, GivesUp(t) PROVE FitsInv'
  BY <1>3, <1>a DEF GivesUp, Failed, Ends
<1>4. ASSUME NEW t \in Tasks, FetchAgain(t) PROVE FitsInv'
  BY <1>4, <1>a DEF FetchAgain, Ask, Failed
<1>5. ASSUME NEW t \in Users, UserStep(t) PROVE FitsInv'
  <2>1. CASE UserHasManager(t)
    BY <2>1, <1>a DEF UserHasManager, Ask, Got
  <2>2. CASE Registers(t) \/ Unregisters(t) \/ UserFails(t)
    <3>1. UserEnds(t) /\ doing[t] # "idle"
      BY <2>2 DEF Registers, Unregisters, UserFails, Got, Failed
    <3> QED BY <1>a, <3>1 DEF UserEnds, Ends
  <2> QED BY <1>5, <2>1, <2>2 DEF UserStep
<1>6. ASSUME NEW t \in Reporters, NEW rest \in SUBSET Items, NEW bad \in BOOLEAN, Proceeded(t, rest, bad), UNCHANGED job
      PROVE  FitsInv'
  <2>1. /\ \A x \in Tasks \ {t} : item'[x] = item[x]
        /\ \A x \in Reporters \ {t} : todo'[x] = todo[x]
        /\ \A x \in Tasks \ {t, Connector} : doing'[x] = doing[x]
        /\ doing'[Connector] = doing[Connector] \/ doing'[Connector] = "manager"
    BY <1>6 DEF Proceeded
  <2>2. \/ (\E i \in rest : item'[t] = i /\ todo'[t] = rest \ {i}) /\ doing'[t] = "register"
        \/ item'[t] = Absent /\ todo'[t] = {} /\ doing'[t] = "subscribe"
    BY <1>6 DEF Proceeded
  <2> QED BY <1>6, <2>1, <2>2
<1>7. ASSUME NEW t \in Reporters, ReporterStep(t) PROVE FitsInv'
  <2>1. CASE ReporterHasManager(t)
    BY <2>1, <1>6, <1>m DEF ReporterHasManager
  <2>2. CASE ReporterGoesOn(t)
    BY <2>2, <1>6, <1>m DEF ReporterGoesOn
  <2>3. CASE ReporterEnds(t)
    BY <2>3, <1>a DEF ReporterEnds, Ends, Got, Failed
  <2> QED BY <1>7, <2>1, <2>2, <2>3 DEF ReporterStep
<1>8. ASSUME Connects PROVE FitsInv'
  BY <1>8, <1>a DEF Connects, Ends
<1>9. ASSUME NEW s \in Registered, RegisterRefused(s) PROVE FitsInv'
  BY <1>9 DEF RegisterRefused, taskVars
<1>10. ASSUME NEW t \in Users, NEW s \in Registered, RegisterService(t, s) \/ UnregisterService(t, s) PROVE FitsInv'
  <2>1. PICK j \in {"register", "unregister"}, api \in Apis : Begins(t, s, j, api)
    BY <1>10, OfferedApi DEF RegisterService, UnregisterService, Stored, TaskInv, StoreTypeOK, Ids
  <2>2. [id |-> s, api |-> api] # Absent
    BY ItemsAssumption DEF ItemsAssumption, Items
  <2>3. doing[t] = "idle" /\ UNCHANGED todo
    BY <1>10, <2>1 DEF RegisterService, UnregisterService, Begins
  <2> QED BY <1>a, <2>1, <2>2, <2>3 DEF Begins, Ask
<1>11. CASE LinkLost
  BY <1>11 DEF LinkLost
<1>12. CASE LinkRestored
  BY <1>12, <1>a DEF LinkRestored
<1>13. CASE UNCHANGED vars
  BY <1>13 DEF vars, taskVars
<1> QED
  BY <1>1, <1>3, <1>4, <1>5, <1>7, <1>8, <1>9, <1>10, <1>11, <1>12, <1>13 DEF Next, Step

-----------------------------------------------------------------------------
(* The subscription to client_disconnected *)

\* A step after which the same reporters are at work and as many handlers installed.
LEMMA CountQuiet ==
  ASSUME CountInv, \A t \in Reporters : doing'[t] = "idle" <=> doing[t] = "idle", UNCHANGED <<handlers, link, losses>>
  PROVE  CountInv'
<1>1. Active' = Active
  BY DEF Active
<1> QED BY <1>1 DEF CountInv

\* A reporter ends, and may have installed one handler.
LEMMA CountEnds ==
  ASSUME CountInv, RestType, NEW t \in Active, \A u \in Reporters : doing'[u] = "idle" <=> doing[u] = "idle" \/ u = t,
         UNCHANGED <<link, losses>>,
         \A u \in Reporters : handlers'[u] \in Nat /\ handlers'[u] <= handlers[u] + 1
  PROVE  CountInv'
<1>1. Active' = Active \ {t} /\ t \in Active
  BY DEF Active
<1>2. IsFiniteSet(Active') /\ Cardinality(Active') = Cardinality(Active) - 1 /\ Cardinality(Active) \in Nat
  BY <1>1, FS_RemoveElement, FS_CardinalityType DEF CountInv
<1>3. \A u \in Reporters : handlers[u] \in Nat /\ losses \in Nat
  BY LossesAssumption DEF RestType, LossesAssumption
<1> QED BY <1>2, <1>3 DEF CountInv

LEMMA CountStep == TaskInv /\ FailedType /\ RestType /\ FitsInv /\ CountInv /\ [Next]_vars => CountInv'
<1> SUFFICES ASSUME TaskInv, FailedType, RestType, FitsInv, CountInv, [Next]_vars PROVE CountInv'
  OBVIOUS
<1>m. \A t \in Reporters :
        /\ ReporterHasManager(t) => \E list \in SUBSET Items : Proceeded(t, list, FALSE)
        /\ ReporterGoesOn(t) => todo[t] \in SUBSET Items /\ \E bad \in BOOLEAN : Proceeded(t, todo[t], bad)
  BY ReporterMoves
<1> USE TasksDiffer DEF Tasks, linkVars, subVars
<1>a. doing \in [Tasks -> {"idle", "event", "manager", "register", "unregister", "subscribe"}]
  BY DEF TaskInv
<1>b. handlers \in [Reporters -> Nat] /\ losses \in Nat
  BY LossesAssumption DEF RestType, LossesAssumption
<1>1. ASSUME NEW t \in Tasks, Serve(t) \/ Refuse(t) \/ FetchAgain(t) PROVE CountInv'
  BY <1>a, <1>1, CountQuiet DEF Serve, Refuse, FetchAgain, Ask, Failed
<1>3. ASSUME NEW t \in Tasks, GivesUp(t) PROVE CountInv'
  <2>1. UNCHANGED <<handlers, link, losses>> /\ doing[t] = "manager"
    BY <1>3 DEF GivesUp, Failed
  <2>2. CASE t \notin Reporters
    BY <1>a, <1>3, <2>1, <2>2, CountQuiet DEF GivesUp, Ends
  <2>3. CASE t \in Reporters
    <3>1. t \in Active /\ \A u \in Reporters : doing'[u] = "idle" <=> doing[u] = "idle" \/ u = t
      BY <1>a, <1>3, <2>1, <2>3 DEF GivesUp, Ends, Active
    <3> QED BY <1>b, <2>1, <3>1, CountEnds
  <2> QED BY <2>2, <2>3
<1>5. ASSUME NEW t \in Users, UserStep(t) PROVE CountInv'
  BY <1>a, <1>5, CountQuiet DEF UserStep, UserHasManager, Ask, Registers, Unregisters, UserFails, UserEnds, Ends
<1>6. ASSUME NEW t \in Reporters, NEW rest \in SUBSET Items, NEW bad \in BOOLEAN, Proceeded(t, rest, bad), doing[t] # "idle",
             UNCHANGED <<link, losses>>
      PROVE  CountInv'
  <2>1. \A x \in Reporters : doing'[x] = "idle" <=> doing[x] = "idle"
    BY <1>6 DEF Proceeded
  <2>2. Active' = Active
    BY <2>1 DEF Active
  <2>3. \A x \in Reporters : handlers'[x] <= handlers[x] /\ handlers'[x] \in Nat
    <3>1. CASE rest # {}
      BY <1>b, <1>6, <3>1 DEF Proceeded
    <3>2. CASE rest = {}
      BY <1>b, <1>6, <3>2 DEF Proceeded, TakenOut
    <3> QED BY <3>1, <3>2
  <2>4. Cardinality(Active) \in Nat
    BY FS_CardinalityType DEF CountInv
  <2> QED BY <1>b, <1>6, <2>2, <2>3, <2>4 DEF CountInv
<1>7. ASSUME NEW t \in Reporters, ReporterStep(t) PROVE CountInv'
  <2>1. CASE ReporterHasManager(t)
    BY <2>1, <1>6, <1>m DEF ReporterHasManager, Got
  <2>2. CASE ReporterGoesOn(t)
    BY <2>2, <1>6, <1>m DEF ReporterGoesOn, Got, Failed
  <2>3. CASE ReporterEnds(t)
    <3>1. t \in Active /\ \A u \in Reporters : doing'[u] = "idle" <=> doing[u] = "idle" \/ u = t
      BY <1>a, <2>3 DEF ReporterEnds, Ends, Got, Failed, Active
    <3>2. \A u \in Reporters : handlers[u] \in Nat /\ handlers[u] + 1 \in Nat /\ handlers[u] <= handlers[u] + 1
      BY <1>b
    <3>3. \A u \in Reporters : handlers'[u] = handlers[u] \/ handlers'[u] = handlers[u] + 1
      <4>1. CASE handlers' = [handlers EXCEPT ![bound] = @ + 1]
        BY <1>b, <4>1
      <4>2. CASE UNCHANGED handlers
        BY <4>2
      <4> QED BY <2>3, <4>1, <4>2 DEF ReporterEnds
    <3>4. UNCHANGED <<link, losses>>
      BY <2>3 DEF ReporterEnds
    <3> QED BY <3>1, <3>2, <3>3, <3>4, CountEnds
  <2> QED BY <1>7, <2>1, <2>2, <2>3 DEF ReporterStep
<1>8. ASSUME Connects PROVE CountInv'
  BY <1>a, <1>8, CountQuiet DEF Connects, Ends
<1>9. ASSUME NEW s \in Registered, RegisterRefused(s) PROVE CountInv'
  BY <1>9, CountQuiet DEF RegisterRefused, taskVars
<1>10. ASSUME NEW t \in Users, NEW s \in Registered, RegisterService(t, s) \/ UnregisterService(t, s) PROVE CountInv'
  BY <1>a, <1>10, CountQuiet DEF RegisterService, UnregisterService, Begins, Ask
<1>11. CASE LinkLost
  <2>1. Active' = Active /\ UNCHANGED handlers /\ link /\ ~link' /\ losses' = losses + 1
    BY <1>11 DEF LinkLost, Active
  <2>2. Cardinality(Active) \in Nat
    BY FS_CardinalityType DEF CountInv
  <2> QED BY <1>b, <2>1, <2>2 DEF CountInv
<1>12. CASE LinkRestored
  <2>1. PICK t \in Reporters : doing[t] = "idle" /\ doing' = [doing EXCEPT ![t] = "manager"]
    BY <1>12 DEF LinkRestored
  <2>2. Active' = Active \cup {t} /\ t \notin Active
    BY <1>a, <2>1 DEF Active
  <2>3. IsFiniteSet(Active') /\ Cardinality(Active') = Cardinality(Active) + 1 /\ Cardinality(Active) \in Nat
    BY <2>2, FS_AddElement, FS_CardinalityType DEF CountInv
  <2>4. UNCHANGED <<handlers, losses>> /\ ~link /\ link'
    BY <1>12 DEF LinkRestored
  <2> QED BY <1>b, <2>3, <2>4 DEF CountInv
<1>13. CASE UNCHANGED vars
  BY <1>13, CountQuiet DEF vars, taskVars
<1> QED
  BY <1>1, <1>3, <1>5, <1>7, <1>8, <1>9, <1>10, <1>11, <1>12, <1>13 DEF Next, Step

\* While the connection is down nothing is known to the manager and nothing on its way.
LinkInv ==
  /\ link => current \in Reporters
  /\ ~link => /\ current = NoTask /\ ~reported /\ ~server_sub
              /\ \A s \in Registered : registry[s] = Absent
              /\ \A t \in Tasks : stage[t] \notin {"sent", "served"}

LEMMA LinkInvStep == TaskInv /\ FailedType /\ RestType /\ FitsInv /\ LinkInv /\ [Next]_vars => LinkInv'
<1> SUFFICES ASSUME TaskInv, FailedType, RestType, FitsInv, LinkInv, [Next]_vars PROVE LinkInv'
  OBVIOUS
<1>m. \A t \in Reporters :
        /\ ReporterHasManager(t) => \E list \in SUBSET Items : Proceeded(t, list, FALSE)
        /\ ReporterGoesOn(t) => todo[t] \in SUBSET Items /\ \E bad \in BOOLEAN : Proceeded(t, todo[t], bad)
  BY ReporterMoves
<1> USE TasksDiffer DEF LinkInv, Tasks, linkVars, subVars, wmVars, ghostVars
<1>a. /\ stage \in [Tasks -> {"none", "waiting", "sent", "served", "refused", "lost"}]
      /\ registry \in [Registered -> Apis \cup {Absent}]
      /\ link \in BOOLEAN
  BY DEF RestType
<1>1. ASSUME NEW t \in Tasks, Serve(t) PROVE LinkInv'
  BY <1>1, <1>a DEF Serve
<1>2. ASSUME NEW t \in Tasks, Refuse(t) \/ GivesUp(t) \/ FetchAgain(t) PROVE LinkInv'
  BY <1>2, <1>a DEF Refuse, GivesUp, Ends, FetchAgain, Ask, OnItsWay
<1>5. ASSUME NEW t \in Users, UserStep(t) PROVE LinkInv'
  BY <1>5, <1>a DEF UserStep, UserHasManager, Ask, OnItsWay, Registers, Unregisters, UserFails, UserEnds, Ends
<1>6. ASSUME NEW t \in Reporters, NEW rest \in SUBSET Items, NEW bad \in BOOLEAN, Proceeded(t, rest, bad),
             UNCHANGED <<link, registry, server_sub>>
      PROVE  LinkInv'
  <2>1. /\ \A x \in Tasks : stage'[x] = stage[x] \/ stage'[x] = OnItsWay
        /\ UNCHANGED current
    BY <1>6 DEF Proceeded
  <2>2. ~link => ~reported'
    BY <1>6 DEF Proceeded
  <2> QED BY <1>6, <2>1, <2>2 DEF OnItsWay
<1>7. ASSUME NEW t \in Reporters, ReporterStep(t) PROVE LinkInv'
  <2>1. CASE ReporterHasManager(t)
    BY <2>1, <1>6, <1>m DEF ReporterHasManager
  <2>2. CASE ReporterGoesOn(t)
    BY <2>2, <1>6, <1>m DEF ReporterGoesOn
  <2>3. CASE ReporterEnds(t)
    BY <2>3, <1>a DEF ReporterEnds, Ends
  <2> QED BY <1>7, <2>1, <2>2, <2>3 DEF ReporterStep
<1>8. ASSUME Connects PROVE LinkInv'
  BY <1>8, <1>a DEF Connects, Ends
<1>9. ASSUME NEW s \in Registered, RegisterRefused(s) PROVE LinkInv'
  BY <1>9 DEF RegisterRefused, taskVars
<1>10. ASSUME NEW t \in Users, NEW s \in Registered, RegisterService(t, s) \/ UnregisterService(t, s) PROVE LinkInv'
  BY <1>10, <1>a DEF RegisterService, UnregisterService, Begins, Ask, OnItsWay
<1>11. CASE LinkLost
  BY <1>11, <1>a DEF LinkLost
<1>12. CASE LinkRestored
  BY <1>12 DEF LinkRestored
<1>13. CASE UNCHANGED vars
  BY <1>13 DEF vars, taskVars
<1> QED
  BY <1>1, <1>2, <1>5, <1>7, <1>8, <1>9, <1>10, <1>11, <1>12, <1>13 DEF Next, Step

\* Without overlap one reporter at most is at work, and the handler is there if and only if
\* the client has subscribed.
SubInv ==
  /\ \A t \in Reporters : Got(t, "subscribe") => server_sub
  /\ reported /\ subscribed => server_sub
  /\ subscribed \/ (\E t \in Reporters : doing[t] = "subscribe") => bound \in Reporters
  /\ ~overlap => /\ \A t, u \in Active : t = u
                 /\ \A t \in Reporters : handlers[t] = IF subscribed /\ t = bound THEN 1 ELSE 0
                 /\ \A t \in Reporters : doing[t] = "subscribe" => bound = t /\ ~subscribed

LEMMA SubQuiet ==
  ASSUME SubInv, UNCHANGED <<subVars, overlap>>, reported' => reported, server_sub => server_sub',
         \A t \in Reporters : /\ doing'[t] = "idle" \/ doing[t] # "idle"
                              /\ doing'[t] = "subscribe" => doing[t] = "subscribe"
                              /\ Got(t, "subscribe")' => Got(t, "subscribe") \/ server_sub'
  PROVE  SubInv'
BY DEF SubInv, Active, subVars

LEMMA SubStep == TaskInv /\ FailedType /\ RestType /\ FitsInv /\ LinkInv /\ SubInv /\ [Next]_vars => SubInv'
<1> SUFFICES ASSUME TaskInv, FailedType, RestType, FitsInv, LinkInv, SubInv, [Next]_vars PROVE SubInv'
  OBVIOUS
<1>m. \A t \in Reporters :
        /\ ReporterHasManager(t) => \E list \in SUBSET Items : Proceeded(t, list, FALSE)
        /\ ReporterGoesOn(t) => todo[t] \in SUBSET Items /\ \E bad \in BOOLEAN : Proceeded(t, todo[t], bad)
  BY ReporterMoves
<1> USE TasksDiffer DEF Tasks, linkVars, wmVars, ghostVars, Got
<1>a. /\ stage \in [Tasks -> {"none", "waiting", "sent", "served", "refused", "lost"}]
      /\ doing \in [Tasks -> {"idle", "event", "manager", "register", "unregister", "subscribe"}]
      /\ handlers \in [Reporters -> Nat] /\ server_sub \in BOOLEAN
  BY DEF RestType, TaskInv
<1>1. ASSUME NEW t \in Tasks, Serve(t) PROVE SubInv'
  BY <1>1, <1>a, SubQuiet DEF Serve
<1>2. ASSUME NEW t \in Tasks, Refuse(t) \/ GivesUp(t) \/ FetchAgain(t) PROVE SubInv'
  BY <1>2, <1>a, SubQuiet DEF Refuse, GivesUp, Ends, FetchAgain, Ask, OnItsWay, Failed
<1>5. ASSUME NEW t \in Users, UserStep(t) PROVE SubInv'
  BY <1>5, <1>a, SubQuiet DEF UserStep, UserHasManager, Ask, OnItsWay, Registers, Unregisters, UserFails, UserEnds, Ends
<1>6. ASSUME NEW t \in Reporters, NEW rest \in SUBSET Items, NEW bad \in BOOLEAN, Proceeded(t, rest, bad), t \in Active,
             UNCHANGED <<server_sub, overlap>>
      PROVE  SubInv'
  <2>1. /\ \A x \in Reporters \ {t} : doing'[x] = doing[x] /\ stage'[x] = stage[x]
        /\ stage'[t] \in {"sent", "waiting"} /\ doing'[t] \in {"register", "subscribe"}
    BY <1>6 DEF Proceeded, OnItsWay
  <2>2. CASE rest # {}
    BY <1>6, <2>1, <2>2 DEF Proceeded, SubInv, Active
  <2>3. CASE rest = {}
    <3>1. doing'[t] = "subscribe" /\ ~subscribed' /\ bound' = t /\ subscribed' = FALSE
      BY <1>6, <2>3 DEF Proceeded
    <3>2. Active' = Active
      BY <1>6, <2>1, <3>1 DEF Active
    <3>3. ~overlap => \A x \in Reporters : handlers'[x] = 0
      <4>1. handlers' = TakenOut
        BY <1>6, <2>3 DEF Proceeded
      <4> QED BY <4>1 DEF TakenOut, SubInv
    <3>4. \A x \in Reporters : Got(x, "subscribe")' => server_sub'
      BY <1>6, <2>1 DEF SubInv
    <3>5. ~overlap' => \A x \in Reporters : doing'[x] = "subscribe" => bound' = x
      BY <1>6, <2>1, <3>1 DEF SubInv, Active
    <3> QED BY <1>6, <3>1, <3>2, <3>3, <3>4, <3>5 DEF SubInv
  <2> QED BY <2>2, <2>3
<1>7. ASSUME NEW t \in Reporters, ReporterStep(t) PROVE SubInv'
  <2>1. CASE ReporterHasManager(t)
    BY <2>1, <1>6, <1>m DEF ReporterHasManager, Active
  <2>2. CASE ReporterGoesOn(t)
    BY <2>2, <1>6, <1>m DEF ReporterGoesOn, Active, Failed
  <2>3. CASE ReporterEnds(t)
    <3>1. /\ doing[t] = "subscribe" /\ UNCHANGED <<bound, server_sub, overlap, reported>>
          /\ doing' = [doing EXCEPT ![t] = "idle"] /\ stage' = [stage EXCEPT ![t] = "none"]
      BY <2>3 DEF ReporterEnds, Ends, Failed
    <3>2. /\ Active' \subseteq Active
          /\ \A x \in Reporters : Got(x, "subscribe")' => Got(x, "subscribe")
          /\ \A x \in Reporters : doing'[x] = "subscribe" => doing[x] = "subscribe" /\ x # t /\ x \in Active
      BY <1>a, <3>1 DEF Active
    <3>3. ~overlap => bound = t /\ ~subscribed /\ \A x \in Reporters : handlers[x] = 0
      BY <3>1 DEF SubInv
    <3>4. t \in Active
      BY <3>1 DEF Active
    <3>5. CASE Got(t, "subscribe") /\ subscribed' = TRUE /\ handlers' = [handlers EXCEPT ![bound] = @ + 1]
      <4>1. server_sub
        BY <3>5 DEF SubInv
      <4>2. ~overlap => \A x \in Reporters : handlers'[x] = IF x = bound THEN 1 ELSE 0
        BY <1>a, <3>3, <3>5
      <4>3. ~overlap => \A x \in Reporters : doing'[x] # "subscribe"
        BY <3>2, <3>4 DEF SubInv
      <4>4. bound \in Reporters
        BY <3>1 DEF SubInv
      <4> QED BY <3>1, <3>2, <3>5, <4>1, <4>2, <4>3, <4>4 DEF SubInv
    <3>6. CASE subscribed' = FALSE /\ UNCHANGED handlers
      <4>1. ~overlap => \A x \in Reporters : handlers'[x] = 0
        BY <3>3, <3>6
      <4> QED BY <3>1, <3>2, <3>6, <4>1 DEF SubInv
    <3> QED BY <2>3, <3>5, <3>6 DEF ReporterEnds
  <2> QED BY <1>7, <2>1, <2>2, <2>3 DEF ReporterStep
<1>8. ASSUME Connects PROVE SubInv'
  BY <1>8, <1>a, SubQuiet DEF Connects, Ends
<1>9. ASSUME NEW s \in Registered, RegisterRefused(s) PROVE SubInv'
  BY <1>9, SubQuiet DEF RegisterRefused, taskVars
<1>10. ASSUME NEW t \in Users, NEW s \in Registered, RegisterService(t, s) \/ UnregisterService(t, s) PROVE SubInv'
  BY <1>10, <1>a, SubQuiet DEF RegisterService, UnregisterService, Begins, Ask, OnItsWay
<1>11. CASE LinkLost
  <2>1. \A t \in Tasks : stage'[t] # "served"
    BY <1>11, <1>a DEF LinkLost
  <2>2. /\ UNCHANGED <<doing, subVars, overlap>> /\ reported' = FALSE
    BY <1>11 DEF LinkLost
  <2> QED BY <2>1, <2>2 DEF SubInv, subVars, Active
<1>12. CASE LinkRestored
  <2>1. PICK t \in Reporters : doing[t] = "idle" /\ doing' = [doing EXCEPT ![t] = "manager"]
    BY <1>12 DEF LinkRestored
  <2>2. Active' = Active \cup {t} /\ (~overlap' => Active = {} /\ ~overlap)
    <3>1. Active' = Active \cup {t}
      BY <1>a, <2>1 DEF Active
    <3>2. overlap' = (overlap \/ \E u \in Reporters : doing[u] # "idle")
      BY <1>12 DEF LinkRestored
    <3> QED BY <3>1, <3>2 DEF Active
  <2>3. /\ UNCHANGED <<handlers, bound, subscribed, server_sub, reported>>
        /\ \A x \in Reporters : stage'[x] # "served" /\ (doing'[x] = "subscribe" => doing[x] = "subscribe")
    BY <1>12, <1>a, <2>1 DEF LinkRestored, LinkInv, subVars
  <2> QED BY <2>2, <2>3 DEF SubInv
<1>13. CASE UNCHANGED vars
  BY <1>13, SubQuiet DEF vars, taskVars
<1> QED
  BY <1>1, <1>2, <1>5, <1>7, <1>8, <1>9, <1>10, <1>11, <1>12, <1>13 DEF Next, Step

-----------------------------------------------------------------------------
(* Who works on which service *)

\* A service that is not in raced is worked on by one task at most, which, if it is
\* to report the service, has it as the client has it now.
SoleInv == \A s \in Registered \ raced : \A t, u \in Tasks : WorksOn(t, s) /\ WorksOn(u, s) => t = u
ApiInv ==
  \A s \in Registered \ raced :
    /\ \A t \in Users : On(t, s) /\ job[t] = "register" => services[s] = item[t].api
    /\ \A t \in Reporters : /\ On(t, s) => services[s] = item[t].api
                            /\ \A i \in todo[t] : i.id = s => services[s] = i.api

\* No task takes up another service than those it has in hand.
Narrows ==
  /\ \A t \in Users : (item'[t] = item[t] /\ job'[t] = job[t]) \/ item'[t] = Absent
  /\ \A t \in Reporters : item'[t] \in {item[t], Absent} \cup todo[t] /\ todo'[t] \subseteq todo[t]
  /\ item'[Connector] = item[Connector]

LEMMA NarrowWork ==
  ASSUME Narrows, NEW t \in Tasks, NEW s \in Registered, WorksOn(t, s)'
  PROVE  WorksOn(t, s)
BY TasksDiffer DEF Narrows, WorksOn, Tasks

LEMMA NarrowSole == SoleInv /\ Narrows /\ raced \subseteq raced' => SoleInv'
BY NarrowWork DEF SoleInv

LEMMA NarrowApi == ApiInv /\ Narrows /\ raced \subseteq raced' /\ UNCHANGED services => ApiInv'
BY DEF ApiInv, Narrows, On

\* All tasks stay as they are in this respect.
LEMMA IdleNarrows == UNCHANGED <<item, job, todo>> => Narrows
BY DEF Narrows

\* Task t ends its work.
LEMMA EndNarrows ==
  ASSUME TaskInv, NEW t \in Tasks, t # Connector, item' = [item EXCEPT ![t] = Absent], UNCHANGED todo,
         \A u \in Users \ {t} : job'[u] = job[u]
  PROVE  Narrows
BY TasksDiffer DEF Narrows, TaskInv, Tasks

\* Steps of the tasks by which nothing is begun.
LEMMA TaskNarrows ==
  ASSUME TaskInv, FailedType, RestType, FitsInv
  PROVE  /\ \A t \in Tasks : Serve(t) \/ Refuse(t) \/ GivesUp(t) \/ FetchAgain(t) => Narrows
         /\ \A t \in Users : UserStep(t) => Narrows
         /\ \A t \in Reporters : ReporterGoesOn(t) \/ ReporterEnds(t) => Narrows
         /\ Connects => Narrows
<1>m. \A t \in Reporters : ReporterGoesOn(t) => todo[t] \in SUBSET Items /\ \E bad \in BOOLEAN : Proceeded(t, todo[t], bad)
  BY ReporterMoves
<1>j. job \in [Users -> {"none", "register", "unregister"}]
  BY DEF TaskInv
<1>1. ASSUME NEW t \in Tasks, Serve(t) \/ Refuse(t) \/ FetchAgain(t) PROVE Narrows
  BY <1>1, IdleNarrows DEF Serve, Refuse, FetchAgain
<1>2. ASSUME NEW t \in Tasks, GivesUp(t) PROVE Narrows
  <2>1. CASE t = Connector
    <3>1. item' = item
      BY <1>2, <2>1 DEF GivesUp, FitsInv, TaskInv, Tasks
    <3>2. job' = job
      BY <1>2, <1>j, <2>1, TasksDiffer DEF GivesUp
    <3> QED BY <1>2, <3>1, <3>2, IdleNarrows DEF GivesUp
  <2>2. CASE t # Connector
    BY <1>2, <1>j, <2>2, EndNarrows DEF GivesUp
  <2> QED BY <2>1, <2>2
<1>3. ASSUME NEW t \in Users, UserStep(t) PROVE Narrows
  <2>1. CASE UserHasManager(t)
    BY <2>1, IdleNarrows DEF UserHasManager
  <2>2. CASE Registers(t) \/ Unregisters(t) \/ UserFails(t)
    <3>1. UserEnds(t)
      BY <2>2 DEF Registers, Unregisters, UserFails
    <3> QED BY <1>j, <3>1, EndNarrows, TasksDiffer DEF UserEnds, Tasks
  <2> QED BY <1>3, <2>1, <2>2 DEF UserStep
<1>4. ASSUME NEW t \in Reporters, ReporterGoesOn(t) PROVE Narrows
  <2>1. PICK bad \in BOOLEAN : Proceeded(t, todo[t], bad)
    BY <1>4, <1>m
  <2>2. item'[t] \in {Absent} \cup todo[t] /\ todo'[t] \subseteq todo[t]
    <3>1. CASE todo[t] # {}
      BY <2>1, <3>1 DEF Proceeded
    <3>2. CASE todo[t] = {}
      BY <2>1, <3>2 DEF Proceeded
    <3> QED BY <3>1, <3>2
  <2>3. /\ \A x \in Tasks \ {t} : item'[x] = item[x]
        /\ \A x \in Reporters \ {t} : todo'[x] = todo[x]
    BY <2>1 DEF Proceeded
  <2>4. UNCHANGED job
    BY <1>4 DEF ReporterGoesOn
  <2> QED BY <2>2, <2>3, <2>4, TasksDiffer DEF Narrows, Tasks
<1>5. ASSUME NEW t \in Reporters, ReporterEnds(t) PROVE Narrows
  BY <1>5, IdleNarrows DEF ReporterEnds
<1>6. ASSUME Connects PROVE Narrows
  BY <1>6, IdleNarrows DEF Connects
<1> QED BY <1>1, <1>2, <1>3, <1>4, <1>5, <1>6

\* User t begins to work on s.
LEMMA BeginsWork ==
  ASSUME TaskInv, FitsInv, SoleInv, ApiInv, NEW t \in Users, NEW s \in Registered, NEW j \in {"register", "unregister"},
         NEW api \in Apis, Begins(t, s, j, api), doing[t] = "idle",
         \A r \in Registered \ {s} : services'[r] = services[r],
         j = "register" => services'[s] = api
  PROVE  SoleInv' /\ ApiInv'
<1> USE TasksDiffer DEF Tasks
<1>1. /\ item' = [item EXCEPT ![t] = [id |-> s, api |-> api]] /\ job' = [job EXCEPT ![t] = j] /\ UNCHANGED todo
      /\ raced' = IF s \in Busy THEN raced \cup {s} ELSE raced
      /\ item \in [Tasks -> Items \cup {Absent}] /\ job \in [Users -> {"none", "register", "unregister"}]
  BY DEF Begins, TaskInv
<1>2. \A x \in Tasks \ {t}, r \in Registered : WorksOn(x, r)' <=> WorksOn(x, r)
  BY <1>1 DEF WorksOn
<1>3. \A r \in Registered : WorksOn(t, r)' => r = s
  BY <1>1 DEF WorksOn
<1>4. \A r \in Registered \ raced' : r \notin raced /\ (r = s => \A x \in Tasks : ~WorksOn(x, s))
  BY <1>1 DEF Busy
<1>5. SoleInv'
  BY <1>2, <1>3, <1>4 DEF SoleInv
<1>6. ApiInv'
  <2> SUFFICES ASSUME NEW r \in Registered, r \notin raced'
               PROVE  /\ \A x \in Users : On(x, r)' /\ job'[x] = "register" => services'[r] = item'[x].api
                      /\ \A x \in Reporters : /\ On(x, r)' => services'[r] = item'[x].api
                                              /\ \A i \in todo'[x] : i.id = r => services'[r] = i.api
    BY DEF ApiInv
  <2>1. CASE r = s
    <3>1. \A x \in Users \ {t} : ~On(x, r)'
      BY <1>1, <1>4, <2>1 DEF WorksOn, On
    <3>2. \A x \in Reporters : ~On(x, r)' /\ \A i \in todo'[x] : i.id # r
      BY <1>1, <1>4, <2>1 DEF WorksOn, On
    <3>3. job'[t] = "register" => services'[r] = item'[t].api
      BY <1>1, <2>1
    <3> QED BY <3>1, <3>2, <3>3
  <2>2. CASE r # s
    <3>1. ~On(t, r)'
      BY <1>1, <2>2 DEF On
    <3>2. \A x \in Users \ {t} : (On(x, r)' => On(x, r)) /\ item'[x] = item[x] /\ job'[x] = job[x]
      BY <1>1 DEF On
    <3>3. \A x \in Reporters : (On(x, r)' => On(x, r)) /\ item'[x] = item[x] /\ todo'[x] = todo[x]
      BY <1>1 DEF On
    <3> QED BY <1>4, <2>2, <3>1, <3>2, <3>3 DEF ApiInv
  <2> QED BY <2>1, <2>2
<1> QED BY <1>5, <1>6

\* The parameters of both ways to begin.
LEMMA Beginnings ==
  ASSUME TaskInv, NEW t \in Users, NEW s \in Registered
  PROVE  /\ RegisterService(t, s) =>
              \E api \in Apis : /\ Begins(t, s, "register", api) /\ doing[t] = "idle"
                                /\ services' = [services EXCEPT ![s] = api] /\ services'[s] = api
         /\ UnregisterService(t, s) =>
              /\ services[s] \in Apis /\ Begins(t, s, "unregister", services[s]) /\ doing[t] = "idle" /\ UNCHANGED services
<1>1. services \in [Ids -> Apis \cup {Absent}] /\ s \in Ids
  BY DEF TaskInv, StoreTypeOK, Ids
<1>2. ASSUME RegisterService(t, s)
      PROVE  \E api \in Apis : /\ Begins(t, s, "register", api) /\ doing[t] = "idle"
                               /\ services' = [services EXCEPT ![s] = api] /\ services'[s] = api
  <2>1. PICK o \in Offers[s], ow \in BOOLEAN :
          /\ AddService(s, ApiOf(o, NoCaller), ow) /\ ~Refused(s, ow) /\ Begins(t, s, "register", ApiOf(o, NoCaller))
    BY <1>2 DEF RegisterService
  <2>2. ApiOf(o, NoCaller) \in Apis
    BY <1>1, OfferedApi
  <2> QED BY <1>1, <1>2, <2>1, <2>2 DEF AddService, RegisterService
<1>3. ASSUME UnregisterService(t, s)
      PROVE  services[s] \in Apis /\ Begins(t, s, "unregister", services[s]) /\ doing[t] = "idle" /\ UNCHANGED services
  BY <1>1, <1>3 DEF UnregisterService, Stored
<1> QED BY <1>2, <1>3

\* Reporter t takes up all services the client has.
LEMMA ListWork ==
  ASSUME TaskInv, FailedType, RestType, FitsInv, SoleInv, ApiInv, NEW t \in Reporters, ReporterHasManager(t)
  PROVE  SoleInv' /\ ApiInv'
<1>1. PICK list \in SUBSET Items : list = {[id |-> s, api |-> services[s]] : s \in Listed} /\ Proceeded(t, list, FALSE)
  BY ReporterMoves
<1> USE TasksDiffer DEF Tasks
<1>2. /\ \A x \in Tasks \ {t} : item'[x] = item[x]
      /\ \A x \in Reporters \ {t} : todo'[x] = todo[x]
  BY <1>1 DEF Proceeded
<1>3. item'[t] \in list \cup {Absent} /\ todo'[t] \subseteq list
  <2>1. CASE list # {}
    BY <1>1, <2>1 DEF Proceeded
  <2>2. CASE list = {}
    BY <1>1, <2>2 DEF Proceeded
  <2> QED BY <2>1, <2>2
<1>4. \A i \in list : i.id \in Listed /\ i.api = services[i.id]
  BY <1>1
<1>5. raced' = raced \cup (Busy \cap Listed) /\ UNCHANGED <<services, job>>
  BY DEF ReporterHasManager, storeVars
<1>6. \A x \in Tasks \ {t}, r \in Registered : WorksOn(x, r)' <=> WorksOn(x, r)
  BY <1>2 DEF WorksOn
<1>7. \A r \in Registered : WorksOn(t, r)' => r \in Listed
  BY <1>3, <1>4 DEF WorksOn
<1>8. \A r \in Registered \ raced' : r \notin raced /\ (r \in Listed => \A x \in Tasks : ~WorksOn(x, r))
  BY <1>5 DEF Busy
<1>9. SoleInv'
  BY <1>6, <1>7, <1>8 DEF SoleInv
<1>10. ApiInv'
  <2> SUFFICES ASSUME NEW r \in Registered, r \notin raced'
               PROVE  /\ \A x \in Users : On(x, r)' /\ job'[x] = "register" => services'[r] = item'[x].api
                      /\ \A x \in Reporters : /\ On(x, r)' => services'[r] = item'[x].api
                                              /\ \A i \in todo'[x] : i.id = r => services'[r] = i.api
    BY DEF ApiInv
  <2>1. /\ On(t, r)' => services'[r] = item'[t].api
        /\ \A i \in todo'[t] : i.id = r => services'[r] = i.api
    BY <1>3, <1>4, <1>5 DEF On
  <2>2. \A x \in Reporters \ {t} : (On(x, r)' => On(x, r)) /\ item'[x] = item[x] /\ todo'[x] = todo[x]
    BY <1>2 DEF On
  <2>3. \A x \in Users : (On(x, r)' => On(x, r)) /\ item'[x] = item[x]
    BY <1>2 DEF On
  <2> QED BY <1>5, <1>8, <2>1, <2>2, <2>3 DEF ApiInv
<1> QED BY <1>9, <1>10

\* A service that nobody works on when the connection breaks leaves raced.
LEMMA LossWork ==
  ASSUME TaskInv, SoleInv, ApiInv, LinkLost
  PROVE  SoleInv' /\ ApiInv'
<1>1. UNCHANGED <<item, job, todo, services>> /\ raced' = raced \cap Busy
  BY DEF LinkLost, storeVars
<1>2. \A x \in Tasks, r \in Registered : (WorksOn(x, r)' <=> WorksOn(x, r)) /\ (On(x, r)' <=> On(x, r))
  BY <1>1 DEF WorksOn, On
<1>3. \A r \in Registered \ raced' : r \notin raced \/ \A x \in Tasks : ~WorksOn(x, r)
  BY <1>1 DEF Busy
<1>4. SoleInv'
  BY <1>2, <1>3 DEF SoleInv
<1>5. \A x \in Tasks, r \in Registered : ~WorksOn(x, r) => ~On(x, r) /\ (x \in Reporters => \A i \in todo[x] : i.id # r)
  BY DEF WorksOn, On
<1>6. ApiInv'
  <2> SUFFICES ASSUME NEW r \in Registered, r \notin raced'
               PROVE  /\ \A x \in Users : On(x, r)' /\ job'[x] = "register" => services'[r] = item'[x].api
                      /\ \A x \in Reporters : /\ On(x, r)' => services'[r] = item'[x].api
                                              /\ \A i \in todo'[x] : i.id = r => services'[r] = i.api
    BY DEF ApiInv
  <2> QED BY <1>1, <1>2, <1>3, <1>5 DEF ApiInv, Tasks
<1> QED BY <1>4, <1>6

\* The user's task unregisters the service; nobody else works on it unless it is raced.
LEMMA UnregisterWork ==
  ASSUME TaskInv, FitsInv, FailedType, RestType, SoleInv, ApiInv, NEW t \in Users, Unregisters(t)
  PROVE  /\ item[t] \in Items /\ item'[t] = Absent
         /\ services' = [s \in Ids |-> IF s = item[t].id THEN Absent ELSE services[s]]
         /\ ApiInv'
<1> USE TasksDiffer DEF Tasks
<1>1. item[t] \in Items /\ item' = [item EXCEPT ![t] = Absent] /\ item \in [Tasks -> Items \cup {Absent}]
  BY DEF Unregisters, Got, FitsInv, TaskInv, UserEnds
<1>2. services' = [s \in Ids |-> IF s = item[t].id THEN Absent ELSE services[s]]
  BY DEF Unregisters, RemoveServices, Without
<1>3. /\ UNCHANGED <<todo, raced>> /\ \A x \in Users \ {t} : job'[x] = job[x]
  BY DEF Unregisters, UserEnds, TaskInv
<1>4. ApiInv'
  <2> SUFFICES ASSUME NEW r \in Registered, r \notin raced'
               PROVE  /\ \A x \in Users : On(x, r)' /\ job'[x] = "register" => services'[r] = item'[x].api
                      /\ \A x \in Reporters : /\ On(x, r)' => services'[r] = item'[x].api
                                              /\ \A i \in todo'[x] : i.id = r => services'[r] = i.api
    BY DEF ApiInv
  <2>1. \A x \in Tasks : (On(x, r)' => On(x, r)) /\ (x # t => item'[x] = item[x]) /\ ~On(t, r)'
    BY <1>1 DEF On
  <2>2. CASE r = item[t].id
    <3>1. WorksOn(t, r)
      BY <1>1, <2>2, ItemsAssumption DEF WorksOn, ItemsAssumption
    <3>2. \A x \in Tasks \ {t} : ~On(x, r) /\ (x \in Reporters => \A i \in todo[x] : i.id # r)
      BY <1>3, <3>1 DEF SoleInv, WorksOn, On
    <3> QED BY <1>3, <2>1, <3>2
  <2>3. CASE r # item[t].id
    <3>1. services'[r] = services[r]
      BY <1>2, <2>3 DEF Ids
    <3> QED BY <1>3, <2>1, <3>1 DEF ApiInv
  <2> QED BY <2>2, <2>3
<1> QED BY <1>1, <1>2, <1>4

LEMMA WorkStep ==
  TaskInv /\ FailedType /\ RestType /\ FitsInv /\ SoleInv /\ ApiInv /\ [Next]_vars => SoleInv' /\ ApiInv'
<1> SUFFICES ASSUME TaskInv, FailedType, RestType, FitsInv, SoleInv, ApiInv, [Next]_vars PROVE SoleInv' /\ ApiInv'
  OBVIOUS
<1>n. ASSUME Narrows, raced' = raced, UNCHANGED services PROVE SoleInv' /\ ApiInv'
  BY <1>n, NarrowSole, NarrowApi
<1>1. ASSUME NEW t \in Tasks, Serve(t) \/ Refuse(t) \/ GivesUp(t) \/ FetchAgain(t) PROVE SoleInv' /\ ApiInv'
  <2>1. Narrows
    BY <1>1, TaskNarrows
  <2> QED BY <1>1, <2>1, <1>n DEF Serve, Refuse, GivesUp, FetchAgain, storeVars, ghostVars
<1>2. ASSUME NEW t \in Users, UserStep(t) PROVE SoleInv' /\ ApiInv'
  <2>1. Narrows
    BY <1>2, TaskNarrows
  <2>2. CASE UserHasManager(t) \/ Registers(t) \/ UserFails(t)
    BY <2>1, <2>2, <1>n DEF UserHasManager, Registers, UserFails, UserEnds, storeVars, ghostVars
  <2>3. CASE Unregisters(t)
    <3>1. raced' = raced
      BY <2>3 DEF Unregisters, UserEnds
    <3> QED BY <2>1, <2>3, <3>1, UnregisterWork, NarrowSole
  <2> QED BY <1>2, <2>2, <2>3 DEF UserStep
<1>3. ASSUME NEW t \in Reporters, ReporterStep(t) PROVE SoleInv' /\ ApiInv'
  <2>1. CASE ReporterHasManager(t)
    BY <2>1, ListWork
  <2>2. CASE ReporterGoesOn(t) \/ ReporterEnds(t)
    <3>1. Narrows
      BY <2>2, TaskNarrows
    <3> QED BY <2>2, <3>1, <1>n DEF ReporterGoesOn, ReporterEnds, storeVars, ghostVars
  <2> QED BY <1>3, <2>1, <2>2 DEF ReporterStep
<1>4. ASSUME Connects PROVE SoleInv' /\ ApiInv'
  <2>1. Narrows
    BY <1>4, TaskNarrows
  <2> QED BY <1>4, <2>1, <1>n DEF Connects, storeVars, ghostVars
<1>5. ASSUME NEW s \in Registered, RegisterRefused(s) PROVE SoleInv' /\ ApiInv'
  BY <1>5, <1>n, IdleNarrows DEF RegisterRefused, taskVars, ghostVars, AddService
<1>6. ASSUME NEW t \in Users, NEW s \in Registered, RegisterService(t, s) PROVE SoleInv' /\ ApiInv'
  <2>1. PICK api \in Apis : /\ Begins(t, s, "register", api) /\ doing[t] = "idle"
                            /\ services' = [services EXCEPT ![s] = api] /\ services'[s] = api
    BY <1>6, Beginnings
  <2>2. \A r \in Registered \ {s} : services'[r] = services[r]
    BY <2>1 DEF TaskInv, StoreTypeOK, Ids
  <2> QED BY <2>1, <2>2, BeginsWork
<1>7. ASSUME NEW t \in Users, NEW s \in Registered, UnregisterService(t, s) PROVE SoleInv' /\ ApiInv'
  <2>1. services[s] \in Apis /\ Begins(t, s, "unregister", services[s]) /\ doing[t] = "idle" /\ UNCHANGED services
    BY <1>7, Beginnings
  <2> QED BY <2>1, BeginsWork
<1>8. CASE LinkLost
  BY <1>8, LossWork
<1>9. CASE LinkRestored
  BY <1>9, <1>n, IdleNarrows DEF LinkRestored, storeVars
<1>10. CASE UNCHANGED vars
  BY <1>10, <1>n, IdleNarrows DEF vars, taskVars, storeVars, ghostVars
<1> QED
  BY <1>1, <1>2, <1>3, <1>4, <1>5, <1>6, <1>7, <1>8, <1>9, <1>10 DEF Next, Step

-----------------------------------------------------------------------------
(* What the manager knows *)

\* The reporter of this connection will still report s, or the services as a whole are
\* not reported any more.
Covered(s) ==
  /\ ~reported
  /\ \/ doing[current] # "register" \/ failed[current]
     \/ item[current].id = s /\ stage[current] # "served"
     \/ \E i \in todo[current] : i.id = s

\* A user's task will still register s, or remove it from the client, too.
UserCovers(s) == \E t \in Users : On(t, s) /\ (Got(t, "unregister") \/ (job[t] = "register" /\ ~Got(t, "register")))

\* A service the manager does not know is in somebody's hands.
KnownAt(s) == link /\ Stored(s) /\ s \notin unsure => registry[s] # Absent \/ UserCovers(s) \/ Covered(s)

\* Unless a user's task works on s, the manager knows it as the client has it, or not at
\* all as long as it has still to be reported.
AgreeAt(s) ==
  s \notin raced \cup unsure =>
    /\ \A t \in Users : On(t, s) => /\ Got(t, "register") => registry[s] = services[s]
                                    /\ Got(t, "unregister") => registry[s] = Absent
    /\ link /\ (\A t \in Users : ~On(t, s)) =>
         registry[s] = services[s] \/ (registry[s] = Absent /\ Stored(s) /\ Covered(s))

TruthInv == \A s \in Registered : KnownAt(s) /\ AgreeAt(s)

\* The users' tasks have the same in hand and the same answers.
UsersStay ==
  \A t \in Users : /\ item'[t] = item[t] /\ job'[t] = job[t]
                   /\ Got(t, "register")' <=> Got(t, "register")
                   /\ Got(t, "unregister")' <=> Got(t, "unregister")

\* Steps that change neither side, nor what is in the users' hands.
LEMMA TruthQuiet ==
  ASSUME TruthInv, UsersStay, UNCHANGED <<services, registry>>, link' => link, raced \subseteq raced', unsure \subseteq unsure',
         \A s \in Registered : link /\ Stored(s) /\ Covered(s) => Covered(s)'
  PROVE  TruthInv'
<1>1. \A t \in Users, s \in Registered : On(t, s)' <=> On(t, s)
  BY DEF UsersStay, On
<1>2. \A s \in Registered : (UserCovers(s)' <=> UserCovers(s)) /\ (Stored(s)' <=> Stored(s))
  BY <1>1 DEF UsersStay, UserCovers, Stored
<1>3. \A s \in Registered : KnownAt(s)'
  BY <1>2 DEF TruthInv, KnownAt
<1>4. \A s \in Registered : AgreeAt(s)'
  BY <1>1, <1>2 DEF TruthInv, AgreeAt, UsersStay
<1> QED BY <1>3, <1>4 DEF TruthInv

\* The reporter of this connection is as far as it was.
LEMMA CoveredStays ==
  ASSUME current' = current, reported' = reported, current \in Reporters,
         item'[current] = item[current], todo'[current] = todo[current], failed'[current] = failed[current],
         doing'[current] # "register" \/ doing'[current] = doing[current],
         stage[current] # "served" => stage'[current] # "served",
         NEW s, Covered(s)
  PROVE  Covered(s)'
BY DEF Covered

\* Reporter t gets on with its list.
LEMMA ListCovers ==
  ASSUME TaskInv, FailedType, RestType, FitsInv, LinkInv, NEW t \in Reporters, ReporterHasManager(t), link,
         NEW s \in Registered, Stored(s), Covered(s)
  PROVE  Covered(s)'
<1>1. PICK list \in SUBSET Items : list = {[id |-> r, api |-> services[r]] : r \in Listed} /\ Proceeded(t, list, FALSE)
  BY ReporterMoves
<1> USE TasksDiffer DEF Tasks
<1>2. current' = current /\ current \in Reporters
  BY <1>1 DEF Proceeded, LinkInv
<1>3. [id |-> s, api |-> services[s]] \in list
  BY <1>1 DEF Listed
<1>4. PICK i \in list : item'[t] = i /\ todo'[t] = list \ {i}
  BY <1>1, <1>3 DEF Proceeded
<1>5. doing'[t] = "register" /\ reported' = reported /\ stage'[t] # "served"
  BY <1>1, <1>3 DEF Proceeded, OnItsWay
<1>6. CASE t = current
  BY <1>2, <1>3, <1>4, <1>5, <1>6 DEF Covered
<1>7. CASE t # current
  <2>1. /\ item'[current] = item[current] /\ todo'[current] = todo[current] /\ failed'[current] = failed[current]
        /\ doing'[current] = doing[current] /\ stage'[current] = stage[current]
    BY <1>1, <1>2, <1>7 DEF Proceeded
  <2> QED BY <1>2, <1>5, <2>1, CoveredStays
<1> QED BY <1>6, <1>7

LEMMA GoesOnCovers ==
  ASSUME TaskInv, FailedType, RestType, FitsInv, LinkInv, NEW t \in Reporters, ReporterGoesOn(t), link,
         NEW s \in Registered, Covered(s)
  PROVE  Covered(s)'
<1>1. PICK bad \in BOOLEAN : /\ Proceeded(t, todo[t], bad)
                             /\ bad \/ (Got(t, "register") /\ bad = failed[t])
  BY ReporterMoves
<1> USE TasksDiffer DEF Tasks
<1>2. current' = current /\ current \in Reporters
  BY <1>1 DEF Proceeded, LinkInv
<1>3. doing[t] = "register"
  BY DEF ReporterGoesOn, Got, Failed
<1>4. stage'[t] # "served" /\ failed'[t] = bad
  BY <1>1 DEF Proceeded, OnItsWay
<1>5. CASE t = current
  <2>1. bad \/ \E i \in todo[t] : i.id = s
    BY <1>1, <1>3, <1>5 DEF Covered, Got
  <2>2. ~reported
    BY DEF Covered
  <2>3. CASE todo[t] = {}
    BY <1>1, <1>2, <1>5, <2>1, <2>3 DEF Proceeded, Covered
  <2>4. CASE todo[t] # {}
    <3>1. PICK i \in todo[t] : item'[t] = i /\ todo'[t] = todo[t] \ {i}
      BY <1>1, <2>4 DEF Proceeded
    <3>2. reported' = reported
      BY <1>1, <2>4 DEF Proceeded
    <3> QED BY <1>2, <1>4, <1>5, <2>1, <2>2, <3>1, <3>2 DEF Covered
  <2> QED BY <2>3, <2>4
<1>6. CASE t # current
  <2>1. /\ item'[current] = item[current] /\ todo'[current] = todo[current] /\ failed'[current] = failed[current]
        /\ doing'[current] = doing[current] /\ stage'[current] = stage[current]
    BY <1>1, <1>2, <1>6 DEF Proceeded
  <2>2. reported' = reported
    <3>1. CASE todo[t] = {}
      BY <1>1, <1>6, <3>1 DEF Proceeded
    <3>2. CASE todo[t] # {}
      BY <1>1, <1>6, <3>2 DEF Proceeded
    <3> QED BY <3>1, <3>2
  <2> QED BY <1>2, <2>1, <2>2, CoveredStays
<1> QED BY <1>5, <1>6

\* Of a step of task t on service r the other services and their tasks see nothing.
Elsewhere(t, r) ==
  /\ link' = link /\ raced \ {r} \subseteq raced' /\ unsure \ {r} \subseteq unsure'
  /\ \A s \in Registered \ {r} : registry'[s] = registry[s] /\ services'[s] = services[s]
  /\ \A x \in Users \ {t} : /\ item'[x] = item[x] /\ job'[x] = job[x]
                            /\ Got(x, "register")' <=> Got(x, "register")
                            /\ Got(x, "unregister")' <=> Got(x, "unregister")
  /\ \A s \in Registered \ {r} : (t \in Users => ~On(t, s) /\ ~On(t, s)') /\ (Covered(s) => Covered(s)')

LEMMA TruthElsewhere ==
  ASSUME TruthInv, NEW t, NEW r, Elsewhere(t, r), KnownAt(r)', AgreeAt(r)'
  PROVE  TruthInv'
<1> SUFFICES ASSUME NEW s \in Registered, s # r PROVE KnownAt(s)' /\ AgreeAt(s)'
  BY DEF TruthInv
<1>1. \A x \in Users : On(x, s)' <=> On(x, s)
  BY DEF Elsewhere, On
<1>2. UserCovers(s) => UserCovers(s)'
  BY <1>1 DEF Elsewhere, UserCovers
<1>3. Stored(s)' <=> Stored(s)
  BY DEF Elsewhere, Stored
<1>4. KnownAt(s) /\ AgreeAt(s)
  BY DEF TruthInv
<1>5. KnownAt(s)'
  BY <1>2, <1>3, <1>4 DEF Elsewhere, KnownAt
<1>6. \A x \in Users : On(x, s) => /\ Got(x, "register")' <=> Got(x, "register")
                                   /\ Got(x, "unregister")' <=> Got(x, "unregister")
  BY DEF Elsewhere
<1>7. AgreeAt(s)'
  BY <1>1, <1>3, <1>4, <1>6 DEF Elsewhere, AgreeAt
<1> QED BY <1>5, <1>7

\* The manager carries out what it was asked for.
LEMMA ServeTruth ==
  ASSUME TaskInv, FailedType, RestType, FitsInv, LinkInv, SoleInv, ApiInv, TruthInv, NEW t \in Tasks, Serve(t)
  PROVE  TruthInv'
<1>a. /\ stage \in [Tasks -> {"none", "waiting", "sent", "served", "refused", "lost"}]
      /\ registry \in [Registered -> Apis \cup {Absent}]
  BY DEF RestType
<1>b. /\ UNCHANGED <<services, item, todo, job, failed, doing, link, raced, current, reported>>
      /\ stage[t] = "sent" /\ stage' = [stage EXCEPT ![t] = "served"]
  BY DEF Serve, storeVars, linkVars
<1>c. link /\ current \in Reporters
  BY <1>b DEF LinkInv
<1>d. \A s : On(t, s)' <=> On(t, s)
  BY <1>b DEF On
<1>1. CASE doing[t] \notin {"register", "unregister"}
  <2>1. UNCHANGED <<registry, unsure>>
    BY <1>1 DEF Serve
  <2>2. UsersStay
    BY <1>a, <1>b, <1>1 DEF UsersStay, Got
  <2>3. ASSUME NEW s \in Registered, Covered(s) PROVE Covered(s)'
    BY <1>a, <1>b, <1>c, <1>1, <2>3 DEF Covered
  <2> QED BY <1>b, <2>1, <2>2, <2>3, TruthQuiet
<1>2. CASE doing[t] \in {"register", "unregister"}
  <2>1. item[t] \in Items /\ t # Connector /\ item[t] # Absent
    BY <1>2, TasksDiffer, ItemsAssumption DEF FitsInv, TaskInv, Tasks, ItemsAssumption, Named
  <2>0. item[t].id \in Registered /\ item[t].api \in Apis
    BY <2>1 DEF Items
  <2>2. PICK r \in Registered : r = item[t].id /\ item[t].api \in Apis
    BY <2>0
  <2>3. ASSUME NEW s \in Registered, s # r PROVE ~On(t, s)
    BY <2>2, <2>3 DEF On
  <2>4. ASSUME NEW s \in Registered, s # r, Covered(s) PROVE Covered(s)'
    BY <1>a, <1>b, <1>c, <2>2, <2>4 DEF Covered
  <2>5. \A x \in Users \ {t} : /\ Got(x, "register")' <=> Got(x, "register")
                               /\ Got(x, "unregister")' <=> Got(x, "unregister")
    BY <1>a, <1>b DEF Got, Tasks
  <2>6. /\ registry' = [registry EXCEPT ![r] = IF doing[t] = "register" THEN item[t].api ELSE Absent]
        /\ unsure' = IF doing[t] = "register" THEN unsure \ {r} ELSE unsure
    BY <1>2, <2>2 DEF Serve
  <2>7. Elsewhere(t, r)
    <3> QED BY <1>a, <1>b, <1>d, <2>2, <2>3, <2>4, <2>5, <2>6 DEF Elsewhere
  <2>8. On(t, r) /\ WorksOn(t, r)
    BY <2>1, <2>2 DEF On, WorksOn
  <2>9. Got(t, doing[t])' /\ registry'[r] = IF doing[t] = "register" THEN item[t].api ELSE Absent
    <3> QED BY <1>a, <1>b, <2>2, <2>6 DEF Got
  <2>10. doing[t] = "unregister" => t \in Users
    BY TasksDiffer DEF FitsInv, Tasks
  <2>11. KnownAt(r)'
    <3>1. CASE doing[t] = "register"
      <4>1. registry'[r] # Absent
        BY <2>2, <2>9, <3>1, AbsentAssumption DEF AbsentAssumption
      <4> QED BY <1>b, <4>1 DEF KnownAt
    <3>2. CASE doing[t] = "unregister"
      <4>1. UserCovers(r)'
        BY <1>b, <1>d, <2>8, <2>9, <2>10, <3>2 DEF UserCovers
      <4> QED BY <1>b, <4>1 DEF KnownAt
    <3> QED BY <1>2, <3>1, <3>2
  <2>12. ASSUME r \notin raced
         PROVE  /\ \A x \in Users : On(x, r) => x = t
                /\ doing[t] = "register" => item[t].api = services[r]
    <3>1. \A x \in Users : On(x, r) => WorksOn(x, r)
      BY DEF On, WorksOn
    <3>2. \A x \in Users : On(x, r) => x = t
      BY <2>2, <2>8, <2>12, <3>1 DEF SoleInv, Tasks
    <3>3. ASSUME doing[t] = "register" PROVE item[t].api = services[r]
      <4>1. CASE t \in Users
        <5>1. job[t] = "register"
          BY <3>3, <4>1 DEF FitsInv
        <5> QED BY <2>2, <2>8, <2>12, <4>1, <5>1 DEF ApiInv
      <4>2. CASE t \in Reporters
        BY <2>2, <2>8, <2>12, <4>2 DEF ApiInv
      <4> QED BY <2>1, <4>1, <4>2 DEF Tasks
    <3> QED BY <3>2, <3>3
  <2>13. AgreeAt(r)'
    <3> SUFFICES ASSUME r \notin raced
                 PROVE  /\ \A x \in Users : On(x, r)' => /\ Got(x, "register")' => registry'[r] = services'[r]
                                                         /\ Got(x, "unregister")' => registry'[r] = Absent
                        /\ (\A x \in Users : ~On(x, r)') => registry'[r] = services'[r]
      <4> QED BY <1>b DEF AgreeAt
    <3>1. ASSUME NEW x \in Users, On(x, r)'
          PROVE  /\ Got(x, "register")' => registry'[r] = services'[r]
                 /\ Got(x, "unregister")' => registry'[r] = Absent
      <4>1. x = t
        BY <1>b, <2>12, <3>1 DEF On
      <4> QED BY <1>b, <2>9, <2>12, <4>1 DEF Got
    <3>2. ASSUME \A x \in Users : ~On(x, r)' PROVE registry'[r] = services'[r]
      <4>1. t \notin Users
        BY <1>d, <2>8, <3>2
      <4> QED BY <1>2, <1>b, <2>9, <2>10, <2>12, <4>1
    <3> QED BY <3>1, <3>2
  <2> QED BY <2>7, <2>11, <2>13, TruthElsewhere
<1> QED BY <1>1, <1>2

\* The task of a user ends; if the service is not in unsure, both sides agree on it.
LEMMA UserEndTruth ==
  ASSUME TaskInv, FailedType, RestType, FitsInv, LinkInv, SoleInv, ApiInv, TruthInv, NEW t \in Users,
         item[t] \in Items, item' = [item EXCEPT ![t] = Absent], \A x \in Users \ {t} : job'[x] = job[x],
         doing' = [doing EXCEPT ![t] = "idle"], stage' = [stage EXCEPT ![t] = "none"],
         UNCHANGED <<link, raced, registry, todo, failed, current, reported>>,
         \A s \in Registered \ {item[t].id} : services'[s] = services[s],
         \/ unsure' = unsure \cup {item[t].id}
         \/ unsure' = unsure /\ Got(t, "register") /\ UNCHANGED services
         \/ unsure' = unsure /\ Got(t, "unregister") /\ services'[item[t].id] = Absent
  PROVE  TruthInv'
<1> USE TasksDiffer DEF Tasks
<1>a. /\ stage \in [Tasks -> {"none", "waiting", "sent", "served", "refused", "lost"}]
      /\ doing \in [Tasks -> {"idle", "event", "manager", "register", "unregister", "subscribe"}]
      /\ item \in [Tasks -> Items \cup {Absent}]
  BY DEF RestType, TaskInv
<1>1. item[t].id \in Registered
  BY DEF Items
<1>2. PICK r \in Registered : r = item[t].id
  BY <1>1
<1>3. \A s \in Registered : (On(t, s) <=> s = r) /\ ~On(t, s)' /\ \A x \in Users \ {t} : On(x, s)' <=> On(x, s)
  BY <1>2, <1>a, ItemsAssumption DEF On, ItemsAssumption
<1>4. \A x \in Users \ {t} : /\ Got(x, "register")' <=> Got(x, "register")
                             /\ Got(x, "unregister")' <=> Got(x, "unregister")
  BY <1>a DEF Got
<1>5. ASSUME NEW s \in Registered, link, Covered(s) PROVE Covered(s)'
  <2>1. current \in Reporters /\ current # t
    BY <1>5 DEF LinkInv
  <2> QED BY <1>a, <1>5, <2>1, CoveredStays
<1>6. ASSUME link PROVE Elsewhere(t, r)
  BY <1>2, <1>3, <1>4, <1>5, <1>6, <1>a DEF Elsewhere
<1>7. ASSUME NEW x \in Users, x # t, r \notin raced PROVE ~On(x, r)
  BY <1>3, <1>7 DEF SoleInv, WorksOn, On
<1>8. KnownAt(r)' /\ AgreeAt(r)'
  <2>1. CASE unsure' = unsure \cup {item[t].id}
    BY <1>2, <2>1 DEF KnownAt, AgreeAt
  <2>2. CASE unsure' = unsure /\ Got(t, "register") /\ UNCHANGED services
    <3>1. UserCovers(r) => UserCovers(r)'
      BY <1>3, <1>4, <2>2 DEF UserCovers, Got
    <3>2. KnownAt(r) /\ AgreeAt(r)
      BY DEF TruthInv
    <3>3. KnownAt(r)'
      BY <1>5, <2>2, <3>1, <3>2 DEF KnownAt, Stored
    <3>4. AgreeAt(r)'
      BY <1>3, <1>7, <2>2, <3>2 DEF AgreeAt
    <3> QED BY <3>3, <3>4
  <2>3. CASE unsure' = unsure /\ Got(t, "unregister") /\ services'[item[t].id] = Absent
    <3>1. KnownAt(r)'
      BY <1>2, <2>3 DEF KnownAt, Stored
    <3>2. AgreeAt(r)
      BY DEF TruthInv
    <3>3. AgreeAt(r)'
      BY <1>2, <1>3, <1>7, <2>3, <3>2 DEF AgreeAt
    <3> QED BY <3>1, <3>3
  <2> QED BY <2>1, <2>2, <2>3
<1>9. CASE link
  BY <1>6, <1>8, <1>9, TruthElsewhere
<1>10. CASE ~link
  <2> SUFFICES ASSUME NEW s \in Registered, s # r PROVE KnownAt(s)' /\ AgreeAt(s)'
    BY <1>8 DEF TruthInv
  <2>1. \A x \in Tasks : stage'[x] # "served"
    BY <1>10, <1>a DEF LinkInv
  <2> QED BY <1>10, <2>1 DEF KnownAt, AgreeAt, Got
<1> QED BY <1>9, <1>10

\* A user's task begins to work on s.
LEMMA BeginTruth ==
  ASSUME TaskInv, FailedType, RestType, FitsInv, LinkInv, TruthInv, SoleInv,
         NEW t \in Users, NEW s \in Registered, NEW j \in {"register", "unregister"},
         NEW api \in Apis, Begins(t, s, j, api), doing[t] = "idle",
         \A r \in Registered \ {s} : services'[r] = services[r],
         j = "register" \/ UNCHANGED services
  PROVE  TruthInv'
<1> USE TasksDiffer DEF Tasks
<1>a. /\ stage \in [Tasks -> {"none", "waiting", "sent", "served", "refused", "lost"}]
      /\ doing \in [Tasks -> {"idle", "event", "manager", "register", "unregister", "subscribe"}]
      /\ item \in [Tasks -> Items \cup {Absent}] /\ job \in [Users -> {"none", "register", "unregister"}]
  BY DEF RestType, TaskInv
<1>b. /\ item' = [item EXCEPT ![t] = [id |-> s, api |-> api]] /\ job' = [job EXCEPT ![t] = j]
      /\ doing' = [doing EXCEPT ![t] = "manager"] /\ stage' = [stage EXCEPT ![t] = OnItsWay]
      /\ UNCHANGED <<link, registry, todo, failed, current, reported, unsure>>
      /\ raced' = IF s \in Busy THEN raced \cup {s} ELSE raced
  BY DEF Begins, Ask, linkVars
<1>1. item[t] = Absent /\ [id |-> s, api |-> api] # Absent
  BY ItemsAssumption DEF FitsInv, ItemsAssumption, Items
<1>2. \A r \in Registered : ~On(t, r) /\ (On(t, r)' <=> r = s) /\ \A x \in Users \ {t} : On(x, r)' <=> On(x, r)
  BY <1>1, <1>a, <1>b DEF On
<1>3. \A x \in Users \ {t} : /\ Got(x, "register")' <=> Got(x, "register")
                             /\ Got(x, "unregister")' <=> Got(x, "unregister")
  BY <1>a, <1>b DEF Got
<1>4. ~Got(t, "register")' /\ ~Got(t, "unregister")'
  BY <1>a, <1>b DEF Got
<1>5. ASSUME NEW r \in Registered, link, Covered(r) PROVE Covered(r)'
  <2>1. current \in Reporters /\ current # t
    BY <1>5 DEF LinkInv
  <2> QED BY <1>a, <1>b, <1>5, <2>1, CoveredStays
<1>6. ASSUME link PROVE Elsewhere(t, s)
  BY <1>2, <1>3, <1>5, <1>6, <1>a, <1>b DEF Elsewhere
<1>7. ASSUME NEW x \in Users, x # t, s \notin raced' PROVE ~On(x, s)'
  BY <1>2, <1>b, <1>7 DEF Busy, WorksOn, On
<1>8. AgreeAt(s)'
  BY <1>2, <1>4, <1>7 DEF AgreeAt
<1>9. KnownAt(s)'
  <2>1. CASE j = "register"
    <3>1. UserCovers(s)'
      BY <1>a, <1>b, <1>2, <1>4, <2>1 DEF UserCovers
    <3> QED BY <3>1 DEF KnownAt
  <2>2. CASE UNCHANGED services
    <3>1. UserCovers(s) => UserCovers(s)'
      BY <1>2, <1>3, <1>a, <1>b DEF UserCovers
    <3>2. KnownAt(s)
      BY DEF TruthInv
    <3> QED BY <1>5, <1>b, <2>2, <3>1, <3>2 DEF KnownAt, Stored
  <2> QED BY <2>1, <2>2
<1>10. CASE link
  BY <1>6, <1>8, <1>9, <1>10, TruthElsewhere
<1>11. CASE ~link
  <2> SUFFICES ASSUME NEW r \in Registered, r # s PROVE KnownAt(r)' /\ AgreeAt(r)'
    BY <1>8, <1>9 DEF TruthInv
  <2>1. \A x \in Tasks : stage'[x] # "served"
    BY <1>11, <1>a, <1>b DEF LinkInv, OnItsWay
  <2> QED BY <1>11, <1>b, <2>1 DEF KnownAt, AgreeAt, Got
<1> QED BY <1>10, <1>11

LEMMA TruthStep ==
  TaskInv /\ FailedType /\ RestType /\ FitsInv /\ LinkInv /\ SoleInv /\ ApiInv /\ TruthInv /\ [Next]_vars => TruthInv'
<1> SUFFICES ASSUME TaskInv, FailedType, RestType, FitsInv, LinkInv, SoleInv, ApiInv, TruthInv, [Next]_vars PROVE TruthInv'
  OBVIOUS
<1> USE TasksDiffer DEF Tasks
<1>a. /\ stage \in [Tasks -> {"none", "waiting", "sent", "served", "refused", "lost"}]
      /\ doing \in [Tasks -> {"idle", "event", "manager", "register", "unregister", "subscribe"}]
      /\ item \in [Tasks -> Items \cup {Absent}]
      /\ job \in [Users -> {"none", "register", "unregister"}]
      /\ services \in [Ids -> Apis \cup {Absent}]
  BY DEF RestType, TaskInv, StoreTypeOK
<1>1. ASSUME NEW t \in Tasks, Serve(t) PROVE TruthInv'
  BY <1>1, ServeTruth
<1>2. ASSUME NEW t \in Tasks, Refuse(t) \/ FetchAgain(t) PROVE TruthInv'
  <2>1. UNCHANGED <<services, registry, link, raced, unsure, item, job, todo, failed, current, reported>>
    BY <1>2 DEF Refuse, FetchAgain, storeVars, linkVars, ghostVars
  <2>2. UsersStay
    BY <1>2, <1>a, <2>1 DEF UsersStay, Got, Refuse, FetchAgain, Ask, Failed, OnItsWay
  <2>3. ASSUME NEW s \in Registered, link, Covered(s) PROVE Covered(s)'
    BY <1>2, <1>a, <2>1, <2>3, CoveredStays DEF Refuse, FetchAgain, Ask, LinkInv, OnItsWay
  <2> QED BY <2>1, <2>2, <2>3, TruthQuiet
<1>3. ASSUME NEW t \in Tasks, GivesUp(t) PROVE TruthInv'
  <2>0. /\ UNCHANGED <<services, registry, link, raced, todo, failed, current, reported>> /\ doing[t] = "manager"
        /\ doing' = [doing EXCEPT ![t] = "idle"] /\ stage' = [stage EXCEPT ![t] = "none"]
        /\ item' = [item EXCEPT ![t] = Absent]
        /\ job' = [u \in Users |-> IF u = t THEN "none" ELSE job[u]]
        /\ unsure' = IF t \in Users THEN unsure \cup {item[t].id} ELSE unsure
    BY <1>3 DEF GivesUp, Failed, Ends, storeVars, linkVars
  <2>1. CASE t \in Users
    <3>1. item[t] \in Items
      BY <1>a, <2>0, <2>1 DEF FitsInv
    <3> QED BY <2>0, <2>1, <3>1, UserEndTruth
  <2>2. CASE t \notin Users
    <3>1. UsersStay
      BY <1>a, <2>0, <2>2 DEF UsersStay, Got
    <3>2. ASSUME NEW s \in Registered, link, Covered(s) PROVE Covered(s)'
      BY <1>a, <2>0, <2>2, <3>2 DEF Covered, LinkInv
    <3> QED BY <2>0, <2>2, <3>1, <3>2, TruthQuiet
  <2> QED BY <2>1, <2>2
<1>4. ASSUME NEW t \in Users, UserStep(t) PROVE TruthInv'
  <2>1. CASE UserHasManager(t)
    <3>1. /\ UNCHANGED <<services, registry, link, raced, unsure, item, job, todo, failed, current, reported>>
          /\ doing[t] = "manager" /\ doing' = [doing EXCEPT ![t] = job[t]] /\ stage' = [stage EXCEPT ![t] = OnItsWay]
      BY <2>1 DEF UserHasManager, Ask, Got, storeVars, linkVars, ghostVars
    <3>2. UsersStay
      BY <1>a, <3>1 DEF UsersStay, Got, OnItsWay
    <3>3. ASSUME NEW s \in Registered, link, Covered(s) PROVE Covered(s)'
      BY <1>a, <3>1, <3>3, CoveredStays DEF LinkInv
    <3> QED BY <3>1, <3>2, <3>3, TruthQuiet
  <2>2. CASE Registers(t) \/ Unregisters(t) \/ UserFails(t)
    <3>0. UserEnds(t) /\ doing[t] # "idle"
      BY <2>2 DEF Registers, Unregisters, UserFails, Got, Failed
    <3>1. item[t] \in Items
      BY <1>a, <3>0 DEF FitsInv
    <3>2. /\ UNCHANGED <<link, raced, registry, todo, failed, current, reported>>
          /\ doing' = [doing EXCEPT ![t] = "idle"] /\ stage' = [stage EXCEPT ![t] = "none"]
          /\ item' = [item EXCEPT ![t] = Absent] /\ \A x \in Users \ {t} : job'[x] = job[x]
      BY <1>a, <3>0 DEF UserEnds, Ends, linkVars
    <3>3. CASE Registers(t) \/ UserFails(t)
      BY <3>1, <3>2, <3>3, UserEndTruth DEF Registers, UserFails
    <3>4. CASE Unregisters(t)
      <4>1. services' = [s \in Ids |-> IF s = item[t].id THEN Absent ELSE services[s]]
        BY <3>4, UnregisterWork
      <4>2. /\ services'[item[t].id] = Absent
            /\ \A s \in Registered \ {item[t].id} : services'[s] = services[s]
        BY <3>1, <4>1 DEF Items, Ids
      <4> QED BY <3>1, <3>2, <3>4, <4>2, UserEndTruth DEF Unregisters
    <3> QED BY <2>2, <3>3, <3>4
  <2> QED BY <1>4, <2>1, <2>2 DEF UserStep
<1>5. ASSUME NEW t \in Reporters, ReporterStep(t) PROVE TruthInv'
  <2>1. CASE ReporterHasManager(t) \/ ReporterGoesOn(t)
    <3>1. PICK rest \in SUBSET Items, bad \in BOOLEAN : Proceeded(t, rest, bad)
      BY <2>1, ReporterMoves
    <3>2. UNCHANGED <<services, registry, link, unsure, job>> /\ raced \subseteq raced'
      BY <2>1 DEF ReporterHasManager, ReporterGoesOn, storeVars, linkVars
    <3>3. UsersStay
      BY <3>1, <3>2 DEF Proceeded, UsersStay, Got
    <3>4. ASSUME NEW s \in Registered, link, Stored(s), Covered(s) PROVE Covered(s)'
      BY <2>1, <3>4, ListCovers, GoesOnCovers
    <3> QED BY <3>2, <3>3, <3>4, TruthQuiet
  <2>2. CASE ReporterEnds(t)
    <3>1. /\ UNCHANGED <<services, registry, link, raced, unsure, item, job, todo, failed, current, reported>>
          /\ doing[t] = "subscribe" /\ doing' = [doing EXCEPT ![t] = "idle"] /\ stage' = [stage EXCEPT ![t] = "none"]
      BY <2>2 DEF ReporterEnds, Ends, Got, Failed, storeVars, linkVars, ghostVars
    <3>2. UsersStay
      BY <1>a, <3>1 DEF UsersStay, Got
    <3>3. ASSUME NEW s \in Registered, link, Covered(s) PROVE Covered(s)'
      BY <1>a, <3>1, <3>3, CoveredStays DEF LinkInv
    <3> QED BY <3>1, <3>2, <3>3, TruthQuiet
  <2> QED BY <1>5, <2>1, <2>2 DEF ReporterStep
<1>6. ASSUME Connects PROVE TruthInv'
  <2>1. /\ UNCHANGED <<services, registry, link, raced, unsure, item, job, todo, failed, current, reported>>
        /\ doing' = [doing EXCEPT ![Connector] = "idle"] /\ stage' = [stage EXCEPT ![Connector] = "none"]
    BY <1>6 DEF Connects, Ends, storeVars, linkVars, ghostVars
  <2>2. UsersStay
    BY <1>a, <2>1 DEF UsersStay, Got
  <2>3. ASSUME NEW s \in Registered, link, Covered(s) PROVE Covered(s)'
    BY <1>a, <2>1, <2>3, CoveredStays DEF LinkInv
  <2> QED BY <2>1, <2>2, <2>3, TruthQuiet
<1>7. ASSUME NEW r \in Registered, RegisterRefused(r) PROVE TruthInv'
  <2>1. UNCHANGED <<services, registry, link, raced, unsure, item, job, todo, failed, current, reported, doing, stage>>
    BY <1>7 DEF RegisterRefused, AddService, linkVars, taskVars, ghostVars
  <2>2. UsersStay
    BY <2>1 DEF UsersStay, Got
  <2>3. ASSUME NEW s \in Registered, Covered(s) PROVE Covered(s)'
    BY <2>1, <2>3 DEF Covered
  <2> QED BY <2>1, <2>2, <2>3, TruthQuiet
<1>8. ASSUME NEW t \in Users, NEW s \in Registered, RegisterService(t, s) PROVE TruthInv'
  <2>1. PICK api \in Apis : /\ Begins(t, s, "register", api) /\ doing[t] = "idle"
                            /\ services' = [services EXCEPT ![s] = api] /\ services'[s] = api
    BY <1>8, Beginnings
  <2>2. \A r \in Registered \ {s} : services'[r] = services[r]
    BY <1>a, <2>1 DEF Ids
  <2> QED BY <2>1, <2>2, BeginTruth
<1>9. ASSUME NEW t \in Users, NEW s \in Registered, UnregisterService(t, s) PROVE TruthInv'
  <2>1. services[s] \in Apis /\ Begins(t, s, "unregister", services[s]) /\ doing[t] = "idle" /\ UNCHANGED services
    BY <1>9, Beginnings
  <2> QED BY <2>1, BeginTruth
<1>10. CASE LinkLost
  <2>1. ~link' /\ \A t \in Users : stage'[t] # "served"
    BY <1>10, <1>a DEF LinkLost
  <2> QED BY <2>1 DEF TruthInv, KnownAt, AgreeAt, Got
<1>11. CASE LinkRestored
  <2>1. PICK t \in Reporters : doing' = [doing EXCEPT ![t] = "manager"] /\ current' = t
    BY <1>11 DEF LinkRestored
  <2>2. UNCHANGED <<services, registry, reported>> /\ ~link
    BY <1>11 DEF LinkRestored, storeVars
  <2>3. \A s \in Registered : Covered(s)'
    BY <1>a, <2>1, <2>2 DEF Covered, LinkInv
  <2>4. \A u \in Users : stage'[u] # "served"
    BY <1>11, <1>a DEF LinkRestored, LinkInv
  <2>5. \A s \in Registered : registry'[s] = Absent
    BY <2>2 DEF LinkInv
  <2> QED BY <2>2, <2>3, <2>4, <2>5 DEF TruthInv, KnownAt, AgreeAt, Got, Stored
<1>12. CASE UNCHANGED vars
  <2>1. UNCHANGED <<services, registry, link, raced, unsure, item, job, todo, failed, current, reported, doing, stage>>
    BY <1>12 DEF vars, storeVars, linkVars, taskVars, ghostVars
  <2>2. UsersStay
    BY <2>1 DEF UsersStay, Got
  <2>3. ASSUME NEW s \in Registered, Covered(s) PROVE Covered(s)'
    BY <2>1, <2>3 DEF Covered
  <2> QED BY <2>1, <2>2, <2>3, TruthQuiet
<1> QED
  BY <1>1, <1>2, <1>3, <1>4, <1>5, <1>6, <1>7, <1>8, <1>9, <1>10, <1>11, <1>12 DEF Next, Step

-----------------------------------------------------------------------------
(* The inductive invariant, and what follows *)

IInv == /\ TaskInv /\ FailedType /\ RestType /\ FitsInv /\ LinkInv
        /\ CountInv /\ SubInv
        /\ SoleInv /\ ApiInv /\ TruthInv

LEMMA IInvInit == Init => IInv
<1> SUFFICES ASSUME Init PROVE IInv
  OBVIOUS
<1> USE TasksDiffer DEF Tasks
<1>1. TaskInv
  BY TaskInit
<1>2. \A t \in Tasks : /\ item[t] = Absent /\ stage[t] = IF t = current THEN "sent" ELSE "none"
                       /\ doing[t] = IF t = current THEN "manager" ELSE IF t = Connector THEN "event" ELSE "idle"
  BY DEF Init
<1>3. /\ \A t \in Reporters : todo[t] = {} /\ handlers[t] = 0
      /\ current \in Reporters /\ bound = NoTask /\ ~subscribed /\ ~reported /\ link /\ losses = 0
      /\ \A s \in Registered : registry[s] = Absent
  BY DEF Init
<1>4. FailedType /\ RestType
  <2>1. stage \in [Tasks -> {"none", "waiting", "sent", "served", "refused", "lost"}]
    BY DEF Init
  <2>2. proxy \in [Tasks -> Managers \cup {NoManager}]
    BY DEF Init
  <2>3. losses \in 0..MaxLosses /\ errors \in 0..MaxErrors
    BY LossesAssumption DEF Init, LossesAssumption
  <2>4. /\ failed \in [Reporters -> BOOLEAN] /\ handlers \in [Reporters -> Nat]
        /\ registry \in [Registered -> Apis \cup {Absent}]
    BY DEF Init
  <2> QED BY <1>3, <2>1, <2>2, <2>3, <2>4 DEF Init, RestType, FailedType
<1>5. FitsInv
  BY <1>2, <1>3 DEF FitsInv
<1>6. LinkInv
  BY <1>3 DEF LinkInv
<1>7. Active = {current}
  BY <1>2, <1>3 DEF Active
<1>8. CountInv
  <2>1. IsFiniteSet(Active) /\ Cardinality(Active) = 1
    BY <1>7, FS_Singleton
  <2> QED BY <1>3, <2>1 DEF CountInv
<1>9. SubInv
  BY <1>2, <1>3, <1>7 DEF SubInv, Got
<1>10. SoleInv /\ ApiInv
  BY <1>2, <1>3 DEF SoleInv, ApiInv, WorksOn, On
<1>11. TruthInv
  BY <1>2, <1>3 DEF TruthInv, KnownAt, AgreeAt, Covered, Stored, On
<1> QED BY <1>1, <1>4, <1>5, <1>6, <1>8, <1>9, <1>10, <1>11 DEF IInv

LEMMA IInvStep == IInv /\ [Next]_vars => IInv'
BY StepStore, FailedStep, RestStep, FitsStep, LinkInvStep, CountStep, SubStep, WorkStep, TruthStep DEF IInv

LEMMA Invariance == Spec => []IInv
BY IInvInit, IInvStep, PTL DEF Spec

\* The client, its connection and the manager always have the stated types; in particular no
\* handler of client_disconnected is installed more often than the client has connected.
THEOREM RegistrationTypeCorrect == Spec => []TypeOK
<1>1. IInv => TypeOK
  <2> SUFFICES ASSUME IInv PROVE TypeOK
    OBVIOUS
  <2>1. handlers \in [Reporters -> 0..MaxLosses + 1]
    <3>1. Cardinality(Active) \in Nat
      BY FS_CardinalityType DEF IInv, CountInv
    <3>2. losses \in Nat /\ losses <= MaxLosses /\ MaxLosses \in Nat /\ handlers \in [Reporters -> Nat]
      BY LossesAssumption DEF IInv, RestType, LossesAssumption
    <3>3. ASSUME NEW t \in Reporters PROVE handlers[t] \in 0..MaxLosses + 1
      <4>1. handlers[t] + Cardinality(Active) + (IF link THEN 0 ELSE 1) <= losses + 1
        BY DEF IInv, CountInv
      <4>2. handlers[t] \in Nat /\ (IF link THEN 0 ELSE 1) \in Nat
        BY <3>2
      <4> HIDE DEF IInv
      <4> QED BY <3>1, <3>2, <4>1, <4>2
    <3> QED BY <3>2, <3>3
  <2> QED BY <2>1 DEF IInv, TaskInv, FailedType, RestType, TypeOK
<1> QED BY <1>1, Invariance, PTL

\* Once the services have been reported and nobody works on a service, client and manager
\* agree on it, whatever was lost, refused, restored or done by others before
\* (register_service, unregister_service, on_connected).
THEOREM ManagerAgrees == Spec => []RegistryAgrees
<1>1. IInv => RegistryAgrees
  <2> SUFFICES ASSUME IInv, NEW s \in Registered, AtRest(s), s \notin raced \cup unsure PROVE registry[s] = services[s]
    BY DEF RegistryAgrees
  <2>1. \A t \in Users : ~On(t, s)
    BY DEF AtRest, Busy, WorksOn, On, Tasks
  <2>2. AgreeAt(s) /\ link /\ reported
    BY DEF IInv, TruthInv, AtRest
  <2> QED BY <2>1, <2>2 DEF AgreeAt, Covered
<1> QED BY <1>1, Invariance, PTL

\* Not even a race between tasks leaves a service of the client that the manager does not
\* know: the last one to unregister it removes it from the client, too.
THEOREM ServicesKnown == Spec => []NoServiceLost
<1>1. IInv => NoServiceLost
  <2> SUFFICES ASSUME IInv, NEW s \in Registered, AtRest(s), s \notin unsure, Stored(s) PROVE registry[s] # Absent
    BY DEF NoServiceLost
  <2>1. ~UserCovers(s)
    BY DEF AtRest, Busy, WorksOn, On, Tasks, UserCovers
  <2>2. KnownAt(s) /\ link /\ reported
    BY DEF IInv, TruthInv, AtRest
  <2> QED BY <2>1, <2>2 DEF KnownAt, Covered
<1> QED BY <1>1, Invariance, PTL

\* After any number of reconnections there is one handler of client_disconnected, that of the
\* last on_connected, and the manager sends it events (_client_disconnected_subscription).
THEOREM HandlerUnique == Spec => []OneHandler
<1>1. IInv => OneHandler
  BY DEF IInv, SubInv, RestType, OneHandler
<1> QED BY <1>1, Invariance, PTL
=============================================================================
