---------------------------- MODULE Registration ----------------------------
(***************************************************************************)
(* The services of a client and what the workspace manager knows of them:   *)
(* register_service, unregister_service, on_connected, which reports all    *)
(* services and subscribes to client_disconnected on every new connection,  *)
(* and the manager's proxy that connect_to_server hands to the user.        *)
(*                                                                         *)
(* A task waits for one request to the manager at a time.  The connection   *)
(* may break and be restored, to the same manager or to a new one that      *)
(* knows nothing; what is on its way then is lost.                          *)
(***************************************************************************)
EXTENDS ServiceStore, Integers

CONSTANTS Users,        \* tasks that register and unregister services
          Reporters,    \* tasks that run on_connected, used again when done
          Connector,    \* the task in connect_to_server
          Managers,     \* manager ids
          NoTask,
          NoManager,
          MaxErrors,    \* how often a manager refuses a request
          MaxLosses     \* how often the connection breaks

Tasks == Users \cup Reporters \cup {Connector}
ASSUME TasksDiffer == /\ Users \cap Reporters = {}
                      /\ Connector \notin Users \cup Reporters
                      /\ NoTask \notin Tasks
                      /\ NoManager \notin Managers
ASSUME LossesAssumption == MaxLosses \in Nat /\ MaxErrors \in Nat

VARIABLES link,         \* the connection is there
          losses, errors,
          manager,      \* its manager_id
          registry,     \* what this manager knows: an API or Absent for each id
          doing,        \* what each task waits for the manager to do
          stage,        \* how far that request is
          proxy,        \* the manager each task's own proxy calls
          job,          \* what each user task is to do once it has the manager
          todo,         \* the services a reporter has still to report
          item,         \* the service a task is registering or unregistering
          failed,       \* failed_services # []
          handlers,     \* how often each handler of client_disconnected is installed
          bound,        \* _bound_handle_client_disconnected
          subscribed,   \* _client_disconnected_subscription
          server_sub,   \* the manager has a subscription of this connection
          wm,           \* the manager that the user's proxy calls
          skip,         \* _is_initial_refresh
          current,      \* the reporter started for this connection
          reported,     \* it has reported every service
          overlap,      \* a reporter was started while another one was running
          raced,        \* services that two tasks have worked on at the same time
          unsure        \* services of which an operation has raised an error

linkVars == <<link, losses, errors, manager>>
taskVars == <<doing, stage, proxy, job, todo, item, failed>>
subVars == <<handlers, bound, subscribed>>
wmVars == <<wm, skip>>
ghostVars == <<current, reported, overlap, raced, unsure>>
vars == <<storeVars, linkVars, registry, taskVars, subVars, server_sub, wmVars, ghostVars>>

\* A service to be registered, with its API at the time the task read it.
Items == [id : Registered, api : Apis]
ASSUME ItemsAssumption == Absent \notin Items

TypeOK == /\ StoreTypeOK
          /\ link \in BOOLEAN /\ losses \in 0..MaxLosses /\ errors \in 0..MaxErrors
          /\ manager \in Managers
          /\ registry \in [Registered -> Apis \cup {Absent}]
          /\ doing \in [Tasks -> {"idle", "event", "manager", "register", "unregister", "subscribe"}]
          /\ stage \in [Tasks -> {"none", "waiting", "sent", "served", "refused", "lost"}]
          /\ proxy \in [Tasks -> Managers \cup {NoManager}]
          /\ job \in [Users -> {"none", "register", "unregister"}]
          /\ todo \in [Reporters -> SUBSET Items]
          /\ item \in [Tasks -> Items \cup {Absent}]
          /\ failed \in [Reporters -> BOOLEAN]
          /\ handlers \in [Reporters -> 0..MaxLosses + 1]
          /\ bound \in Reporters \cup {NoTask}
          /\ subscribed \in BOOLEAN /\ server_sub \in BOOLEAN
          /\ wm \in Managers \cup {NoManager} /\ skip \in BOOLEAN
          /\ current \in Reporters \cup {NoTask} /\ reported \in BOOLEAN
          /\ overlap \in BOOLEAN /\ raced \subseteq Registered /\ unsure \subseteq Registered

\* RPC.__init__ has just started on_connected(None), which asks for the manager,
\* and connect_to_server waits for services_registered.
Init == /\ StoreInit
        /\ link = TRUE /\ losses = 0 /\ errors = 0 /\ manager \in Managers
        /\ registry = [s \in Registered |-> Absent]
        /\ current \in Reporters
        /\ doing = [t \in Tasks |-> CASE t = current -> "manager"
                                      [] t = Connector -> "event"
                                      [] OTHER -> "idle"]
        /\ stage = [t \in Tasks |-> IF t = current THEN "sent" ELSE "none"]
        /\ proxy = [t \in Tasks |-> IF t = current THEN manager ELSE NoManager]
        /\ job = [t \in Users |-> "none"]
        /\ todo = [t \in Reporters |-> {}]
        /\ item = [t \in Tasks |-> Absent]
        /\ failed = [t \in Reporters |-> FALSE]
        /\ handlers = [t \in Reporters |-> 0]
        /\ bound = NoTask /\ subscribed = FALSE /\ server_sub = FALSE
        /\ wm = NoManager /\ skip = TRUE
        /\ reported = FALSE /\ overlap = FALSE /\ raced = {} /\ unsure = {}

-----------------------------------------------------------------------------
(* Requests *)

\* emit_message waits for the connection if it is being restored.
OnItsWay == IF link THEN "sent" ELSE "waiting"

\* doing, stage and proxy after task t has asked manager m to do d.
Ask(t, d, m) == /\ doing' = [doing EXCEPT ![t] = d]
                /\ stage' = [stage EXCEPT ![t] = OnItsWay]
                /\ proxy' = [proxy EXCEPT ![t] = m]

Ends(t) == /\ doing' = [doing EXCEPT ![t] = "idle"]
           /\ stage' = [stage EXCEPT ![t] = "none"]
           /\ proxy' = [proxy EXCEPT ![t] = NoManager]

Got(t, d) == doing[t] = d /\ stage[t] = "served"
Failed(t, d) == doing[t] = d /\ stage[t] \in {"refused", "lost", "waiting"}

WorksOn(t, s) == \/ item[t] # Absent /\ item[t].id = s
                 \/ t \in Reporters /\ \E i \in todo[t] : i.id = s
Busy == {s \in Registered : \E t \in Tasks : WorksOn(t, s)}

\* The manager carries a request out and answers.
Serve(t) ==
  /\ stage[t] = "sent" /\ proxy[t] = manager
  /\ stage' = [stage EXCEPT ![t] = "served"]
  /\ registry' = CASE doing[t] = "register" -> [registry EXCEPT ![item[t].id] = item[t].api]
                   [] doing[t] = "unregister" -> [registry EXCEPT ![item[t].id] = Absent]
                   [] OTHER -> registry
  /\ server_sub' = (server_sub \/ doing[t] = "subscribe")
  /\ unsure' = IF doing[t] = "register" THEN unsure \ {item[t].id} ELSE unsure
  /\ UNCHANGED <<storeVars, linkVars, doing, proxy, job, todo, item, failed, subVars, wmVars,
                 current, reported, overlap, raced>>

\* The manager answers with an error, or is not there any more: the retry wrapper
\* then fetches its service again under the same address, which is no use.
Refuse(t) ==
  /\ stage[t] = "sent"
  /\ IF proxy[t] # manager THEN UNCHANGED errors ELSE errors < MaxErrors /\ errors' = errors + 1
  /\ stage' = [stage EXCEPT ![t] = "refused"]
  /\ UNCHANGED <<storeVars, link, losses, manager, registry, doing, proxy, job, todo, item, failed, subVars, server_sub,
                 wmVars, ghostVars>>

-----------------------------------------------------------------------------
(* The connection *)

\* The server forgets the client, with its services and subscriptions.
LinkLost ==
  /\ link
  /\ losses < MaxLosses
  /\ \E t \in Reporters : doing[t] = "idle"
  /\ link' = FALSE
  /\ losses' = losses + 1
  /\ stage' = [t \in Tasks |-> IF stage[t] \in {"sent", "served"} THEN "lost" ELSE stage[t]]
  /\ registry' = [s \in Registered |-> Absent]
  /\ server_sub' = FALSE
  /\ current' = NoTask /\ reported' = FALSE
  /\ raced' = raced \cap Busy
  /\ UNCHANGED <<storeVars, errors, manager, doing, proxy, job, todo, item, failed, subVars, wmVars, overlap, unsure>>

\* The connection is restored, perhaps to another manager; open() calls on_connected.
LinkRestored ==
  /\ ~link
  /\ link' = TRUE
  /\ manager' \in Managers
  /\ \E t \in Reporters :
       /\ doing[t] = "idle"
       /\ doing' = [doing EXCEPT ![t] = "manager"]
       /\ stage' = [u \in Tasks |-> IF u = t \/ stage[u] = "waiting" THEN "sent" ELSE stage[u]]
       /\ proxy' = [proxy EXCEPT ![t] = manager']
       /\ current' = t
  /\ overlap' = (overlap \/ \E t \in Reporters : doing[t] # "idle")
  /\ UNCHANGED <<storeVars, losses, errors, registry, job, todo, item, failed, subVars, server_sub, wmVars,
                 reported, raced, unsure>>

-----------------------------------------------------------------------------
(* get_manager_service *)

\* Each of the attempts asks the manager of that time.
FetchAgain(t) ==
  /\ Failed(t, "manager")
  /\ Ask(t, "manager", manager)
  /\ UNCHANGED <<storeVars, linkVars, registry, job, todo, item, failed, subVars, server_sub, wmVars, ghostVars>>

\* The last attempt has failed, in whichever way.
GivesUp(t) ==
  /\ Failed(t, "manager")
  /\ Ends(t)
  /\ unsure' = IF t \in Users THEN unsure \cup {item[t].id} ELSE unsure
  /\ item' = [item EXCEPT ![t] = Absent]
  /\ job' = [u \in Users |-> IF u = t THEN "none" ELSE job[u]]
  /\ UNCHANGED <<storeVars, linkVars, registry, todo, failed, subVars, server_sub, wmVars, current, reported, overlap, raced>>

-----------------------------------------------------------------------------
(* The users' tasks *)

Begins(t, s, j, api) ==
  /\ job' = [job EXCEPT ![t] = j]
  /\ item' = [item EXCEPT ![t] = [id |-> s, api |-> api]]
  /\ raced' = IF s \in Busy THEN raced \cup {s} ELSE raced
  /\ Ask(t, "manager", manager)
  /\ UNCHANGED <<caller_index, disposing, linkVars, registry, todo, failed, subVars, server_sub, wmVars,
                 current, reported, overlap, unsure>>

\* register_service adds the service before it asks for the manager.
RegisterService(t, s) ==
  /\ doing[t] = "idle"
  /\ \E o \in Offers[s], overwrite \in BOOLEAN :
       LET api == ApiOf(o, NoCaller)
       IN /\ AddService(s, api, overwrite)
          /\ ~Refused(s, overwrite)
          /\ Begins(t, s, "register", api)

\* The id is taken: the call raises, but the methods have been annotated.
RegisterRefused(s) ==
  /\ \E o \in Offers[s] : AddService(s, ApiOf(o, NoCaller), FALSE) /\ Refused(s, FALSE)
  /\ UNCHANGED <<caller_index, disposing, linkVars, registry, taskVars, subVars, server_sub, wmVars, ghostVars>>

UnregisterService(t, s) ==
  /\ doing[t] = "idle"
  /\ Stored(s)
  /\ Begins(t, s, "unregister", services[s])
  /\ UNCHANGED <<services, annotations>>

UserHasManager(t) ==
  /\ Got(t, "manager")
  /\ Ask(t, job[t], proxy[t])
  /\ UNCHANGED <<storeVars, linkVars, registry, job, todo, item, failed, subVars, server_sub, wmVars, ghostVars>>

UserEnds(t) ==
  /\ Ends(t)
  /\ job' = [job EXCEPT ![t] = "none"]
  /\ item' = [item EXCEPT ![t] = Absent]
  /\ UNCHANGED <<caller_index, disposing, linkVars, registry, todo, failed, subVars, server_sub, wmVars,
                 current, reported, overlap, raced>>

Registers(t) ==
  /\ Got(t, "register")
  /\ UserEnds(t)
  /\ UNCHANGED <<services, annotations, unsure>>

\* A plausible error: the local service stays.
UnregistersRemotely(t) ==
  /\ Got(t, "unregister")
  /\ UserEnds(t)
  /\ UNCHANGED <<services, annotations, unsure>>

\* A plausible error: the annotations stay.
UnregistersBare(t) ==
  /\ Got(t, "unregister")
  /\ services' = Without({item[t].id})
  /\ UserEnds(t)
  /\ UNCHANGED <<annotations, unsure>>

\* The service is removed by its id, whatever is stored there by now.
Unregisters(t) ==
  /\ Got(t, "unregister")
  /\ RemoveServices({item[t].id})
  /\ UserEnds(t)
  /\ UNCHANGED unsure

UserFails(t) ==
  /\ Failed(t, "register") \/ Failed(t, "unregister")
  /\ UserEnds(t)
  /\ unsure' = unsure \cup {item[t].id}
  /\ UNCHANGED <<services, annotations>>

-----------------------------------------------------------------------------
(* on_connected *)

\* manager_refreshed: the first event that the proxy hears is skipped.
Retarget == IF wm # NoManager
            THEN skip' = FALSE /\ wm' = IF skip THEN wm ELSE manager
            ELSE UNCHANGED wmVars

\* A plausible error: the handler of the previous connection stays installed.
TakenOutNot == handlers

\* self.off(bound): once, and nothing if the handler is not installed.
TakenOut == [t \in Reporters |-> IF t = bound /\ handlers[t] > 0 THEN handlers[t] - 1 ELSE handlers[t]]

\* A plausible error: services that have gone since are reported, too.
ListedAll == Registered

\* What on_connected reports: not the services that are local only.
Listed == {s \in Registered : Stored(s)}

\* The next service of the list, or services_registered and the subscription,
\* before which the last handler is taken out.
Proceeds(t, rest, bad) ==
  /\ failed' = [failed EXCEPT ![t] = bad]
  /\ IF rest # {}
     THEN /\ \E i \in rest : item' = [item EXCEPT ![t] = i] /\ todo' = [todo EXCEPT ![t] = rest \ {i}]
          /\ Ask(t, "register", proxy[t])
          /\ UNCHANGED <<subVars, current, reported>>
     ELSE /\ item' = [item EXCEPT ![t] = Absent]
          /\ todo' = [todo EXCEPT ![t] = {}]
          /\ reported' = IF t = current THEN ~bad ELSE reported
          /\ subscribed' = FALSE
          /\ handlers' = TakenOut
          /\ bound' = t
          /\ UNCHANGED current
          /\ LET heard == doing[Connector] = "event"
                 ask == [x \in {t} \cup (IF heard THEN {Connector} ELSE {}) |->
                           IF x = t THEN "subscribe" ELSE "manager"]
             IN /\ doing' = [x \in Tasks |-> IF x \in DOMAIN ask THEN ask[x] ELSE doing[x]]
                /\ stage' = [x \in Tasks |-> IF x \in DOMAIN ask THEN OnItsWay ELSE stage[x]]
                /\ proxy' = IF heard THEN [proxy EXCEPT ![Connector] = manager] ELSE proxy

ReporterHasManager(t) ==
  LET list == {[id |-> s, api |-> services[s]] : s \in Listed}
  IN /\ Got(t, "manager")
     /\ Retarget
     /\ raced' = raced \cup (Busy \cap Listed)
     /\ Proceeds(t, list, FALSE)
     /\ UNCHANGED <<storeVars, linkVars, registry, job, server_sub, overlap, unsure>>

\* A plausible error: a service that could not be registered is not counted.
GoesOnRegardless(t) ==
  /\ Got(t, "register") \/ Failed(t, "register")
  /\ Proceeds(t, todo[t], failed[t])
  /\ UNCHANGED <<storeVars, linkVars, registry, job, server_sub, wmVars, overlap, raced, unsure>>

\* The answer or the error, which on_connected notes, and goes on.
ReporterGoesOn(t) ==
  /\ \/ Got(t, "register") /\ Proceeds(t, todo[t], failed[t])
     \/ Failed(t, "register") /\ Proceeds(t, todo[t], TRUE)
  /\ UNCHANGED <<storeVars, linkVars, registry, job, server_sub, wmVars, overlap, raced, unsure>>

\* The handler is installed when manager.subscribe has returned.
ReporterEnds(t) ==
  /\ \/ /\ Got(t, "subscribe")
        /\ subscribed' = TRUE
        /\ handlers' = [handlers EXCEPT ![bound] = @ + 1]
     \/ /\ Failed(t, "subscribe")
        /\ subscribed' = FALSE
        /\ UNCHANGED handlers
  /\ Ends(t)
  /\ UNCHANGED <<storeVars, linkVars, registry, job, todo, item, failed, bound, server_sub, wmVars, ghostVars>>

\* connect_to_server has the manager's proxy and listens to manager_refreshed.
Connects ==
  /\ Got(Connector, "manager")
  /\ wm' = proxy[Connector]
  /\ Ends(Connector)
  /\ UNCHANGED <<storeVars, linkVars, registry, job, todo, item, failed, subVars, server_sub, skip, ghostVars>>

-----------------------------------------------------------------------------

UserStep(t) == UserHasManager(t) \/ Registers(t) \/ Unregisters(t) \/ UserFails(t)
ReporterStep(t) == ReporterHasManager(t) \/ ReporterGoesOn(t) \/ ReporterEnds(t)
Step(t) == \/ t \in Users /\ UserStep(t)
           \/ t \in Reporters /\ ReporterStep(t)
           \/ t = Connector /\ Connects
           \/ FetchAgain(t)

Next == \/ LinkLost \/ LinkRestored
        \/ \E s \in Registered : RegisterRefused(s)
        \/ \E t \in Users, s \in Registered : RegisterService(t, s) \/ UnregisterService(t, s)
        \/ \E t \in Tasks : Serve(t) \/ Refuse(t) \/ GivesUp(t) \/ Step(t)

Spec == Init /\ [][Next]_vars

-----------------------------------------------------------------------------
(* Properties *)

\* Nobody is working on s, and on_connected has reported all services here.
AtRest(s) == link /\ reported /\ s \notin Busy

\* The manager knows exactly the services the client has, as they are now, unless
\* two tasks have worked on a service at the same time or its owner was told that
\* an operation failed.
RegistryAgrees ==
  \A s \in Registered : AtRest(s) /\ s \notin raced \cup unsure => registry[s] = services[s]

\* Even after races the manager knows every service of the client: registering,
\* unregistering and reporting in any order never leave one that nobody can find.
NoServiceLost ==
  \A s \in Registered : AtRest(s) /\ s \notin unsure /\ Stored(s) => registry[s] # Absent

ReportersIdle == \A t \in Reporters : doing[t] = "idle"

\* After on_connected, and as long as it has not run twice at the same time, there is a
\* subscription to client_disconnected, and one handler that hears its events.
OneHandler ==
  ReportersIdle /\ reported /\ subscribed /\ ~overlap =>
    server_sub /\ handlers = [t \in Reporters |-> IF t = bound THEN 1 ELSE 0]

\* After a reconnection the user's manager proxy calls the present manager.
ProxyFresh == ReportersIdle /\ reported /\ wm # NoManager => wm = manager

\* Registration only ever does to the local services what ServiceStore allows.
StoreImplemented == StoreSpec

=============================================================================
