---------------------------- MODULE ServiceStore ----------------------------
(***************************************************************************)
(* The services of one client (RPC._services), the settings its callables   *)
(* are annotated with (_method_annotations) and the index of the _rintf     *)
(* services, which are made from callbacks, by the peer they were sent to.  *)
(* Everything here happens without an await, except _dispose.               *)
(***************************************************************************)
CONSTANTS Registered,   \* ids of the services the user registers
          Rintfs,       \* ids of _rintf services, used again when free
          Callables,    \* functions
          Peers,        \* clients a callback may be sent to
          NoCaller,     \* the allowed caller of other services
          Absent,       \* no service, no annotation
          Offers        \* Offers[s]: the sets of functions and the visibility
                        \* that may be registered under s

Ids == Registered \cup Rintfs
Visibilities == {"protected", "public"}
Apis == [methods : SUBSET Callables, visibility : Visibilities, caller : Peers \cup {NoCaller}]
Annotations == [id : Ids, visibility : Visibilities, caller : Peers \cup {NoCaller}]

ASSUME IdsDiffer == Registered \cap Rintfs = {} /\ NoCaller \notin Peers
ASSUME AbsentAssumption == Absent \notin Apis /\ Absent \notin Annotations
ASSUME OffersAssumption ==
  /\ Offers \in [Ids -> SUBSET [methods : SUBSET Callables, visibility : Visibilities]]
  /\ \A r \in Rintfs : \A o \in Offers[r] : o.visibility = "protected"

VARIABLES services,       \* services[s]: its API, or Absent
          annotations,    \* annotations[f], or Absent
          caller_index,   \* _rintf_caller_index, {} for an absent key
          disposing       \* the _dispose coroutines that have not run

storeVars == <<services, annotations, caller_index, disposing>>

StoreTypeOK == /\ services \in [Ids -> Apis \cup {Absent}]
               /\ annotations \in [Callables -> Annotations \cup {Absent}]
               /\ caller_index \in [Peers -> SUBSET Rintfs]
               /\ disposing \subseteq Rintfs \X (Peers \cup {NoCaller})

StoreInit == /\ services = [s \in Ids |-> Absent]
             /\ annotations = [f \in Callables |-> Absent]
             /\ caller_index = [p \in Peers |-> {}]
             /\ disposing = {}

-----------------------------------------------------------------------------
(* Helpers *)

Stored(s) == services[s] # Absent

\* The settings that the methods of a service s with this API are annotated with.
Settings(s, api) == [id |-> s, visibility |-> api.visibility, caller |-> api.caller]

Annotated(s, api) ==
  [f \in Callables |-> IF f \in api.methods THEN Settings(s, api) ELSE annotations[f]]

\* A plausible error: _rintf services keep their annotations.
UnannotatedOnlyUser(S) ==
  [f \in Callables |-> IF \E s \in S \cap Registered : Stored(s) /\ f \in services[s].methods
                       THEN Absent ELSE annotations[f]]

\* The annotations without those of the methods of the services in S.
Unannotated(S) ==
  [f \in Callables |-> IF \E s \in S : Stored(s) /\ f \in services[s].methods
                       THEN Absent ELSE annotations[f]]

Without(S) == [s \in Ids |-> IF s \in S THEN Absent ELSE services[s]]

\* A plausible error: all services of the caller are taken out of the index.
UnindexedByAll(r, p) == [q \in Peers |-> IF q = p THEN {} ELSE caller_index[q]]

Unindexed(r, p) == [q \in Peers |-> IF q = p THEN caller_index[q] \ {r} ELSE caller_index[q]]

\* add_service annotates the methods before it looks whether the id is taken.
Refused(s, overwrite) == Stored(s) /\ ~overwrite
AddService(s, api, overwrite) ==
  /\ annotations' = Annotated(s, api)
  /\ services' = IF Refused(s, overwrite) THEN services ELSE [services EXCEPT ![s] = api]

ApiOf(o, p) == [methods |-> o.methods, visibility |-> o.visibility, caller |-> p]

RemoveServices(S) ==
  /\ annotations' = Unannotated(S)
  /\ services' = Without(S)

-----------------------------------------------------------------------------

\* The user adds a service.
Add(s) ==
  /\ \E o \in Offers[s], overwrite \in BOOLEAN : AddService(s, ApiOf(o, NoCaller), overwrite)
  /\ UNCHANGED <<caller_index, disposing>>

\* The local part of unregister_service.
Remove(s) ==
  /\ Stored(s)
  /\ RemoveServices({s})
  /\ UNCHANGED <<caller_index, disposing>>

\* An object with _rintf is sent to p (NoCaller: encoded outside of any session).
\* A new service has a new id, one that no coroutine of an earlier one knows.
EncodeRintf(r, p) ==
  /\ ~Stored(r)
  /\ \A d \in disposing : d[1] # r
  /\ \E o \in Offers[r] : AddService(r, ApiOf(o, p), TRUE)
  /\ caller_index' = [q \in Peers |-> IF q = p THEN caller_index[q] \cup {r} ELSE caller_index[q]]
  /\ UNCHANGED disposing

\* The peer calls _dispose; _call_method wraps the coroutine in a task.
Dispose(r) ==
  /\ Stored(r)
  /\ disposing' = disposing \cup {<<r, services[r].caller>>}
  /\ UNCHANGED <<services, annotations, caller_index>>

DisposeRuns(r, p) ==
  /\ <<r, p>> \in disposing
  /\ disposing' = disposing \ {<<r, p>>}
  /\ RemoveServices({r})
  /\ caller_index' = Unindexed(r, p)

\* unregister_service for an _rintf service, which awaits nothing.
UnregisterRintf(r) ==
  /\ Stored(r)
  /\ RemoveServices({r})
  /\ caller_index' = [q \in Peers |-> caller_index[q] \ {r}]
  /\ UNCHANGED disposing

\* A client_disconnected event for p: what only p may call is disposed of.
CallerGone(p) ==
  LET gone == {r \in caller_index[p] : Stored(r)}
  IN /\ caller_index' = [caller_index EXCEPT ![p] = {}]
     /\ disposing' = disposing \cup {<<r, services[r].caller>> : r \in gone}
     /\ RemoveServices(gone)

RintfNext ==
  \/ \E r \in Rintfs, p \in Peers \cup {NoCaller} : EncodeRintf(r, p)
  \/ \E r \in Rintfs : Dispose(r)
  \/ \E r \in Rintfs, p \in Peers \cup {NoCaller} : DisposeRuns(r, p)
  \/ \E r \in Rintfs : UnregisterRintf(r)
  \/ \E p \in Peers : CallerGone(p)

StoreNext == \/ \E s \in Registered : Add(s) \/ Remove(s)
             \/ RintfNext

StoreSpec == StoreInit /\ [][StoreNext]_storeVars

-----------------------------------------------------------------------------
(* Properties *)

\* _rintf_caller_index lists, for each peer, exactly the _rintf services that
\* it alone may call, so that none is left behind when the peer disconnects.
RintfIndexed ==
  \A r \in Rintfs, p \in Peers :
    r \in caller_index[p] <=> Stored(r) /\ services[r].caller = p

\* _handle_method decides by the annotations who may call a method: a stored service
\* would be called under the settings it was registered with, whatever is added,
\* refused, overwritten or removed meanwhile.  The annotations are kept by function,
\* so this holds only until a function is offered again; no theorem or run claims it.
OwnSettings ==
  \A s \in Ids : Stored(s) =>
    \A f \in services[s].methods : annotations[f] = Settings(s, services[s])

\* A callback that is annotated as a method of an _rintf service is one of a service
\* that is stored, and is called under the settings of this service: whoever shares it,
\* adds it again or removes it, it is never open to a caller that the service was not
\* made for, and never left behind by a service that is gone.
NoGhost ==
  \A f \in Callables : annotations[f] # Absent /\ annotations[f].id \in Rintfs =>
    LET r == annotations[f].id
    IN /\ Stored(r)
       /\ f \in services[r].methods
       /\ annotations[f] = Settings(r, services[r])

=============================================================================
