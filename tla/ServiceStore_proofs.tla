------------------------ MODULE ServiceStore_proofs ------------------------
(***************************************************************************)
(* Theorems about ServiceStore for any sets of services, callbacks and      *)
(* peers.                                                                   *)
(***************************************************************************)
EXTENDS ServiceStore, TLAPS

\* Removing services leaves everything else as it was.
LEMMA RemovalType ==
  ASSUME StoreTypeOK, NEW S \in SUBSET Ids, RemoveServices(S)
  PROVE  /\ services' \in [Ids -> Apis \cup {Absent}]
         /\ annotations' \in [Callables -> Annotations \cup {Absent}]
BY DEF StoreTypeOK, RemoveServices, Without, Unannotated

LEMMA AdditionType ==
  ASSUME StoreTypeOK, NEW s \in Ids, NEW api \in Apis, NEW ow \in BOOLEAN, AddService(s, api, ow)
  PROVE  /\ services' \in [Ids -> Apis \cup {Absent}]
         /\ annotations' \in [Callables -> Annotations \cup {Absent}]
<1>1. Settings(s, api) \in Annotations
  BY DEF Settings, Annotations, Apis
<1> QED
  BY <1>1 DEF StoreTypeOK, AddService, Annotated

LEMMA OfferedApi ==
  ASSUME NEW s \in Ids, NEW o \in Offers[s], NEW p \in Peers \cup {NoCaller}
  PROVE  ApiOf(o, p) \in Apis
BY OffersAssumption DEF ApiOf, Apis, Ids

\* The store is type correct.
LEMMA StoreTypeInit == StoreInit => StoreTypeOK
BY DEF StoreInit, StoreTypeOK

LEMMA StoreTypeStep == StoreTypeOK /\ [StoreNext]_storeVars => StoreTypeOK'
<1> SUFFICES ASSUME StoreTypeOK, [StoreNext]_storeVars PROVE StoreTypeOK'
  OBVIOUS
<1> USE DEF Ids
<1>1. CASE \E s \in Registered : Add(s)
  <2>1. PICK s \in Registered : Add(s)
    BY <1>1
  <2>2. PICK o \in Offers[s], ow \in BOOLEAN : AddService(s, ApiOf(o, NoCaller), ow)
    BY <2>1 DEF Add
  <2>3. /\ services' \in [Ids -> Apis \cup {Absent}]
        /\ annotations' \in [Callables -> Annotations \cup {Absent}]
    BY <2>2, AdditionType, OfferedApi
  <2> QED
    BY <2>1, <2>3 DEF Add, StoreTypeOK
<1>2. CASE \E s \in Registered : Remove(s)
  BY <1>2, RemovalType DEF Remove, StoreTypeOK
<1>3. CASE \E r \in Rintfs, p \in Peers \cup {NoCaller} : EncodeRintf(r, p)
  <2>1. PICK r \in Rintfs, p \in Peers \cup {NoCaller} : EncodeRintf(r, p)
    BY <1>3
  <2>2. PICK o \in Offers[r] : AddService(r, ApiOf(o, p), TRUE)
    BY <2>1 DEF EncodeRintf
  <2>3. /\ services' \in [Ids -> Apis \cup {Absent}]
        /\ annotations' \in [Callables -> Annotations \cup {Absent}]
    BY <2>2, AdditionType, OfferedApi
  <2> QED
    BY <2>1, <2>3 DEF EncodeRintf, StoreTypeOK
<1>4. CASE \E r \in Rintfs : Dispose(r)
  <2>1. PICK r \in Rintfs : Dispose(r)
    BY <1>4
  <2>2. services[r].caller \in Peers \cup {NoCaller}
    BY <2>1 DEF Dispose, Stored, StoreTypeOK, Apis
  <2> QED
    BY <2>1, <2>2 DEF Dispose, StoreTypeOK
<1>5. CASE \E r \in Rintfs, p \in Peers \cup {NoCaller} : DisposeRuns(r, p)
  <2>1. PICK r \in Rintfs, p \in Peers \cup {NoCaller} : DisposeRuns(r, p)
    BY <1>5
  <2>2. caller_index' \in [Peers -> SUBSET Rintfs]
    BY <2>1 DEF DisposeRuns, Unindexed, StoreTypeOK
  <2> QED
    BY <2>1, <2>2, RemovalType DEF DisposeRuns, StoreTypeOK
<1>6. CASE \E r \in Rintfs : UnregisterRintf(r)
  <2>1. PICK r \in Rintfs : UnregisterRintf(r)
    BY <1>6
  <2>2. caller_index' \in [Peers -> SUBSET Rintfs]
    BY <2>1 DEF UnregisterRintf, StoreTypeOK
  <2> QED
    BY <2>1, <2>2, RemovalType DEF UnregisterRintf, StoreTypeOK
<1>7. CASE \E p \in Peers : CallerGone(p)
  <2>1. PICK p \in Peers : CallerGone(p)
    BY <1>7
  <2> DEFINE gone == {r \in caller_index[p] : Stored(r)}
  <2>2. gone \subseteq Rintfs
    BY DEF StoreTypeOK
  <2>3. \A r \in gone : services[r].caller \in Peers \cup {NoCaller}
    BY <2>2 DEF Stored, StoreTypeOK, Apis
  <2>4. disposing' \subseteq Rintfs \X (Peers \cup {NoCaller})
    BY <2>1, <2>2, <2>3 DEF CallerGone, StoreTypeOK
  <2>5. RemoveServices(gone) /\ gone \in SUBSET Ids
    BY <2>1, <2>2 DEF CallerGone
  <2>6. /\ services' \in [Ids -> Apis \cup {Absent}]
        /\ annotations' \in [Callables -> Annotations \cup {Absent}]
    BY <2>5, RemovalType
  <2>7. caller_index' \in [Peers -> SUBSET Rintfs]
    BY <2>1 DEF CallerGone, StoreTypeOK
  <2> QED
    BY <2>4, <2>6, <2>7 DEF StoreTypeOK
<1>8. CASE UNCHANGED storeVars
  BY <1>8 DEF storeVars, StoreTypeOK
<1> QED
  BY <1>1, <1>2, <1>3, <1>4, <1>5, <1>6, <1>7, <1>8 DEF StoreNext, RintfNext

\* ServiceStore is type correct.
THEOREM StoreTypeCorrect == StoreSpec => []StoreTypeOK
<1> QED
  BY StoreTypeInit, StoreTypeStep, PTL DEF StoreSpec

-----------------------------------------------------------------------------
(* The index of the _rintf services *)

\* Pending disposals name the caller their service was made for, and no service of
\* a later date has the id of an earlier one.
DisposalsKnown == \A r \in Rintfs, p \in Peers \cup {NoCaller} :
                    <<r, p>> \in disposing /\ Stored(r) => services[r].caller = p
IndexInv == StoreTypeOK /\ RintfIndexed /\ DisposalsKnown

LEMMA IndexInit == StoreInit => IndexInv
BY StoreTypeInit DEF StoreInit, IndexInv, RintfIndexed, DisposalsKnown, Stored, Ids

LEMMA IndexStep == IndexInv /\ [StoreNext]_storeVars => IndexInv'
<1> SUFFICES ASSUME IndexInv, [StoreNext]_storeVars PROVE IndexInv'
  OBVIOUS
<1>0. StoreTypeOK /\ StoreTypeOK'
  BY StoreTypeStep DEF IndexInv
<1> USE IdsDiffer, AbsentAssumption DEF Ids
<1>1. ASSUME NEW s \in Registered, Add(s) \/ Remove(s) PROVE IndexInv'
  <2>1. \A r \in Rintfs : services'[r] = services[r]
    BY <1>0, <1>1 DEF Add, Remove, AddService, RemoveServices, Without, StoreTypeOK
  <2>2. UNCHANGED <<caller_index, disposing>>
    BY <1>1 DEF Add, Remove
  <2> QED
    BY <1>0, <2>1, <2>2 DEF IndexInv, RintfIndexed, DisposalsKnown, Stored
<1>2. ASSUME NEW r \in Rintfs, NEW p \in Peers \cup {NoCaller}, EncodeRintf(r, p) PROVE IndexInv'
  <2>1. PICK o \in Offers[r] : AddService(r, ApiOf(o, p), TRUE)
    BY <1>2 DEF EncodeRintf
  <2>2. /\ services'[r] # Absent /\ services'[r].caller = p
        /\ \A q \in Rintfs \ {r} : services'[q] = services[q]
    BY <1>0, <2>1, OfferedApi DEF AddService, Refused, ApiOf, StoreTypeOK
  <2>3. RintfIndexed'
    BY <1>0, <1>2, <2>2 DEF EncodeRintf, IndexInv, RintfIndexed, Stored, StoreTypeOK
  <2>4. DisposalsKnown'
    BY <1>0, <1>2, <2>2 DEF EncodeRintf, IndexInv, DisposalsKnown, Stored
  <2> QED
    BY <1>0, <2>3, <2>4 DEF IndexInv
<1>3. ASSUME NEW r \in Rintfs, Dispose(r) PROVE IndexInv'
  <2>1. RintfIndexed'
    BY <1>3 DEF Dispose, IndexInv, RintfIndexed, Stored
  <2>2. DisposalsKnown'
    BY <1>3 DEF Dispose, IndexInv, DisposalsKnown, Stored
  <2> QED
    BY <1>0, <2>1, <2>2 DEF IndexInv
<1>4. ASSUME NEW r \in Rintfs, NEW p \in Peers \cup {NoCaller}, DisposeRuns(r, p) PROVE IndexInv'
  <2>1. services'[r] = Absent /\ \A q \in Rintfs \ {r} : services'[q] = services[q]
    BY <1>4 DEF DisposeRuns, RemoveServices, Without, StoreTypeOK, IndexInv
  <2>2. Stored(r) => services[r].caller = p
    BY <1>4 DEF DisposeRuns, IndexInv, DisposalsKnown
  <2>3. RintfIndexed'
    BY <1>4, <2>1, <2>2 DEF DisposeRuns, Unindexed, IndexInv, RintfIndexed, Stored
  <2>4. DisposalsKnown'
    BY <1>4, <2>1 DEF DisposeRuns, IndexInv, DisposalsKnown, Stored
  <2> QED
    BY <1>0, <2>3, <2>4 DEF IndexInv
<1>5. ASSUME NEW r \in Rintfs, UnregisterRintf(r) PROVE IndexInv'
  <2>1. services'[r] = Absent /\ \A q \in Rintfs \ {r} : services'[q] = services[q]
    BY <1>5 DEF UnregisterRintf, RemoveServices, Without, StoreTypeOK, IndexInv
  <2>2. RintfIndexed'
    BY <1>5, <2>1 DEF UnregisterRintf, IndexInv, RintfIndexed, Stored
  <2>3. DisposalsKnown'
    BY <1>5, <2>1 DEF UnregisterRintf, IndexInv, DisposalsKnown, Stored
  <2> QED
    BY <1>0, <2>2, <2>3 DEF IndexInv
<1>6. ASSUME NEW p \in Peers, CallerGone(p) PROVE IndexInv'
  <2>1. \A r \in Rintfs : services'[r] = IF r \in caller_index[p] /\ Stored(r) THEN Absent ELSE services[r]
    BY <1>6 DEF CallerGone, RemoveServices, Without
  <2>2. \A r \in Rintfs : Stored(r)' => services'[r] = services[r] /\ r \notin caller_index[p]
    BY <2>1 DEF Stored
  <2>3. caller_index' = [caller_index EXCEPT ![p] = {}]
    BY <1>6 DEF CallerGone
  <2>4. RintfIndexed'
    BY <1>0, <2>1, <2>2, <2>3 DEF IndexInv, RintfIndexed, Stored, StoreTypeOK
  <2>5. DisposalsKnown'
    <3> SUFFICES ASSUME NEW r \in Rintfs, NEW q \in Peers \cup {NoCaller},
                        <<r, q>> \in disposing', Stored(r)'
                 PROVE  services'[r].caller = q
      BY DEF DisposalsKnown
    <3>1. <<r, q>> \in disposing
      BY <1>6, <2>2 DEF CallerGone
    <3> QED
      BY <2>2, <3>1 DEF IndexInv, DisposalsKnown, Stored
  <2> QED
    BY <1>0, <2>4, <2>5 DEF IndexInv
<1>7. CASE UNCHANGED storeVars
  BY <1>0, <1>7 DEF storeVars, IndexInv, RintfIndexed, DisposalsKnown, Stored
<1> QED
  BY <1>1, <1>2, <1>3, <1>4, <1>5, <1>6, <1>7 DEF StoreNext, RintfNext

\* The index lists exactly the _rintf services of each peer.
THEOREM RintfIndexCorrect == StoreSpec => []RintfIndexed
<1>1. StoreSpec => []IndexInv
  BY IndexInit, IndexStep, PTL DEF StoreSpec
<1>2. IndexInv => RintfIndexed
  BY DEF IndexInv
<1> QED
  BY <1>1, <1>2, PTL

-----------------------------------------------------------------------------
(* The annotations *)

\* What every step does to services and annotations: it adds one service, one that
\* is new if it is an _rintf service, or removes some.
Adds == \E s \in Ids, p \in Peers \cup {NoCaller}, ow \in BOOLEAN :
          /\ s \in Rintfs => ~Stored(s)
          /\ \E o \in Offers[s] : AddService(s, ApiOf(o, p), ow)
Removes == \E S \in SUBSET Ids : RemoveServices(S)

LEMMA Effects ==
  ASSUME StoreTypeOK, [StoreNext]_storeVars
  PROVE  Adds \/ Removes \/ UNCHANGED <<services, annotations>>
<1> USE IdsDiffer DEF Ids
<1>1. ASSUME NEW s \in Registered, Add(s) PROVE Adds
  BY <1>1 DEF Adds, Add
<1>2. ASSUME NEW s \in Registered, Remove(s) PROVE Removes
  BY <1>2 DEF Removes, Remove
<1>3. ASSUME NEW r \in Rintfs, NEW p \in Peers \cup {NoCaller}, EncodeRintf(r, p) PROVE Adds
  BY <1>3 DEF Adds, EncodeRintf
<1>4. ASSUME NEW r \in Rintfs, NEW p \in Peers \cup {NoCaller}, DisposeRuns(r, p) PROVE Removes
  BY <1>4 DEF Removes, DisposeRuns
<1>5. ASSUME NEW r \in Rintfs, UnregisterRintf(r) PROVE Removes
  BY <1>5 DEF Removes, UnregisterRintf
<1>6. ASSUME NEW p \in Peers, CallerGone(p) PROVE Removes
  <2>1. {r \in caller_index[p] : Stored(r)} \in SUBSET Ids
    BY DEF StoreTypeOK
  <2> QED
    BY <1>6, <2>1 DEF Removes, CallerGone
<1> QED
  BY <1>1, <1>2, <1>3, <1>4, <1>5, <1>6 DEF StoreNext, RintfNext, Dispose, storeVars

GhostInv == StoreTypeOK /\ NoGhost

LEMMA GhostInit == StoreInit => GhostInv
BY StoreTypeInit DEF StoreInit, GhostInv, NoGhost

\* Function f is annotated as a method of a stored service, with its settings.
Own(f, r) == Stored(r) /\ f \in services[r].methods /\ annotations[f] = Settings(r, services[r])

LEMMA GhostStep == GhostInv /\ [StoreNext]_storeVars => GhostInv'
<1> SUFFICES ASSUME GhostInv, [StoreNext]_storeVars PROVE NoGhost'
  BY StoreTypeStep DEF GhostInv
<1> SUFFICES ASSUME NEW f \in Callables, annotations'[f] # Absent, annotations'[f].id \in Rintfs
             PROVE  Own(f, annotations[f].id)'
  BY DEF NoGhost, Own, Stored, Settings
<1> USE IdsDiffer DEF Ids
<1>0. ASSUME annotations'[f] = annotations[f] PROVE Own(f, annotations'[f].id)
  BY <1>0 DEF GhostInv, NoGhost, Own
<1>1. CASE Adds
  <2>1. PICK s \in Ids, p \in Peers \cup {NoCaller}, ow \in BOOLEAN :
          /\ s \in Rintfs => ~Stored(s)
          /\ \E o \in Offers[s] : AddService(s, ApiOf(o, p), ow)
    BY <1>1 DEF Adds
  <2>2. PICK o \in Offers[s] : AddService(s, ApiOf(o, p), ow)
    BY <2>1
  <2>3. s \in Rintfs => services' = [services EXCEPT ![s] = ApiOf(o, p)]
    BY <2>1, <2>2 DEF AddService, Refused
  <2>4. ApiOf(o, p) \in Apis /\ ApiOf(o, p) # Absent
    BY OfferedApi, AbsentAssumption
  <2>5. CASE f \in ApiOf(o, p).methods
    <3>1. annotations'[f] = Settings(s, ApiOf(o, p))
      BY <2>2, <2>5 DEF AddService, Annotated
    <3>2. annotations'[f].id = s
      BY <3>1 DEF Settings
    <3>3. services'[s] = ApiOf(o, p)
      BY <2>3, <3>2 DEF GhostInv, StoreTypeOK
    <3> QED
      BY <2>4, <2>5, <3>1, <3>2, <3>3 DEF Own, Stored, Settings
  <2>6. CASE f \notin ApiOf(o, p).methods
    <3>1. annotations'[f] = annotations[f]
      BY <2>2, <2>6 DEF AddService, Annotated
    <3>2. Own(f, annotations[f].id)
      BY <1>0, <3>1
    <3>3. annotations[f].id # s
      BY <2>1, <3>1, <3>2 DEF Own
    <3>4. services'[annotations[f].id] = services[annotations[f].id]
      BY <2>2, <3>1, <3>3 DEF AddService, GhostInv, StoreTypeOK
    <3> QED
      BY <3>1, <3>2, <3>4 DEF Own, Stored, Settings
  <2> QED
    BY <2>5, <2>6
<1>2. CASE Removes
  <2>1. PICK S \in SUBSET Ids : RemoveServices(S)
    BY <1>2 DEF Removes
  <2>2. /\ annotations'[f] = annotations[f]
        /\ \A s \in S : ~(Stored(s) /\ f \in services[s].methods)
    BY <2>1 DEF RemoveServices, Unannotated
  <2>3. Own(f, annotations[f].id)
    BY <1>0, <2>2
  <2>4. services'[annotations[f].id] = services[annotations[f].id]
    BY <2>1, <2>2, <2>3 DEF RemoveServices, Without, Own
  <2> QED
    BY <2>2, <2>3, <2>4 DEF Own, Stored, Settings
<1>3. CASE UNCHANGED <<services, annotations>>
  BY <1>0, <1>3 DEF Own, Stored, Settings
<1> QED
  BY <1>1, <1>2, <1>3, Effects DEF GhostInv

\* No annotation survives the _rintf service it names or differs from its settings,
\* however functions are shared between services.
THEOREM NoGhostLeft == StoreSpec => []NoGhost
<1>1. StoreSpec => []GhostInv
  BY GhostInit, GhostStep, PTL DEF StoreSpec
<1>2. GhostInv => NoGhost
  BY DEF GhostInv
<1> QED
  BY <1>1, <1>2, PTL
=============================================================================
