------------------------ MODULE DeviceRoutingProofs ------------------------
(***************************************************************************)
(* What holds of DeviceRouting for any workers, devices and networks.      *)
(*                                                                         *)
(* update_devices first forgets what a worker owned and then lets it claim *)
(* what it reports now; a device it no longer reported would lose its      *)
(* owner although another worker's dictionary still shows it.  So that the *)
(* view and the routing table agree rests on dictionaries never losing a   *)
(* key on the way worker -> queue -> supervisor (KeysGrow).                *)
(***************************************************************************)
EXTENDS DeviceRouting, WellFoundedInduction, TLAPS

\* worker_dicts is in the order of the first reports.
OrderExact == \A w \in Workers : workerDicts[w] # None <=> \E i \in DOMAIN order : order[i] = w

\* A worker's dictionary only gains keys, from report to report.
KeysGrow ==
  \A w \in Workers :
    /\ \A i \in DOMAIN inFlight[w] :
         /\ Keys(inFlight[w][i]) \subseteq Keys(known[w])
         /\ \A j \in DOMAIN inFlight[w] :
              i < j => Keys(inFlight[w][i]) \subseteq Keys(inFlight[w][j])
         /\ workerDicts[w] # None => Keys(workerDicts[w]) \subseteq Keys(inFlight[w][i])
    /\ workerDicts[w] # None => Keys(workerDicts[w]) \subseteq Keys(known[w])

\* An owner has the device in its last report.
OwnersReport ==
  \A d \in Devices : owner[d] # None =>
    workerDicts[owner[d]] # None /\ d \in Keys(workerDicts[owner[d]])

\* Whatever is in some worker's last report has an owner.
ReportsOwned ==
  \A w \in Workers : workerDicts[w] # None =>
    \A d \in Keys(workerDicts[w]) : owner[d] # None

MergedExact == merged = Merge(workerDicts, order)

IInv == /\ TypeOK
        /\ OrderExact
        /\ KeysGrow
        /\ OwnersReport
        /\ ReportsOwned
        /\ MergedExact

----------------------------------------------------------------------------
(* Dictionaries.                                                            *)

\* A dictionary holds no key with the value None: None is no reading.
LEMMA DictKeys ==
  ASSUME NEW dict \in Dict, NEW d \in Devices
  PROVE  d \in Keys(dict) <=> dict[d] \in 0..MaxChanges
  BY RoutingAssumption DEF Dict, Keys

\* A non-empty set of positions in a sequence has a last one.
LEMMA LastPosition ==
  ASSUME NEW n \in Nat, NEW S \in SUBSET (1..n), S # {}
  PROVE  Max(S) \in S /\ \A y \in S : Max(S) >= y
<1> DEFINE T == {n - i : i \in S}
<1>1. T \subseteq Nat /\ T # {}
  <2>1. \A i \in S : n - i \in Nat
    OBVIOUS
  <2>2. PICK i \in S : TRUE
    OBVIOUS
  <2>3. n - i \in T
    OBVIOUS
  <2> QED BY <2>1, <2>3
<1>2. PICK x \in T : \A y \in T : ~ (<<y, x>> \in OpToRel(<, Nat))
  BY <1>1, NatLessThanWellFounded, WFMin
<1>3. \A y \in T : ~ (y < x)
  BY <1>1, <1>2 DEF OpToRel
<1>4. PICK m \in S : x = n - m
  BY <1>2
<1>5. \A y \in S : m >= y
  BY <1>3, <1>4
<1> QED BY <1>4, <1>5 DEF Max

\* The merged view has the devices of the workers it is made of, no others.
LEMMA MergeKeys ==
  ASSUME NEW dicts \in [Workers -> Dict \cup {None}], NEW workers \in Seq(Workers),
         \A i \in DOMAIN workers : dicts[workers[i]] # None,
         NEW d \in Devices
  PROVE  /\ d \in Keys(Merge(dicts, workers)) <=>
              \E i \in DOMAIN workers : d \in Keys(dicts[workers[i]])
         /\ Merge(dicts, workers)[d] \in (0..MaxChanges) \cup {None}
<1> DEFINE having == {i \in DOMAIN workers : dicts[workers[i]][d] # None}
<1>1. \A i \in DOMAIN workers : workers[i] \in Workers /\ dicts[workers[i]] \in Dict
  OBVIOUS
<1>2. Merge(dicts, workers)[d] =
        IF having = {} THEN None ELSE dicts[workers[Max(having)]][d]
  BY DEF Merge
<1>3. having # {} => Max(having) \in having
  BY LastPosition, DOMAIN workers = 1..Len(workers), Len(workers) \in Nat, having \in SUBSET (1..Len(workers))
<1>4. having # {} => Merge(dicts, workers)[d] # None
  BY <1>2, <1>3
<1>5. having # {} <=> \E i \in DOMAIN workers : d \in Keys(dicts[workers[i]])
  BY <1>1 DEF Keys
<1>6. d \in Keys(Merge(dicts, workers)) <=> having # {}
  BY <1>2, <1>4 DEF Keys
<1>7. Merge(dicts, workers)[d] \in (0..MaxChanges) \cup {None}
  BY <1>1, <1>2, <1>3 DEF Dict
<1> QED BY <1>5, <1>6, <1>7

\* The merged view is a dictionary itself.
LEMMA MergeType ==
  ASSUME NEW dicts \in [Workers -> Dict \cup {None}], NEW workers \in Seq(Workers),
         \A i \in DOMAIN workers : dicts[workers[i]] # None
  PROVE  Merge(dicts, workers) \in Dict
<1>1. \A d \in Devices : Merge(dicts, workers)[d] \in (0..MaxChanges) \cup {None}
  BY MergeKeys
<1> QED BY <1>1 DEF Merge, Dict

----------------------------------------------------------------------------
(* The invariant, action by action.                                         *)

\* Nothing is known, nothing reported, nothing owned.
LEMMA EmptyIsDict == EmptyDict \in Dict /\ Keys(EmptyDict) = {}
  BY DEF EmptyDict, Dict, Keys

\* Without reports the view is empty.
LEMMA MergeNothing == Merge([w \in Workers |-> None], <<>>) = EmptyDict
  BY DEF Merge, EmptyDict

\* Before the first start there is nothing to disagree about.
LEMMA IInvInit == Init => IInv
<1> SUFFICES ASSUME Init PROVE IInv
  OBVIOUS
<1> USE RoutingAssumption, EmptyIsDict DEF Init, OnEveryWorker, Unowned
<1>1. TypeOK
  BY DEF TypeOK
<1>2. OrderExact /\ KeysGrow /\ OwnersReport /\ ReportsOwned
  BY DEF OrderExact, KeysGrow, OwnersReport, ReportsOwned
<1>3. MergedExact
  BY MergeNothing DEF MergedExact
<1> QED BY <1>1, <1>2, <1>3 DEF IInv

\* deep_update makes a dictionary of dictionaries, and drops no key.
LEMMA DeepUpdateKeys ==
  ASSUME NEW dict \in Dict, NEW new \in Dict
  PROVE  DeepUpdate(dict, new) \in Dict
  BY DEF DeepUpdate, Dict

\* What the supervisor has is left alone by everything a worker does by itself.
SupervisorKept == UNCHANGED <<workerDicts, order, owner, merged>>

\* The parts of the invariant about the supervisor alone.
LEMMA SupervisorStep ==
  ASSUME OrderExact, OwnersReport, ReportsOwned, MergedExact, SupervisorKept
  PROVE  OrderExact' /\ OwnersReport' /\ ReportsOwned' /\ MergedExact'
  BY DEF OrderExact, OwnersReport, ReportsOwned, MergedExact, SupervisorKept

\* dict_updater adds a key or changes a value.
LEMMA ObserveStep ==
  ASSUME IInv, NEW w \in Workers, NEW d \in Devices, Observe(w, d)
  PROVE  IInv'
<1> USE RoutingAssumption DEF IInv
<1>1. known' \in [Workers -> Dict]
  BY DEF TypeOK, Observe, Dict
<1>2. TypeOK'
  BY <1>1 DEF TypeOK, Observe, supervisorVars
<1>3. \A v \in Workers : Keys(known[v]) \subseteq Keys(known'[v])
  BY DEF TypeOK, Observe, Dict, Keys
<1>4. KeysGrow'
  BY <1>3 DEF KeysGrow, Observe, supervisorVars, Keys
<1>5. SupervisorKept
  BY DEF Observe, supervisorVars, SupervisorKept
<1> QED BY <1>2, <1>4, <1>5, SupervisorStep

\* _dict_sync_task puts a copy of what is known, which has the keys of every
\* report before it.
LEMMA SyncStep ==
  ASSUME IInv, NEW w \in Workers, SyncDict(w)
  PROVE  IInv'
<1> USE RoutingAssumption DEF IInv
<1>1. TypeOK'
  BY DEF TypeOK, SyncDict, supervisorVars
<1>2. ASSUME NEW v \in Workers, NEW i \in DOMAIN inFlight'[v]
      PROVE  inFlight'[v][i] = IF i \in DOMAIN inFlight[v] THEN inFlight[v][i] ELSE known[v]
  BY <1>2 DEF TypeOK, SyncDict
<1>3. \A v \in Workers : \A i, j \in DOMAIN inFlight'[v] :
        i < j /\ j \in DOMAIN inFlight[v] => i \in DOMAIN inFlight[v]
  BY DEF TypeOK, SyncDict
<1>4. \A v \in Workers : \A i, j \in DOMAIN inFlight'[v] :
        i < j => Keys(inFlight'[v][i]) \subseteq Keys(inFlight'[v][j])
  BY <1>1, <1>2, <1>3 DEF KeysGrow, TypeOK, SyncDict
<1>5. KeysGrow'
  BY <1>2, <1>4 DEF KeysGrow, SyncDict, supervisorVars, Keys
<1>6. SupervisorKept
  BY DEF SyncDict, supervisorVars, SupervisorKept
<1> QED BY <1>1, <1>5, <1>6, SupervisorStep

\* A worker that dies leaves the first of its reports behind.
LEMMA CrashStep ==
  ASSUME IInv, NEW w \in Workers, Crash(w)
  PROVE  IInv'
<1> USE DEF IInv
<1>1. PICK k \in 0..Len(inFlight[w]) :
        inFlight' = [inFlight EXCEPT ![w] = SubSeq(@, 1, k)]
  BY DEF Crash
<1>2. \A v \in Workers : \A i \in DOMAIN inFlight'[v] :
        i \in DOMAIN inFlight[v] /\ inFlight'[v][i] = inFlight[v][i]
  BY <1>1 DEF TypeOK
<1>3. TypeOK'
  BY <1>1 DEF TypeOK, Crash, supervisorVars
<1>4. KeysGrow'
  BY <1>2 DEF KeysGrow, Crash, supervisorVars, Keys
<1>5. SupervisorKept
  BY DEF Crash, supervisorVars, SupervisorKept
<1> QED BY <1>3, <1>4, <1>5, SupervisorStep

\* A change of a device is nobody's business until it is read; saving touches
\* the file only.
LEMMA OutsideStep ==
  ASSUME IInv, (\E d \in Devices : Change(d)) \/ (\E w \in Workers : Save(w))
  PROVE  IInv'
<1> USE RoutingAssumption DEF IInv
<1>1. actual' \in [Devices -> 0..MaxChanges] /\ UNCHANGED <<alive, known, inFlight, restarts>>
  BY DEF TypeOK, Change, Save, workerVars
<1>2. sqlite' \in Dict
  BY DeepUpdateKeys DEF TypeOK, Change, Save
<1>3. updateEvent' \in [Workers -> BOOLEAN]
  BY DEF TypeOK, Change, Save, workerVars
<1>4. SupervisorKept
  BY DEF Change, Save, supervisorVars, SupervisorKept
<1>5. TypeOK'
  BY <1>1, <1>2, <1>3, <1>4 DEF TypeOK, SupervisorKept
<1>6. KeysGrow'
  BY <1>1, <1>4 DEF KeysGrow, SupervisorKept, Keys
<1> QED BY <1>4, <1>5, <1>6, SupervisorStep

\* A restart empties the supervisor and the queues.
LEMMA RestartStep ==
  ASSUME IInv, Restart
  PROVE  IInv'
<1> USE RoutingAssumption, EmptyIsDict DEF IInv, Restart, OnEveryWorker, Unowned
<1>1. TypeOK'
  BY DEF TypeOK
<1>2. OrderExact' /\ KeysGrow' /\ OwnersReport' /\ ReportsOwned'
  BY DEF OrderExact, KeysGrow, OwnersReport, ReportsOwned
<1>3. MergedExact'
  BY MergeNothing DEF MergedExact
<1> QED BY <1>1, <1>2, <1>3

\* What is in a sequence after an append was in it, or is what was appended.
LEMMA AppendHas ==
  ASSUME NEW S, NEW s \in Seq(S), NEW e \in S, NEW v
  PROVE  (\E i \in DOMAIN Append(s, e) : Append(s, e)[i] = v)
           <=> (v = e \/ \E i \in DOMAIN s : s[i] = v)
<1>1. /\ DOMAIN Append(s, e) = 1..(Len(s) + 1) /\ DOMAIN s = 1..Len(s)
      /\ Len(s) \in Nat
      /\ Append(s, e)[Len(s) + 1] = e
      /\ \A i \in 1..Len(s) : Append(s, e)[i] = s[i]
  OBVIOUS
<1>2. 1..(Len(s) + 1) = 1..Len(s) \cup {Len(s) + 1}
  BY <1>1
<1> QED BY <1>1, <1>2

\* data_collector takes the oldest report of w in: w's devices get w for their
\* owner, and no device loses its owner, since w's last report had no device
\* that this one lacks.
LEMMA CollectStep ==
  ASSUME IInv, NEW w \in Workers, CollectUpdate(w)
  PROVE  IInv'
<1> USE DEF IInv
<1> DEFINE dict == Head(inFlight[w])
<1>1. /\ dict \in Dict /\ dict # None
      /\ inFlight[w] \in Seq(Dict) /\ inFlight[w] # <<>>
      /\ 1 \in DOMAIN inFlight[w] /\ dict = inFlight[w][1]
  BY DictAssumption DEF TypeOK, CollectUpdate
<1>2. workerDicts' = [workerDicts EXCEPT ![w] = dict]
  BY DEF CollectUpdate
<1>3. \A v \in Workers : v # w => workerDicts'[v] = workerDicts[v]
  BY <1>2 DEF TypeOK
<1>4. workerDicts'[w] = dict
  BY <1>2 DEF TypeOK
<1>5. workerDicts' \in [Workers -> Dict \cup {None}]
  BY <1>1, <1>2 DEF TypeOK
<1>6. order' \in Seq(Workers)
  BY DEF TypeOK, CollectUpdate
<1>7. OrderExact'
  <2>1. CASE workerDicts[w] = None
    <3>1. order' = Append(order, w)
      BY <2>1 DEF CollectUpdate
    <3>2. \A v \in Workers :
            (\E i \in DOMAIN order' : order'[i] = v) <=> (v = w \/ \E i \in DOMAIN order : order[i] = v)
      <4>1. order \in Seq(Workers)
        BY DEF TypeOK
      <4>2. \A v : (\E i \in DOMAIN Append(order, w) : Append(order, w)[i] = v)
                     <=> (v = w \/ \E i \in DOMAIN order : order[i] = v)
        BY <4>1, AppendHas
      <4> QED BY <3>1, <4>2
    <3> QED BY <1>1, <1>3, <1>4, <3>2 DEF OrderExact
  <2>2. CASE workerDicts[w] # None
    <3>1. order' = order
      BY <2>2 DEF CollectUpdate
    <3> QED BY <1>1, <1>3, <1>4, <2>2, <3>1 DEF OrderExact
  <2> QED BY <2>1, <2>2
<1>8. \A i \in DOMAIN order' : workerDicts'[order'[i]] # None
  BY <1>6, <1>7 DEF OrderExact
<1>9. MergedExact' /\ merged' \in Dict
  <2>1. merged' = Merge(workerDicts', order')
    BY DEF CollectUpdate
  <2>2. Merge(workerDicts', order') \in Dict
    BY <1>5, <1>6, <1>8, MergeType
  <2> QED BY <2>1, <2>2 DEF MergedExact, Merge
<1>10. \A d \in Devices :
         owner'[d] = IF d \in Keys(dict) THEN w ELSE IF owner[d] = w THEN None ELSE owner[d]
  BY DEF CollectUpdate, UpdateDevices
<1>11. TypeOK'
  <2>1. owner' \in [Devices -> Workers \cup {None}]
    BY DEF TypeOK, CollectUpdate, UpdateDevices
  <2>2. inFlight' \in [Workers -> Seq(Dict)]
    BY <1>1 DEF TypeOK, CollectUpdate
  <2> QED BY <1>5, <1>6, <1>9, <2>1, <2>2 DEF TypeOK, CollectUpdate, workerVars
<1>12. \A v \in Workers : \A i \in DOMAIN inFlight'[v] :
         /\ i \in Nat /\ i >= 1
         /\ IF v = w THEN i + 1 \in DOMAIN inFlight[w] /\ inFlight'[w][i] = inFlight[w][i + 1]
                     ELSE inFlight'[v] = inFlight[v]
  BY <1>1 DEF TypeOK, CollectUpdate
<1>13. Keys(dict) \subseteq Keys(known[w])
       /\ \A i \in DOMAIN inFlight'[w] : Keys(dict) \subseteq Keys(inFlight'[w][i])
  <2>1. Keys(dict) \subseteq Keys(known[w])
    BY <1>1 DEF KeysGrow
  <2>2. ASSUME NEW i \in DOMAIN inFlight'[w]
        PROVE  Keys(dict) \subseteq Keys(inFlight'[w][i])
    <3>1. i + 1 \in DOMAIN inFlight[w] /\ 1 < i + 1 /\ inFlight'[w][i] = inFlight[w][i + 1]
      <4>1. i \in Nat /\ i >= 1 /\ i + 1 \in DOMAIN inFlight[w]
            /\ inFlight'[w][i] = inFlight[w][i + 1]
        BY <1>12
      <4> QED BY <4>1
    <3> QED BY <1>1, <3>1 DEF KeysGrow
  <2> QED BY <2>1, <2>2
<1>14. KeysGrow'
  <2>1. ASSUME NEW v \in Workers, v # w
        PROVE  inFlight'[v] = inFlight[v] /\ workerDicts'[v] = workerDicts[v] /\ known'[v] = known[v]
    BY <1>3, <2>1 DEF CollectUpdate, workerVars, TypeOK
  <2>2. known' = known
    BY DEF CollectUpdate, workerVars
  <2>3. \A i \in DOMAIN inFlight'[w] :
          /\ Keys(inFlight'[w][i]) \subseteq Keys(known[w])
          /\ \A j \in DOMAIN inFlight'[w] :
               i < j => Keys(inFlight'[w][i]) \subseteq Keys(inFlight'[w][j])
    <3>1. ASSUME NEW i \in DOMAIN inFlight'[w], NEW j \in DOMAIN inFlight'[w], i < j
          PROVE  Keys(inFlight[w][i + 1]) \subseteq Keys(inFlight[w][j + 1])
      <4>1. /\ i + 1 \in DOMAIN inFlight[w] /\ j + 1 \in DOMAIN inFlight[w]
            /\ i \in Nat /\ j \in Nat
        BY <1>12
      <4>2. i + 1 < j + 1
        BY <3>1, <4>1
      <4> QED BY <4>1, <4>2 DEF KeysGrow
    <3>2. ASSUME NEW i \in DOMAIN inFlight'[w]
          PROVE  /\ inFlight'[w][i] = inFlight[w][i + 1]
                 /\ Keys(inFlight[w][i + 1]) \subseteq Keys(known[w])
      BY <1>12 DEF KeysGrow
    <3>3. ASSUME NEW i \in DOMAIN inFlight'[w], NEW j \in DOMAIN inFlight'[w], i < j
          PROVE  Keys(inFlight'[w][i]) \subseteq Keys(inFlight'[w][j])
      <4>1. inFlight'[w][i] = inFlight[w][i + 1] /\ inFlight'[w][j] = inFlight[w][j + 1]
        BY <3>2
      <4> QED BY <3>1, <3>3, <4>1
    <3> QED BY <3>2, <3>3
  <2> QED BY <1>4, <1>13, <2>1, <2>2, <2>3 DEF KeysGrow, Keys
<1>15. workerDicts[w] # None => Keys(workerDicts[w]) \subseteq Keys(dict)
  BY <1>1 DEF KeysGrow
<1>16. OwnersReport'
  <2>1. ASSUME NEW d \in Devices, owner'[d] # None
        PROVE  workerDicts'[owner'[d]] # None /\ d \in Keys(workerDicts'[owner'[d]])
    <3>1. CASE d \in Keys(dict)
      BY <1>1, <1>4, <1>10, <3>1
    <3>2. CASE d \notin Keys(dict)
      <4>1. owner'[d] = owner[d] /\ owner[d] # w /\ owner[d] # None
        BY <1>10, <2>1, <3>2
      <4>2. owner[d] \in Workers
        BY <4>1 DEF TypeOK
      <4> QED BY <1>3, <4>1, <4>2 DEF OwnersReport
    <3> QED BY <3>1, <3>2
  <2> QED BY <2>1 DEF OwnersReport, Keys
<1>17. ReportsOwned'
  <2>1. \A d \in Devices : owner[d] # None => owner'[d] # None
    BY <1>10, <1>15, RoutingAssumption DEF OwnersReport, Keys
  <2>2. \A d \in Keys(dict) : owner'[d] # None
    BY <1>10, RoutingAssumption DEF Keys
  <2> QED BY <1>3, <1>4, <2>1, <2>2 DEF ReportsOwned, Keys
<1> QED BY <1>7, <1>9, <1>11, <1>14, <1>16, <1>17

\* Every step of a worker, of the supervisor or of the add-on preserves it.
LEMMA IInvStep == IInv /\ [Next]_vars => IInv'
<1> SUFFICES ASSUME IInv, [Next]_vars PROVE IInv'
  OBVIOUS
<1>1. CASE UNCHANGED vars
  BY <1>1 DEF vars, workerVars, supervisorVars, IInv, TypeOK, OrderExact, KeysGrow, OwnersReport,
              ReportsOwned, MergedExact, Keys
<1>2. CASE Next
  BY <1>2, OutsideStep, ObserveStep, SyncStep, CrashStep, CollectStep, RestartStep DEF Next
<1> QED BY <1>1, <1>2

\* Dictionaries only gain keys on their way up, and the routing table follows
\* the last reports.
THEOREM Invariance == Spec => []IInv
  BY IInvInit, IInvStep, PTL DEF Spec

\* Queues hold dictionaries, the table holds workers, for any of them.
THEOREM TypeCorrect == Spec => []TypeOK
<1>1. IInv => TypeOK
  BY DEF IInv
<1> QED BY Invariance, <1>1, PTL

\* A view made of the last reports shows the devices in them, and no others.
LEMMA ViewIs ==
  ASSUME NEW dicts \in [Workers -> Dict \cup {None}], NEW workers \in Seq(Workers),
         \A w \in Workers : dicts[w] # None <=> \E i \in DOMAIN workers : workers[i] = w,
         NEW d \in Devices
  PROVE  d \in Keys(Merge(dicts, workers)) <=>
           \E w \in Workers : dicts[w] # None /\ d \in Keys(dicts[w])
<1>1. \A i \in DOMAIN workers : workers[i] \in Workers /\ dicts[workers[i]] # None
  OBVIOUS
<1>2. d \in Keys(Merge(dicts, workers)) <=> \E i \in DOMAIN workers : d \in Keys(dicts[workers[i]])
  BY <1>1, MergeKeys
<1> QED BY <1>1, <1>2

\* What the API lists is what the router can address, on any topology, with
\* workers dying and the add-on restarting.
THEOREM ViewMatchesRoutingCorrect == Spec => []ViewMatchesRouting
<1>1. ASSUME IInv PROVE ViewMatchesRouting
  <2>1. \A d \in Devices : d \in Keys(merged) <=> owner[d] # None
    <3>1. \A d \in Devices : d \in Keys(merged) <=>
            \E w \in Workers : workerDicts[w] # None /\ d \in Keys(workerDicts[w])
      BY <1>1, ViewIs DEF IInv, TypeOK, OrderExact, MergedExact
    <3> QED BY <1>1, <3>1 DEF IInv, TypeOK, OwnersReport, ReportsOwned
  <2> QED BY <2>1 DEF ViewMatchesRouting, Keys
<1> QED BY Invariance, <1>1, PTL

\* While the add-on runs no device disappears from the view.
THEOREM ViewNeverForgetsCorrect == Spec => ViewNeverForgets
<1>1. ASSUME IInv, IInv', [Next]_vars
      PROVE  [restarts' = restarts => Keys(merged) \subseteq Keys(merged')]_vars
  <2> SUFFICES ASSUME Next, restarts' = restarts PROVE Keys(merged) \subseteq Keys(merged')
    BY <1>1
  <2>1. CASE merged' = merged
    BY <2>1
  <2>2. ASSUME NEW w \in Workers, CollectUpdate(w)
        PROVE  Keys(merged) \subseteq Keys(merged')
    <3>1. /\ workerDicts' = [workerDicts EXCEPT ![w] = inFlight[w][1]]
          /\ 1 \in DOMAIN inFlight[w] /\ inFlight[w][1] \in Dict
      BY <1>1, <2>2 DEF CollectUpdate, IInv, TypeOK
    <3>2. \A v \in Workers : workerDicts[v] # None =>
            workerDicts'[v] # None /\ Keys(workerDicts[v]) \subseteq Keys(workerDicts'[v])
      BY <1>1, <3>1, DictAssumption DEF IInv, TypeOK, KeysGrow
    <3>3. \A d \in Devices :
            d \in Keys(merged) => \E v \in Workers : workerDicts'[v] # None /\ d \in Keys(workerDicts'[v])
      <4>1. \A d \in Devices : d \in Keys(merged) <=>
              \E v \in Workers : workerDicts[v] # None /\ d \in Keys(workerDicts[v])
        BY <1>1, ViewIs DEF IInv, TypeOK, OrderExact, MergedExact
      <4> QED BY <3>2, <4>1
    <3>4. \A d \in Devices : d \in Keys(merged') <=>
            \E v \in Workers : workerDicts'[v] # None /\ d \in Keys(workerDicts'[v])
      <4>1. merged' = Merge(workerDicts', order') /\ order' \in Seq(Workers)
            /\ workerDicts' \in [Workers -> Dict \cup {None}]
        BY <1>1 DEF IInv, TypeOK, MergedExact, Merge
      <4>2. \A v \in Workers : workerDicts'[v] # None <=> \E i \in DOMAIN order' : order'[i] = v
        BY <1>1 DEF IInv, OrderExact
      <4> QED BY <4>1, <4>2, ViewIs
    <3> QED BY <3>3, <3>4 DEF Keys
  <2>3. ~Restart
    <3>1. restarts \in Nat
      BY <1>1, RoutingAssumption DEF IInv, TypeOK
    <3>2. Restart => restarts' = restarts + 1
      BY DEF Restart
    <3> QED BY <3>1, <3>2
  <2> QED BY <2>1, <2>2, <2>3 DEF Next, Change, Observe, SyncDict, Save, Crash, supervisorVars
<1> QED BY Invariance, <1>1, PTL DEF Spec, ViewNeverForgets

\* What a worker knows it has read on its own network: there is no restart to
\* give it what another one saved.
KnownInReach == \A w \in Workers : Keys(known[w]) \subseteq Reach[w]

LEMMA KnownInReachCorrect ==
  ASSUME MaxRestarts = 0
  PROVE  Spec => []KnownInReach
<1>1. Init => KnownInReach
  BY EmptyIsDict DEF Init, OnEveryWorker, KnownInReach
<1>2. IInv /\ KnownInReach /\ [Next]_vars => KnownInReach'
  <2> SUFFICES ASSUME IInv, KnownInReach, [Next]_vars PROVE KnownInReach'
    OBVIOUS
  <2>1. CASE known' = known
    BY <2>1 DEF KnownInReach, Keys
  <2>2. ASSUME NEW w \in Workers, NEW d \in Devices, Observe(w, d) PROVE KnownInReach'
    <3>1. \A v \in Workers : Keys(known'[v]) \subseteq Keys(known[v]) \cup {e \in {d} : v = w}
      BY <2>2 DEF Observe, IInv, TypeOK, Dict, Keys
    <3>2. d \in Reach[w]
      BY <2>2 DEF Observe
    <3> QED BY <3>1, <3>2 DEF KnownInReach, Keys
  <2>3. ~Restart
    BY DEF Restart, IInv, TypeOK
  <2> QED BY <2>1, <2>2, <2>3 DEF Next, vars, Change, SyncDict, Save, Crash, CollectUpdate, workerVars
<1>. QED
  BY Invariance, <1>1, <1>2, PTL DEF Spec

\* Without restarts a device is only ever routed to a worker that reaches it,
\* on any topology; the shared file is the one way around it.
THEOREM RoutedWithoutRestarts ==
  ASSUME MaxRestarts = 0
  PROVE  Spec => []RoutedToReachingWorker
<1>1. IInv /\ KnownInReach => RoutedToReachingWorker
  <2> SUFFICES ASSUME IInv, KnownInReach, NEW d \in Devices, owner[d] # None
               PROVE  d \in Reach[owner[d]]
    BY DEF RoutedToReachingWorker
  <2>1. owner[d] \in Workers
    BY DEF IInv, TypeOK
  <2>2. d \in Keys(known[owner[d]])
    BY <2>1 DEF IInv, OwnersReport, KeysGrow
  <2> QED BY <2>1, <2>2 DEF KnownInReach
<1> QED BY Invariance, KnownInReachCorrect, <1>1, PTL

----------------------------------------------------------------------------
(* The view of a device does not go back.                                   *)

\* Every device answers on one interface only.
SeparateNetworks == \A v, w \in Workers : v # w => Reach[v] \cap Reach[w] = {}

\* new has what dict has, as it was or as it became later.
NotNewer(dict, new) == \A d \in Keys(dict) : d \in Keys(new) /\ dict[d] <= new[d]

\* The readings of a worker get no older from one report to the next.
ReadingsGrow ==
  \A w \in Workers :
    /\ \A d \in Keys(known[w]) : known[w][d] <= actual[d]
    /\ \A i \in DOMAIN inFlight[w] :
         /\ NotNewer(inFlight[w][i], known[w])
         /\ \A j \in DOMAIN inFlight[w] : i < j => NotNewer(inFlight[w][i], inFlight[w][j])
         /\ workerDicts[w] # None => NotNewer(workerDicts[w], inFlight[w][i])
    /\ workerDicts[w] # None => NotNewer(workerDicts[w], known[w])

LEMMA NotNewerFacts ==
  ASSUME NEW a \in Dict, NEW b \in Dict, NEW c \in Dict
  PROVE  /\ NotNewer(a, a)
         /\ NotNewer(a, b) /\ NotNewer(b, c) => NotNewer(a, c)
<1>1. \A x \in Dict : \A d \in Keys(x) : x[d] \in Nat
  BY RoutingAssumption DEF Dict, Keys
<1>. QED
  BY <1>1 DEF NotNewer

LEMMA ReadingsGrowStep ==
  ASSUME IInv, IInv', ReadingsGrow, [Next]_vars, ~Restart
  PROVE  ReadingsGrow'
<1>. USE DEF IInv
<1>0. /\ known \in [Workers -> Dict] /\ inFlight \in [Workers -> Seq(Dict)]
      /\ workerDicts \in [Workers -> Dict \cup {None}]
      /\ \A v \in Workers : \A i \in DOMAIN inFlight[v] : inFlight[v][i] \in Dict
  BY DEF TypeOK
<1>1. CASE UNCHANGED <<actual, known, inFlight, workerDicts>>
  BY <1>1 DEF ReadingsGrow, NotNewer, Keys
<1>2. ASSUME NEW d \in Devices, Change(d) PROVE ReadingsGrow'
  <2>1. UNCHANGED <<known, inFlight, workerDicts>>
    BY <1>2 DEF Change, workerVars, supervisorVars
  <2>2. \A e \in Devices : actual'[e] \in Nat /\ actual[e] \in Nat /\ actual[e] <= actual'[e]
    BY <1>2, RoutingAssumption DEF Change, TypeOK
  <2>3. \A v \in Workers : \A e \in Keys(known[v]) : e \in Devices /\ known[v][e] \in Nat
    BY <1>0, RoutingAssumption DEF Dict, Keys
  <2>4. \A v \in Workers : \A e \in Keys(known'[v]) : known'[v][e] <= actual'[e]
    BY <2>1, <2>2, <2>3 DEF ReadingsGrow
  <2>. QED
    BY <2>1, <2>4 DEF ReadingsGrow, NotNewer, Keys
<1>3. ASSUME NEW w \in Workers, NEW d \in Devices, Observe(w, d) PROVE ReadingsGrow'
  <2>1. UNCHANGED <<actual, inFlight, workerDicts>> /\ known' = [known EXCEPT ![w][d] = actual[d]]
    BY <1>3 DEF Observe, supervisorVars
  <2>2. \A v \in Workers, e \in Devices :
          known'[v][e] = IF v = w /\ e = d THEN actual[d] ELSE known[v][e]
    BY <1>0, <2>1 DEF Dict
  <2>3. \A e \in Devices : actual[e] \in Nat
    BY RoutingAssumption DEF TypeOK
  <2>4. \A v \in Workers : \A e \in Keys(known'[v]) : known'[v][e] <= actual'[e]
    BY <2>1, <2>2, <2>3 DEF ReadingsGrow, Keys
  <2>5. ASSUME NEW v \in Workers PROVE NotNewer(known[v], known'[v])
    <3>1. \A e \in Keys(known[v]) : e \in Devices /\ known[v][e] \in Nat /\ known[v][e] <= actual[e]
      BY <1>0, RoutingAssumption DEF Dict, Keys, ReadingsGrow
    <3>2. None \notin Nat
      BY RoutingAssumption
    <3>. QED
      BY <2>2, <2>3, <3>1, <3>2 DEF NotNewer, Keys
  <2>6. known' \in [Workers -> Dict]
    BY DEF TypeOK
  <2>7. ASSUME NEW v \in Workers, NEW x \in Dict, NotNewer(x, known[v]) PROVE NotNewer(x, known'[v])
    BY <1>0, <2>5, <2>6, <2>7, NotNewerFacts
  <2>. QED
    BY <1>0, <2>1, <2>4, <2>7 DEF ReadingsGrow
<1>4. ASSUME NEW w \in Workers, SyncDict(w) PROVE ReadingsGrow'
  <2>1. UNCHANGED <<actual, known, workerDicts>>
        /\ inFlight' = [inFlight EXCEPT ![w] = Append(@, known[w])]
    BY <1>4 DEF SyncDict, supervisorVars
  <2>2. ASSUME NEW v \in Workers, NEW i \in DOMAIN inFlight'[v]
        PROVE  inFlight'[v][i] = IF i \in DOMAIN inFlight[v] THEN inFlight[v][i] ELSE known[v]
    BY <1>0, <2>1
  <2>3. \A v \in Workers : \A i, j \in DOMAIN inFlight'[v] :
          i < j /\ j \in DOMAIN inFlight[v] => i \in DOMAIN inFlight[v]
    BY <1>0, <2>1
  <2>4. \A v \in Workers : NotNewer(known[v], known[v])
    BY <1>0, NotNewerFacts
  <2>5. ASSUME NEW v \in Workers, NEW i \in DOMAIN inFlight'[v]
        PROVE  /\ NotNewer(inFlight'[v][i], known[v])
               /\ workerDicts[v] # None => NotNewer(workerDicts[v], inFlight'[v][i])
    BY <2>2, <2>4 DEF ReadingsGrow
  <2>6. \A v \in Workers : \A i, j \in DOMAIN inFlight'[v] : i < j /\ j \notin DOMAIN inFlight[v] => i \in DOMAIN inFlight[v]
    BY <1>0, <2>1
  <2>7. ASSUME NEW v \in Workers, NEW i \in DOMAIN inFlight'[v], NEW j \in DOMAIN inFlight'[v], i < j
        PROVE  NotNewer(inFlight'[v][i], inFlight'[v][j])
    <3>1. CASE j \in DOMAIN inFlight[v]
      BY <2>2, <2>3, <2>7, <3>1 DEF ReadingsGrow
    <3>2. CASE j \notin DOMAIN inFlight[v]
      BY <2>2, <2>5, <3>2
    <3>. QED
      BY <3>1, <3>2
  <2>8. \A v \in Workers : /\ \A e \in Keys(known[v]) : known[v][e] <= actual[e]
                           /\ workerDicts[v] # None => NotNewer(workerDicts[v], known[v])
    BY DEF ReadingsGrow
  <2>9. known' = known /\ workerDicts' = workerDicts /\ actual' = actual
    BY <2>1
  <2>. QED
    BY <2>5, <2>7, <2>8, <2>9 DEF ReadingsGrow
<1>5. ASSUME NEW w \in Workers, Crash(w) PROVE ReadingsGrow'
  <2>1. PICK k \in 0..Len(inFlight[w]) :
          inFlight' = [inFlight EXCEPT ![w] = SubSeq(@, 1, k)]
    BY <1>5 DEF Crash
  <2>2. \A v \in Workers : \A i \in DOMAIN inFlight'[v] :
          i \in DOMAIN inFlight[v] /\ inFlight'[v][i] = inFlight[v][i]
    BY <1>0, <2>1
  <2>3. UNCHANGED <<actual, known, workerDicts>>
    BY <1>5 DEF Crash, supervisorVars
  <2>. QED
    BY <2>2, <2>3 DEF ReadingsGrow
<1>6. ASSUME NEW w \in Workers, CollectUpdate(w) PROVE ReadingsGrow'
  <2>. DEFINE dict == Head(inFlight[w])
  <2>1. /\ inFlight[w] # <<>> /\ 1 \in DOMAIN inFlight[w] /\ dict = inFlight[w][1]
        /\ workerDicts' = [workerDicts EXCEPT ![w] = dict]
        /\ inFlight' = [inFlight EXCEPT ![w] = Tail(@)]
        /\ UNCHANGED <<actual, known>>
    BY <1>0, <1>6 DEF CollectUpdate, workerVars
  <2>2. /\ workerDicts'[w] = dict
        /\ \A v \in Workers : v # w => workerDicts'[v] = workerDicts[v] /\ inFlight'[v] = inFlight[v]
    BY <1>0, <2>1
  <2>3. \A i \in DOMAIN inFlight'[w] :
          /\ i \in Nat /\ i >= 1
          /\ i + 1 \in DOMAIN inFlight[w] /\ inFlight'[w][i] = inFlight[w][i + 1]
    BY <1>0, <2>1
  <2>4. ASSUME NEW i \in DOMAIN inFlight'[w]
        PROVE  /\ NotNewer(inFlight'[w][i], known[w])
               /\ NotNewer(dict, inFlight'[w][i])
    <3>1. i + 1 \in DOMAIN inFlight[w] /\ inFlight'[w][i] = inFlight[w][i + 1] /\ 1 < i + 1
      BY <2>3
    <3>. QED
      BY <2>1, <3>1 DEF ReadingsGrow
  <2>5. ASSUME NEW i \in DOMAIN inFlight'[w], NEW j \in DOMAIN inFlight'[w], i < j
        PROVE  NotNewer(inFlight'[w][i], inFlight'[w][j])
    <3>1. i + 1 < j + 1
      BY <2>3, <2>5
    <3>. QED
      BY <2>3, <3>1 DEF ReadingsGrow
  <2>6. NotNewer(dict, known[w])
    BY <2>1 DEF ReadingsGrow
  <2>7. known' = known /\ actual' = actual
    BY <2>1
  <2>. HIDE DEF dict
  <2>8. ASSUME NEW v \in Workers
        PROVE  /\ \A d \in Keys(known[v]) : known[v][d] <= actual[d]
               /\ \A i \in DOMAIN inFlight'[v] :
                    /\ NotNewer(inFlight'[v][i], known[v])
                    /\ \A j \in DOMAIN inFlight'[v] : i < j => NotNewer(inFlight'[v][i], inFlight'[v][j])
                    /\ workerDicts'[v] # None => NotNewer(workerDicts'[v], inFlight'[v][i])
               /\ workerDicts'[v] # None => NotNewer(workerDicts'[v], known[v])
    <3>1. CASE v = w
      BY <2>2, <2>4, <2>5, <2>6, <3>1 DEF ReadingsGrow
    <3>2. CASE v # w
      BY <2>2, <3>2 DEF ReadingsGrow
    <3>. QED
      BY <3>1, <3>2
  <2>. QED
    BY <2>7, <2>8 DEF ReadingsGrow
<1>7. ASSUME NEW w \in Workers, Save(w) PROVE ReadingsGrow'
  BY <1>1, <1>7 DEF Save, supervisorVars
<1>8. CASE UNCHANGED vars
  BY <1>1, <1>8 DEF vars, workerVars, supervisorVars
<1>. QED
  BY <1>2, <1>3, <1>4, <1>5, <1>6, <1>7, <1>8 DEF Next

\* Of a device only one worker reports, the view is the last report.
LEMMA OnlyReportIsShown ==
  ASSUME NEW dicts \in [Workers -> Dict \cup {None}], NEW workers \in Seq(Workers),
         \A v \in Workers : dicts[v] # None <=> \E i \in DOMAIN workers : workers[i] = v,
         NEW w \in Workers, NEW d \in Devices,
         dicts[w] # None, d \in Keys(dicts[w]),
         \A v \in Workers : dicts[v] # None /\ d \in Keys(dicts[v]) => v = w
  PROVE  Merge(dicts, workers)[d] = dicts[w][d]
<1>. DEFINE having == {i \in DOMAIN workers : dicts[workers[i]][d] # None}
<1>1. /\ \A i \in DOMAIN workers : workers[i] \in Workers /\ dicts[workers[i]] # None
      /\ \E i \in DOMAIN workers : workers[i] = w
  OBVIOUS
<1>2. having # {}
  BY <1>1 DEF Keys
<1>3. having \in SUBSET (1..Len(workers)) /\ Len(workers) \in Nat
  BY <1>1
<1>4. Max(having) \in having
  BY <1>2, <1>3, LastPosition
<1>5. \A i \in having : workers[i] = w
  BY <1>1 DEF Keys
<1>6. Merge(dicts, workers)[d] = IF having = {} THEN None ELSE dicts[workers[Max(having)]][d]
  BY DEF Merge
<1>. QED
  BY <1>2, <1>4, <1>5, <1>6

\* ViewNeverGoesBack, on networks that are separate and while the add-on runs:
\* on a device in two dictionaries the view shows the worker that reported for
\* the first time last, whoever read it last, and a restart empties the view.
THEOREM ViewNeverGoesBackCorrect ==
  ASSUME MaxRestarts = 0, SeparateNetworks
  PROVE  Spec => ViewNeverGoesBack
<1>0. ASSUME IInv, [Next]_vars PROVE ~Restart
  BY <1>0 DEF Restart, IInv, TypeOK
<1>1. Init => ReadingsGrow
  <2>. SUFFICES ASSUME Init PROVE ReadingsGrow
    OBVIOUS
  <2>1. \A w \in Workers : /\ Keys(known[w]) = {} /\ inFlight[w] = <<>> /\ workerDicts[w] = None
    BY EmptyIsDict DEF Init, OnEveryWorker
  <2>. QED
    BY <2>1 DEF ReadingsGrow
<1>2. IInv /\ IInv' /\ ReadingsGrow /\ [Next]_vars => ReadingsGrow'
  BY <1>0, ReadingsGrowStep
<1>3. Spec => []ReadingsGrow
  BY <1>1, <1>2, Invariance, PTL DEF Spec
<1>4. ASSUME IInv, KnownInReach, NEW w \in Workers, NEW v \in Workers, NEW d \in Devices,
             workerDicts[w] # None, d \in Keys(workerDicts[w]),
             workerDicts[v] # None, d \in Keys(workerDicts[v])
      PROVE  v = w
  BY <1>4 DEF IInv, KeysGrow, KnownInReach, SeparateNetworks
<1>5. ASSUME IInv, IInv', ReadingsGrow, KnownInReach, KnownInReach', [Next]_vars
      PROVE  [\A d \in Keys(merged) : d \in Keys(merged') /\ merged'[d] >= merged[d]]_vars
  <2>. SUFFICES ASSUME Next, NEW d \in Keys(merged)
                PROVE  d \in Keys(merged') /\ merged'[d] >= merged[d]
    BY <1>5
  <2>0. d \in Devices /\ merged[d] \in Nat
    BY <1>5, RoutingAssumption DEF IInv, TypeOK, Dict, Keys
  <2>1. CASE merged' = merged
    BY <2>0, <2>1 DEF Keys
  <2>2. ASSUME NEW w \in Workers, CollectUpdate(w)
        PROVE  d \in Keys(merged') /\ merged'[d] >= merged[d]
    <3>1. PICK v \in Workers : workerDicts[v] # None /\ d \in Keys(workerDicts[v])
      BY <1>5, <2>0, ViewIs DEF IInv, TypeOK, OrderExact, MergedExact
    <3>2. merged[d] = workerDicts[v][d]
      <4>1. /\ workerDicts \in [Workers -> Dict \cup {None}] /\ order \in Seq(Workers)
            /\ \A u \in Workers : workerDicts[u] # None <=> \E i \in DOMAIN order : order[i] = u
            /\ merged = Merge(workerDicts, order)
        BY <1>5 DEF IInv, TypeOK, OrderExact, MergedExact
      <4>2. \A u \in Workers : workerDicts[u] # None /\ d \in Keys(workerDicts[u]) => u = v
        BY <1>4, <1>5, <2>0, <3>1
      <4>. QED
        BY <2>0, <3>1, <4>1, <4>2, OnlyReportIsShown
    <3>3. /\ workerDicts' = [workerDicts EXCEPT ![w] = inFlight[w][1]]
          /\ 1 \in DOMAIN inFlight[w] /\ inFlight[w][1] \in Dict
      BY <1>5, <2>2 DEF CollectUpdate, IInv, TypeOK
    <3>4. workerDicts'[v] # None /\ d \in Keys(workerDicts'[v])
          /\ workerDicts[v][d] <= workerDicts'[v][d]
      <4>1. CASE v = w
        <5>1. workerDicts'[v] = inFlight[w][1]
          BY <1>5, <3>3, <4>1 DEF IInv, TypeOK
        <5>2. NotNewer(workerDicts[v], inFlight[w][1])
          BY <1>5, <3>1, <3>3, <4>1 DEF ReadingsGrow
        <5>. QED
          BY <3>1, <3>3, <5>1, <5>2, DictAssumption DEF NotNewer
      <4>2. CASE v # w
        <5>1. workerDicts'[v] = workerDicts[v]
          BY <1>5, <3>3, <4>2 DEF IInv, TypeOK
        <5>. QED
          BY <2>0, <3>1, <3>2, <5>1 DEF Keys
      <4>. QED
        BY <4>1, <4>2
    <3>5. merged'[d] = workerDicts'[v][d]
      <4>1. \A u \in Workers : workerDicts'[u] # None /\ d \in Keys(workerDicts'[u]) => u = v
        BY <1>5, <2>0, <3>4 DEF IInv, KeysGrow, KnownInReach, SeparateNetworks
      <4>2. /\ workerDicts' \in [Workers -> Dict \cup {None}] /\ order' \in Seq(Workers)
            /\ \A u \in Workers : workerDicts'[u] # None <=> \E i \in DOMAIN order' : order'[i] = u
            /\ merged' = Merge(workerDicts', order')
        BY <1>5 DEF IInv, TypeOK, OrderExact, MergedExact, Merge
      <4>3. d \in Devices /\ workerDicts'[v] # None /\ d \in Keys(workerDicts'[v])
        BY <2>0, <3>4
      <4>4. Merge(workerDicts', order')[d] = workerDicts'[v][d]
        BY <4>1, <4>2, <4>3, OnlyReportIsShown
      <4>. QED
        BY <4>2, <4>4
    <3>6. d \in Keys(merged')
      BY <2>0, <3>4, <3>5 DEF Keys
    <3>. QED
      BY <3>2, <3>4, <3>5, <3>6
  <2>. QED
    BY <1>0, <1>5, <2>1, <2>2 DEF Next, Change, Observe, SyncDict, Save, Crash, supervisorVars
<1>. QED
  BY <1>3, <1>5, Invariance, KnownInReachCorrect, PTL DEF Spec, ViewNeverGoesBack
=============================================================================
