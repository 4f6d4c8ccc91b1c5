--------------------------- MODULE DeviceRouting ---------------------------
(***************************************************************************)
(* How the supervisor learns which worker owns which device, and the view  *)
(* of all devices it serves to the web API.                                *)
(*                                                                         *)
(* Every worker keeps bacnet_device_dict; a change sets update_event and   *)
(* _dict_sync_task sends the WHOLE dictionary up.  data_collector feeds    *)
(* each one to DeviceRouter.update_devices and rebuilds the merged view.   *)
(* All workers also save to, and at start restore from, one shared file    *)
(* (/config/bacnet.sqlite), whichever interface the device is on.          *)
(*                                                                         *)
(* A dictionary is a function on Devices with None for an absent key; all  *)
(* the objects and properties of a device are one value, the number of     *)
(* changes the device had gone through when it was read.                   *)
(***************************************************************************)
EXTENDS Naturals, Sequences, SequencesExt, FiniteSetsExt

CONSTANTS
  Workers,              \* names of the resolved interfaces
  Devices,              \* BACnet device identifiers
  Reach,                \* Reach[w]: the devices that answer on interface w
  None,                 \* Python's None, an absent key
  MaxChanges,           \* bound: changes of a device
  MaxInFlight,          \* bound: updates of one worker not yet collected
  MaxRestarts           \* bound: restarts of the add-on

ASSUME RoutingAssumption ==
  /\ Reach \in [Workers -> SUBSET Devices]
  /\ MaxChanges \in Nat /\ MaxInFlight \in Nat /\ MaxRestarts \in Nat
  /\ None \notin Workers /\ None \notin Nat

Dict == [Devices -> (0..MaxChanges) \cup {None}]
Keys(dict) == {d \in Devices : dict[d] # None}
EmptyDict == [d \in Devices |-> None]

\* deep_update: the entries of new are written over those of dict.
DeepUpdate(dict, new) == [d \in Devices |-> IF new[d] = None THEN dict[d] ELSE new[d]]

ASSUME DictAssumption == None \notin Dict

VARIABLES
  actual,       \* actual[d]: changes device d has gone through
  alive,        \* alive[w]: the worker process runs
  known,        \* known[w]: bacnet_device_dict of w
  updateEvent,  \* updateEvent[w]: update_event of w
  inFlight,     \* inFlight[w]: DEVICE_DICT_UPDATEs not yet collected
  workerDicts,  \* Supervisor.worker_dicts, None for an absent key
  order,        \* the insertion order of worker_dicts
  owner,        \* DeviceRouter._device_to_worker, None for an absent key
  merged,       \* Supervisor.merged_device_dict
  sqlite,       \* contents of the shared sqlite file
  restarts      \* restarts of the add-on so far

workerVars == <<alive, known, updateEvent>>
supervisorVars == <<workerDicts, order, owner, merged>>
vars == <<actual, workerVars, inFlight, supervisorVars, sqlite, restarts>>

TypeOK ==
  /\ actual \in [Devices -> 0..MaxChanges]
  /\ alive \in [Workers -> BOOLEAN]
  /\ known \in [Workers -> Dict]
  /\ updateEvent \in [Workers -> BOOLEAN]
  /\ inFlight \in [Workers -> Seq(Dict)]
  /\ workerDicts \in [Workers -> Dict \cup {None}]
  /\ order \in Seq(Workers)
  /\ owner \in [Devices -> Workers \cup {None}]
  /\ merged \in Dict
  /\ sqlite \in Dict
  /\ restarts \in 0..MaxRestarts

\* What Supervisor() and the workers' processes begin with.
Unowned == [d \in Devices |-> None]
OnEveryWorker(x) == [w \in Workers |-> x]

Init ==
  /\ actual = [d \in Devices |-> 0]
  /\ alive = OnEveryWorker(TRUE)
  /\ known = OnEveryWorker(EmptyDict)
  /\ updateEvent = OnEveryWorker(TRUE)
  /\ inFlight = OnEveryWorker(<<>>)
  /\ workerDicts = OnEveryWorker(None)
  /\ order = <<>>
  /\ owner = Unowned
  /\ merged = EmptyDict
  /\ sqlite = EmptyDict
  /\ restarts = 0

----------------------------------------------------------------------------
(* The workers.                                                             *)

Change(d) ==
  /\ actual[d] < MaxChanges
  /\ actual' = [actual EXCEPT ![d] = @ + 1]
  /\ UNCHANGED <<workerVars, inFlight, supervisorVars, sqlite, restarts>>

\* Mutant: the event is set for a device seen for the first time only.
ObserveQuietly(w, d) ==
  /\ alive[w]
  /\ d \in Reach[w]
  /\ known' = [known EXCEPT ![w][d] = actual[d]]
  /\ updateEvent' = [updateEvent EXCEPT ![w] = @ \/ known[w][d] = None]
  /\ UNCHANGED <<actual, alive, inFlight, supervisorVars, sqlite, restarts>>

\* dict_updater, whatever the reading came from: discovery, a poll, a CoV
\* notification or a "read all" command.
Observe(w, d) ==
  /\ alive[w]
  /\ d \in Reach[w]
  /\ known' = [known EXCEPT ![w][d] = actual[d]]
  /\ updateEvent' = [updateEvent EXCEPT ![w] = TRUE]
  /\ UNCHANGED <<actual, alive, inFlight, supervisorVars, sqlite, restarts>>

\* _dict_sync_task: clear the event, snapshot, put.  It does not await between.
SyncDict(w) ==
  /\ alive[w]
  /\ updateEvent[w]
  /\ Len(inFlight[w]) < MaxInFlight
  /\ updateEvent' = [updateEvent EXCEPT ![w] = FALSE]
  /\ inFlight' = [inFlight EXCEPT ![w] = Append(@, known[w])]
  /\ UNCHANGED <<actual, alive, known, supervisorVars, sqlite, restarts>>

\* sqlite_updater; its deep_update sets the update_event as well.  What is saved
\* when no restart is left to read it is not kept: a bound on the states.
Save(w) ==
  /\ alive[w]
  /\ sqlite' = IF restarts < MaxRestarts THEN DeepUpdate(sqlite, known[w]) ELSE sqlite
  /\ updateEvent' = [updateEvent EXCEPT ![w] = TRUE]
  /\ UNCHANGED <<actual, alive, known, inFlight, supervisorVars, restarts>>

\* The process dies; the supervisor does not respawn it, nor forget it.
Crash(w) ==
  /\ alive[w]
  /\ alive' = [alive EXCEPT ![w] = FALSE]
  /\ \E k \in 0..Len(inFlight[w]) : inFlight' = [inFlight EXCEPT ![w] = SubSeq(@, 1, k)]
  /\ UNCHANGED <<actual, known, updateEvent, supervisorVars, sqlite, restarts>>

----------------------------------------------------------------------------
(* The supervisor.                                                          *)

\* Mutants: the old entries are deleted after the new ones are made; the
\* worker claims the whole view; a device may have several owners.
DeleteAfterClaiming(w, ids) ==
  [d \in Devices |-> IF owner[d] = w THEN None ELSE IF d \in ids THEN w ELSE owner[d]]
ClaimTheView(w, ids) ==
  [d \in Devices |-> IF d \in ids \cup Keys(merged) THEN w ELSE owner[d]]
ClaimTogether(w, ids) ==
  [d \in Devices |-> IF d \in ids THEN {owner[d], w} ELSE owner[d]]

\* DeviceRouter.update_devices: w's entries go, then w claims all of ids.
UpdateDevices(w, ids) ==
  [d \in Devices |-> IF d \in ids THEN w ELSE IF owner[d] = w THEN None ELSE owner[d]]

\* Mutant: the dictionary of the newest worker replaces the view.
MergeLast(dicts, workers) == dicts[workers[Len(workers)]]

\* _rebuild_merged_dict: the workers in order, a later one over an earlier.
Merge(dicts, workers) ==
  [d \in Devices |->
     LET having == {i \in DOMAIN workers : dicts[workers[i]][d] # None}
     IN  IF having = {} THEN None ELSE dicts[workers[Max(having)]][d]]

\* Mutant: the newest update first.
CollectNewest(w) ==
  /\ inFlight[w] # <<>>
  /\ LET dict == Last(inFlight[w]) IN
       /\ workerDicts' = [workerDicts EXCEPT ![w] = dict]
       /\ order' = IF workerDicts[w] = None THEN Append(order, w) ELSE order
       /\ owner' = UpdateDevices(w, Keys(dict))
  /\ merged' = Merge(workerDicts', order')
  /\ inFlight' = [inFlight EXCEPT ![w] = Front(@)]
  /\ UNCHANGED <<actual, workerVars, sqlite, restarts>>

\* data_collector takes one DEVICE_DICT_UPDATE of worker w.
CollectUpdate(w) ==
  /\ inFlight[w] # <<>>
  /\ LET dict == Head(inFlight[w]) IN
       /\ workerDicts' = [workerDicts EXCEPT ![w] = dict]
       /\ order' = IF workerDicts[w] = None THEN Append(order, w) ELSE order
       /\ owner' = UpdateDevices(w, Keys(dict))
  /\ merged' = Merge(workerDicts', order')
  /\ inFlight' = [inFlight EXCEPT ![w] = Tail(@)]
  /\ UNCHANGED <<actual, workerVars, sqlite, restarts>>

\* The add-on is restarted and only the file survives: every worker restores
\* all of it, which sets its update_event; the supervisor starts from nothing.
Restart ==
  /\ restarts < MaxRestarts
  /\ alive' = OnEveryWorker(TRUE)
  /\ known' = OnEveryWorker(sqlite)
  /\ updateEvent' = OnEveryWorker(TRUE)
  /\ inFlight' = OnEveryWorker(<<>>)
  /\ workerDicts' = OnEveryWorker(None)
  /\ order' = <<>>
  /\ owner' = Unowned
  /\ merged' = EmptyDict
  /\ restarts' = restarts + 1
  /\ UNCHANGED <<actual, sqlite>>

----------------------------------------------------------------------------
Next ==
  \/ \E d \in Devices : Change(d)
  \/ \E w \in Workers : \/ \E d \in Devices : Observe(w, d)
                        \/ SyncDict(w)
                        \/ Save(w)
                        \/ Crash(w)
                        \/ CollectUpdate(w)
  \/ Restart

Spec == Init /\ [][Next]_vars

\* The sync task of a live worker and the collector keep running.  Nothing
\* makes a worker read a device: polling and CoV are configuration.
Fairness == \A w \in Workers : WF_vars(SyncDict(w)) /\ WF_vars(CollectUpdate(w))

FairSpec == Spec /\ Fairness

----------------------------------------------------------------------------
(* Properties.                                                              *)

\* What the API shows it can also address, and the other way round: a device
\* is in the merged view exactly when the router knows an owner for it.
ViewMatchesRouting == Keys(merged) = {d \in Devices : owner[d] # None}

\* While the add-on runs, a device once shown stays in the view: neither a
\* dead worker nor another one's update takes it away.
ViewNeverForgets ==
  [][restarts' = restarts => Keys(merged) \subseteq Keys(merged')]_vars

\* A command goes to a worker whose network the device is on.
RoutedToReachingWorker ==
  \A d \in Devices : owner[d] # None => d \in Reach[owner[d]]

\* The view of a device never goes back to an older reading.
ViewNeverGoesBack ==
  [][\A d \in Keys(merged) : d \in Keys(merged') /\ merged'[d] >= merged[d]]_vars

\* No reading is lost on its way to the API: what a worker has read the view
\* shows eventually, or something newer, unless the worker dies.
ReadingsReachTheView ==
  \A w \in Workers, d \in Devices : \A v \in 0..MaxChanges :
    (known[w][d] = v) ~> ((d \in Keys(merged) /\ merged[d] >= v) \/ ~alive[w])
=============================================================================
