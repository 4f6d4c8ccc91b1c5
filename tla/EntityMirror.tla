---------------------------- MODULE EntityMirror ----------------------------
(***************************************************************************)
(* ObjectManager: the BACnet objects of a worker that stand for entities   *)
(* of Home Assistant.  Three parties write to them: data_websocket_task,   *)
(* with the events Home Assistant sends; data_write_task, which reads the  *)
(* entity back after each write (module HaWriteBridge, extended here); and *)
(* BACnet clients, which put an object out of service and then write it    *)
(* themselves.                                                             *)
(*                                                                         *)
(* The state of an entity is the number of the change that led to it, and  *)
(* whether it is a value the object can show.  A subscription reports      *)
(* changes from then on, and never the state an entity is in.              *)
(***************************************************************************)
EXTENDS HaWriteBridge

CONSTANTS
  EntityList,   \* entity_list, in the order of the options
  Domain,       \* Domain[e]: what stands before the dot in the name of e
  Numeric,      \* sensors that have a number, or a unit, when the worker starts
  Target,       \* Target[w]: the object write w is for
  MaxChanges,   \* bound: changes of entities
  MaxEvents     \* bound: events not yet handled

Positions == 1..Len(EntityList)
Entities == {EntityList[i] : i \in Positions}

Domains == {"number", "input_number", "counter", "sensor", "switch",
            "input_boolean", "light", "binary_sensor", "schedule", "other"}

ASSUME MirrorAssumption ==
  /\ EntityList \in Seq(Entities)
  /\ \A i, j \in Positions : EntityList[i] = EntityList[j] => i = j
  /\ Domain \in [Entities -> Domains]
  /\ Numeric \subseteq Entities
  /\ MaxChanges \in Nat /\ MaxEvents \in Nat

----------------------------------------------------------------------------
(* The table of objects.                                                    *)

\* process_entity_list; "none" for an entity that is only warned about.
ObjectType(e) ==
  CASE Domain[e] \in {"number", "input_number", "counter"} -> "analogValue"
    [] Domain[e] = "sensor" -> IF e \in Numeric THEN "analogInput" ELSE "characterstringValue"
    [] Domain[e] \in {"switch", "input_boolean", "light"} -> "binaryValue"
    [] Domain[e] \in {"binary_sensor", "schedule"} -> "binaryInput"
    [] OTHER -> "none"

\* The place of an entity in the list of those of its type, as append made it.
Index(i) ==
  Cardinality({j \in 1..(i - 1) : ObjectType(EntityList[j]) = ObjectType(EntityList[i])})

ObjectAt(i) == <<ObjectType(EntityList[i]), Index(i)>>
Mirrored == {i \in Positions : ObjectType(EntityList[i]) # "none"}
Objects == {ObjectAt(i) : i \in Mirrored}
WithObject == {EntityList[i] : i \in Mirrored}

\* entity_to_obj, and data_write_task's way back from an object to its entity.
ObjectOf(e) == ObjectAt(CHOOSE i \in Positions : EntityList[i] = e)
EntityOf(o) ==
  EntityList[CHOOSE i \in Mirrored : ObjectType(EntityList[i]) = o[1] /\ Index(i) = o[2]]

\* data_write_task finds entities of these types only.
Writable(o) == o[1] \in {"binaryValue", "analogValue"}

ASSUME TargetAssumption == Target \in [Writes -> Objects]

----------------------------------------------------------------------------
VARIABLES
  changes,       \* changes so far
  state,         \* state[e]: what Home Assistant says of e
  shown,         \* shown[o]: the change presentValue is from, or Local
  offnormal,     \* offnormal[o]: eventState is offnormal
  outOfService,  \* outOfService[o]
  ws,            \* the websocket: "down", "up" (subscribed) or "deaf" (refused)
  pending,       \* events on the websocket
  missed         \* history: entities whose last change did not get to their object

mirrorVars == <<changes, state, shown, offnormal, outOfService, ws, pending, missed>>
allVars == <<vars, mirrorVars>>

Local == MaxChanges + 1
Kinds == {"value", "unavailable", "unfit", "removed"}
States == [n : 0..MaxChanges, is : Kinds]

\* What the state of an entity may be: "unknown" does not fit an analog object.
KindsOf(e) ==
  IF ObjectType(e) \in {"analogValue", "analogInput"} THEN Kinds ELSE Kinds \ {"unfit"}

MirrorTypeOK ==
  /\ TypeOK
  /\ changes \in 0..MaxChanges
  /\ state \in [Entities -> States]
  /\ shown \in [Objects -> 0..Local]
  /\ offnormal \in [Objects -> BOOLEAN]
  /\ outOfService \in [Objects -> BOOLEAN]
  /\ ws \in {"down", "up", "deaf"}
  /\ pending \in Seq([entity : Entities, to : States]) /\ Len(pending) <= MaxEvents
  /\ missed \subseteq WithObject

\* The objects have been added from what was fetched.  Only analog objects
\* begin offnormal when the entity is unavailable; a state that does not fit,
\* or a missing entity, ends the worker before it starts.
MirrorInit ==
  /\ Init
  /\ changes = 0
  /\ \E away \in SUBSET WithObject :
       /\ state = [e \in Entities |->
                     [n |-> 0, is |-> IF e \in away THEN "unavailable" ELSE "value"]]
       /\ offnormal = [o \in Objects |->
                         EntityOf(o) \in away /\ o[1] \in {"analogValue", "analogInput"}]
       /\ missed = {e \in away : ObjectType(e) \notin {"analogValue", "analogInput"}}
  /\ shown = [o \in Objects |-> 0]
  /\ outOfService = [o \in Objects |-> FALSE]
  /\ ws = "down"
  /\ pending = <<>>

----------------------------------------------------------------------------
(* Home Assistant.                                                          *)

\* e goes to a new state.  Its event is put on the websocket, if there is a
\* subscription; otherwise nobody hears of it.
NewState(e, is) ==
  /\ changes < MaxChanges
  /\ is \in KindsOf(e)
  /\ changes' = changes + 1
  /\ state' = [state EXCEPT ![e] = [n |-> changes + 1, is |-> is]]
  /\ IF ws = "up"
       THEN /\ Len(pending) < MaxEvents
            /\ pending' = Append(pending, [entity |-> e, to |-> state'[e]])
       ELSE UNCHANGED pending

SameState == UNCHANGED <<changes, state, pending>>

\* missed, when e went to a new state.
AfterChange(e) == IF ws = "up" THEN missed \ {e} ELSE missed \cup ({e} \cap WithObject)

Change(e) ==
  /\ \E is \in KindsOf(e) : NewState(e, is)
  /\ missed' = AfterChange(e)
  /\ UNCHANGED <<vars, shown, offnormal, outOfService, ws>>

----------------------------------------------------------------------------
(* update_object.                                                           *)

\* Mutant: an object that has been offnormal stays so.
UpdateObjectOnly(o, s) ==
  IF s.is = "unavailable"
    THEN offnormal' = [offnormal EXCEPT ![o] = TRUE] /\ UNCHANGED shown
    ELSE shown' = [shown EXCEPT ![o] = s.n] /\ UNCHANGED offnormal

\* A state that fits: "unavailable" keeps the value.
UpdateObject(o, s) ==
  IF s.is = "unavailable"
    THEN offnormal' = [offnormal EXCEPT ![o] = TRUE] /\ UNCHANGED shown
    ELSE shown' = [shown EXCEPT ![o] = s.n] /\ offnormal' = [offnormal EXCEPT ![o] = FALSE]

\* One that does not raises, once eventState has been set.
UpdateRaises(o, s) ==
  /\ offnormal' = IF s.is = "unfit" THEN [offnormal EXCEPT ![o] = FALSE] ELSE offnormal
  /\ UNCHANGED shown

----------------------------------------------------------------------------
(* data_websocket_task.                                                     *)

\* Home Assistant accepts the subscription, or refuses it: then the task waits
\* for events that do not come, until the connection closes.
Subscribe ==
  /\ ws = "down"
  /\ ws' \in {"up", "deaf"}
  /\ UNCHANGED <<vars, changes, state, shown, offnormal, outOfService, pending, missed>>

\* The events not handled are gone; the task connects again.
Drop(lost) ==
  /\ ws' = "down"
  /\ pending' = <<>>
  /\ missed' = missed \cup {e \in WithObject : \E i \in 1..Len(lost) : lost[i].entity = e}

Disconnect ==
  /\ ws # "down"
  /\ Drop(pending)
  /\ UNCHANGED <<vars, changes, state, shown, offnormal, outOfService>>

Received == ws = "up" /\ pending # <<>>
Event == Head(pending)

\* Mutant: outOfService is not looked at.
AppliesToAll ==
  /\ ObjectType(Event.entity) # "none"
  /\ Event.to.is \in {"value", "unavailable"}

Applies ==
  /\ ObjectType(Event.entity) # "none"
  /\ Event.to.is \in {"value", "unavailable"}
  /\ ~outOfService[ObjectOf(Event.entity)]

\* An event whose state goes to the object.
ApplyEvent ==
  /\ Received
  /\ Applies
  /\ UpdateObject(ObjectOf(Event.entity), Event.to)
  /\ pending' = Tail(pending)
  /\ missed' = IF Event.to = state[Event.entity] THEN missed \ {Event.entity} ELSE missed
  /\ UNCHANGED <<vars, changes, state, outOfService, ws>>

\* An event that is passed over: the entity has no object, or the object is out
\* of service.
SkipEvent ==
  /\ Received
  /\ Event.to.is # "removed"
  /\ \/ ObjectType(Event.entity) = "none"
     \/ ObjectType(Event.entity) # "none" /\ outOfService[ObjectOf(Event.entity)]
  /\ pending' = Tail(pending)
  /\ missed' = missed \cup {e \in WithObject : Event = [entity |-> e, to |-> state[e]]}
  /\ UNCHANGED <<vars, changes, state, shown, offnormal, outOfService, ws>>

\* Mutant: the exception is caught, but the event stays where it is.
EventRaisesAndStays ==
  /\ Received
  /\ Event.to.is \in {"removed", "unfit"}
  /\ UNCHANGED allVars

\* The entity was removed (to_state is None), or its state does not fit: the
\* exception is logged, and the connection given up with all that is on it.
EventRaises ==
  /\ Received
  /\ \/ Event.to.is = "removed" /\ UNCHANGED <<shown, offnormal>>
     \/ /\ Event.to.is = "unfit"
        /\ ~outOfService[ObjectOf(Event.entity)]
        /\ UpdateRaises(ObjectOf(Event.entity), Event.to)
  /\ Drop(Tail(pending))
  /\ UNCHANGED <<vars, changes, state, outOfService>>

HandleEvent == ApplyEvent \/ SkipEvent \/ EventRaises

----------------------------------------------------------------------------
(* do_WritePropertyRequest.                                                 *)

\* presentValue in service goes to Home Assistant.
PutInService(w) ==
  /\ ~outOfService[Target[w]]
  /\ PutRequest(w)
  /\ UNCHANGED mirrorVars

\* outOfService is written to the object itself ...
WriteOutOfService(o) ==
  /\ Cardinality(Open) < clients
  /\ outOfService' = [outOfService EXCEPT ![o] = ~@]
  /\ UNCHANGED <<vars, changes, state, shown, offnormal, ws, pending, missed>>

\* ... and so is presentValue out of service.
WriteLocally(o) ==
  /\ Cardinality(Open) < clients
  /\ outOfService[o]
  /\ shown' = [shown EXCEPT ![o] = Local]
  /\ missed' = missed \cup {EntityOf(o)}
  /\ UNCHANGED <<vars, changes, state, offnormal, outOfService, ws, pending>>

Answer(w) == Handler(w) /\ UNCHANGED mirrorVars

----------------------------------------------------------------------------
(* data_write_task.                                                         *)

Served == Target[Head(queue)]

\* What the post of a write that Home Assistant took may do to the entity.
Effect(taken) ==
  \/ SameState
  \/ taken /\ NewState(EntityOf(Served), "value")

\* The post, then the state that is read back and given to the object, in
\* service or not.
ServeMirrored ==
  /\ Serve
  /\ Writable(Served)
  /\ LET e == EntityOf(Served) IN
       /\ Effect(outcome'[Head(queue)] = "posted")
       /\ state'[e].is \in {"value", "unavailable"}
       /\ UpdateObject(Served, state'[e])
       /\ missed' = missed \ {e}
  /\ UNCHANGED <<outOfService, ws>>

\* The entity's type is not writable (the entity is None), or the post raises.
PostMirroredRaises ==
  /\ PostRaises
  /\ ~Writable(Served) => outcome'[Head(queue)] = "none"
  /\ LET e == EntityOf(Served) IN
       /\ Effect(outcome'[Head(queue)] = "posted")
       /\ missed' = IF state' = state THEN missed ELSE AfterChange(e)
  /\ UNCHANGED <<shown, offnormal, outOfService, ws>>

\* The entity cannot be read back, or its state does not fit the object.
FetchMirroredFails ==
  /\ FetchFails
  /\ Writable(Served)
  /\ LET e == EntityOf(Served) IN
       /\ Effect(outcome'[Head(queue)] = "posted")
       /\ missed' = IF state' = state THEN missed ELSE AfterChange(e)
       /\ \/ UNCHANGED <<shown, offnormal>>
          \/ state'[e].is = "unfit" /\ UpdateRaises(Served, state'[e])
  /\ UNCHANGED <<outOfService, ws>>

WriteTask ==
  \/ ServeMirrored
  \/ ServeResponse /\ UNCHANGED mirrorVars
  \/ PostMirroredRaises
  \/ FetchMirroredFails

----------------------------------------------------------------------------
MirrorNext ==
  \/ \E e \in Entities : Change(e)
  \/ Subscribe \/ Disconnect \/ HandleEvent
  \/ \E w \in Writes : PutInService(w) \/ Answer(w)
  \/ \E o \in Objects : WriteOutOfService(o) \/ WriteLocally(o)
  \/ WriteTask

MirrorSpec == MirrorInit /\ [][MirrorNext]_allVars

\* The event loop runs every coroutine that is ready.
MirrorFairness ==
  /\ \A w \in Writes : WF_allVars(Answer(w))
  /\ WF_allVars(WriteTask)
  /\ WF_allVars(HandleEvent)

MirrorFairSpec == MirrorSpec /\ MirrorFairness

----------------------------------------------------------------------------
(* Properties.                                                              *)

\* The object of e shows the state of e, as far as an object can.
Current(e) ==
  LET o == ObjectOf(e) IN
    CASE state[e].is = "value" -> shown[o] = state[e].n /\ ~offnormal[o]
      [] state[e].is = "unavailable" -> offnormal[o]
      [] OTHER -> TRUE

\* A change of an entity gets lost on the way to its object in four ways only:
\* it came while there was no subscription, its event was on a connection that
\* was given up, its event found the object out of service, or a client has
\* overwritten the object.  Otherwise the object shows it or its event is to
\* come, however events, writes and read-backs interleave.
NothingLostSilently ==
  \A e \in WithObject :
    \/ Current(e)
    \/ e \in missed
    \/ \E k \in 1..Len(pending) : pending[k] = [entity |-> e, to |-> state[e]]

\* Nothing but a write of a client changes the value of an object out of service:
\* no event ever does; with several clients a write queued before may still be
\* served, whose read-back does not look at outOfService.
LateReadBack(o) ==
  /\ clients > 1
  /\ Called /\ Head(queue) \in Writes /\ Served = o
  /\ shown'[o] = state'[EntityOf(o)].n

OutOfServiceHeld ==
  [][\A o \in Objects : outOfService[o] /\ shown'[o] # shown[o] =>
       shown'[o] = Local \/ LateReadBack(o)]_allVars

\* Every object catches up with its entity again and again, if the last change
\* was not one of the lost ones.
MirrorCatchesUp ==
  \A e \in WithObject : []<>(Current(e) \/ e \in missed)
=============================================================================
