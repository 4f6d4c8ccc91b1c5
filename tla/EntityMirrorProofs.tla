-------------------------- MODULE EntityMirrorProofs --------------------------
(***************************************************************************)
(* Proofs about EntityMirror, for any list of entities: it implements the  *)
(* write bridge it extends, and no change of an entity is lost but in the  *)
(* ways NothingLostSilently names.                                         *)
(***************************************************************************)
EXTENDS EntityMirror, HaWriteBridgeProofs

----------------------------------------------------------------------------
(* The table of objects.                                                    *)

\* Of two entities with the same type the later one has the greater index.
LEMMA IndexGrows ==
  ASSUME NEW i \in Positions, NEW j \in Positions, i < j,
         ObjectType(EntityList[i]) = ObjectType(EntityList[j])
  PROVE  Index(i) # Index(j)
<1>. DEFINE A == {k \in 1..(i - 1) : ObjectType(EntityList[k]) = ObjectType(EntityList[i])}
            B == {k \in 1..(j - 1) : ObjectType(EntityList[k]) = ObjectType(EntityList[j])}
<1>1. i \in Nat /\ j \in Nat
  BY DEF Positions
<1>2. IsFiniteSet(1..(j - 1))
  BY <1>1, FS_Interval
<1>3. IsFiniteSet(B)
  <2>1. B \in SUBSET (1..(j - 1))
    OBVIOUS
  <2>. HIDE DEF B
  <2>. QED
    BY <1>2, <2>1, FS_Subset
<1>4. A \in SUBSET B /\ i \in B /\ i \notin A
  BY <1>1 DEF Positions
<1>5. Cardinality(A) # Cardinality(B)
  <2>. HIDE DEF A, B
  <2>. QED
    BY <1>3, <1>4, FS_Subset
<1>. QED
  BY <1>5 DEF Index

\* No two entities have the same object.
LEMMA ObjectAtInjective ==
  ASSUME NEW i \in Positions, NEW j \in Positions, ObjectAt(i) = ObjectAt(j)
  PROVE  i = j
<1>1. ObjectType(EntityList[i]) = ObjectType(EntityList[j]) /\ Index(i) = Index(j)
  BY DEF ObjectAt
<1>2. i < j \/ j < i \/ i = j
  BY DEF Positions
<1>. QED
  BY <1>1, <1>2, IndexGrows

\* Nor are they mixed up.
LEMMA ObjectOfInjective ==
  ASSUME NEW e \in Entities, NEW f \in Entities, ObjectOf(e) = ObjectOf(f)
  PROVE  e = f
<1>1. \A g \in Entities : LET i == CHOOSE k \in Positions : EntityList[k] = g
                         IN  i \in Positions /\ EntityList[i] = g
  BY DEF Entities
<1>. QED
  BY <1>1, ObjectAtInjective DEF ObjectOf

\* From an entity to its object, and back.
LEMMA ThereAndBack ==
  ASSUME NEW i \in Mirrored
  PROVE  /\ i \in Positions /\ EntityList[i] \in Entities
         /\ ObjectOf(EntityList[i]) = ObjectAt(i)
         /\ EntityOf(ObjectAt(i)) = EntityList[i]
<1>1. i \in Positions
  BY DEF Mirrored
<1>2. (CHOOSE k \in Positions : EntityList[k] = EntityList[i]) = i
  BY <1>1, MirrorAssumption
<1>3. \A k \in Mirrored :
        (ObjectType(EntityList[k]) = ObjectAt(i)[1] /\ Index(k) = ObjectAt(i)[2]) <=> k = i
  <2>. SUFFICES ASSUME NEW k \in Mirrored,
                       ObjectType(EntityList[k]) = ObjectAt(i)[1], Index(k) = ObjectAt(i)[2]
                PROVE  k = i
    BY DEF ObjectAt
  <2>1. ObjectAt(k) = ObjectAt(i)
    BY DEF ObjectAt
  <2>. QED
    BY <1>1, <2>1, ObjectAtInjective DEF Mirrored
<1>4. (CHOOSE k \in Mirrored :
         ObjectType(EntityList[k]) = ObjectAt(i)[1] /\ Index(k) = ObjectAt(i)[2]) = i
  BY <1>3
<1>5. EntityOf(ObjectAt(i)) = EntityList[i]
  BY <1>4 DEF EntityOf
<1>. QED
  BY <1>1, <1>2, <1>5 DEF ObjectOf, Entities

\* The table relates each object to one entity.
LEMMA Table ==
  /\ \A e \in WithObject : e \in Entities /\ ObjectOf(e) \in Objects /\ EntityOf(ObjectOf(e)) = e
  /\ \A o \in Objects : EntityOf(o) \in WithObject /\ ObjectOf(EntityOf(o)) = o
  /\ \A e \in Entities : e \in WithObject <=> ObjectType(e) # "none"
<1>1. \A e \in WithObject :
        e \in Entities /\ ObjectOf(e) \in Objects /\ EntityOf(ObjectOf(e)) = e
  BY ThereAndBack DEF WithObject, Objects
<1>2. \A o \in Objects : EntityOf(o) \in WithObject /\ ObjectOf(EntityOf(o)) = o
  BY ThereAndBack DEF WithObject, Objects
<1>3. \A e \in Entities : e \in WithObject <=> ObjectType(e) # "none"
  BY DEF WithObject, Mirrored, Entities
<1>. QED
  BY <1>1, <1>2, <1>3

----------------------------------------------------------------------------
(* Sequences.                                                               *)

\* An element of a sequence.
LEMMA ElementFacts ==
  ASSUME NEW S, NEW s \in Seq(S), NEW k \in 1..Len(s)
  PROVE  s[k] \in S
OBVIOUS

\* What Append does.
LEMMA AppendFacts ==
  ASSUME NEW S, NEW s \in Seq(S), NEW x \in S
  PROVE  /\ Append(s, x) \in Seq(S)
         /\ Len(Append(s, x)) = Len(s) + 1
         /\ Append(s, x)[Len(s) + 1] = x
         /\ \A k \in 1..Len(s) : Append(s, x)[k] = s[k]
OBVIOUS

\* What Tail does.
LEMMA TailFacts ==
  ASSUME NEW S, NEW s \in Seq(S), s # <<>>
  PROVE  /\ Len(s) \in Nat \ {0} /\ Head(s) = s[1] /\ s[1] \in S
         /\ Tail(s) \in Seq(S) /\ Len(Tail(s)) = Len(s) - 1
         /\ \A k \in 1..Len(Tail(s)) : Tail(s)[k] = s[k + 1]
OBVIOUS

----------------------------------------------------------------------------
(* The write bridge.                                                        *)

\* A step of the mirror is one of the bridge, or leaves the bridge alone.
LEMMA MirrorStep == [MirrorNext]_allVars => [Next]_vars
<1>. SUFFICES ASSUME [MirrorNext]_allVars PROVE [Next]_vars
  OBVIOUS
<1>1. CASE \E e \in Entities : Change(e)
  BY <1>1 DEF Change
<1>2. CASE Subscribe \/ Disconnect \/ HandleEvent
  BY <1>2 DEF Subscribe, Disconnect, HandleEvent, ApplyEvent, SkipEvent, EventRaises
<1>3. CASE \E w \in Writes : PutInService(w) \/ Answer(w)
  BY <1>3 DEF PutInService, Answer, Next
<1>4. CASE \E o \in Objects : WriteOutOfService(o) \/ WriteLocally(o)
  BY <1>4 DEF WriteOutOfService, WriteLocally
<1>5. CASE WriteTask
  BY <1>5 DEF WriteTask, ServeMirrored, PostMirroredRaises, FetchMirroredFails, Next, DataWriteTask
<1>6. CASE UNCHANGED allVars
  BY <1>6 DEF allVars
<1>. QED
  BY <1>1, <1>2, <1>3, <1>4, <1>5, <1>6 DEF MirrorNext

\* The entities, their websocket and the objects out of service do nothing to
\* the queue and the event that the bridge could not stand: EntityMirror
\* implements HaWriteBridge.
THEOREM MirrorImplementsBridge == MirrorSpec => Spec
<1>1. MirrorInit => Init
  BY DEF MirrorInit
<1>. QED
  BY <1>1, MirrorStep, PTL DEF MirrorSpec, Spec

\* HonestToOneClient: so one client at a time is told the truth, whatever the
\* entities do meanwhile.
THEOREM MirrorHonest == MirrorSpec => []HonestToOneClient
BY MirrorImplementsBridge, SerialHonest, PTL

\* OneItemPerHandler: nor does a handler ever take two items.
THEOREM MirrorOneItem == MirrorSpec => []OneItemPerHandler
BY MirrorImplementsBridge, OneItemPerHandlerCorrect, PTL

----------------------------------------------------------------------------
(* Types.                                                                   *)

\* A new state of an entity keeps the types, and tells only of that entity.
LEMMA NewStateType ==
  ASSUME MirrorTypeOK, NEW e \in Entities, NEW is, NewState(e, is)
  PROVE  /\ changes' \in 0..MaxChanges
         /\ state' \in [Entities -> States] /\ \A f \in Entities : f # e => state'[f] = state[f]
         /\ pending' \in Seq([entity : Entities, to : States]) /\ Len(pending') <= MaxEvents
         /\ IF ws = "up" THEN pending' = Append(pending, [entity |-> e, to |-> state'[e]])
                         ELSE pending' = pending
<1>. DEFINE n == [n |-> changes + 1, is |-> is]
<1>1. is \in Kinds /\ changes + 1 \in 0..MaxChanges
  BY MirrorAssumption DEF NewState, KindsOf, Kinds, MirrorTypeOK
<1>2. n \in States
  BY <1>1 DEF States
<1>3. state' = [state EXCEPT ![e] = n] /\ state \in [Entities -> States]
  BY DEF NewState, MirrorTypeOK
<1>4. state' \in [Entities -> States] /\ state'[e] \in States
  BY <1>2, <1>3
<1>5. [entity |-> e, to |-> state'[e]] \in [entity : Entities, to : States]
  BY <1>4
<1>6. pending \in Seq([entity : Entities, to : States]) /\ Len(pending) <= MaxEvents
  BY DEF MirrorTypeOK
<1>7. CASE ws = "up"
  <2>1. Len(pending) < MaxEvents /\ pending' = Append(pending, [entity |-> e, to |-> state'[e]])
    BY <1>7 DEF NewState
  <2>2. pending' \in Seq([entity : Entities, to : States]) /\ Len(pending') = Len(pending) + 1
    BY <1>5, <1>6, <2>1, AppendFacts
  <2>3. Len(pending') <= MaxEvents
    BY <1>6, <2>1, <2>2, MirrorAssumption
  <2>. QED
    BY <1>1, <1>3, <1>4, <1>7, <2>1, <2>2, <2>3 DEF NewState
<1>8. CASE ws # "up"
  BY <1>1, <1>3, <1>4, <1>6, <1>8 DEF NewState
<1>. QED
  BY <1>7, <1>8

\* update_object keeps the types.
LEMMA UpdateType ==
  ASSUME MirrorTypeOK, NEW o \in Objects, NEW s \in States,
         UpdateObject(o, s) \/ UpdateRaises(o, s)
  PROVE  shown' \in [Objects -> 0..Local] /\ offnormal' \in [Objects -> BOOLEAN]
<1>1. s.n \in 0..Local
  BY MirrorAssumption DEF States, Local
<1>. QED
  BY <1>1 DEF UpdateObject, UpdateRaises, MirrorTypeOK

\* The first event is of its type.
LEMMA EventType ==
  ASSUME MirrorTypeOK, Received
  PROVE  /\ Event.entity \in Entities /\ Event.to \in States /\ Event = pending[1]
         /\ Tail(pending) \in Seq([entity : Entities, to : States])
         /\ Len(Tail(pending)) <= MaxEvents
<1>1. /\ pending \in Seq([entity : Entities, to : States])
      /\ pending # <<>> /\ Len(pending) <= MaxEvents
  BY DEF MirrorTypeOK, Received
<1>2. Head(pending) \in [entity : Entities, to : States] /\ Head(pending) = pending[1]
  BY <1>1, TailFacts
<1>3. Tail(pending) \in Seq([entity : Entities, to : States]) /\ Len(Tail(pending)) <= MaxEvents
  BY <1>1, TailFacts, MirrorAssumption
<1>. QED
  BY <1>2, <1>3 DEF Event

\* A new state of an entity with an object leaves the bridge's state out.
LEMMA EffectType ==
  ASSUME MirrorTypeOK, NEW taken \in BOOLEAN, Called, Head(queue) \in Writes, Effect(taken)
  PROVE  /\ Served \in Objects
         /\ changes' \in 0..MaxChanges
         /\ state' \in [Entities -> States]
         /\ pending' \in Seq([entity : Entities, to : States]) /\ Len(pending') <= MaxEvents
         /\ state'[EntityOf(Served)] \in States
<1>1. Served \in Objects
  BY TargetAssumption DEF Served
<1>2. EntityOf(Served) \in Entities
  BY <1>1, Table
<1>3. CASE SameState
  BY <1>1, <1>2, <1>3 DEF SameState, MirrorTypeOK
<1>4. CASE NewState(EntityOf(Served), "value")
  BY <1>1, <1>2, <1>4, NewStateType
<1>. QED
  BY <1>3, <1>4 DEF Effect

\* Every step keeps the types.
LEMMA TypeStep == MirrorTypeOK /\ TypeOK' /\ [MirrorNext]_allVars => MirrorTypeOK'
<1>. SUFFICES ASSUME MirrorTypeOK, TypeOK', [MirrorNext]_allVars PROVE MirrorTypeOK'
  OBVIOUS
<1>1. ASSUME NEW e \in Entities, Change(e) PROVE MirrorTypeOK'
  <2>1. PICK is \in KindsOf(e) : NewState(e, is)
    BY <1>1 DEF Change
  <2>2. missed' \subseteq WithObject
    BY <1>1 DEF Change, AfterChange, MirrorTypeOK
  <2>. QED
    BY <1>1, <2>1, <2>2, NewStateType DEF Change, MirrorTypeOK
<1>2. ASSUME NEW lost, Drop(lost) PROVE /\ ws' \in {"down", "up", "deaf"}
                                       /\ pending' \in Seq([entity : Entities, to : States])
                                       /\ Len(pending') <= MaxEvents
                                       /\ missed' \subseteq WithObject
  BY <1>2, MirrorAssumption DEF Drop, MirrorTypeOK
<1>3. CASE Subscribe
  BY <1>3 DEF Subscribe, MirrorTypeOK
<1>4. CASE Disconnect
  BY <1>2, <1>4 DEF Disconnect, MirrorTypeOK
<1>5. CASE ApplyEvent
  <2>1. Event.entity \in WithObject
    BY <1>5, EventType, Table DEF ApplyEvent, Applies
  <2>2. ObjectOf(Event.entity) \in Objects
    BY <2>1, Table
  <2>3. shown' \in [Objects -> 0..Local] /\ offnormal' \in [Objects -> BOOLEAN]
    BY <1>5, <2>2, EventType, UpdateType DEF ApplyEvent
  <2>. QED
    BY <1>5, <2>3, EventType DEF ApplyEvent, MirrorTypeOK
<1>6. CASE SkipEvent
  BY <1>6, EventType DEF SkipEvent, MirrorTypeOK
<1>7. CASE EventRaises
  <2>1. CASE UNCHANGED <<shown, offnormal>>
    BY <1>2, <1>7, <2>1 DEF EventRaises, MirrorTypeOK
  <2>2. CASE UpdateRaises(ObjectOf(Event.entity), Event.to)
    <3>1. shown' \in [Objects -> 0..Local] /\ offnormal' \in [Objects -> BOOLEAN]
      BY <2>2 DEF UpdateRaises, MirrorTypeOK
    <3>. QED
      BY <1>2, <1>7, <3>1 DEF EventRaises, MirrorTypeOK
  <2>. QED
    BY <1>7, <2>1, <2>2 DEF EventRaises
<1>8. CASE \E w \in Writes : PutInService(w) \/ Answer(w)
  BY <1>8 DEF PutInService, Answer, mirrorVars, MirrorTypeOK
<1>9. ASSUME NEW o \in Objects, WriteOutOfService(o) PROVE MirrorTypeOK'
  BY <1>9 DEF WriteOutOfService, MirrorTypeOK
<1>10. ASSUME NEW o \in Objects, WriteLocally(o) PROVE MirrorTypeOK'
  <2>1. Local \in 0..Local
    BY MirrorAssumption DEF Local
  <2>2. EntityOf(o) \in WithObject
    BY Table
  <2>. QED
    BY <1>10, <2>1, <2>2 DEF WriteLocally, MirrorTypeOK
<1>11. CASE ServeMirrored
  <2>1. Called /\ Head(queue) \in Writes /\ Effect(outcome'[Head(queue)] = "posted")
    BY <1>11 DEF ServeMirrored, Serve, ServeWith
  <2>2. shown' \in [Objects -> 0..Local] /\ offnormal' \in [Objects -> BOOLEAN]
    BY <1>11, <2>1, EffectType, UpdateType DEF ServeMirrored
  <2>. QED
    BY <1>11, <2>1, <2>2, EffectType DEF ServeMirrored, MirrorTypeOK
<1>12. ASSUME NEW e \in WithObject, missed' = IF state' = state THEN missed ELSE AfterChange(e)
       PROVE  missed' \subseteq WithObject
  BY <1>12 DEF AfterChange, MirrorTypeOK
<1>13. CASE PostMirroredRaises
  <2>1. Called /\ Head(queue) \in Writes /\ Effect(outcome'[Head(queue)] = "posted")
    BY <1>13 DEF PostMirroredRaises, PostRaises
  <2>2. EntityOf(Served) \in WithObject
    BY <2>1, EffectType, Table
  <2>3. missed' \subseteq WithObject
    BY <1>12, <1>13, <2>2 DEF PostMirroredRaises
  <2>. QED
    BY <1>13, <2>1, <2>3, EffectType DEF PostMirroredRaises, MirrorTypeOK
<1>14. CASE FetchMirroredFails
  <2>1. Called /\ Head(queue) \in Writes /\ Effect(outcome'[Head(queue)] = "posted")
    BY <1>14 DEF FetchMirroredFails, FetchFails
  <2>2. EntityOf(Served) \in WithObject
    BY <2>1, EffectType, Table
  <2>3. missed' \subseteq WithObject
    BY <1>12, <1>14, <2>2 DEF FetchMirroredFails
  <2>4. shown' \in [Objects -> 0..Local] /\ offnormal' \in [Objects -> BOOLEAN]
    BY <1>14 DEF FetchMirroredFails, UpdateRaises, MirrorTypeOK
  <2>. QED
    BY <1>14, <2>1, <2>3, <2>4, EffectType DEF FetchMirroredFails, MirrorTypeOK
<1>15. CASE ServeResponse /\ UNCHANGED mirrorVars
  BY <1>15 DEF mirrorVars, MirrorTypeOK
<1>16. CASE UNCHANGED allVars
  BY <1>16 DEF allVars, mirrorVars, MirrorTypeOK
<1>. QED
  BY <1>1, <1>3, <1>4, <1>5, <1>6, <1>7, <1>8, <1>9, <1>10, <1>11, <1>13, <1>14, <1>15, <1>16
  DEF MirrorNext, HandleEvent, WriteTask

LEMMA TypeInit == MirrorInit => MirrorTypeOK
<1>. SUFFICES ASSUME MirrorInit PROVE MirrorTypeOK
  OBVIOUS
<1>1. TypeOK
  BY CountInit, CountType DEF MirrorInit
<1>2. 0 \in 0..MaxChanges /\ 0 \in 0..Local /\ 0 <= MaxEvents
  BY MirrorAssumption DEF Local
<1>3. PICK away \in SUBSET WithObject :
       /\ state = [e \in Entities |->
                     [n |-> 0, is |-> IF e \in away THEN "unavailable" ELSE "value"]]
       /\ offnormal = [o \in Objects |->
                         EntityOf(o) \in away /\ o[1] \in {"analogValue", "analogInput"}]
       /\ missed = {e \in away : ObjectType(e) \notin {"analogValue", "analogInput"}}
  BY DEF MirrorInit
<1>4. state \in [Entities -> States]
  BY <1>2, <1>3 DEF States, Kinds
<1>. QED
  BY <1>1, <1>2, <1>3, <1>4 DEF MirrorInit, MirrorTypeOK

\* Whatever the entities, the clients and Home Assistant do, the types hold.
THEOREM MirrorTypeCorrect == MirrorSpec => []MirrorTypeOK
<1>1. MirrorSpec => []TypeOK
  BY MirrorImplementsBridge, TypeCorrect, PTL
<1>. QED
  BY <1>1, TypeInit, TypeStep, PTL DEF MirrorSpec

----------------------------------------------------------------------------
(* No change of an entity is lost silently.                                 *)

\* The event of the last change of e is to come.
ToCome(e) == \E k \in 1..Len(pending) : pending[k] = [entity |-> e, to |-> state[e]]

\* Each event tells the last change of its entity, or an event behind it does.
Overtaken ==
  \A k \in 1..Len(pending) :
    \E j \in k..Len(pending) :
      pending[j] = [entity |-> pending[k].entity, to |-> state[pending[k].entity]]

\* Without a subscription there are no events.
Quiet == ws # "up" => pending = <<>>

Followed(e) == Current(e) \/ e \in missed \/ ToCome(e)

\* An event that is out of date may be applied: then its entity is not Current,
\* and it takes Overtaken to know that a later event will make it so.
LostInv == MirrorTypeOK /\ Quiet /\ Overtaken /\ NothingLostSilently

LEMMA LostIsFollowed == NothingLostSilently <=> \A e \in WithObject : Followed(e)
BY DEF NothingLostSilently, Followed, ToCome

\* A new state: its event waits, if there is a subscription, and those that
\* waited still do.
LEMMA NewStateWaits ==
  ASSUME MirrorTypeOK, Quiet, Overtaken, NEW e \in Entities, NEW is, NewState(e, is)
  PROVE  /\ Overtaken'
         /\ ws # "up" => pending' = <<>>
         /\ ws = "up" => ToCome(e)'
         /\ \A f \in Entities : f # e /\ ToCome(f) => ToCome(f)'
<1>1. /\ state' \in [Entities -> States]
      /\ \A f \in Entities : f # e => state'[f] = state[f]
      /\ IF ws = "up" THEN pending' = Append(pending, [entity |-> e, to |-> state'[e]])
                      ELSE pending' = pending
  BY NewStateType
<1>2. pending \in Seq([entity : Entities, to : States])
  BY DEF MirrorTypeOK
<1>3. CASE ws = "up"
  <2>1. [entity |-> e, to |-> state'[e]] \in [entity : Entities, to : States]
    BY <1>1
  <2>2. pending' = Append(pending, [entity |-> e, to |-> state'[e]])
    BY <1>1, <1>3
  <2>3. /\ Len(pending) \in Nat /\ Len(pending') = Len(pending) + 1
        /\ pending'[Len(pending) + 1] = [entity |-> e, to |-> state'[e]]
        /\ \A k \in 1..Len(pending) : pending'[k] = pending[k]
    BY <1>2, <2>1, <2>2, AppendFacts
  <2>4. ToCome(e)'
    BY <2>3 DEF ToCome
  <2>5. \A f \in Entities : f # e /\ ToCome(f) => ToCome(f)'
    <3>. SUFFICES ASSUME NEW f \in Entities, f # e, ToCome(f) PROVE ToCome(f)'
      OBVIOUS
    <3>1. PICK k \in 1..Len(pending) : pending[k] = [entity |-> f, to |-> state[f]]
      BY DEF ToCome
    <3>2. k \in 1..Len(pending') /\ pending'[k] = [entity |-> f, to |-> state'[f]]
      BY <1>1, <2>3, <3>1
    <3>. QED
      BY <3>2 DEF ToCome
  <2>6. Overtaken'
    <3>. SUFFICES ASSUME NEW k \in 1..Len(pending')
                  PROVE  \E j \in k..Len(pending') :
                           pending'[j] = [entity |-> pending'[k].entity,
                                          to |-> state'[pending'[k].entity]]
      BY DEF Overtaken
    <3>. DEFINE f == pending'[k].entity
    <3>1. CASE f = e
      <4>1. Len(pending) + 1 \in k..Len(pending')
        BY <2>3
      <4>. QED
        BY <2>3, <3>1, <4>1
    <3>2. CASE f # e
      <4>1. k \in 1..Len(pending) /\ pending'[k] = pending[k]
        BY <2>3, <3>2
      <4>2. pending[k] \in [entity : Entities, to : States]
        BY <1>2, <4>1, ElementFacts
      <4>3. f \in Entities /\ f = pending[k].entity
        BY <4>1, <4>2
      <4>4. PICK j \in k..Len(pending) : pending[j] = [entity |-> f, to |-> state[f]]
        BY <4>1, <4>3 DEF Overtaken
      <4>5. j \in k..Len(pending') /\ j \in 1..Len(pending)
        BY <2>3, <4>1
      <4>6. pending'[j] = [entity |-> f, to |-> state'[f]]
        BY <1>1, <2>3, <3>2, <4>3, <4>4, <4>5
      <4>. QED
        BY <4>5, <4>6
    <3>. QED
      BY <3>1, <3>2
  <2>. QED
    BY <1>3, <2>4, <2>5, <2>6
<1>4. CASE ws # "up"
  BY <1>1, <1>4 DEF Quiet, Overtaken, ToCome
<1>. QED
  BY <1>3, <1>4

\* The first event has been handled: those behind it still wait, and if it was
\* out of date, one of them is the last of its entity.
LEMMA TailWaits ==
  ASSUME MirrorTypeOK, Overtaken, Received, pending' = Tail(pending), state' = state
  PROVE  /\ Overtaken'
         /\ \A f \in Entities :
              ToCome(f) /\ Event # [entity |-> f, to |-> state[f]] => ToCome(f)'
         /\ \A f \in Entities : Event.entity = f /\ Event.to # state[f] => ToCome(f)'
<1>1. pending \in Seq([entity : Entities, to : States]) /\ pending # <<>>
  BY DEF MirrorTypeOK, Received
<1>2. /\ Len(pending) \in Nat \ {0} /\ Event = pending[1] /\ Len(pending') = Len(pending) - 1
      /\ \A k \in 1..Len(pending') : pending'[k] = pending[k + 1]
  BY <1>1, TailFacts DEF Event
<1>3. ASSUME NEW f, NEW j \in 2..Len(pending), pending[j] = [entity |-> f, to |-> state[f]]
      PROVE  j - 1 \in 1..Len(pending') /\ pending'[j - 1] = [entity |-> f, to |-> state'[f]]
  <2>1. j - 1 \in 1..Len(pending') /\ (j - 1) + 1 = j
    BY <1>2
  <2>. QED
    BY <1>2, <1>3, <2>1
<1>4. Overtaken'
  <2>. SUFFICES ASSUME NEW k \in 1..Len(pending')
                PROVE  \E j \in k..Len(pending') :
                         pending'[j] = [entity |-> pending'[k].entity,
                                        to |-> state'[pending'[k].entity]]
    BY DEF Overtaken
  <2>1. k + 1 \in 1..Len(pending) /\ pending'[k] = pending[k + 1]
    BY <1>2
  <2>2. PICK j \in (k + 1)..Len(pending) :
          pending[j] = [entity |-> pending'[k].entity, to |-> state[pending'[k].entity]]
    BY <2>1 DEF Overtaken
  <2>3. j \in 2..Len(pending) /\ j - 1 \in k..Len(pending')
    BY <1>2, <2>1
  <2>. QED
    BY <1>3, <2>2, <2>3
<1>5. ASSUME NEW f \in Entities, ToCome(f), Event # [entity |-> f, to |-> state[f]]
      PROVE  ToCome(f)'
  <2>1. PICK j \in 1..Len(pending) : pending[j] = [entity |-> f, to |-> state[f]]
    BY <1>5 DEF ToCome
  <2>2. j \in 2..Len(pending)
    BY <1>2, <1>5, <2>1
  <2>. QED
    BY <1>3, <2>1, <2>2 DEF ToCome
<1>6. ASSUME NEW f \in Entities, Event.entity = f, Event.to # state[f] PROVE ToCome(f)'
  <2>1. 1 \in 1..Len(pending)
    BY <1>2
  <2>2. PICK j \in 1..Len(pending) : pending[j] = [entity |-> f, to |-> state[f]]
    BY <1>2, <1>6, <2>1 DEF Overtaken
  <2>3. j \in 2..Len(pending)
    BY <1>2, <1>6, <2>2
  <2>. QED
    BY <1>3, <2>2, <2>3 DEF ToCome
<1>. QED
  BY <1>4, <1>5, <1>6

\* What concerns another object and another entity leaves e as it was.
LEMMA OthersCurrent ==
  ASSUME MirrorTypeOK, NEW e \in WithObject, NEW o, ObjectOf(e) # o,
         state'[e] = state[e], Current(e),
         \/ UNCHANGED <<shown, offnormal>>
         \/ \E s : UpdateObject(o, s) \/ UpdateRaises(o, s)
         \/ \E v : shown' = [shown EXCEPT ![o] = v] /\ UNCHANGED offnormal
  PROVE  Current(e)'
<1>1. ObjectOf(e) \in Objects
  BY Table
<1>2. shown'[ObjectOf(e)] = shown[ObjectOf(e)] /\ offnormal'[ObjectOf(e)] = offnormal[ObjectOf(e)]
  BY <1>1 DEF UpdateObject, UpdateRaises, MirrorTypeOK
<1>. HIDE DEF ObjectOf
<1>. QED
  BY <1>2 DEF Current

\* An update with the state of the entity brings its object up to date.
LEMMA UpdateMakesCurrent ==
  ASSUME MirrorTypeOK, NEW e \in WithObject, UpdateObject(ObjectOf(e), state'[e])
  PROVE  Current(e)'
<1>1. ObjectOf(e) \in Objects
  BY Table
<1>. DEFINE o == ObjectOf(e)
<1>2. shown \in [Objects -> 0..Local] /\ offnormal \in [Objects -> BOOLEAN]
  BY DEF MirrorTypeOK
<1>3. CASE state'[e].is = "unavailable"
  <2>1. offnormal'[o] = TRUE
    BY <1>1, <1>2, <1>3 DEF UpdateObject
  <2>. QED
    BY <1>3, <2>1 DEF Current
<1>4. CASE state'[e].is # "unavailable"
  <2>1. shown'[o] = state'[e].n /\ offnormal'[o] = FALSE
    BY <1>1, <1>2, <1>4 DEF UpdateObject
  <2>. QED
    BY <1>4, <2>1 DEF Current
<1>. QED
  BY <1>3, <1>4

LEMMA LostInit == MirrorInit => LostInv
<1>. SUFFICES ASSUME MirrorInit PROVE LostInv
  OBVIOUS
<1>1. PICK away \in SUBSET WithObject :
       /\ state = [e \in Entities |->
                     [n |-> 0, is |-> IF e \in away THEN "unavailable" ELSE "value"]]
       /\ offnormal = [o \in Objects |->
                         EntityOf(o) \in away /\ o[1] \in {"analogValue", "analogInput"}]
       /\ missed = {e \in away : ObjectType(e) \notin {"analogValue", "analogInput"}}
  BY DEF MirrorInit
<1>2. shown = [o \in Objects |-> 0] /\ pending = <<>>
  BY DEF MirrorInit
<1>3. ASSUME NEW e \in WithObject PROVE Followed(e)
  <2>1. /\ e \in Entities /\ ObjectOf(e) \in Objects /\ EntityOf(ObjectOf(e)) = e
    BY Table
  <2>2. PICK i \in Mirrored : e = EntityList[i]
    BY DEF WithObject
  <2>3. ObjectOf(e)[1] = ObjectType(e)
    <3>1. ObjectAt(i)[1] = ObjectType(EntityList[i])
      BY DEF ObjectAt
    <3>2. ObjectOf(EntityList[i]) = ObjectAt(i)
      BY ThereAndBack
    <3>. QED
      BY <2>2, <3>1, <3>2
  <2>4. shown[ObjectOf(e)] = 0
    BY <1>2, <2>1
  <2>5. CASE e \notin away
    <3>1. state[e] = [n |-> 0, is |-> "value"] /\ ~offnormal[ObjectOf(e)]
      BY <1>1, <2>1, <2>5
    <3>. QED
      BY <2>4, <3>1 DEF Current, Followed
  <2>6. CASE e \in away /\ ObjectType(e) \in {"analogValue", "analogInput"}
    <3>1. state[e] = [n |-> 0, is |-> "unavailable"] /\ offnormal[ObjectOf(e)]
      BY <1>1, <2>1, <2>3, <2>6
    <3>. QED
      BY <3>1 DEF Current, Followed
  <2>7. CASE e \in away /\ ObjectType(e) \notin {"analogValue", "analogInput"}
    BY <1>1, <2>7 DEF Followed
  <2>. QED
    BY <2>5, <2>6, <2>7
<1>4. Quiet /\ Overtaken
  BY <1>2 DEF Quiet, Overtaken
<1>. QED
  BY <1>3, <1>4, TypeInit, LostIsFollowed DEF LostInv

\* The connection is given up with what is on it: of the entities whose last
\* event is among it, all are missed.
LEMMA DropFollows ==
  ASSUME MirrorTypeOK, NEW lost, Drop(lost), state' = state, NEW e \in WithObject,
         \/ e \in missed
         \/ Current(e)'
         \/ \E k \in 1..Len(lost) : lost[k] = [entity |-> e, to |-> state[e]]
  PROVE  Followed(e)'
BY DEF Drop, Followed

\* After a new state of e, or none, that leaves its object alone or does not fit
\* it.
LEMMA ChangeFollows ==
  ASSUME LostInv, NEW e \in WithObject, ws' = ws,
         NEW is, SameState \/ NewState(e, is),
         \/ missed' = missed /\ state' = state
         \/ missed' = AfterChange(e) /\ NewState(e, is),
         \/ UNCHANGED <<shown, offnormal>>
         \/ UpdateRaises(ObjectOf(e), state'[e]) /\ state'[e].is = "unfit"
  PROVE  Quiet' /\ Overtaken' /\ \A f \in WithObject : Followed(f)'
<1>1. \A f \in WithObject : f \in Entities /\ (f # e => ObjectOf(f) # ObjectOf(e))
  BY Table
<1>2. /\ Quiet' /\ Overtaken'
      /\ \A f \in Entities : f # e => state'[f] = state[f]
      /\ \A f \in Entities : f # e /\ ToCome(f) => ToCome(f)'
      /\ \/ SameState
         \/ IF ws = "up" THEN ToCome(e)' ELSE pending' = pending
  <2>1. CASE SameState
    BY <2>1 DEF SameState, LostInv, Quiet, Overtaken, ToCome
  <2>2. CASE NewState(e, is)
    <3>1. ws # "up" => pending = <<>>
      BY DEF LostInv, Quiet
    <3>. QED
      BY <1>1, <2>2, <3>1, NewStateWaits, NewStateType DEF LostInv, Quiet
  <2>. QED
    BY <2>1, <2>2
<1>3. ASSUME NEW f \in WithObject, f # e PROVE Followed(f)'
  <2>1. Current(f) => Current(f)'
    BY <1>1, <1>2, <1>3, OthersCurrent DEF LostInv
  <2>2. f \in missed => f \in missed'
    BY <1>3 DEF AfterChange
  <2>. QED
    BY <1>1, <1>2, <1>3, <2>1, <2>2, LostIsFollowed DEF LostInv, Followed
<1>4. Followed(e)'
  <2>1. CASE missed' = AfterChange(e) /\ NewState(e, is)
    <3>1. ws # "up" => e \in missed'
      BY <2>1 DEF AfterChange
    <3>2. ws = "up" => ToCome(e)'
      BY <1>1, <2>1, NewStateWaits DEF LostInv
    <3>. QED
      BY <3>1, <3>2 DEF Followed
  <2>2. CASE missed' = missed /\ state' = state
    <3>1. CASE UpdateRaises(ObjectOf(e), state'[e]) /\ state'[e].is = "unfit"
      BY <3>1 DEF Followed, Current
    <3>2. CASE UNCHANGED <<shown, offnormal>>
      <4>1. Current(e) => Current(e)'
        BY <2>2, <3>2 DEF Current
      <4>2. ToCome(e) => ToCome(e)'
        BY <1>2, <2>2 DEF SameState, ToCome
      <4>. QED
        BY <2>2, <4>1, <4>2, LostIsFollowed DEF LostInv, Followed
    <3>. QED
      BY <3>1, <3>2
  <2>. QED
    BY <2>1, <2>2
<1>. QED
  BY <1>2, <1>3, <1>4

\* Nothing of the mirror but outOfService changes.
LEMMA SameFollows ==
  ASSUME LostInv, UNCHANGED <<state, shown, offnormal, pending, missed>>,
         ws' = ws \/ pending = <<>>
  PROVE  Quiet' /\ Overtaken' /\ \A e \in WithObject : Followed(e)'
<1>1. Quiet' /\ Overtaken'
  BY DEF LostInv, Quiet, Overtaken
<1>. QED
  BY <1>1, LostIsFollowed DEF LostInv, Followed, Current, ToCome

\* Only the first event has been handled, and only its object has changed.
LEMMA HandleFollows ==
  ASSUME LostInv, HandleEvent
  PROVE  Quiet' /\ Overtaken' /\ \A e \in WithObject : Followed(e)'
<1>1. Received /\ state' = state /\ MirrorTypeOK /\ Overtaken /\ NothingLostSilently
  BY DEF LostInv, HandleEvent, ApplyEvent, SkipEvent, EventRaises
<1>2. Event.entity \in Entities /\ Event.to \in States /\ Event = pending[1]
  BY <1>1, EventType
<1>3. Event = [entity |-> Event.entity, to |-> Event.to]
  <2>1. pending[1] \in [entity : Entities, to : States]
    BY <1>1, ElementFacts, TailFacts DEF MirrorTypeOK, Received
  <2>. QED
    BY <1>2, <2>1
<1>4. \A e \in WithObject : e \in Entities /\ ObjectOf(e) \in Objects /\ EntityOf(ObjectOf(e)) = e
  BY Table
<1>5. CASE ApplyEvent
  <2>1. /\ pending' = Tail(pending) /\ ws' = ws
        /\ UpdateObject(ObjectOf(Event.entity), Event.to)
        /\ missed' = IF Event.to = state[Event.entity] THEN missed \ {Event.entity} ELSE missed
    BY <1>5 DEF ApplyEvent
  <2>2. Event.entity \in WithObject
    BY <1>2, <1>5, Table DEF ApplyEvent, Applies
  <2>3. /\ Overtaken'
        /\ \A f \in Entities :
             ToCome(f) /\ Event # [entity |-> f, to |-> state[f]] => ToCome(f)'
        /\ \A f \in Entities : Event.entity = f /\ Event.to # state[f] => ToCome(f)'
    BY <1>1, <2>1, TailWaits
  <2>4. ASSUME NEW e \in WithObject, e # Event.entity PROVE Followed(e)'
    <3>1. ObjectOf(e) # ObjectOf(Event.entity) /\ ObjectOf(Event.entity) \in Objects
      BY <1>4, <2>2, <2>4
    <3>2. Current(e) => Current(e)'
      BY <1>1, <2>1, <3>1, OthersCurrent
    <3>3. Event # [entity |-> e, to |-> state[e]]
      BY <2>4
    <3>. QED
      BY <1>1, <1>4, <2>1, <2>3, <2>4, <3>2, <3>3, LostIsFollowed DEF Followed
  <2>5. ASSUME NEW e \in WithObject, e = Event.entity PROVE Followed(e)'
    <3>1. CASE Event.to = state[e]
      <4>1. UpdateObject(ObjectOf(e), state'[e])
        BY <1>1, <2>1, <2>5, <3>1
      <4>. QED
        BY <1>1, <4>1, UpdateMakesCurrent DEF Followed
    <3>2. CASE Event.to # state[e]
      BY <1>4, <2>3, <2>5, <3>2 DEF Followed
    <3>. QED
      BY <3>1, <3>2
  <2>6. Quiet'
    BY <1>1, <2>1 DEF Received, Quiet
  <2>. QED
    BY <2>3, <2>4, <2>5, <2>6
<1>6. CASE SkipEvent
  <2>1. /\ pending' = Tail(pending) /\ UNCHANGED <<ws, shown, offnormal>>
        /\ missed' = missed \cup {e \in WithObject : Event = [entity |-> e, to |-> state[e]]}
    BY <1>6 DEF SkipEvent
  <2>2. /\ Overtaken'
        /\ \A f \in Entities :
             ToCome(f) /\ Event # [entity |-> f, to |-> state[f]] => ToCome(f)'
    BY <1>1, <2>1, TailWaits
  <2>3. ASSUME NEW e \in WithObject PROVE Followed(e)'
    <3>1. Current(e) => Current(e)'
      BY <1>1, <2>1 DEF Current
    <3>. QED
      BY <1>1, <1>4, <2>1, <2>2, <3>1, LostIsFollowed DEF Followed
  <2>4. Quiet'
    BY <1>1, <2>1 DEF Received, Quiet
  <2>. QED
    BY <2>2, <2>3, <2>4
<1>7. CASE EventRaises
  <2>1. Drop(Tail(pending))
    BY <1>7 DEF EventRaises
  <2>2. Quiet' /\ Overtaken'
    BY <2>1 DEF Drop, Quiet, Overtaken
  <2>3. /\ Event.to.is \in {"removed", "unfit"}
        /\ UNCHANGED <<shown, offnormal>> \/ UpdateRaises(ObjectOf(Event.entity), Event.to)
    BY <1>7 DEF EventRaises
  <2>4. pending \in Seq([entity : Entities, to : States]) /\ pending # <<>>
    BY <1>1 DEF MirrorTypeOK, Received
  <2>5. ASSUME NEW e \in WithObject, ToCome(e), Event # [entity |-> e, to |-> state[e]]
        PROVE  Followed(e)'
    <3>1. PICK j \in 1..Len(pending) : pending[j] = [entity |-> e, to |-> state[e]]
      BY <2>5 DEF ToCome
    <3>2. /\ Len(Tail(pending)) = Len(pending) - 1
          /\ \A k \in 1..Len(Tail(pending)) : Tail(pending)[k] = pending[k + 1]
      BY <2>4, TailFacts
    <3>3. j # 1
      BY <1>2, <2>5, <3>1
    <3>4. j - 1 \in 1..Len(Tail(pending)) /\ (j - 1) + 1 = j
      BY <2>4, <3>1, <3>2, <3>3
    <3>5. Tail(pending)[j - 1] = [entity |-> e, to |-> state[e]]
      BY <3>1, <3>2, <3>4
    <3>. QED
      BY <1>1, <2>1, <3>4, <3>5, DropFollows
  <2>6. ASSUME NEW e \in WithObject, e = Event.entity PROVE Followed(e)'
    <3>1. CASE Event.to = state[e]
      BY <1>1, <2>3, <3>1 DEF Current, Followed
    <3>2. CASE Event.to # state[e]
      <4>1. 1 \in 1..Len(pending)
        BY <2>4
      <4>2. ToCome(e)
        BY <1>1, <1>2, <2>6, <4>1 DEF Overtaken, ToCome
      <4>. QED
        BY <2>5, <3>2, <4>2
    <3>. QED
      BY <3>1, <3>2
  <2>7. ASSUME NEW e \in WithObject, e # Event.entity PROVE Followed(e)'
    <3>1. Event # [entity |-> e, to |-> state[e]]
      BY <2>7
    <3>2. ObjectOf(e) # ObjectOf(Event.entity)
      BY <1>2, <1>4, <2>7, ObjectOfInjective
    <3>3. Current(e) => Current(e)'
      BY <1>1, <2>3, <3>2, OthersCurrent
    <3>4. Current(e) \/ e \in missed \/ ToCome(e)
      BY <1>1, LostIsFollowed DEF Followed
    <3>. QED
      BY <1>1, <2>1, <2>5, <3>1, <3>3, <3>4, DropFollows DEF Followed
  <2>. QED
    BY <2>2, <2>6, <2>7
<1>. QED
  BY <1>5, <1>6, <1>7 DEF HandleEvent

\* A client has written an object out of service: its entity is missed.
LEMMA WriteFollows ==
  ASSUME LostInv, NEW o \in Objects, WriteLocally(o)
  PROVE  Quiet' /\ Overtaken' /\ \A e \in WithObject : Followed(e)'
<1>1. /\ UNCHANGED <<state, offnormal, ws, pending>>
      /\ shown' = [shown EXCEPT ![o] = Local] /\ missed' = missed \cup {EntityOf(o)}
  BY DEF WriteLocally
<1>2. Quiet' /\ Overtaken'
  BY <1>1 DEF LostInv, Quiet, Overtaken
<1>3. ASSUME NEW e \in WithObject PROVE Followed(e)'
  <2>1. CASE ObjectOf(e) = o
    BY <1>1, <2>1, Table DEF Followed
  <2>2. CASE ObjectOf(e) # o
    <3>1. Current(e) => Current(e)'
      BY <1>1, <2>2, OthersCurrent DEF LostInv
    <3>. QED
      BY <1>1, <3>1, LostIsFollowed DEF LostInv, Followed, ToCome
  <2>. QED
    BY <2>1, <2>2
<1>. QED
  BY <1>2, <1>3

\* A write was served: its post may have led to a new state, the object shows
\* what was read back.
LEMMA ServeFollows ==
  ASSUME LostInv, ServeMirrored
  PROVE  Quiet' /\ Overtaken' /\ \A f \in WithObject : Followed(f)'
<1>1. Called /\ Head(queue) \in Writes /\ Effect(outcome'[Head(queue)] = "posted") /\ ws' = ws
  BY DEF ServeMirrored, Serve, ServeWith
<1>2. EntityOf(Served) \in WithObject /\ ObjectOf(EntityOf(Served)) = Served
  BY <1>1, EffectType, Table DEF LostInv
<1>3. PICK e \in WithObject : e = EntityOf(Served)
  BY <1>2
<1>4. /\ UpdateObject(ObjectOf(e), state'[e]) /\ missed' = missed \ {e}
      /\ SameState \/ NewState(e, "value")
  BY <1>1, <1>2, <1>3 DEF ServeMirrored, Effect
<1>5. Followed(e)'
  BY <1>4, UpdateMakesCurrent DEF LostInv, Followed
<1>6. e \in Entities
  BY Table
<1>7. /\ Quiet' /\ Overtaken'
      /\ \A f \in Entities : f # e => state'[f] = state[f]
      /\ \A f \in Entities : f # e /\ ToCome(f) => ToCome(f)'
  <2>1. CASE SameState
    BY <1>1, <2>1 DEF SameState, LostInv, Quiet, Overtaken, ToCome
  <2>2. CASE NewState(e, "value")
    BY <1>1, <1>6, <2>2, NewStateWaits, NewStateType DEF LostInv, Quiet
  <2>. QED
    BY <1>4, <2>1, <2>2
<1>8. ASSUME NEW f \in WithObject, f # e PROVE Followed(f)'
  <2>1. f \in Entities /\ ObjectOf(f) # ObjectOf(e)
    BY <1>8, Table
  <2>2. Current(f) => Current(f)'
    BY <1>4, <1>7, <1>8, <2>1, OthersCurrent DEF LostInv
  <2>. QED
    BY <1>4, <1>7, <1>8, <2>1, <2>2, LostIsFollowed DEF LostInv, Followed
<1>. QED
  BY <1>5, <1>7, <1>8

\* The task ended with the write: the object shows nothing new.
LEMMA EndFollows ==
  ASSUME LostInv, PostMirroredRaises \/ FetchMirroredFails
  PROVE  Quiet' /\ Overtaken' /\ \A f \in WithObject : Followed(f)'
<1>1. Called /\ Head(queue) \in Writes /\ Effect(outcome'[Head(queue)] = "posted") /\ ws' = ws
  BY DEF PostMirroredRaises, PostRaises, FetchMirroredFails, FetchFails
<1>2. EntityOf(Served) \in WithObject /\ ObjectOf(EntityOf(Served)) = Served
  BY <1>1, EffectType, Table DEF LostInv
<1>3. PICK e \in WithObject : e = EntityOf(Served)
  BY <1>2
<1>4. /\ SameState \/ NewState(e, "value")
      /\ missed' = IF state' = state THEN missed ELSE AfterChange(e)
  BY <1>1, <1>3 DEF PostMirroredRaises, FetchMirroredFails, Effect
<1>5. \/ UNCHANGED <<shown, offnormal>>
      \/ UpdateRaises(ObjectOf(e), state'[e]) /\ state'[e].is = "unfit"
  BY <1>2, <1>3 DEF PostMirroredRaises, FetchMirroredFails
<1>6. \/ missed' = missed /\ state' = state
      \/ missed' = AfterChange(e) /\ NewState(e, "value")
  BY <1>4 DEF SameState
<1>. QED
  BY <1>1, <1>4, <1>5, <1>6, ChangeFollows

\* A change of an entity that has no object.
LEMMA OtherChangeFollows ==
  ASSUME LostInv, NEW e \in Entities, e \notin WithObject, Change(e)
  PROVE  Quiet' /\ Overtaken' /\ \A f \in WithObject : Followed(f)'
<1>1. PICK is : NewState(e, is)
  BY DEF Change
<1>2. UNCHANGED <<shown, offnormal, ws>> /\ missed' = missed
  BY DEF Change, AfterChange, LostInv, MirrorTypeOK
<1>3. /\ Quiet' /\ Overtaken'
      /\ \A f \in Entities : f # e => state'[f] = state[f]
      /\ \A f \in Entities : f # e /\ ToCome(f) => ToCome(f)'
  BY <1>1, <1>2, NewStateWaits, NewStateType DEF LostInv, Quiet
<1>4. ASSUME NEW f \in WithObject PROVE Followed(f)'
  <2>1. f \in Entities /\ f # e
    BY Table
  <2>2. Current(f) => Current(f)'
    BY <1>2, <1>3, <2>1 DEF Current
  <2>. QED
    BY <1>2, <1>3, <2>1, <2>2, LostIsFollowed DEF LostInv, Followed
<1>. QED
  BY <1>3, <1>4

LEMMA LostStep == LostInv /\ TypeOK' /\ [MirrorNext]_allVars => LostInv'
<1>. SUFFICES ASSUME LostInv, TypeOK', [MirrorNext]_allVars PROVE LostInv'
  OBVIOUS
<1>. SUFFICES Quiet' /\ Overtaken' /\ \A e \in WithObject : Followed(e)'
  <2>1. MirrorTypeOK'
    BY TypeStep DEF LostInv
  <2>. QED
    BY <2>1 DEF LostInv, NothingLostSilently, Followed, ToCome
<1>1. ASSUME NEW e \in Entities, Change(e)
      PROVE  Quiet' /\ Overtaken' /\ \A f \in WithObject : Followed(f)'
  <2>1. CASE e \notin WithObject
    BY <1>1, <2>1, OtherChangeFollows
  <2>2. CASE e \in WithObject
    BY <1>1, <2>2, ChangeFollows DEF Change
  <2>. QED
    BY <2>1, <2>2
<1>2. CASE Subscribe
  BY <1>2, SameFollows DEF Subscribe, LostInv, Quiet
<1>3. CASE Disconnect
  <2>1. Drop(pending) /\ UNCHANGED <<state, shown, offnormal>>
    BY <1>3 DEF Disconnect
  <2>2. Quiet' /\ Overtaken'
    BY <2>1 DEF Drop, Quiet, Overtaken
  <2>3. ASSUME NEW e \in WithObject PROVE Followed(e)'
    <3>1. Current(e) => Current(e)'
      BY <2>1 DEF Current
    <3>. QED
      BY <2>1, <3>1, LostIsFollowed, DropFollows DEF LostInv, Followed, ToCome
  <2>. QED
    BY <2>2, <2>3
<1>4. CASE HandleEvent
  BY <1>4, HandleFollows
<1>5. CASE \E w \in Writes : PutInService(w) \/ Answer(w)
  BY <1>5, SameFollows DEF PutInService, Answer, mirrorVars
<1>6. ASSUME NEW o \in Objects, WriteOutOfService(o)
      PROVE  Quiet' /\ Overtaken' /\ \A f \in WithObject : Followed(f)'
  BY <1>6, SameFollows DEF WriteOutOfService
<1>7. ASSUME NEW o \in Objects, WriteLocally(o)
      PROVE  Quiet' /\ Overtaken' /\ \A f \in WithObject : Followed(f)'
  BY <1>7, WriteFollows
<1>8. CASE ServeMirrored
  BY <1>8, ServeFollows
<1>9. CASE ServeResponse /\ UNCHANGED mirrorVars
  BY <1>9, SameFollows DEF mirrorVars
<1>10. CASE PostMirroredRaises \/ FetchMirroredFails
  BY <1>10, EndFollows
<1>11. CASE UNCHANGED allVars
  BY <1>11, SameFollows DEF allVars, mirrorVars
<1>. QED
  BY <1>1, <1>2, <1>3, <1>4, <1>5, <1>6, <1>7, <1>8, <1>9, <1>10, <1>11 DEF MirrorNext, WriteTask

\* NothingLostSilently: a change of an entity is lost in the four ways that are
\* put down in missed, and in no other, for any list of entities, any number of
\* events and clients.
THEOREM NothingLostSilentlyCorrect == MirrorSpec => []NothingLostSilently
<1>1. MirrorSpec => []TypeOK
  BY MirrorImplementsBridge, TypeCorrect, PTL
<1>2. LostInv => NothingLostSilently
  BY DEF LostInv
<1>. QED
  BY <1>1, <1>2, LostInit, LostStep, PTL DEF MirrorSpec

----------------------------------------------------------------------------
(* Out of service.                                                          *)

\* One client writes at a time, so it does not put an object out of service
\* while a write to it is under way.
InService == clients = 1 => \A w \in Open : ~outOfService[Target[w]]

\* A client that opens a write or writes outOfService is the only one.
LEMMA AloneOpens ==
  ASSUME clients = 1, Cardinality(Open) < clients
  PROVE  Open = {}
<1>1. Cardinality(Open) = 0
  BY OpenFinite
<1>. QED
  BY <1>1, OpenFinite, FS_EmptySet

LEMMA InServiceStep == OneClient /\ InService /\ [MirrorNext]_allVars => InService'
<1>. SUFFICES ASSUME OneClient, InService, [MirrorNext]_allVars, clients' = 1
              PROVE  \A w \in Open' : ~outOfService'[Target[w]]
  BY DEF InService
<1>1. clients = 1
  <2>1. [Next]_vars
    BY MirrorStep
  <2>. QED
    BY <2>1 DEF Next, Handler, PutRequest, TakeAnswer, AwaitItem, DataWriteTask, Serve, ServeWith,
                ServeResponse, PostRaises, FetchFails, vars
<1>2. \A w \in Open : ~outOfService[Target[w]]
  BY <1>1 DEF InService
<1>3. ASSUME Open' \subseteq Open, outOfService' = outOfService
      PROVE  \A w \in Open' : ~outOfService'[Target[w]]
  BY <1>2, <1>3
<1>4. CASE UNCHANGED <<vars, outOfService>>
  BY <1>3, <1>4 DEF vars, Open
<1>5. ASSUME NEW w \in Writes, PutInService(w) PROVE \A v \in Open' : ~outOfService'[Target[v]]
  <2>1. Open' \subseteq {w}
    BY <1>1, <1>5, AloneOpens DEF PutInService, PutRequest, Open, OneClient, Shape
  <2>. QED
    BY <1>5, <2>1 DEF PutInService, mirrorVars
<1>6. ASSUME NEW w \in Writes, Answer(w) PROVE \A v \in Open' : ~outOfService'[Target[v]]
  <2>1. Open' \subseteq Open
    BY <1>6 DEF Answer, Handler, TakeAnswer, AwaitItem, Open, OneClient, Shape
  <2>. QED
    BY <1>3, <1>6, <2>1 DEF Answer, mirrorVars
<1>7. ASSUME NEW o \in Objects, WriteOutOfService(o)
      PROVE  \A v \in Open' : ~outOfService'[Target[v]]
  BY <1>1, <1>7, AloneOpens DEF WriteOutOfService, vars, Open
<1>8. CASE WriteTask
  <2>1. Open' \subseteq Open
    BY <1>8 DEF WriteTask, ServeMirrored, Serve, ServeWith, ServeResponse, PostMirroredRaises,
                PostRaises, FetchMirroredFails, FetchFails, Open
  <2>2. outOfService' = outOfService
    BY <1>8 DEF WriteTask, ServeMirrored, PostMirroredRaises, FetchMirroredFails, mirrorVars
  <2>. QED
    BY <1>3, <2>1, <2>2
<1>9. CASE UNCHANGED allVars
  BY <1>4, <1>9 DEF allVars, mirrorVars
<1>. QED
  BY <1>4, <1>5, <1>6, <1>7, <1>8, <1>9
  DEF MirrorNext, Change, Subscribe, Disconnect, HandleEvent, ApplyEvent, SkipEvent, EventRaises,
      WriteLocally

\* What the task serves is the write of the one open handler.
LEMMA ServedIsOpen ==
  ASSUME OneClient, clients = 1, Called, Head(queue) \in Writes
  PROVE  Head(queue) \in Open
<1>0. Serial
  BY DEF OneClient
<1>1. PICK w \in Open : TRUE
  BY <1>0 DEF Called, Serial
<1>2. queue = <<w>>
  BY <1>0, <1>1 DEF Called, Serial, Lost, Answered, Waiting
<1>. QED
  BY <1>1, <1>2, OneItem

\* A step changes the value of an object out of service in two ways only.
LEMMA HeldStep ==
  ASSUME MirrorTypeOK, OneClient, InService, [MirrorNext]_allVars,
         NEW o \in Objects, outOfService[o], shown'[o] # shown[o]
  PROVE  shown'[o] = Local \/ LateReadBack(o)
<1>1. CASE ApplyEvent
  <2>1. UpdateObject(ObjectOf(Event.entity), Event.to) /\ ~outOfService[ObjectOf(Event.entity)]
    BY <1>1 DEF ApplyEvent, Applies
  <2>. QED
    BY <2>1 DEF UpdateObject, MirrorTypeOK
<1>2. CASE SkipEvent \/ EventRaises
  BY <1>2 DEF SkipEvent, EventRaises, UpdateRaises
<1>3. ASSUME NEW p \in Objects, WriteLocally(p) PROVE shown'[o] = Local
  BY <1>3 DEF WriteLocally, MirrorTypeOK
<1>4. CASE ServeMirrored
  <2>1. Called /\ Head(queue) \in Writes
    BY <1>4 DEF ServeMirrored, Serve, ServeWith
  <2>2. UpdateObject(Served, state'[EntityOf(Served)])
    BY <1>4 DEF ServeMirrored
  <2>3. Served = o /\ shown'[o] = state'[EntityOf(o)].n
    BY <2>2 DEF UpdateObject, MirrorTypeOK
  <2>4. clients > 1
    <3>. SUFFICES ASSUME clients = 1 PROVE FALSE
      BY DEF OneClient, Shape
    <3>1. Head(queue) \in Open
      BY <2>1, ServedIsOpen
    <3>. QED
      BY <2>3, <3>1 DEF InService, Served
  <2>. QED
    BY <2>1, <2>3, <2>4 DEF LateReadBack
<1>5. CASE PostMirroredRaises \/ FetchMirroredFails
  BY <1>5 DEF PostMirroredRaises, FetchMirroredFails, UpdateRaises
<1>. QED
  BY <1>1, <1>2, <1>3, <1>4, <1>5
  DEF MirrorNext, Change, Subscribe, Disconnect, HandleEvent, PutInService, Answer,
      WriteOutOfService, WriteTask, mirrorVars, allVars

\* OutOfServiceHeld: with any number of clients no event changes the value of an
\* object out of service, and a read-back does only if there are several and it
\* belongs to a write of that object.
THEOREM OutOfServiceHeldCorrect == MirrorSpec => OutOfServiceHeld
<1>1. MirrorSpec => []OneClient
  BY MirrorImplementsBridge, OneClientCorrect, PTL
<1>2. MirrorInit => InService
  BY DEF MirrorInit, Init, Open, InService
<1>3. MirrorSpec => []InService
  BY <1>1, <1>2, InServiceStep, PTL DEF MirrorSpec
<1>4. MirrorTypeOK /\ OneClient /\ InService /\ [MirrorNext]_allVars
        => [\A o \in Objects : outOfService[o] /\ shown'[o] # shown[o] =>
              shown'[o] = Local \/ LateReadBack(o)]_allVars
  BY HeldStep
<1>. QED
  BY <1>1, <1>3, <1>4, MirrorTypeCorrect, PTL DEF MirrorSpec, OutOfServiceHeld
=============================================================================
