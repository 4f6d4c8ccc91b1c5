------------------------ MODULE HaWriteBridgeProofs ------------------------
(***************************************************************************)
(* What holds of HaWriteBridge for any number of writes: with any number   *)
(* of clients at a time the shared queue keeps count of the handlers, and  *)
(* with one client at a time every answer is honest.                       *)
(***************************************************************************)
EXTENDS HaWriteBridge, FiniteSetTheorems, TLAPS

\* The types but for the bound on the queue.
Shape ==
  /\ clients \in 1..MaxOpen
  /\ phase \in [Writes -> Phases]
  /\ event \in BOOLEAN
  /\ queue \in Seq(Writes \cup BOOLEAN)
  /\ writer \in {"running", "dead"}
  /\ outcome \in [Writes -> Outcomes]

\* The queue never holds more than one item for each open handler; a task that
\* died may have taken one with it.
NoSurplus == Len(queue) <= Cardinality(Open)

Count == Shape /\ NoSurplus /\ OneItemPerHandler

----------------------------------------------------------------------------
(* Counting open handlers.                                                  *)

\* There are finitely many open handlers.
LEMMA OpenFinite ==
  /\ IsFiniteSet(Open) /\ Cardinality(Open) \in Nat
  /\ Cardinality(Open) <= Cardinality(Writes) /\ Cardinality(Writes) \in Nat
<1>1. Open \subseteq Writes
  BY DEF Open
<1> QED BY <1>1, BridgeAssumption, FS_Subset, FS_CardinalityType

\* The count of a finite set goes up by one with a new element, down by one
\* without an old one.
LEMMA OneMore ==
  ASSUME NEW S, IsFiniteSet(S), NEW x, x \notin S
  PROVE  Cardinality(S \cup {x}) = Cardinality(S) + 1
  BY FS_AddElement
LEMMA OneLess ==
  ASSUME NEW S, IsFiniteSet(S), NEW x \in S
  PROVE  Cardinality(S \ {x}) = Cardinality(S) - 1
  BY FS_RemoveElement

\* A put of a request opens one handler.
LEMMA PutOpens ==
  ASSUME Shape, NEW w \in Writes, PutRequest(w)
  PROVE  Cardinality(Open') = Cardinality(Open) + 1
<1>1. w \notin Open /\ Open' = Open \cup {w}
  BY DEF Shape, PutRequest, Open
<1> QED BY <1>1, OpenFinite, OneMore

\* A handler that takes an answer is done.
LEMMA TakeCloses ==
  ASSUME Shape, NEW w \in Writes, TakeAnswer(w)
  PROVE  Cardinality(Open') = Cardinality(Open) - 1
<1>1. w \in Open /\ Open' = Open \ {w}
  BY DEF Shape, TakeAnswer, Open, Verdict
<1> QED BY <1>1, OpenFinite, OneLess

\* The task leaves the handlers where they are.
LEMMA TaskKeepsOpen ==
  ASSUME DataWriteTask
  PROVE  phase' = phase /\ clients' = clients /\ Cardinality(Open') = Cardinality(Open)
  BY DEF DataWriteTask, Serve, ServeWith, ServeResponse, PostRaises, FetchFails, Open

----------------------------------------------------------------------------
(* Any number of clients at a time.                                         *)

\* Replacing the first item of a sequence by one put at its end keeps its
\* length.
LEMMA Replace ==
  ASSUME NEW S, NEW q \in Seq(S), q # <<>>, NEW x \in S
  PROVE  /\ Tail(q) \o <<x>> \in Seq(S) /\ Len(Tail(q) \o <<x>>) = Len(q)
         /\ Tail(q) \in Seq(S) /\ Len(Tail(q)) = Len(q) - 1
         /\ Head(q) \in S /\ Len(q) \in Nat
  OBVIOUS

\* The task replaces a request by its response, or dies.
LEMMA TaskCounts ==
  ASSUME Shape, DataWriteTask
  PROVE  /\ queue' \in Seq(Writes \cup BOOLEAN)
         /\ writer' = "running" => Len(queue') = Len(queue) /\ writer = "running"
         /\ Len(queue') <= Len(queue)
<1>1. CASE Serve
  <2>1. PICK ok \in BOOLEAN : queue' = Tail(queue) \o <<ok>>
    BY <1>1 DEF Serve, ServeWith
  <2>2. queue # <<>> /\ writer = "running" /\ writer' = writer
    BY <1>1 DEF Serve, ServeWith, Called
  <2>3. queue \in Seq(Writes \cup BOOLEAN) /\ ok \in Writes \cup BOOLEAN
    BY DEF Shape
  <2>4. queue' \in Seq(Writes \cup BOOLEAN) /\ Len(queue') = Len(queue) /\ Len(queue) \in Nat
    BY <2>1, <2>2, <2>3, Replace
  <2> QED BY <2>2, <2>4
<1>2. CASE ServeResponse \/ PostRaises \/ FetchFails
  BY <1>2 DEF ServeResponse, PostRaises, FetchFails, Called, Shape
<1> QED BY <1>1, <1>2 DEF DataWriteTask

\* Every step keeps the types.
LEMMA ShapeStep == Shape /\ [Next]_vars => Shape'
<1> SUFFICES ASSUME Shape, [Next]_vars PROVE Shape'
  OBVIOUS
<1>1. CASE UNCHANGED vars
  BY <1>1 DEF vars, Shape
<1>2. ASSUME NEW w \in Writes, PutRequest(w) PROVE Shape'
  BY <1>2 DEF PutRequest, Shape, Phases
<1>3. ASSUME NEW w \in Writes, TakeAnswer(w) PROVE Shape'
  <2>1. queue' \in Seq(Writes \cup BOOLEAN)
    BY <1>3 DEF TakeAnswer, Shape
  <2>2. Verdict(Head(queue)) \in Phases
    BY DEF Verdict, Phases
  <2>3. phase' \in [Writes -> Phases]
    BY <1>3, <2>2 DEF TakeAnswer, Shape
  <2> QED BY <1>3, <2>1, <2>3 DEF TakeAnswer, Shape
<1>4. ASSUME NEW w \in Writes, AwaitItem(w) PROVE Shape'
  BY <1>4 DEF AwaitItem, Shape, Phases
<1>5. CASE DataWriteTask
  <2>1. queue' \in Seq(Writes \cup BOOLEAN)
    BY <1>5, TaskCounts
  <2>2. outcome' \in [Writes -> Outcomes]
    BY <1>5 DEF DataWriteTask, Serve, ServeWith, ServeResponse, PostRaises, FetchFails, Shape, Outcomes
  <2> QED BY <1>5, <2>1, <2>2
        DEF DataWriteTask, Serve, ServeWith, ServeResponse, PostRaises, FetchFails, Shape
<1> QED BY <1>1, <1>2, <1>3, <1>4, <1>5 DEF Next, Handler

\* Every step adds or takes as many items as it opens or closes handlers.
LEMMA CountStep == Count /\ [Next]_vars => Count'
<1> SUFFICES ASSUME Count, [Next]_vars PROVE NoSurplus' /\ OneItemPerHandler'
  BY ShapeStep DEF Count
<1> USE OpenFinite DEF Count, NoSurplus, OneItemPerHandler
<1>1. CASE UNCHANGED vars
  BY <1>1 DEF vars, Open
<1>2. ASSUME NEW w \in Writes, PutRequest(w) PROVE NoSurplus' /\ OneItemPerHandler'
  <2>1. Len(queue') = Len(queue) + 1 /\ Len(queue) \in Nat
    BY <1>2 DEF PutRequest, Shape
  <2>2. \A v \in Writes : phase[v] # "getting" => phase'[v] # "getting"
    BY <1>2 DEF PutRequest, Shape
  <2>3. writer' = writer
    BY <1>2 DEF PutRequest
  <2> QED BY <1>2, <2>1, <2>2, <2>3, PutOpens
<1>3. ASSUME NEW w \in Writes, TakeAnswer(w) PROVE NoSurplus' /\ OneItemPerHandler'
  <2>1. Len(queue') = Len(queue) - 1 /\ Len(queue) \in Nat
    BY <1>3 DEF TakeAnswer, Shape
  <2>2. \A v \in Writes : phase[v] # "getting" => phase'[v] # "getting"
    BY <1>3 DEF TakeAnswer, Verdict, Shape
  <2>3. writer' = writer
    BY <1>3 DEF TakeAnswer
  <2> QED BY <1>3, <2>1, <2>2, <2>3, TakeCloses
<1>4. ASSUME NEW w \in Writes, AwaitItem(w) PROVE NoSurplus' /\ OneItemPerHandler'
  <2>1. Open' = Open /\ w \in Open /\ queue' = queue /\ queue = <<>> /\ writer' = writer
    BY <1>4 DEF AwaitItem, Shape, Open
  <2>2. Cardinality(Open) # 0
    BY <2>1, FS_EmptySet
  <2>3. writer # "running"
    BY <2>1, <2>2
  <2> QED BY <2>1, <2>3
<1>5. CASE DataWriteTask
  <2>1. Len(queue) \in Nat /\ Len(queue') \in Nat
    BY <1>5, TaskCounts DEF Shape
  <2> QED BY <1>5, <2>1, TaskCounts, TaskKeepsOpen
<1> QED BY <1>1, <1>2, <1>3, <1>4, <1>5 DEF Next, Handler

\* At the start there are neither items nor handlers.
LEMMA CountInit == Init => Count
<1> SUFFICES ASSUME Init PROVE Count
  OBVIOUS
<1>1. Open = {} /\ Len(queue) = 0
  BY DEF Init, Open
<1>2. Shape
  <2>1. phase \in [Writes -> Phases]
    BY DEF Init, Phases
  <2>2. outcome \in [Writes -> Outcomes]
    BY DEF Init, Outcomes
  <2>3. queue \in Seq(Writes \cup BOOLEAN)
    BY DEF Init
  <2> QED BY <2>1, <2>2, <2>3 DEF Init, Shape
<1> QED BY <1>1, <1>2, FS_EmptySet DEF Init, Count, NoSurplus, OneItemPerHandler

\* The queue keeps count of the handlers as long as the task lives.
THEOREM CountCorrect == Spec => []Count
  BY CountInit, CountStep, PTL DEF Spec

\* The count bounds the queue.
LEMMA CountType == Count => TypeOK
  BY OpenFinite DEF Count, Shape, NoSurplus, TypeOK

\* Requests and responses share the queue, which is never longer than there
\* are writes.
THEOREM TypeCorrect == Spec => []TypeOK
  BY CountCorrect, CountType, PTL

\* No handler takes two items or is suspended in get() while the task lives,
\* with any number of clients at a time.
THEOREM OneItemPerHandlerCorrect == Spec => []OneItemPerHandler
<1>1. Count => OneItemPerHandler
  BY DEF Count
<1> QED BY CountCorrect, <1>1, PTL

----------------------------------------------------------------------------
(* One client at a time.                                                    *)

\* Where the write of the one open handler is: still to be served, lost with
\* the task, or answered with what Home Assistant did.
Waiting(w) == phase[w] = "spinning" /\ event /\ queue = <<w>>
Lost == writer = "dead" /\ queue = <<>>
Answered(w) == /\ phase[w] = "spinning" /\ ~event
               /\ \/ queue = <<TRUE>> /\ outcome[w] = "posted"
                  \/ queue = <<FALSE>> /\ outcome[w] = "refused"

Serial ==
  /\ Shape
  /\ \A v, w \in Open : v = w
  /\ Open = {} => queue = <<>>
  /\ \A w \in Open : Waiting(w) \/ Lost \/ Answered(w)
  /\ HonestAnswer

OneClient == Shape /\ (clients = 1 => Serial)

\* A sequence of one item.
LEMMA OneItem ==
  ASSUME NEW x
  PROVE  /\ <<x>> # <<>> /\ Head(<<x>>) = x /\ Tail(<<x>>) = <<>>
         /\ Append(<<>>, x) = <<x>>
         /\ \A y : Tail(<<x>>) \o <<y>> = <<y>>
  OBVIOUS

\* A put finds no other handler open, and the queue empty.
LEMMA SerialPut ==
  ASSUME clients = 1, Serial, NEW w \in Writes, PutRequest(w), Shape'
  PROVE  Serial'
<1>1. Open = {}
  <2>1. Cardinality(Open) = 0
    BY OpenFinite DEF PutRequest
  <2> QED BY <2>1, OpenFinite, FS_EmptySet
<1>2. Open' = {w}
  BY <1>1 DEF Open, PutRequest, Serial, Shape
<1>3. queue = <<>>
  BY <1>1 DEF Serial
<1>4. queue' = <<w>>
  BY <1>3, OneItem DEF PutRequest
<1>5. Waiting(w)'
  BY <1>4 DEF Waiting, PutRequest, Serial, Shape
<1>6. HonestAnswer'
  BY DEF HonestAnswer, PutRequest, Serial, Shape
<1> QED BY <1>2, <1>5, <1>6 DEF Serial

\* A handler takes an item only when it is the answer to its own write.
LEMMA SerialTake ==
  ASSUME Serial, NEW w \in Writes, TakeAnswer(w), Shape'
  PROVE  Serial'
<1>1. w \in Open /\ Open' = {}
  BY DEF Open, TakeAnswer, Verdict, Serial, Shape
<1>2. Answered(w)
  BY <1>1 DEF Serial, Waiting, Lost, Answered, TakeAnswer
<1>3. queue' = <<>>
  BY <1>2, OneItem DEF TakeAnswer, Answered
<1>4. \/ Head(queue) = TRUE /\ outcome[w] = "posted"
      \/ Head(queue) = FALSE /\ outcome[w] = "refused"
  BY <1>2, OneItem DEF Answered
<1>5. \/ Verdict(Head(queue)) = "acked" /\ outcome[w] = "posted"
      \/ Verdict(Head(queue)) = "rejected" /\ outcome[w] = "refused"
  BY <1>4 DEF Verdict
<1>6. HonestAnswer'
  BY <1>5 DEF HonestAnswer, TakeAnswer, Serial, Shape
<1> QED BY <1>1, <1>3, <1>6 DEF Serial

\* The task serves the write of the one open handler, if any.
LEMMA SerialTask ==
  ASSUME Serial, DataWriteTask, Shape'
  PROVE  Serial'
<1>1. Called
  BY DEF DataWriteTask, Serve, ServeWith, ServeResponse, PostRaises, FetchFails
<1>2. PICK w \in Open : TRUE
  BY <1>1 DEF Called, Serial
<1>3. Waiting(w)
  BY <1>1, <1>2 DEF Called, Serial, Lost, Answered, Waiting
<1>4. queue = <<w>> /\ Head(queue) = w /\ Tail(queue) = <<>> /\ phase[w] = "spinning"
  BY <1>3, OneItem DEF Waiting
<1>5. Open' = Open /\ phase' = phase
  BY TaskKeepsOpen DEF Open
<1>6. w \in Writes /\ w \notin BOOLEAN
  BY BridgeAssumption, <1>2 DEF Open
<1>7. \A v \in Writes \ {w} : outcome'[v] = outcome[v]
  BY <1>4, <1>6 DEF DataWriteTask, Serve, ServeWith, ServeResponse, PostRaises, FetchFails,
                    Serial, Shape
<1>8. HonestAnswer'
  BY <1>4, <1>5, <1>6, <1>7 DEF HonestAnswer, Serial
<1>9. Lost' \/ Answered(w)'
  <2>1. CASE Serve
    <3>1. PICK ok \in BOOLEAN :
            /\ outcome' = [outcome EXCEPT ![w] = IF ok THEN "posted" ELSE "refused"]
            /\ queue' = Tail(queue) \o <<ok>>
      BY <2>1, <1>4 DEF Serve, ServeWith
    <3>2. queue' = <<ok>>
      BY <3>1, <1>4
    <3>3. outcome'[w] = IF ok THEN "posted" ELSE "refused"
      BY <3>1, <1>6 DEF Serial, Shape
    <3>4. event' = FALSE
      BY <2>1 DEF Serve, ServeWith
    <3>5. CASE ok = TRUE
      BY <3>2, <3>3, <3>4, <3>5, <1>4, <1>5 DEF Answered
    <3>6. CASE ok = FALSE
      BY <3>2, <3>3, <3>4, <3>6, <1>4, <1>5 DEF Answered
    <3> QED BY <3>5, <3>6
  <2>2. CASE ServeResponse
    BY <2>2, <1>4, <1>6 DEF ServeResponse
  <2>3. CASE PostRaises \/ FetchFails
    BY <2>3, <1>4 DEF PostRaises, FetchFails, Lost
  <2> QED BY <2>1, <2>2, <2>3 DEF DataWriteTask
<1> QED BY <1>2, <1>5, <1>8, <1>9 DEF Serial

\* Every step keeps the queue to the one open handler.
LEMMA SerialStep ==
  ASSUME clients = 1, Serial, [Next]_vars
  PROVE  Serial'
<1>0. Shape'
  BY ShapeStep DEF Serial
<1>1. CASE UNCHANGED vars
  BY <1>0, <1>1 DEF vars, Serial, Open, Waiting, Lost, Answered, HonestAnswer
<1>2. ASSUME NEW w \in Writes, PutRequest(w) PROVE Serial'
  BY <1>0, <1>2, SerialPut
<1>3. ASSUME NEW w \in Writes, TakeAnswer(w) PROVE Serial'
  BY <1>0, <1>3, SerialTake
<1>4. ASSUME NEW w \in Writes, AwaitItem(w) PROVE Serial'
  <2>1. Open' = Open /\ w \in Open /\ queue' = queue /\ queue = <<>> /\ writer' = writer
    BY <1>4 DEF AwaitItem, Serial, Shape, Open
  <2>2. Lost
    BY <2>1, OneItem DEF Serial, Waiting, Answered
  <2>3. HonestAnswer'
    BY <1>4 DEF AwaitItem, HonestAnswer, Serial, Shape
  <2> QED BY <1>0, <2>1, <2>2, <2>3 DEF Serial, Lost
<1>5. CASE DataWriteTask
  BY <1>0, <1>5, SerialTask
<1> QED BY <1>1, <1>2, <1>3, <1>4, <1>5 DEF Next, Handler

\* At the start nobody waits and nothing is queued.
LEMMA SerialInit == Init => Serial
<1> SUFFICES ASSUME Init PROVE Serial
  OBVIOUS
<1>1. Shape
  BY CountInit DEF Count
<1>2. Open = {} /\ queue = <<>> /\ HonestAnswer
  BY DEF Init, Open, HonestAnswer
<1> QED BY <1>1, <1>2 DEF Serial

\* The number of clients is what it was at the start.
LEMMA OneClientStep == OneClient /\ [Next]_vars => OneClient'
<1> SUFFICES ASSUME OneClient, [Next]_vars PROVE OneClient'
  OBVIOUS
<1>1. clients' = clients
  BY DEF Next, Handler, PutRequest, TakeAnswer, AwaitItem, DataWriteTask, Serve, ServeWith,
         ServeResponse, PostRaises, FetchFails, vars
<1> QED BY <1>1, ShapeStep, SerialStep DEF OneClient

\* It is the inductive invariant of both theorems below.
LEMMA OneClientCorrect == Spec => []OneClient
<1>1. Init => OneClient
  BY SerialInit DEF OneClient, Serial
<1> QED BY <1>1, OneClientStep, PTL DEF Spec

\* With one client at a time every client is told what happened to its own
\* write, failures of Home Assistant and the death of the task included.
THEOREM SerialHonest == Spec => []HonestToOneClient
<1>1. OneClient => HonestToOneClient
  BY DEF OneClient, HonestToOneClient, Serial
<1> QED BY <1>1, OneClientCorrect, PTL

\* With one client at a time the task never takes its own response for a
\* request.
THEOREM SerialRequestsOnly == Spec => []RequestsOnly
<1>1. OneClient => RequestsOnly
  <2> SUFFICES ASSUME OneClient, clients = 1, Called PROVE Head(queue) \in Writes
    BY DEF RequestsOnly
  <2>0. Serial
    BY DEF OneClient
  <2>1. PICK w \in Open : TRUE
    BY <2>0 DEF Called, Serial
  <2>2. Waiting(w)
    BY <2>0, <2>1 DEF Called, Serial, Lost, Answered, Waiting
  <2> QED BY <2>1, <2>2, OneItem DEF Waiting, Open
<1> QED BY <1>1, OneClientCorrect, PTL

----------------------------------------------------------------------------
(* Any number of clients: rejections and refusals.                          *)

Places(q, x) == {i \in 1..Len(q) : q[i] = x}
Rejected == {w \in Writes : phase[w] = "rejected"}
Refused == {w \in Writes : outcome[w] = "refused"}

\* A request is in the queue once, if it has been put and not been served.
Fresh ==
  /\ \A w \in Writes : phase[w] = "new" => outcome[w] = "none" /\ Places(queue, w) = {}
  /\ \A i \in 1..Len(queue) : queue[i] \in Writes => outcome[queue[i]] = "none"
  /\ \A w \in Writes : \A i, j \in Places(queue, w) : i = j

\* Each refusal is one False in the queue, or one rejection, or lost.
Tally == Cardinality(Rejected) + Cardinality(Places(queue, FALSE)) <= Cardinality(Refused)

TallyInv == Shape /\ Fresh /\ Tally

LEMMA PlacesFinite ==
  ASSUME NEW S, NEW q \in Seq(S), NEW x
  PROVE  IsFiniteSet(Places(q, x)) /\ Cardinality(Places(q, x)) \in Nat
<1>1. IsFiniteSet(1..Len(q)) /\ Places(q, x) \subseteq 1..Len(q)
  BY FS_Interval DEF Places
<1> QED BY <1>1, FS_Subset, FS_CardinalityType

\* The first item is the only one missing in the tail.
LEMMA PlacesTail ==
  ASSUME NEW S, NEW q \in Seq(S), q # <<>>, NEW x
  PROVE  /\ \A i \in Places(Tail(q), x) : i + 1 \in Places(q, x) /\ i \in Nat \ {0}
         /\ Cardinality(Places(Tail(q), x)) <= Cardinality(Places(q, x))
         /\ Head(q) = x => Cardinality(Places(Tail(q), x)) <= Cardinality(Places(q, x)) - 1
<1> DEFINE T == Places(Tail(q), x)
           Q == Places(q, x)
           f == [i \in T |-> i + 1]
<1>1. Tail(q) \in Seq(S) /\ Len(Tail(q)) = Len(q) - 1 /\ Len(q) \in Nat \ {0}
  OBVIOUS
<1>2. \A i \in 1..Len(Tail(q)) : Tail(q)[i] = q[i + 1]
  OBVIOUS
<1>3. \A i \in T : i \in Nat \ {0} /\ i + 1 \in Q \ {1}
  BY <1>1, <1>2 DEF Places
<1>4. IsFiniteSet(T) /\ IsFiniteSet(Q) /\ Cardinality(T) \in Nat /\ Cardinality(Q) \in Nat
  BY <1>1, PlacesFinite
<1>5. Head(q) = x => 1 \in Q
  BY <1>1 DEF Places
<1> HIDE DEF T, Q
<1>6. f \in Injection(T, Q \ {1})
  BY <1>3 DEF Injection, IsInjective
<1>7. IsFiniteSet(Q \ {1}) /\ Cardinality(T) <= Cardinality(Q \ {1})
  <2>1. IsFiniteSet(Q \ {1})
    BY <1>4, FS_Subset
  <2> HIDE DEF f
  <2> QED BY <1>6, <2>1, FS_Injection
<1>8. Cardinality(Q \ {1}) = IF 1 \in Q THEN Cardinality(Q) - 1 ELSE Cardinality(Q)
  BY <1>4, FS_RemoveElement
<1> QED BY <1>3, <1>4, <1>5, <1>7, <1>8 DEF T, Q

\* An item is appended.
LEMMA PlacesAppend ==
  ASSUME NEW S, NEW q \in Seq(S), NEW y, NEW x
  PROVE  /\ y # x => Places(Append(q, y), x) = Places(q, x)
         /\ Places(Append(q, y), x) \subseteq Places(q, x) \cup {Len(q) + 1}
         /\ Cardinality(Places(Append(q, y), x)) <= Cardinality(Places(q, x)) + 1
<1> DEFINE T == Places(Append(q, y), x)
           Q == Places(q, x)
<1>1. /\ Len(q) \in Nat /\ Len(Append(q, y)) = Len(q) + 1
      /\ Append(q, y)[Len(q) + 1] = y
      /\ \A i \in 1..Len(q) : Append(q, y)[i] = q[i]
  OBVIOUS
<1>2. T \subseteq Q \cup {Len(q) + 1}
  BY <1>1 DEF Places
<1>3. y # x => T = Q
  BY <1>1 DEF Places
<1>4. IsFiniteSet(Q) /\ Cardinality(Q) \in Nat
  BY PlacesFinite
<1> HIDE DEF T, Q
<1>5. /\ IsFiniteSet(Q \cup {Len(q) + 1})
      /\ Cardinality(Q \cup {Len(q) + 1}) <= Cardinality(Q) + 1
      /\ Cardinality(Q \cup {Len(q) + 1}) \in Nat
  <2>1. PICK k : k = Len(q) + 1
    OBVIOUS
  <2>2. IsFiniteSet(Q \cup {k}) /\ Cardinality(Q \cup {k}) \in {Cardinality(Q), Cardinality(Q) + 1}
    BY <1>4, FS_AddElement
  <2> QED BY <1>4, <2>1, <2>2
<1>6. Cardinality(T) <= Cardinality(Q \cup {Len(q) + 1}) /\ Cardinality(T) \in Nat
  BY <1>2, <1>5, FS_Subset, FS_CardinalityType
<1> QED BY <1>2, <1>3, <1>4, <1>5, <1>6 DEF T, Q

LEMMA Finite ==
  /\ IsFiniteSet(Rejected) /\ Cardinality(Rejected) \in Nat
  /\ IsFiniteSet(Refused) /\ Cardinality(Refused) \in Nat
  /\ \A w \in Writes : w \notin BOOLEAN
<1>1. Rejected \subseteq Writes /\ Refused \subseteq Writes
  BY DEF Rejected, Refused
<1> QED BY <1>1, BridgeAssumption, FS_Subset, FS_CardinalityType

\* The first item leaves, nothing is served.
LEMMA TailFresh ==
  ASSUME Shape, Fresh, queue # <<>>, queue' = Tail(queue), outcome' = outcome,
         \A w \in Writes : phase'[w] = "new" => phase[w] = "new"
  PROVE  Fresh'
<1>1. /\ queue \in Seq(Writes \cup BOOLEAN)
      /\ \A i \in 1..Len(queue') : i + 1 \in 1..Len(queue) /\ queue'[i] = queue[i + 1]
  BY DEF Shape
<1>2. \A w \in Writes : \A i \in Places(queue', w) : i + 1 \in Places(queue, w) /\ i \in Nat
  BY <1>1, PlacesTail
<1>3. \A w \in Writes : phase'[w] = "new" => outcome'[w] = "none" /\ Places(queue', w) = {}
  BY <1>2 DEF Fresh
<1>4. \A i \in 1..Len(queue') : queue'[i] \in Writes => outcome'[queue'[i]] = "none"
  BY <1>1 DEF Fresh
<1>5. \A w \in Writes : \A i, j \in Places(queue', w) : i = j
  <2> SUFFICES ASSUME NEW w \in Writes, NEW i \in Places(queue', w), NEW j \in Places(queue', w)
               PROVE  i = j
    OBVIOUS
  <2>1. i + 1 = j + 1 /\ i \in Nat /\ j \in Nat
    BY <1>2 DEF Fresh
  <2> QED BY <2>1
<1> QED BY <1>3, <1>4, <1>5 DEF Fresh

\* The request at the head is served; what stays is none like it.
LEMMA ServedFresh ==
  ASSUME Shape, Fresh, Called, Head(queue) \in Writes, UNCHANGED phase,
         NEW end, outcome' = [outcome EXCEPT ![Head(queue)] = end],
         NEW ok \in BOOLEAN, queue' = Tail(queue) \/ queue' = Append(Tail(queue), ok)
  PROVE  Fresh'
<1> DEFINE h == Head(queue)
<1>1. /\ queue \in Seq(Writes \cup BOOLEAN) /\ queue # <<>>
      /\ h = queue[1] /\ 1 \in 1..Len(queue) /\ h \in Writes
      /\ Tail(queue) \in Seq(Writes \cup BOOLEAN)
      /\ \A i \in 1..Len(Tail(queue)) : i + 1 \in 1..Len(queue) /\ Tail(queue)[i] = queue[i + 1]
  BY DEF Shape, Called
<1>2. 1 \in Places(queue, h)
  BY <1>1 DEF Places
<1>3. \A w \in Writes : \A i \in Places(Tail(queue), w) :
        i + 1 \in Places(queue, w) /\ i \in Nat \ {0}
  BY <1>1, PlacesTail
<1>4. \A w \in Writes : Places(queue', w) = Places(Tail(queue), w)
  <2>1. CASE queue' = Tail(queue)
    BY <2>1
  <2>2. ASSUME queue' = Append(Tail(queue), ok), NEW w \in Writes
        PROVE  Places(queue', w) = Places(Tail(queue), w)
    <3>1. ok # w
      BY Finite
    <3>2. Places(Append(Tail(queue), ok), w) = Places(Tail(queue), w)
      BY <1>1, <3>1, PlacesAppend
    <3> QED BY <2>2, <3>2
  <2> QED BY <2>1, <2>2
<1>5. Places(Tail(queue), h) = {}
  <2> SUFFICES ASSUME NEW i \in Places(Tail(queue), h) PROVE FALSE
    OBVIOUS
  <2>1. i + 1 = 1 /\ i \in Nat \ {0}
    BY <1>1, <1>2, <1>3 DEF Fresh
  <2> QED BY <2>1
<1>6. phase[h] # "new"
  BY <1>1, <1>2 DEF Fresh
<1>7. \A w \in Writes : w # h => outcome'[w] = outcome[w]
  BY DEF Shape
<1>8. \A w \in Writes : phase'[w] = "new" => outcome'[w] = "none" /\ Places(queue', w) = {}
  BY <1>3, <1>4, <1>6, <1>7 DEF Fresh
<1>9. \A i \in 1..Len(queue') : queue'[i] \in Writes => outcome'[queue'[i]] = "none"
  <2> SUFFICES ASSUME NEW i \in 1..Len(queue'), queue'[i] \in Writes
               PROVE  outcome'[queue'[i]] = "none"
    OBVIOUS
  <2>1. PICK w \in Writes : w = queue'[i]
    OBVIOUS
  <2>2. i \in Places(queue', w)
    BY <2>1 DEF Places
  <2>3. i \in Places(Tail(queue), w)
    BY <1>4, <2>2
  <2>4. w # h /\ i + 1 \in Places(queue, w)
    BY <1>3, <1>5, <2>3
  <2>5. outcome[w] = "none"
    BY <2>4 DEF Fresh, Places
  <2> QED BY <1>7, <2>1, <2>4, <2>5
<1>10. \A w \in Writes : \A i, j \in Places(queue', w) : i = j
  <2> SUFFICES ASSUME NEW w \in Writes, NEW i \in Places(queue', w), NEW j \in Places(queue', w)
               PROVE  i = j
    OBVIOUS
  <2>1. i + 1 = j + 1 /\ i \in Nat /\ j \in Nat
    BY <1>3, <1>4 DEF Fresh
  <2> QED BY <2>1
<1> QED BY <1>8, <1>9, <1>10 DEF Fresh

LEMMA PutTally ==
  ASSUME TallyInv, NEW w \in Writes, PutRequest(w)
  PROVE  Fresh' /\ Tally'
<1>1. /\ queue \in Seq(Writes \cup BOOLEAN) /\ queue' = Append(queue, w)
      /\ phase[w] = "new" /\ phase' = [phase EXCEPT ![w] = "spinning"]
      /\ outcome' = outcome /\ phase \in [Writes -> Phases]
  BY DEF TallyInv, Shape, PutRequest
<1>2. /\ Len(queue) \in Nat /\ Len(queue') = Len(queue) + 1 /\ queue'[Len(queue) + 1] = w
      /\ \A i \in 1..Len(queue) : queue'[i] = queue[i]
  BY <1>1
<1>3. \A v \in Writes : v # w => Places(queue', v) = Places(queue, v)
  <2> SUFFICES ASSUME NEW v \in Writes, v # w PROVE Places(queue', v) = Places(queue, v)
    OBVIOUS
  <2>1. Places(Append(queue, w), v) = Places(queue, v)
    BY <1>1, PlacesAppend
  <2> QED BY <1>1, <2>1
<1>4. Places(queue', w) \subseteq {Len(queue) + 1}
  <2>1. Places(queue, w) = {}
    BY <1>1 DEF TallyInv, Fresh
  <2>2. Places(Append(queue, w), w) \subseteq Places(queue, w) \cup {Len(queue) + 1}
    BY <1>1, PlacesAppend
  <2> QED BY <1>1, <2>1, <2>2
<1>5. \A v \in Writes : phase'[v] = "new" => v # w /\ phase[v] = "new"
  BY <1>1
<1>6. Fresh'
  <2>1. \A v \in Writes : phase'[v] = "new" => outcome'[v] = "none" /\ Places(queue', v) = {}
    BY <1>1, <1>3, <1>5 DEF TallyInv, Fresh
  <2>2. \A i \in 1..Len(queue') : queue'[i] \in Writes => outcome'[queue'[i]] = "none"
    BY <1>1, <1>2 DEF TallyInv, Fresh
  <2>3. \A v \in Writes : \A i, j \in Places(queue', v) : i = j
    BY <1>3, <1>4 DEF TallyInv, Fresh
  <2> QED BY <2>1, <2>2, <2>3 DEF Fresh
<1>7. Places(queue', FALSE) = Places(queue, FALSE)
  <2>1. PICK x : x = FALSE
    OBVIOUS
  <2>2. w # x
    BY <2>1, Finite
  <2>3. Places(Append(queue, w), x) = Places(queue, x)
    BY <1>1, <2>2, PlacesAppend
  <2> QED BY <1>1, <2>1, <2>3
<1>8. Rejected' = Rejected /\ Refused' = Refused
  BY <1>1 DEF Rejected, Refused
<1> QED BY <1>6, <1>7, <1>8 DEF TallyInv, Tally

LEMMA TakeTally ==
  ASSUME TallyInv, NEW w \in Writes, TakeAnswer(w)
  PROVE  Fresh' /\ Tally'
<1>1. /\ queue \in Seq(Writes \cup BOOLEAN) /\ queue # <<>> /\ queue' = Tail(queue)
      /\ phase[w] \in {"spinning", "getting"} /\ phase \in [Writes -> Phases]
      /\ phase' = [phase EXCEPT ![w] = Verdict(Head(queue))]
      /\ outcome' = outcome
  BY DEF TallyInv, Shape, TakeAnswer
<1>2. Fresh'
  <2>1. \A v \in Writes : phase'[v] = "new" => phase[v] = "new"
    BY <1>1 DEF Verdict
  <2> QED BY <1>1, <2>1, TailFresh DEF TallyInv
<1>3. Refused' = Refused
  BY <1>1 DEF Refused
<1>4. PICK no : no = FALSE
  OBVIOUS
<1>5. /\ Cardinality(Places(Tail(queue), no)) <= Cardinality(Places(queue, no))
      /\ Head(queue) = no =>
           Cardinality(Places(Tail(queue), no)) <= Cardinality(Places(queue, no)) - 1
      /\ Cardinality(Places(Tail(queue), no)) \in Nat
      /\ Cardinality(Places(queue, no)) \in Nat
  <2>1. Tail(queue) \in Seq(Writes \cup BOOLEAN)
    BY <1>1
  <2> QED BY <1>1, <2>1, PlacesTail, PlacesFinite
<1>6. CASE Head(queue) = no
  <2>1. w \notin Rejected /\ Rejected' = Rejected \cup {w}
    BY <1>1, <1>4, <1>6 DEF Rejected, Verdict
  <2>2. Cardinality(Rejected') = Cardinality(Rejected) + 1
    BY <2>1, Finite, OneMore
  <2>3. Cardinality(Rejected) + Cardinality(Places(queue, no)) <= Cardinality(Refused)
    BY <1>4 DEF TallyInv, Tally
  <2>4. Cardinality(Rejected') + Cardinality(Places(queue', no)) <= Cardinality(Refused')
    BY <1>1, <1>3, <1>5, <1>6, <2>2, <2>3, Finite
  <2> QED BY <1>2, <1>4, <2>4 DEF Tally
<1>7. CASE Head(queue) # no
  <2>1. Rejected' = Rejected
    BY <1>1, <1>4, <1>7 DEF Rejected, Verdict
  <2>2. Cardinality(Rejected) + Cardinality(Places(queue, no)) <= Cardinality(Refused)
    BY <1>4 DEF TallyInv, Tally
  <2>3. Cardinality(Rejected') + Cardinality(Places(queue', no)) <= Cardinality(Refused')
    BY <1>1, <1>3, <1>5, <2>1, <2>2, Finite
  <2> QED BY <1>2, <1>4, <2>3 DEF Tally
<1> QED BY <1>6, <1>7

\* A request that is served makes one refusal for the False it leaves.
LEMMA ServeTally ==
  ASSUME TallyInv, Called, Head(queue) \in Writes, UNCHANGED phase,
         NEW end \in Outcomes, outcome' = [outcome EXCEPT ![Head(queue)] = end],
         NEW ok \in BOOLEAN, queue' = Tail(queue) \/ queue' = Append(Tail(queue), ok),
         ok = FALSE => end = "refused"
  PROVE  Fresh' /\ Tally'
<1>1. Fresh'
  BY ServedFresh DEF TallyInv
<1>2. /\ queue \in Seq(Writes \cup BOOLEAN) /\ queue # <<>>
      /\ Tail(queue) \in Seq(Writes \cup BOOLEAN)
      /\ outcome \in [Writes -> Outcomes]
  BY DEF TallyInv, Shape, Called
<1>3. outcome[Head(queue)] = "none"
  BY <1>2 DEF TallyInv, Fresh
<1>4. PICK no : no = FALSE
  OBVIOUS
<1>5. Cardinality(Rejected) + Cardinality(Places(queue, no)) <= Cardinality(Refused)
  BY <1>4 DEF TallyInv, Tally
<1>6. Rejected' = Rejected
  BY DEF Rejected
<1>7. /\ Cardinality(Places(Tail(queue), no)) <= Cardinality(Places(queue, no))
      /\ Cardinality(Places(Tail(queue), no)) \in Nat
      /\ Cardinality(Places(queue, no)) \in Nat
  BY <1>2, PlacesTail, PlacesFinite
<1>8. Cardinality(Refused') = IF end = "refused" THEN Cardinality(Refused) + 1
                              ELSE Cardinality(Refused)
  <2>1. CASE end = "refused"
    <3>1. Head(queue) \notin Refused /\ Refused' = Refused \cup {Head(queue)}
      BY <1>2, <1>3, <2>1 DEF Refused
    <3> QED BY <2>1, <3>1, Finite, OneMore
  <2>2. CASE end # "refused"
    <3>1. Refused' = Refused
      BY <1>2, <1>3, <2>2 DEF Refused
    <3> QED BY <2>2, <3>1
  <2> QED BY <2>1, <2>2
<1>9. Cardinality(Places(queue', no))
        <= Cardinality(Places(queue, no)) + IF end = "refused" THEN 1 ELSE 0
  <2>1. CASE queue' = Tail(queue)
    BY <1>7, <2>1
  <2>2. CASE queue' = Append(Tail(queue), ok)
    <3>1. /\ ok # no => Places(Append(Tail(queue), ok), no) = Places(Tail(queue), no)
          /\ Cardinality(Places(Append(Tail(queue), ok), no))
               <= Cardinality(Places(Tail(queue), no)) + 1
          /\ Cardinality(Places(Append(Tail(queue), ok), no)) \in Nat
      <4>1. Append(Tail(queue), ok) \in Seq(Writes \cup BOOLEAN)
        BY <1>2
      <4> QED BY <1>2, <4>1, PlacesAppend, PlacesFinite
    <3>2. ok = no => end = "refused"
      BY <1>4
    <3> QED BY <1>7, <2>2, <3>1, <3>2
  <2> QED BY <2>1, <2>2
<1>10. Cardinality(Places(queue', no)) \in Nat
  <2>1. queue' \in Seq(Writes \cup BOOLEAN)
    <3>1. PICK x \in Writes \cup BOOLEAN : x = ok
      OBVIOUS
    <3>2. Append(Tail(queue), x) \in Seq(Writes \cup BOOLEAN)
      BY <1>2
    <3> QED BY <1>2, <3>1, <3>2
  <2>2. PICK q \in Seq(Writes \cup BOOLEAN) : q = queue'
    BY <2>1
  <2>3. Cardinality(Places(q, no)) \in Nat
    BY PlacesFinite
  <2> QED BY <2>2, <2>3
<1>11. Cardinality(Rejected') + Cardinality(Places(queue', no)) <= Cardinality(Refused')
  BY <1>5, <1>6, <1>7, <1>8, <1>9, <1>10, Finite
<1> QED BY <1>1, <1>4, <1>11 DEF Tally

\* The task takes a response of its own and dies.
LEMMA ResponseTally ==
  ASSUME TallyInv, ServeResponse
  PROVE  Fresh' /\ Tally'
<1>1. /\ queue \in Seq(Writes \cup BOOLEAN) /\ queue # <<>> /\ queue' = Tail(queue)
      /\ Tail(queue) \in Seq(Writes \cup BOOLEAN)
      /\ phase' = phase /\ outcome' = outcome
  BY DEF TallyInv, Shape, ServeResponse, Called
<1>2. Fresh'
  BY <1>1, TailFresh DEF TallyInv
<1>3. PICK no : no = FALSE
  OBVIOUS
<1>4. Cardinality(Rejected) + Cardinality(Places(queue, no)) <= Cardinality(Refused)
  BY <1>3 DEF TallyInv, Tally
<1>5. Rejected' = Rejected /\ Refused' = Refused
  BY <1>1 DEF Rejected, Refused
<1>6. /\ Cardinality(Places(Tail(queue), no)) <= Cardinality(Places(queue, no))
      /\ Cardinality(Places(Tail(queue), no)) \in Nat
      /\ Cardinality(Places(queue, no)) \in Nat
  BY <1>1, PlacesTail, PlacesFinite
<1>7. Cardinality(Rejected') + Cardinality(Places(queue', no)) <= Cardinality(Refused')
  BY <1>1, <1>4, <1>5, <1>6, Finite
<1> QED BY <1>2, <1>3, <1>7 DEF Tally

LEMMA TallyStep == TallyInv /\ [Next]_vars => TallyInv'
<1> SUFFICES ASSUME TallyInv, [Next]_vars PROVE Fresh' /\ Tally'
  BY ShapeStep DEF TallyInv
<1>1. CASE UNCHANGED vars
  BY <1>1 DEF vars, TallyInv, Fresh, Tally, Places, Rejected, Refused
<1>2. ASSUME NEW w \in Writes, PutRequest(w) PROVE Fresh' /\ Tally'
  BY <1>2, PutTally
<1>3. ASSUME NEW w \in Writes, TakeAnswer(w) PROVE Fresh' /\ Tally'
  BY <1>3, TakeTally
<1>4. ASSUME NEW w \in Writes, AwaitItem(w) PROVE Fresh' /\ Tally'
  <2>1. /\ \A v \in Writes : /\ phase'[v] = "new" => phase[v] = "new"
                             /\ phase'[v] = "rejected" <=> phase[v] = "rejected"
        /\ queue' = queue /\ outcome' = outcome
    BY <1>4 DEF AwaitItem, TallyInv, Shape
  <2>2. Rejected' = Rejected /\ Refused' = Refused
    BY <2>1 DEF Rejected, Refused
  <2> QED BY <2>1, <2>2 DEF TallyInv, Fresh, Tally, Places
<1>5. CASE Serve
  <2>1. PICK ok \in BOOLEAN :
          /\ outcome' = [outcome EXCEPT ![Head(queue)] = IF ok THEN "posted" ELSE "refused"]
          /\ queue' = Tail(queue) \o <<ok>>
    BY <1>5 DEF Serve, ServeWith
  <2>2. Called /\ Head(queue) \in Writes /\ phase' = phase
    BY <1>5 DEF Serve, ServeWith
  <2>3. queue' = Append(Tail(queue), ok)
    <3>1. Tail(queue) \in Seq(Writes \cup BOOLEAN)
      BY <2>2 DEF TallyInv, Shape, Called
    <3> QED BY <2>1, <3>1
  <2>4. PICK end \in Outcomes : end = (IF ok THEN "posted" ELSE "refused")
    BY DEF Outcomes
  <2>5. ok = FALSE => end = "refused"
    BY <2>4
  <2> QED BY <2>1, <2>2, <2>3, <2>4, <2>5, ServeTally
<1>6. CASE ServeResponse
  BY <1>6, ResponseTally
<1>7. CASE PostRaises \/ FetchFails
  <2>1. Called /\ Head(queue) \in Writes /\ phase' = phase /\ queue' = Tail(queue)
    BY <1>7 DEF PostRaises, FetchFails
  <2>2. PICK end \in Outcomes : outcome' = [outcome EXCEPT ![Head(queue)] = end]
    BY <1>7 DEF PostRaises, FetchFails, Outcomes
  <2>3. PICK ok \in BOOLEAN : ok # FALSE
    OBVIOUS
  <2> QED BY <2>1, <2>2, <2>3, ServeTally
<1> QED BY <1>1, <1>2, <1>3, <1>4, <1>5, <1>6, <1>7 DEF Next, Handler, DataWriteTask

LEMMA TallyInit == Init => TallyInv
<1> SUFFICES ASSUME Init PROVE TallyInv
  OBVIOUS
<1>1. Shape
  BY CountInit DEF Count
<1>2. queue = <<>> /\ Rejected = {} /\ Refused = {} /\ \A w \in Writes : outcome[w] = "none"
  BY DEF Init, Rejected, Refused
<1>3. \A x : Places(queue, x) = {}
  BY <1>2 DEF Places
<1>4. Fresh
  BY <1>2, <1>3 DEF Fresh
<1>5. Cardinality(Rejected) = 0 /\ Cardinality(Refused) = 0
  BY <1>2, FS_EmptySet
<1>6. PICK no : no = FALSE
  OBVIOUS
<1>7. Cardinality(Rejected) + Cardinality(Places(queue, no)) <= Cardinality(Refused)
  <2>1. Cardinality(Places(queue, no)) = 0
    BY <1>3, FS_EmptySet
  <2> QED BY <1>5, <2>1
<1>8. Tally
  BY <1>6, <1>7 DEF Tally
<1> QED BY <1>1, <1>4, <1>8 DEF TallyInv

\* There are never more rejections than refusals, whoever gets them, however
\* many clients write at a time.
THEOREM RejectionsAreRefusalsCorrect == Spec => []RejectionsAreRefusals
<1>1. TallyInv => RejectionsAreRefusals
  <2> SUFFICES ASSUME TallyInv PROVE Cardinality(Rejected) <= Cardinality(Refused)
    BY DEF RejectionsAreRefusals, Rejected, Refused
  <2>1. PICK no : no = FALSE
    OBVIOUS
  <2>2. Cardinality(Places(queue, no)) \in Nat
    BY PlacesFinite DEF TallyInv, Shape
  <2>3. Cardinality(Rejected) + Cardinality(Places(queue, no)) <= Cardinality(Refused)
    BY <2>1 DEF TallyInv, Tally
  <2> QED BY <2>2, <2>3, Finite
<1> QED BY <1>1, TallyInit, TallyStep, PTL DEF Spec
=============================================================================
