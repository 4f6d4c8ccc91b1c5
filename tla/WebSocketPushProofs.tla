------------------------ MODULE WebSocketPushProofs ------------------------
(***************************************************************************)
(* Proofs about WebSocketPush, for any number of connections and updates.  *)
(***************************************************************************)
EXTENDS WebSocketPush, FiniteSetTheorems, TLAPS

\* The types, without bounds, that the proof needs.
PushTypes ==
  /\ shown \in Nat
  /\ activeSockets \in Seq(Sockets)
  /\ endpoint \in [Sockets -> {"none", "open", "deaf", "closed"}]
  /\ writer \in [Sockets -> {"none", "first", "asleep", "sending", "ended"}]
  /\ data \in [Sockets -> Nat]
  /\ next \in [Sockets -> Nat \ {0}]
  /\ received \in [Sockets -> Nat]

\* Nobody has, or is being sent, what has not been shown yet.
NothingFromTheFuture == \A s \in Sockets : received[s] <= shown /\ data[s] <= shown

\* Before a connection there is no writer of it.
WriterNeedsEndpoint == \A s \in Sockets : endpoint[s] = "none" => writer[s] = "none"

\* A writer that sends what is no longer shown has been overtaken by an update.
LateIsOvertaken == \A w \in Sockets : writer[w] = "sending" /\ data[w] < shown => "overtaken" \in excuse

\* As long as no other writer has sent anything, nobody has more than the one that
\* sends; once two do, one of them may await a slow client while the other sends a
\* newer view.
Alone(w) == \A t \in Sockets \ {w} : writer[t] \in {"none", "first"}
AloneIsFresh ==
  \A w \in Sockets : writer[w] = "sending" /\ Alone(w) => \A s \in Sockets : received[s] <= data[w]

PushInv ==
  /\ PushTypes /\ NothingFromTheFuture /\ WriterNeedsEndpoint
  /\ LateIsOvertaken /\ AloneIsFresh

----------------------------------------------------------------------------
\* A socket taken off the list leaves a list of sockets.
LEMMA RemoveType ==
  ASSUME NEW S, NEW q \in Seq(S), NEW i \in 1..Len(q)
  PROVE  RemoveAt(q, i) \in Seq(S)
<1>1. SubSeq(q, 1, i - 1) \in Seq(S)
  OBVIOUS
<1>2. SubSeq(q, i + 1, Len(q)) \in Seq(S)
  OBVIOUS
<1>. QED
  BY <1>1, <1>2 DEF RemoveAt

\* A send of d by w: the clients have what they had, or d, and w goes on or ends.
SendStep(w, d) ==
  /\ received' \in [Sockets -> Nat]
  /\ \A s \in Sockets : received'[s] = received[s] \/ received'[s] = d
  /\ \E how \in {"sending", "asleep", "ended"} :
       /\ writer' = [writer EXCEPT ![w] = how]
       /\ data' = [data EXCEPT ![w] = IF how = "sending" THEN d ELSE 0]
  /\ next' \in [Sockets -> Nat \ {0}]
  /\ UNCHANGED <<shown, activeSockets, endpoint, excuse>>

\* What a writer does to the clients and to itself, when it sends d to x.
LEMMA SendSends ==
  ASSUME PushTypes, NEW w \in Sockets, NEW x, NEW d \in Nat,
         UNCHANGED <<shown, activeSockets, endpoint, excuse>>,
         \/ Raised(w, x)
         \/ /\ Delivered(x, d) \/ received' = received
            /\ \/ Rest(w, "asleep")
               \/ /\ writer' = [writer EXCEPT ![w] = "sending"]
                  /\ data' = [data EXCEPT ![w] = d]
                  /\ \E n \in Nat \ {0} : next' = [next EXCEPT ![w] = n]
  PROVE  SendStep(w, d)
<1>1. received' = received \/ received' = [received EXCEPT ![x] = d]
  BY DEF Raised, Delivered
<1>2. received' \in [Sockets -> Nat]
  BY <1>1 DEF PushTypes
<1>3. \A s \in Sockets : received'[s] = received[s] \/ received'[s] = d
  BY <1>1 DEF PushTypes
<1>4. next' \in [Sockets -> Nat \ {0}]
  BY DEF PushTypes, Raised, Rest
<1>5. \E how \in {"sending", "asleep", "ended"} :
        /\ writer' = [writer EXCEPT ![w] = how]
        /\ data' = [data EXCEPT ![w] = IF how = "sending" THEN d ELSE 0]
  BY DEF Raised, Rest
<1>. QED
  BY <1>2, <1>3, <1>4, <1>5 DEF SendStep

\* Everything a writer does is such a send, of the view or of what it has begun
\* to send.
LEMMA WriteSends ==
  ASSUME PushTypes, NEW w \in Sockets, Write(w)
  PROVE  /\ writer[w] # "none"
         /\ SendStep(w, shown) \/ (writer[w] = "sending" /\ SendStep(w, data[w]))
<1>0. shown \in Nat /\ data[w] \in Nat /\ next[w] \in Nat \ {0}
  BY DEF PushTypes
<1>1. CASE First(w)
  BY <1>0, <1>1, SendSends DEF First, socketVars
<1>2. CASE Wake(w)
  <2>1. /\ writer[w] = "asleep" /\ UNCHANGED <<shown, activeSockets, endpoint, excuse>>
        /\ \/ Raised(w, activeSockets[1])
           \/ /\ Delivered(activeSockets[1], shown)
              /\ writer' = [writer EXCEPT ![w] = "sending"]
              /\ data' = [data EXCEPT ![w] = shown]
              /\ next' = [next EXCEPT ![w] = 1 + 1]
    BY <1>2 DEF Wake, Send, socketVars
  <2>2. 1 + 1 \in Nat \ {0}
    OBVIOUS
  <2>3. SendStep(w, shown)
    BY <1>0, <2>1, <2>2, SendSends
  <2>. QED
    BY <2>1, <2>3
<1>3. CASE SendNext(w)
  <2>1. /\ writer[w] = "sending" /\ UNCHANGED <<shown, activeSockets, endpoint, excuse>>
        /\ \/ Raised(w, activeSockets[next[w]])
           \/ /\ Delivered(activeSockets[next[w]], data[w])
              /\ writer' = [writer EXCEPT ![w] = "sending"]
              /\ data' = [data EXCEPT ![w] = data[w]]
              /\ next' = [next EXCEPT ![w] = next[w] + 1]
    BY <1>3 DEF SendNext, Send, socketVars
  <2>2. next[w] + 1 \in Nat \ {0}
    BY <1>0
  <2>3. SendStep(w, data[w])
    BY <1>0, <2>1, <2>2, SendSends
  <2>. QED
    BY <2>1, <2>3
<1>4. CASE Clear(w)
  BY <1>0, <1>4, SendSends DEF Clear, socketVars
<1>. QED
  BY <1>1, <1>2, <1>3, <1>4 DEF Write

\* Such a send keeps the invariant.
LEMMA SendKeeps ==
  ASSUME PushInv, NEW w \in Sockets, writer[w] # "none", NEW d \in Nat, SendStep(w, d),
         d = shown \/ (writer[w] = "sending" /\ d = data[w])
  PROVE  PushInv'
<1>. PICK how \in {"sending", "asleep", "ended"} :
       /\ writer' = [writer EXCEPT ![w] = how]
       /\ data' = [data EXCEPT ![w] = IF how = "sending" THEN d ELSE 0]
  BY DEF SendStep
<1>1. PushTypes'
  <2>1. writer' \in [Sockets -> {"none", "first", "asleep", "sending", "ended"}]
    BY DEF PushInv, PushTypes
  <2>2. data' \in [Sockets -> Nat]
    BY DEF PushInv, PushTypes
  <2>. QED
    BY <2>1, <2>2 DEF PushInv, PushTypes, SendStep
<1>2. d <= shown
  BY DEF PushInv, PushTypes, NothingFromTheFuture
<1>3. NothingFromTheFuture'
  <2>1. \A s \in Sockets : data'[s] <= shown
    BY <1>2 DEF PushInv, PushTypes, NothingFromTheFuture
  <2>. QED
    BY <1>2, <2>1 DEF PushInv, PushTypes, NothingFromTheFuture, SendStep
<1>4. WriterNeedsEndpoint'
  BY DEF PushInv, PushTypes, WriterNeedsEndpoint, SendStep
<1>5. LateIsOvertaken'
  BY DEF PushInv, PushTypes, LateIsOvertaken, SendStep
<1>6. AloneIsFresh'
  <2>. SUFFICES ASSUME NEW v \in Sockets, writer'[v] = "sending", Alone(v)', NEW s \in Sockets
                PROVE  received'[s] <= data'[v]
    BY DEF AloneIsFresh
  <2>1. v = w
    BY DEF Alone, PushInv, PushTypes
  <2>2. how = "sending" /\ data'[v] = d /\ Alone(w)
    BY <2>1 DEF Alone, PushInv, PushTypes
  <2>3. received[s] <= d
    BY <2>2 DEF PushInv, PushTypes, NothingFromTheFuture, AloneIsFresh
  <2>. QED
    BY <2>2, <2>3 DEF SendStep
<1>. QED
  BY <1>1, <1>3, <1>4, <1>5, <1>6 DEF PushInv

LEMMA PushStep == PushInv /\ [PushNext]_pushVars => PushInv'
<1>. SUFFICES ASSUME PushInv, [PushNext]_pushVars PROVE PushInv'
  OBVIOUS
<1>1. CASE UNCHANGED <<activeSockets, endpoint, writerVars, received, shown, excuse>>
  BY <1>1 DEF PushInv, PushTypes, NothingFromTheFuture, WriterNeedsEndpoint, LateIsOvertaken,
              AloneIsFresh, Alone, writerVars
<1>2. ASSUME NEW s \in Sockets, Connect(s) PROVE PushInv'
  <2>1. /\ writer[s] = "none" /\ writer' = [writer EXCEPT ![s] = "first"]
        /\ UNCHANGED <<shown, data, next, received, excuse>>
    BY <1>2 DEF Connect, PushInv, WriterNeedsEndpoint
  <2>2. PushTypes' /\ NothingFromTheFuture' /\ WriterNeedsEndpoint' /\ LateIsOvertaken'
    BY <1>2, <2>1 DEF Connect, PushInv, PushTypes, NothingFromTheFuture, WriterNeedsEndpoint,
                      LateIsOvertaken
  <2>3. AloneIsFresh'
    BY <2>1 DEF PushInv, PushTypes, AloneIsFresh, Alone
  <2>. QED
    BY <2>2, <2>3 DEF PushInv
<1>3. ASSUME NEW s \in Sockets, Disconnected(s) \/ BadMessage(s) PROVE PushInv'
  <2>1. endpoint[s] = "open" /\ UNCHANGED <<shown, received>>
    BY <1>3 DEF Disconnected, BadMessage
  <2>2. \E how \in {"closed", "deaf"} : endpoint' = [endpoint EXCEPT ![s] = how]
    BY <1>3 DEF Disconnected, BadMessage
  <2>3. activeSockets' \in Seq(Sockets)
    BY <1>3, RemoveType DEF Disconnected, BadMessage, EndWriter, PushInv, PushTypes
  <2>4. /\ writer' = [writer EXCEPT ![s] = "ended"]
        /\ data' = [data EXCEPT ![s] = 0] /\ next' = [next EXCEPT ![s] = 1]
        /\ excuse \subseteq excuse'
    BY <1>3 DEF Disconnected, BadMessage, EndWriter, Rest
  <2>5. PushTypes' /\ NothingFromTheFuture' /\ WriterNeedsEndpoint' /\ LateIsOvertaken'
    BY <2>1, <2>2, <2>3, <2>4
    DEF PushInv, PushTypes, NothingFromTheFuture, WriterNeedsEndpoint, LateIsOvertaken
  <2>6. \A v \in Sockets : writer'[v] = "sending" => v # s /\ ~Alone(v)'
    BY <2>4 DEF PushInv, PushTypes, Alone
  <2>. QED
    BY <2>5, <2>6 DEF PushInv, AloneIsFresh
<1>4. ASSUME NEW s \in Sockets, DeafEnds(s) PROVE PushInv'
  BY <1>4 DEF DeafEnds, PushInv, PushTypes, NothingFromTheFuture, WriterNeedsEndpoint,
              LateIsOvertaken, AloneIsFresh, Alone, writerVars
<1>5. ASSUME NEW w \in Sockets, Write(w) PROVE PushInv'
  <2>1. SendStep(w, shown) \/ (writer[w] = "sending" /\ SendStep(w, data[w]))
    BY <1>5, WriteSends DEF PushInv
  <2>2. writer[w] # "none" /\ shown \in Nat /\ data[w] \in Nat
    BY <1>5, WriteSends DEF PushInv, PushTypes
  <2>. QED
    BY <2>1, <2>2, SendKeeps
<1>6. CASE Update
  <2>1. LateIsOvertaken'
    BY <1>6 DEF Update, LateIsOvertaken, Sending, writerVars
  <2>2. AloneIsFresh'
    BY <1>6 DEF Update, PushInv, AloneIsFresh, Alone, writerVars
  <2>. QED
    BY <1>6, <2>1, <2>2 DEF Update, PushInv, PushTypes, NothingFromTheFuture, WriterNeedsEndpoint,
                            socketVars, writerVars
<1>7. CASE \E s \in Sockets : Leave(s)
  BY <1>1, <1>7 DEF Leave
<1>8. CASE UNCHANGED pushVars
  BY <1>1, <1>8 DEF pushVars, socketVars
<1>. QED
  BY <1>2, <1>3, <1>4, <1>5, <1>6, <1>7, <1>8 DEF PushNext

LEMMA PushInvInit == PushInit => PushInv
BY DEF PushInit, PushInv, PushTypes, NothingFromTheFuture, WriterNeedsEndpoint, LateIsOvertaken,
       AloneIsFresh

\* Who sends a client something older.
LEMMA GoesBackStep ==
  ASSUME PushInv, [PushNext]_pushVars, NEW s \in Sockets, received'[s] < received[s]
  PROVE  /\ "overtaken" \in excuse
         /\ \E w \in Sending :
              /\ received'[s] = data[w]
              /\ \E t \in Sockets \ {w} : writer[t] \notin {"none", "first"}
<1>1. received[s] \in Nat /\ received[s] <= shown /\ shown \in Nat
  BY DEF PushInv, PushTypes, NothingFromTheFuture
<1>2. received' # received
  BY <1>1
<1>3. PICK w \in Sockets : Write(w)
  BY <1>2 DEF PushNext, Update, Connect, Leave, Disconnected, BadMessage, DeafEnds, pushVars
<1>4. writer[w] = "sending" /\ received'[s] = data[w]
  BY <1>1, <1>3, WriteSends DEF SendStep, PushInv
<1>5. data[w] < shown /\ ~(received[s] <= data[w])
  BY <1>1, <1>4 DEF PushInv, PushTypes
<1>6. "overtaken" \in excuse /\ ~Alone(w)
  BY <1>4, <1>5 DEF PushInv, LateIsOvertaken, AloneIsFresh
<1>. QED
  BY <1>4, <1>6 DEF Alone, Sending

\* GoesBackOnlyIfOvertaken: with any number of writers and updates, a client is
\* sent an older view than it has only by a writer that an update has overtaken,
\* after another writer has been at work.
THEOREM GoesBackOnlyIfOvertakenCorrect == PushSpec => GoesBackOnlyIfOvertaken
<1>1. PushInv /\ [PushNext]_pushVars => PushInv'
  BY PushStep
<1>2. PushInv /\ [PushNext]_pushVars
        => [\A s \in Sockets : received'[s] < received[s] =>
              /\ "overtaken" \in excuse
              /\ \E w \in Sending :
                   /\ received'[s] = data[w]
                   /\ \E t \in Sockets \ {w} : writer[t] \notin {"none", "first"}]_pushVars
  BY GoesBackStep
<1>. QED
  BY <1>1, <1>2, PushInvInit, PTL DEF PushSpec, GoesBackOnlyIfOvertaken

----------------------------------------------------------------------------
(* The list.                                                                *)

\* Only what was at place i leaves.
LEMMA RemoveKeeps ==
  ASSUME NEW S, NEW q \in Seq(S), NEW i \in 1..Len(q), NEW j \in 1..Len(q), j # i
  PROVE  \E k \in 1..Len(RemoveAt(q, i)) : RemoveAt(q, i)[k] = q[j]
<1>1. /\ SubSeq(q, 1, i - 1) \in Seq(S) /\ Len(SubSeq(q, 1, i - 1)) = i - 1
      /\ \A k \in 1..(i - 1) : SubSeq(q, 1, i - 1)[k] = q[k]
  OBVIOUS
<1>2. /\ SubSeq(q, i + 1, Len(q)) \in Seq(S) /\ Len(SubSeq(q, i + 1, Len(q))) = Len(q) - i
      /\ \A k \in 1..(Len(q) - i) : SubSeq(q, i + 1, Len(q))[k] = q[i + k]
  OBVIOUS
<1>3. \/ \E k \in 1..(i - 1) : q[k] = q[j]
      \/ \E k \in 1..(Len(q) - i) : q[i + k] = q[j]
  <2>1. CASE j < i
    BY <2>1
  <2>2. CASE j > i
    <3>1. j - i \in 1..(Len(q) - i) /\ i + (j - i) = j
      BY <2>2
    <3>. QED
      BY <3>1
  <2>. QED
    BY <2>1, <2>2
<1>4. PICK a \in Seq(S), b \in Seq(S) : a = SubSeq(q, 1, i - 1) /\ b = SubSeq(q, i + 1, Len(q))
  BY <1>1, <1>2
<1>5. (\E k \in 1..Len(a) : a[k] = q[j]) \/ (\E k \in 1..Len(b) : b[k] = q[j])
  BY <1>1, <1>2, <1>3, <1>4
<1>6. \E k \in 1..Len(a \o b) : (a \o b)[k] = q[j]
  <2>1. CASE \E k \in 1..Len(a) : a[k] = q[j]
    BY <2>1
  <2>2. CASE \E k \in 1..Len(b) : b[k] = q[j]
    <3>1. PICK k \in 1..Len(b) : b[k] = q[j]
      BY <2>2
    <3>2. Len(a) + k \in 1..Len(a \o b) /\ (a \o b)[Len(a) + k] = b[k]
      OBVIOUS
    <3>. QED
      BY <3>1, <3>2
  <2>. QED
    BY <1>5, <2>1, <2>2
<1>. QED
  BY <1>4, <1>6 DEF RemoveAt

IsListed(s) == \E i \in 1..Len(activeSockets) : activeSockets[i] = s

OpenIsListed ==
  \A s \in Sockets : /\ s \in Alive => endpoint[s] = "open"
                     /\ endpoint[s] = "open" => IsListed(s)

LEMMA OpenIsListedStep == PushInv /\ OpenIsListed /\ [PushNext]_pushVars => OpenIsListed'
<1>. SUFFICES ASSUME PushInv, OpenIsListed, [PushNext]_pushVars PROVE OpenIsListed'
  OBVIOUS
<1>1. CASE UNCHANGED <<activeSockets, endpoint, writer>>
  BY <1>1 DEF OpenIsListed, IsListed, Alive
<1>2. ASSUME NEW s \in Sockets, Connect(s) PROVE OpenIsListed'
  <2>1. /\ Len(activeSockets') = Len(activeSockets) + 1
        /\ activeSockets'[Len(activeSockets) + 1] = s
        /\ \A i \in 1..Len(activeSockets) : activeSockets'[i] = activeSockets[i]
        /\ Len(activeSockets) \in Nat
    BY <1>2 DEF Connect, PushInv, PushTypes
  <2>2. IsListed(s)' /\ \A t \in Sockets : IsListed(t) => IsListed(t)'
    BY <2>1 DEF IsListed
  <2>. QED
    BY <1>2, <2>2 DEF Connect, OpenIsListed, Alive, PushInv, PushTypes
<1>3. ASSUME NEW s \in Sockets, Disconnected(s) \/ BadMessage(s) PROVE OpenIsListed'
  <2>1. PICK i \in 1..Len(activeSockets) :
          activeSockets[i] = s /\ activeSockets' = RemoveAt(activeSockets, i)
    BY <1>3 DEF Disconnected, BadMessage, EndWriter
  <2>2. \A t \in Sockets : t # s /\ IsListed(t) => IsListed(t)'
    <3>. SUFFICES ASSUME NEW t \in Sockets, t # s, IsListed(t) PROVE IsListed(t)'
      OBVIOUS
    <3>1. PICK j \in 1..Len(activeSockets) : activeSockets[j] = t
      BY DEF IsListed
    <3>2. activeSockets \in Seq(Sockets) /\ j # i
      BY <2>1, <3>1 DEF PushInv, PushTypes
    <3>. QED
      BY <2>1, <3>1, <3>2, RemoveKeeps DEF IsListed
  <2>3. /\ writer' = [writer EXCEPT ![s] = "ended"]
        /\ \E how \in {"closed", "deaf"} : endpoint' = [endpoint EXCEPT ![s] = how]
    BY <1>3 DEF Disconnected, BadMessage, EndWriter, Rest
  <2>. QED
    BY <2>2, <2>3 DEF OpenIsListed, Alive, PushInv, PushTypes
<1>4. ASSUME NEW s \in Sockets, DeafEnds(s) PROVE OpenIsListed'
  BY <1>4 DEF DeafEnds, OpenIsListed, IsListed, Alive, PushInv, PushTypes, writerVars
<1>5. ASSUME NEW w \in Sockets, Write(w) PROVE OpenIsListed'
  <2>1. writer[w] # "none" /\ (SendStep(w, shown) \/ SendStep(w, data[w]))
    BY <1>5, WriteSends DEF PushInv
  <2>2. w \in Alive
    BY <1>5 DEF Write, First, Wake, SendNext, Clear, Alive
  <2>3. UNCHANGED <<activeSockets, endpoint>>
    BY <2>1 DEF SendStep
  <2>4. PICK how : writer' = [writer EXCEPT ![w] = how]
    BY <2>1 DEF SendStep
  <2>. QED
    BY <2>2, <2>3, <2>4 DEF OpenIsListed, IsListed, Alive, PushInv, PushTypes
<1>6. CASE Update \/ \E s \in Sockets : Leave(s)
  BY <1>1, <1>6 DEF Update, Leave, socketVars, writerVars
<1>7. CASE UNCHANGED pushVars
  BY <1>1, <1>7 DEF pushVars, socketVars, writerVars
<1>. QED
  BY <1>2, <1>3, <1>4, <1>5, <1>6, <1>7 DEF PushNext

\* WritersAreListed: however connections come and go, a writer that works has
\* an open endpoint, and its socket is one of those every writer sends to.
THEOREM WritersAreListedCorrect == PushSpec => []WritersAreListed
<1>1. PushInit => OpenIsListed
  BY DEF PushInit, OpenIsListed, Alive
<1>2. PushInv /\ [PushNext]_pushVars => PushInv'
  BY PushStep
<1>3. PushInv /\ OpenIsListed => WritersAreListed
  <2>1. PushInv => DOMAIN activeSockets = 1..Len(activeSockets)
    BY DEF PushInv, PushTypes
  <2>2. ASSUME PushInv, NEW s \in Sockets, IsListed(s) PROVE s \in Listed
    BY <2>1, <2>2 DEF IsListed, Listed, ToSet
  <2>. QED
    BY <2>2 DEF OpenIsListed, WritersAreListed
<1>. QED
  BY <1>1, <1>2, <1>3, PushInvInit, OpenIsListedStep, PTL DEF PushSpec

----------------------------------------------------------------------------
(* Types: a socket is on the list once, which bounds the list.              *)

\* What RemoveAt leaves in front of place i, and behind it.
LEMMA RemovePlaces ==
  ASSUME NEW S, NEW q \in Seq(S), NEW i \in 1..Len(q)
  PROVE  /\ RemoveAt(q, i) \in Seq(S) /\ Len(RemoveAt(q, i)) = Len(q) - 1
         /\ \A k \in 1..(Len(q) - 1) : RemoveAt(q, i)[k] = IF k < i THEN q[k] ELSE q[k + 1]
<1>1. /\ SubSeq(q, 1, i - 1) \in Seq(S) /\ Len(SubSeq(q, 1, i - 1)) = i - 1
      /\ \A k \in 1..(i - 1) : SubSeq(q, 1, i - 1)[k] = q[k]
  OBVIOUS
<1>2. /\ SubSeq(q, i + 1, Len(q)) \in Seq(S) /\ Len(SubSeq(q, i + 1, Len(q))) = Len(q) - i
      /\ \A k \in 1..(Len(q) - i) : SubSeq(q, i + 1, Len(q))[k] = q[i + k]
  OBVIOUS
<1>3. PICK a \in Seq(S), b \in Seq(S) : a = SubSeq(q, 1, i - 1) /\ b = SubSeq(q, i + 1, Len(q))
  BY <1>1, <1>2
<1>4. /\ a \o b \in Seq(S) /\ Len(a \o b) = Len(a) + Len(b)
      /\ \A k \in 1..Len(a) : (a \o b)[k] = a[k]
      /\ \A k \in 1..Len(b) : (a \o b)[Len(a) + k] = b[k]
  OBVIOUS
<1>5. Len(a) = i - 1 /\ Len(b) = Len(q) - i /\ Len(q) \in Nat
  BY <1>1, <1>2, <1>3
<1>6. \A k \in 1..(Len(q) - 1) : (a \o b)[k] = IF k < i THEN q[k] ELSE q[k + 1]
  <2>. SUFFICES ASSUME NEW k \in 1..(Len(q) - 1)
                PROVE  (a \o b)[k] = IF k < i THEN q[k] ELSE q[k + 1]
    OBVIOUS
  <2>1. CASE k < i
    <3>1. k \in 1..Len(a) /\ k \in 1..(i - 1)
      BY <1>5, <2>1
    <3>. QED
      BY <1>1, <1>3, <1>4, <2>1, <3>1
  <2>2. CASE ~(k < i)
    <3>. DEFINE m == k - (i - 1)
    <3>1. m \in 1..Len(b) /\ m \in 1..(Len(q) - i) /\ i + m = k + 1 /\ Len(a) + m = k
      BY <1>5, <2>2
    <3>. HIDE DEF m
    <3>2. (a \o b)[k] = b[m]
      BY <1>4, <3>1
    <3>3. b[m] = q[k + 1]
      BY <1>2, <1>3, <3>1
    <3>. QED
      BY <2>2, <3>2, <3>3
  <2>. QED
    BY <2>1, <2>2
<1>7. RemoveAt(q, i) = a \o b
  BY <1>3 DEF RemoveAt
<1>8. Len(a \o b) = Len(q) - 1
  BY <1>4, <1>5
<1>. QED
  BY <1>4, <1>6, <1>7, <1>8

\* Injectivity, by places.
LEMMA InjectiveFacts ==
  ASSUME NEW S, NEW q \in Seq(S)
  PROVE  IsInjective(q) <=> \A i, j \in 1..Len(q) : q[i] = q[j] => i = j
<1>1. DOMAIN q = 1..Len(q)
  OBVIOUS
<1>. QED
  BY <1>1 DEF IsInjective

\* A list without repetitions is no longer than there are sockets.
LEMMA ListBound ==
  ASSUME NEW n \in Nat, NEW q \in Seq(1..n), IsInjective(q)
  PROVE  Len(q) \in 0..n
<1>1. q \in [1..Len(q) -> 1..n] /\ Len(q) \in Nat
  OBVIOUS
<1>2. \A k \in Nat : IsFiniteSet(1..k) /\ Cardinality(1..k) = k
  BY FS_Interval
<1>3. ASSUME n < Len(q) PROVE FALSE
  <2>1. PICK x \in 1..Len(q), y \in 1..Len(q) : x # y /\ q[x] = q[y]
    BY <1>1, <1>2, <1>3, FS_PigeonHole
  <2>. QED
    BY <2>1, InjectiveFacts
<1>. QED
  BY <1>1, <1>3

PushTypeInv ==
  /\ PushTypeOK
  /\ \A i \in 1..Len(activeSockets) : endpoint[activeSockets[i]] # "none"

LEMMA InitTypes == PushInit => PushTypeInv
<1>. SUFFICES ASSUME PushInit PROVE PushTypeInv
  OBVIOUS
<1>1. activeSockets = <<>> /\ activeSockets \in Seq(Sockets) /\ Len(activeSockets) = 0
  BY DEF PushInit
<1>2. ~\E i \in 1..Len(activeSockets) : TRUE
  BY <1>1
<1>3. IsInjective(activeSockets)
  BY <1>1, <1>2, InjectiveFacts
<1>4. 0 \in 0..MaxUpdates /\ 1 \in 1..(MaxSockets + 1)
  BY PushAssumption
<1>5. \A i \in 1..Len(activeSockets) : endpoint[activeSockets[i]] # "none"
  BY <1>2
<1>6. PushTypeOK
  BY <1>1, <1>3, <1>4 DEF PushInit, PushTypeOK
<1>. QED
  BY <1>5, <1>6 DEF PushTypeInv

\* Sending keeps the types.
LEMMA SendTypes ==
  ASSUME PushTypeInv, NEW w \in Sockets, NEW i \in 1..MaxSockets, NEW d \in 0..MaxUpdates, Send(w, i, d)
  PROVE  /\ writer' \in [Sockets -> {"none", "first", "asleep", "sending", "ended"}]
         /\ data' \in [Sockets -> 0..MaxUpdates] /\ next' \in [Sockets -> 1..(MaxSockets + 1)]
         /\ received' \in [Sockets -> 0..MaxUpdates] /\ event' = event
<1>1. i + 1 \in 1..(MaxSockets + 1) /\ 1 \in 1..(MaxSockets + 1) /\ 0 \in 0..MaxUpdates
  BY PushAssumption
<1>2. CASE Raised(w, activeSockets[i])
  BY <1>1, <1>2 DEF Raised, Rest, PushTypeInv, PushTypeOK
<1>3. CASE ~Raised(w, activeSockets[i])
  <2>1. /\ writer' = [writer EXCEPT ![w] = "sending"] /\ data' = [data EXCEPT ![w] = d]
        /\ next' = [next EXCEPT ![w] = i + 1] /\ event' = event
        /\ Delivered(activeSockets[i], d)
    BY <1>3 DEF Send
  <2>2. /\ writer' \in [Sockets -> {"none", "first", "asleep", "sending", "ended"}]
        /\ data' \in [Sockets -> 0..MaxUpdates]
    BY <2>1 DEF PushTypeInv, PushTypeOK
  <2>3. next' \in [Sockets -> 1..(MaxSockets + 1)]
    BY <1>1, <2>1 DEF PushTypeInv, PushTypeOK
  <2>4. received' \in [Sockets -> 0..MaxUpdates]
    BY <2>1 DEF Delivered, PushTypeInv, PushTypeOK
  <2>. QED
    BY <2>1, <2>2, <2>3, <2>4
<1>. QED
  BY <1>2, <1>3

LEMMA NextTypes == PushTypeInv /\ [PushNext]_pushVars => PushTypeInv'
<1>. SUFFICES ASSUME PushTypeInv, [PushNext]_pushVars PROVE PushTypeInv'
  OBVIOUS
<1>0. /\ 1 \in 1..(MaxSockets + 1) /\ 0 \in 0..MaxUpdates
      /\ activeSockets \in Seq(Sockets) /\ Len(activeSockets) \in 0..MaxSockets
      /\ MaxSockets \in Nat /\ MaxUpdates \in Nat
  BY PushAssumption, ListBound DEF PushTypeInv, PushTypeOK, Sockets
<1>1. CASE Update
  <2>1. /\ UNCHANGED <<activeSockets, endpoint, peer, writer, data, next, received>>
        /\ shown' = shown + 1 /\ shown < MaxUpdates /\ event' = TRUE
        /\ excuse' = IF Sending = {} THEN {} ELSE excuse \cup {"overtaken"}
    BY <1>1 DEF Update, socketVars, writerVars
  <2>2. shown' \in 0..MaxUpdates
    BY <1>0, <2>1 DEF PushTypeInv, PushTypeOK
  <2>3. excuse' \subseteq {"overtaken", "skipped"}
    BY <2>1 DEF PushTypeInv, PushTypeOK
  <2>. QED
    BY <2>1, <2>2, <2>3 DEF PushTypeInv, PushTypeOK
<1>2. ASSUME NEW s \in Sockets, Connect(s) PROVE PushTypeInv'
  <2>1. /\ activeSockets' \in Seq(Sockets) /\ Len(activeSockets') = Len(activeSockets) + 1
        /\ activeSockets'[Len(activeSockets) + 1] = s
        /\ \A i \in 1..Len(activeSockets) : activeSockets'[i] = activeSockets[i]
    BY <1>0, <1>2 DEF Connect
  <2>2. \A i \in 1..Len(activeSockets') :
          i \in 1..Len(activeSockets) \/ i = Len(activeSockets) + 1
    BY <1>0, <2>1
  <2>3. \A i \in 1..Len(activeSockets) : activeSockets[i] # s
    BY <1>2 DEF Connect, PushTypeInv
  <2>4. IsInjective(activeSockets')
    <3>. SUFFICES ASSUME NEW i \in 1..Len(activeSockets'), NEW j \in 1..Len(activeSockets'),
                         activeSockets'[i] = activeSockets'[j]
                  PROVE  i = j
      BY <2>1, InjectiveFacts
    <3>1. CASE i \in 1..Len(activeSockets) /\ j \in 1..Len(activeSockets)
      BY <1>0, <2>1, <3>1, InjectiveFacts DEF PushTypeInv, PushTypeOK
    <3>2. CASE i = Len(activeSockets) + 1 \/ j = Len(activeSockets) + 1
      BY <2>1, <2>2, <2>3, <3>2
    <3>. QED
      BY <2>2, <3>1, <3>2
  <2>5. endpoint' = [endpoint EXCEPT ![s] = "open"] /\ writer' = [writer EXCEPT ![s] = "first"]
    BY <1>2 DEF Connect
  <2>6. \A i \in 1..Len(activeSockets') : endpoint'[activeSockets'[i]] # "none"
    <3>. SUFFICES ASSUME NEW i \in 1..Len(activeSockets') PROVE endpoint'[activeSockets'[i]] # "none"
      OBVIOUS
    <3>1. CASE i \in 1..Len(activeSockets)
      <4>1. activeSockets[i] \in Sockets /\ endpoint[activeSockets[i]] # "none"
        BY <1>0, <3>1 DEF PushTypeInv
      <4>. QED
        BY <2>1, <2>5, <3>1, <4>1 DEF PushTypeInv, PushTypeOK
    <3>2. CASE i = Len(activeSockets) + 1
      BY <2>1, <2>5, <3>2 DEF PushTypeInv, PushTypeOK
    <3>. QED
      BY <2>2, <3>1, <3>2
  <2>. QED
    BY <1>2, <2>1, <2>4, <2>5, <2>6 DEF Connect, PushTypeInv, PushTypeOK
<1>3. ASSUME NEW s \in Sockets, Disconnected(s) \/ BadMessage(s) PROVE PushTypeInv'
  <2>1. PICK i \in 1..Len(activeSockets) :
          activeSockets[i] = s /\ activeSockets' = RemoveAt(activeSockets, i)
    BY <1>3 DEF Disconnected, BadMessage, EndWriter
  <2>2. /\ activeSockets' \in Seq(Sockets) /\ Len(activeSockets') = Len(activeSockets) - 1
        /\ \A k \in 1..Len(activeSockets') :
             activeSockets'[k] = IF k < i THEN activeSockets[k] ELSE activeSockets[k + 1]
    BY <1>0, <2>1, RemovePlaces
  <2>3. \A k \in 1..Len(activeSockets') : k \in 1..Len(activeSockets) /\ k + 1 \in 1..Len(activeSockets)
    BY <1>0, <2>2
  <2>4. IsInjective(activeSockets')
    <3>. SUFFICES ASSUME NEW k \in 1..Len(activeSockets'), NEW j \in 1..Len(activeSockets'),
                         activeSockets'[k] = activeSockets'[j]
                  PROVE  k = j
      BY <2>2, InjectiveFacts
    <3>1. \A x, y \in 1..Len(activeSockets) : activeSockets[x] = activeSockets[y] => x = y
      BY <1>0, InjectiveFacts DEF PushTypeInv, PushTypeOK
    <3>. QED
      BY <2>2, <2>3, <3>1
  <2>5. /\ writer' = [writer EXCEPT ![s] = "ended"] /\ data' = [data EXCEPT ![s] = 0]
        /\ next' = [next EXCEPT ![s] = 1] /\ excuse' \subseteq {"overtaken", "skipped"}
        /\ UNCHANGED <<shown, event, peer, received>>
        /\ \E how \in {"closed", "deaf"} : endpoint' = [endpoint EXCEPT ![s] = how]
    BY <1>3 DEF Disconnected, BadMessage, EndWriter, Rest, PushTypeInv, PushTypeOK
  <2>6. \A k \in 1..Len(activeSockets') : endpoint'[activeSockets'[k]] # "none"
    <3>. SUFFICES ASSUME NEW k \in 1..Len(activeSockets') PROVE endpoint'[activeSockets'[k]] # "none"
      OBVIOUS
    <3>1. PICK m \in 1..Len(activeSockets) : activeSockets'[k] = activeSockets[m]
      BY <2>2, <2>3
    <3>2. activeSockets[m] \in Sockets /\ endpoint[activeSockets[m]] # "none"
      BY <1>0 DEF PushTypeInv
    <3>. QED
      BY <2>5, <3>1, <3>2 DEF PushTypeInv, PushTypeOK
  <2>7. /\ writer' \in [Sockets -> {"none", "first", "asleep", "sending", "ended"}]
        /\ endpoint' \in [Sockets -> {"none", "open", "deaf", "closed"}]
    BY <2>5 DEF PushTypeInv, PushTypeOK
  <2>8. data' \in [Sockets -> 0..MaxUpdates]
    BY <1>0, <2>5 DEF PushTypeInv, PushTypeOK
  <2>9. next' \in [Sockets -> 1..(MaxSockets + 1)]
    BY <1>0, <2>5 DEF PushTypeInv, PushTypeOK
  <2>10. PushTypeOK'
    BY <2>2, <2>4, <2>5, <2>7, <2>8, <2>9 DEF PushTypeInv, PushTypeOK
  <2>. QED
    BY <2>6, <2>10 DEF PushTypeInv
<1>4. ASSUME NEW s \in Sockets, Leave(s) \/ DeafEnds(s) PROVE PushTypeInv'
  <2>1. /\ UNCHANGED <<shown, event, activeSockets, writer, data, next, received, excuse>>
        /\ peer' = [peer EXCEPT ![s] = "gone"]
        /\ endpoint' = endpoint \/ endpoint' = [endpoint EXCEPT ![s] = "closed"]
    BY <1>4 DEF Leave, DeafEnds, writerVars
  <2>2. PushTypeOK'
    BY <2>1 DEF PushTypeInv, PushTypeOK
  <2>3. ASSUME NEW i \in 1..Len(activeSockets) PROVE endpoint'[activeSockets[i]] # "none"
    <3>1. activeSockets[i] \in Sockets /\ endpoint[activeSockets[i]] # "none"
      BY <1>0, <2>3 DEF PushTypeInv
    <3>. QED
      BY <2>1, <3>1 DEF PushTypeInv, PushTypeOK
  <2>. QED
    BY <2>1, <2>2, <2>3 DEF PushTypeInv
<1>5. ASSUME NEW w \in Sockets, First(w) \/ Clear(w) PROVE PushTypeInv'
  <2>1. /\ UNCHANGED <<shown, activeSockets, endpoint, peer, excuse>> /\ event' \in BOOLEAN
        /\ \E how \in {"asleep", "ended"} : Rest(w, how)
        /\ received' = received \/ received' = [received EXCEPT ![w] = shown]
    BY <1>5 DEF First, Clear, Raised, Delivered, socketVars, PushTypeInv, PushTypeOK
  <2>2. PICK how \in {"asleep", "ended"} : Rest(w, how)
    BY <2>1
  <2>3. /\ writer' \in [Sockets -> {"none", "first", "asleep", "sending", "ended"}]
        /\ data' \in [Sockets -> 0..MaxUpdates]
    BY <1>0, <2>2 DEF Rest, PushTypeInv, PushTypeOK
  <2>5. received' \in [Sockets -> 0..MaxUpdates]
    BY <2>1 DEF PushTypeInv, PushTypeOK
  <2>4. next' \in [Sockets -> 1..(MaxSockets + 1)]
    BY <1>0, <2>2 DEF Rest, PushTypeInv, PushTypeOK
  <2>. QED
    BY <2>1, <2>3, <2>4, <2>5 DEF PushTypeInv, PushTypeOK
<1>6. ASSUME NEW w \in Sockets, Wake(w) \/ SendNext(w) PROVE PushTypeInv'
  <2>1. UNCHANGED <<shown, activeSockets, endpoint, peer, excuse>>
    BY <1>6 DEF Wake, SendNext, socketVars
  <2>2. shown \in 0..MaxUpdates /\ data[w] \in 0..MaxUpdates /\ next[w] \in 1..(MaxSockets + 1)
    BY DEF PushTypeInv, PushTypeOK
  <2>3. \E i \in 1..MaxSockets, d \in 0..MaxUpdates : Send(w, i, d)
    <3>1. CASE Wake(w)
      <4>1. 1 \in 1..MaxSockets
        BY <1>0 DEF Sockets
      <4>. QED
        BY <2>2, <3>1, <4>1 DEF Wake
    <3>2. CASE SendNext(w)
      <4>1. next[w] \in 1..MaxSockets
        BY <1>0, <2>2, <3>2 DEF SendNext
      <4>. QED
        BY <2>2, <3>2, <4>1 DEF SendNext
    <3>. QED
      BY <1>6, <3>1, <3>2
  <2>. QED
    BY <2>1, <2>3, SendTypes DEF PushTypeInv, PushTypeOK
<1>7. CASE UNCHANGED pushVars
  BY <1>7 DEF pushVars, socketVars, writerVars, PushTypeInv, PushTypeOK
<1>. QED
  BY <1>1, <1>2, <1>3, <1>4, <1>5, <1>6, <1>7 DEF PushNext, Write

\* PushTypeOK, for any bounds: the variables have their types, no socket is on the
\* list twice, and a writer's place is in the list or just behind its end.
THEOREM PushTypeCorrect == PushSpec => []PushTypeOK
<1>1. PushTypeInv => PushTypeOK
  BY DEF PushTypeInv
<1>. QED
  BY <1>1, InitTypes, NextTypes, PTL DEF PushSpec

----------------------------------------------------------------------------
(* Settled.                                                                 *)

Fresh(s) == peer[s] = "here" => received[s] = shown

\* A writer under way sends the latest view, and whom it has passed has it.
SendersCurrent ==
  \A w \in Sending :
    /\ data[w] = shown
    /\ next[w] <= Len(activeSockets) + 1
    /\ \A i \in 1..Len(activeSockets) : i < next[w] => Fresh(activeSockets[i])

ListCurrent ==
  \A i \in 1..Len(activeSockets) : writer[activeSockets[i]] # "first" => Fresh(activeSockets[i])

\* The event is cleared at the end of a round, so it matters what the other
\* rounds have done by then; and a round ends at the length the list has then, so
\* it matters who has left it in between.
SettledInv ==
  /\ peer \in [Sockets -> {"here", "gone"}]
  /\ excuse = {} => SendersCurrent /\ (~event => ListCurrent)

\* A writer that sends the latest view to the i-th socket, all before having it.
LEMMA SendSettled ==
  ASSUME PushTypeOK, PushInv, SettledInv, NEW w \in Sockets, NEW i \in Nat \ {0}, NEW d,
         Send(w, i, d), i <= Len(activeSockets), writer[w] # "first",
         UNCHANGED <<shown, socketVars, excuse>>,
         excuse = {} => /\ d = shown
                        /\ \A k \in 1..Len(activeSockets) : k < i => Fresh(activeSockets[k])
  PROVE  SettledInv'
<1>. DEFINE x == activeSockets[i]
<1>0. UNCHANGED <<activeSockets, endpoint, peer, shown, excuse, event>>
  BY DEF socketVars, Send, Raised
<1>1. x \in Sockets /\ Len(activeSockets) \in Nat
  BY DEF PushInv, PushTypes
<1>2. CASE Raised(w, x)
  <2>1. /\ writer' = [writer EXCEPT ![w] = "ended"] /\ data' = [data EXCEPT ![w] = 0]
        /\ next' = [next EXCEPT ![w] = 1] /\ UNCHANGED received
    BY <1>2 DEF Raised, Rest
  <2>2. \A s \in Sockets : Fresh(s)' <=> Fresh(s)
    BY <1>0, <2>1 DEF Fresh
  <2>3. Sending' = Sending \ {w} /\ \A v \in Sending' : data'[v] = data[v] /\ next'[v] = next[v]
    BY <2>1 DEF Sending, PushInv, PushTypes
  <2>4. \A v \in Sockets : writer'[v] # "first" <=> writer[v] # "first"
    BY <2>1 DEF PushInv, PushTypes
  <2>5. \A k \in 1..Len(activeSockets) : activeSockets[k] \in Sockets
    BY DEF PushInv, PushTypes
  <2>6. excuse = {} => SendersCurrent'
    BY <1>0, <2>2, <2>3, <2>5 DEF SettledInv, SendersCurrent
  <2>7. excuse = {} /\ ~event => ListCurrent'
    BY <1>0, <2>2, <2>4, <2>5 DEF SettledInv, ListCurrent
  <2>. QED
    BY <1>0, <2>6, <2>7 DEF SettledInv
<1>3. CASE ~Raised(w, x)
  <2>1. /\ Delivered(x, d)
        /\ writer' = [writer EXCEPT ![w] = "sending"] /\ data' = [data EXCEPT ![w] = d]
        /\ next' = [next EXCEPT ![w] = i + 1]
    BY <1>3 DEF Send
  <2>2. excuse = {} => \A s \in Sockets : Fresh(s) \/ s = x => Fresh(s)'
    BY <1>0, <1>1, <2>1 DEF Fresh, Delivered, PushInv, PushTypes
  <2>3. /\ data'[w] = d /\ next'[w] = i + 1
        /\ \A v \in Sending' :
             v # w => v \in Sending /\ data'[v] = data[v] /\ next'[v] = next[v]
    <3>1. data'[w] = d /\ next'[w] = i + 1
      BY <2>1 DEF PushTypeOK
    <3>2. \A v \in Sockets \ {w} : writer'[v] = writer[v] /\ data'[v] = data[v] /\ next'[v] = next[v]
      BY <2>1 DEF PushTypeOK
    <3>3. \A v \in Sending' : v \in Sockets /\ writer'[v] = "sending"
      BY DEF Sending
    <3>4. \A v \in Sockets : writer[v] = "sending" => v \in Sending
      BY DEF Sending
    <3>5. \A v \in Sending' : v # w =>
            v \in Sending /\ data'[v] = data[v] /\ next'[v] = next[v]
      BY <3>2, <3>3, <3>4
    <3>. QED
      BY <3>1, <3>5
  <2>4. \A v \in Sockets : writer'[v] # "first" <=> writer[v] # "first"
    BY <2>1 DEF PushInv, PushTypes
  <2>5. \A k \in 1..Len(activeSockets) : activeSockets[k] \in Sockets
    BY DEF PushInv, PushTypes
  <2>6. ASSUME excuse = {} PROVE SendersCurrent'
    <3>. SUFFICES ASSUME NEW v \in Sending'
                  PROVE  /\ data'[v] = shown /\ next'[v] <= Len(activeSockets) + 1
                         /\ \A k \in 1..Len(activeSockets) :
                              k < next'[v] => Fresh(activeSockets[k])'
      BY <1>0 DEF SendersCurrent
    <3>1. CASE v = w
      <4>1. \A k \in 1..Len(activeSockets) : k < i + 1 => k < i \/ activeSockets[k] = x
        OBVIOUS
      <4>2. data'[v] = shown /\ next'[v] = i + 1 /\ i + 1 <= Len(activeSockets) + 1
        BY <1>1, <2>3, <2>6, <3>1
      <4>3. ASSUME NEW k \in 1..Len(activeSockets), k < i + 1 PROVE Fresh(activeSockets[k])'
        <5>1. Fresh(activeSockets[k]) \/ activeSockets[k] = x
          BY <2>6, <4>1, <4>3
        <5>. QED
          BY <1>0, <2>2, <2>5, <2>6, <5>1 DEF Fresh
      <4>. QED
        BY <1>0, <4>2, <4>3
    <3>2. CASE v # w
      <4>1. v \in Sending /\ data'[v] = data[v] /\ next'[v] = next[v]
        BY <2>3, <3>2
      <4>2. /\ data[v] = shown /\ next[v] <= Len(activeSockets) + 1
            /\ \A k \in 1..Len(activeSockets) : k < next[v] => Fresh(activeSockets[k])
        BY <2>6, <4>1 DEF SettledInv, SendersCurrent
      <4>3. ASSUME NEW k \in 1..Len(activeSockets), k < next[v] PROVE Fresh(activeSockets[k])'
        <5>1. Fresh(activeSockets[k])
          BY <4>2, <4>3
        <5>. QED
          BY <1>0, <2>2, <2>5, <2>6, <5>1 DEF Fresh
      <4>. QED
        BY <1>0, <4>1, <4>2, <4>3
    <3>. QED
      BY <3>1, <3>2
  <2>7. ASSUME excuse = {}, ~event PROVE ListCurrent'
    BY <1>0, <2>2, <2>4, <2>5, <2>7 DEF SettledInv, ListCurrent
  <2>. QED
    BY <1>0, <2>6, <2>7 DEF SettledInv
<1>. QED
  BY <1>2, <1>3

\* Every step of a writer keeps it.
LEMMA WriteSettled ==
  ASSUME PushTypeOK, PushInv, OpenIsListed, SettledInv, NEW w \in Sockets, Write(w)
  PROVE  SettledInv'
<1>0. /\ next[w] \in Nat \ {0} /\ Len(activeSockets) \in Nat
      /\ \A k \in 1..Len(activeSockets) : activeSockets[k] \in Sockets
  BY DEF PushInv, PushTypes
<1>1. CASE First(w)
  <2>1. /\ UNCHANGED <<shown, activeSockets, peer, excuse, event>>
        /\ writer[w] = "first"
        /\ \E how \in {"asleep", "ended"} : Rest(w, how)
        /\ \/ peer[w] = "gone" /\ UNCHANGED received
           \/ Delivered(w, shown)
    BY <1>1 DEF First, Raised, socketVars
  <2>2. Fresh(w)' /\ \A s \in Sockets : Fresh(s) => Fresh(s)'
    BY <2>1 DEF Fresh, Delivered, PushInv, PushTypes
  <2>3. PICK how \in {"asleep", "ended"} :
          /\ writer' = [writer EXCEPT ![w] = how] /\ data' = [data EXCEPT ![w] = 0]
          /\ next' = [next EXCEPT ![w] = 1]
    BY <2>1 DEF Rest
  <2>4. /\ Sending' = Sending /\ w \notin Sending
        /\ \A v \in Sending : data'[v] = data[v] /\ next'[v] = next[v]
    BY <2>1, <2>3 DEF Sending, PushInv, PushTypes
  <2>5. \A s \in Sockets : writer'[s] # "first" => s = w \/ writer[s] # "first"
    BY <2>3 DEF PushInv, PushTypes
  <2>6. excuse = {} => SendersCurrent'
    BY <1>0, <2>1, <2>2, <2>4 DEF SettledInv, SendersCurrent
  <2>7. excuse = {} /\ ~event => ListCurrent'
    BY <1>0, <2>1, <2>2, <2>5 DEF SettledInv, ListCurrent
  <2>. QED
    BY <2>1, <2>6, <2>7 DEF SettledInv
<1>2. CASE Wake(w)
  <2>1. writer[w] = "asleep" /\ Send(w, 1, shown) /\ UNCHANGED <<shown, socketVars, excuse>>
    BY <1>2 DEF Wake
  <2>2. IsListed(w)
    BY <2>1 DEF OpenIsListed, Alive
  <2>3. 1 <= Len(activeSockets)
    BY <1>0, <2>2 DEF IsListed
  <2>. QED
    BY <2>1, <2>3, SendSettled
<1>3. CASE SendNext(w)
  <2>1. /\ writer[w] = "sending" /\ next[w] <= Len(activeSockets)
        /\ Send(w, next[w], data[w]) /\ UNCHANGED <<shown, socketVars, excuse>>
    BY <1>3 DEF SendNext
  <2>2. w \in Sending
    BY <2>1 DEF Sending
  <2>3. excuse = {} => /\ data[w] = shown
                       /\ \A k \in 1..Len(activeSockets) : k < next[w] => Fresh(activeSockets[k])
    BY <2>2 DEF SettledInv, SendersCurrent
  <2>. QED
    BY <1>0, <2>1, <2>3, SendSettled
<1>4. CASE Clear(w)
  <2>1. /\ UNCHANGED <<shown, activeSockets, peer, excuse, received>>
        /\ writer[w] = "sending" /\ next[w] > Len(activeSockets)
        /\ writer' = [writer EXCEPT ![w] = "asleep"] /\ data' = [data EXCEPT ![w] = 0]
        /\ next' = [next EXCEPT ![w] = 1]
    BY <1>4 DEF Clear, socketVars, Rest
  <2>2. \A s \in Sockets : Fresh(s) <=> Fresh(s)'
    BY <2>1 DEF Fresh
  <2>3. /\ w \in Sending /\ Sending' = Sending \ {w}
        /\ \A v \in Sending' : data'[v] = data[v] /\ next'[v] = next[v]
    BY <2>1 DEF Sending, PushInv, PushTypes
  <2>4. excuse = {} => SendersCurrent'
    BY <1>0, <2>1, <2>2, <2>3 DEF SettledInv, SendersCurrent
  <2>5. excuse = {} => \A k \in 1..Len(activeSockets) : Fresh(activeSockets[k])
    <3>. SUFFICES ASSUME excuse = {}, NEW k \in 1..Len(activeSockets) PROVE Fresh(activeSockets[k])
      OBVIOUS
    <3>1. k < next[w]
      BY <1>0, <2>1
    <3>. QED
      BY <2>3, <3>1 DEF SettledInv, SendersCurrent
  <2>6. excuse = {} => ListCurrent'
    BY <1>0, <2>1, <2>2, <2>5 DEF ListCurrent
  <2>. QED
    BY <2>1, <2>4, <2>6 DEF SettledInv
<1>. QED
  BY <1>1, <1>2, <1>3, <1>4 DEF Write

\* A socket leaves the list: nobody has passed it, or that is an excuse.
LEMMA EndSettled ==
  ASSUME PushTypeOK, PushInv, SettledInv, NEW s \in Sockets, EndWriter(s),
         UNCHANGED <<shown, event, peer, received>>
  PROVE  SettledInv'
<1>1. PICK i \in 1..Len(activeSockets) :
        activeSockets[i] = s /\ activeSockets' = RemoveAt(activeSockets, i)
  BY DEF EndWriter
<1>2. /\ writer' = [writer EXCEPT ![s] = "ended"] /\ data' = [data EXCEPT ![s] = 0]
      /\ next' = [next EXCEPT ![s] = 1]
  BY DEF EndWriter, Rest
<1>3. /\ activeSockets \in Seq(Sockets) /\ Len(activeSockets) \in Nat
      /\ \A v \in Sockets : next[v] \in Nat \ {0}
  BY DEF PushInv, PushTypes
<1>4. /\ Len(activeSockets') = Len(activeSockets) - 1
      /\ \A k \in 1..Len(activeSockets') :
           activeSockets'[k] = IF k < i THEN activeSockets[k] ELSE activeSockets[k + 1]
  BY <1>1, <1>3, RemovePlaces
<1>5. \A v \in Sockets : Fresh(v)' <=> Fresh(v)
  BY DEF Fresh
<1>6. /\ Sending' = Sending \ {s}
      /\ \A v \in Sending' : v \in Sockets /\ data'[v] = data[v] /\ next'[v] = next[v]
  BY <1>2 DEF Sending, PushInv, PushTypes
<1>7. excuse' = {} => excuse = {} /\ \A v \in Sending' : next[v] <= i
  <2>. SUFFICES ASSUME excuse' = {}, NEW v \in Sending' PROVE excuse = {} /\ next[v] <= i
    BY DEF EndWriter
  <2>1. ~PastIt(s) /\ excuse = {}
    BY DEF EndWriter
  <2>2. v \in Sending \ {s} /\ next[v] \in Nat
    BY <1>3, <1>6
  <2>3. ~(i < next[v])
    BY <1>1, <2>1, <2>2 DEF PastIt
  <2>. QED
    BY <2>1, <2>2, <2>3
<1>8. \A k \in 1..Len(activeSockets') :
        /\ k < i => k \in 1..Len(activeSockets) /\ activeSockets'[k] = activeSockets[k]
        /\ \E m \in 1..Len(activeSockets) : m # i /\ activeSockets'[k] = activeSockets[m]
        /\ activeSockets'[k] \in Sockets
  <2>. SUFFICES ASSUME NEW k \in 1..Len(activeSockets')
                PROVE  /\ k < i => k \in 1..Len(activeSockets) /\ activeSockets'[k] = activeSockets[k]
                       /\ \E m \in 1..Len(activeSockets) : m # i /\ activeSockets'[k] = activeSockets[m]
                       /\ activeSockets'[k] \in Sockets
    OBVIOUS
  <2>1. k \in 1..Len(activeSockets) /\ k + 1 \in 1..Len(activeSockets)
    BY <1>3, <1>4
  <2>. QED
    BY <1>3, <1>4, <2>1
<1>9. ASSUME excuse' = {} PROVE SendersCurrent'
  <2>. SUFFICES ASSUME NEW v \in Sending'
                PROVE  /\ data'[v] = shown' /\ next'[v] <= Len(activeSockets') + 1
                       /\ \A k \in 1..Len(activeSockets') : k < next'[v] => Fresh(activeSockets[k])'
    BY DEF SendersCurrent
  <2>1. v \in Sending /\ v \in Sockets /\ next[v] <= i /\ next[v] \in Nat
        /\ data'[v] = data[v] /\ next'[v] = next[v]
    BY <1>3, <1>6, <1>7, <1>9
  <2>2. next'[v] <= Len(activeSockets') + 1
    BY <1>3, <1>4, <2>1
  <2>3. data'[v] = shown'
    BY <1>7, <1>9, <2>1 DEF SettledInv, SendersCurrent
  <2>4. ASSUME NEW k \in 1..Len(activeSockets'), k < next'[v] PROVE Fresh(activeSockets[k])'
    <3>1. k < i /\ k < next[v]
      BY <1>3, <1>4, <2>1, <2>4
    <3>2. k \in 1..Len(activeSockets) /\ activeSockets'[k] = activeSockets[k]
      BY <1>8, <3>1
    <3>3. Fresh(activeSockets[k])
      BY <1>7, <1>9, <2>1, <3>1, <3>2 DEF SettledInv, SendersCurrent
    <3>4. activeSockets'[k] \in Sockets
      BY <1>8
    <3>. QED
      BY <1>5, <3>2, <3>3, <3>4 DEF Fresh
  <2>. QED
    BY <2>2, <2>3, <2>4
<1>10. ASSUME excuse' = {}, ~event' PROVE ListCurrent'
  <2>. SUFFICES ASSUME NEW k \in 1..Len(activeSockets'), writer'[activeSockets'[k]] # "first"
                PROVE  Fresh(activeSockets[k])'
    BY DEF ListCurrent
  <2>1. PICK m \in 1..Len(activeSockets) : m # i /\ activeSockets'[k] = activeSockets[m]
    BY <1>8
  <2>2. activeSockets[m] \in Sockets /\ activeSockets[m] # s
    <3>1. activeSockets[m] = activeSockets[i] => m = i
      BY <1>1, <1>3, InjectiveFacts DEF PushTypeOK
    <3>. QED
      BY <1>1, <1>3, <2>1, <3>1
  <2>3. Fresh(activeSockets[m])
    BY <1>2, <1>7, <1>10, <2>1, <2>2 DEF SettledInv, ListCurrent, PushInv, PushTypes
  <2>. QED
    BY <1>5, <2>1, <2>2, <2>3 DEF Fresh
<1>. QED
  BY <1>9, <1>10 DEF SettledInv

LEMMA SettledStep ==
  ASSUME PushTypeOK, PushInv, OpenIsListed, SettledInv, [PushNext]_pushVars
  PROVE  SettledInv'
<1>0. /\ Len(activeSockets) \in Nat
      /\ \A k \in 1..Len(activeSockets) : activeSockets[k] \in Sockets
  BY DEF PushInv, PushTypes
<1>1. CASE Update
  <2>1. excuse' = {} => Sending' = {}
    BY <1>1 DEF Update, Sending, writerVars
  <2>2. event' = TRUE /\ peer' = peer
    BY <1>1 DEF Update, socketVars
  <2>. QED
    BY <2>1, <2>2 DEF SettledInv, SendersCurrent
<1>2. ASSUME NEW s \in Sockets, Connect(s) PROVE SettledInv'
  <2>1. /\ Len(activeSockets') = Len(activeSockets) + 1
        /\ activeSockets'[Len(activeSockets) + 1] = s
        /\ \A k \in 1..Len(activeSockets) : activeSockets'[k] = activeSockets[k]
    BY <1>2 DEF Connect, PushInv, PushTypes
  <2>2. \A k \in 1..Len(activeSockets') :
          k \in 1..Len(activeSockets) \/ k = Len(activeSockets) + 1
    BY <1>0, <2>1
  <2>3. /\ UNCHANGED <<shown, event, peer, data, next, received, excuse>>
        /\ writer' = [writer EXCEPT ![s] = "first"]
    BY <1>2 DEF Connect
  <2>4. Sending' \subseteq Sending /\ \A v \in Sockets : Fresh(v)' <=> Fresh(v)
    BY <2>3 DEF Sending, Fresh, PushInv, PushTypes
  <2>5. \A v \in Sending : next[v] \in Nat
    BY DEF Sending, PushInv, PushTypes
  <2>6. ASSUME excuse = {} PROVE SendersCurrent'
    <3>. SUFFICES ASSUME NEW v \in Sending'
                  PROVE  /\ data[v] = shown /\ next[v] <= Len(activeSockets') + 1
                         /\ \A k \in 1..Len(activeSockets') :
                              k < next[v] => Fresh(activeSockets[k])'
      BY <2>3 DEF SendersCurrent
    <3>1. data[v] = shown /\ next[v] <= Len(activeSockets) + 1 /\ next[v] \in Nat
      BY <2>4, <2>5, <2>6 DEF SettledInv, SendersCurrent
    <3>2. ASSUME NEW k \in 1..Len(activeSockets'), k < next[v] PROVE Fresh(activeSockets[k])'
      <4>1. k \in 1..Len(activeSockets)
        BY <1>0, <2>2, <3>1, <3>2
      <4>2. Fresh(activeSockets[k])
        BY <2>4, <2>6, <3>2, <4>1 DEF SettledInv, SendersCurrent
      <4>. QED
        BY <1>0, <2>1, <2>4, <4>1, <4>2 DEF Fresh
    <3>. QED
      BY <1>0, <2>1, <3>1, <3>2
  <2>7. ASSUME excuse = {}, ~event PROVE ListCurrent'
    <3>. SUFFICES ASSUME NEW k \in 1..Len(activeSockets'), writer'[activeSockets'[k]] # "first"
                  PROVE  Fresh(activeSockets[k])'
      BY DEF ListCurrent
    <3>1. k \in 1..Len(activeSockets)
      <4>1. writer'[s] = "first"
        BY <2>3 DEF PushInv, PushTypes
      <4>. QED
        BY <2>1, <2>2, <4>1
    <3>2. activeSockets[k] \in Sockets /\ writer[activeSockets[k]] # "first"
      BY <1>0, <2>1, <2>3, <3>1 DEF PushInv, PushTypes
    <3>. QED
      BY <2>1, <2>4, <2>7, <3>1, <3>2 DEF SettledInv, ListCurrent, Fresh
  <2>. QED
    BY <2>3, <2>6, <2>7 DEF SettledInv
<1>3. ASSUME NEW s \in Sockets, Disconnected(s) \/ BadMessage(s) PROVE SettledInv'
  BY <1>3, EndSettled DEF Disconnected, BadMessage
<1>4. ASSUME NEW s \in Sockets, Leave(s) \/ DeafEnds(s) PROVE SettledInv'
  <2>1. /\ UNCHANGED <<shown, event, activeSockets, writer, data, next, received, excuse>>
        /\ peer' = [peer EXCEPT ![s] = "gone"]
    BY <1>4 DEF Leave, DeafEnds, writerVars
  <2>2. /\ Sending' = Sending /\ peer' \in [Sockets -> {"here", "gone"}]
        /\ \A v \in Sockets : Fresh(v) => Fresh(v)'
    BY <2>1 DEF Sending, Fresh, SettledInv
  <2>3. excuse = {} => SendersCurrent'
    BY <1>0, <2>1, <2>2 DEF SettledInv, SendersCurrent
  <2>4. excuse = {} /\ ~event => ListCurrent'
    BY <1>0, <2>1, <2>2 DEF SettledInv, ListCurrent
  <2>. QED
    BY <2>1, <2>2, <2>3, <2>4 DEF SettledInv
<1>5. ASSUME NEW w \in Sockets, Write(w) PROVE SettledInv'
  BY <1>5, WriteSettled
<1>6. CASE UNCHANGED pushVars
  <2>1. UNCHANGED <<shown, event, activeSockets, peer, writer, data, next, received, excuse>>
    BY <1>6 DEF pushVars, socketVars, writerVars
  <2>2. Sending' = Sending /\ \A v : Fresh(v)' <=> Fresh(v)
    BY <2>1 DEF Sending, Fresh
  <2>. QED
    BY <2>1, <2>2 DEF SettledInv, SendersCurrent, ListCurrent
<1>. QED
  BY <1>1, <1>2, <1>3, <1>4, <1>5, <1>6 DEF PushNext

\* Settled, for any connections and updates: when the writers rest, every client
\* that is still there has the latest view, unless an update came into a round or
\* a socket was taken off the list under one.
THEOREM SettledCorrect == PushSpec => []Settled
<1>1. PushInit => SettledInv /\ OpenIsListed
  BY DEF PushInit, SettledInv, SendersCurrent, ListCurrent, Sending, OpenIsListed, Alive
<1>2. PushInv /\ SettledInv => Settled
  <2>. SUFFICES ASSUME PushInv, SettledInv, ~event, excuse = {}, NEW s \in Listed,
                       peer[s] = "here", writer[s] # "first"
                PROVE  received[s] = shown
    BY DEF Settled, AllPushed
  <2>1. PICK i \in 1..Len(activeSockets) : activeSockets[i] = s
    BY DEF Listed, ToSet, PushInv, PushTypes
  <2>. QED
    BY <2>1 DEF SettledInv, ListCurrent, Fresh
<1>3. PushInv /\ [PushNext]_pushVars => PushInv'
  BY PushStep
<1>4. PushTypeOK /\ PushInv /\ OpenIsListed /\ SettledInv /\ [PushNext]_pushVars => SettledInv'
  BY SettledStep
<1>5. PushSpec => []PushInv
  BY <1>3, PushInvInit, PTL DEF PushSpec
<1>6. PushSpec => []OpenIsListed
  BY <1>1, <1>5, OpenIsListedStep, PTL DEF PushSpec
<1>. QED
  BY <1>1, <1>2, <1>4, <1>5, <1>6, PushTypeCorrect, PTL DEF PushSpec
=============================================================================
