--------------------------- MODULE HaWriteBridge ---------------------------
(***************************************************************************)
(* A BACnet client writes the presentValue of an object that mirrors a     *)
(* Home Assistant entity.  do_WritePropertyRequest (one coroutine a write) *)
(* hands the write to ObjectManager.data_write_task and waits for the      *)
(* outcome, which decides between SimpleAck and Reject.                    *)
(*                                                                         *)
(* Both directions share ONE asyncio.Queue, write_to_api_queue, and one    *)
(* asyncio.Event, write_to_api.  Everything runs on one event loop: an     *)
(* action is what runs between two awaits that really suspend.  A put on   *)
(* the unbounded queue, a get from a non-empty one and the blocking HTTP   *)
(* calls of `requests' do not suspend.                                     *)
(*                                                                         *)
(* Only the branch for a presentValue in service is modelled; the others   *)
(* answer at once and touch neither queue nor event.                       *)
(***************************************************************************)
EXTENDS Naturals, Sequences, FiniteSets

CONSTANTS
  Writes,     \* WriteProperty requests, each with a handler of its own
  MaxOpen,    \* bound: clients that write at the same time
  MayFail     \* whether a call to Home Assistant may raise or not be answered

ASSUME BridgeAssumption ==
  /\ MaxOpen \in Nat \ {0} /\ MayFail \in BOOLEAN
  /\ Writes \cap BOOLEAN = {} /\ IsFiniteSet(Writes)

VARIABLES
  clients,    \* how many clients write at the same time; it never changes
  phase,      \* phase[w]: where the handler of w is
  event,      \* write_to_api is set
  queue,      \* write_to_api_queue: requests, and True or False for responses
  writer,     \* data_write_task: "running", or "dead" of an exception
  outcome     \* outcome[w]: what Home Assistant did with w, "none" before

vars == <<clients, phase, event, queue, writer, outcome>>

Phases == {"new", "spinning", "getting", "acked", "rejected"}
Outcomes == {"none", "posted", "refused"}
Open == {w \in Writes : phase[w] \in {"spinning", "getting"}}

TypeOK ==
  /\ clients \in 1..MaxOpen
  /\ phase \in [Writes -> Phases]
  /\ event \in BOOLEAN
  /\ queue \in Seq(Writes \cup BOOLEAN) /\ Len(queue) <= Cardinality(Writes)
  /\ writer \in {"running", "dead"}
  /\ outcome \in [Writes -> Outcomes]

Init ==
  /\ clients \in 1..MaxOpen
  /\ phase = [w \in Writes |-> "new"]
  /\ event = FALSE
  /\ queue = <<>>
  /\ writer = "running"
  /\ outcome = [w \in Writes |-> "none"]

----------------------------------------------------------------------------
(* do_WritePropertyRequest.                                                 *)

PutRequest(w) ==
  /\ phase[w] = "new"
  /\ Cardinality(Open) < clients
  /\ queue' = Append(queue, w)
  /\ event' = TRUE
  /\ phase' = [phase EXCEPT ![w] = "spinning"]
  /\ UNCHANGED <<clients, writer, outcome>>

\* What the handler makes of the item it gets: anything but False is truthy,
\* another handler's request included.
Verdict(item) == IF item = FALSE THEN "rejected" ELSE "acked"

\* Mutant: the handler does not wait for the event to be cleared.
TakeAnswerAtOnce(w) ==
  /\ phase[w] = "spinning"
  /\ queue # <<>>
  /\ phase' = [phase EXCEPT ![w] = Verdict(Head(queue))]
  /\ queue' = Tail(queue)
  /\ UNCHANGED <<clients, event, writer, outcome>>

\* It wakes from sleep(0.1), finds the event cleared and an item in the queue;
\* or it was suspended in get() and an item has come.
TakeAnswer(w) ==
  /\ \/ phase[w] = "spinning" /\ ~event
     \/ phase[w] = "getting"
  /\ queue # <<>>
  /\ phase' = [phase EXCEPT ![w] = Verdict(Head(queue))]
  /\ queue' = Tail(queue)
  /\ UNCHANGED <<clients, event, writer, outcome>>

\* It finds the event cleared and nothing in the queue: get() suspends.
AwaitItem(w) ==
  /\ phase[w] = "spinning"
  /\ ~event
  /\ queue = <<>>
  /\ phase' = [phase EXCEPT ![w] = "getting"]
  /\ UNCHANGED <<clients, event, queue, writer, outcome>>

----------------------------------------------------------------------------
(* data_write_task.  From the event to the next wait() it never suspends.   *)

Called == writer = "running" /\ event /\ queue # <<>>

\* It takes a request, posts it, clears the event, reads the entity back and
\* puts whether Home Assistant accepted: answer[ok] is appended to the queue.
ServeWith(answer, eventAfter) ==
  /\ Called
  /\ Head(queue) \in Writes
  /\ \E ok \in BOOLEAN :
       /\ outcome' = [outcome EXCEPT ![Head(queue)] = IF ok THEN "posted" ELSE "refused"]
       /\ queue' = Tail(queue) \o answer[ok]
  /\ event' = eventAfter
  /\ UNCHANGED <<clients, phase, writer>>

\* Mutants: the event is left set; a refusal is not reported; True and False are
\* swapped.
ServeKeepingEvent == ServeWith([ok \in BOOLEAN |-> <<ok>>], event)
ServeSilently == ServeWith([ok \in BOOLEAN |-> IF ok THEN <<ok>> ELSE <<>>], FALSE)
ServeSwapped == ServeWith([ok \in BOOLEAN |-> <<~ok>>], FALSE)
Serve == ServeWith([ok \in BOOLEAN |-> <<ok>>], FALSE)

\* It takes a response for a request and cannot unpack it.  Nothing catches
\* the TypeError: the task ends, the event stays set.
ServeResponse ==
  /\ Called
  /\ Head(queue) \in BOOLEAN
  /\ queue' = Tail(queue)
  /\ writer' = "dead"
  /\ UNCHANGED <<clients, phase, event, outcome>>

\* The object is none of those with a writable entity, or the call to Home
\* Assistant raises, whether it took the write or not: the task ends before it
\* clears the event.
PostRaises ==
  /\ MayFail
  /\ Called
  /\ Head(queue) \in Writes
  /\ \E reached \in {"none", "posted"} : outcome' = [outcome EXCEPT ![Head(queue)] = reached]
  /\ queue' = Tail(queue)
  /\ writer' = "dead"
  /\ UNCHANGED <<clients, phase, event>>

\* The entity cannot be read back: update_object(False) raises, after the
\* event was cleared and before the response is put.
FetchFails ==
  /\ MayFail
  /\ Called
  /\ Head(queue) \in Writes
  /\ \E done \in {"posted", "refused"} : outcome' = [outcome EXCEPT ![Head(queue)] = done]
  /\ queue' = Tail(queue)
  /\ event' = FALSE
  /\ writer' = "dead"
  /\ UNCHANGED <<clients, phase>>

----------------------------------------------------------------------------
DataWriteTask == Serve \/ ServeResponse \/ PostRaises \/ FetchFails
Handler(w) == TakeAnswer(w) \/ AwaitItem(w)

Next ==
  \/ \E w \in Writes : PutRequest(w) \/ Handler(w)
  \/ DataWriteTask

Spec == Init /\ [][Next]_vars

\* The event loop runs every coroutine that is ready.  A handler that polls the
\* event may miss it cleared if it is set again in between: strong fairness
\* would be too much to ask.
Fairness ==
  /\ \A w \in Writes : WF_vars(Handler(w))
  /\ WF_vars(DataWriteTask)

FairSpec == Spec /\ Fairness

----------------------------------------------------------------------------
(* Properties.                                                              *)

\* The client is told what happened to its own write: an acknowledged write
\* reached Home Assistant and a rejected one was refused by it.
HonestAnswer ==
  \A w \in Writes : /\ phase[w] = "acked" => outcome[w] = "posted"
                    /\ phase[w] = "rejected" => outcome[w] = "refused"

\* That holds as long as one client writes at a time.
HonestToOneClient == clients = 1 => HonestAnswer

\* However handlers interleave, the shared queue holds one item for each of
\* them while the task lives: none takes two, and get() never suspends it.
OneItemPerHandler ==
  writer = "running" => /\ Len(queue) = Cardinality(Open)
                        /\ \A w \in Writes : phase[w] # "getting"

\* There are never more rejections than refusals by Home Assistant, though a
\* rejection may go to another client than the one that was refused.
RejectionsAreRefusals ==
  Cardinality({w \in Writes : phase[w] = "rejected"})
    <= Cardinality({w \in Writes : outcome[w] = "refused"})

\* With one client at a time data_write_task never takes a response of its own
\* for a request, which would be its end.
RequestsOnly == clients = 1 /\ Called => Head(queue) \in Writes

\* With one client at a time every write is answered, unless a call to Home
\* Assistant was the end of the task.
EveryWriteAnswered ==
  \A w \in Writes : (clients = 1 /\ phase[w] = "spinning")
                       ~> (phase[w] \in {"acked", "rejected"} \/ (MayFail /\ writer = "dead"))
=============================================================================
