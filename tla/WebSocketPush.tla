--------------------------- MODULE WebSocketPush ---------------------------
(***************************************************************************)
(* How the merged view reaches the clients of /ws.  Every connection has   *)
(* an endpoint, which receives, and a writer; every writer that finds the  *)
(* event of an update set sends the whole view to ALL the active sockets,  *)
(* one after the other, and clears the event.                              *)
(*                                                                         *)
(* What a client asks to be written is routed as other writes are and is   *)
(* left out, and so are EDE files and views that are empty or not JSON.    *)
(***************************************************************************)
EXTENDS Naturals, FiniteSets, Sequences, SequencesExt

CONSTANTS
  MaxSockets,   \* bound: connections
  MaxUpdates    \* bound: updates of the view

ASSUME PushAssumption == MaxSockets \in Nat /\ MaxUpdates \in Nat

\* Connections in the order they are made.
Sockets == 1..MaxSockets

VARIABLES
  shown,          \* bacnet_device_dict, as the number of its update; 0 is empty
  event,          \* val_updated_event is set
  activeSockets,  \* the list
  endpoint,       \* endpoint[s]: "none", "open", "deaf" (it goes on without a writer) or "closed"
  peer,           \* peer[s]: the client is "here" or "gone"
  writer,         \* writer[s]: "none", "first", "asleep", "sending" or "ended"
  data,           \* data[s]: what that writer sends, when it does
  next,           \* next[s]: where it is in activeSockets
  received,       \* received[s]: the view the client got last
  excuse          \* history: what came between since an update that found all asleep

socketVars == <<activeSockets, endpoint, peer>>
writerVars == <<writer, data, next>>
pushVars == <<shown, event, socketVars, writerVars, received, excuse>>

Listed == ToSet(activeSockets)
Alive == {s \in Sockets : writer[s] \in {"first", "asleep", "sending"}}
Sending == {s \in Sockets : writer[s] = "sending"}

PushTypeOK ==
  /\ shown \in 0..MaxUpdates /\ event \in BOOLEAN
  /\ activeSockets \in Seq(Sockets) /\ IsInjective(activeSockets)
  /\ endpoint \in [Sockets -> {"none", "open", "deaf", "closed"}]
  /\ peer \in [Sockets -> {"here", "gone"}]
  /\ writer \in [Sockets -> {"none", "first", "asleep", "sending", "ended"}]
  /\ data \in [Sockets -> 0..MaxUpdates]
  /\ next \in [Sockets -> 1..(MaxSockets + 1)]
  /\ received \in [Sockets -> 0..MaxUpdates]
  /\ excuse \subseteq {"overtaken", "skipped"}

PushInit ==
  /\ shown = 0 /\ event = FALSE
  /\ activeSockets = <<>>
  /\ endpoint = [s \in Sockets |-> "none"]
  /\ peer = [s \in Sockets |-> "here"]
  /\ writer = [s \in Sockets |-> "none"]
  /\ data = [s \in Sockets |-> 0]
  /\ next = [s \in Sockets |-> 1]
  /\ received = [s \in Sockets |-> 0]
  /\ excuse = {}

----------------------------------------------------------------------------
(* The collector rebuilds the view.                                         *)

\* Mutant: the event is left to the first update.
UpdateQuietly ==
  /\ shown < MaxUpdates
  /\ shown' = shown + 1
  /\ event' = (event \/ shown = 0)
  /\ excuse' = IF Sending = {} THEN {} ELSE excuse \cup {"overtaken"}
  /\ UNCHANGED <<socketVars, writerVars, received>>

Update ==
  /\ shown < MaxUpdates
  /\ shown' = shown + 1
  /\ event' = TRUE
  /\ excuse' = IF Sending = {} THEN {} ELSE excuse \cup {"overtaken"}
  /\ UNCHANGED <<socketVars, writerVars, received>>

----------------------------------------------------------------------------
(* websocket_endpoint.                                                      *)

Connect(s) ==
  /\ endpoint[s] = "none"
  /\ \A t \in 1..(s - 1) : endpoint[t] # "none"
  /\ endpoint' = [endpoint EXCEPT ![s] = "open"]
  /\ activeSockets' = Append(activeSockets, s)
  /\ writer' = [writer EXCEPT ![s] = "first"]
  /\ UNCHANGED <<shown, event, peer, data, next, received, excuse>>

\* The client closes, or is lost; the endpoint will notice.
Leave(s) ==
  /\ endpoint[s] \in {"open", "deaf"} /\ peer[s] = "here"
  /\ peer' = [peer EXCEPT ![s] = "gone"]
  /\ UNCHANGED <<shown, event, activeSockets, endpoint, writerVars, received, excuse>>

\* A writer that sends nothing.
Rest(w, how) ==
  /\ writer' = [writer EXCEPT ![w] = how]
  /\ data' = [data EXCEPT ![w] = 0]
  /\ next' = [next EXCEPT ![w] = 1]

\* Writers that are past s in the list will miss the one behind.
PastIt(s) == \E w \in Sending \ {s}, i \in 1..Len(activeSockets) :
               activeSockets[i] = s /\ i < next[w]

\* The writer is cancelled, and the socket taken off the list.
EndWriter(s) ==
  /\ Rest(s, "ended")
  /\ \E i \in 1..Len(activeSockets) :
       activeSockets[i] = s /\ activeSockets' = RemoveAt(activeSockets, i)
  /\ excuse' = IF PastIt(s) THEN excuse \cup {"skipped"} ELSE excuse

Disconnected(s) ==
  /\ endpoint[s] = "open" /\ peer[s] = "gone"
  /\ endpoint' = [endpoint EXCEPT ![s] = "closed"]
  /\ EndWriter(s)
  /\ UNCHANGED <<shown, event, peer, received>>

\* A message that raises what the endpoint does not expect: it goes on to
\* receive, but nothing is sent to the client any more.
BadMessage(s) ==
  /\ endpoint[s] = "open" /\ peer[s] = "here"
  /\ endpoint' = [endpoint EXCEPT ![s] = "deaf"]
  /\ EndWriter(s)
  /\ UNCHANGED <<shown, event, peer, received>>

\* The next exception finds the socket off the list and ends the endpoint.
DeafEnds(s) ==
  /\ endpoint[s] = "deaf"
  /\ endpoint' = [endpoint EXCEPT ![s] = "closed"]
  /\ peer' = [peer EXCEPT ![s] = "gone"]
  /\ UNCHANGED <<shown, event, activeSockets, writerVars, received, excuse>>

----------------------------------------------------------------------------
(* websocket_writer.                                                        *)

\* send_json of d to s, by writer w: the client has it, or is gone.
Delivered(s, d) == received' = IF peer[s] = "here" THEN [received EXCEPT ![s] = d] ELSE received

\* A client that is gone may make the writer raise, which is its end.
Raised(w, s) ==
  /\ peer[s] = "gone"
  /\ Rest(w, "ended")
  /\ UNCHANGED <<event, received>>

\* The view goes to the new client.
First(w) ==
  /\ writer[w] = "first"
  /\ \/ Raised(w, w)
     \/ /\ Delivered(w, shown)
        /\ Rest(w, "asleep")
        /\ UNCHANGED event
  /\ UNCHANGED <<shown, socketVars, excuse>>

\* Mutant: the view is sent to the client of the writer only.
SendOwn(w, i, d) ==
  \/ Raised(w, w)
  \/ /\ Delivered(w, d)
     /\ writer' = [writer EXCEPT ![w] = "sending"]
     /\ data' = [data EXCEPT ![w] = d]
     /\ next' = [next EXCEPT ![w] = Len(activeSockets) + 1]
     /\ UNCHANGED event

\* The writer awaits send_json of d to the i-th socket.
Send(w, i, d) ==
  \/ Raised(w, activeSockets[i])
  \/ /\ Delivered(activeSockets[i], d)
     /\ writer' = [writer EXCEPT ![w] = "sending"]
     /\ data' = [data EXCEPT ![w] = d]
     /\ next' = [next EXCEPT ![w] = i + 1]
     /\ UNCHANGED event

\* Mutant: what is sent was encoded before the loop.
WakeStale(w) ==
  /\ writer[w] = "asleep" /\ event
  /\ Send(w, 1, 0)
  /\ UNCHANGED <<shown, socketVars, excuse>>

\* It finds the event set.
Wake(w) ==
  /\ writer[w] = "asleep" /\ event
  /\ Send(w, 1, shown)
  /\ UNCHANGED <<shown, socketVars, excuse>>

SendNext(w) ==
  /\ writer[w] = "sending" /\ next[w] <= Len(activeSockets)
  /\ Send(w, next[w], data[w])
  /\ UNCHANGED <<shown, socketVars, excuse>>

\* All have been sent to, and the event is cleared, set again or not.
Clear(w) ==
  /\ writer[w] = "sending" /\ next[w] > Len(activeSockets)
  /\ Rest(w, "asleep")
  /\ event' = FALSE
  /\ UNCHANGED <<shown, socketVars, received, excuse>>

----------------------------------------------------------------------------
Write(w) == First(w) \/ Wake(w) \/ SendNext(w) \/ Clear(w)

PushNext ==
  \/ Update
  \/ \E s \in Sockets : \/ Connect(s) \/ Leave(s) \/ Disconnected(s)
                        \/ BadMessage(s) \/ DeafEnds(s) \/ Write(s)

PushSpec == PushInit /\ [][PushNext]_pushVars

\* The event loop runs some writer that can go on, or tells an endpoint that its
\* client is gone.  No step but these is asked for: between two updates there is
\* an end of them.
PushFairness == WF_pushVars(\E s \in Sockets : Write(s) \/ Disconnected(s))
PushFairSpec == PushSpec /\ PushFairness

----------------------------------------------------------------------------
(* Properties.                                                              *)

\* A client sees the view go back in one way only: an update came while a writer
\* was under way, another writer has sent it to the client already, and now the
\* first comes to that client with what it had encoded before.
GoesBackOnlyIfOvertaken ==
  [][\A s \in Sockets : received'[s] < received[s] =>
       /\ "overtaken" \in excuse
       /\ \E w \in Sending :
            /\ received'[s] = data[w]
            /\ \E t \in Sockets \ {w} : writer[t] \notin {"none", "first"}]_pushVars

\* Every client on the list that has had its first view has the latest one.
AllPushed == \A s \in Listed : peer[s] = "here" /\ writer[s] # "first" => received[s] = shown

\* When the event is clear and nobody sends, there is nothing left to be pushed,
\* but for two excuses: an update that came while a writer awaited a
\* send, whose event that writer clears, and a socket taken off the list under
\* the loop of a writer, which then leaves out the next one.  An update that finds
\* all writers asleep makes up for either.
Settled == ~event /\ Sending = {} /\ excuse = {} => AllPushed

\* A writer ends with its endpoint, and while it works its socket is listed.
WritersAreListed == \A s \in Sockets : s \in Alive => s \in Listed /\ endpoint[s] = "open"

\* The clients that have not got the latest update.
Behind == {s \in Listed : peer[s] = "here" /\ received[s] < shown}

\* Every update reaches every client that stays, unless excused or no writer is
\* left: one may end for a client that is not its own.
UpdatesArrive == Behind # {} ~> (Behind = {} \/ excuse # {} \/ Alive = {})
=============================================================================
