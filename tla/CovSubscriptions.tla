-------------------------- MODULE CovSubscriptions --------------------------
(***************************************************************************)
(* The change-of-value subscriptions of one worker.  Each is a task,       *)
(* subscription_task, and the list subscription_tasks is the only record   *)
(* of them: what is not in it cannot be cancelled, what is in it is not    *)
(* subscribed again, and the worker ends when it is empty.                 *)
(*                                                                         *)
(* Creators run concurrently on the worker's event loop: config_to_tasks   *)
(* of the first discovery and of I-Am handlers, and the command listener.  *)
(* An action is what a coroutine does between two awaits that suspend.     *)
(* Leaving the context manager of bacpypes3 is taken not to suspend, and   *)
(* an ErrorPDU, RejectPDU or AbortPDU to be an ErrorRejectAbortNack.       *)
(***************************************************************************)
EXTENDS Naturals, Sequences, FiniteSets

CONSTANTS
  Items,        \* objects of devices
  Config,       \* the sequence of items whose configuration asks for CoV
  Covers,       \* Covers[i]: items whose name contains that of i, i included
  Passes,       \* handlers that run config_to_tasks, one after the other each
  MaxRounds,    \* bound: runs of config_to_tasks of each
  MaxTasks,     \* bound: subscription tasks ever created
  Requests,     \* what clients of the API ask: "subscribe", "unsubscribe", "delete"
  MaxRequests,  \* bound: requests
  ClientNames,  \* the names clients subscribe to
  MayFail,      \* whether devices may reject, vanish or not be known
  Listener,     \* the command listener, a creator
  NoName

ASSUME CovAssumption ==
  /\ Config \in Seq(Items)
  /\ Covers \in [Items -> SUBSET Items] /\ \A i \in Items : i \in Covers[i]
  /\ MaxRounds \in Nat /\ MaxTasks \in Nat /\ MaxRequests \in Nat
  /\ Requests \subseteq {"subscribe", "unsubscribe", "delete"}
  /\ MayFail \in BOOLEAN /\ Listener \notin Passes

Names == [item : Items, confirmed : BOOLEAN]
ASSUME NameAssumption == NoName \notin Names /\ ClientNames \subseteq Names

VARIABLES
  phase,               \* phase[t]: where task t is
  name,                \* name[t]: its name, told apart by object and notifications
  cancelled,           \* cancelled[t]: cancel() was called, and t has not run since
  subscription_tasks,  \* the list
  making,              \* making[c]: the task creator c has not yet put in the list, or 0
  at,                  \* at[p]: index into Config of the item pass p looks at next
  rounds,              \* rounds[p]: runs pass p has begun
  requests,            \* requests handled
  main,                \* _worker_main: "running", "stopping", "ending", "closed"
  raced                \* history: names of which two passes were making a task at once

covVars == <<phase, name, cancelled, subscription_tasks, making, at, rounds, requests, main>>
vars == <<covVars, raced>>

Tasks == 1..MaxTasks
Creators == Passes \cup {Listener}
Phases == {"unused", "entering", "live", "cancelling", "failing", "done"}
Unfinished(t) == phase[t] \in {"entering", "live", "cancelling", "failing"}
Listed == {subscription_tasks[i] : i \in 1..Len(subscription_tasks)}

TypeOK ==
  /\ phase \in [Tasks -> Phases]
  /\ name \in [Tasks -> Names \cup {NoName}]
  /\ \A t \in Tasks : phase[t] # "unused" => name[t] \in Names
  /\ cancelled \in [Tasks -> BOOLEAN]
  /\ subscription_tasks \in Seq(Tasks)
  /\ \A i, j \in 1..Len(subscription_tasks) :
       subscription_tasks[i] = subscription_tasks[j] => i = j
  /\ making \in [Creators -> Tasks \cup {0}]
  /\ at \in [Passes -> 1..(Len(Config) + 1)]
  /\ rounds \in [Passes -> 0..MaxRounds]
  /\ requests \in 0..MaxRequests
  /\ main \in {"running", "stopping", "ending", "closed"}
  /\ raced \subseteq Names

\* No I-Am has been handled yet: every pass is past the end of its list.
Init ==
  /\ phase = [t \in Tasks |-> "unused"]
  /\ name = [t \in Tasks |-> NoName]
  /\ cancelled = [t \in Tasks |-> FALSE]
  /\ subscription_tasks = <<>>
  /\ making = [c \in Creators |-> 0]
  /\ at = [p \in Passes |-> Len(Config) + 1]
  /\ rounds = [p \in Passes |-> 0]
  /\ requests = 0
  /\ main = "running"
  /\ raced = {}

----------------------------------------------------------------------------
(* create_subscription_task.                                                *)

\* The new task begins before its creator, who sleeps first, goes on: it sends
\* SubscribeCOV, or, if the cache has no address for the device, raises before
\* its try and is done.
Create(c, n, start) ==
  \E t \in Tasks :
    /\ phase[t] = "unused" /\ \A u \in 1..(t - 1) : phase[u] # "unused"
    /\ phase' = [phase EXCEPT ![t] = start]
    /\ name' = [name EXCEPT ![t] = n]
    /\ making' = [making EXCEPT ![c] = t]

\* After its sleep the creator puts the task in the list, finished or not.
AppendTask(c) ==
  /\ making[c] # 0
  /\ subscription_tasks' = Append(subscription_tasks, making[c])
  /\ making' = [making EXCEPT ![c] = 0]
  /\ UNCHANGED <<phase, name, cancelled, at, rounds, requests, main>>

----------------------------------------------------------------------------
(* config_to_tasks, its create_cov_tasks.                                   *)

ConfigName(k) == [item |-> Config[k], confirmed |-> TRUE]
task_in_cov_tasklist(n) == \E t \in Listed : name[t] = n

\* Discovery has configured the device, or an I-Am of it has come.
BeginPass(p) ==
  /\ at[p] > Len(Config) /\ making[p] = 0
  /\ rounds[p] < MaxRounds
  /\ rounds' = [rounds EXCEPT ![p] = @ + 1]
  /\ at' = [at EXCEPT ![p] = 1]
  /\ UNCHANGED <<phase, name, cancelled, subscription_tasks, making, requests, main>>

\* Mutant: items are not looked up in the list.
PassCreatesAlways(p) ==
  /\ making[p] = 0
  /\ at[p] <= Len(Config)
  /\ Create(p, ConfigName(at[p]), "entering")
  /\ at' = [at EXCEPT ![p] = @ + 1]
  /\ UNCHANGED <<cancelled, subscription_tasks, rounds, requests, main>>

\* It skips items that have a task and creates one for the first that has none.
PassCreates(p) ==
  /\ making[p] = 0
  /\ \E k \in at[p]..Len(Config) :
       /\ \A j \in at[p]..(k - 1) : task_in_cov_tasklist(ConfigName(j))
       /\ ~task_in_cov_tasklist(ConfigName(k))
       /\ Create(p, ConfigName(k), "entering")
       /\ at' = [at EXCEPT ![p] = k + 1]
  /\ UNCHANGED <<cancelled, subscription_tasks, rounds, requests, main>>

\* All the items left have a task.
PassEnds(p) ==
  /\ making[p] = 0
  /\ at[p] <= Len(Config)
  /\ \A j \in at[p]..Len(Config) : task_in_cov_tasklist(ConfigName(j))
  /\ at' = [at EXCEPT ![p] = Len(Config) + 1]
  /\ UNCHANGED <<phase, name, cancelled, subscription_tasks, making, rounds, requests, main>>

----------------------------------------------------------------------------
(* subscription_task.                                                       *)

\* for task in list: if its name is n: list.pop(...).  A pop makes the iteration
\* skip the next entry: of a run of entries with that name every other one goes.
\* of[t] is the name of t.
IsPopped(l, of, n, i) ==
  \E s \in 1..i : /\ \A j \in s..i : of[l[j]] = n
                  /\ s = 1 \/ of[l[s - 1]] # n
                  /\ (i - s) % 2 = 0

\* The entries at the places kept, in their order.
Only(l, kept) ==
  [n \in 1..Cardinality(kept) |->
     l[CHOOSE k \in kept : Cardinality({j \in kept : j <= k}) = n]]

PopMatching(l, of, n) == Only(l, {i \in 1..Len(l) : ~IsPopped(l, of, n, i)})

\* Mutant: entries of the object go whatever their notifications are.
EndTaskByItem(t) ==
  /\ phase' = [phase EXCEPT ![t] = "done"]
  /\ subscription_tasks' = SelectSeq(subscription_tasks, LAMBDA u : name[u].item # name[t].item)

\* The task ends and takes the entries with its name out of the list.
EndTask(t) ==
  /\ phase' = [phase EXCEPT ![t] = "done"]
  /\ subscription_tasks' = PopMatching(subscription_tasks, name, name[t])

\* The device confirms the subscription.
Confirmed(t) ==
  /\ phase[t] = "entering" /\ ~cancelled[t]
  /\ phase' = [phase EXCEPT ![t] = "live"]
  /\ UNCHANGED <<name, cancelled, subscription_tasks, making, at, rounds, requests, main>>

\* The subscription, or later its refresh, is rejected or not answered.
Rejected(t) ==
  /\ MayFail
  /\ phase[t] \in {"entering", "live"} /\ ~cancelled[t]
  /\ EndTask(t)
  /\ UNCHANGED <<name, cancelled, making, at, rounds, requests, main>>

\* Any other exception while subscribed: the task asks the device to end it.
Fails(t) ==
  /\ MayFail
  /\ phase[t] = "live" /\ ~cancelled[t]
  /\ phase' = [phase EXCEPT ![t] = "failing"]
  /\ UNCHANGED <<name, cancelled, subscription_tasks, making, at, rounds, requests, main>>

\* Mutant: the entry goes before the device has answered.
CancelledPopsFirst(t) ==
  /\ cancelled[t]
  /\ cancelled' = [cancelled EXCEPT ![t] = FALSE]
  /\ phase' = [phase EXCEPT ![t] = IF @ = "live" THEN "cancelling" ELSE "done"]
  /\ subscription_tasks' = PopMatching(subscription_tasks, name, name[t])
  /\ UNCHANGED <<name, making, at, rounds, requests, main>>

\* CancelledError.  A subscribed task asks the device to end the subscription;
\* one that is not yet has nothing to ask; one that is asking already is hit
\* outside its try and leaves the list as it is.
Cancelled(t) ==
  /\ cancelled[t]
  /\ cancelled' = [cancelled EXCEPT ![t] = FALSE]
  /\ \/ phase[t] = "entering" /\ EndTask(t)
     \/ /\ phase[t] = "live"
        /\ phase' = [phase EXCEPT ![t] = "cancelling"]
        /\ UNCHANGED subscription_tasks
     \/ /\ phase[t] \in {"cancelling", "failing"}
        /\ phase' = [phase EXCEPT ![t] = "done"]
        /\ UNCHANGED subscription_tasks
  /\ UNCHANGED <<name, making, at, rounds, requests, main>>

\* The device confirms that the subscription has ended.
Unsubscribed(t) ==
  /\ phase[t] \in {"cancelling", "failing"} /\ ~cancelled[t]
  /\ EndTask(t)
  /\ UNCHANGED <<name, cancelled, making, at, rounds, requests, main>>

\* It rejects that or does not answer: the request raises inside the except
\* clause, and the list is left as it is.
UnsubscribeRaises(t) ==
  /\ MayFail
  /\ phase[t] \in {"cancelling", "failing"} /\ ~cancelled[t]
  /\ phase' = [phase EXCEPT ![t] = "done"]
  /\ UNCHANGED <<name, cancelled, subscription_tasks, making, at, rounds, requests, main>>

----------------------------------------------------------------------------
(* Requests of clients, as the command listener gets them.                  *)

Request(kind) ==
  /\ main = "running" /\ making[Listener] = 0
  /\ kind \in Requests
  /\ requests < MaxRequests
  /\ requests' = requests + 1

\* SUBSCRIBE.  The worker does not look the name up; POST /apiv2/cov does, in
\* the list of SupervisorProxy, which is always empty.
Subscribe(n) ==
  /\ Request("subscribe")
  /\ \E start \in {"entering"} \cup (IF MayFail THEN {"done"} ELSE {}) : Create(Listener, n, start)
  /\ UNCHANGED <<cancelled, subscription_tasks, at, rounds, main>>

\* UNSUBSCRIBE: it cancels the first task in the list whose name contains that
\* of the object.  cancel() of a finished task does nothing.
Unsubscribe(i) ==
  /\ Request("unsubscribe")
  /\ LET l == subscription_tasks
         matches == {k \in 1..Len(l) : name[l[k]].item \in Covers[i]}
     IN  \/ matches = {} /\ UNCHANGED cancelled
         \/ \E k \in matches : /\ \A j \in matches : k <= j
                               /\ cancelled' = [cancelled EXCEPT ![l[k]] = Unfinished(l[k])]
  /\ UNCHANGED <<phase, name, subscription_tasks, making, at, rounds, main>>

\* DELETE /apiv2/cov looks in the list of SupervisorProxy: it answers "no
\* subscription found!" and sends no command.
Delete(i) ==
  /\ Request("delete")
  /\ UNCHANGED <<phase, name, cancelled, subscription_tasks, making, at, rounds, main>>

----------------------------------------------------------------------------
(* The end of the worker.                                                   *)

\* SHUTDOWN ends the listener.
Shutdown ==
  /\ main = "running" /\ making[Listener] = 0
  /\ main' = "stopping"
  /\ UNCHANGED <<phase, name, cancelled, subscription_tasks, making, at, rounds, requests>>

\* Mutant: only tasks that are subscribed are cancelled.
CancelLive ==
  /\ main = "stopping"
  /\ main' = "ending"
  /\ cancelled' = [t \in Tasks |-> cancelled[t] \/ (t \in Listed /\ phase[t] = "live")]
  /\ UNCHANGED <<phase, name, subscription_tasks, making, at, rounds, requests>>

\* end_subscription_tasks cancels what is in the list ...
CancelAll ==
  /\ main = "stopping"
  /\ main' = "ending"
  /\ cancelled' = [t \in Tasks |-> cancelled[t] \/ (t \in Listed /\ Unfinished(t))]
  /\ UNCHANGED <<phase, name, subscription_tasks, making, at, rounds, requests>>

\* ... and waits until the list is empty.
Close ==
  /\ main = "ending"
  /\ subscription_tasks = <<>>
  /\ main' = "closed"
  /\ UNCHANGED <<phase, name, cancelled, subscription_tasks, making, at, rounds, requests>>

----------------------------------------------------------------------------
Pass(p) == PassCreates(p) \/ PassEnds(p)
TaskRuns(t) == Cancelled(t) \/ Unsubscribed(t) \/ UnsubscribeRaises(t)
Device(t) == Confirmed(t) \/ Rejected(t) \/ Fails(t)
Answered(t) == phase[t] = "entering" /\ (Confirmed(t) \/ Rejected(t))
Client == \/ \E n \in ClientNames : Subscribe(n)
          \/ \E i \in Items : Unsubscribe(i) \/ Delete(i)
End == CancelAll \/ Close

\* A pass begins to make a task of the name n while another is making one, which
\* is not in the list yet.
Races(n) ==
  \E p, q \in Passes : /\ making[p] = 0 /\ making'[p] # 0 /\ name'[making'[p]] = n
                      /\ making[q] # 0 /\ name[making[q]] = n

Next ==
  /\ main # "closed"
  /\ \/ \E p \in Passes : BeginPass(p) \/ Pass(p)
     \/ \E c \in Creators : AppendTask(c)
     \/ \E t \in Tasks : TaskRuns(t) \/ Device(t)
     \/ Client \/ Shutdown \/ End
  /\ raced' = raced \cup {n \in Names : Races(n)}

Spec == Init /\ [][Next]_vars

\* The event loop runs what is ready, and a request to a device ends with its
\* answer or the timeout of the APDU.  Nothing obliges clients or devices to
\* ask for anything, or the worker to be stopped.
Fairness ==
  /\ \A p \in Passes : WF_covVars(Pass(p))
  /\ \A c \in Creators : WF_covVars(AppendTask(c))
  /\ \A t \in Tasks : WF_covVars(TaskRuns(t)) /\ WF_covVars(Answered(t))
  /\ WF_covVars(End)

FairSpec == Spec /\ Fairness

----------------------------------------------------------------------------
(* Properties.                                                              *)

\* What only the configuration subscribes, in passes that never raced for it.
\* (Clients may subscribe what they like as often as they like.)
Managed == Names \ (ClientNames \cup raced)

\* However passes overlap, they subscribe an object once, no two tasks of its name
\* at the same time, unless two of them raced for it: the second looked at the list
\* while the first was between the creation of its task and the append.
OneTaskPerName ==
  \A t, u \in Tasks :
    Unfinished(t) /\ Unfinished(u) /\ name[t] = name[u] /\ name[t] \in Managed => t = u

\* Such a task can be found until it has finished: it is in the list, or its
\* creator is about to put it there.  What is not found is never cancelled.
UnfinishedIsListed ==
  \A t \in Tasks :
    Unfinished(t) /\ name[t] \in Managed
      => t \in Listed \/ \E c \in Creators : making[c] = t

\* However creators and ends of tasks interleave, an entry only leaves the list
\* when a task of that very name ends.
OnlyOwnEntries ==
  [][\A t \in Listed \ Listed' :
       \E u \in Tasks : name[u] = name[t] /\ phase[u] # "done" /\ phase'[u] = "done"]_vars

\* If the worker is told to stop when no pass runs or will run, it ends, unless
\* an entry of a finished task was left in the list.
Quiet == \A p \in Passes : at[p] > Len(Config) /\ making[p] = 0 /\ rounds[p] = MaxRounds
EndsUnlessBlocked ==
  (main = "stopping" /\ Quiet) ~> (main = "closed" \/ \E t \in Listed : phase[t] = "done")

\* When a pass, started by an I-Am, is through, the items it had left have a
\* task that works at their subscription.
PassReestablishes ==
  [][\A p \in Passes : PassEnds(p) =>
       \A k \in at[p]..Len(Config) :
         \E t \in Tasks : name[t] = ConfigName(k) /\ Unfinished(t)]_vars
=============================================================================
