---------------------------- MODULE CommandRpc ----------------------------
(***************************************************************************)
(* Request/response between the supervisor process and one worker process  *)
(* per network interface, over two multiprocessing queues per worker.      *)
(*                                                                         *)
(*   supervisor (one asyncio loop)             worker w (a process)        *)
(*   send_and_wait, route_*, broadcast --cmdQueue[w]--> _command_listener  *)
(*   data_collector                  <--dataQueue[w]--- its replies        *)
(*                                                                         *)
(* A command that carries a request id is identified with the call that    *)
(* made it (an element of Requests); one without an id with an element of  *)
(* Posts.  Payloads are abstracted to "the command of this call, carried   *)
(* out or not".  Dictionary updates, which share dataQueue, are the        *)
(* subject of DeviceRouting; the other messages are only logged.           *)
(***************************************************************************)
EXTENDS Naturals, Sequences

CONSTANTS
  Workers,              \* names of the resolved interfaces
  Requests,             \* commands sent by send_and_wait, by request id
  Posts,                \* commands sent without a request id
  Shutdown,             \* the SHUTDOWN command
  None                  \* Python's None

ASSUME CommandsAssumption ==
  /\ Requests \cap Posts = {}
  /\ Shutdown \notin Requests \cup Posts
  /\ None \notin Requests \cup Posts \cup {Shutdown}

Commands == Requests \cup Posts \cup {Shutdown}

\* The payload of a reply: whose command produced it, a result or an error.
Answer == [req : Requests, ok : BOOLEAN]

ASSUME NoAnswerAssumption == None \notin Answer

Response == [id : Requests, answer : Answer]

VARIABLES
  supervisor,   \* "running", "joining" (in shutdown_workers) or "exited"
  call,         \* call[r]: "new", "waiting", or what send_and_wait returned
  pending,      \* the keys of Supervisor._pending_responses
  future,       \* future[r]: the result of the future of call r, or None
  isAlive,      \* isAlive[w]: WorkerHandle.is_alive
  cmdQueue,     \* cmdQueue[w]: commands put and not yet taken
  dataQueue,    \* dataQueue[w]: responses put and not yet collected
  proc,         \* proc[w]: "starting", "listening", "closing" or "down"
  current,      \* current[w]: the command being handled, or None
  acted,        \* acted[w]: the current command has been carried out
  executed,     \* history: how often the command of call r was carried out
  sent,         \* history: every command put on cmdQueue[w], in order
  handled       \* history: every command w has finished, in order

supervisorVars == <<supervisor, call, pending, future, isAlive>>
workerVars == <<proc, current, acted>>
vars == <<supervisorVars, workerVars, cmdQueue, dataQueue, executed, sent, handled>>

Outcomes == {"ok", "error", "timeout", "cancelled"}

TypeOK ==
  /\ supervisor \in {"running", "joining", "exited"}
  /\ call \in [Requests -> {"new", "waiting"} \cup Outcomes]
  /\ pending \subseteq Requests
  /\ future \in [Requests -> Answer \cup {None}]
  /\ isAlive \in [Workers -> BOOLEAN]
  /\ cmdQueue \in [Workers -> Seq(Commands)]
  /\ dataQueue \in [Workers -> Seq(Response)]
  /\ proc \in [Workers -> {"starting", "listening", "closing", "down"}]
  /\ current \in [Workers -> Requests \cup Posts \cup {None}]
  /\ acted \in [Workers -> BOOLEAN]
  /\ executed \in [Requests -> Nat]
  /\ sent \in [Workers -> Seq(Commands)]
  /\ handled \in [Workers -> Seq(Commands)]

\* Supervisor.spawn_workers has run; no worker has reached its listener yet.
Init ==
  /\ supervisor = "running"
  /\ call = [r \in Requests |-> "new"]
  /\ pending = {}
  /\ future = [r \in Requests |-> None]
  /\ isAlive = [w \in Workers |-> TRUE]
  /\ cmdQueue = [w \in Workers |-> <<>>]
  /\ dataQueue = [w \in Workers |-> <<>>]
  /\ proc = [w \in Workers |-> "starting"]
  /\ current = [w \in Workers |-> None]
  /\ acted = [w \in Workers |-> FALSE]
  /\ executed = [r \in Requests |-> 0]
  /\ sent = [w \in Workers |-> <<>>]
  /\ handled = [w \in Workers |-> <<>>]

----------------------------------------------------------------------------
(* The supervisor's event loop.                                            *)

PutTo(targets, cmd) ==
  /\ cmdQueue' = [w \in Workers |->
                    IF w \in targets THEN Append(cmdQueue[w], cmd) ELSE cmdQueue[w]]
  /\ sent' = [w \in Workers |->
                    IF w \in targets THEN Append(sent[w], cmd) ELSE sent[w]]

\* Fault: calls are still accepted while the workers are being joined.
SendWhileJoining(r, w) ==
  /\ supervisor # "exited"
  /\ call[r] = "new"
  /\ call' = [call EXCEPT ![r] = "waiting"]
  /\ pending' = pending \cup {r}
  /\ PutTo({w}, r)
  /\ UNCHANGED <<supervisor, future, isAlive, workerVars, dataQueue, executed, handled>>

\* send_and_wait up to its await.  The router may still name a dead worker.
Send(r, w) ==
  /\ supervisor = "running"
  /\ call[r] = "new"
  /\ call' = [call EXCEPT ![r] = "waiting"]
  /\ pending' = pending \cup {r}
  /\ PutTo({w}, r)
  /\ UNCHANGED <<supervisor, future, isAlive, workerVars, dataQueue, executed, handled>>

\* A command without an id: to the device's owner, or to every worker.
\* Bound: each element of Posts is put once.
Post(c, targets) ==
  /\ supervisor = "running"
  /\ \A w \in Workers : \A i \in DOMAIN sent[w] : sent[w][i] # c
  /\ PutTo(targets, c)
  /\ UNCHANGED <<supervisorVars, workerVars, dataQueue, executed, handled>>

\* Fault: responses are handed out without looking at their request id.
AnswersForAnyone(r, n) ==
  UNION {{dataQueue[w][i].answer : i \in 1..n[w]} : w \in Workers}

\* The answers to r among the first n[w] responses of every worker w.
AnswersFor(r, n) ==
  UNION {{dataQueue[w][i].answer : i \in {j \in 1..n[w] : dataQueue[w][j].id = r}}
           : w \in Workers}

\* set_result on the futures that are registered and not yet done.
SetResults(n) ==
  /\ future' \in [Requests -> Answer \cup {None}]
  /\ \A r \in Requests :
       IF r \in pending /\ future[r] = None /\ AnswersFor(r, n) # {}
         THEN future'[r] \in AnswersFor(r, n)
         ELSE future'[r] = future[r]

\* Fault: the health check is left out.
NoHealthCheck == isAlive' = isAlive

CheckWorkerHealth == isAlive' = [w \in Workers |-> isAlive[w] /\ proc[w] # "down"]

\* One pass of data_collector, which does not await.  get_nowait may find a
\* queue empty although a put is on its way: n[w] responses are taken from w.
CollectorPass(n) ==
  /\ supervisor = "running"
  /\ \A w \in Workers : n[w] <= Len(dataQueue[w])
  /\ SetResults(n)
  /\ dataQueue' = [w \in Workers |-> SubSeq(dataQueue[w], n[w] + 1, Len(dataQueue[w]))]
  /\ CheckWorkerHealth
  /\ UNCHANGED <<supervisor, call, pending, workerVars, cmdQueue, executed, sent, handled>>

\* Fault: the entry is removed only when an answer has arrived.
ReturnLeaking(r, outcome) ==
  /\ call[r] = "waiting"
  /\ call' = [call EXCEPT ![r] = outcome]
  /\ pending' = IF outcome = "timeout" THEN pending ELSE pending \ {r}
  /\ UNCHANGED <<supervisor, future, isAlive, workerVars, cmdQueue, dataQueue,
                 executed, sent, handled>>

\* The finally clause: whatever send_and_wait returns, the entry is removed.
Return(r, outcome) ==
  /\ call[r] = "waiting"
  /\ call' = [call EXCEPT ![r] = outcome]
  /\ pending' = pending \ {r}
  /\ UNCHANGED <<supervisor, future, isAlive, workerVars, cmdQueue, dataQueue,
                 executed, sent, handled>>

Resume(r) ==
  /\ supervisor # "joining"
  /\ future[r] # None
  /\ Return(r, IF future[r].ok THEN "ok" ELSE "error")

\* Fault: the future is awaited without a timer.
NoTimer(r) ==
  /\ FALSE
  /\ Return(r, "timeout")

\* wait_for gives up.  The future may have been set while the timer was due:
\* which of the two wins is up to the event loop.
Timeout(r) ==
  /\ supervisor = "running"
  /\ Return(r, "timeout")

\* shutdown_workers up to its joins; it blocks the event loop.
Stop ==
  /\ supervisor = "running"
  /\ supervisor' = "joining"
  /\ PutTo(Workers, Shutdown)
  /\ UNCHANGED <<call, pending, future, isAlive, workerVars, dataQueue, executed, handled>>

\* main returns and asyncio.run cancels the calls still waiting.
ExitMain ==
  /\ supervisor = "joining"
  /\ \A w \in Workers : proc[w] = "down"
  /\ supervisor' = "exited"
  /\ UNCHANGED <<call, pending, future, isAlive, workerVars, cmdQueue, dataQueue,
                 executed, sent, handled>>

Cancel(r) ==
  /\ supervisor = "exited"
  /\ Return(r, "cancelled")

----------------------------------------------------------------------------
(* The workers.                                                            *)

\* _worker_main reaches its command listener.
Startup(w) ==
  /\ proc[w] = "starting"
  /\ proc' = [proc EXCEPT ![w] = "listening"]
  /\ UNCHANGED <<supervisorVars, current, acted, cmdQueue, dataQueue, executed, sent, handled>>

Idle(w) == proc[w] = "listening" /\ current[w] = None

\* Fault: the newest command is taken first.
TakeNewest(w) ==
  /\ Idle(w)
  /\ cmdQueue[w] # <<>>
  /\ cmdQueue[w][Len(cmdQueue[w])] # Shutdown
  /\ current' = [current EXCEPT ![w] = cmdQueue[w][Len(cmdQueue[w])]]
  /\ cmdQueue' = [cmdQueue EXCEPT ![w] = SubSeq(@, 1, Len(@) - 1)]
  /\ UNCHANGED <<supervisorVars, proc, acted, dataQueue, executed, sent, handled>>

\* Fault: commands without a request id are skipped like foreign objects.
TakeOnlyCalls(w) ==
  /\ Idle(w)
  /\ cmdQueue[w] # <<>>
  /\ Head(cmdQueue[w]) # Shutdown
  /\ current' = [current EXCEPT ![w] =
                    IF Head(cmdQueue[w]) \in Requests THEN Head(cmdQueue[w]) ELSE None]
  /\ cmdQueue' = [cmdQueue EXCEPT ![w] = Tail(@)]
  /\ UNCHANGED <<supervisorVars, proc, acted, dataQueue, executed, sent, handled>>

\* The listener takes the next command; it handles one at a time.
TakeCommand(w) ==
  /\ Idle(w)
  /\ cmdQueue[w] # <<>>
  /\ Head(cmdQueue[w]) # Shutdown
  /\ current' = [current EXCEPT ![w] = Head(cmdQueue[w])]
  /\ cmdQueue' = [cmdQueue EXCEPT ![w] = Tail(@)]
  /\ UNCHANGED <<supervisorVars, proc, acted, dataQueue, executed, sent, handled>>

TakeShutdown(w) ==
  /\ Idle(w)
  /\ cmdQueue[w] # <<>>
  /\ Head(cmdQueue[w]) = Shutdown
  /\ proc' = [proc EXCEPT ![w] = "closing"]
  /\ cmdQueue' = [cmdQueue EXCEPT ![w] = Tail(@)]
  /\ handled' = [handled EXCEPT ![w] = Append(@, Shutdown)]
  /\ UNCHANGED <<supervisorVars, current, acted, dataQueue, executed, sent>>

\* The handler's effect (on the BACnet network, or on the worker's tasks)
\* takes place, some time before the handler goes on.
Execute(w) ==
  /\ current[w] # None
  /\ ~acted[w]
  /\ acted' = [acted EXCEPT ![w] = TRUE]
  /\ executed' = [r \in Requests |-> executed[r] + (IF current[w] = r THEN 1 ELSE 0)]
  /\ UNCHANGED <<supervisorVars, proc, current, cmdQueue, dataQueue, sent, handled>>

\* Fault: success is reported before the service has been awaited.
ReplyUnawaited(w, ok) ==
  /\ current[w] # None
  /\ dataQueue' =
       IF current[w] \in Requests
         THEN [dataQueue EXCEPT ![w] = Append(@,
                 [id |-> current[w], answer |-> [req |-> current[w], ok |-> ok]])]
         ELSE dataQueue
  /\ handled' = [handled EXCEPT ![w] = Append(@, current[w])]
  /\ current' = [current EXCEPT ![w] = None]
  /\ acted' = [acted EXCEPT ![w] = FALSE]
  /\ UNCHANGED <<supervisorVars, proc, cmdQueue, executed, sent>>

\* The handler ends.  It reports success only after its effect; an error may
\* be raised before or after it.  Only a command with an id is answered.
Reply(w, ok) ==
  /\ current[w] # None
  /\ ok => acted[w]
  /\ dataQueue' =
       IF current[w] \in Requests
         THEN [dataQueue EXCEPT ![w] = Append(@,
                 [id |-> current[w], answer |-> [req |-> current[w], ok |-> ok]])]
         ELSE dataQueue
  /\ handled' = [handled EXCEPT ![w] = Append(@, current[w])]
  /\ current' = [current EXCEPT ![w] = None]
  /\ acted' = [acted EXCEPT ![w] = FALSE]
  /\ UNCHANGED <<supervisorVars, proc, cmdQueue, executed, sent>>

\* The process ends: what it had put is delivered up to response k, what it
\* was handling is gone.
Down(w, k) ==
  /\ proc[w] # "down"
  /\ k <= Len(dataQueue[w])
  /\ proc' = [proc EXCEPT ![w] = "down"]
  /\ current' = [current EXCEPT ![w] = None]
  /\ acted' = [acted EXCEPT ![w] = FALSE]
  /\ dataQueue' = [dataQueue EXCEPT ![w] = SubSeq(@, 1, k)]
  /\ UNCHANGED <<supervisorVars, cmdQueue, executed, sent, handled>>

\* A fatal error at startup (run_worker's except clause) or a killed process.
Crash(w) == \E k \in 0..Len(dataQueue[w]) : Down(w, k)

\* _worker_main returns: the queue's feeder thread is joined, nothing is lost.
Exit(w) == proc[w] = "closing" /\ Down(w, Len(dataQueue[w]))

\* Fault: a worker that hangs on exit is joined without a timeout.
NoForceKill(w) ==
  /\ FALSE
  /\ Crash(w)

\* shutdown_workers force-kills a worker that has not ended within 5 s.
Terminate(w) == supervisor = "joining" /\ Crash(w)

----------------------------------------------------------------------------
Next ==
  \/ \E r \in Requests : \/ \E w \in Workers : Send(r, w)
                         \/ Resume(r)
                         \/ Timeout(r)
                         \/ Cancel(r)
  \/ \E c \in Posts : \/ \E w \in Workers : Post(c, {w})
                      \/ Post(c, Workers)
  \/ \E n \in [Workers -> UNION {0..Len(dataQueue[w]) : w \in Workers}] : CollectorPass(n)
  \/ Stop
  \/ ExitMain
  \/ \E w \in Workers : \/ Startup(w)
                        \/ TakeCommand(w)
                        \/ TakeShutdown(w)
                        \/ Execute(w)
                        \/ \E ok \in BOOLEAN : Reply(w, ok)
                        \/ Crash(w)
                        \/ Exit(w)
                        \/ Terminate(w)

Spec == Init /\ [][Next]_vars

(* Fairness.  A live worker runs: its event loop starts it up, polls its    *)
(* queue every 0.5 s, and every handler ends, since its awaits are bounded  *)
(* by the APDU timeout.  The collector runs every 0.1 s and finds what a    *)
(* feeder thread has flushed.  Timers fire, and shutdown_workers            *)
(* force-kills.  Nobody has to call, to crash or to exit cleanly.           *)
CollectFrom(w) ==
  \E n \in [Workers -> UNION {0..Len(dataQueue[v]) : v \in Workers}] :
    n[w] > 0 /\ CollectorPass(n)

Fairness ==
  /\ \A w \in Workers :
       /\ WF_vars(Startup(w))
       /\ WF_vars(TakeCommand(w) \/ TakeShutdown(w))
       /\ WF_vars(\E ok \in BOOLEAN : Reply(w, ok))
       /\ WF_vars(CollectFrom(w))
       /\ WF_vars(Terminate(w))
  /\ WF_vars(CollectorPass([w \in Workers |-> 0]))
  /\ \A r \in Requests :
       /\ WF_vars(Resume(r))
       /\ WF_vars(Timeout(r))
       /\ WF_vars(Cancel(r))
  /\ WF_vars(ExitMain)

FairSpec == Spec /\ Fairness

----------------------------------------------------------------------------
(* Properties.                                                             *)

\* The registry of futures neither leaks an entry of a call that has returned
\* nor drops that of a call still waiting, on any path out of send_and_wait.
PendingExact == pending = {r \in Requests : call[r] = "waiting"}

\* A caller gets the answer its own command produced, never that of another
\* call or of an earlier one that timed out.
AnswerIsOwn ==
  \A r \in Requests :
    call[r] \in {"ok", "error"} => future[r] = [req |-> r, ok |-> call[r] = "ok"]

\* Commands to one worker are carried out in the order they were put, across
\* callers, timeouts and commands nobody waits for: an answered call proves
\* that whatever was put on that queue before it has been dealt with.
AnswerMeansServedInOrder ==
  \A w \in Workers : \A i \in DOMAIN sent[w] :
    (sent[w][i] \in Requests /\ call[sent[w][i]] \in {"ok", "error"})
      => /\ i <= Len(handled[w])
         /\ SubSeq(handled[w], 1, i) = SubSeq(sent[w], 1, i)

\* A worker that shuts down in an orderly way has served its whole queue: no
\* command is put behind SHUTDOWN.
ClosesWithNothingUnserved ==
  \A w \in Workers : proc[w] = "closing" => handled[w] = sent[w]

\* send_and_wait keeps the contract of CallContract: at most one result per
\* call, at most one effect, and no success without the effect.
Contract == INSTANCE CallContract WITH phase <- call, effects <- executed
KeepsContract == Contract!Spec

\* send_and_wait always returns, whatever happens to the worker.
EveryCallReturns ==
  \A r \in Requests : call[r] = "waiting" ~> call[r] \in Outcomes

\* The listener works through its queue: a command is dealt with unless its
\* worker goes down, even when its caller has given up.
EveryCommandServed ==
  \A w \in Workers, c \in Requests \cup Posts :
    (\E i \in DOMAIN sent[w] : sent[w][i] = c)
      ~> (proc[w] = "down" \/ \E i \in DOMAIN handled[w] : handled[w][i] = c)

\* The interface status reported to the API stops showing a dead worker.
DeathNoticed ==
  \A w \in Workers : proc[w] = "down" ~> (~isAlive[w] \/ supervisor # "running")

\* shutdown_workers ends with every worker gone and every caller released.
StopCompletes ==
  supervisor = "joining" ~>
    /\ supervisor = "exited"
    /\ \A w \in Workers : proc[w] = "down"
    /\ \A r \in Requests : call[r] # "waiting"
=============================================================================
