------------------------- MODULE CommandRpcProofs -------------------------
(***************************************************************************)
(* Theorems about CommandRpc, for any sets of workers and commands:        *)
(* typing, the safety invariants, and the refinement of CallContract.      *)
(*                                                                         *)
(* They rest on one inductive invariant.  None of the safety properties is *)
(* inductive alone: that an answer belongs to its caller depends on what   *)
(* may be in flight, which depends on each id being put on one queue once, *)
(* which depends on how queue and history line up.                         *)
(***************************************************************************)
EXTENDS CommandRpc, TLAPS

\* How many commands w has taken from its queue.
Taken(w) == Len(handled[w]) + (IF current[w] = None THEN 0 ELSE 1)

\* h is a prefix of s; q is what remains of s after its first t elements.
PrefixOf(h, s) == Len(h) <= Len(s) /\ \A i \in 1..Len(h) : h[i] = s[i]
RestOf(q, s, t) == Len(s) = t + Len(q) /\ \A i \in 1..Len(q) : q[i] = s[t + i]

\* A worker serves a prefix of what was put, and its queue holds the rest.
InOrder(w) ==
  /\ PrefixOf(handled[w], sent[w])
  /\ proc[w] # "down" => RestOf(cmdQueue[w], sent[w], Taken(w))
  /\ current[w] # None =>
       /\ proc[w] = "listening"
       /\ Taken(w) <= Len(sent[w])
       /\ current[w] = sent[w][Taken(w)]
  /\ acted[w] => current[w] # None

QueuesInOrder == \A w \in Workers : InOrder(w)

\* SHUTDOWN is the last command put on a queue.
ShutdownIsLast ==
  \A w \in Workers :
    /\ \A i \in 1..Len(sent[w]) :
         sent[w][i] = Shutdown => i = Len(sent[w]) /\ supervisor # "running"
    /\ proc[w] = "closing" =>
         Len(handled[w]) = Len(sent[w]) /\ supervisor # "running"

\* A call is put on one queue, once, when it is made.
SentOnce ==
  /\ \A w, v \in Workers : \A i \in 1..Len(sent[w]), j \in 1..Len(sent[v]) :
       sent[w][i] = sent[v][j] /\ sent[w][i] \in Requests => w = v /\ i = j
  /\ \A w \in Workers : \A i \in 1..Len(sent[w]) :
       sent[w][i] \in Requests => call[sent[w][i]] # "new"

\* The turn of r, the i-th command put on w's queue, is over or under way.
Turn(r, w, i) ==
  /\ sent[w][i] = r
  /\ \/ i <= Len(handled[w])
     \/ proc[w] = "down"
     \/ i = Len(handled[w]) + 1 /\ acted[w]

\* A call is carried out at most once, by the worker whose turn it is or was.
ExecutedInTurn ==
  /\ \A r \in Requests :
       /\ executed[r] \in {0, 1}
       /\ executed[r] = 1 => \E w \in Workers : \E i \in 1..Len(sent[w]) : Turn(r, w, i)
  /\ \A w \in Workers :
       acted[w] /\ current[w] \in Requests => executed[current[w]] = 1

\* What an answer to r is allowed to be.
Honest(r, answer) ==
  /\ answer.req = r
  /\ answer.ok => executed[r] = 1
  /\ \E w \in Workers : \E i \in 1..Len(handled[w]) : handled[w][i] = r

HonestFrom(w) ==
  \A i \in 1..Len(dataQueue[w]) : Honest(dataQueue[w][i].id, dataQueue[w][i].answer)

ResponsesHonest == \A w \in Workers : HonestFrom(w)

FuturesHonest ==
  \A r \in Requests :
    /\ future[r] # None => Honest(r, future[r])
    /\ call[r] \in {"ok", "error"} =>
         future[r] # None /\ (future[r].ok <=> call[r] = "ok")

IInv ==
  /\ TypeOK
  /\ PendingExact
  /\ QueuesInOrder
  /\ ShutdownIsLast
  /\ SentOnce
  /\ ExecutedInTurn
  /\ ResponsesHonest
  /\ FuturesHonest

----------------------------------------------------------------------------
(* Typing.                                                                  *)

\* Appending one command to some of the queues keeps them queues of commands.
LEMMA PutTyped ==
  ASSUME TypeOK, NEW targets \in SUBSET Workers, NEW cmd \in Commands, PutTo(targets, cmd)
  PROVE  /\ cmdQueue' \in [Workers -> Seq(Commands)]
         /\ sent' \in [Workers -> Seq(Commands)]
  BY DEF TypeOK, PutTo

\* The steps of the system, as every proof below splits them.
LEMMA StepCases ==
  ASSUME TypeOK, [Next]_vars
  PROVE  \/ \E r \in Requests, w \in Workers : Send(r, w)
         \/ \E c \in Posts, targets \in SUBSET Workers : Post(c, targets)
         \/ \E n \in [Workers -> Nat] : CollectorPass(n)
         \/ \E r \in Requests : Resume(r) \/ Timeout(r) \/ Cancel(r)
         \/ Stop
         \/ ExitMain
         \/ \E w \in Workers :
              \/ Startup(w)
              \/ TakeCommand(w)
              \/ TakeShutdown(w)
              \/ Execute(w)
              \/ \E ok \in BOOLEAN : Reply(w, ok)
              \/ \E k \in Nat : Down(w, k)
         \/ UNCHANGED vars
<1>1. ASSUME NEW c \in Posts, (\E w \in Workers : Post(c, {w})) \/ Post(c, Workers)
      PROVE  \E targets \in SUBSET Workers : Post(c, targets)
  <2>1. Workers \in SUBSET Workers /\ \A w \in Workers : {w} \in SUBSET Workers
    OBVIOUS
  <2> QED BY <1>1, <2>1
<1>2. ASSUME NEW n \in [Workers -> UNION {0..Len(dataQueue[w]) : w \in Workers}],
             CollectorPass(n)
      PROVE  \E m \in [Workers -> Nat] : CollectorPass(m)
  <2>1. UNION {0..Len(dataQueue[w]) : w \in Workers} \subseteq Nat
    OBVIOUS
  <2>2. n \in [Workers -> Nat]
    BY <2>1
  <2> QED BY <1>2, <2>2
<1>3. ASSUME NEW w \in Workers, Crash(w) \/ Exit(w) \/ Terminate(w)
      PROVE  \E k \in Nat : Down(w, k)
  <2>1. Len(dataQueue[w]) \in Nat /\ 0..Len(dataQueue[w]) \subseteq Nat
    BY DEF TypeOK
  <2> QED BY <1>3, <2>1 DEF Crash, Exit, Terminate
<1> QED BY <1>1, <1>2, <1>3, Zenon DEF Next

\* Every action of the supervisor and of the workers preserves the types.
LEMMA TypeStep == TypeOK /\ [Next]_vars => TypeOK'
<1> SUFFICES ASSUME TypeOK, [Next]_vars PROVE TypeOK'
  OBVIOUS
<1> USE CommandsAssumption, NoAnswerAssumption
<1>1. ASSUME NEW r \in Requests, NEW w \in Workers, Send(r, w) PROVE TypeOK'
  <2>1. r \in Commands
    BY DEF Commands
  <2>2. cmdQueue' \in [Workers -> Seq(Commands)] /\ sent' \in [Workers -> Seq(Commands)]
    BY <1>1, <2>1, PutTyped DEF Send
  <2> QED BY <1>1, <2>2 DEF TypeOK, Send, workerVars
<1>2. ASSUME NEW c \in Posts, NEW targets \in SUBSET Workers, Post(c, targets) PROVE TypeOK'
  <2>1. c \in Commands
    BY DEF Commands
  <2>2. cmdQueue' \in [Workers -> Seq(Commands)] /\ sent' \in [Workers -> Seq(Commands)]
    BY <1>2, <2>1, PutTyped DEF Post
  <2> QED BY <1>2, <2>2 DEF TypeOK, Post, workerVars, supervisorVars
<1>3. ASSUME NEW n \in [Workers -> Nat], CollectorPass(n) PROVE TypeOK'
  BY <1>3 DEF TypeOK, CollectorPass, SetResults, CheckWorkerHealth, workerVars
<1>4. ASSUME NEW r \in Requests, Resume(r) \/ Timeout(r) \/ Cancel(r) PROVE TypeOK'
  BY <1>4 DEF TypeOK, Resume, Timeout, Cancel, Return, Outcomes, workerVars
<1>5. CASE Stop
  <2>1. Shutdown \in Commands
    BY DEF Commands
  <2>2. cmdQueue' \in [Workers -> Seq(Commands)] /\ sent' \in [Workers -> Seq(Commands)]
    BY <1>5, <2>1, PutTyped DEF Stop
  <2> QED BY <1>5, <2>2 DEF TypeOK, Stop, workerVars
<1>6. CASE ExitMain
  BY <1>6 DEF TypeOK, ExitMain, workerVars
<1>7. ASSUME NEW w \in Workers, Startup(w) PROVE TypeOK'
  BY <1>7 DEF TypeOK, Startup, supervisorVars
<1>8. ASSUME NEW w \in Workers, TakeCommand(w) PROVE TypeOK'
  <2>1. Head(cmdQueue[w]) \in Requests \cup Posts /\ Tail(cmdQueue[w]) \in Seq(Commands)
    BY <1>8 DEF TypeOK, TakeCommand, Commands
  <2> QED BY <1>8, <2>1 DEF TypeOK, TakeCommand, supervisorVars
<1>9. ASSUME NEW w \in Workers, TakeShutdown(w) PROVE TypeOK'
  <2>1. Shutdown \in Commands /\ Tail(cmdQueue[w]) \in Seq(Commands)
    BY <1>9 DEF TypeOK, TakeShutdown, Commands
  <2> QED BY <1>9, <2>1 DEF TypeOK, TakeShutdown, supervisorVars
<1>10. ASSUME NEW w \in Workers, Execute(w) PROVE TypeOK'
  BY <1>10 DEF TypeOK, Execute, supervisorVars
<1>11. ASSUME NEW w \in Workers, NEW ok \in BOOLEAN, Reply(w, ok) PROVE TypeOK'
  <2>1. current[w] \in Commands
    BY <1>11 DEF TypeOK, Reply, Commands
  <2>2. dataQueue' \in [Workers -> Seq(Response)]
    <3> DEFINE answer == [req |-> current[w], ok |-> ok]
               response == [id |-> current[w], answer |-> answer]
    <3>1. CASE current[w] \in Requests
      <4>1. response \in Response
        BY <3>1 DEF Response, Answer
      <4>2. dataQueue' = [dataQueue EXCEPT ![w] = Append(@, response)]
        BY <1>11, <3>1 DEF Reply
      <4> HIDE DEF response
      <4> QED BY <4>1, <4>2 DEF TypeOK
    <3>2. CASE current[w] \notin Requests
      BY <1>11, <3>2 DEF TypeOK, Reply
    <3> QED BY <3>1, <3>2
  <2> QED BY <1>11, <2>1, <2>2 DEF TypeOK, Reply, supervisorVars
<1>12. ASSUME NEW w \in Workers, NEW k \in Nat, Down(w, k) PROVE TypeOK'
  BY <1>12 DEF TypeOK, Down, supervisorVars
<1>13. CASE UNCHANGED vars
  BY <1>13 DEF TypeOK, vars, supervisorVars, workerVars
<1> QED
  BY StepCases, <1>1, <1>2, <1>3, <1>4, <1>5, <1>6, <1>7, <1>8, <1>9, <1>10, <1>11,
     <1>12, <1>13, Zenon

\* Before the workers have started everything is idle, empty and well typed.
LEMMA TypeInit == Init => TypeOK
  BY CommandsAssumption, NoAnswerAssumption DEF Init, TypeOK

\* Queues hold commands and responses, futures hold answers or nothing, and
\* every status is one the code can be in, for any workers and calls.
THEOREM TypeCorrect == Spec => []TypeOK
<1>1. TypeOK /\ [Next]_vars => TypeOK'
  BY TypeStep
<1> QED BY TypeInit, <1>1, PTL DEF Spec

----------------------------------------------------------------------------
(* The registry of futures.                                                 *)

\* Only send_and_wait touches _pending_responses, at its beginning and at its end.
LEMMA PendingStep == TypeOK /\ PendingExact /\ [Next]_vars => PendingExact'
<1> SUFFICES ASSUME TypeOK, PendingExact, [Next]_vars PROVE PendingExact'
  OBVIOUS
<1>1. ASSUME NEW r \in Requests, NEW w \in Workers, Send(r, w) PROVE PendingExact'
  BY <1>1 DEF TypeOK, PendingExact, Send
<1>2. ASSUME NEW r \in Requests, Resume(r) \/ Timeout(r) \/ Cancel(r) PROVE PendingExact'
  <2>1. PICK outcome \in Outcomes : Return(r, outcome)
    BY <1>2, Zenon DEF Resume, Timeout, Cancel, Outcomes
  <2> QED BY <2>1 DEF TypeOK, PendingExact, Return, Outcomes
<1>3. ASSUME UNCHANGED <<call, pending>> PROVE PendingExact'
  BY <1>3 DEF PendingExact
<1>4. ASSUME NEW c \in Posts, NEW targets \in SUBSET Workers, Post(c, targets)
      PROVE  PendingExact'
  BY <1>3, <1>4 DEF Post, supervisorVars
<1>5. ASSUME NEW n \in [Workers -> Nat], CollectorPass(n) PROVE PendingExact'
  BY <1>3, <1>5 DEF CollectorPass
<1>6. CASE Stop \/ ExitMain
  BY <1>3, <1>6 DEF Stop, ExitMain
<1>7. ASSUME NEW w \in Workers,
             \/ Startup(w) \/ TakeCommand(w) \/ TakeShutdown(w) \/ Execute(w)
             \/ \E ok \in BOOLEAN : Reply(w, ok)
             \/ \E k \in Nat : Down(w, k)
      PROVE  PendingExact'
  BY <1>3, <1>7
  DEF Startup, TakeCommand, TakeShutdown, Execute, Reply, Down, supervisorVars
<1>8. CASE UNCHANGED vars
  BY <1>3, <1>8 DEF vars, supervisorVars
<1> QED BY StepCases, <1>1, <1>2, <1>4, <1>5, <1>6, <1>7, <1>8, Zenon

\* Whatever path a call takes out of send_and_wait, its entry in
\* _pending_responses goes with it, and no other entry does.
THEOREM PendingCorrect == Spec => []PendingExact
<1>1. Init => PendingExact
  BY DEF Init, PendingExact
<1>2. TypeOK /\ PendingExact /\ [Next]_vars => PendingExact'
  BY PendingStep
<1> QED BY TypeCorrect, <1>1, <1>2, PTL DEF Spec

----------------------------------------------------------------------------
(* The command queues against the histories.                                *)

\* What has been handled stays a prefix of what was sent when more is sent.
LEMMA PrefixAppend ==
  ASSUME NEW h \in Seq(Commands), NEW s \in Seq(Commands), NEW c \in Commands, PrefixOf(h, s)
  PROVE  PrefixOf(h, Append(s, c))
  BY DEF PrefixOf

\* Handling the command that is next keeps the handled ones a prefix.
LEMMA PrefixGrows ==
  ASSUME NEW h \in Seq(Commands), NEW s \in Seq(Commands), NEW c \in Commands,
         PrefixOf(h, s), Len(h) < Len(s), c = s[Len(h) + 1]
  PROVE  PrefixOf(Append(h, c), s)
  BY DEF PrefixOf

\* A command put on the queue is the last of those sent.
LEMMA RestAppend ==
  ASSUME NEW q \in Seq(Commands), NEW s \in Seq(Commands), NEW t \in Nat,
         NEW c \in Commands, RestOf(q, s, t)
  PROVE  RestOf(Append(q, c), Append(s, c), t)
<1>1. Len(Append(s, c)) = t + Len(Append(q, c))
  BY DEF RestOf
<1>2. ASSUME NEW i \in 1..Len(Append(q, c)) PROVE Append(q, c)[i] = Append(s, c)[t + i]
  <2>1. CASE i \in 1..Len(q)
    <3>1. t + i \in 1..Len(s)
      BY <2>1 DEF RestOf
    <3> QED BY <2>1, <3>1 DEF RestOf
  <2>2. CASE i = Len(q) + 1
    <3>1. t + i = Len(s) + 1
      BY <2>2 DEF RestOf
    <3>2. Append(q, c)[Len(q) + 1] = c /\ Append(s, c)[Len(s) + 1] = c
      OBVIOUS
    <3> QED BY <2>2, <3>1, <3>2
  <2>3. i \in 1..Len(q) \/ i = Len(q) + 1
    OBVIOUS
  <2> QED BY <2>1, <2>2, <2>3, Zenon
<1> QED BY <1>1, <1>2 DEF RestOf

\* The command taken from the queue is the oldest one not yet taken.
LEMMA RestTail ==
  ASSUME NEW q \in Seq(Commands), NEW s \in Seq(Commands), NEW t \in Nat,
         RestOf(q, s, t), q # <<>>
  PROVE  /\ RestOf(Tail(q), s, t + 1)
         /\ t + 1 \in 1..Len(s)
         /\ Head(q) = s[t + 1]
<1>1. Len(q) >= 1 /\ Len(Tail(q)) = Len(q) - 1 /\ Head(q) = q[1]
  OBVIOUS
<1>2. Len(s) = (t + 1) + Len(Tail(q)) /\ t + 1 \in 1..Len(s)
  BY <1>1 DEF RestOf
<1>3. ASSUME NEW i \in 1..Len(Tail(q)) PROVE Tail(q)[i] = s[(t + 1) + i]
  <2>1. Tail(q)[i] = q[i + 1] /\ i + 1 \in 1..Len(q) /\ t + (i + 1) = (t + 1) + i
    BY <1>1
  <2> QED BY <2>1 DEF RestOf
<1>4. q[1] = s[t + 1]
  BY <1>1 DEF RestOf
<1> QED BY <1>1, <1>2, <1>3, <1>4 DEF RestOf

\* What has been taken is what was handled and, if there is one, the command in hand.
LEMMA TakenIs ==
  ASSUME TypeOK, NEW w \in Workers
  PROVE  /\ current[w] = None => Taken(w) = Len(handled[w])
         /\ current[w] # None => Taken(w) = Len(handled[w]) + 1
         /\ Taken(w) \in Nat
  BY DEF TypeOK, Taken

\* Putting a command leaves a queue and its history alone or extends both.
LEMMA PutKeepsOrder ==
  ASSUME TypeOK, QueuesInOrder, NEW targets \in SUBSET Workers, NEW cmd \in Commands,
         PutTo(targets, cmd), UNCHANGED <<proc, current, acted, handled>>
  PROVE  QueuesInOrder'
<1> SUFFICES ASSUME NEW w \in Workers
             PROVE  /\ PrefixOf(handled[w], sent'[w])
                    /\ proc[w] # "down" => RestOf(cmdQueue'[w], sent'[w], Taken(w))
                    /\ current[w] # None =>
                         /\ proc[w] = "listening"
                         /\ Taken(w) <= Len(sent'[w])
                         /\ current[w] = sent'[w][Taken(w)]
                    /\ acted[w] => current[w] # None
  BY DEF QueuesInOrder, InOrder, Taken
<1> DEFINE h == handled[w]  s == sent[w]  q == cmdQueue[w]  t == Taken(w)
<1>1. h \in Seq(Commands) /\ s \in Seq(Commands) /\ q \in Seq(Commands) /\ t \in Nat
  BY TakenIs DEF TypeOK
<1>2. /\ PrefixOf(h, s)
      /\ proc[w] # "down" => RestOf(q, s, t)
      /\ current[w] # None => proc[w] = "listening" /\ t <= Len(s) /\ current[w] = s[t]
      /\ acted[w] => current[w] # None
  BY DEF QueuesInOrder, InOrder
<1>3. current[w] # None => t >= 1
  BY TakenIs DEF TypeOK
<1>4. CASE w \notin targets
  <2>1. cmdQueue'[w] = q /\ sent'[w] = s
    BY <1>4 DEF PutTo
  <2> QED BY <1>2, <2>1
<1>5. CASE w \in targets
  <2>1. cmdQueue'[w] = Append(q, cmd) /\ sent'[w] = Append(s, cmd)
    BY <1>5 DEF PutTo
  <2> HIDE DEF h, s, q, t
  <2>2. PrefixOf(h, Append(s, cmd))
    BY <1>1, <1>2, PrefixAppend
  <2>3. proc[w] # "down" => RestOf(Append(q, cmd), Append(s, cmd), t)
    BY <1>1, <1>2, RestAppend
  <2>4. current[w] # None => t <= Len(Append(s, cmd)) /\ current[w] = Append(s, cmd)[t]
    BY <1>1, <1>2, <1>3
  <2>5. proc[w] = "listening" \/ current[w] = None
    BY <1>2
  <2> QED BY <1>2, <2>1, <2>2, <2>3, <2>4, <2>5 DEF h, s, q, t
<1> QED BY <1>4, <1>5

\* Neither putting, taking, handling nor a crash disturbs the order of the queue.
LEMMA QueuesStep == TypeOK /\ QueuesInOrder /\ [Next]_vars => QueuesInOrder'
<1> SUFFICES ASSUME TypeOK, QueuesInOrder, [Next]_vars PROVE QueuesInOrder'
  OBVIOUS
<1> USE CommandsAssumption
<1>1. ASSUME NEW r \in Requests, NEW w \in Workers, Send(r, w) PROVE QueuesInOrder'
  BY <1>1, PutKeepsOrder DEF Send, workerVars, Commands
<1>2. ASSUME NEW c \in Posts, NEW targets \in SUBSET Workers, Post(c, targets)
      PROVE  QueuesInOrder'
  BY <1>2, PutKeepsOrder DEF Post, workerVars, Commands
<1>3. CASE Stop
  BY <1>3, PutKeepsOrder DEF Stop, workerVars, Commands
<1>4. ASSUME UNCHANGED <<workerVars, cmdQueue, sent, handled>> PROVE QueuesInOrder'
  BY <1>4 DEF QueuesInOrder, InOrder, Taken, workerVars
<1>5. ASSUME NEW n \in [Workers -> Nat], CollectorPass(n) PROVE QueuesInOrder'
  BY <1>4, <1>5 DEF CollectorPass
<1>6. ASSUME NEW r \in Requests, Resume(r) \/ Timeout(r) \/ Cancel(r) PROVE QueuesInOrder'
  BY <1>4, <1>6 DEF Resume, Timeout, Cancel, Return
<1>7. CASE ExitMain
  BY <1>4, <1>7 DEF ExitMain
<1>8. ASSUME NEW v \in Workers,
             cmdQueue'[v] = cmdQueue[v], sent'[v] = sent[v], handled'[v] = handled[v],
             proc'[v] = proc[v], current'[v] = current[v], acted'[v] = acted[v]
      PROVE  InOrder(v)'
  BY <1>8 DEF QueuesInOrder, InOrder, Taken
<1>9. ASSUME NEW w \in Workers, Startup(w) PROVE QueuesInOrder'
  <2>1. ASSUME NEW v \in Workers, v # w PROVE InOrder(v)'
    BY <1>8, <1>9, <2>1 DEF TypeOK, Startup
  <2>2. InOrder(w)'
    BY <1>9 DEF TypeOK, QueuesInOrder, InOrder, Taken, Startup
  <2> QED BY <2>1, <2>2 DEF QueuesInOrder
<1>10. ASSUME NEW w \in Workers, TakeCommand(w) PROVE QueuesInOrder'
  <2>1. ASSUME NEW v \in Workers, v # w PROVE InOrder(v)'
    BY <1>8, <1>10, <2>1 DEF TypeOK, TakeCommand
  <2>2. InOrder(w)'
    <3>1. /\ cmdQueue[w] \in Seq(Commands) /\ sent[w] \in Seq(Commands)
          /\ Taken(w) \in Nat /\ Taken(w) = Len(handled[w])
          /\ RestOf(cmdQueue[w], sent[w], Taken(w)) /\ PrefixOf(handled[w], sent[w])
          /\ cmdQueue[w] # <<>> /\ ~acted[w]
      BY <1>10, TakenIs DEF TypeOK, QueuesInOrder, InOrder, TakeCommand, Idle
    <3>2. /\ RestOf(Tail(cmdQueue[w]), sent[w], Taken(w) + 1)
          /\ Taken(w) + 1 \in 1..Len(sent[w])
          /\ Head(cmdQueue[w]) = sent[w][Taken(w) + 1]
      BY <3>1, RestTail
    <3>3. /\ cmdQueue'[w] = Tail(cmdQueue[w]) /\ current'[w] = Head(cmdQueue[w])
          /\ sent'[w] = sent[w] /\ handled'[w] = handled[w] /\ acted'[w] = acted[w]
          /\ proc'[w] = "listening" /\ current'[w] # None
      BY <1>10 DEF TypeOK, TakeCommand, Idle, Commands
    <3>4. Taken(w)' = Taken(w) + 1
      BY <3>1, <3>3 DEF Taken
    <3> QED BY <3>1, <3>2, <3>3, <3>4 DEF InOrder
  <2> QED BY <2>1, <2>2 DEF QueuesInOrder
<1>11. ASSUME NEW w \in Workers, TakeShutdown(w) PROVE QueuesInOrder'
  <2>1. ASSUME NEW v \in Workers, v # w PROVE InOrder(v)'
    BY <1>8, <1>11, <2>1 DEF TypeOK, TakeShutdown
  <2>2. InOrder(w)'
    <3>1. /\ cmdQueue[w] \in Seq(Commands) /\ sent[w] \in Seq(Commands)
          /\ handled[w] \in Seq(Commands)
          /\ Taken(w) \in Nat /\ Taken(w) = Len(handled[w])
          /\ RestOf(cmdQueue[w], sent[w], Taken(w)) /\ PrefixOf(handled[w], sent[w])
          /\ cmdQueue[w] # <<>> /\ ~acted[w] /\ current[w] = None
      BY <1>11, TakenIs DEF TypeOK, QueuesInOrder, InOrder, TakeShutdown, Idle
    <3>2. /\ RestOf(Tail(cmdQueue[w]), sent[w], Taken(w) + 1)
          /\ Taken(w) + 1 \in 1..Len(sent[w])
          /\ Shutdown = sent[w][Taken(w) + 1]
      BY <1>11, <3>1, RestTail DEF TakeShutdown
    <3>3. /\ cmdQueue'[w] = Tail(cmdQueue[w]) /\ current'[w] = None
          /\ sent'[w] = sent[w] /\ handled'[w] = Append(handled[w], Shutdown)
          /\ acted'[w] = acted[w]
      BY <1>11 DEF TypeOK, TakeShutdown, Idle
    <3>4. PrefixOf(Append(handled[w], Shutdown), sent[w])
      <4>1. /\ Len(handled[w]) < Len(sent[w]) /\ Shutdown \in Commands
            /\ Shutdown = sent[w][Len(handled[w]) + 1]
        BY <3>1, <3>2 DEF Commands
      <4> QED BY <3>1, <4>1, PrefixGrows
    <3>5. Taken(w)' = Taken(w) + 1
      BY <3>1, <3>3 DEF Taken
    <3> QED BY <3>1, <3>2, <3>3, <3>4, <3>5 DEF InOrder
  <2> QED BY <2>1, <2>2 DEF QueuesInOrder
<1>12. ASSUME NEW w \in Workers, Execute(w) PROVE QueuesInOrder'
  <2>1. ASSUME NEW v \in Workers, v # w PROVE InOrder(v)'
    BY <1>8, <1>12, <2>1 DEF TypeOK, Execute
  <2>2. InOrder(w)'
    BY <1>12 DEF TypeOK, QueuesInOrder, InOrder, Taken, Execute
  <2> QED BY <2>1, <2>2 DEF QueuesInOrder
<1>13. ASSUME NEW w \in Workers, NEW ok \in BOOLEAN, Reply(w, ok) PROVE QueuesInOrder'
  <2>1. ASSUME NEW v \in Workers, v # w PROVE InOrder(v)'
    BY <1>8, <1>13, <2>1 DEF TypeOK, Reply
  <2>2. InOrder(w)'
    <3>1. /\ sent[w] \in Seq(Commands) /\ handled[w] \in Seq(Commands)
          /\ Taken(w) \in Nat /\ Taken(w) = Len(handled[w]) + 1
          /\ PrefixOf(handled[w], sent[w])
          /\ RestOf(cmdQueue[w], sent[w], Taken(w))
          /\ Taken(w) <= Len(sent[w]) /\ current[w] = sent[w][Taken(w)]
          /\ current[w] \in Commands
      BY <1>13, TakenIs DEF TypeOK, QueuesInOrder, InOrder, Reply, Commands
    <3>2. /\ cmdQueue'[w] = cmdQueue[w] /\ current'[w] = None /\ ~acted'[w]
          /\ sent'[w] = sent[w] /\ handled'[w] = Append(handled[w], current[w])
      BY <1>13 DEF TypeOK, Reply
    <3>3. PrefixOf(Append(handled[w], current[w]), sent[w])
      <4>1. /\ Len(handled[w]) < Len(sent[w])
            /\ current[w] = sent[w][Len(handled[w]) + 1]
        BY <3>1
      <4> QED BY <3>1, <4>1, PrefixGrows
    <3>4. Taken(w)' = Taken(w)
      <4>1. Len(handled'[w]) = Len(handled[w]) + 1
        BY <3>1, <3>2
      <4>2. Len(handled'[w]) \in Nat
        BY <3>1, <4>1
      <4>3. Taken(w)' = Len(handled'[w])
        BY <3>2, <4>2 DEF Taken
      <4> QED BY <3>1, <4>1, <4>3
    <3> QED BY <3>1, <3>2, <3>3, <3>4 DEF InOrder
  <2> QED BY <2>1, <2>2 DEF QueuesInOrder
<1>14. ASSUME NEW w \in Workers, NEW k \in Nat, Down(w, k) PROVE QueuesInOrder'
  <2>1. ASSUME NEW v \in Workers, v # w PROVE InOrder(v)'
    BY <1>8, <1>14, <2>1 DEF TypeOK, Down
  <2>2. InOrder(w)'
    BY <1>14 DEF TypeOK, QueuesInOrder, InOrder, Down
  <2> QED BY <2>1, <2>2 DEF QueuesInOrder
<1>15. CASE UNCHANGED vars
  BY <1>4, <1>15 DEF vars
<1> QED
  BY StepCases, <1>1, <1>2, <1>3, <1>5, <1>6, <1>7, <1>9, <1>10, <1>11, <1>12, <1>13,
     <1>14, <1>15, Zenon

----------------------------------------------------------------------------
(* What is put, and when.                                                   *)

\* An element of a history after a put was there before, or is the new one.
OldOrNew(targets, cmd, w, i) ==
  \/ i \in 1..Len(sent[w]) /\ sent'[w][i] = sent[w][i]
  \/ /\ w \in targets /\ sent'[w][i] = cmd
     /\ i = Len(sent[w]) + 1 /\ i = Len(sent'[w])

\* After a put every command sent is an old one or the new one at the end.
LEMMA PutAdds ==
  ASSUME TypeOK, NEW targets \in SUBSET Workers, NEW cmd \in Commands,
         PutTo(targets, cmd)
  PROVE  \A w \in Workers : \A i \in 1..Len(sent'[w]) : OldOrNew(targets, cmd, w, i)
<1> SUFFICES ASSUME NEW w \in Workers, NEW i \in 1..Len(sent'[w])
             PROVE  OldOrNew(targets, cmd, w, i)
  OBVIOUS
<1> USE DEF OldOrNew
<1>1. CASE w \notin targets
  BY <1>1 DEF PutTo
<1>2. CASE w \in targets
  <2>1. sent'[w] = Append(sent[w], cmd) /\ sent[w] \in Seq(Commands)
    BY <1>2 DEF TypeOK, PutTo
  <2>2. /\ Len(sent[w]) \in Nat
        /\ Len(sent'[w]) = Len(sent[w]) + 1
        /\ \A j \in 1..Len(sent[w]) : sent'[w][j] = sent[w][j]
        /\ sent'[w][Len(sent[w]) + 1] = cmd
    BY <2>1
  <2>3. i \in 1..Len(sent[w]) \/ i = Len(sent[w]) + 1
    BY <2>2
  <2> QED BY <1>2, <2>2, <2>3
<1> QED BY <1>1, <1>2

\* SHUTDOWN is put last: route_* and send_and_wait have stopped by then.
LEMMA ShutdownStep ==
  TypeOK /\ QueuesInOrder /\ ShutdownIsLast /\ [Next]_vars => ShutdownIsLast'
<1> SUFFICES ASSUME TypeOK, QueuesInOrder, ShutdownIsLast, [Next]_vars
             PROVE  ShutdownIsLast'
  OBVIOUS
<1> USE CommandsAssumption
<1>1. ASSUME NEW targets \in SUBSET Workers, NEW cmd \in Commands, PutTo(targets, cmd),
             supervisor = "running", UNCHANGED <<proc, handled>>,
             cmd = Shutdown => supervisor' # "running"
      PROVE  ShutdownIsLast'
  <2>0. \A w \in Workers : \A i \in 1..Len(sent'[w]) : OldOrNew(targets, cmd, w, i)
    BY <1>1, PutAdds
  <2>1. ASSUME NEW w \in Workers, NEW i \in 1..Len(sent'[w]), sent'[w][i] = Shutdown
        PROVE  i = Len(sent'[w]) /\ supervisor' # "running"
    BY <1>1, <2>0, <2>1 DEF ShutdownIsLast, OldOrNew
  <2>2. \A w \in Workers : proc'[w] # "closing"
    BY <1>1 DEF ShutdownIsLast
  <2> QED BY <2>1, <2>2 DEF ShutdownIsLast
<1>2. ASSUME NEW r \in Requests, NEW w \in Workers, Send(r, w) PROVE ShutdownIsLast'
  <2>1. r \in Commands /\ r # Shutdown
    BY DEF Commands
  <2> QED BY <1>1, <1>2, <2>1 DEF Send, workerVars
<1>3. ASSUME NEW c \in Posts, NEW targets \in SUBSET Workers, Post(c, targets)
      PROVE  ShutdownIsLast'
  <2>1. c \in Commands /\ c # Shutdown
    BY DEF Commands
  <2> QED BY <1>1, <1>3, <2>1 DEF Post, workerVars
<1>4. CASE Stop
  <2>1. Shutdown \in Commands /\ Workers \in SUBSET Workers
    BY DEF Commands
  <2> QED BY <1>1, <1>4, <2>1 DEF Stop, workerVars
<1>5. ASSUME UNCHANGED <<proc, sent, handled>>,
             supervisor' = supervisor \/ supervisor' = "exited"
      PROVE  ShutdownIsLast'
  BY <1>5 DEF ShutdownIsLast
<1>6. ASSUME NEW n \in [Workers -> Nat], CollectorPass(n) PROVE ShutdownIsLast'
  BY <1>5, <1>6 DEF CollectorPass, workerVars
<1>7. ASSUME NEW r \in Requests, Resume(r) \/ Timeout(r) \/ Cancel(r) PROVE ShutdownIsLast'
  BY <1>5, <1>7 DEF Resume, Timeout, Cancel, Return, workerVars
<1>8. CASE ExitMain
  BY <1>5, <1>8 DEF ExitMain, workerVars
<1>9. ASSUME NEW w \in Workers,
             Startup(w) \/ TakeCommand(w) \/ Execute(w) \/ \E k \in Nat : Down(w, k)
      PROVE  ShutdownIsLast'
  <2>1. /\ UNCHANGED <<supervisor, sent, handled>>
        /\ \A v \in Workers : proc'[v] = "closing" => proc[v] = "closing"
    BY <1>9 DEF TypeOK, Startup, TakeCommand, Execute, Down, supervisorVars
  <2> QED BY <2>1 DEF ShutdownIsLast
<1>10. ASSUME NEW w \in Workers, TakeShutdown(w) PROVE ShutdownIsLast'
  <2>1. /\ cmdQueue[w] \in Seq(Commands) /\ sent[w] \in Seq(Commands)
        /\ handled[w] \in Seq(Commands)
        /\ Taken(w) \in Nat /\ Taken(w) = Len(handled[w])
        /\ RestOf(cmdQueue[w], sent[w], Taken(w)) /\ cmdQueue[w] # <<>>
    BY <1>10, TakenIs DEF TypeOK, QueuesInOrder, InOrder, TakeShutdown, Idle
  <2>2. Taken(w) + 1 \in 1..Len(sent[w]) /\ Shutdown = sent[w][Taken(w) + 1]
    BY <1>10, <2>1, RestTail DEF TakeShutdown
  <2>3. Taken(w) + 1 = Len(sent[w]) /\ supervisor # "running"
    BY <2>2 DEF ShutdownIsLast
  <2>4. handled'[w] = Append(handled[w], Shutdown) /\ sent' = sent /\ supervisor' = supervisor
    BY <1>10 DEF TypeOK, TakeShutdown, supervisorVars
  <2>5. Len(handled'[w]) = Len(sent[w])
    BY <2>1, <2>3, <2>4
  <2>6. \A v \in Workers : v # w => proc'[v] = proc[v] /\ handled'[v] = handled[v]
    BY <1>10 DEF TypeOK, TakeShutdown
  <2> QED BY <2>3, <2>4, <2>5, <2>6 DEF ShutdownIsLast
<1>11. ASSUME NEW w \in Workers, NEW ok \in BOOLEAN, Reply(w, ok) PROVE ShutdownIsLast'
  <2>1. proc'[w] = "listening"
    BY <1>11 DEF Reply, QueuesInOrder, InOrder
  <2>2. /\ UNCHANGED <<supervisor, sent, proc>>
        /\ \A v \in Workers : v # w => handled'[v] = handled[v]
    BY <1>11 DEF TypeOK, Reply, supervisorVars
  <2> QED BY <2>1, <2>2 DEF ShutdownIsLast
<1>12. CASE UNCHANGED vars
  BY <1>5, <1>12 DEF vars, workerVars, supervisorVars
<1> QED
  BY StepCases, <1>2, <1>3, <1>4, <1>6, <1>7, <1>8, <1>9, <1>10, <1>11, <1>12, Zenon

\* A call puts its command once, on one worker's queue.
LEMMA SentStep == TypeOK /\ SentOnce /\ [Next]_vars => SentOnce'
<1> SUFFICES ASSUME TypeOK, SentOnce, [Next]_vars PROVE SentOnce'
  OBVIOUS
<1> USE CommandsAssumption
<1>1. ASSUME NEW r \in Requests, NEW w \in Workers, Send(r, w) PROVE SentOnce'
  <2>1. r \in Commands /\ {w} \in SUBSET Workers /\ PutTo({w}, r)
    BY <1>1 DEF Commands, Send
  <2>2. call[r] = "new" /\ call'[r] = "waiting" /\ \A q \in Requests : q # r => call'[q] = call[q]
    BY <1>1 DEF TypeOK, Send
  <2>3. \A v \in Workers : \A i \in 1..Len(sent[v]) : sent[v][i] # r
    BY <2>2 DEF SentOnce
  <2>0. \A v \in Workers : \A i \in 1..Len(sent'[v]) : OldOrNew({w}, r, v, i)
    BY <2>1, PutAdds
  <2>4. ASSUME NEW u \in Workers, NEW v \in Workers,
               NEW i \in 1..Len(sent'[u]), NEW j \in 1..Len(sent'[v]),
               sent'[u][i] = sent'[v][j], sent'[u][i] \in Requests
        PROVE  u = v /\ i = j
    <3>1. OldOrNew({w}, r, u, i) /\ OldOrNew({w}, r, v, j)
      BY <2>0
    <3> QED BY <2>3, <2>4, <3>1 DEF SentOnce, OldOrNew
  <2>5. ASSUME NEW v \in Workers, NEW i \in 1..Len(sent'[v]), sent'[v][i] \in Requests
        PROVE  call'[sent'[v][i]] # "new"
    <3>1. OldOrNew({w}, r, v, i)
      BY <2>0
    <3> QED BY <2>2, <2>5, <3>1 DEF SentOnce, OldOrNew
  <2> QED BY <2>4, <2>5 DEF SentOnce
<1>2. ASSUME NEW targets \in SUBSET Workers, NEW c \in Commands \ Requests,
             PutTo(targets, c), UNCHANGED call
      PROVE  SentOnce'
  <2>1. ASSUME NEW v \in Workers, NEW i \in 1..Len(sent'[v]), sent'[v][i] \in Requests
        PROVE  i \in 1..Len(sent[v]) /\ sent'[v][i] = sent[v][i]
    <3>1. \A u \in Workers : \A j \in 1..Len(sent'[u]) : OldOrNew(targets, c, u, j)
      BY <1>2, PutAdds
    <3> QED BY <2>1, <3>1 DEF OldOrNew
  <2> QED BY <1>2, <2>1 DEF SentOnce
<1>3. ASSUME NEW c \in Posts, NEW targets \in SUBSET Workers, Post(c, targets)
      PROVE  SentOnce'
  <2>1. c \in Commands \ Requests
    BY DEF Commands
  <2> QED BY <1>2, <1>3, <2>1 DEF Post, supervisorVars
<1>4. CASE Stop
  <2>1. Shutdown \in Commands \ Requests /\ Workers \in SUBSET Workers
    BY DEF Commands
  <2> QED BY <1>2, <1>4, <2>1 DEF Stop
<1>5. ASSUME UNCHANGED sent, \A r \in Requests : call'[r] = "new" => call[r] = "new"
      PROVE  SentOnce'
  BY <1>5 DEF SentOnce
<1>6. ASSUME NEW r \in Requests, Resume(r) \/ Timeout(r) \/ Cancel(r) PROVE SentOnce'
  <2>1. PICK outcome \in Outcomes : Return(r, outcome)
    BY <1>6, Zenon DEF Resume, Timeout, Cancel, Outcomes
  <2>2. \A q \in Requests : call'[q] = "new" => call[q] = "new"
    BY <2>1 DEF TypeOK, Return, Outcomes
  <2> QED BY <1>5, <2>1, <2>2 DEF Return
<1>7. ASSUME NEW n \in [Workers -> Nat], CollectorPass(n) PROVE SentOnce'
  BY <1>5, <1>7 DEF CollectorPass
<1>8. CASE ExitMain
  BY <1>5, <1>8 DEF ExitMain
<1>9. ASSUME NEW w \in Workers,
             \/ Startup(w) \/ TakeCommand(w) \/ TakeShutdown(w) \/ Execute(w)
             \/ \E ok \in BOOLEAN : Reply(w, ok)
             \/ \E k \in Nat : Down(w, k)
      PROVE  SentOnce'
  BY <1>5, <1>9
  DEF Startup, TakeCommand, TakeShutdown, Execute, Reply, Down, supervisorVars
<1>10. CASE UNCHANGED vars
  BY <1>5, <1>10 DEF vars, supervisorVars
<1> QED BY StepCases, <1>1, <1>3, <1>4, <1>6, <1>7, <1>8, <1>9, <1>10, Zenon

----------------------------------------------------------------------------
(* What is carried out, and when.                                           *)

\* A command that has had its turn keeps it: histories only grow.
LEMMA TurnStep ==
  ASSUME TypeOK, [Next]_vars
  PROVE  \A w \in Workers : \A i \in 1..Len(sent[w]) : \A r :
           Turn(r, w, i) => i \in 1..Len(sent'[w]) /\ Turn(r, w, i)'
<1> SUFFICES ASSUME NEW w \in Workers, NEW i \in 1..Len(sent[w]), NEW r, Turn(r, w, i)
             PROVE  i \in 1..Len(sent'[w]) /\ Turn(r, w, i)'
  OBVIOUS
<1> USE CommandsAssumption
<1>1. ASSUME NEW targets \in SUBSET Workers, NEW cmd \in Commands, PutTo(targets, cmd),
             UNCHANGED <<workerVars, handled>>
      PROVE  i \in 1..Len(sent'[w]) /\ Turn(r, w, i)'
  <2>1. i \in 1..Len(sent'[w]) /\ sent'[w][i] = sent[w][i]
    BY <1>1 DEF TypeOK, PutTo
  <2> QED BY <1>1, <2>1 DEF Turn, workerVars
<1>2. ASSUME NEW q \in Requests, NEW v \in Workers, Send(q, v)
      PROVE  i \in 1..Len(sent'[w]) /\ Turn(r, w, i)'
  <2>1. q \in Commands /\ {v} \in SUBSET Workers
    BY DEF Commands
  <2> QED BY <1>1, <1>2, <2>1 DEF Send
<1>3. ASSUME NEW c \in Posts, NEW targets \in SUBSET Workers, Post(c, targets)
      PROVE  i \in 1..Len(sent'[w]) /\ Turn(r, w, i)'
  <2>1. c \in Commands
    BY DEF Commands
  <2> QED BY <1>1, <1>3, <2>1 DEF Post
<1>4. ASSUME Stop PROVE i \in 1..Len(sent'[w]) /\ Turn(r, w, i)'
  <2>1. Shutdown \in Commands /\ Workers \in SUBSET Workers
    BY DEF Commands
  <2> QED BY <1>1, <1>4, <2>1 DEF Stop
<1>5. ASSUME UNCHANGED sent,
             proc[w] = "down" => proc'[w] = "down",
             \/ handled'[w] = handled[w] /\ (acted[w] => acted'[w] \/ proc'[w] = "down")
             \/ Len(handled'[w]) = Len(handled[w]) + 1
      PROVE  i \in 1..Len(sent'[w]) /\ Turn(r, w, i)'
  <2>1. Len(handled[w]) \in Nat
    BY DEF TypeOK
  <2> QED BY <1>5, <2>1 DEF Turn
<1>6. ASSUME UNCHANGED <<sent, proc, acted, handled>>
      PROVE  i \in 1..Len(sent'[w]) /\ Turn(r, w, i)'
  BY <1>5, <1>6
<1>7. ASSUME NEW n \in [Workers -> Nat], CollectorPass(n)
      PROVE  i \in 1..Len(sent'[w]) /\ Turn(r, w, i)'
  BY <1>6, <1>7 DEF CollectorPass, workerVars
<1>8. ASSUME NEW q \in Requests, Resume(q) \/ Timeout(q) \/ Cancel(q)
      PROVE  i \in 1..Len(sent'[w]) /\ Turn(r, w, i)'
  BY <1>6, <1>8 DEF Resume, Timeout, Cancel, Return, workerVars
<1>9. ASSUME ExitMain PROVE i \in 1..Len(sent'[w]) /\ Turn(r, w, i)'
  BY <1>6, <1>9 DEF ExitMain, workerVars
<1>10. ASSUME NEW v \in Workers,
              \/ Startup(v) \/ TakeCommand(v) \/ Execute(v) \/ \E k \in Nat : Down(v, k)
       PROVE  i \in 1..Len(sent'[w]) /\ Turn(r, w, i)'
  <2>1. /\ UNCHANGED <<sent, handled>>
        /\ proc[w] = "down" => proc'[w] = "down"
        /\ acted[w] => acted'[w] \/ proc'[w] = "down"
    BY <1>10 DEF TypeOK, Startup, TakeCommand, Execute, Down
  <2> QED BY <1>5, <2>1
<1>11. ASSUME NEW v \in Workers, TakeShutdown(v) \/ \E ok \in BOOLEAN : Reply(v, ok)
       PROVE  i \in 1..Len(sent'[w]) /\ Turn(r, w, i)'
  <2>1. /\ UNCHANGED sent
        /\ proc[w] = "down" => proc'[w] = "down"
        /\ w # v => handled'[w] = handled[w] /\ acted'[w] = acted[w]
    BY <1>11 DEF TypeOK, TakeShutdown, Idle, Reply
  <2>2. PICK c : handled' = [handled EXCEPT ![v] = Append(@, c)]
    BY <1>11 DEF TakeShutdown, Reply
  <2>3. w = v => Len(handled'[w]) = Len(handled[w]) + 1
    BY <2>2 DEF TypeOK
  <2> QED BY <1>5, <2>1, <2>3
<1>12. ASSUME UNCHANGED vars PROVE i \in 1..Len(sent'[w]) /\ Turn(r, w, i)'
  BY <1>6, <1>12 DEF vars, workerVars
<1> QED
  BY StepCases, <1>2, <1>3, <1>4, <1>7, <1>8, <1>9, <1>10, <1>11, <1>12, Zenon

\* A worker carries out the command in its hands for the first time.
LEMMA FirstTime ==
  ASSUME TypeOK, QueuesInOrder, SentOnce, ExecutedInTurn,
         NEW w \in Workers, Execute(w), current[w] \in Requests
  PROVE  executed[current[w]] = 0
<1>1. /\ current[w] = sent[w][Len(handled[w]) + 1] /\ Len(handled[w]) + 1 \in 1..Len(sent[w])
      /\ proc[w] = "listening" /\ ~acted[w] /\ Len(handled[w]) \in Nat
  <2>1. current[w] # None /\ Taken(w) = Len(handled[w]) + 1 /\ Len(handled[w]) \in Nat
    BY TakenIs DEF Execute, TypeOK
  <2>2. Len(sent[w]) \in Nat
    BY DEF TypeOK
  <2> QED BY <2>1, <2>2 DEF QueuesInOrder, InOrder, Execute
<1>2. ASSUME NEW v \in Workers, NEW i \in 1..Len(sent[v]), Turn(current[w], v, i)
      PROVE  FALSE
  <2>1. v = w /\ i = Len(handled[w]) + 1
    BY <1>1, <1>2 DEF SentOnce, Turn
  <2> QED BY <1>1, <1>2, <2>1 DEF Turn
<1> QED BY <1>2 DEF ExecutedInTurn

\* A handler carries a command out at most once, and only in its turn.
LEMMA ExecutedStep ==
  TypeOK /\ QueuesInOrder /\ SentOnce /\ ExecutedInTurn /\ [Next]_vars => ExecutedInTurn'
<1> SUFFICES ASSUME TypeOK, QueuesInOrder, SentOnce, ExecutedInTurn, [Next]_vars
             PROVE  ExecutedInTurn'
  OBVIOUS
<1>1. ASSUME UNCHANGED executed,
             \A w \in Workers : acted'[w] => acted[w] /\ current'[w] = current[w]
      PROVE  ExecutedInTurn'
  <2>1. ASSUME NEW r \in Requests, executed'[r] = 1
        PROVE  \E w \in Workers : \E i \in 1..Len(sent'[w]) : Turn(r, w, i)'
    <3>1. PICK w \in Workers : \E i \in 1..Len(sent[w]) : Turn(r, w, i)
      BY <1>1, <2>1 DEF ExecutedInTurn
    <3>2. PICK i \in 1..Len(sent[w]) : Turn(r, w, i)
      BY <3>1
    <3>3. i \in 1..Len(sent'[w]) /\ Turn(r, w, i)'
      BY <3>2, TurnStep
    <3> QED BY <3>3
  <2> QED BY <1>1, <2>1 DEF ExecutedInTurn
<1>2. ASSUME NEW w \in Workers, Execute(w) PROVE ExecutedInTurn'
  <2>1. \A r \in Requests : executed'[r] = executed[r] + (IF current[w] = r THEN 1 ELSE 0)
    BY <1>2 DEF Execute
  <2>2. current[w] \in Requests => executed[current[w]] = 0
    BY <1>2, FirstTime
  <2>3. \A r \in Requests : /\ executed'[r] \in {0, 1}
                            /\ executed[r] = 1 => executed'[r] = 1
                            /\ executed'[r] = 1 => executed[r] = 1 \/ current[w] = r
    BY <2>1, <2>2 DEF ExecutedInTurn
  <2>4. ASSUME NEW r \in Requests, executed'[r] = 1
        PROVE  \E v \in Workers : \E i \in 1..Len(sent'[v]) : Turn(r, v, i)'
    <3>1. CASE executed[r] = 1
      <4>1. PICK v \in Workers : \E i \in 1..Len(sent[v]) : Turn(r, v, i)
        BY <3>1 DEF ExecutedInTurn
      <4>2. PICK i \in 1..Len(sent[v]) : Turn(r, v, i)
        BY <4>1
      <4> QED BY <4>2, TurnStep
    <3>2. CASE current[w] = r
      <4>1. current[w] # None /\ Taken(w) = Len(handled[w]) + 1 /\ Len(handled[w]) \in Nat
            /\ Len(sent[w]) \in Nat
        BY <1>2, TakenIs DEF TypeOK, Execute
      <4>2. r = sent[w][Len(handled[w]) + 1] /\ Len(handled[w]) + 1 \in 1..Len(sent[w])
        BY <3>2, <4>1 DEF QueuesInOrder, InOrder
      <4>3. sent' = sent /\ handled' = handled /\ acted'[w]
        BY <1>2 DEF TypeOK, Execute
      <4>4. Turn(r, w, Len(handled[w]) + 1)'
        BY <4>2, <4>3 DEF Turn
      <4> QED BY <4>2, <4>3, <4>4
    <3> QED BY <2>3, <2>4, <3>1, <3>2
  <2>5. ASSUME NEW v \in Workers, acted'[v], current'[v] \in Requests
        PROVE  executed'[current'[v]] = 1
    <3>1. current' = current /\ (v # w => acted[v])
      BY <1>2, <2>5 DEF TypeOK, Execute
    <3>2. CASE v = w
      BY <2>1, <2>2, <2>5, <3>1, <3>2
    <3>3. CASE v # w
      BY <2>3, <2>5, <3>1, <3>3 DEF ExecutedInTurn
    <3> QED BY <3>2, <3>3
  <2> QED BY <2>3, <2>4, <2>5 DEF ExecutedInTurn
<1>3. ASSUME NEW r \in Requests, NEW w \in Workers, Send(r, w) PROVE ExecutedInTurn'
  BY <1>1, <1>3 DEF Send, workerVars
<1>4. ASSUME NEW c \in Posts, NEW targets \in SUBSET Workers, Post(c, targets)
      PROVE  ExecutedInTurn'
  BY <1>1, <1>4 DEF Post, workerVars
<1>5. ASSUME NEW n \in [Workers -> Nat], CollectorPass(n) PROVE ExecutedInTurn'
  BY <1>1, <1>5 DEF CollectorPass, workerVars
<1>6. ASSUME NEW r \in Requests, Resume(r) \/ Timeout(r) \/ Cancel(r) PROVE ExecutedInTurn'
  BY <1>1, <1>6 DEF Resume, Timeout, Cancel, Return, workerVars
<1>7. CASE Stop \/ ExitMain
  BY <1>1, <1>7 DEF Stop, ExitMain, workerVars
<1>8. ASSUME NEW w \in Workers,
             \/ Startup(w) \/ TakeCommand(w) \/ TakeShutdown(w)
             \/ \E ok \in BOOLEAN : Reply(w, ok)
             \/ \E k \in Nat : Down(w, k)
      PROVE  ExecutedInTurn'
  <2>1. UNCHANGED executed
    BY <1>8 DEF Startup, TakeCommand, TakeShutdown, Reply, Down
  <2>2. ASSUME NEW v \in Workers, acted'[v] PROVE acted[v] /\ current'[v] = current[v]
    <3>1. TakeCommand(w) => ~acted[w]
      BY DEF TakeCommand, Idle, QueuesInOrder, InOrder
    <3> QED BY <1>8, <2>2, <3>1 DEF TypeOK, Startup, TakeCommand, TakeShutdown, Reply, Down
  <2> QED BY <1>1, <2>1, <2>2
<1>9. CASE UNCHANGED vars
  BY <1>1, <1>9 DEF vars, workerVars
<1> QED BY StepCases, <1>2, <1>3, <1>4, <1>5, <1>6, <1>7, <1>8, <1>9, Zenon

----------------------------------------------------------------------------
(* What is answered.                                                        *)

\* What once was a legitimate answer to r remains one.
LEMMA HonestStep ==
  ASSUME TypeOK, ExecutedInTurn, ExecutedInTurn', [Next]_vars
  PROVE  \A r \in Requests : \A a \in Answer : Honest(r, a) => Honest(r, a)'
<1>1. ASSUME NEW r \in Requests PROVE executed[r] = 1 => executed'[r] = 1
  <2>1. executed' = executed \/ executed'[r] \in {executed[r], executed[r] + 1}
    <3>1. ASSUME NEW w \in Workers, Execute(w)
          PROVE  executed'[r] \in {executed[r], executed[r] + 1}
      BY <3>1 DEF TypeOK, Execute
    <3>2. (\E w \in Workers : Execute(w)) \/ executed' = executed
      BY StepCases
      DEF Send, Post, CollectorPass, Resume, Timeout, Cancel, Return, Stop, ExitMain,
          Startup, TakeCommand, TakeShutdown, Reply, Down, vars
    <3> QED BY <3>1, <3>2
  <2>2. executed[r] \in {0, 1} /\ executed'[r] \in {0, 1}
    BY DEF ExecutedInTurn
  <2> QED BY <2>1, <2>2
<1>2. ASSUME NEW w \in Workers, NEW i \in 1..Len(handled[w])
      PROVE  i \in 1..Len(handled'[w]) /\ handled'[w][i] = handled[w][i]
  <2>1. ASSUME NEW v \in Workers, NEW c \in Commands,
               handled' = [handled EXCEPT ![v] = Append(@, c)]
        PROVE  i \in 1..Len(handled'[w]) /\ handled'[w][i] = handled[w][i]
    BY <2>1 DEF TypeOK
  <2>2. ASSUME NEW v \in Workers, TakeShutdown(v) \/ \E ok \in BOOLEAN : Reply(v, ok)
        PROVE  \E c \in Commands : handled' = [handled EXCEPT ![v] = Append(@, c)]
    <3>1. Shutdown \in Commands /\ (current[v] # None => current[v] \in Commands)
      BY DEF TypeOK, Commands
    <3> QED BY <2>2, <3>1 DEF TakeShutdown, Reply
  <2>3. \/ handled' = handled
        \/ \E v \in Workers : TakeShutdown(v) \/ \E ok \in BOOLEAN : Reply(v, ok)
    BY StepCases
    DEF Send, Post, CollectorPass, Resume, Timeout, Cancel, Return, Stop, ExitMain,
        Startup, TakeCommand, Execute, Down, vars
  <2> QED BY <2>1, <2>2, <2>3
<1> QED BY <1>1, <1>2 DEF Honest

\* What data_collector leaves in a queue is what came after the n it took.
LEMMA DropFirst ==
  ASSUME NEW S, NEW q \in Seq(S), NEW n \in 0..Len(q)
  PROVE  /\ Len(SubSeq(q, n + 1, Len(q))) = Len(q) - n
         /\ \A i \in 1..(Len(q) - n) : SubSeq(q, n + 1, Len(q))[i] = q[n + i]
<1>1. Len(q) \in Nat
  OBVIOUS
<1>2. Len(SubSeq(q, n + 1, Len(q))) = Len(q) - n
  BY <1>1
<1> QED BY <1>1, <1>2

\* A handler answers its own call only, after the effect if it reports success.
LEMMA ResponsesStep ==
  ASSUME TypeOK, TypeOK', QueuesInOrder, ExecutedInTurn, ExecutedInTurn', ResponsesHonest,
         [Next]_vars
  PROVE  ResponsesHonest'
<1> USE CommandsAssumption
<1>1. ASSUME NEW w \in Workers, NEW i \in 1..Len(dataQueue'[w]),
             NEW j \in 1..Len(dataQueue[w]), dataQueue'[w][i] = dataQueue[w][j]
      PROVE  \E r \in Requests, a \in Answer :
               dataQueue'[w][i] = [id |-> r, answer |-> a] /\ Honest(r, a)'
  <2>1. dataQueue[w][j] \in Response
    BY DEF TypeOK
  <2>2. PICK r \in Requests, a \in Answer : dataQueue[w][j] = [id |-> r, answer |-> a]
    BY <2>1 DEF Response
  <2>3. Honest(r, a)
    BY <2>2 DEF ResponsesHonest, HonestFrom
  <2>4. Honest(r, a)'
    BY <2>3, HonestStep
  <2> QED BY <1>1, <2>2, <2>4
<1>2. ASSUME NEW w \in Workers,
             \A i \in 1..Len(dataQueue'[w]) :
               \E r \in Requests, a \in Answer :
                 dataQueue'[w][i] = [id |-> r, answer |-> a] /\ Honest(r, a)'
      PROVE  HonestFrom(w)'
  <2>1. ASSUME NEW i \in 1..Len(dataQueue'[w])
        PROVE  Honest(dataQueue[w][i].id, dataQueue[w][i].answer)'
    <3>1. PICK r \in Requests, a \in Answer :
            dataQueue'[w][i] = [id |-> r, answer |-> a] /\ Honest(r, a)'
      BY <1>2
    <3>2. dataQueue'[w][i].id = r /\ dataQueue'[w][i].answer = a
      BY <3>1
    <3> QED BY <3>1, <3>2 DEF Honest
  <2> QED BY <2>1 DEF HonestFrom
<1>3. ASSUME NEW w \in Workers,
             \A i \in 1..Len(dataQueue'[w]) :
               \E j \in 1..Len(dataQueue[w]) : dataQueue'[w][i] = dataQueue[w][j]
      PROVE  HonestFrom(w)'
  BY <1>1, <1>2, <1>3
<1>4. ASSUME UNCHANGED dataQueue PROVE ResponsesHonest'
  BY <1>3, <1>4 DEF ResponsesHonest
<1>5. ASSUME NEW n \in [Workers -> Nat], CollectorPass(n) PROVE ResponsesHonest'
  <2>1. ASSUME NEW w \in Workers, NEW i \in 1..Len(dataQueue'[w])
        PROVE  n[w] + i \in 1..Len(dataQueue[w]) /\ dataQueue'[w][i] = dataQueue[w][n[w] + i]
    <3>1. /\ n[w] \in Nat /\ n[w] <= Len(dataQueue[w])
          /\ dataQueue[w] \in Seq(Response)
          /\ dataQueue'[w] = SubSeq(dataQueue[w], n[w] + 1, Len(dataQueue[w]))
      BY <1>5 DEF CollectorPass, TypeOK
    <3>2. Len(dataQueue[w]) \in Nat /\ n[w] \in 0..Len(dataQueue[w])
      BY <3>1
    <3>3. i \in 1..(Len(dataQueue[w]) - n[w]) /\ dataQueue'[w][i] = dataQueue[w][n[w] + i]
      BY <3>1, <3>2, DropFirst
    <3> QED BY <3>2, <3>3
  <2> QED BY <1>3, <2>1 DEF ResponsesHonest
<1>6. ASSUME NEW w \in Workers, NEW k \in Nat, Down(w, k) PROVE ResponsesHonest'
  <2>1. ASSUME NEW v \in Workers, NEW i \in 1..Len(dataQueue'[v])
        PROVE  i \in 1..Len(dataQueue[v]) /\ dataQueue'[v][i] = dataQueue[v][i]
    <3>1. dataQueue[v] \in Seq(Response) /\ k <= Len(dataQueue[w])
      BY <1>6 DEF Down, TypeOK
    <3>2. dataQueue'[v] = IF v = w THEN SubSeq(dataQueue[v], 1, k) ELSE dataQueue[v]
      BY <1>6 DEF Down, TypeOK
    <3> QED BY <3>1, <3>2
  <2> QED BY <1>3, <2>1 DEF ResponsesHonest
<1>7. ASSUME NEW w \in Workers, NEW ok \in BOOLEAN, Reply(w, ok) PROVE ResponsesHonest'
  <2>1. CASE current[w] \notin Requests
    BY <1>4, <1>7, <2>1 DEF Reply
  <2>2. CASE current[w] \in Requests
    <3>1. PICK r \in Requests : r = current[w]
      BY <2>2
    <3> DEFINE a == [req |-> r, ok |-> ok]
               m == [id |-> r, answer |-> a]
    <3>2. a \in Answer /\ m \in Response
      BY DEF Answer, Response
    <3>3. dataQueue' = [dataQueue EXCEPT ![w] = Append(@, m)]
      BY <1>7, <3>1 DEF Reply
    <3>4. Honest(r, a)'
      <4>1. ok => executed[r] = 1
        BY <1>7, <3>1 DEF Reply, ExecutedInTurn
      <4>2. handled[w] \in Seq(Commands) /\ r \in Commands
            /\ handled'[w] = Append(handled[w], r) /\ executed' = executed
        BY <1>7, <3>1 DEF Reply, TypeOK, Commands
      <4>3. Len(handled[w]) + 1 \in 1..Len(handled'[w])
            /\ handled'[w][Len(handled[w]) + 1] = r
        BY <4>2
      <4> QED BY <4>1, <4>2, <4>3 DEF Honest
    <3>5. ASSUME NEW i \in 1..Len(dataQueue'[w])
          PROVE  \/ \E j \in 1..Len(dataQueue[w]) : dataQueue'[w][i] = dataQueue[w][j]
                 \/ dataQueue'[w][i] = m
      <4> HIDE DEF m
      <4>1. dataQueue'[w] = Append(dataQueue[w], m) /\ dataQueue[w] \in Seq(Response)
        BY <3>3 DEF TypeOK
      <4> QED BY <3>2, <4>1
    <3>6. HonestFrom(w)'
      <4>1. ASSUME NEW i \in 1..Len(dataQueue'[w])
            PROVE  \E q \in Requests, b \in Answer :
                     dataQueue'[w][i] = [id |-> q, answer |-> b] /\ Honest(q, b)'
        <5>1. CASE \E j \in 1..Len(dataQueue[w]) : dataQueue'[w][i] = dataQueue[w][j]
          BY <1>1, <5>1
        <5>2. CASE dataQueue'[w][i] = m
          BY <3>2, <3>4, <5>2
        <5> QED BY <3>5, <5>1, <5>2
      <4> QED BY <1>2, <4>1
    <3>7. ASSUME NEW v \in Workers, v # w PROVE HonestFrom(v)'
      BY <1>3, <3>3, <3>7 DEF TypeOK
    <3> QED BY <3>6, <3>7 DEF ResponsesHonest
  <2> QED BY <2>1, <2>2
<1>8. ASSUME NEW r \in Requests, NEW w \in Workers, Send(r, w) PROVE ResponsesHonest'
  BY <1>4, <1>8 DEF Send
<1>9. ASSUME NEW c \in Posts, NEW targets \in SUBSET Workers, Post(c, targets)
      PROVE  ResponsesHonest'
  BY <1>4, <1>9 DEF Post
<1>10. ASSUME NEW r \in Requests, Resume(r) \/ Timeout(r) \/ Cancel(r)
       PROVE  ResponsesHonest'
  BY <1>4, <1>10 DEF Resume, Timeout, Cancel, Return
<1>11. ASSUME Stop \/ ExitMain PROVE ResponsesHonest'
  BY <1>4, <1>11 DEF Stop, ExitMain
<1>12. ASSUME NEW w \in Workers, Startup(w) \/ TakeCommand(w) \/ TakeShutdown(w) \/ Execute(w)
       PROVE  ResponsesHonest'
  BY <1>4, <1>12 DEF Startup, TakeCommand, TakeShutdown, Execute
<1>13. ASSUME UNCHANGED vars PROVE ResponsesHonest'
  BY <1>4, <1>13 DEF vars
<1> QED
  BY StepCases, <1>5, <1>6, <1>7, <1>8, <1>9, <1>10, <1>11, <1>12, <1>13, Zenon

\* data_collector sets a future to a response that carries the call's own id.
LEMMA FuturesStep ==
  ASSUME TypeOK, PendingExact, ExecutedInTurn, ExecutedInTurn', ResponsesHonest,
         FuturesHonest, [Next]_vars
  PROVE  FuturesHonest'
<1> USE NoAnswerAssumption
<1>1. ASSUME NEW r \in Requests, NEW a \in Answer, future[r] = a PROVE Honest(r, a)'
  <2>1. Honest(r, a)
    BY <1>1 DEF FuturesHonest
  <2> QED BY <2>1, HonestStep
<1>2. ASSUME NEW r \in Requests, future'[r] = future[r], future'[r] # None
      PROVE  Honest(r, future[r])'
  <2>1. PICK a \in Answer : future[r] = a
    BY <1>2 DEF TypeOK
  <2>2. Honest(r, a)'
    BY <1>1, <2>1
  <2> QED BY <1>2, <2>1, <2>2 DEF Honest
<1>3. ASSUME UNCHANGED future,
             \A r \in Requests : call'[r] \in {"ok", "error"} =>
               \/ call'[r] = call[r]
               \/ future[r] # None /\ (future[r].ok <=> call'[r] = "ok")
      PROVE  FuturesHonest'
  <2>1. ASSUME NEW r \in Requests, future'[r] # None PROVE Honest(r, future[r])'
    BY <1>2, <1>3, <2>1
  <2>2. ASSUME NEW r \in Requests, call'[r] \in {"ok", "error"}
        PROVE  future'[r] # None /\ (future'[r].ok <=> call'[r] = "ok")
    BY <1>3, <2>2 DEF FuturesHonest
  <2> QED BY <2>1, <2>2 DEF FuturesHonest
<1>4. ASSUME UNCHANGED <<call, future>> PROVE FuturesHonest'
  BY <1>3, <1>4
<1>5. ASSUME NEW n \in [Workers -> Nat], CollectorPass(n) PROVE FuturesHonest'
  <2>1. ASSUME NEW r \in Requests
        PROVE  \/ future'[r] = future[r]
               \/ call[r] = "waiting" /\ future'[r] \in AnswersFor(r, n)
    BY <1>5 DEF CollectorPass, SetResults, PendingExact
  <2>2. ASSUME NEW r \in Requests, NEW a \in AnswersFor(r, n) PROVE a \in Answer /\ Honest(r, a)'
    <3>0. PICK w \in Workers :
            \E j \in 1..n[w] : dataQueue[w][j].id = r /\ a = dataQueue[w][j].answer
      BY DEF AnswersFor
    <3>1. PICK j \in 1..n[w] : dataQueue[w][j].id = r /\ a = dataQueue[w][j].answer
      BY <3>0
    <3>2. j \in 1..Len(dataQueue[w])
      BY <1>5 DEF CollectorPass, TypeOK
    <3>3. dataQueue[w][j] \in Response
      BY <3>2 DEF TypeOK
    <3>4. a \in Answer
      BY <3>1, <3>3 DEF Response
    <3>5. Honest(r, a)
      BY <3>1, <3>2 DEF ResponsesHonest, HonestFrom
    <3> QED BY <3>4, <3>5, HonestStep
  <2>3. ASSUME NEW r \in Requests, future'[r] # None PROVE Honest(r, future[r])'
    <3>1. CASE future'[r] = future[r]
      BY <1>2, <2>3, <3>1
    <3>2. CASE future'[r] \in AnswersFor(r, n)
      <4>1. PICK a \in AnswersFor(r, n) : future'[r] = a
        BY <3>2
      <4>2. Honest(r, a)'
        BY <2>2
      <4> QED BY <4>1, <4>2 DEF Honest
    <3> QED BY <2>1, <3>1, <3>2
  <2>4. ASSUME NEW r \in Requests, call'[r] \in {"ok", "error"}
        PROVE  future'[r] # None /\ (future'[r].ok <=> call'[r] = "ok")
    <3>1. call'[r] = call[r] /\ future'[r] = future[r]
      BY <1>5, <2>1, <2>4 DEF CollectorPass
    <3> QED BY <2>4, <3>1 DEF FuturesHonest
  <2> QED BY <2>3, <2>4 DEF FuturesHonest
<1>6. ASSUME NEW r \in Requests, NEW outcome, Return(r, outcome),
             outcome \in {"ok", "error"} => future[r] # None /\ (future[r].ok <=> outcome = "ok")
      PROVE  FuturesHonest'
  <2>1. UNCHANGED future /\ \A q \in Requests : call'[q] = IF q = r THEN outcome ELSE call[q]
    BY <1>6 DEF TypeOK, Return
  <2> QED BY <1>3, <1>6, <2>1
<1>7. ASSUME NEW r \in Requests, Resume(r) PROVE FuturesHonest'
  BY <1>6, <1>7 DEF Resume
<1>8. ASSUME NEW r \in Requests, Timeout(r) \/ Cancel(r) PROVE FuturesHonest'
  BY <1>6, <1>8 DEF Timeout, Cancel
<1>9. ASSUME NEW r \in Requests, NEW w \in Workers, Send(r, w) PROVE FuturesHonest'
  BY <1>3, <1>9 DEF TypeOK, Send
<1>10. ASSUME NEW c \in Posts, NEW targets \in SUBSET Workers, Post(c, targets)
       PROVE  FuturesHonest'
  BY <1>4, <1>10 DEF Post, supervisorVars
<1>11. ASSUME Stop \/ ExitMain PROVE FuturesHonest'
  BY <1>4, <1>11 DEF Stop, ExitMain
<1>12. ASSUME NEW w \in Workers,
              \/ Startup(w) \/ TakeCommand(w) \/ TakeShutdown(w) \/ Execute(w)
              \/ \E ok \in BOOLEAN : Reply(w, ok)
              \/ \E k \in Nat : Down(w, k)
       PROVE  FuturesHonest'
  BY <1>4, <1>12
  DEF Startup, TakeCommand, TakeShutdown, Execute, Reply, Down, supervisorVars
<1>13. ASSUME UNCHANGED vars PROVE FuturesHonest'
  BY <1>4, <1>13 DEF vars, supervisorVars
<1> QED
  BY StepCases, <1>5, <1>7, <1>8, <1>9, <1>10, <1>11, <1>12, <1>13, Zenon

----------------------------------------------------------------------------
(* The theorems.                                                            *)

\* The strengthening holds when the workers have been spawned.
LEMMA IInvInit == Init => IInv
  BY TypeInit, CommandsAssumption
  DEF Init, IInv, PendingExact, QueuesInOrder, InOrder, PrefixOf, RestOf, Taken,
      ShutdownIsLast, SentOnce, ExecutedInTurn, ResponsesHonest, HonestFrom, FuturesHonest

\* Every step of supervisor or worker preserves the strengthening.
LEMMA IInvStep == IInv /\ [Next]_vars => IInv'
  BY TypeStep, PendingStep, QueuesStep, ShutdownStep, SentStep, ExecutedStep,
     ResponsesStep, FuturesStep
  DEF IInv

\* The strengthening holds throughout: what is on the way between caller and
\* worker, in either direction, is in order and tells the truth.
THEOREM Invariance == Spec => []IInv
  BY IInvInit, IInvStep, PTL DEF Spec

\* A caller gets the answer its own command produced, whatever timed out,
\* crashed or was overtaken in between.
THEOREM AnswerIsOwnCorrect == Spec => []AnswerIsOwn
<1>1. IInv => AnswerIsOwn
  <2> SUFFICES ASSUME IInv, NEW r \in Requests, call[r] \in {"ok", "error"}
               PROVE  future[r] = [req |-> r, ok |-> call[r] = "ok"]
    BY DEF AnswerIsOwn
  <2>1. future[r] \in Answer /\ future[r].req = r /\ (future[r].ok <=> call[r] = "ok")
    BY DEF IInv, TypeOK, FuturesHonest, Honest
  <2> QED BY <2>1 DEF Answer
<1> QED BY Invariance, <1>1, PTL

\* An answered call proves that whatever was put on its worker's queue before
\* it has been dealt with, in that order.
THEOREM ServedInOrderCorrect == Spec => []AnswerMeansServedInOrder
<1>1. IInv => AnswerMeansServedInOrder
  <2> SUFFICES ASSUME IInv, NEW w \in Workers, NEW i \in DOMAIN sent[w],
                      sent[w][i] \in Requests, call[sent[w][i]] \in {"ok", "error"}
               PROVE  /\ i <= Len(handled[w])
                      /\ SubSeq(handled[w], 1, i) = SubSeq(sent[w], 1, i)
    BY DEF AnswerMeansServedInOrder
  <2> DEFINE r == sent[w][i]
  <2>1. /\ sent[w] \in Seq(Commands) /\ handled[w] \in Seq(Commands)
        /\ i \in 1..Len(sent[w])
    BY DEF IInv, TypeOK
  <2>2. PICK v \in Workers : \E j \in 1..Len(handled[v]) : handled[v][j] = r
    BY DEF IInv, FuturesHonest, Honest
  <2>3. PICK j \in 1..Len(handled[v]) : handled[v][j] = r
    BY <2>2
  <2>4. j \in 1..Len(sent[v]) /\ sent[v][j] = r
    <3>1. PrefixOf(handled[v], sent[v]) /\ Len(handled[v]) \in Nat /\ Len(sent[v]) \in Nat
      BY DEF IInv, TypeOK, QueuesInOrder, InOrder
    <3> QED BY <2>3, <3>1 DEF PrefixOf
  <2>5. v = w /\ j = i
    BY <2>1, <2>4 DEF IInv, SentOnce
  <2>6. i <= Len(handled[w])
    BY <2>3, <2>5
  <2>7. \A k \in 1..i : handled[w][k] = sent[w][k]
    BY <2>1, <2>6 DEF IInv, QueuesInOrder, InOrder, PrefixOf
  <2>8. SubSeq(handled[w], 1, i) = SubSeq(sent[w], 1, i)
    BY <2>1, <2>6, <2>7
  <2> QED BY <2>6, <2>8
<1> QED BY Invariance, <1>1, PTL

\* A worker in its orderly shutdown has served everything put on its queue.
THEOREM ClosesCorrect == Spec => []ClosesWithNothingUnserved
<1>1. IInv => ClosesWithNothingUnserved
  <2> SUFFICES ASSUME IInv, NEW w \in Workers, proc[w] = "closing"
               PROVE  handled[w] = sent[w]
    BY DEF ClosesWithNothingUnserved
  <2>1. handled[w] \in Seq(Commands) /\ sent[w] \in Seq(Commands)
    BY DEF IInv, TypeOK
  <2>2. Len(handled[w]) = Len(sent[w]) /\ \A i \in 1..Len(handled[w]) : handled[w][i] = sent[w][i]
    BY DEF IInv, ShutdownIsLast, QueuesInOrder, InOrder, PrefixOf
  <2> QED BY <2>1, <2>2
<1> QED BY Invariance, <1>1, PTL

\* Every step of the protocol is a step of CallContract or leaves it unchanged.
LEMMA ContractStep ==
  ASSUME IInv, [Next]_vars
  PROVE  [Contract!Next]_(Contract!vars)
<1> USE CommandsAssumption DEF Contract!vars
<1>1. TypeOK /\ call \in [Requests -> {"new", "waiting"} \cup Outcomes]
      /\ executed \in [Requests -> Nat]
  BY DEF IInv, TypeOK
<1>2. ASSUME UNCHANGED <<call, executed>> PROVE [Contract!Next]_(Contract!vars)
  BY <1>2
<1>3. ASSUME NEW r \in Requests, NEW w \in Workers, Send(r, w)
      PROVE  [Contract!Next]_(Contract!vars)
  <2>1. Contract!Open(r)
    BY <1>1, <1>3 DEF Send, Contract!Open
  <2> QED BY <2>1 DEF Contract!Next
<1>4. ASSUME NEW r \in Requests, NEW outcome \in Outcomes, Return(r, outcome),
             outcome = "ok" => executed[r] = 1
      PROVE  [Contract!Next]_(Contract!vars)
  <2>1. Contract!Return(r, outcome) /\ outcome \in Contract!Results
    BY <1>4 DEF Return, Outcomes, Contract!Return, Contract!Results
  <2> QED BY <2>1 DEF Contract!Next
<1>5. ASSUME NEW r \in Requests, Resume(r) PROVE [Contract!Next]_(Contract!vars)
  <2>1. future[r] # None => (future[r].ok => executed[r] = 1)
    BY DEF IInv, FuturesHonest, Honest
  <2>2. future[r] # None /\ Return(r, IF future[r].ok THEN "ok" ELSE "error")
    BY <1>5 DEF Resume
  <2>3. "ok" \in Outcomes /\ "error" \in Outcomes
    BY DEF Outcomes
  <2>4. CASE future[r].ok
    BY <1>4, <2>1, <2>2, <2>3, <2>4
  <2>5. CASE ~future[r].ok
    BY <1>4, <2>2, <2>3, <2>5
  <2> QED BY <2>4, <2>5
<1>6. ASSUME NEW r \in Requests, Timeout(r) \/ Cancel(r) PROVE [Contract!Next]_(Contract!vars)
  BY <1>4, <1>6 DEF Timeout, Cancel, Outcomes
<1>7. ASSUME NEW w \in Workers, Execute(w) PROVE [Contract!Next]_(Contract!vars)
  <2>1. UNCHANGED call
    BY <1>7 DEF Execute, supervisorVars
  <2>2. CASE current[w] \in Requests
    <3>1. PICK r \in Requests : r = current[w]
      BY <2>2
    <3>2. executed[r] = 0
      BY <1>7, <3>1, FirstTime DEF IInv
    <3>3. executed' = [executed EXCEPT ![r] = 1]
      <4>1. executed' = [q \in Requests |-> executed[q] + (IF r = q THEN 1 ELSE 0)]
        BY <1>7, <3>1 DEF Execute
      <4>2. \A q \in Requests : executed'[q] = IF q = r THEN 1 ELSE executed[q]
        BY <1>1, <3>2, <4>1
      <4> QED BY <1>1, <4>1, <4>2
    <3>4. call[r] # "new"
      <4>1. current[w] # None /\ Taken(w) = Len(handled[w]) + 1
            /\ Len(handled[w]) \in Nat /\ Len(sent[w]) \in Nat
        BY <1>1, <1>7, TakenIs DEF TypeOK, Execute
      <4>2. Taken(w) \in 1..Len(sent[w]) /\ sent[w][Taken(w)] = r
        BY <3>1, <4>1 DEF IInv, QueuesInOrder, InOrder
      <4> QED BY <4>2 DEF IInv, SentOnce
    <3>5. Contract!TakeEffect(r)
      BY <2>1, <3>2, <3>3, <3>4 DEF Contract!TakeEffect
    <3> QED BY <3>5 DEF Contract!Next
  <2>3. CASE current[w] \notin Requests
    <3>1. executed' = executed
      BY <1>1, <1>7, <2>3 DEF Execute
    <3> QED BY <1>2, <2>1, <3>1
  <2> QED BY <2>2, <2>3
<1>8. ASSUME NEW c \in Posts, NEW targets \in SUBSET Workers, Post(c, targets)
      PROVE  [Contract!Next]_(Contract!vars)
  BY <1>2, <1>8 DEF Post, supervisorVars
<1>9. ASSUME NEW n \in [Workers -> Nat], CollectorPass(n) PROVE [Contract!Next]_(Contract!vars)
  BY <1>2, <1>9 DEF CollectorPass
<1>10. ASSUME Stop \/ ExitMain PROVE [Contract!Next]_(Contract!vars)
  BY <1>2, <1>10 DEF Stop, ExitMain
<1>11. ASSUME NEW w \in Workers,
              \/ Startup(w) \/ TakeCommand(w) \/ TakeShutdown(w)
              \/ \E ok \in BOOLEAN : Reply(w, ok)
              \/ \E k \in Nat : Down(w, k)
       PROVE  [Contract!Next]_(Contract!vars)
  BY <1>2, <1>11 DEF Startup, TakeCommand, TakeShutdown, Reply, Down, supervisorVars
<1>12. ASSUME UNCHANGED vars PROVE [Contract!Next]_(Contract!vars)
  BY <1>2, <1>12 DEF vars, supervisorVars
<1> QED
  BY StepCases, <1>1, <1>3, <1>5, <1>6, <1>7, <1>8, <1>9, <1>10, <1>11, <1>12, Zenon

\* send_and_wait keeps CallContract: at most one result per call, at most one
\* effect, and success only after the effect.
THEOREM ContractCorrect == Spec => KeepsContract
<1>1. Init => Contract!Init
  BY DEF Init, Contract!Init
<1>2. IInv /\ [Next]_vars => [Contract!Next]_(Contract!vars)
  BY ContractStep
<1> QED BY Invariance, <1>1, <1>2, PTL DEF Spec, KeepsContract, Contract!Spec

=============================================================================
