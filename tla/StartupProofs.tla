--------------------------- MODULE StartupProofs ---------------------------
(***************************************************************************)
(* Proofs about Startup, for any host and any options.                     *)
(***************************************************************************)
EXTENDS Startup, TLAPS

\* Where the entry of a worker comes from: the loop over the entries, or the
\* fallback.
Regular ==
  /\ \A w \in 1..Len(resolved) :
       /\ resolved[w].entry \in 1..seen
       /\ interfaces[resolved[w].entry].enabled
       /\ resolved[w].objectIdentifier = interfaces[resolved[w].entry].objectIdentifier
  /\ \A v, w \in 1..Len(resolved) : v < w => resolved[v].entry < resolved[w].entry

NothingMatches == \A j \in Enabled : Matched(interfaces[j]) = {}

Fallen ==
  /\ phase \notin {"validating", "resolving"}
  /\ Len(resolved) = 1
  /\ resolved[1].entry \in {0, 1}
  /\ NothingMatches

\* While nothing is resolved, no enabled entry so far has found an adapter.
SoFar ==
  resolved = <<>> =>
    \A j \in Entries : j <= seen /\ interfaces[j].enabled => Matched(interfaces[j]) = {}

ResolvedInv ==
  /\ Regular \/ Fallen
  /\ SoFar
  /\ phase \in {"validating", "resolving"} => Regular /\ process = <<>>
  /\ phase = "validating" => resolved = <<>>
  /\ resolved # <<>> => phase # "validating" /\ UniqueIdentifiers
  /\ phase \in {"resolving", "spawning"} => UniqueIdentifiers

\* The router holds, under each name, the last worker of that name.
RouterInv ==
  /\ \A n \in Names : router[n] # 0 => resolved[router[n]].name = n
  /\ \A w \in Workers : router[resolved[w].name] >= w

ToldInv ==
  /\ phase \notin {"stopping", "ended"} => \A w \in Workers : process[w] # "killed"
  /\ phase = "stopping" => told = {w \in Workers : Tended(w)}
  /\ \A w \in Workers : process[w] = "killed" => w \in told \/ ~Tended(w)

IInv == TypeOK /\ ResolvedInv /\ RouterInv /\ ToldInv

----------------------------------------------------------------------------
(* Sequences.                                                               *)

\* What Append does.
LEMMA AppendType ==
  ASSUME NEW S, NEW s \in Seq(S), NEW e \in S
  PROVE  /\ Append(s, e) \in Seq(S)
         /\ Len(Append(s, e)) = Len(s) + 1
         /\ Append(s, e)[Len(s) + 1] = e
         /\ \A i \in 1..Len(s) : Append(s, e)[i] = s[i]
OBVIOUS

\* A function on the indices of a sequence is a sequence of that length.
LEMMA FunctionSeq ==
  ASSUME NEW S, NEW n \in Nat, NEW f \in [1..n -> S]
  PROVE  f \in Seq(S) /\ Len(f) = n
<1>1. f \in Seq(S)
  OBVIOUS
<1>. QED
  BY <1>1

----------------------------------------------------------------------------
(* Type correctness.                                                        *)

\* What the program starts from is of its type.
LEMMA InitTypeOK == Init => TypeOK
<1>. SUFFICES ASSUME Init PROVE TypeOK
  OBVIOUS
<1>1. adapters \in Seq(Adapter)
  BY StartupAssumption DEF Init
<1>2. interfaces \in Seq(Entry) /\ Len(interfaces) <= MaxEntries
  <2>1. PICK n \in 0..MaxEntries : interfaces \in [1..n -> Entry]
    BY DEF Init
  <2>2. n \in Nat /\ n <= MaxEntries
    BY <2>1, StartupAssumption
  <2>. QED
    BY <2>1, <2>2, FunctionSeq
<1>. QED
  BY <1>1, <1>2 DEF Init, TypeOK, Workers

\* An adapter to choose from has a name and an address.
LEMMA AvailableType ==
  ASSUME TypeOK, NEW i \in Available
  PROVE  /\ i \in 1..Len(adapters)
         /\ adapters[i].name \in Names /\ adapters[i].ips[1] \in Addresses
<1>1. i \in 1..Len(adapters) /\ adapters[i].ips # <<>>
  BY DEF Available
<1>2. adapters[i] \in Adapter
  BY <1>1 DEF TypeOK
<1>3. adapters[i].name \in Names /\ adapters[i].ips \in Seq(Addresses)
  BY <1>2 DEF Adapter
<1>4. adapters[i].ips[1] \in Addresses
  BY <1>1, <1>3
<1>. QED
  BY <1>1, <1>3, <1>4

\* Entry k with an adapter comes to a resolution of entry k.
LEMMA ResolveType ==
  ASSUME TypeOK, NEW k \in 1..Len(interfaces), NEW i \in Matched(interfaces[k])
  PROVE  /\ Resolve(k, i) \in Resolution
         /\ Resolve(k, i).entry = k
         /\ Resolve(k, i).objectIdentifier = interfaces[k].objectIdentifier
<1>1. interfaces[k] \in Entry /\ k \in 0..MaxEntries
  BY StartupAssumption DEF TypeOK
<1>2. i \in Available
  BY DEF Matched, FirstAvailable
<1>3. adapters[i].name \in Names /\ adapters[i].ips[1] \in Addresses
  BY <1>2, AvailableType
<1>. QED
  BY <1>1, <1>3 DEF Resolve, Resolution, Entry

\* The fallback comes to a resolution of the first entry, or of none.
LEMMA FallBackType ==
  ASSUME TypeOK, FallBack
  PROVE  /\ resolved' \in Seq(Resolution) /\ Len(resolved') = 1
         /\ resolved'[1].entry \in {0, 1}
<1>1. PICK i \in FirstAvailable :
        resolved' = <<[entry |-> IF interfaces = <<>> THEN 0 ELSE 1,
                       name |-> adapters[i].name, ip |-> adapters[i].ips[1],
                       objectIdentifier |-> IF interfaces = <<>> THEN Default
                                            ELSE interfaces[1].objectIdentifier]>>
  BY DEF FallBack
<1>2. adapters[i].name \in Names /\ adapters[i].ips[1] \in Addresses
  BY AvailableType DEF FirstAvailable
<1>3. interfaces # <<>> => interfaces[1] \in Entry /\ 1 \in 0..MaxEntries
  BY StartupAssumption DEF TypeOK
<1>4. resolved'[1] \in Resolution
  BY <1>1, <1>2, <1>3, StartupAssumption DEF Resolution, Entry
<1>. QED
  BY <1>1, <1>4

\* process is a function on the workers.
LEMMA ProcessType ==
  ASSUME TypeOK
  PROVE  Len(process) \in Nat /\ process \in [1..Len(process) -> {"running", "ended", "killed"}]
BY DEF TypeOK

\* Every step keeps the types.
LEMMA NextTypeOK == TypeOK /\ [Next]_vars => TypeOK'
<1>. SUFFICES ASSUME TypeOK, [Next]_vars PROVE TypeOK'
  OBVIOUS
<1>1. CASE Validate
  BY <1>1 DEF TypeOK, Validate, hostVars, Workers
<1>2. CASE ResolveNext
  <2>1. seen' \in 0..Len(interfaces')
    BY <1>2 DEF TypeOK, ResolveNext, hostVars
  <2>2. resolved' \in Seq(Resolution) /\ Len(resolved) <= Len(resolved')
    <3>1. CASE UNCHANGED resolved
      BY <3>1 DEF TypeOK
    <3>2. CASE \E i \in Matched(interfaces[seen + 1]) :
                 resolved' = Append(resolved, Resolve(seen + 1, i))
      <4>1. seen + 1 \in 1..Len(interfaces)
        BY <1>2 DEF TypeOK, ResolveNext
      <4>2. PICK r \in Resolution : resolved' = Append(resolved, r)
        BY <3>2, <4>1, ResolveType
      <4>. QED
        BY <4>2, AppendType DEF TypeOK
    <3>. QED
      BY <1>2, <3>1, <3>2 DEF ResolveNext
  <2>. QED
    BY <1>2, <2>1, <2>2 DEF TypeOK, ResolveNext, hostVars, Workers
<1>3. CASE Resolved
  <2>1. resolved' \in Seq(Resolution) /\ Len(process) <= Len(resolved')
    BY <1>3, FallBackType DEF TypeOK, Resolved
  <2>. QED
    BY <1>3, <2>1 DEF TypeOK, Resolved, hostVars, Workers
<1>4. CASE Spawn
  <2>1. CASE Len(process) < Len(resolved)
    <3>1. process' \in Seq({"running", "ended", "killed"}) /\ Len(process') = Len(process) + 1
      <4>1. process' = Append(process, "running")
        BY <1>4, <2>1 DEF Spawn
      <4>2. process \in Seq({"running", "ended", "killed"})
        BY DEF TypeOK
      <4>3. "running" \in {"running", "ended", "killed"}
        OBVIOUS
      <4>. QED
        BY <4>1, <4>2, <4>3, AppendType
    <3>2. router' \in [Names -> 0..Len(process')]
      BY <1>4, <2>1, <3>1 DEF TypeOK, Spawn, Register
    <3>. QED
      BY <1>4, <2>1, <3>1, <3>2 DEF TypeOK, Spawn, hostVars, Workers
  <2>2. CASE ~(Len(process) < Len(resolved))
    BY <1>4, <2>2 DEF TypeOK, Spawn, hostVars, Workers
  <2>. QED
    BY <2>1, <2>2
<1>5. CASE Stop
  BY <1>5 DEF TypeOK, Stop, hostVars, Workers
<1>6. CASE Exit
  <2>1. process' \in Seq({"running", "ended", "killed"}) /\ Len(process') = Len(process)
    <3>1. process' \in [1..Len(process) -> {"running", "ended", "killed"}]
      BY <1>6, ProcessType DEF Exit, Workers
    <3>. QED
      BY <3>1, ProcessType, FunctionSeq
  <2>. QED
    BY <1>6, <2>1 DEF TypeOK, Exit, hostVars, Workers
<1>7. CASE \E w \in 1..Len(process) : WorkerEnds(w) \/ Terminate(w)
  <2>1. process' \in Seq({"running", "ended", "killed"}) /\ Len(process') = Len(process)
    <3>1. process' \in [1..Len(process) -> {"running", "ended", "killed"}]
      BY <1>7, ProcessType DEF WorkerEnds, Terminate, Workers
    <3>. QED
      BY <3>1, ProcessType, FunctionSeq
  <2>. QED
    BY <1>7, <2>1 DEF TypeOK, WorkerEnds, Terminate, hostVars, Workers
<1>8. CASE UNCHANGED vars
  BY <1>8 DEF TypeOK, vars, hostVars, Workers
<1>. QED
  BY <1>1, <1>2, <1>3, <1>4, <1>5, <1>6, <1>7, <1>8 DEF Next

\* The variables keep their types.
THEOREM TypeCorrect == Spec => []TypeOK
BY InitTypeOK, NextTypeOK, PTL DEF Spec

----------------------------------------------------------------------------
(* The inductive invariant.                                                 *)

LEMMA InitInv == Init => IInv
<1>. SUFFICES ASSUME Init PROVE IInv
  OBVIOUS
<1>1. TypeOK
  BY InitTypeOK
<1>2. /\ phase = "validating" /\ seen = 0 /\ told = {}
      /\ resolved = <<>> /\ process = <<>> /\ router = [n \in Names |-> 0]
  BY DEF Init
<1>3. Len(resolved) = 0 /\ Len(process) = 0
  BY <1>2
<1>4. Regular
  BY <1>3 DEF Regular
<1>5. SoFar
  BY <1>2 DEF SoFar, Entries
<1>6. RouterInv
  BY <1>2, <1>3 DEF RouterInv, Workers
<1>7. ToldInv
  BY <1>2, <1>3 DEF ToldInv, Workers
<1>8. ResolvedInv
  BY <1>2, <1>4, <1>5 DEF ResolvedInv
<1>. QED
  BY <1>1, <1>6, <1>7, <1>8 DEF IInv

\* What an entry matches depends on the host only.
LEMMA MatchedSame ==
  ASSUME UNCHANGED hostVars
  PROVE  /\ Entries' = Entries /\ Enabled' = Enabled
         /\ UniqueIdentifiers' = UniqueIdentifiers
         /\ NothingMatches' = NothingMatches
<1>1. adapters' = adapters /\ interfaces' = interfaces
  BY DEF hostVars
<1>2. Entries' = Entries /\ Enabled' = Enabled
  BY <1>1 DEF Entries, Enabled
<1>3. Available' = Available
  BY <1>1 DEF Available
<1>4. FirstAvailable' = FirstAvailable
  BY <1>3 DEF FirstAvailable
<1>5. UniqueIdentifiers' = UniqueIdentifiers
  BY <1>1, <1>2 DEF UniqueIdentifiers
<1>6. NothingMatches' = NothingMatches
  BY <1>1, <1>2, <1>3, <1>4 DEF NothingMatches, Matched
<1>. QED
  BY <1>2, <1>5, <1>6

\* What is known of the resolved interfaces after the loop looked at one more.
LEMMA ResolveNextInv ==
  ASSUME IInv, TypeOK', ResolveNext
  PROVE  ResolvedInv'
<1>. DEFINE k == seen + 1
<1>1. k \in Entries /\ seen' = k /\ phase = "resolving" /\ phase' = phase
  BY DEF IInv, TypeOK, ResolveNext, Entries
<1>2. Regular /\ process = <<>> /\ UniqueIdentifiers /\ SoFar /\ ~Fallen
  BY <1>1 DEF IInv, ResolvedInv, Fallen
<1>3. interfaces' = interfaces /\ adapters' = adapters /\ process' = process
  BY DEF ResolveNext, hostVars
<1>4. CASE interfaces[k].enabled /\ Matched(interfaces[k]) # {}
  <2>1. PICK r \in Resolution :
          /\ resolved' = Append(resolved, r)
          /\ r.entry = k /\ r.objectIdentifier = interfaces[k].objectIdentifier
    BY <1>1, <1>4, ResolveType DEF ResolveNext, IInv, Entries
  <2>2. /\ Len(resolved') = Len(resolved) + 1 /\ Len(resolved) \in Nat
        /\ resolved'[Len(resolved) + 1] = r
        /\ \A w \in 1..Len(resolved) : resolved'[w] = resolved[w]
    BY <2>1, AppendType DEF IInv, TypeOK
  <2>3. \A w \in 1..Len(resolved') : w \in 1..Len(resolved) \/ w = Len(resolved) + 1
    BY <2>2
  <2>4. Regular'
    <3>1. \A w \in 1..Len(resolved) : resolved[w].entry \in 1..seen
      BY <1>2 DEF Regular
    <3>2. seen \in Nat
      BY DEF IInv, TypeOK
    <3>3. \A w \in 1..Len(resolved') :
             /\ resolved'[w].entry \in 1..k
             /\ interfaces[resolved'[w].entry].enabled
             /\ resolved'[w].objectIdentifier = interfaces[resolved'[w].entry].objectIdentifier
      BY <1>2, <1>4, <2>1, <2>2, <2>3, <3>1, <3>2 DEF Regular
    <3>4. \A v, w \in 1..Len(resolved') : v < w => resolved'[v].entry < resolved'[w].entry
      BY <1>2, <2>1, <2>2, <2>3, <3>1, <3>2 DEF Regular
    <3>. QED
      BY <1>1, <1>3, <3>3, <3>4 DEF Regular
  <2>5. resolved' # <<>>
    BY <2>2
  <2>. QED
    BY <1>1, <1>2, <1>3, <2>4, <2>5 DEF ResolvedInv, SoFar, UniqueIdentifiers, Enabled, Entries
<1>5. CASE ~(interfaces[k].enabled /\ Matched(interfaces[k]) # {})
  <2>1. resolved' = resolved
    BY <1>5 DEF ResolveNext
  <2>2. Regular'
    BY <1>1, <1>2, <1>3, <2>1 DEF Regular, IInv, TypeOK
  <2>3. SoFar'
    <3>. SUFFICES ASSUME resolved' = <<>>, NEW j \in Entries, j <= k, interfaces[j].enabled
                  PROVE  Matched(interfaces[j]) = {}
      BY <1>1, <1>3 DEF SoFar, Entries, Matched, FirstAvailable, Available
    <3>1. CASE j = k
      BY <1>5, <3>1
    <3>2. CASE j # k
      <4>1. j <= seen
        BY <3>2 DEF IInv, TypeOK, Entries
      <4>. QED
        BY <1>2, <2>1, <4>1 DEF SoFar
    <3>. QED
      BY <3>1, <3>2
  <2>. QED
    BY <1>1, <1>2, <1>3, <2>1, <2>2, <2>3 DEF ResolvedInv, UniqueIdentifiers, Enabled, Entries
<1>. QED
  BY <1>4, <1>5

\* ... and when it has looked at all of them.
LEMMA ResolvedStepInv ==
  ASSUME IInv, TypeOK', Resolved
  PROVE  ResolvedInv'
<1>1. Regular /\ process = <<>> /\ UniqueIdentifiers /\ SoFar /\ phase = "resolving"
  BY DEF IInv, ResolvedInv, Resolved
<1>2. /\ interfaces' = interfaces /\ adapters' = adapters /\ process' = process /\ seen' = seen
      /\ phase' \in {"spawning", "ended"}
  BY DEF Resolved, hostVars
<1>3. UniqueIdentifiers'
  BY <1>1, <1>2 DEF UniqueIdentifiers, Enabled, Entries
<1>4. CASE UNCHANGED resolved
  BY <1>1, <1>2, <1>3, <1>4 DEF ResolvedInv, Regular, SoFar, Entries, Matched, FirstAvailable, Available
<1>5. CASE resolved = <<>> /\ FallBack
  <2>. TypeOK
    BY DEF IInv
  <2>1. Len(resolved') = 1 /\ resolved'[1].entry \in {0, 1} /\ resolved' # <<>>
    <3>1. Len(resolved') = 1 /\ resolved'[1].entry \in {0, 1}
      BY <1>5, FallBackType
    <3>. QED
      BY <3>1
  <2>2. NothingMatches
    <3>. SUFFICES ASSUME NEW j \in Enabled PROVE Matched(interfaces[j]) = {}
      BY DEF NothingMatches
    <3>1. j \in Entries /\ j <= seen /\ interfaces[j].enabled
      BY DEF Resolved, Enabled, Entries, IInv, TypeOK
    <3>. QED
      BY <1>1, <1>5, <3>1 DEF SoFar
  <2>3. NothingMatches'
    BY <1>2, <2>2, MatchedSame DEF hostVars
  <2>. QED
    BY <1>2, <1>3, <2>1, <2>3 DEF ResolvedInv, Fallen, SoFar
<1>. QED
  BY <1>4, <1>5 DEF Resolved

\* Registering the next worker leaves the router right.
LEMMA SpawnInv ==
  ASSUME IInv, TypeOK', Spawn
  PROVE  RouterInv' /\ ToldInv'
<1>1. phase = "spawning" /\ resolved' = resolved /\ told' = told /\ phase' \in {"spawning", "serving"}
  BY DEF Spawn
<1>2. CASE ~(Len(process) < Len(resolved))
  BY <1>1, <1>2 DEF Spawn, IInv, RouterInv, ToldInv, Workers, Tended
<1>3. CASE Len(process) < Len(resolved)
  <2>. DEFINE w == Len(process) + 1
  <2>1. process' = Append(process, "running") /\ Register(w)
    BY <1>3 DEF Spawn
  <2>2. /\ Len(process') = w /\ Len(process) \in Nat
        /\ process'[w] = "running"
        /\ \A v \in 1..Len(process) : process'[v] = process[v]
    BY <2>1, AppendType DEF IInv, TypeOK
  <2>3. \A v \in 1..Len(process') : v \in 1..Len(process) \/ v = w
    BY <2>2
  <2>4. resolved[w].name \in Names /\ \A v \in 1..Len(process) : resolved[v].name \in Names
    <3>1. resolved \in Seq(Resolution) /\ Len(resolved) \in Nat
      BY DEF IInv, TypeOK
    <3>2. \A v \in 1..Len(resolved) : resolved[v] \in Resolution
      BY <3>1
    <3>3. w \in 1..Len(resolved) /\ 1..Len(process) \subseteq 1..Len(resolved)
      BY <1>3, <2>2, <3>1
    <3>. QED
      BY <3>2, <3>3 DEF Resolution
  <2>5. router' = [router EXCEPT ![resolved[w].name] = w] /\ router \in [Names -> 0..Len(process)]
    BY <2>1 DEF Register, IInv, TypeOK
  <2>6. \A n \in Names : router'[n] # 0 => resolved'[router'[n]].name = n
    BY <1>1, <2>5, <2>4 DEF IInv, RouterInv
  <2>7. \A v \in 1..Len(process') : router'[resolved'[v].name] >= v
    <3>. SUFFICES ASSUME NEW v \in 1..Len(process') PROVE router'[resolved[v].name] >= v
      BY <1>1
    <3>1. CASE resolved[v].name = resolved[w].name
      BY <2>2, <2>3, <2>4, <2>5, <3>1
    <3>2. CASE resolved[v].name # resolved[w].name
      <4>1. v \in 1..Len(process)
        BY <2>3, <3>2
      <4>2. router[resolved[v].name] >= v
        BY <4>1 DEF IInv, RouterInv, Workers
      <4>. QED
        BY <2>4, <2>5, <3>2, <4>1, <4>2
    <3>. QED
      BY <3>1, <3>2
  <2>8. RouterInv'
    BY <2>6, <2>7 DEF RouterInv, Workers
  <2>9. \A v \in 1..Len(process') : process'[v] # "killed"
    BY <1>1, <2>2, <2>3 DEF IInv, ToldInv, Workers
  <2>. QED
    BY <1>1, <2>8, <2>9 DEF ToldInv, Workers
<1>. QED
  BY <1>2, <1>3

\* A step that leaves the interfaces, the resolution and its progress alone, and
\* goes on from one phase to a later one, keeps ResolvedInv.
LEMMA LaterPhase ==
  ASSUME IInv, TypeOK', UNCHANGED <<hostVars, seen, resolved>>,
         phase \notin {"validating", "resolving"},
         phase' \in {"serving", "stopping", "ended", phase}
  PROVE  ResolvedInv'
<1>1. interfaces' = interfaces /\ seen' = seen /\ resolved' = resolved
  BY DEF hostVars
<1>2. phase' \notin {"validating", "resolving"}
  OBVIOUS
<1>3. Regular' \/ Fallen'
  BY <1>1, <1>2, MatchedSame DEF IInv, ResolvedInv, Regular, Fallen
<1>4. SoFar'
  BY <1>1 DEF IInv, ResolvedInv, SoFar, Entries, Matched, FirstAvailable, Available, hostVars
<1>5. (resolved' # <<>> \/ phase' = "spawning") => UniqueIdentifiers'
  BY <1>1, MatchedSame DEF IInv, ResolvedInv
<1>. QED
  BY <1>2, <1>3, <1>4, <1>5 DEF ResolvedInv

\* A step that leaves the router and the workers' names alone keeps RouterInv.
LEMMA RouterSame ==
  ASSUME IInv, UNCHANGED <<resolved, router>>, Len(process') = Len(process)
  PROVE  RouterInv' /\ Workers' = Workers /\ \A w : Tended(w)' <=> Tended(w)
BY DEF IInv, RouterInv, Workers, Tended

\* Before any worker is spawned there is nothing to keep.
LEMMA EmptyRouter ==
  ASSUME IInv, TypeOK', process = <<>>, phase' # "stopping", UNCHANGED <<router, process, told>>
  PROVE  RouterInv' /\ ToldInv'
<1>1. Len(process) = 0 /\ Workers = {} /\ Workers' = {}
  BY DEF Workers
<1>2. \A n \in Names : router[n] = 0
  BY <1>1 DEF IInv, TypeOK
<1>. QED
  BY <1>1, <1>2 DEF RouterInv, ToldInv

\* The next step of the startup keeps the invariant.
LEMMA NextInv == IInv /\ [Next]_vars => IInv'
<1>. SUFFICES ASSUME IInv, [Next]_vars PROVE IInv'
  OBVIOUS
<1>. TypeOK
  BY DEF IInv
<1>1. TypeOK'
  BY NextTypeOK
<1>2. CASE Validate
  <2>1. /\ phase = "validating" /\ resolved = <<>> /\ Regular /\ process = <<>>
        /\ UNCHANGED <<hostVars, seen, resolved, router, process, told>>
        /\ phase' = IF UniqueIdentifiers THEN "resolving" ELSE "ended"
    BY <1>2 DEF Validate, IInv, ResolvedInv
  <2>2. Regular' /\ SoFar'
    BY <2>1 DEF IInv, ResolvedInv, Regular, SoFar, hostVars, Entries, Matched, FirstAvailable, Available
  <2>3. ResolvedInv'
    BY <2>1, <2>2, MatchedSame DEF ResolvedInv
  <2>4. Len(process') = Len(process) /\ Workers = {}
    BY <2>1 DEF Workers
  <2>5. RouterInv' /\ ToldInv'
    BY <2>1, <2>4, RouterSame DEF ToldInv
  <2>. QED
    BY <1>1, <2>3, <2>5 DEF IInv
<1>3. CASE ResolveNext
  <2>1. /\ process = <<>> /\ phase' = "resolving"
        /\ UNCHANGED <<router, process, told>>
    BY <1>3 DEF ResolveNext, IInv, ResolvedInv
  <2>2. RouterInv' /\ ToldInv'
    BY <2>1, <1>1, EmptyRouter
  <2>. QED
    BY <1>1, <1>3, <2>2, ResolveNextInv DEF IInv
<1>4. CASE Resolved
  <2>1. /\ process = <<>> /\ phase' \in {"spawning", "ended"}
        /\ UNCHANGED <<router, process, told>>
    BY <1>4 DEF Resolved, IInv, ResolvedInv
  <2>2. RouterInv' /\ ToldInv'
    BY <2>1, <1>1, EmptyRouter
  <2>. QED
    BY <1>1, <1>4, <2>2, ResolvedStepInv DEF IInv
<1>5. CASE Spawn
  <2>1. ResolvedInv'
    BY <1>1, <1>5, LaterPhase DEF Spawn
  <2>. QED
    BY <1>1, <1>5, <2>1, SpawnInv DEF IInv
<1>6. CASE Stop
  <2>1. ResolvedInv'
    BY <1>1, <1>6, LaterPhase DEF Stop
  <2>2. RouterInv' /\ Workers' = Workers /\ \A w : Tended(w)' <=> Tended(w)
    BY <1>6, RouterSame DEF Stop
  <2>3. ToldInv'
    BY <1>6, <2>2 DEF Stop, IInv, ToldInv
  <2>. QED
    BY <1>1, <2>1, <2>2, <2>3 DEF IInv
<1>7. CASE Exit
  <2>1. ResolvedInv'
    BY <1>1, <1>7, LaterPhase DEF Exit
  <2>2. Len(process') = Len(process)
    BY <1>7, ProcessType, FunctionSeq DEF Exit, Workers
  <2>3. RouterInv' /\ Workers' = Workers /\ \A w : Tended(w)' <=> Tended(w)
    BY <1>7, <2>2, RouterSame DEF Exit
  <2>4. \A w \in Workers : process'[w] = "killed" => w \in told \/ ~Tended(w)
    BY <1>7 DEF Exit, AllJoined, IInv, ToldInv
  <2>5. ToldInv'
    BY <1>7, <2>3, <2>4 DEF Exit, ToldInv
  <2>. QED
    BY <1>1, <2>1, <2>3, <2>5 DEF IInv
<1>8. ASSUME NEW w \in 1..Len(process), WorkerEnds(w) PROVE IInv'
  <2>1. process # <<>>
    BY <1>8, ProcessType
  <2>2. phase \notin {"validating", "resolving"}
    BY <2>1 DEF IInv, ResolvedInv
  <2>3. ResolvedInv'
    BY <1>1, <1>8, <2>2, LaterPhase DEF WorkerEnds
  <2>4. Len(process') = Len(process)
    BY <1>8, ProcessType, FunctionSeq DEF WorkerEnds
  <2>5. RouterInv' /\ Workers' = Workers /\ \A v : Tended(v)' <=> Tended(v)
    BY <1>8, <2>4, RouterSame DEF WorkerEnds
  <2>6. \A v \in Workers : process'[v] = "killed" => process[v] = "killed"
    BY <1>8, ProcessType DEF WorkerEnds, Workers
  <2>7. ToldInv'
    BY <1>8, <2>5, <2>6 DEF WorkerEnds, IInv, ToldInv
  <2>. QED
    BY <1>1, <2>3, <2>5, <2>7 DEF IInv
<1>9. ASSUME NEW w \in 1..Len(process), Terminate(w) PROVE IInv'
  <2>1. ResolvedInv'
    BY <1>1, <1>9, LaterPhase DEF Terminate
  <2>2. Len(process') = Len(process)
    BY <1>9, ProcessType, FunctionSeq DEF Terminate
  <2>3. RouterInv' /\ Workers' = Workers /\ \A v : Tended(v)' <=> Tended(v)
    BY <1>9, <2>2, RouterSame DEF Terminate
  <2>4. \A v \in Workers : process'[v] = "killed" => v = w \/ process[v] = "killed"
    BY <1>9, ProcessType DEF Terminate, Workers
  <2>5. w \in told
    BY <1>9 DEF Terminate, IInv, ToldInv
  <2>6. ToldInv'
    BY <1>9, <2>3, <2>4, <2>5 DEF Terminate, IInv, ToldInv
  <2>. QED
    BY <1>1, <2>1, <2>3, <2>6 DEF IInv
<1>10. CASE UNCHANGED vars
  <2>1. RouterInv' /\ Workers' = Workers /\ \A v : Tended(v)' <=> Tended(v)
    BY <1>10, RouterSame DEF vars
  <2>2. ToldInv'
    BY <1>10, <2>1 DEF vars, IInv, ToldInv
  <2>3. ResolvedInv'
    BY <1>10, MatchedSame DEF vars, hostVars, IInv, ResolvedInv, Regular, Fallen, SoFar, Entries,
                              Matched, FirstAvailable, Available
  <2>. QED
    BY <1>1, <2>1, <2>2, <2>3 DEF IInv
<1>. QED
  BY <1>2, <1>3, <1>4, <1>5, <1>6, <1>7, <1>8, <1>9, <1>10 DEF Next

\* The invariant holds throughout.
LEMMA Invariant == Spec => []IInv
BY InitInv, NextInv, PTL DEF Spec

----------------------------------------------------------------------------
(* What it is for.                                                          *)

\* DistinctIdentity, whatever the host and the options are: no two workers are
\* started as the same BACnet device.
THEOREM DistinctIdentityCorrect == Spec => []DistinctIdentity
<1>1. IInv => DistinctIdentity
  <2>. SUFFICES ASSUME IInv, NEW v \in Workers, NEW w \in Workers, v # w,
                       resolved[v].objectIdentifier = resolved[w].objectIdentifier
                PROVE  FALSE
    BY DEF DistinctIdentity
  <2>1. /\ v \in 1..Len(resolved) /\ w \in 1..Len(resolved)
        /\ Len(resolved) # 1 /\ resolved # <<>>
    BY DEF IInv, TypeOK, Workers
  <2>2. Regular /\ UniqueIdentifiers
    BY <2>1 DEF IInv, ResolvedInv, Fallen
  <2>3. resolved[v].entry \in Enabled /\ resolved[w].entry \in Enabled
    BY <2>1, <2>2 DEF Regular, Enabled, Entries, IInv, TypeOK
  <2>4. resolved[v].entry = resolved[w].entry
    BY <2>1, <2>2, <2>3 DEF Regular, UniqueIdentifiers
  <2>5. v < w \/ w < v
    BY <2>1
  <2>6. resolved[v].entry \in Nat
    BY <2>3 DEF Enabled, Entries
  <2>. QED
    BY <2>1, <2>2, <2>4, <2>5, <2>6 DEF Regular
<1>. QED
  BY <1>1, Invariant, PTL

\* DisabledOnlyAsFallback: of the entries that are not enabled only the first can
\* get a worker, alone, and when no enabled one found an adapter.
THEOREM DisabledOnlyAsFallbackCorrect == Spec => []DisabledOnlyAsFallback
<1>1. IInv => DisabledOnlyAsFallback
  <2>. SUFFICES ASSUME IInv, NEW w \in Workers, resolved[w].entry # 0,
                       ~interfaces[resolved[w].entry].enabled
                PROVE  /\ resolved[w].entry = 1 /\ Len(resolved) = 1
                       /\ \A j \in Enabled : Matched(interfaces[j]) = {}
    BY DEF DisabledOnlyAsFallback
  <2>1. w \in 1..Len(resolved)
    BY DEF IInv, TypeOK, Workers
  <2>2. Fallen
    BY <2>1 DEF IInv, ResolvedInv, Regular
  <2>3. w = 1
    BY <2>1, <2>2 DEF Fallen
  <2>. QED
    BY <2>2, <2>3 DEF Fallen, NothingMatches
<1>. QED
  BY <1>1, Invariant, PTL

\* UntoldWasReplaced: a worker that is killed without SHUTDOWN had lost its place
\* in the router to a later one of the same adapter.
THEOREM UntoldWasReplacedCorrect == Spec => []UntoldWasReplaced
<1>1. IInv => UntoldWasReplaced
  <2>. SUFFICES ASSUME IInv, NEW w \in Workers, process[w] = "killed", w \notin told
                PROVE  \E v \in Workers : v > w /\ resolved[v].name = resolved[w].name
    BY DEF UntoldWasReplaced
  <2>. DEFINE v == router[resolved[w].name]
  <2>1. v # w /\ v >= w
    BY DEF IInv, ToldInv, RouterInv, Tended
  <2>2. resolved[w].name \in Names
    <3>1. resolved \in Seq(Resolution) /\ w \in 1..Len(resolved)
      BY DEF IInv, TypeOK, Workers
    <3>2. resolved[w] \in Resolution
      BY <3>1
    <3>. QED
      BY <3>2 DEF Resolution
  <2>3. v \in 0..Len(process) /\ Len(process) \in Nat /\ w \in 1..Len(process)
    BY <2>2 DEF IInv, TypeOK, Workers
  <2>4. v \in Workers /\ v > w
    BY <2>1, <2>3 DEF Workers
  <2>5. resolved[v].name = resolved[w].name
    BY <2>2, <2>3, <2>4 DEF IInv, RouterInv, Workers
  <2>. QED
    BY <2>4, <2>5
<1>. QED
  BY <1>1, Invariant, PTL

----------------------------------------------------------------------------
(* All that can be resolved runs.                                           *)

\* An enabled entry that was seen and matches an adapter has been resolved.
EveryMatched ==
  \A j \in Entries :
    j <= seen /\ interfaces[j].enabled /\ Matched(interfaces[j]) # {} =>
      \E w \in 1..Len(resolved) : resolved[w].entry = j

\* What is resolved is an entry with an adapter that it matches, but for the
\* fallback.
OfItsEntry ==
  Fallen \/
  \A w \in 1..Len(resolved) : \E i \in Matched(interfaces[resolved[w].entry]) :
    resolved[w] = Resolve(resolved[w].entry, i)

\* Nothing is left out on the way to "serving".
AllThrough ==
  /\ phase \in {"spawning", "serving"} => seen = Len(interfaces)
  /\ phase = "serving" => Len(process) = Len(resolved)

RunsInv == adapters \in Hosts /\ EveryMatched /\ OfItsEntry /\ AllThrough

LEMMA InitRuns == Init => RunsInv
<1>. SUFFICES ASSUME Init PROVE RunsInv
  OBVIOUS
<1>1. resolved = <<>> /\ seen = 0 /\ phase = "validating" /\ adapters \in Hosts
  BY DEF Init
<1>2. Len(resolved) = 0
  BY <1>1
<1>. QED
  BY <1>1, <1>2 DEF RunsInv, EveryMatched, OfItsEntry, AllThrough, Entries

\* EveryMatched and OfItsEntry depend on the options, the host and what is resolved.
LEMMA RunsSame ==
  ASSUME RunsInv, UNCHANGED <<hostVars, seen, resolved>>,
         phase \notin {"validating", "resolving"} => phase' \notin {"validating", "resolving"}
  PROVE  (adapters \in Hosts)' /\ EveryMatched' /\ OfItsEntry'
<1>1. UNCHANGED <<adapters, interfaces, seen, resolved>>
  BY DEF hostVars
<1>2. Fallen => Fallen'
  BY <1>1, MatchedSame DEF Fallen
<1>3. \A j : Matched(interfaces[j])' = Matched(interfaces[j])
  BY <1>1 DEF Matched, FirstAvailable, Available
<1>4. \A j, i : Resolve(j, i)' = Resolve(j, i)
  BY <1>1 DEF Resolve
<1>5. EveryMatched'
  BY <1>1, <1>3 DEF RunsInv, EveryMatched, Entries
<1>6. OfItsEntry'
  BY <1>1, <1>2, <1>3, <1>4 DEF RunsInv, OfItsEntry
<1>. QED
  BY <1>1, <1>5, <1>6 DEF RunsInv

\* One more entry has been looked at.
LEMMA ResolveNextRuns ==
  ASSUME IInv, RunsInv, ResolveNext
  PROVE  EveryMatched' /\ OfItsEntry'
<1>. DEFINE k == seen + 1
<1>1. k \in Entries /\ seen' = k /\ UNCHANGED <<adapters, interfaces>>
  BY DEF IInv, TypeOK, ResolveNext, Entries, hostVars
<1>2. /\ \A j \in Entries : j <= k => j <= seen \/ j = k
      /\ Entries' = Entries
  BY <1>1 DEF IInv, TypeOK, Entries
<1>3. \A j : Matched(interfaces[j])' = Matched(interfaces[j])
  BY <1>1 DEF Matched, FirstAvailable, Available
<1>4. \A j, i : Resolve(j, i)' = Resolve(j, i)
  BY <1>1 DEF Resolve
<1>5. ~Fallen
  BY DEF ResolveNext, Fallen
<1>6. CASE interfaces[k].enabled /\ Matched(interfaces[k]) # {}
  <2>1. PICK i \in Matched(interfaces[k]) : resolved' = Append(resolved, Resolve(k, i))
    BY <1>6 DEF ResolveNext
  <2>2. Resolve(k, i) \in Resolution /\ Resolve(k, i).entry = k
    BY <1>1, ResolveType DEF IInv, Entries
  <2>3. /\ Len(resolved') = Len(resolved) + 1 /\ Len(resolved) \in Nat
        /\ resolved'[Len(resolved) + 1] = Resolve(k, i)
        /\ \A w \in 1..Len(resolved) : resolved'[w] = resolved[w]
    BY <2>1, <2>2, AppendType DEF IInv, TypeOK
  <2>4. \A w \in 1..Len(resolved') : w \in 1..Len(resolved) \/ w = Len(resolved) + 1
    BY <2>3
  <2>5. EveryMatched'
    <3>. SUFFICES ASSUME NEW j \in Entries, j <= k, interfaces[j].enabled,
                         Matched(interfaces[j]) # {}
                  PROVE  \E w \in 1..Len(resolved') : resolved'[w].entry = j
      BY <1>1, <1>2, <1>3 DEF EveryMatched
    <3>1. CASE j = k
      BY <2>2, <2>3, <3>1
    <3>2. CASE j <= seen
      <4>1. PICK w \in 1..Len(resolved) : resolved[w].entry = j
        BY <3>2 DEF RunsInv, EveryMatched
      <4>. QED
        BY <2>3, <4>1
    <3>. QED
      BY <1>2, <3>1, <3>2
  <2>6. OfItsEntry'
    <3>. SUFFICES ASSUME NEW w \in 1..Len(resolved')
                  PROVE  \E m \in Matched(interfaces[resolved'[w].entry]) :
                           resolved'[w] = Resolve(resolved'[w].entry, m)
      BY <1>1, <1>3, <1>4 DEF OfItsEntry
    <3>1. CASE w \in 1..Len(resolved)
      BY <1>5, <2>3, <3>1 DEF RunsInv, OfItsEntry
    <3>2. CASE w = Len(resolved) + 1
      BY <2>2, <2>3, <3>2
    <3>. QED
      BY <2>4, <3>1, <3>2
  <2>. QED
    BY <2>5, <2>6
<1>7. CASE ~(interfaces[k].enabled /\ Matched(interfaces[k]) # {})
  <2>1. resolved' = resolved
    BY <1>7 DEF ResolveNext
  <2>2. EveryMatched'
    BY <1>1, <1>2, <1>3, <1>7, <2>1 DEF RunsInv, EveryMatched
  <2>3. OfItsEntry'
    BY <1>1, <1>3, <1>4, <1>5, <2>1 DEF RunsInv, OfItsEntry
  <2>. QED
    BY <2>2, <2>3
<1>. QED
  BY <1>6, <1>7

\* The fallback comes only when nothing matched.
LEMMA ResolvedRuns ==
  ASSUME IInv, RunsInv, Resolved
  PROVE  (adapters \in Hosts)' /\ EveryMatched' /\ OfItsEntry'
<1>1. CASE UNCHANGED resolved
  BY <1>1, RunsSame DEF Resolved
<1>2. CASE resolved = <<>> /\ FallBack
  <2>1. UNCHANGED <<hostVars, seen>> /\ seen = Len(interfaces)
    BY DEF Resolved
  <2>2. NothingMatches
    <3>. SUFFICES ASSUME NEW j \in Enabled PROVE Matched(interfaces[j]) = {}
      BY DEF NothingMatches
    <3>1. j \in Entries /\ j <= seen /\ interfaces[j].enabled
      BY <2>1 DEF Enabled, Entries, IInv, TypeOK
    <3>. QED
      BY <1>2, <3>1 DEF IInv, ResolvedInv, SoFar
  <2>3. NothingMatches'
    BY <2>1, <2>2, MatchedSame
  <2>4. EveryMatched'
    BY <2>3 DEF NothingMatches, EveryMatched, Enabled
  <2>5. Fallen'
    BY <1>2, <2>3, FallBackType DEF Resolved, Fallen, IInv
  <2>. QED
    BY <2>1, <2>4, <2>5 DEF OfItsEntry, RunsInv, hostVars
<1>. QED
  BY <1>1, <1>2 DEF Resolved

LEMMA NextRuns == IInv /\ RunsInv /\ [Next]_vars => RunsInv'
<1>. SUFFICES ASSUME IInv, RunsInv, [Next]_vars PROVE RunsInv'
  OBVIOUS
<1>1. CASE ResolveNext
  BY <1>1, ResolveNextRuns DEF ResolveNext, RunsInv, AllThrough, hostVars
<1>2. CASE Resolved
  BY <1>2, ResolvedRuns DEF Resolved, RunsInv, AllThrough, hostVars
<1>3. CASE Spawn
  <2>1. AllThrough'
    BY <1>3 DEF Spawn, RunsInv, AllThrough, hostVars, IInv, TypeOK
  <2>. QED
    BY <1>3, <2>1, RunsSame DEF Spawn, RunsInv
<1>4. CASE Validate \/ Stop \/ Exit
  <2>1. AllThrough'
    BY <1>4 DEF Validate, Stop, Exit, RunsInv, AllThrough, hostVars
  <2>. QED
    BY <1>4, <2>1, RunsSame DEF Validate, Stop, Exit, RunsInv
<1>5. ASSUME NEW w \in 1..Len(process), WorkerEnds(w) \/ Terminate(w) PROVE RunsInv'
  <2>1. Len(process') = Len(process)
    BY <1>5, ProcessType, FunctionSeq DEF WorkerEnds, Terminate, IInv
  <2>2. AllThrough'
    BY <1>5, <2>1 DEF WorkerEnds, Terminate, RunsInv, AllThrough, hostVars
  <2>. QED
    BY <1>5, <2>2, RunsSame DEF WorkerEnds, Terminate, RunsInv
<1>6. CASE UNCHANGED vars
  BY <1>6, RunsSame DEF vars, hostVars, RunsInv, AllThrough
<1>. QED
  BY <1>1, <1>2, <1>3, <1>4, <1>5, <1>6 DEF Next

\* Under one name an adapter is available once.
LEMMA AvailableOnce ==
  ASSUME TypeOK, NEW i \in Available, NEW j \in Available, adapters[i].name = adapters[j].name
  PROVE  i = j
<1>1. i \in Nat /\ j \in Nat /\ (i # j => i < j \/ j < i)
  BY AvailableType
<1>2. i \in 1..(j - 1) => adapters[i].ips = <<>>
  BY DEF Available
<1>3. j \in 1..(i - 1) => adapters[j].ips = <<>>
  BY DEF Available
<1>4. adapters[i].ips # <<>> /\ adapters[j].ips # <<>> /\ i >= 1 /\ j >= 1
  BY AvailableType DEF Available
<1>. QED
  BY <1>1, <1>2, <1>3, <1>4

\* No two adapters of a host that can be used have the same first address: what a
\* network requires of its hosts, and no code could make good.
FirstAddressesDiffer ==
  \A h \in Hosts : \A i, j \in 1..Len(h) :
    /\ h[i].name \in EligibleNames /\ h[j].name \in EligibleNames /\ h[i].name # h[j].name
    /\ h[i].ips # <<>> /\ h[j].ips # <<>>
    => h[i].ips[1] # h[j].ips[1]

\* What one enabled entry comes to, when they are Apart.
LEMMA ApartResolved ==
  ASSUME IInv, RunsInv, Apart, ~Fallen, NEW w \in 1..Len(resolved)
  PROVE  /\ resolved[w].entry \in Enabled
         /\ resolved[w].name = interfaces[resolved[w].entry].name
         /\ \E i \in Available : /\ adapters[i].name = resolved[w].name
                                 /\ adapters[i].ips[1] = resolved[w].ip
<1>. DEFINE k == resolved[w].entry
<1>1. k \in Enabled
  BY DEF IInv, ResolvedInv, Regular, Enabled, Entries, TypeOK
<1>2. PICK i \in Matched(interfaces[k]) : resolved[w] = Resolve(k, i)
  BY DEF RunsInv, OfItsEntry
<1>3. interfaces[k].name # Automatic /\ interfaces[k].address = Automatic
  BY <1>1 DEF Apart
<1>4. i \in Available /\ adapters[i].name = interfaces[k].name
  BY <1>2, <1>3 DEF Matched
<1>5. Resolve(k, i).name = adapters[i].name /\ Resolve(k, i).ip = adapters[i].ips[1]
  BY <1>3 DEF Resolve
<1>. QED
  BY <1>1, <1>2, <1>4, <1>5

\* RunsAsConfigured, for any options and any host whose adapters have addresses of
\* their own: enabled entries that name different adapters all run, each on its own.
THEOREM RunsAsConfiguredCorrect == FirstAddressesDiffer => (Spec => []RunsAsConfigured)
<1>. SUFFICES ASSUME FirstAddressesDiffer PROVE Spec => []RunsAsConfigured
  OBVIOUS
<1>1. IInv /\ RunsInv => RunsAsConfigured
  <2>. SUFFICES ASSUME IInv, RunsInv, Apart, phase = "serving"
                PROVE  /\ \A w \in Workers : Tended(w)
                       /\ \A v, w \in Workers : resolved[v].ip = resolved[w].ip => v = w
                       /\ \A j \in Enabled : Matched(interfaces[j]) # {} =>
                            \E w \in Workers : /\ resolved[w].entry = j
                                               /\ resolved[w].name = interfaces[j].name
    BY DEF RunsAsConfigured
  <2>1. Len(process) = Len(resolved) /\ seen = Len(interfaces) /\ Workers = 1..Len(resolved)
    BY DEF RunsInv, AllThrough, Workers
  <2>2. Len(resolved) \in Nat /\ \A w \in Workers : resolved[w].name \in Names
    <3>1. resolved \in Seq(Resolution)
      BY DEF IInv, TypeOK
    <3>2. \A w \in 1..Len(resolved) : resolved[w] \in Resolution
      BY <3>1
    <3>. QED
      BY <2>1, <3>1, <3>2 DEF Resolution
  <2>3. \A w \in Workers : router[resolved[w].name] \in Workers /\ router[resolved[w].name] >= w
    BY <2>1, <2>2 DEF IInv, TypeOK, RouterInv, Workers
  <2>4. CASE ~Fallen
    <3>1. ASSUME NEW v \in Workers, NEW w \in Workers,
                 resolved[v].name = resolved[w].name \/ resolved[v].ip = resolved[w].ip
          PROVE  v = w
      <4>1. PICK i \in Available : /\ adapters[i].name = resolved[v].name
                                   /\ adapters[i].ips[1] = resolved[v].ip
        BY <2>1, <2>4, ApartResolved
      <4>2. PICK j \in Available : /\ adapters[j].name = resolved[w].name
                                   /\ adapters[j].ips[1] = resolved[w].ip
        BY <2>1, <2>4, ApartResolved
      <4>3. /\ adapters \in Hosts /\ i \in 1..Len(adapters) /\ j \in 1..Len(adapters)
            /\ adapters[i].name \in EligibleNames /\ adapters[j].name \in EligibleNames
            /\ adapters[i].ips # <<>> /\ adapters[j].ips # <<>>
        BY DEF RunsInv, Available
      <4>4. resolved[v].name = resolved[w].name
        BY <3>1, <4>1, <4>2, <4>3 DEF FirstAddressesDiffer
      <4>5. /\ resolved[v].entry \in Enabled /\ resolved[w].entry \in Enabled
            /\ interfaces[resolved[v].entry].name = interfaces[resolved[w].entry].name
        BY <2>1, <2>4, <4>4, ApartResolved
      <4>6. resolved[v].entry = resolved[w].entry
        BY <4>5 DEF Apart
      <4>7. resolved[v].entry \in Nat /\ (v < w \/ w < v \/ v = w)
        BY <2>1, <2>2, <4>5 DEF Enabled, Entries
      <4>. QED
        BY <2>1, <2>4, <4>6, <4>7 DEF IInv, ResolvedInv, Regular
    <3>2. ASSUME NEW w \in Workers PROVE Tended(w)
      <4>1. resolved[router[resolved[w].name]].name = resolved[w].name
        BY <2>1, <2>2, <2>3 DEF IInv, RouterInv
      <4>. QED
        BY <2>3, <3>1, <4>1 DEF Tended
    <3>3. ASSUME NEW j \in Enabled, Matched(interfaces[j]) # {}
          PROVE  \E w \in Workers : resolved[w].entry = j /\ resolved[w].name = interfaces[j].name
      <4>1. j \in Entries /\ j <= seen /\ interfaces[j].enabled
        BY <2>1 DEF Enabled, Entries, IInv, TypeOK
      <4>2. PICK w \in 1..Len(resolved) : resolved[w].entry = j
        BY <3>3, <4>1 DEF RunsInv, EveryMatched
      <4>. QED
        BY <2>1, <2>4, <4>2, ApartResolved
    <3>. QED
      BY <3>1, <3>2, <3>3
  <2>5. CASE Fallen
    <3>1. \A v, w \in Workers : v = w
      BY <2>1, <2>5 DEF Fallen
    <3>. QED
      BY <2>3, <2>5, <3>1 DEF Tended, Fallen, NothingMatches
  <2>. QED
    BY <2>4, <2>5
<1>2. Spec => []RunsInv
  <2>1. RunsInv /\ []IInv /\ [][Next]_vars => []RunsInv
    BY NextRuns, PTL
  <2>. QED
    BY <2>1, InitRuns, Invariant, PTL DEF Spec
<1>. QED
  BY <1>1, <1>2, Invariant, PTL
=============================================================================
