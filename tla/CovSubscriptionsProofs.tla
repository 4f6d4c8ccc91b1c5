----------------------- MODULE CovSubscriptionsProofs -----------------------
(***************************************************************************)
(* Proofs about CovSubscriptions, for any configuration, names, clients,   *)
(* bounds, and any number of passes that overlap as they like.             *)
(***************************************************************************)
EXTENDS CovSubscriptions, FiniteSetTheorems, TLAPS

----------------------------------------------------------------------------
(* The entries that stay.                                                   *)

Rank(kept, k) == Cardinality({j \in kept : j <= k})

\* Places have different ranks, from 1 to their number.
LEMMA Ranks ==
  ASSUME NEW N \in Nat, NEW kept \in SUBSET (1..N)
  PROVE  /\ IsFiniteSet(kept) /\ Cardinality(kept) \in Nat
         /\ \A k \in kept : Rank(kept, k) \in 1..Cardinality(kept)
         /\ \A j, k \in kept : Rank(kept, j) = Rank(kept, k) => j = k
<1>0. kept \subseteq Nat /\ IsFiniteSet(1..N)
  BY FS_Interval
<1>1. IsFiniteSet(kept) /\ Cardinality(kept) \in Nat
  <2>1. IsFiniteSet(kept)
    BY <1>0, FS_Subset
  <2>. QED
    BY <2>1, FS_CardinalityType
<1>2. ASSUME NEW k \in kept
      PROVE  /\ IsFiniteSet({j \in kept : j <= k})
             /\ Rank(kept, k) \in 1..Cardinality(kept)
  <2>. DEFINE A == {j \in kept : j <= k}
  <2>1. A \subseteq kept /\ k \in A
    BY <1>0
  <2>. HIDE DEF A
  <2>2. /\ IsFiniteSet(A) /\ Cardinality(A) \in Nat /\ Cardinality(A) <= Cardinality(kept)
    BY <1>1, <2>1, FS_Subset, FS_CardinalityType
  <2>3. Cardinality(A) # 0
    BY <2>1, <2>2, FS_EmptySet
  <2>. QED
    BY <1>1, <2>2, <2>3 DEF A, Rank
<1>3. ASSUME NEW j \in kept, NEW k \in kept, j < k PROVE Rank(kept, j) # Rank(kept, k)
  <2>. DEFINE A == {i \in kept : i <= j}
              B == {i \in kept : i <= k}
  <2>1. A \subseteq B /\ k \in B /\ k \notin A
    <3>1. j \in Nat /\ k \in Nat /\ kept \subseteq Nat
      BY <1>0
    <3>2. \A i \in Nat : i <= j => i <= k
      BY <1>3, <3>1
    <3>3. k <= k /\ ~(k <= j)
      BY <1>3, <3>1
    <3>. QED
      BY <3>1, <3>2, <3>3
  <2>2. IsFiniteSet(B)
    BY <1>2
  <2>. HIDE DEF A, B
  <2>3. Cardinality(A) # Cardinality(B)
    BY <2>1, <2>2, FS_Subset
  <2>. QED
    BY <2>3 DEF A, B, Rank
<1>4. ASSUME NEW j \in kept, NEW k \in kept, Rank(kept, j) = Rank(kept, k) PROVE j = k
  BY <1>3, <1>4
<1>. QED
  BY <1>1, <1>2, <1>4

\* Every number up to theirs is the rank of one.
LEMMA RanksCover ==
  ASSUME NEW N \in Nat, NEW kept \in SUBSET (1..N), NEW n \in 1..Cardinality(kept)
  PROVE  \E k \in kept : Rank(kept, k) = n
<1>1. /\ IsFiniteSet(kept) /\ Cardinality(kept) \in Nat
      /\ \A k \in kept : Rank(kept, k) \in 1..Cardinality(kept)
      /\ \A j, k \in kept : Rank(kept, j) = Rank(kept, k) => j = k
  BY Ranks
<1>. SUFFICES ASSUME \A k \in kept : Rank(kept, k) # n PROVE FALSE
  OBVIOUS
<1>. DEFINE others == (1..Cardinality(kept)) \ {n}
            f == [k \in kept |-> Rank(kept, k)]
<1>2. IsFiniteSet(others) /\ Cardinality(others) = Cardinality(kept) - 1
  <2>1. IsFiniteSet(1..Cardinality(kept)) /\ Cardinality(1..Cardinality(kept)) = Cardinality(kept)
    BY <1>1, FS_Interval
  <2>. QED
    BY <2>1, FS_RemoveElement
<1>3. f \in [kept -> others]
  BY <1>1
<1>4. Cardinality(others) < Cardinality(kept)
  BY <1>1, <1>2
<1>. HIDE DEF others, f
<1>5. \E j, k \in kept : j # k /\ f[j] = f[k]
  BY <1>1, <1>2, <1>3, <1>4, FS_PigeonHole
<1>. QED
  BY <1>1, <1>5 DEF f

\* r has the entries of l at the places kept, and nothing else.
HasKept(r, l, kept) ==
  /\ r \in Seq(Tasks)
  /\ \A n \in 1..Len(r) : \E k \in kept : r[n] = l[k]
  /\ \A k \in kept : \E n \in 1..Len(r) : r[n] = l[k]

LEMMA OnlyKept ==
  ASSUME NEW l, l \in Seq(Tasks), NEW kept, kept \subseteq 1..Len(l),
         NEW r, r = Only(l, kept)
  PROVE  HasKept(r, l, kept)
<1>. DEFINE C == Cardinality(kept)
            place(n) == CHOOSE k \in kept : Rank(kept, k) = n
<1>1. Len(l) \in Nat /\ \A k \in kept : l[k] \in Tasks
  OBVIOUS
<1>2. /\ C \in Nat
      /\ \A k \in kept : Rank(kept, k) \in 1..C
      /\ \A j, k \in kept : Rank(kept, j) = Rank(kept, k) => j = k
  BY <1>1, Ranks
<1>3. \A n \in 1..C : place(n) \in kept /\ Rank(kept, place(n)) = n
  BY <1>1, RanksCover
<1>4. r = [n \in 1..C |-> l[place(n)]]
  BY DEF Only, Rank
<1>5. \A k \in kept : place(Rank(kept, k)) = k
  BY <1>2, <1>3
<1>. HIDE DEF place, C
<1>6. r \in Seq(Tasks) /\ Len(r) = C
  <2>1. \A n \in 1..C : l[place(n)] \in Tasks
    BY <1>1, <1>3
  <2>. QED
    BY <1>2, <1>4, <2>1
<1>7. \A n \in 1..C : r[n] = l[place(n)]
  BY <1>4
<1>8. \A k \in kept : \E n \in 1..C : r[n] = l[k]
  BY <1>2, <1>5, <1>7
<1>. QED
  BY <1>3, <1>6, <1>7, <1>8 DEF HasKept

\* Nothing is in two places.
Distinct(l) == \A i, j \in 1..Len(l) : l[i] = l[j] => i = j

\* What is in l once is among the entries kept once.
LEMMA OnlyOnce ==
  ASSUME NEW l, l \in Seq(Tasks), NEW kept, kept \subseteq 1..Len(l), NEW r, r = Only(l, kept),
         Distinct(l)
  PROVE  Distinct(r)
<1>. DEFINE C == Cardinality(kept)
            place(n) == CHOOSE k \in kept : Rank(kept, k) = n
<1>1. Len(l) \in Nat
  OBVIOUS
<1>2. C \in Nat
  BY <1>1, Ranks
<1>3. \A n \in 1..C : place(n) \in kept /\ Rank(kept, place(n)) = n
  BY <1>1, RanksCover
<1>4. r = [n \in 1..C |-> l[place(n)]]
  BY DEF Only, Rank
<1>. HIDE DEF place, C
<1>5. Len(r) = C
  <2>1. HasKept(r, l, kept)
    BY OnlyKept
  <2>2. r \in Seq(Tasks) /\ DOMAIN r = 1..C
    BY <1>4, <2>1 DEF HasKept
  <2>. QED
    BY <1>2, <2>2
<1>6. ASSUME NEW m \in 1..C, NEW n \in 1..C, r[m] = r[n] PROVE m = n
  <2>1. l[place(m)] = l[place(n)]
    BY <1>4, <1>6
  <2>2. place(m) \in 1..Len(l) /\ place(n) \in 1..Len(l)
    BY <1>3
  <2>3. place(m) = place(n)
    BY <2>1, <2>2 DEF Distinct
  <2>. QED
    BY <1>3, <2>3
<1>. QED
  BY <1>5, <1>6 DEF Distinct

----------------------------------------------------------------------------
(* Every step keeps the types of what the list and its tasks are.           *)

CovTypes ==
  /\ phase \in [Tasks -> Phases]
  /\ name \in [Tasks -> Names \cup {NoName}]
  /\ cancelled \in [Tasks -> BOOLEAN]
  /\ subscription_tasks \in Seq(Tasks)
  /\ making \in [Creators -> Tasks \cup {0}]

BeingMade == {t \in Tasks : \E c \in Creators : making[c] = t}
Known == Listed \cup BeingMade

\* A task that has not been created is known to nobody.
UnusedIsUnknown == \A t \in Tasks : phase[t] = "unused" => t \notin Known

\* The listener makes only what clients name.
ListenerMakesClientNames ==
  making[Listener] # 0 => name[making[Listener]] \in ClientNames

\* Of a name no client uses, and for which no passes raced, one task is known.
OneKnown ==
  \A t, u \in Known : name[t] = name[u] /\ name[t] \in Managed => t = u

----------------------------------------------------------------------------
(* What each action does to the list and the tasks.                         *)

\* A task of the name n is created and not put in the list yet.
Creates(c, n) ==
  /\ making[c] = 0
  /\ \E start \in {"entering", "done"} : Create(c, n, start)
  /\ UNCHANGED <<cancelled, subscription_tasks>>

\* A task goes on, or is done and leaves the list as it is.
GoesOn(t) ==
  /\ Unfinished(t)
  /\ \E s \in {"live", "cancelling", "failing", "done"} : phase' = [phase EXCEPT ![t] = s]
  /\ cancelled' \in {cancelled, [cancelled EXCEPT ![t] = FALSE]}
  /\ UNCHANGED <<name, subscription_tasks, making>>

\* A task ends and takes entries with it.
Ends(t) ==
  /\ Unfinished(t)
  /\ EndTask(t)
  /\ cancelled' \in {cancelled, [cancelled EXCEPT ![t] = FALSE]}
  /\ UNCHANGED <<name, making>>

\* Tasks are cancelled, or nothing happens to them.
CancelsOnly ==
  /\ CovTypes => cancelled' \in [Tasks -> BOOLEAN]
  /\ UNCHANGED <<phase, name, subscription_tasks, making>>

PassMakes(p) ==
  \E n \in Names : ~task_in_cov_tasklist(n) /\ Creates(p, n)

PlaceInConfig == at \in [Passes -> Nat \ {0}]

\* A pass counts its items from one.
LEMMA PlaceStep ==
  ASSUME PlaceInConfig, [Next]_vars PROVE PlaceInConfig'
<1>1. Len(Config) \in Nat
  BY CovAssumption
<1>2. ASSUME NEW p \in Passes, BeginPass(p) \/ PassCreates(p) \/ PassEnds(p) PROVE PlaceInConfig'
  BY <1>1, <1>2 DEF PlaceInConfig, BeginPass, PassCreates, PassEnds
<1>3. CASE \E c \in Creators : AppendTask(c)
  BY <1>3 DEF AppendTask, PlaceInConfig
<1>4. CASE \E t \in Tasks : TaskRuns(t) \/ Device(t)
  BY <1>4 DEF TaskRuns, Cancelled, Unsubscribed, UnsubscribeRaises, Device, Confirmed, Rejected,
              Fails, PlaceInConfig
<1>5. CASE Client
  BY <1>5 DEF Client, Subscribe, Unsubscribe, Delete, PlaceInConfig
<1>6. CASE Shutdown \/ End \/ UNCHANGED vars
  BY <1>6 DEF Shutdown, End, CancelAll, Close, vars, covVars, PlaceInConfig
<1>. QED
  BY <1>2, <1>3, <1>4, <1>5, <1>6 DEF Next, Pass

\* Every step is one of these.
LEMMA Effects ==
  ASSUME PlaceInConfig, [Next]_vars
  PROVE  \/ \E p \in Passes : PassMakes(p)
         \/ \E n \in ClientNames : Creates(Listener, n)
         \/ \E c \in Creators : AppendTask(c)
         \/ \E t \in Tasks : GoesOn(t) \/ Ends(t)
         \/ CancelsOnly
<1>1. ASSUME NEW p \in Passes, PassCreates(p) PROVE PassMakes(p)
  <2>1. PICK k \in at[p]..Len(Config) :
          ~task_in_cov_tasklist(ConfigName(k)) /\ Create(p, ConfigName(k), "entering")
    BY <1>1 DEF PassCreates
  <2>2. at[p] \in Nat \ {0} /\ Config \in Seq(Items)
    BY CovAssumption DEF PlaceInConfig
  <2>3. k \in 1..Len(Config)
    BY <2>2
  <2>4. ConfigName(k) \in Names
    BY <2>2, <2>3 DEF ConfigName, Names
  <2>. QED
    BY <1>1, <2>1, <2>4 DEF PassCreates, PassMakes, Creates
<1>2. ASSUME NEW t \in Tasks, Cancelled(t) PROVE GoesOn(t) \/ Ends(t)
  BY <1>2 DEF Cancelled, GoesOn, Ends, Unfinished
<1>3. ASSUME NEW t \in Tasks, Unsubscribed(t) \/ UnsubscribeRaises(t) PROVE GoesOn(t) \/ Ends(t)
  BY <1>3 DEF Unsubscribed, UnsubscribeRaises, GoesOn, Ends, Unfinished
<1>4. ASSUME NEW t \in Tasks, Device(t) PROVE GoesOn(t) \/ Ends(t)
  BY <1>4 DEF Device, Confirmed, Rejected, Fails, GoesOn, Ends, Unfinished
<1>5. ASSUME NEW n \in ClientNames, Subscribe(n) PROVE Creates(Listener, n)
  BY <1>5 DEF Subscribe, Request, Creates
<1>6. ASSUME NEW i \in Items, Unsubscribe(i) PROVE CancelsOnly
  <2>1. cancelled' = cancelled \/ \E t, b : b \in BOOLEAN /\ cancelled' = [cancelled EXCEPT ![t] = b]
    <3>1. \A t : Unfinished(t) \in BOOLEAN
      BY DEF Unfinished
    <3>. QED
      BY <1>6, <3>1 DEF Unsubscribe
  <2>2. CovTypes => cancelled' \in [Tasks -> BOOLEAN]
    BY <2>1 DEF CovTypes
  <2>. QED
    BY <1>6, <2>2 DEF Unsubscribe, CancelsOnly
<1>7. ASSUME NEW i \in Items, Delete(i) PROVE CancelsOnly
  BY <1>7 DEF Delete, CancelsOnly, CovTypes
<1>8. ASSUME Shutdown \/ End PROVE CancelsOnly
  BY <1>8 DEF Shutdown, End, CancelAll, Close, CancelsOnly, CovTypes, Unfinished
<1>9. ASSUME NEW p \in Passes, BeginPass(p) \/ PassEnds(p) PROVE CancelsOnly
  BY <1>9 DEF BeginPass, PassEnds, CancelsOnly, CovTypes
<1>10. ASSUME UNCHANGED vars PROVE CancelsOnly
  BY <1>10 DEF vars, covVars, CancelsOnly, CovTypes
<1>. QED
  BY <1>1, <1>2, <1>3, <1>4, <1>5, <1>6, <1>7, <1>8, <1>9, <1>10
     DEF Next, Pass, TaskRuns, Client


----------------------------------------------------------------------------
(* The invariant, per kind of step.                                         *)

CovInv ==
  /\ CovTypes
  /\ UnusedIsUnknown
  /\ ListenerMakesClientNames
  /\ OneKnown
  /\ UnfinishedIsListed

LEMMA ListedType ==
  ASSUME CovTypes PROVE Listed \subseteq Tasks /\ NoName \notin Names
  BY NameAssumption DEF CovTypes, Listed

\* A new task is the only one that becomes known.
LEMMA CreatesKnown ==
  ASSUME CovTypes, NEW c \in Creators, NEW n \in Names, Creates(c, n)
  PROVE  \E t \in Tasks :
           /\ phase[t] = "unused" /\ phase'[t] # "unused" /\ name'[t] = n
           /\ \A u \in Tasks : u # t => phase'[u] = phase[u] /\ name'[u] = name[u]
           /\ making' = [making EXCEPT ![c] = t]
           /\ Listed' = Listed
           /\ BeingMade' = BeingMade \cup {t}
           /\ CovTypes'
<1>1. PICK start \in {"entering", "done"} : Create(c, n, start)
  BY DEF Creates
<1>2. PICK t \in Tasks :
        /\ phase[t] = "unused"
        /\ phase' = [phase EXCEPT ![t] = start]
        /\ name' = [name EXCEPT ![t] = n]
        /\ making' = [making EXCEPT ![c] = t]
  BY <1>1 DEF Create
<1>3. CovTypes'
  BY <1>2 DEF CovTypes, Creates, Phases
<1>4. Listed' = Listed
  BY DEF Creates, Listed
<1>5. BeingMade' = BeingMade \cup {t}
  <2>1. making[c] = 0 /\ 0 \notin Tasks /\ making \in [Creators -> Tasks \cup {0}]
    BY DEF Creates, CovTypes, Tasks
  <2>. QED
    BY <1>2, <2>1 DEF BeingMade
<1>. QED
  BY <1>2, <1>3, <1>4, <1>5 DEF CovTypes

LEMMA CreatesInv ==
  ASSUME CovInv, NEW c \in Creators, NEW n \in Names, Creates(c, n), Managed' \subseteq Managed,
         n \notin Managed' \/ (c # Listener /\ \A t \in Known : name[t] # n),
         c = Listener => n \in ClientNames
  PROVE  CovInv'
<1>1. PICK t \in Tasks :
        /\ phase[t] = "unused" /\ phase'[t] # "unused" /\ name'[t] = n
        /\ \A u \in Tasks : u # t => phase'[u] = phase[u] /\ name'[u] = name[u]
        /\ making' = [making EXCEPT ![c] = t]
        /\ Listed' = Listed
        /\ BeingMade' = BeingMade \cup {t}
        /\ CovTypes'
  BY CreatesKnown DEF CovInv
<1>2. t \notin Known /\ Known \subseteq Tasks /\ Known' = Known \cup {t}
  BY <1>1, ListedType DEF CovInv, UnusedIsUnknown, Known, BeingMade
<1>3. \A u \in Known : u # t /\ u \in Tasks /\ name'[u] = name[u]
  BY <1>1, <1>2
<1>4. UnusedIsUnknown'
  BY <1>1, <1>2 DEF CovInv, UnusedIsUnknown
<1>5. ListenerMakesClientNames'
  <2>1. Listener \in Creators /\ making \in [Creators -> Tasks \cup {0}]
    BY DEF Creators, CovInv, CovTypes
  <2>2. CASE c = Listener
    <3>1. making'[Listener] = t
      BY <1>1, <2>1, <2>2
    <3>. QED
      BY <1>1, <2>2, <3>1 DEF ListenerMakesClientNames
  <2>3. CASE c # Listener
    <3>1. making'[Listener] = making[Listener]
      BY <1>1, <2>1, <2>3
    <3>2. making[Listener] # 0 => making[Listener] \in Known
      BY <2>1 DEF Known, BeingMade
    <3>. QED
      BY <1>3, <3>1, <3>2 DEF ListenerMakesClientNames, CovInv
  <2>. QED
    BY <2>2, <2>3
<1>6. OneKnown'
  BY <1>1, <1>2, <1>3 DEF CovInv, OneKnown
<1>7. UnfinishedIsListed'
  BY <1>1 DEF CovInv, UnfinishedIsListed, Unfinished, BeingMade
<1>. QED
  BY <1>1, <1>4, <1>5, <1>6, <1>7 DEF CovInv

LEMMA AppendInv ==
  ASSUME CovInv, NEW c \in Creators, AppendTask(c), Managed' \subseteq Managed
  PROVE  CovInv'
<1>. DEFINE t == making[c]
<1>1. /\ making \in [Creators -> Tasks \cup {0}] /\ subscription_tasks \in Seq(Tasks)
      /\ t \in Tasks /\ making' = [making EXCEPT ![c] = 0]
      /\ subscription_tasks' = Append(subscription_tasks, t)
      /\ phase' = phase /\ name' = name /\ cancelled' = cancelled
  BY DEF CovInv, CovTypes, AppendTask
<1>2. Listed' = Listed \cup {t}
  BY <1>1 DEF Listed
<1>3. t \in BeingMade /\ BeingMade' \subseteq BeingMade /\ BeingMade \subseteq BeingMade' \cup {t}
  <2>1. 0 \notin Tasks
    BY DEF Tasks
  <2>2. \A d \in Creators : making'[d] = IF d = c THEN 0 ELSE making[d]
    BY <1>1
  <2>3. t \in BeingMade
    BY <1>1 DEF BeingMade
  <2>4. BeingMade' = {u \in Tasks : \E d \in Creators : making'[d] = u}
    BY DEF BeingMade, Tasks
  <2>. QED
    BY <2>1, <2>2, <2>3, <2>4 DEF BeingMade
<1>4. Known' = Known
  BY <1>2, <1>3 DEF Known
<1>5. CovTypes'
  BY <1>1 DEF CovInv, CovTypes
<1>6. UnusedIsUnknown' /\ OneKnown'
  BY <1>1, <1>4 DEF CovInv, UnusedIsUnknown, OneKnown
<1>7. ListenerMakesClientNames'
  BY <1>1 DEF CovInv, ListenerMakesClientNames, Creators
<1>8. UnfinishedIsListed'
  <2>. SUFFICES ASSUME NEW u \in Tasks, Unfinished(u)', name'[u] \in Managed'
                PROVE  u \in Known'
    BY DEF UnfinishedIsListed, Known, BeingMade
  <2>. QED
    BY <1>1, <1>4 DEF CovInv, UnfinishedIsListed, Unfinished, Known, BeingMade
<1>. QED
  BY <1>5, <1>6, <1>7, <1>8 DEF CovInv

LEMMA GoesOnInv ==
  ASSUME CovInv, NEW t \in Tasks, GoesOn(t), Managed' \subseteq Managed
  PROVE  CovInv'
<1>1. PICK s \in {"live", "cancelling", "failing", "done"} : phase' = [phase EXCEPT ![t] = s]
  BY DEF GoesOn
<1>2. CovTypes' /\ name' = name /\ making' = making /\ Listed' = Listed
  BY <1>1 DEF CovInv, CovTypes, GoesOn, Phases, Listed
<1>3. Known' = Known /\ BeingMade' = BeingMade
  BY <1>2 DEF Known, BeingMade
<1>4. \A u \in Tasks : /\ Unfinished(u)' => Unfinished(u)
                       /\ phase'[u] = "unused" => phase[u] = "unused"
  BY <1>1 DEF CovInv, CovTypes, GoesOn, Unfinished
<1>5. UnusedIsUnknown' /\ OneKnown' /\ ListenerMakesClientNames'
  BY <1>2, <1>3, <1>4 DEF CovInv, UnusedIsUnknown, OneKnown, ListenerMakesClientNames
<1>6. UnfinishedIsListed'
  BY <1>2, <1>4 DEF CovInv, UnfinishedIsListed
<1>. QED
  BY <1>2, <1>5, <1>6 DEF CovInv

\* Only entries with the name of the task that ends leave the list.
LEMMA EndsListed ==
  ASSUME CovTypes, NEW t, EndTask(t)
  PROVE  /\ subscription_tasks' \in Seq(Tasks)
         /\ Listed' \subseteq Listed
         /\ \A u \in Listed : name[u] # name[t] => u \in Listed'
<1>1. subscription_tasks \in Seq(Tasks)
  BY DEF CovTypes
<1>2. PICK l, of, n : l = subscription_tasks /\ of = name /\ n = name[t]
  OBVIOUS
<1>3. l \in Seq(Tasks)
  BY <1>1, <1>2
<1>4. PICK kept : kept = {i \in 1..Len(l) : ~IsPopped(l, of, n, i)}
  OBVIOUS
<1>5. kept \subseteq 1..Len(l)
  BY <1>4
<1>6. \A k \in 1..Len(l) : of[l[k]] # n => k \in kept
  <2>. SUFFICES ASSUME NEW k \in 1..Len(l), of[l[k]] # n, IsPopped(l, of, n, k) PROVE FALSE
    BY <1>4
  <2>1. PICK s \in 1..k : \A j \in s..k : of[l[j]] = n
    BY DEF IsPopped
  <2>. QED
    BY <2>1
<1>7. PICK r : r = Only(l, kept)
  OBVIOUS
<1>8. subscription_tasks' = r
  BY <1>2, <1>4, <1>7 DEF EndTask, PopMatching
<1>9. /\ r \in Seq(Tasks)
      /\ \A i \in 1..Len(r) : \E k \in kept : r[i] = l[k]
      /\ \A k \in kept : \E i \in 1..Len(r) : r[i] = l[k]
  <2>1. HasKept(r, l, kept)
    BY <1>3, <1>5, <1>7, OnlyKept
  <2>. QED
    BY <2>1 DEF HasKept
<1>10. Listed = {l[k] : k \in 1..Len(l)} /\ Listed' = {r[i] : i \in 1..Len(r)}
  BY <1>2, <1>8 DEF Listed
<1>11. ASSUME NEW u \in Listed' PROVE u \in Listed
  <2>1. PICK i \in 1..Len(r) : u = r[i]
    BY <1>10
  <2>2. PICK k \in kept : u = l[k]
    BY <1>9, <2>1
  <2>. QED
    BY <1>5, <1>10, <2>2
<1>12. ASSUME NEW u \in Listed, name[u] # name[t] PROVE u \in Listed'
  <2>1. PICK k \in 1..Len(l) : u = l[k]
    BY <1>10
  <2>2. of[l[k]] # n
    BY <1>2, <1>12, <2>1
  <2>3. k \in kept
    BY <1>6, <2>2
  <2>4. PICK i \in 1..Len(r) : r[i] = l[k]
    BY <1>9, <2>3
  <2>. QED
    BY <1>10, <2>1, <2>4
<1>. QED
  BY <1>8, <1>9, <1>11, <1>12

LEMMA EndsInv ==
  ASSUME CovInv, NEW t \in Tasks, Ends(t), Managed' \subseteq Managed
  PROVE  CovInv'
<1>1. /\ phase' = [phase EXCEPT ![t] = "done"]
      /\ subscription_tasks' = PopMatching(subscription_tasks, name, name[t])
      /\ name' = name /\ making' = making
      /\ Unfinished(t)
  BY DEF Ends, EndTask
<1>2. subscription_tasks \in Seq(Tasks) /\ phase \in [Tasks -> Phases]
  BY DEF CovInv, CovTypes
<1>3. subscription_tasks' \in Seq(Tasks)
  BY EndsListed DEF CovInv, Ends
<1>4. /\ Listed' \subseteq Listed
      /\ \A u \in Listed : name[u] # name[t] => u \in Listed'
  BY EndsListed DEF CovInv, Ends
<1>5. CovTypes'
  BY <1>1, <1>2, <1>3 DEF CovInv, CovTypes, Ends, Phases
<1>6. BeingMade' = BeingMade /\ Known' \subseteq Known
  BY <1>1, <1>4 DEF BeingMade, Known
<1>7. \A u \in Tasks : /\ Unfinished(u)' => Unfinished(u) /\ u # t
                       /\ phase'[u] = "unused" => phase[u] = "unused"
  BY <1>1, <1>2 DEF Unfinished
<1>8. UnusedIsUnknown' /\ OneKnown' /\ ListenerMakesClientNames'
  BY <1>1, <1>6, <1>7 DEF CovInv, UnusedIsUnknown, OneKnown, ListenerMakesClientNames
<1>9. UnfinishedIsListed'
  <2>. SUFFICES ASSUME NEW u \in Tasks, Unfinished(u)', name'[u] \in Managed'
                PROVE  u \in Listed' \/ u \in BeingMade'
    BY DEF UnfinishedIsListed, BeingMade
  <2>1. u # t /\ Unfinished(u) /\ name[u] \in Managed
    BY <1>1, <1>7
  <2>2. u \in Listed \/ u \in BeingMade
    BY <2>1 DEF CovInv, UnfinishedIsListed, BeingMade
  <2>3. CASE name[u] = name[t]
    <3>1. t \in Known /\ u \in Known
      BY <1>1, <2>1, <2>2, <2>3 DEF CovInv, UnfinishedIsListed, Known, BeingMade
    <3>. QED
      BY <2>1, <2>3, <3>1 DEF CovInv, OneKnown
  <2>. QED
    BY <1>4, <1>6, <2>2, <2>3
<1>. QED
  BY <1>5, <1>8, <1>9 DEF CovInv

LEMMA CancelsInv ==
  ASSUME CovInv, CancelsOnly, Managed' \subseteq Managed
  PROVE  CovInv'
<1>1. CovTypes' /\ name' = name /\ making' = making /\ phase' = phase /\ Listed' = Listed
  BY DEF CancelsOnly, CovInv, CovTypes, Listed
<1>2. Known' = Known /\ BeingMade' = BeingMade
  BY <1>1 DEF Known, BeingMade
<1>3. UnusedIsUnknown' /\ OneKnown' /\ ListenerMakesClientNames'
  BY <1>1, <1>2 DEF CovInv, UnusedIsUnknown, OneKnown, ListenerMakesClientNames
<1>4. UnfinishedIsListed'
  BY <1>1 DEF CovInv, UnfinishedIsListed, Unfinished
<1>. QED
  BY <1>1, <1>3, <1>4 DEF CovInv

\* What a pass creates nobody else is making, or they race.
LEMMA PassInv ==
  ASSUME CovInv, NEW p \in Passes, PassMakes(p), Managed' \subseteq Managed,
         raced' = raced \cup {n \in Names : Races(n)}
  PROVE  CovInv'
<1>1. PICK n \in Names : ~task_in_cov_tasklist(n) /\ Creates(p, n)
  BY DEF PassMakes
<1>2. p \in Creators /\ p # Listener
  BY CovAssumption DEF Creators
<1>3. n \notin Managed' \/ \A t \in Known : name[t] # n
  <2>. SUFFICES ASSUME NEW t \in BeingMade, name[t] = n PROVE n \notin Managed'
    BY <1>1 DEF Known, task_in_cov_tasklist
  <2>1. PICK c \in Creators : making[c] = t
    BY DEF BeingMade
  <2>2. t \in Tasks /\ t # 0 /\ making[p] = 0
    BY <1>1 DEF BeingMade, Tasks, Creates
  <2>3. CASE c = Listener
    BY <2>1, <2>2, <2>3 DEF CovInv, ListenerMakesClientNames, Managed
  <2>4. CASE c \in Passes
    <3>1. PICK u \in Tasks : name'[u] = n /\ making' = [making EXCEPT ![p] = u]
      BY <1>1, <1>2, CreatesKnown DEF CovInv
    <3>2. making'[p] = u /\ u # 0
      BY <1>2, <3>1 DEF CovInv, CovTypes, Tasks
    <3>3. Races(n)
      BY <2>1, <2>2, <2>4, <3>1, <3>2 DEF Races
    <3>. QED
      BY <3>3 DEF Managed
  <2>. QED
    BY <2>1, <2>3, <2>4 DEF Creators
<1>4. p = Listener => n \in ClientNames
  BY <1>2
<1>5. n \notin Managed' \/ (p # Listener /\ \A t \in Known : name[t] # n)
  BY <1>2, <1>3
<1>. HIDE DEF Creates
<1>. QED
  BY <1>1, <1>2, <1>4, <1>5, CreatesInv

----------------------------------------------------------------------------
(* The theorems.                                                            *)

LEMMA TypesOfStep ==
  ASSUME CovTypes, PlaceInConfig, [Next]_vars
  PROVE  CovTypes'
<1>1. ASSUME NEW c \in Creators, NEW n \in Names, Creates(c, n) PROVE CovTypes'
  BY <1>1, CreatesKnown
<1>2. ASSUME NEW c \in Creators, AppendTask(c) PROVE CovTypes'
  BY <1>2 DEF AppendTask, CovTypes
<1>3. ASSUME NEW t \in Tasks, GoesOn(t) PROVE CovTypes'
  BY <1>3 DEF GoesOn, CovTypes, Phases
<1>4. ASSUME NEW t \in Tasks, Ends(t) PROVE CovTypes'
  <2>1. subscription_tasks' \in Seq(Tasks)
    BY <1>4, EndsListed DEF Ends
  <2>. QED
    BY <1>4, <2>1 DEF Ends, EndTask, CovTypes, Phases
<1>5. ASSUME CancelsOnly PROVE CovTypes'
  BY <1>5 DEF CancelsOnly, CovTypes
<1>6. ASSUME NEW p \in Passes, PassMakes(p) PROVE CovTypes'
  BY <1>1, <1>6 DEF PassMakes, Creators
<1>7. ASSUME NEW n \in ClientNames, Creates(Listener, n) PROVE CovTypes'
  BY <1>1, <1>7, NameAssumption DEF Creators
<1>. QED
  BY <1>2, <1>3, <1>4, <1>5, <1>6, <1>7, Effects

LEMMA InvOfStep ==
  ASSUME CovInv, PlaceInConfig, [Next]_vars
  PROVE  CovInv'
<1>1. raced' = raced \/ raced' = raced \cup {n \in Names : Races(n)}
  BY DEF Next, vars
<1>2. Managed' \subseteq Managed
  BY <1>1 DEF Managed
<1>3. ASSUME NEW n \in ClientNames, Creates(Listener, n) PROVE CovInv'
  <2>1. n \in Names /\ Listener \in Creators /\ n \notin Managed'
    BY NameAssumption DEF Creators, Managed
  <2>. QED
    BY <1>2, <1>3, <2>1, CreatesInv
<1>4. CASE UNCHANGED vars
  <2>1. CancelsOnly
    BY <1>4 DEF vars, covVars, CancelsOnly, CovTypes
  <2>. QED
    BY <1>2, <2>1, CancelsInv
<1>5. CASE Next
  <2>1. raced' = raced \cup {n \in Names : Races(n)}
    BY <1>5 DEF Next
  <2>. QED
    BY <1>2, <1>3, <2>1, Effects, PassInv, AppendInv, GoesOnInv, EndsInv, CancelsInv
<1>. QED
  BY <1>4, <1>5

LEMMA InitInv ==
  ASSUME Init PROVE CovInv /\ PlaceInConfig
<1>1. CovTypes
  BY DEF Init, CovTypes, Phases
<1>2. PlaceInConfig
  BY CovAssumption DEF Init, PlaceInConfig
<1>3. Known = {} /\ making[Listener] = 0
  BY DEF Init, Known, Listed, BeingMade, Tasks, Creators
<1>4. \A t \in Tasks : ~Unfinished(t)
  BY DEF Init, Unfinished
<1>. QED
  BY <1>1, <1>2, <1>3, <1>4
     DEF CovInv, UnusedIsUnknown, ListenerMakesClientNames, OneKnown, UnfinishedIsListed

LEMMA CovCorrect == Spec => []CovInv
<1>1. Init => CovInv /\ PlaceInConfig
  BY InitInv
<1>2. CovInv /\ PlaceInConfig /\ [Next]_vars => CovInv' /\ PlaceInConfig'
  BY InvOfStep, PlaceStep
<1>. QED
  BY <1>1, <1>2, PTL DEF Spec

\* Whatever passes, clients, devices and the end of the worker do, a task that has
\* not finished, and for whose object no passes raced, is in the list, or about to
\* be put there: it can be found and cancelled.
THEOREM UnfinishedIsListedCorrect == Spec => []UnfinishedIsListed
<1>1. CovInv => UnfinishedIsListed
  BY DEF CovInv
<1>. QED
  BY <1>1, CovCorrect, PTL

\* However passes overlap, what only the configuration subscribes is subscribed
\* once, unless a pass made the task of an object while another was making it and
\* had not put it in the list: there is no other way to a second one.
THEOREM OneTaskPerNameCorrect == Spec => []OneTaskPerName
<1>1. CovInv => OneTaskPerName
  <2>1. CovInv => \A t \in Tasks : Unfinished(t) /\ name[t] \in Managed => t \in Known
    BY DEF CovInv, UnfinishedIsListed, Known, BeingMade
  <2>. QED
    BY <2>1 DEF CovInv, OneKnown, OneTaskPerName
<1>. QED
  BY <1>1, CovCorrect, PTL

\* Of any number of creators and passes, no step takes the entry of a task out
\* of the list unless a task of the same name ends in it.
THEOREM OnlyOwnEntriesCorrect == Spec => OnlyOwnEntries
<1>. DEFINE Gone == \A t \in Listed \ Listed' :
              \E u \in Tasks : name[u] = name[t] /\ phase[u] # "done" /\ phase'[u] = "done"
<1>1. CovTypes /\ PlaceInConfig /\ [Next]_vars => Gone
  <2>. SUFFICES ASSUME CovTypes, PlaceInConfig, [Next]_vars, NEW t \in Listed, t \notin Listed'
                PROVE  \E u \in Tasks :
                         name[u] = name[t] /\ phase[u] # "done" /\ phase'[u] = "done"
    OBVIOUS
  <2>1. ASSUME subscription_tasks' = subscription_tasks PROVE FALSE
    BY <2>1 DEF Listed
  <2>2. ASSUME NEW c \in Creators, AppendTask(c) PROVE FALSE
    <3>1. PICK l, e : l = subscription_tasks /\ subscription_tasks' = Append(l, e)
      BY <2>2 DEF AppendTask
    <3>2. l \in Seq(Tasks)
      BY <3>1 DEF CovTypes
    <3>. QED
      BY <3>1, <3>2 DEF Listed
  <2>3. PICK u \in Tasks : Ends(u)
    BY <2>1, <2>2, Effects DEF PassMakes, Creates, GoesOn, CancelsOnly
  <2>4. name[u] = name[t]
    BY <2>3, EndsListed DEF Ends
  <2>5. phase[u] # "done" /\ phase'[u] = "done"
    BY <2>3 DEF Ends, EndTask, Unfinished, CovTypes
  <2>. QED
    BY <2>4, <2>5
<1>2. Init => CovTypes /\ PlaceInConfig
  BY InitInv DEF CovInv
<1>3. CovTypes /\ PlaceInConfig /\ [Next]_vars => CovTypes' /\ PlaceInConfig'
  BY TypesOfStep, PlaceStep
<1>4. Gone => [Gone]_vars
  OBVIOUS
<1>. HIDE DEF Gone
<1>5. Spec => [][Gone]_vars
  BY <1>1, <1>2, <1>3, PTL DEF Spec
<1>. QED
  BY <1>5 DEF OnlyOwnEntries, Gone

----------------------------------------------------------------------------
(* TypeOK.                                                                  *)

ListedOnce == Distinct(subscription_tasks)

\* A task is made by one creator, who alone will put it in the list.
MakingApart ==
  /\ \A c, d \in Creators : making[c] # 0 /\ making[c] = making[d] => c = d
  /\ \A c \in Creators : making[c] \notin Listed

Named == \A t \in Tasks : phase[t] # "unused" => name[t] \in Names

Counters ==
  /\ at \in [Passes -> 1..(Len(Config) + 1)]
  /\ rounds \in [Passes -> 0..MaxRounds]
  /\ requests \in 0..MaxRequests
  /\ main \in {"running", "stopping", "ending", "closed"}

ListInv == CovTypes /\ UnusedIsUnknown /\ ListedOnce /\ MakingApart /\ Named

LEMMA CountersStep ==
  ASSUME Counters, [Next]_vars PROVE Counters'
<1>. USE DEF Counters
<1>1. Len(Config) \in Nat /\ MaxRounds \in Nat /\ MaxRequests \in Nat
  BY CovAssumption
<1>2. ASSUME NEW p \in Passes, BeginPass(p) PROVE Counters'
  BY <1>1, <1>2 DEF BeginPass
<1>3. ASSUME NEW p \in Passes, PassCreates(p) \/ PassEnds(p) PROVE Counters'
  <2>1. \E k \in 1..(Len(Config) + 1) : at' = [at EXCEPT ![p] = k]
    <3>1. CASE PassCreates(p)
      <4>1. PICK k \in at[p]..Len(Config) : at' = [at EXCEPT ![p] = k + 1]
        BY <3>1 DEF PassCreates
      <4>2. at[p] \in 1..(Len(Config) + 1)
        OBVIOUS
      <4>3. k + 1 \in 1..(Len(Config) + 1)
        BY <1>1, <4>2
      <4>. QED
        BY <4>1, <4>3
    <3>2. CASE PassEnds(p)
      <4>1. Len(Config) + 1 \in 1..(Len(Config) + 1)
        BY <1>1
      <4>. QED
        BY <3>2, <4>1 DEF PassEnds
    <3>. QED
      BY <1>3, <3>1, <3>2
  <2>. QED
    BY <1>3, <2>1 DEF PassCreates, PassEnds
<1>4. CASE \E c \in Creators : AppendTask(c)
  BY <1>4 DEF AppendTask
<1>5. CASE \E t \in Tasks : TaskRuns(t) \/ Device(t)
  BY <1>5 DEF TaskRuns, Cancelled, Unsubscribed, UnsubscribeRaises, Device, Confirmed, Rejected, Fails
<1>6. CASE Client
  <2>1. /\ \E kind : Request(kind)
        /\ UNCHANGED <<at, rounds, main>>
    BY <1>6 DEF Client, Subscribe, Unsubscribe, Delete
  <2>. QED
    BY <1>1, <2>1 DEF Request
<1>7. CASE Shutdown \/ End \/ UNCHANGED vars
  BY <1>7 DEF Shutdown, End, CancelAll, Close, vars, covVars
<1>. QED
  BY <1>2, <1>3, <1>4, <1>5, <1>6, <1>7 DEF Next, Pass

LEMMA ListInvStep ==
  ASSUME ListInv, PlaceInConfig, [Next]_vars PROVE ListInv'
<1>. USE DEF ListInv
<1>1. CovTypes'
  BY TypesOfStep
<1>2. ASSUME NEW c \in Creators, NEW n \in Names, Creates(c, n) PROVE ListInv'
  <2>1. PICK t \in Tasks :
          /\ phase[t] = "unused" /\ phase'[t] # "unused" /\ name'[t] = n
          /\ \A u \in Tasks : u # t => phase'[u] = phase[u] /\ name'[u] = name[u]
          /\ making' = [making EXCEPT ![c] = t]
          /\ Listed' = Listed
          /\ BeingMade' = BeingMade \cup {t}
    BY <1>2, CreatesKnown
  <2>2. t \notin Listed /\ t \notin BeingMade
    BY <2>1 DEF UnusedIsUnknown, Known
  <2>3. \A d \in Creators : making'[d] = IF d = c THEN t ELSE making[d]
    BY <2>1 DEF CovTypes
  <2>4. MakingApart'
    <3>1. \A d \in Creators : making[d] # t
      BY <2>2 DEF BeingMade
    <3>. QED
      BY <2>1, <2>2, <2>3, <3>1 DEF MakingApart
  <2>5. UnusedIsUnknown' /\ Named'
    BY <2>1 DEF UnusedIsUnknown, Named, Known
  <2>6. ListedOnce'
    BY <1>2 DEF ListedOnce, Creates
  <2>. QED
    BY <1>1, <2>4, <2>5, <2>6
<1>3. ASSUME NEW c \in Creators, AppendTask(c) PROVE ListInv'
  <2>1. PICK l, t : l = subscription_tasks /\ t = making[c]
    OBVIOUS
  <2>2. /\ l \in Seq(Tasks) /\ t \in Tasks /\ 0 \notin Tasks
        /\ subscription_tasks' = Append(l, t)
        /\ making' = [making EXCEPT ![c] = 0]
        /\ phase' = phase /\ name' = name
    BY <1>3, <2>1 DEF AppendTask, CovTypes, Tasks
  <2>3. Listed' = Listed \cup {t}
    BY <2>1, <2>2 DEF Listed
  <2>4. \A d \in Creators : making'[d] = IF d = c THEN 0 ELSE making[d]
    BY <2>2 DEF CovTypes
  <2>5. t \notin Listed
    BY <2>1 DEF MakingApart
  <2>6. \A i \in 1..Len(l) : l[i] # t
    BY <2>1, <2>5 DEF Listed
  <2>7. ListedOnce'
    BY <2>1, <2>2, <2>6 DEF ListedOnce, Distinct
  <2>8. MakingApart'
    <3>1. Listed' \subseteq Tasks
      BY <1>1, ListedType DEF CovTypes, Listed
    <3>2. \A d \in Creators : d # c => making[d] # t \/ making[d] = 0
      BY <2>1, <2>2 DEF MakingApart
    <3>3. \A d \in Creators : making'[d] \notin Listed'
      BY <2>2, <2>3, <2>4, <3>1, <3>2 DEF MakingApart
    <3>. QED
      BY <2>4, <3>3 DEF MakingApart
  <2>9. UnusedIsUnknown'
    <3>1. t \in BeingMade /\ BeingMade' \subseteq BeingMade
      BY <2>1, <2>2, <2>4 DEF BeingMade
    <3>. QED
      BY <2>2, <2>3, <3>1 DEF UnusedIsUnknown, Known
  <2>. QED
    BY <1>1, <2>2, <2>7, <2>8, <2>9 DEF Named
<1>4. ASSUME NEW t \in Tasks, GoesOn(t) \/ Ends(t) PROVE ListInv'
  <2>1. /\ name' = name /\ making' = making
        /\ \A u \in Tasks : phase'[u] = "unused" <=> phase[u] = "unused"
    BY <1>4 DEF GoesOn, Ends, EndTask, Unfinished, CovTypes
  <2>2. Listed' \subseteq Listed /\ ListedOnce'
    <3>1. CASE GoesOn(t)
      BY <3>1 DEF GoesOn, Listed, ListedOnce
    <3>2. CASE Ends(t)
      <4>1. Listed' \subseteq Listed
        BY <3>2, EndsListed DEF Ends
      <4>2. PICK l, kept : /\ l = subscription_tasks
                           /\ kept = {i \in 1..Len(l) : ~IsPopped(l, name, name[t], i)}
        OBVIOUS
      <4>3. PICK r : r = Only(l, kept)
        OBVIOUS
      <4>4. subscription_tasks' = r
        BY <3>2, <4>2, <4>3 DEF Ends, EndTask, PopMatching
      <4>5. l \in Seq(Tasks) /\ kept \subseteq 1..Len(l)
        BY <4>2 DEF CovTypes
      <4>7. Distinct(l)
        BY <4>2 DEF ListedOnce
      <4>6. Distinct(r)
        BY <4>3, <4>5, <4>7, OnlyOnce
      <4>. QED
        BY <4>1, <4>4, <4>6 DEF ListedOnce
    <3>. QED
      BY <1>4, <3>1, <3>2
  <2>3. BeingMade' = BeingMade
    BY <2>1 DEF BeingMade
  <2>4. MakingApart' /\ UnusedIsUnknown' /\ Named'
    BY <2>1, <2>2, <2>3 DEF MakingApart, UnusedIsUnknown, Named, Known
  <2>. QED
    BY <1>1, <2>2, <2>4
<1>5. CASE CancelsOnly
  BY <1>1, <1>5 DEF CancelsOnly, ListedOnce, MakingApart, UnusedIsUnknown, Named, Known, Listed, BeingMade
<1>6. ASSUME NEW p \in Passes, PassMakes(p) PROVE ListInv'
  BY <1>2, <1>6 DEF PassMakes, Creators
<1>7. ASSUME NEW n \in ClientNames, Creates(Listener, n) PROVE ListInv'
  BY <1>2, <1>7, NameAssumption DEF Creators
<1>. QED
  BY <1>3, <1>4, <1>5, <1>6, <1>7, Effects

\* TypeOK: a task is put in the list once, by the creator that made it, and however
\* ends of tasks pop entries, none is ever there twice; for any number of passes.
THEOREM TypeCorrect == Spec => []TypeOK
<1>1. Init => ListInv /\ PlaceInConfig /\ Counters /\ raced \subseteq Names
  <2>. SUFFICES ASSUME Init PROVE ListInv /\ PlaceInConfig /\ Counters /\ raced \subseteq Names
    OBVIOUS
  <2>1. CovTypes /\ UnusedIsUnknown /\ PlaceInConfig
    BY InitInv DEF CovInv
  <2>2. Listed = {} /\ ListedOnce
    BY DEF Init, Listed, ListedOnce, Distinct
  <2>3. MakingApart /\ Named
    BY <2>2 DEF Init, MakingApart, Named
  <2>4. Counters
    BY CovAssumption DEF Init, Counters
  <2>5. raced \subseteq Names
    BY DEF Init
  <2>. QED
    BY <2>1, <2>2, <2>3, <2>4, <2>5 DEF ListInv
<1>2. ListInv /\ PlaceInConfig /\ Counters /\ raced \subseteq Names /\ [Next]_vars
        => ListInv' /\ PlaceInConfig' /\ Counters' /\ (raced \subseteq Names)'
  <2>1. raced \subseteq Names /\ [Next]_vars => raced' \subseteq Names
    BY DEF Next, vars
  <2>. QED
    BY <2>1, ListInvStep, PlaceStep, CountersStep
<1>3. ListInv /\ Counters /\ raced \subseteq Names => TypeOK
  BY DEF ListInv, CovTypes, ListedOnce, Distinct, Named, Counters, TypeOK
<1>. QED
  BY <1>1, <1>2, <1>3, PTL DEF Spec
=============================================================================
