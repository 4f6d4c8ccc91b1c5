--------------------------- MODULE DiscoveryProofs ---------------------------
(***************************************************************************)
(* Proofs about DeviceConfig and Discovery, for any network and options.   *)
(***************************************************************************)
EXTENDS Discovery, FiniteSetTheorems, WellFoundedInduction, TLAPS

\* An element of a sequence.
LEMMA ElementFacts ==
  ASSUME NEW S, NEW q \in Seq(S), NEW i \in 1..Len(q)
  PROVE  q[i] \in S
OBVIOUS

\* What Append does.
LEMMA AppendFacts ==
  ASSUME NEW S, NEW q \in Seq(S), NEW x \in S
  PROVE  /\ Append(q, x) \in Seq(S)
         /\ Len(q) \in Nat /\ Len(Append(q, x)) = Len(q) + 1
         /\ Append(q, x)[Len(q) + 1] = x
         /\ \A i \in 1..Len(q) : Append(q, x)[i] = q[i]
OBVIOUS

----------------------------------------------------------------------------
(* Sequences without repetitions.                                           *)

\* The places after one is taken out.
LEMMA RemovePlaces ==
  ASSUME NEW S, NEW q \in Seq(S), NEW i \in 1..Len(q)
  PROVE  /\ RemoveAt(q, i) \in Seq(S) /\ Len(RemoveAt(q, i)) = Len(q) - 1
         /\ \A k \in 1..(Len(q) - 1) : RemoveAt(q, i)[k] = IF k < i THEN q[k] ELSE q[k + 1]
<1>1. /\ SubSeq(q, 1, i - 1) \in Seq(S) /\ Len(SubSeq(q, 1, i - 1)) = i - 1
      /\ \A k \in 1..(i - 1) : SubSeq(q, 1, i - 1)[k] = q[k]
  OBVIOUS
<1>2. /\ SubSeq(q, i + 1, Len(q)) \in Seq(S) /\ Len(SubSeq(q, i + 1, Len(q))) = Len(q) - i
      /\ \A k \in 1..(Len(q) - i) : SubSeq(q, i + 1, Len(q))[k] = q[i + k]
  OBVIOUS
<1>3. PICK a \in Seq(S), b \in Seq(S) : a = SubSeq(q, 1, i - 1) /\ b = SubSeq(q, i + 1, Len(q))
  BY <1>1, <1>2
<1>4. /\ a \o b \in Seq(S) /\ Len(a \o b) = Len(a) + Len(b)
      /\ \A k \in 1..Len(a) : (a \o b)[k] = a[k]
      /\ \A k \in 1..Len(b) : (a \o b)[Len(a) + k] = b[k]
  OBVIOUS
<1>5. Len(a) = i - 1 /\ Len(b) = Len(q) - i /\ Len(q) \in Nat
  BY <1>1, <1>2, <1>3
<1>6. \A k \in 1..(Len(q) - 1) : (a \o b)[k] = IF k < i THEN q[k] ELSE q[k + 1]
  <2>. SUFFICES ASSUME NEW k \in 1..(Len(q) - 1)
                PROVE  (a \o b)[k] = IF k < i THEN q[k] ELSE q[k + 1]
    OBVIOUS
  <2>1. CASE k < i
    <3>1. k \in 1..Len(a) /\ k \in 1..(i - 1)
      BY <1>5, <2>1
    <3>. QED
      BY <1>1, <1>3, <1>4, <2>1, <3>1
  <2>2. CASE ~(k < i)
    <3>. DEFINE m == k - (i - 1)
    <3>1. m \in 1..Len(b) /\ m \in 1..(Len(q) - i) /\ i + m = k + 1 /\ Len(a) + m = k
      BY <1>5, <2>2
    <3>. HIDE DEF m
    <3>2. (a \o b)[k] = b[m]
      BY <1>4, <3>1
    <3>3. b[m] = q[k + 1]
      BY <1>2, <1>3, <3>1
    <3>. QED
      BY <2>2, <3>2, <3>3
  <2>. QED
    BY <2>1, <2>2
<1>7. RemoveAt(q, i) = a \o b
  BY <1>3 DEF RemoveAt
<1>8. Len(a \o b) = Len(q) - 1
  BY <1>4, <1>5
<1>. QED
  BY <1>4, <1>6, <1>7, <1>8

\* Injectivity, by places.
LEMMA InjectiveFacts ==
  ASSUME NEW S, NEW q \in Seq(S)
  PROVE  IsInjective(q) <=> \A i, j \in 1..Len(q) : q[i] = q[j] => i = j
<1>1. DOMAIN q = 1..Len(q)
  OBVIOUS
<1>. QED
  BY <1>1 DEF IsInjective

\* A finite set has finite images.
LEMMA ImageFinite ==
  ASSUME NEW S, IsFiniteSet(S), NEW f
  PROVE  IsFiniteSet({f[x] : x \in S})
<1>. DEFINE T == {f[x] : x \in S}
            g == [x \in S |-> f[x]]
<1>1. g \in Surjection(S, T)
  BY DEF Surjection
<1>. QED
  BY <1>1, FS_Surjection

\* SetToSeq lists a finite set, every element once.
LEMMA SetToSeqFacts ==
  ASSUME NEW S, IsFiniteSet(S)
  PROVE  /\ SetToSeq(S) \in Seq(S) /\ IsInjective(SetToSeq(S))
         /\ ToSet(SetToSeq(S)) = S
<1>. DEFINE n == Cardinality(S)
            l == SetToSeq(S)
<1>1. n \in Nat /\ ExistsBijection(1..n, S)
  BY FS_CardinalityType
<1>. HIDE DEF n
<1>2. PICK f \in Bijection(1..n, S) : TRUE
  BY <1>1 DEF ExistsBijection
<1>3. f \in [1..n -> S] /\ IsInjective(f)
  BY <1>2 DEF Bijection, Injection, IsInjective
<1>4. l \in [1..n -> S] /\ IsInjective(l)
  BY <1>3 DEF SetToSeq, n
<1>. HIDE DEF l
<1>5. l \in Seq(S) /\ DOMAIN l = 1..n
  BY <1>1, <1>4
<1>6. l \in Injection(1..n, S)
  BY <1>4 DEF Injection, IsInjective
<1>7. Cardinality(1..n) = n
  BY <1>1, FS_Interval
<1>8. l \in Surjection(1..n, S)
  BY <1>6, <1>7, FS_Injection DEF n
<1>9. ToSet(l) = S
  BY <1>5, <1>8 DEF ToSet, Surjection
<1>. QED
  BY <1>4, <1>5, <1>9 DEF l

\* Two such sequences with nothing in common make one.
LEMMA ConcatFacts ==
  ASSUME NEW T, NEW a \in Seq(T), NEW b \in Seq(T), IsInjective(a), IsInjective(b),
         ToSet(a) \cap ToSet(b) = {}
  PROVE  a \o b \in Seq(T) /\ IsInjective(a \o b) /\ ToSet(a \o b) = ToSet(a) \cup ToSet(b)
<1>. DEFINE c == a \o b
<1>1. /\ c \in Seq(T) /\ Len(c) = Len(a) + Len(b) /\ Len(a) \in Nat /\ Len(b) \in Nat
      /\ DOMAIN a = 1..Len(a) /\ DOMAIN b = 1..Len(b) /\ DOMAIN c = 1..Len(c)
      /\ \A k \in 1..Len(a) : c[k] = a[k]
      /\ \A k \in 1..Len(b) : c[Len(a) + k] = b[k]
  OBVIOUS
<1>. HIDE DEF c
<1>2. ASSUME NEW k \in 1..Len(c)
      PROVE  \/ k \in 1..Len(a) /\ c[k] = a[k] /\ c[k] \in ToSet(a)
             \/ \E m \in 1..Len(b) : k = Len(a) + m /\ c[k] = b[m] /\ c[k] \in ToSet(b)
  <2>1. CASE k <= Len(a)
    <3>1. k \in 1..Len(a)
      BY <1>1, <2>1
    <3>2. c[k] = a[k]
      BY <1>1, <3>1
    <3>3. a[k] \in ToSet(a)
      BY <3>1 DEF ToSet
    <3>. QED
      BY <3>1, <3>2, <3>3
  <2>2. CASE ~(k <= Len(a))
    <3>. DEFINE m == k - Len(a)
    <3>1. m \in 1..Len(b) /\ k = Len(a) + m
      BY <1>1, <2>2
    <3>. HIDE DEF m
    <3>2. c[k] = b[m] /\ b[m] \in ToSet(b)
      BY <1>1, <3>1 DEF ToSet
    <3>. QED
      BY <3>1, <3>2
  <2>. QED
    BY <2>1, <2>2
<1>3. ASSUME NEW j \in 1..Len(c), NEW k \in 1..Len(c), c[j] = c[k] PROVE j = k
  <2>1. CASE j \in 1..Len(a) /\ k \in 1..Len(a) /\ c[j] = a[j] /\ c[k] = a[k]
    BY <1>1, <1>3, <2>1, InjectiveFacts
  <2>2. CASE (\E m \in 1..Len(b) : j = Len(a) + m /\ c[j] = b[m])
             /\ \E m \in 1..Len(b) : k = Len(a) + m /\ c[k] = b[m]
    <3>1. PICK m \in 1..Len(b) : j = Len(a) + m /\ c[j] = b[m]
      BY <2>2
    <3>2. PICK n \in 1..Len(b) : k = Len(a) + n /\ c[k] = b[n]
      BY <2>2
    <3>3. b[m] = b[n]
      BY <1>3, <3>1, <3>2
    <3>4. m = n
      BY <3>3, InjectiveFacts
    <3>. QED
      BY <3>1, <3>2, <3>4
  <2>. QED
    BY <1>2, <1>3, <2>1, <2>2
<1>4. IsInjective(c)
  BY <1>1, <1>3, InjectiveFacts
<1>5. ToSet(c) = ToSet(a) \cup ToSet(b)
  <2>1. ToSet(c) \subseteq ToSet(a) \cup ToSet(b)
    BY <1>1, <1>2 DEF ToSet
  <2>2. ToSet(a) \subseteq ToSet(c)
    BY <1>1 DEF ToSet
  <2>3. ToSet(b) \subseteq ToSet(c)
    <3>1. \A k \in 1..Len(b) : Len(a) + k \in 1..Len(c)
      BY <1>1
    <3>. QED
      BY <1>1, <3>1 DEF ToSet
  <2>. QED
    BY <2>1, <2>2, <2>3
<1>. QED
  BY <1>1, <1>4, <1>5 DEF c

\* Without the one at place i.
LEMMA RemoveFacts ==
  ASSUME NEW T, NEW q \in Seq(T), IsInjective(q), NEW i \in 1..Len(q)
  PROVE  /\ RemoveAt(q, i) \in Seq(T) /\ IsInjective(RemoveAt(q, i))
         /\ ToSet(RemoveAt(q, i)) = ToSet(q) \ {q[i]}
<1>. DEFINE c == RemoveAt(q, i)
<1>0. /\ c \in Seq(T) /\ Len(c) = Len(q) - 1
      /\ \A k \in 1..(Len(q) - 1) : c[k] = IF k < i THEN q[k] ELSE q[k + 1]
  BY RemovePlaces
<1>. HIDE DEF c
<1>1. /\ c \in Seq(T) /\ Len(c) = Len(q) - 1 /\ Len(q) \in Nat
      /\ \A k \in 1..Len(c) : c[k] = IF k < i THEN q[k] ELSE q[k + 1]
      /\ DOMAIN q = 1..Len(q) /\ DOMAIN c = 1..Len(c)
  BY <1>0
<1>2. \A j, k \in 1..Len(q) : q[j] = q[k] => j = k
  BY InjectiveFacts
<1>3. \A k \in 1..Len(c) : k \in 1..Len(q) /\ k + 1 \in 1..Len(q)
  BY <1>1
<1>4. IsInjective(c)
  <2>. SUFFICES ASSUME NEW j \in 1..Len(c), NEW k \in 1..Len(c), c[j] = c[k] PROVE j = k
    BY <1>1, InjectiveFacts
  <2>. QED
    BY <1>1, <1>2, <1>3
<1>5. ASSUME NEW k \in 1..Len(c) PROVE c[k] \in ToSet(q) \ {q[i]}
  <2>1. \E m \in 1..Len(q) : m # i /\ c[k] = q[m]
    <3>1. CASE k < i
      <4>1. k \in 1..Len(q) /\ k # i /\ c[k] = q[k]
        BY <1>1, <1>3, <3>1
      <4>. QED
        BY <4>1
    <3>2. CASE ~(k < i)
      <4>1. k + 1 \in 1..Len(q) /\ k + 1 # i /\ c[k] = q[k + 1]
        BY <1>1, <1>3, <3>2
      <4>. QED
        BY <4>1
    <3>. QED
      BY <3>1, <3>2
  <2>2. PICK m \in 1..Len(q) : m # i /\ c[k] = q[m]
    BY <2>1
  <2>. QED
    BY <1>1, <1>2, <2>2 DEF ToSet
<1>6. ASSUME NEW m \in 1..Len(q), m # i PROVE q[m] \in ToSet(c)
  <2>1. CASE m < i
    <3>1. m \in 1..Len(c) /\ c[m] = q[m]
      BY <1>1, <2>1
    <3>. QED
      BY <1>1, <3>1 DEF ToSet
  <2>2. CASE ~(m < i)
    <3>. DEFINE k == m - 1
    <3>1. k \in 1..Len(c) /\ ~(k < i) /\ k + 1 = m
      BY <1>1, <1>6, <2>2
    <3>. HIDE DEF k
    <3>2. c[k] = q[m]
      BY <1>1, <3>1
    <3>. QED
      BY <1>1, <3>1, <3>2 DEF ToSet
  <2>. QED
    BY <2>1, <2>2
<1>7. ToSet(c) = ToSet(q) \ {q[i]}
  BY <1>1, <1>5, <1>6 DEF ToSet
<1>. QED
  BY <1>1, <1>4, <1>7 DEF c

----------------------------------------------------------------------------
(* PropertyReads.                                                           *)

\* Two requests of one read that may be in line together: elements of a list, and
\* the single read of what is no list beside that of what is one.
Beside(p, q) ==
  \/ p.kind = "element" /\ q.kind = "element"
  \/ p.kind = "scalar" /\ q.kind \in {"array", "size", "element"}
  \/ q.kind = "scalar" /\ p.kind \in {"array", "size", "element"}

InLine ==
  /\ requests \in Seq(Request) /\ IsInjective(requests)
  /\ \A r \in Reads : \A p, q \in Of(r) : p # q => Beside(p, q)

ReadVarTypes ==
  /\ single \in [Reads -> SUBSET {"scalar", "array"}]
  /\ bad \in [Reads -> BOOLEAN]
  /\ result \in [Reads -> {"none", "listing", "listed", "unlisted", "reading",
                           "read", "failed", "raised"}]

\* Nothing is asked for twice: a read that starts has nothing in line.
Quiet == {"none", "listed", "unlisted"}
ReadsInv ==
  /\ InLine /\ ReadVarTypes
  /\ \A r \in Reads : result[r] \in Quiet => Of(r) = {}

LEMMA RequestFacts ==
  /\ \A r \in Reads, kind \in Kinds \ {"element"} :
       Ask(r, kind) \in Request /\ Ask(r, kind).read = r /\ Ask(r, kind).kind = kind
  /\ \A r \in Reads, n \in 1..Elements :
       Element(r, n) \in Request /\ Element(r, n).read = r /\ Element(r, n).kind = "element"
  /\ \A q \in Request : q.read \in Reads /\ q.kind \in Kinds
  /\ \A q \in Request : q.kind # "element" => q = Ask(q.read, q.kind)
<1>1. 0 \in 0..Elements /\ 1..Elements \subseteq 0..Elements /\ \A n \in 1..Elements : n > 0
  BY ReadsAssumption
<1>2. ~(0 > 0)
  OBVIOUS
<1>3. ASSUME NEW r \in Reads, NEW kind \in Kinds \ {"element"}
      PROVE  Ask(r, kind) \in Request /\ Ask(r, kind).read = r /\ Ask(r, kind).kind = kind
  BY <1>1, <1>2 DEF Ask, Request
<1>4. ASSUME NEW r \in Reads, NEW n \in 1..Elements
      PROVE  Element(r, n) \in Request /\ Element(r, n).read = r /\ Element(r, n).kind = "element"
  <2>1. "element" \in Kinds
    BY DEF Kinds
  <2>. QED
    BY <1>1, <2>1 DEF Element, Request
<1>5. ASSUME NEW q \in Request
      PROVE  q.read \in Reads /\ q.kind \in Kinds /\ (q.kind # "element" => q = Ask(q.read, q.kind))
  <2>1. /\ q \in [read : Reads, kind : Kinds, number : 0..Elements]
        /\ q.kind = "element" <=> q.number > 0
    BY DEF Request
  <2>2. q.kind # "element" => q.number = 0
    BY <2>1, ReadsAssumption
  <2>. QED
    BY <2>1, <2>2 DEF Ask
<1>. QED
  BY <1>3, <1>4, <1>5

\* Those who join come behind, and those of one read go together.
LEMMA JoinKeeps ==
  ASSUME InLine, NEW new \in SUBSET Request, IsFiniteSet(new), Join(new),
         \A n \in new : Of(n.read) = {},
         \A m, n \in new : m.read = n.read /\ m # n => Beside(m, n)
  PROVE  InLine' /\ \A r \in Reads : Of(r)' = Of(r) \cup {n \in new : n.read = r}
<1>1. /\ SetToSeq(new) \in Seq(Request) /\ IsInjective(SetToSeq(new))
      /\ ToSet(SetToSeq(new)) = new
  <2>1. SetToSeq(new) \in Seq(new)
    BY SetToSeqFacts
  <2>2. SetToSeq(new) \in Seq(Request)
    BY <2>1
  <2>. QED
    BY <2>2, SetToSeqFacts
<1>2. ToSet(requests) \cap ToSet(SetToSeq(new)) = {}
  BY <1>1 DEF Of
<1>3. /\ requests' \in Seq(Request) /\ IsInjective(requests')
      /\ ToSet(requests') = ToSet(requests) \cup new
  BY <1>1, <1>2, ConcatFacts DEF InLine, Join
<1>4. \A r \in Reads : Of(r)' = Of(r) \cup {n \in new : n.read = r}
  BY <1>3 DEF Of
<1>5. ASSUME NEW r \in Reads, NEW p \in Of(r)', NEW q \in Of(r)', p # q PROVE Beside(p, q)
  <2>1. \A n \in new : n.read = r => Of(r) = {}
    OBVIOUS
  <2>. QED
    BY <1>4, <1>5, <2>1 DEF InLine
<1>. QED
  BY <1>3, <1>4, <1>5 DEF InLine

\* The answer of q, and what is asked for because of it.
LEMMA ReleaseKeeps ==
  ASSUME InLine, NEW r \in Reads, NEW q \in Request, q.read = r,
         NEW next \in SUBSET Request, IsFiniteSet(next), \A n \in next : n.read = r,
         Release(q, next), next \cap Of(r) = {},
         \A n \in next : \A p \in Of(r) \ {q} : Beside(n, p),
         \A m, n \in next : m # n => Beside(m, n)
  PROVE  /\ InLine' /\ q \in Of(r)
         /\ \A s \in Reads : Of(s)' = IF s = r THEN (Of(r) \ {q}) \cup next ELSE Of(s)
<1>1. PICK i \in 1..Len(requests) : Sent(q, i) /\ requests' = RemoveAt(requests, i) \o SetToSeq(next)
  BY DEF Release
<1>2. /\ SetToSeq(next) \in Seq(Request) /\ IsInjective(SetToSeq(next))
      /\ ToSet(SetToSeq(next)) = next
  <2>1. SetToSeq(next) \in Seq(next)
    BY SetToSeqFacts
  <2>2. SetToSeq(next) \in Seq(Request)
    BY <2>1
  <2>. QED
    BY <2>2, SetToSeqFacts
<1>3. /\ RemoveAt(requests, i) \in Seq(Request) /\ IsInjective(RemoveAt(requests, i))
      /\ ToSet(RemoveAt(requests, i)) = ToSet(requests) \ {q}
  BY <1>1, RemoveFacts DEF InLine, Sent
<1>4. ToSet(RemoveAt(requests, i)) \cap ToSet(SetToSeq(next)) = {}
  BY <1>2, <1>3 DEF Of
<1>5. /\ requests' \in Seq(Request) /\ IsInjective(requests')
      /\ ToSet(requests') = (ToSet(requests) \ {q}) \cup next
  BY <1>1, <1>2, <1>3, <1>4, ConcatFacts
<1>6. q \in Of(r)
  <2>1. requests[i] = q /\ DOMAIN requests = 1..Len(requests)
    BY <1>1 DEF Sent, InLine
  <2>. QED
    BY <2>1 DEF Of, ToSet
<1>7. \A s \in Reads : Of(s)' = IF s = r THEN (Of(r) \ {q}) \cup next ELSE Of(s)
  BY <1>5 DEF Of
<1>8. ASSUME NEW s \in Reads, NEW x \in Of(s)', NEW y \in Of(s)', x # y PROVE Beside(x, y)
  <2>1. \A a, b : Beside(a, b) <=> Beside(b, a)
    BY DEF Beside
  <2>2. \A a, b \in Of(s) : a # b => Beside(a, b)
    BY DEF InLine
  <2>. QED
    BY <1>7, <1>8, <2>1, <2>2
<1>. QED
  BY <1>5, <1>6, <1>7, <1>8 DEF InLine

\* A request of one read is answered; in a property list or a read of several
\* properties at once it was the only one.
LEMMA AnswerKeeps ==
  ASSUME ReadsInv, NEW r \in Reads, Answer(r)
  PROVE  ReadsInv'
<1>. USE DEF ReadsInv
<1>. DEFINE Rest(q, next) ==
       /\ InLine' /\ q \in Of(r)
       /\ \A s \in Reads : Of(s)' = IF s = r THEN (Of(r) \ {q}) \cup next ELSE Of(s)
\* What becomes of the read does not matter as long as it has begun, or has
\* nothing in line any more.
<1>1. ASSUME NEW q, NEW next, Rest(q, next), ReadVarTypes',
             \A s \in Reads : s # r => result'[s] = result[s],
             \/ result'[r] = result[r] \/ result'[r] \notin Quiet
             \/ Of(r) = {q} /\ next = {}
      PROVE  ReadsInv'
  <2>1. ASSUME NEW s \in Reads, result'[s] \in Quiet PROVE Of(s)' = {}
    <3>1. CASE s # r
      BY <1>1, <2>1, <3>1
    <3>2. CASE s = r
      <4>1. Of(r) # {}
        BY <1>1
      <4>2. Of(r) = {q} /\ next = {}
        BY <1>1, <2>1, <3>2, <4>1
      <4>. QED
        BY <1>1, <3>2, <4>2
    <3>. QED
      BY <3>1, <3>2
  <2>. QED
    BY <1>1, <2>1
<1>2. ASSUME NEW q \in Request, q.read = r, Release(q, {}) PROVE Rest(q, {})
  BY <1>2, ReleaseKeeps, FS_EmptySet
<1>3. ASSUME NEW kind \in {"list", "multiple"}, Ask(r, kind) \in Of(r) PROVE Of(r) = {Ask(r, kind)}
  <2>1. Ask(r, kind).kind = kind
    BY RequestFacts DEF Kinds
  <2>2. \A p \in Of(r) : p # Ask(r, kind) => Beside(p, Ask(r, kind))
    BY <1>3 DEF InLine
  <2>. QED
    BY <1>3, <2>1, <2>2 DEF Beside
<1>4. /\ \A kind \in {"list", "multiple", "scalar", "array", "size"} :
           Ask(r, kind) \in Request /\ Ask(r, kind).read = r /\ Ask(r, kind).kind = kind
      /\ \A n \in 1..Elements : Element(r, n) \in Request /\ Element(r, n).read = r
  BY RequestFacts DEF Kinds
<1>5. /\ \A end \in {"listed", "unlisted", "read", "failed", "raised"} :
           [result EXCEPT ![r] = end] \in [Reads -> {"none", "listing", "listed", "unlisted",
                                                     "reading", "read", "failed", "raised"}]
      /\ \A end : /\ [result EXCEPT ![r] = end][r] = end
                  /\ \A s \in Reads : s # r => [result EXCEPT ![r] = end][s] = result[s]
  BY DEF ReadVarTypes
\* A single read of r returns, raises, or nobody waits for it.
<1>6. ASSUME NEW kind \in {"scalar", "array"},
             Raise(r) \/ (\E ok \in BOOLEAN : Return(r, kind, ok)) \/ Unnoticed
      PROVE  /\ ReadVarTypes' /\ \A s \in Reads : s # r => result'[s] = result[s]
             /\ result'[r] = result[r] \/ result'[r] \notin Quiet
  <2>1. CASE Raise(r)
    BY <1>5, <2>1 DEF Raise, ReadVarTypes, Quiet
  <2>2. ASSUME NEW ok \in BOOLEAN, Return(r, kind, ok)
        PROVE  /\ ReadVarTypes' /\ \A s \in Reads : s # r => result'[s] = result[s]
               /\ result'[r] = result[r] \/ result'[r] \notin Quiet
    <3>1. single' \in [Reads -> SUBSET {"scalar", "array"}]
      BY <2>2 DEF Return, ReadVarTypes
    <3>2. bad' \in [Reads -> BOOLEAN]
      BY <2>2 DEF Return, ReadVarTypes
    <3>3. result' = result \/ \E end \in {"read", "failed"} : result' = [result EXCEPT ![r] = end]
      BY <2>2 DEF Return
    <3>. QED
      BY <1>5, <3>1, <3>2, <3>3 DEF ReadVarTypes, Quiet
  <2>3. CASE Unnoticed
    BY <2>3 DEF Unnoticed, ReadVarTypes
  <2>. QED
    BY <1>6, <2>1, <2>2, <2>3
<1>7. CASE ListAnswered(r)
  <2>1. Rest(Ask(r, "list"), {})
    BY <1>2, <1>4, <1>7 DEF ListAnswered
  <2>2. PICK end \in {"listed", "unlisted"} : result' = [result EXCEPT ![r] = end]
    BY <1>7 DEF ListAnswered
  <2>3. ReadVarTypes'
    BY <1>5, <1>7, <2>2 DEF ListAnswered, ReadVarTypes
  <2>4. Of(r) = {Ask(r, "list")}
    BY <1>3, <2>1
  <2>. QED
    BY <1>1, <1>5, <2>1, <2>2, <2>3, <2>4
<1>8. CASE MultipleAnswered(r)
  <2>1. Rest(Ask(r, "multiple"), {})
    BY <1>2, <1>4, <1>8 DEF MultipleAnswered
  <2>2. PICK end \in {"read", "failed", "raised"} : result' = [result EXCEPT ![r] = end]
    BY <1>8 DEF MultipleAnswered
  <2>3. ReadVarTypes'
    BY <1>5, <1>8, <2>2 DEF MultipleAnswered, ReadVarTypes
  <2>4. Of(r) = {Ask(r, "multiple")}
    BY <1>3, <2>1
  <2>. QED
    BY <1>1, <1>5, <2>1, <2>2, <2>3, <2>4
<1>9. CASE FallBack(r)
  <2>. DEFINE next == {Ask(r, kind) : kind \in Singles(r)}
              both == {Ask(r, "scalar"), Ask(r, "array")}
  <2>1. next \subseteq both /\ both \subseteq Request
    BY <1>4 DEF Singles
  <2>2. IsFiniteSet(next)
    <3>1. IsFiniteSet({Ask(r, "scalar")} \cup {Ask(r, "array")})
      BY FS_Singleton, FS_AddElement
    <3>2. both = {Ask(r, "scalar")} \cup {Ask(r, "array")}
      OBVIOUS
    <3>. QED
      BY <2>1, <3>1, <3>2, FS_Subset
  <2>3. Release(Ask(r, "multiple"), next)
    BY <1>9 DEF FallBack
  <2>4. Ask(r, "multiple") \in Of(r)
    <3>1. PICK i \in 1..Len(requests) : requests[i] = Ask(r, "multiple")
      BY <2>3 DEF Release, Sent
    <3>2. DOMAIN requests = 1..Len(requests)
      BY DEF InLine
    <3>. QED
      BY <1>4, <3>1, <3>2 DEF Of, ToSet
  <2>5. Of(r) = {Ask(r, "multiple")}
    BY <1>3, <2>4
  <2>6. next \cap Of(r) = {} /\ \A n \in next : n.read = r
    BY <1>4, <2>1, <2>5
  <2>7. \A m, n \in next : m # n => Beside(m, n)
    BY <1>4, <2>1 DEF Beside
  <2>8. Rest(Ask(r, "multiple"), next)
    BY <1>4, <2>1, <2>2, <2>3, <2>5, <2>6, <2>7, ReleaseKeeps
  <2>9. ReadVarTypes' /\ result' = result
    BY <1>9 DEF FallBack, ReadVarTypes, Singles
  <2>. HIDE DEF next
  <2>. QED
    BY <1>1, <2>8, <2>9
<1>10. CASE SingleAnswered(r)
  <2>1. PICK kind \in {"scalar", "array"} :
          /\ Release(Ask(r, kind), {})
          /\ IF kind \in single[r] THEN Ends(r, kind) ELSE Unnoticed
    BY <1>10 DEF SingleAnswered
  <2>2. Rest(Ask(r, kind), {})
    BY <1>2, <1>4, <2>1
  <2>. QED
    BY <1>1, <1>6, <2>1, <2>2 DEF Ends
<1>11. CASE ListTooLong(r)
  <2>1. Release(Ask(r, "array"), {Ask(r, "size")}) /\ Unnoticed
    BY <1>11 DEF ListTooLong, Unnoticed
  <2>2. Ask(r, "array") \in Of(r)
    <3>1. PICK i \in 1..Len(requests) : requests[i] = Ask(r, "array")
      BY <2>1 DEF Release, Sent
    <3>2. DOMAIN requests = 1..Len(requests)
      BY DEF InLine
    <3>. QED
      BY <1>4, <3>1, <3>2 DEF Of, ToSet
  <2>3. \A p \in Of(r) \ {Ask(r, "array")} : p.kind = "scalar"
    <3>1. \A p \in Of(r) \ {Ask(r, "array")} : Beside(p, Ask(r, "array"))
      BY <2>2 DEF InLine
    <3>. QED
      BY <1>4, <3>1 DEF Beside
  <2>4. {Ask(r, "size")} \cap Of(r) = {}
    BY <1>4, <2>3
  <2>5. \A p \in Of(r) \ {Ask(r, "array")} : Beside(Ask(r, "size"), p)
    BY <1>4, <2>3 DEF Beside
  <2>6. Rest(Ask(r, "array"), {Ask(r, "size")})
    <3>1. PICK next : next = {Ask(r, "size")}
      OBVIOUS
    <3>2. /\ next \in SUBSET Request /\ IsFiniteSet(next) /\ \A n \in next : n.read = r
          /\ Release(Ask(r, "array"), next) /\ next \cap Of(r) = {}
      BY <1>4, <2>1, <2>4, <3>1, FS_Singleton
    <3>3. /\ \A n \in next : \A p \in Of(r) \ {Ask(r, "array")} : Beside(n, p)
          /\ \A m, n \in next : m # n => Beside(m, n)
      BY <2>5, <3>1
    <3>4. Rest(Ask(r, "array"), next)
      BY <1>4, <3>2, <3>3, ReleaseKeeps
    <3>. QED
      BY <3>1, <3>4
  <2>7. ReadVarTypes' /\ result' = result
    BY <2>1 DEF Unnoticed, ReadVarTypes
  <2>. QED
    BY <1>1, <2>6, <2>7
<1>12. CASE SizeAnswered(r)
  <2>1. CASE /\ Release(Ask(r, "size"), {})
             /\ IF "array" \in single[r] THEN Raise(r) \/ Return(r, "array", FALSE) ELSE Unnoticed
    <3>1. Rest(Ask(r, "size"), {})
      BY <1>2, <1>4, <2>1
    <3>. QED
      BY <1>1, <1>6, <2>1, <3>1
  <2>2. CASE Release(Ask(r, "size"), AllElements(r)) /\ UNCHANGED <<single, bad, result>>
    <3>1. Ask(r, "size") \in Of(r)
      <4>1. PICK i \in 1..Len(requests) : requests[i] = Ask(r, "size")
        BY <2>2 DEF Release, Sent
      <4>2. DOMAIN requests = 1..Len(requests)
        BY DEF InLine
      <4>. QED
        BY <1>4, <4>1, <4>2 DEF Of, ToSet
    <3>2. \A p \in Of(r) \ {Ask(r, "size")} : p.kind = "scalar"
      <4>1. \A p \in Of(r) \ {Ask(r, "size")} : Beside(p, Ask(r, "size"))
        BY <3>1 DEF InLine
      <4>. QED
        BY <1>4, <4>1 DEF Beside
    <3>3. \A n \in AllElements(r) : n \in Request /\ n.read = r /\ n.kind = "element"
      BY RequestFacts DEF AllElements
    <3>4. AllElements(r) \cap Of(r) = {}
      BY <1>4, <3>2, <3>3
    <3>5. /\ \A n \in AllElements(r) : \A p \in Of(r) \ {Ask(r, "size")} : Beside(n, p)
          /\ \A m, n \in AllElements(r) : m # n => Beside(m, n)
      BY <3>2, <3>3 DEF Beside
    <3>6. IsFiniteSet(AllElements(r))
      <4>. DEFINE f == [n \in 1..Elements |-> Element(r, n)]
      <4>1. IsFiniteSet(1..Elements)
        BY ReadsAssumption, FS_Interval
      <4>2. IsFiniteSet({f[n] : n \in 1..Elements})
        BY <4>1, ImageFinite
      <4>3. {f[n] : n \in 1..Elements} = AllElements(r)
        BY DEF AllElements
      <4>. QED
        BY <4>2, <4>3
    <3>7. Rest(Ask(r, "size"), AllElements(r))
      BY <1>4, <2>2, <3>3, <3>4, <3>5, <3>6, ReleaseKeeps
    <3>8. ReadVarTypes' /\ result' = result
      BY <2>2 DEF ReadVarTypes
    <3>. QED
      BY <1>1, <3>7, <3>8
  <2>. QED
    BY <1>12, <2>1, <2>2 DEF SizeAnswered
<1>13. CASE ElementAnswered(r)
  <2>1. PICK n \in 1..Elements :
          /\ Release(Element(r, n), {})
          /\ Raise(r) \/ (\E ok \in BOOLEAN : Return(r, "array", ok)) \/ Unnoticed
    BY <1>13 DEF ElementAnswered
  <2>2. Rest(Element(r, n), {})
    BY <1>2, <1>4, <2>1
  <2>. QED
    BY <1>1, <1>6, <2>1, <2>2
<1>. QED
  BY <1>7, <1>8, <1>9, <1>10, <1>11, <1>12, <1>13 DEF Answer

\* A read that starts has nothing in line, whichever way it is read.
LEMMA StartKeeps ==
  ASSUME ReadsInv, NEW reads \in SUBSET Reads, IsFiniteSet(reads),
         StartLists(reads) \/ StartMultiple(reads) \/ StartSingle(reads)
  PROVE  ReadsInv'
<1>. USE DEF ReadsInv
<1>. DEFINE Asks(kind) == {Ask(r, kind) : r \in reads}
<1>1. ASSUME NEW kind \in Kinds \ {"element"}
      PROVE  /\ IsFiniteSet(Asks(kind)) /\ Asks(kind) \subseteq Request
             /\ \A n \in Asks(kind) : n.read \in reads /\ n.kind = kind /\ n = Ask(n.read, kind)
  <2>. DEFINE f == [r \in reads |-> Ask(r, kind)]
  <2>1. IsFiniteSet({f[r] : r \in reads})
    BY ImageFinite
  <2>2. {f[r] : r \in reads} = Asks(kind)
    OBVIOUS
  <2>3. IsFiniteSet(Asks(kind))
    BY <2>1, <2>2
  <2>4. \A r \in reads : Ask(r, kind) \in Request /\ Ask(r, kind).read = r /\ Ask(r, kind).kind = kind
    BY RequestFacts
  <2>. QED
    BY <2>3, <2>4
<1>. HIDE DEF Asks
<1>2. ASSUME NEW new \in SUBSET Request, IsFiniteSet(new), Join(new), ReadVarTypes',
             \A n \in new : n.read \in reads,
             \A r \in reads : result[r] \in Quiet /\ result'[r] \notin Quiet,
             \A r \in Reads \ reads : result'[r] = result[r],
             \A m, n \in new : m.read = n.read /\ m # n => Beside(m, n)
      PROVE  ReadsInv'
  <2>1. \A n \in new : Of(n.read) = {}
    BY <1>2
  <2>2. InLine' /\ \A r \in Reads : Of(r)' = Of(r) \cup {n \in new : n.read = r}
    BY <1>2, <2>1, JoinKeeps
  <2>3. ASSUME NEW r \in Reads, result'[r] \in Quiet PROVE Of(r)' = {}
    BY <1>2, <2>2, <2>3
  <2>. QED
    BY <1>2, <2>2, <2>3
<1>3. CASE StartLists(reads)
  <2>1. "list" \in Kinds \ {"element"}
    BY DEF Kinds
  <2>2. Join(Asks("list")) /\ ReadVarTypes'
    BY <1>3 DEF StartLists, ReadVarTypes, Asks
  <2>3. /\ \A r \in reads : result[r] \in Quiet /\ result'[r] \notin Quiet
        /\ \A r \in Reads \ reads : result'[r] = result[r]
    BY <1>3 DEF StartLists, Quiet
  <2>. QED
    BY <1>1, <1>2, <2>1, <2>2, <2>3
<1>4. CASE StartMultiple(reads)
  <2>1. "multiple" \in Kinds \ {"element"}
    BY DEF Kinds
  <2>2. Join(Asks("multiple")) /\ ReadVarTypes'
    BY <1>4 DEF StartMultiple, ReadVarTypes, Asks
  <2>3. /\ \A r \in reads : result[r] \in Quiet /\ result'[r] \notin Quiet
        /\ \A r \in Reads \ reads : result'[r] = result[r]
    BY <1>4 DEF StartMultiple, Quiet
  <2>. QED
    BY <1>1, <1>2, <2>1, <2>2, <2>3
<1>5. CASE StartSingle(reads)
  <2>. DEFINE new == UNION {{Ask(r, kind) : kind \in Singles(r)} : r \in reads}
  <2>1. {"scalar", "array"} \subseteq Kinds \ {"element"}
    BY DEF Kinds
  <2>2. \A n \in new : \E r \in reads, kind \in {"scalar", "array"} : n = Ask(r, kind)
    BY DEF Singles
  <2>3. new \subseteq Asks("scalar") \cup Asks("array")
    BY <2>2 DEF Asks
  <2>4. IsFiniteSet(new)
    <3>1. IsFiniteSet(Asks("scalar") \cup Asks("array"))
      BY <1>1, <2>1, FS_Union
    <3>. QED
      BY <2>3, <3>1, FS_Subset
  <2>5. Join(new)
    BY <1>5 DEF StartSingle
  <2>. HIDE DEF new
  <2>6. /\ new \in SUBSET Request /\ \A n \in new : n.read \in reads
        /\ \A m, n \in new : m.read = n.read /\ m # n => Beside(m, n)
    BY <1>1, <2>1, <2>3 DEF Beside
  <2>7. ReadVarTypes'
    <3>1. \A r \in Reads : Singles(r) \in SUBSET {"scalar", "array"}
      BY DEF Singles
    <3>. QED
      BY <1>5, <3>1 DEF StartSingle, ReadVarTypes
  <2>8. /\ \A r \in reads : result[r] \in Quiet /\ result'[r] \notin Quiet
        /\ \A r \in Reads \ reads : result'[r] = result[r]
    BY <1>5 DEF StartSingle, Quiet
  <2>. QED
    BY <1>2, <2>4, <2>5, <2>6, <2>7, <2>8
<1>. QED
  BY <1>3, <1>4, <1>5

----------------------------------------------------------------------------
(* DeviceConfig.                                                            *)

\* Of the entries for a device, or for all, one is the first.
LEMMA FirstExists ==
  ASSUME NEW id, EntriesFor(id) # {}
  PROVE  FirstFor(id) \in EntriesFor(id) /\ \A j \in EntriesFor(id) : FirstFor(id) <= j
<1>1. EntriesFor(id) \subseteq Nat
  BY ConfigAssumption DEF EntriesFor
<1>2. PICK i \in EntriesFor(id) : \A j \in EntriesFor(id) : ~ (<<j, i>> \in OpToRel(<, Nat))
  BY <1>1, NatLessThanWellFounded, WFMin
<1>3. ASSUME NEW j \in EntriesFor(id), j < i PROVE FALSE
  <2>1. j \in Nat /\ i \in Nat
    BY <1>1
  <2>2. <<j, i>> \in OpToRel(<, Nat)
    BY <1>3, <2>1 DEF OpToRel
  <2>. QED
    BY <1>2, <2>2
<1>4. \A j \in EntriesFor(id) : i <= j
  BY <1>1, <1>3
<1>. QED
  BY <1>4 DEF FirstFor

\* A list, item by item.
LEMMA ListFacts ==
  /\ \A items : OnceEach(items) \in ListOfItems
  /\ \A items : \A i \in Item : OnceEach(items)[i] = IF i \in items THEN 1 ELSE 0
  /\ \A list \in ListOfItems : Items(list) = {i \in Item \cup {All} : list[i] > 0}
  /\ \A list \in ListOfItems : \A items :
       /\ Without(list, items) \in ListOfItems
       /\ \A i \in Item : Without(list, items)[i] = IF i \in items THEN 0 ELSE list[i]
  /\ \A list \in ListOfItems, d \in Devices :
       /\ WithoutFirst(list, d) \in ListOfItems
       /\ \A i \in Item : i # d => WithoutFirst(list, d)[i] = list[i]
       /\ \A i \in Item : WithoutFirst(list, d)[i] > 0 => list[i] > 0
       /\ \A i \in Item : list[i] = 0 => WithoutFirst(list, d)[i] = 0
<1>1. ASSUME NEW items
      PROVE  /\ OnceEach(items) \in ListOfItems
             /\ \A i \in Item : OnceEach(items)[i] = IF i \in items THEN 1 ELSE 0
  BY DEF OnceEach, ListOfItems
<1>2. ASSUME NEW list \in ListOfItems
      PROVE  Items(list) = {i \in Item \cup {All} : list[i] > 0}
  BY DEF Items, ListOfItems
<1>3. ASSUME NEW list \in ListOfItems, NEW items
      PROVE  /\ Without(list, items) \in ListOfItems
             /\ \A i \in Item : Without(list, items)[i] = IF i \in items THEN 0 ELSE list[i]
  BY DEF Without, ListOfItems
<1>4. ASSUME NEW list \in ListOfItems, NEW d \in Devices
      PROVE  /\ WithoutFirst(list, d) \in ListOfItems
             /\ \A i \in Item : i # d => WithoutFirst(list, d)[i] = list[i]
             /\ \A i \in Item : WithoutFirst(list, d)[i] > 0 => list[i] > 0
             /\ \A i \in Item : list[i] = 0 => WithoutFirst(list, d)[i] = 0
  <2>1. d \in Item
    BY DEF Item
  <2>2. ASSUME NEW i \in Item \cup {All}
        PROVE  WithoutFirst(list, d)[i] = IF i # d THEN list[i]
                                          ELSE IF list[i] > 0 THEN list[i] - 1 ELSE 0
    BY DEF WithoutFirst, ListOfItems
  <2>3. \A i \in Item \cup {All} : list[i] \in Nat
    BY DEF ListOfItems
  <2>4. WithoutFirst(list, d) = [i \in Item \cup {All} |-> WithoutFirst(list, d)[i]]
    BY DEF WithoutFirst, ListOfItems
  <2>5. \A i \in Item \cup {All} : WithoutFirst(list, d)[i] \in Nat
    BY <2>2, <2>3
  <2>6. WithoutFirst(list, d) \in ListOfItems
    BY <2>4, <2>5 DEF ListOfItems
  <2>. QED
    BY <2>2, <2>3, <2>6
<1>. QED
  BY <1>1, <1>2, <1>3, <1>4

\* What the options say of a device is well formed.
LEMMA ConfigType ==
  ASSUME NEW d \in Devices
  PROVE  ConfigOf[d] \in Lists
<1>1. Default \in Lists
  BY ListFacts DEF Default, Lists
<1>2. ASSUME NEW id, EntriesFor(id) # {} PROVE Entries[FirstFor(id)].lists \in Lists
  <2>1. FirstFor(id) \in 1..Len(Entries)
    BY <1>2, FirstExists DEF EntriesFor
  <2>2. Entries[FirstFor(id)] \in [deviceID : Devices \cup {All}, lists : Lists]
    BY <2>1, ConfigAssumption, ElementFacts
  <2>. QED
    BY <2>2
<1>. QED
  BY <1>1, <1>2 DEF ConfigOf

\* What is generated of well-formed lists, item by item: an object that is to be
\* subscribed to is not polled quickly, and one that is polled quickly not slowly.
LEMMA GeneratedFacts ==
  ASSUME NEW d \in Devices, NEW lists \in Lists, NEW known
  PROVE  LET g == Generated(lists, d, known)
             cov == AllToObjects(lists.cov, known)
             quick == AllToObjects(lists.quick, known)
             slow == AllToObjects(lists.slow, known)
         IN  /\ g \in Lists /\ g.reread_on_iam = lists.reread_on_iam
             /\ cov \in ListOfItems /\ quick \in ListOfItems /\ slow \in ListOfItems
             /\ \A i \in Item \ {d} :
                  /\ g.cov[i] = cov[i]
                  /\ g.quick[i] = IF cov[i] > 0 THEN 0 ELSE quick[i]
                  /\ g.slow[i] = IF quick[i] > 0 THEN 0 ELSE slow[i]
             /\ \A i \in Item : g.quick[i] > 0 => g.slow[i] = 0
<1>. DEFINE g == Generated(lists, d, known)
            cov == AllToObjects(lists.cov, known)
            quick == AllToObjects(lists.quick, known)
            slow == AllToObjects(lists.slow, known)
            quickOnly == Without(quick, Items(cov))
            slowOnly == Without(slow, Items(quick))
<1>1. cov \in ListOfItems /\ quick \in ListOfItems /\ slow \in ListOfItems
  BY ListFacts DEF Lists, AllToObjects
<1>2. g = [lists EXCEPT !.cov = WithoutFirst(cov, d), !.quick = WithoutFirst(quickOnly, d),
                        !.slow = WithoutFirst(slowOnly, d)]
  BY DEF Generated
<1>. HIDE DEF g, cov, quick, slow
<1>3. /\ quickOnly \in ListOfItems /\ slowOnly \in ListOfItems
      /\ \A i \in Item : quickOnly[i] = IF cov[i] > 0 THEN 0 ELSE quick[i]
      /\ \A i \in Item : slowOnly[i] = IF quick[i] > 0 THEN 0 ELSE slow[i]
  <2>1. \A i \in Item : (i \in Items(cov) <=> cov[i] > 0) /\ (i \in Items(quick) <=> quick[i] > 0)
    BY <1>1, ListFacts
  <2>. QED
    BY <1>1, <2>1, ListFacts
<1>. HIDE DEF quickOnly, slowOnly
<1>4. /\ g.cov = WithoutFirst(cov, d) /\ g.quick = WithoutFirst(quickOnly, d)
      /\ g.slow = WithoutFirst(slowOnly, d) /\ g.reread_on_iam = lists.reread_on_iam
  BY <1>2 DEF Lists
<1>5. /\ WithoutFirst(cov, d) \in ListOfItems /\ WithoutFirst(quickOnly, d) \in ListOfItems
      /\ WithoutFirst(slowOnly, d) \in ListOfItems
  BY <1>1, <1>3, ListFacts
<1>6. g \in Lists
  BY <1>2, <1>5 DEF Lists
<1>7. \A i \in Item \ {d} : /\ g.cov[i] = cov[i] /\ g.quick[i] = quickOnly[i] /\ g.slow[i] = slowOnly[i]
  BY <1>1, <1>3, <1>4, ListFacts
<1>8. ASSUME NEW i \in Item, g.quick[i] > 0 PROVE g.slow[i] = 0
  <2>1. quickOnly[i] > 0
    BY <1>3, <1>4, <1>8, ListFacts
  <2>2. quick[i] > 0
    BY <1>3, <2>1
  <2>3. slowOnly[i] = 0
    BY <1>3, <2>2
  <2>. QED
    BY <1>3, <1>4, <2>3, ListFacts
<1>. QED
  BY <1>1, <1>3, <1>4, <1>6, <1>7, <1>8 DEF g, cov, quick, slow

\* Either poll list writes an object at most Times.
LEMMA TimesFacts ==
  ASSUME NEW d \in Devices, NEW o \in Objects, NEW known
  PROVE  /\ Times[<<d, o>>] \in Nat
         /\ AllToObjects(ConfigOf[d].quick, known)[o] <= Times[<<d, o>>]
         /\ AllToObjects(ConfigOf[d].slow, known)[o] <= Times[<<d, o>>]
<1>. DEFINE written(list) == IF IsAll(list) THEN 1 ELSE list[o]
<1>1. ConfigOf[d].quick \in ListOfItems /\ ConfigOf[d].slow \in ListOfItems
  BY ConfigType DEF Lists
<1>2. o \in Item
  BY DEF Item
<1>3. ASSUME NEW list \in ListOfItems
      PROVE  written(list) \in Nat /\ AllToObjects(list, known)[o] <= written(list)
  <2>1. CASE IsAll(list)
    <3>1. AllToObjects(list, known)[o] = IF o \in known THEN 1 ELSE 0
      BY <1>2, <2>1, ListFacts DEF AllToObjects
    <3>. QED
      BY <2>1, <3>1
  <2>2. CASE ~IsAll(list)
    BY <1>2, <2>2 DEF AllToObjects, ListOfItems
  <2>. QED
    BY <2>1, <2>2
<1>4. Times[<<d, o>>] = IF written(ConfigOf[d].quick) >= written(ConfigOf[d].slow)
                          THEN written(ConfigOf[d].quick) ELSE written(ConfigOf[d].slow)
  BY DEF Times
<1>. HIDE DEF written
<1>5. /\ written(ConfigOf[d].quick) \in Nat /\ written(ConfigOf[d].slow) \in Nat
      /\ AllToObjects(ConfigOf[d].quick, known)[o] <= written(ConfigOf[d].quick)
      /\ AllToObjects(ConfigOf[d].slow, known)[o] <= written(ConfigOf[d].slow)
  BY <1>1, <1>3
<1>6. AllToObjects(ConfigOf[d].quick, known)[o] \in Nat /\ AllToObjects(ConfigOf[d].slow, known)[o] \in Nat
  BY <1>1, <1>2, ListFacts DEF AllToObjects, ListOfItems
<1>. QED
  BY <1>4, <1>5, <1>6

----------------------------------------------------------------------------
(* What discovery keeps.                                                    *)

\* A configuration that has been generated, and what is left of one.
GoodConfig ==
  {c \in [device : Devices, lists : Lists] :
     /\ \A i \in Item : c.lists.quick[i] > 0 => c.lists.slow[i] = 0
     /\ \A o \in Objects : /\ c.lists.quick[o] <= Times[<<c.device, o>>]
                           /\ c.lists.slow[o] <= Times[<<c.device, o>>]
     /\ c.lists.reread_on_iam = ConfigOf[c.device].reread_on_iam}
GoodPhase ==
  {phase \in Phase : phase.kind = "cov" => \A i \in Item : phase.items[i] > 0 => i \in Objects}

\* No object is in two poll lists, or in one more often than the options write it.
PollsApart(left) ==
  \A j, k \in 1..Len(left) : \A i \in Item :
    left[j].kind = "poll" /\ left[k].kind = "poll" /\ j # k /\ left[j].items[i] > 0
      => left[k].items[i] = 0
PollsBounded(d, left) ==
  \A k \in 1..Len(left) : \A o \in Objects :
    left[k].kind = "poll" => left[k].items[o] <= Times[<<d, o>>]
Pass == {pass \in [device : Devices, left : Seq(GoodPhase)] :
           PollsApart(pass.left) /\ PollsBounded(pass.device, pass.left)}

\* What is generated from the options.
LEMMA GeneratedIsGood ==
  ASSUME NEW d \in Devices, NEW known
  PROVE  [device |-> d, lists |-> Generated(ConfigOf[d], d, known)] \in GoodConfig
<1>. DEFINE lists == ConfigOf[d]
            quick == AllToObjects(lists.quick, known)
            slow == AllToObjects(lists.slow, known)
            g == Generated(lists, d, known)
<1>1. lists \in Lists
  BY ConfigType
<1>2. /\ g \in Lists /\ g.reread_on_iam = lists.reread_on_iam
      /\ quick \in ListOfItems /\ slow \in ListOfItems
      /\ \A i \in Item \ {d} : g.quick[i] \in {0, quick[i]} /\ g.slow[i] \in {0, slow[i]}
      /\ \A i \in Item : g.quick[i] > 0 => g.slow[i] = 0
  BY <1>1, GeneratedFacts
<1>. HIDE DEF g
<1>3. ASSUME NEW o \in Objects
      PROVE  g.quick[o] <= Times[<<d, o>>] /\ g.slow[o] <= Times[<<d, o>>]
  <2>1. o \in Item \ {d}
    BY ConfigAssumption DEF Item
  <2>2. Times[<<d, o>>] \in Nat /\ quick[o] <= Times[<<d, o>>] /\ slow[o] <= Times[<<d, o>>]
    BY TimesFacts
  <2>. HIDE DEF quick, slow
  <2>. QED
    BY <1>2, <2>1, <2>2
<1>4. [device |-> d, lists |-> g] \in GoodConfig
  BY <1>2, <1>3 DEF GoodConfig
<1>. QED
  BY <1>4 DEF g

CovPhase(c) == [kind |-> "cov", items |-> ToSubscribe(c.lists, c.device)]
QuickPhase(c) == [kind |-> "poll", items |-> ToPollQuickly(c.lists, c.device)]
SlowPhase(c) == [kind |-> "poll", items |-> ToPollSlowly(c.lists, c.device)]

LEMMA TupleFacts ==
  ASSUME NEW S, NEW a \in S, NEW b \in S, NEW c \in S
  PROVE  /\ <<a>> \o <<b, c>> = <<a, b, c>> /\ <<b, c>> \o <<a>> = <<b, c, a>>
         /\ <<>> \o <<a>> = <<a>> /\ <<b, c>> \o <<>> = <<b, c>>
         /\ <<a, b, c>> \in Seq(S) /\ <<b, c, a>> \in Seq(S) /\ <<b, c>> \in Seq(S)
         /\ <<a>> \in Seq(S) /\ <<>> \in Seq(S)
<1>1. /\ <<a, b, c>> \in Seq(S) /\ <<b, c, a>> \in Seq(S) /\ <<b, c>> \in Seq(S)
      /\ <<a>> \in Seq(S) /\ <<>> \in Seq(S)
  OBVIOUS
<1>2. \A s \in Seq(S) : Len(s) = 3 => s = <<s[1], s[2], s[3]>>
  OBVIOUS
<1>3. <<a>> \o <<b, c>> = <<a, b, c>>
  <2>1. /\ <<a>> \o <<b, c>> \in Seq(S) /\ Len(<<a>> \o <<b, c>>) = 3
        /\ (<<a>> \o <<b, c>>)[1] = a /\ (<<a>> \o <<b, c>>)[2] = b /\ (<<a>> \o <<b, c>>)[3] = c
    OBVIOUS
  <2>. QED
    BY <1>2, <2>1
<1>6. <<b, c>> \o <<a>> = <<b, c, a>>
  <2>1. /\ <<b, c>> \o <<a>> \in Seq(S) /\ Len(<<b, c>> \o <<a>>) = 3
        /\ (<<b, c>> \o <<a>>)[1] = b /\ (<<b, c>> \o <<a>>)[2] = c /\ (<<b, c>> \o <<a>>)[3] = a
    OBVIOUS
  <2>. QED
    BY <1>2, <2>1
<1>4. <<>> \o <<a>> = <<a>>
  OBVIOUS
<1>5. <<b, c>> \o <<>> = <<b, c>>
  OBVIOUS
<1>. QED
  BY <1>1, <1>3, <1>4, <1>5, <1>6

\* What config_to_tasks goes through: on the first run all three lists, later no
\* polls unless the options ask for them.
LEMMA PassesFacts ==
  ASSUME NEW c \in GoodConfig, NEW first_run \in BOOLEAN
  PROVE  LET w == Passes(c.lists, c.device, first_run) IN
           /\ w \in Seq(GoodPhase) /\ PollsApart(w) /\ PollsBounded(c.device, w)
           /\ first_run => w = <<CovPhase(c), QuickPhase(c), SlowPhase(c)>>
           /\ ~first_run /\ ~ConfigOf[c.device].reread_on_iam =>
                \A k \in 1..Len(w) : w[k].kind = "cov"
<1>. DEFINE w == Passes(c.lists, c.device, first_run)
            x == CovPhase(c)
            y == QuickPhase(c)
            z == SlowPhase(c)
<1>0. /\ \A i \in Item : /\ x.items[i] > 0 => i \in Subscribable
                         /\ y.items[i] \in {0, c.lists.quick[i]} /\ z.items[i] \in {0, c.lists.slow[i]}
      /\ x.items \in [Item -> Nat] /\ y.items \in [Item -> Nat] /\ z.items \in [Item -> Nat]
  <2>0. c.lists.cov \in ListOfItems /\ c.lists.quick \in ListOfItems /\ c.lists.slow \in ListOfItems
    BY DEF GoodConfig, Lists
  <2>1. ASSUME NEW list \in ListOfItems
        PROVE  /\ Wanted(list, c.device) \in [Item -> Nat]
               /\ \A i \in Item : Wanted(list, c.device)[i] \in {0, list[i]}
    BY <2>1 DEF Wanted, ListOfItems
  <2>2. /\ Without(c.lists.cov, Item \ Subscribable) \in ListOfItems
        /\ \A i \in Item \ Subscribable : Without(c.lists.cov, Item \ Subscribable)[i] = 0
    BY <2>0, ListFacts
  <2>3. /\ x.items = Wanted(Without(c.lists.cov, Item \ Subscribable), c.device)
        /\ y.items = Wanted(c.lists.quick, c.device) /\ z.items = Wanted(c.lists.slow, c.device)
    BY DEF CovPhase, QuickPhase, SlowPhase, ToSubscribe, ToPollQuickly, ToPollSlowly
  <2>. HIDE DEF x, y, z
  <2>4. \A i \in Item : x.items[i] > 0 => i \in Subscribable
    BY <2>1, <2>2, <2>3
  <2>. QED
    BY <2>0, <2>1, <2>2, <2>3, <2>4
<1>1. x \in GoodPhase /\ y \in GoodPhase /\ z \in GoodPhase
  <2>1. x.kind = "cov" /\ \A i \in Item : x.items[i] > 0 => i \in Objects
    BY <1>0, ConfigAssumption DEF CovPhase
  <2>. QED
    BY <1>0, <2>1 DEF CovPhase, QuickPhase, SlowPhase, GoodPhase, Phase
<1>2. /\ x.kind = "cov" /\ y.kind = "poll" /\ z.kind = "poll"
      /\ \A i \in Item : (y.items[i] > 0 => z.items[i] = 0) /\ (z.items[i] > 0 => y.items[i] = 0)
      /\ \A o \in Objects : /\ y.items[o] <= Times[<<c.device, o>>]
                            /\ z.items[o] <= Times[<<c.device, o>>]
  <2>1. x.kind = "cov" /\ y.kind = "poll" /\ z.kind = "poll"
    BY DEF CovPhase, QuickPhase, SlowPhase
  <2>2. /\ c.device \in Devices /\ Objects \subseteq Item
        /\ \A i \in Item : c.lists.quick[i] \in Nat /\ c.lists.slow[i] \in Nat
        /\ \A i \in Item : c.lists.quick[i] > 0 => c.lists.slow[i] = 0
        /\ \A o \in Objects : /\ c.lists.quick[o] <= Times[<<c.device, o>>]
                              /\ c.lists.slow[o] <= Times[<<c.device, o>>]
    BY DEF GoodConfig, Lists, ListOfItems, Item
  <2>3. \A o \in Objects : Times[<<c.device, o>>] \in Nat
    BY <2>2, TimesFacts
  <2>. HIDE DEF x, y, z
  <2>. QED
    BY <1>0, <2>1, <2>2, <2>3
<1>3. \/ first_run /\ w = <<x, y, z>>
      \/ ~first_run /\ c.lists.reread_on_iam /\ w \in {<<y, z, x>>, <<y, z>>}
      \/ ~first_run /\ ~c.lists.reread_on_iam /\ w \in {<<x>>, <<>>}
  <2>1. /\ <<x>> \o <<y, z>> = <<x, y, z>> /\ <<y, z>> \o <<x>> = <<y, z, x>>
        /\ <<>> \o <<x>> = <<x>> /\ <<y, z>> \o <<>> = <<y, z>> /\ <<>> \o <<>> = <<>>
    BY <1>1, TupleFacts
  <2>2. w = IF first_run THEN <<x>> \o <<y, z>>
            ELSE (IF c.lists.reread_on_iam THEN <<y, z>> ELSE <<>>)
                 \o (IF c.lists.resub_on_iam THEN <<x>> ELSE <<>>)
    BY DEF Passes, CovPhase, QuickPhase, SlowPhase
  <2>. QED
    BY <2>1, <2>2
<1>4. first_run => w = <<x, y, z>>
  <2>1. <<x>> \o <<y, z>> = <<x, y, z>>
    BY <1>1, TupleFacts
  <2>. QED
    BY <2>1 DEF Passes, CovPhase, QuickPhase, SlowPhase
<1>. HIDE DEF x, y, z, w
<1>5. w \in Seq(GoodPhase)
  <2>1. /\ <<x, y, z>> \in Seq(GoodPhase) /\ <<y, z, x>> \in Seq(GoodPhase)
        /\ <<y, z>> \in Seq(GoodPhase) /\ <<x>> \in Seq(GoodPhase) /\ <<>> \in Seq(GoodPhase)
    BY <1>1, TupleFacts
  <2>. QED
    BY <1>3, <2>1
<1>6. PollsApart(w) /\ PollsBounded(c.device, w)
  BY <1>2, <1>3 DEF PollsApart, PollsBounded
<1>7. ~first_run /\ ~c.lists.reread_on_iam => \A k \in 1..Len(w) : w[k].kind = "cov"
  BY <1>2, <1>3
<1>8. c.lists.reread_on_iam = ConfigOf[c.device].reread_on_iam
  BY DEF GoodConfig
<1>. QED
  BY <1>4, <1>5, <1>6, <1>7, <1>8 DEF x, y, z, w

----------------------------------------------------------------------------
(* Discovery.                                                               *)

Configuration == [device : Devices, lists : Lists]
Configured(a) == \E i \in 1..Len(device_configurations) : device_configurations[i].device = from[a]

\* The types the proof needs.
DiscoveryTypes ==
  /\ from \in [Answers -> Devices]
  /\ handling \in [Answers -> {"none", "device", "objects", "configured", "failed"}]
  /\ objectList \in [Devices -> (SUBSET Objects) \cup {None}]
  /\ device_configurations \in Seq(Configuration)
  /\ complete \in BOOLEAN

\* Discovery is complete only after every handle_device has returned, and that
\* is never called again; who has returned has left a configuration.
DiscoveryInv ==
  /\ DiscoveryTypes
  /\ discover = "asking" => ~complete
  /\ complete => \A a \in Answers : handling[a] = "configured"
  /\ \A a \in Answers : handling[a] = "configured" => Configured(a)

LEMMA DiscoveryInvInit == DiscoveryInit => DiscoveryInv
<1>. SUFFICES ASSUME DiscoveryInit PROVE DiscoveryInv
  OBVIOUS
<1>1. PICK restored \in SUBSET Saved :
        objectList = [d \in Devices |-> IF d \in restored THEN Contents[d] ELSE None]
  BY DEF DiscoveryInit
<1>2. objectList \in [Devices -> (SUBSET Objects) \cup {None}]
  BY <1>1, DiscoveryAssumption
<1>3. from \in [Answers -> Devices]
  BY DiscoveryAssumption DEF DiscoveryInit
<1>4. device_configurations \in Seq(Configuration)
  BY DEF DiscoveryInit
<1>5. /\ handling \in [Answers -> {"none", "device", "objects", "configured", "failed"}]
      /\ \A a \in Answers : handling[a] # "configured"
      /\ complete = FALSE
  BY DEF DiscoveryInit
<1>. QED
  BY <1>2, <1>3, <1>4, <1>5 DEF DiscoveryInv, DiscoveryTypes

\* A configuration is added behind the others.
LEMMA ConfigureKeeps ==
  ASSUME DiscoveryInv, NEW a \in Answers, Configure(a)
  PROVE  DiscoveryInv'
<1>. DEFINE d == from[a]
            config == [device |-> d,
                       lists |-> Generated(ConfigOf[d], d, objectList[d] \ Ignored)]
<1>1. d \in Devices /\ objectList[d] \in SUBSET Objects
  BY DEF DiscoveryInv, DiscoveryTypes, Configure
<1>2. config \in Configuration
  <2>1. Generated(ConfigOf[d], d, objectList[d] \ Ignored) \in Lists
    BY <1>1, ConfigType, GeneratedFacts
  <2>. QED
    BY <1>1, <2>1 DEF Configuration
<1>3. /\ device_configurations' = Append(device_configurations, config)
      /\ handling' = [handling EXCEPT ![a] = "configured"]
      /\ UNCHANGED <<from, objectList, discover, complete>>
      /\ handling[a] = "objects"
  BY DEF Configure, AddConfiguration
<1>. HIDE DEF config
<1>4. /\ device_configurations' \in Seq(Configuration)
      /\ Len(device_configurations') = Len(device_configurations) + 1
      /\ Len(device_configurations) \in Nat
      /\ device_configurations'[Len(device_configurations) + 1] = config
      /\ \A i \in 1..Len(device_configurations) :
           device_configurations'[i] = device_configurations[i]
  BY <1>2, <1>3, AppendFacts DEF DiscoveryInv, DiscoveryTypes
<1>5. \A b \in Answers : Configured(b) => Configured(b)'
  BY <1>3, <1>4 DEF Configured
<1>6. Configured(a)'
  <2>1. config.device = from[a]
    BY DEF config
  <2>2. Len(device_configurations) + 1 \in 1..Len(device_configurations')
    BY <1>4
  <2>. QED
    BY <1>3, <1>4, <2>1, <2>2 DEF Configured
<1>7. ~complete
  BY <1>3 DEF DiscoveryInv
<1>. QED
  BY <1>3, <1>4, <1>5, <1>6, <1>7 DEF DiscoveryInv, DiscoveryTypes

LEMMA DiscoveryInvStep == DiscoveryInv /\ [DiscoveryNext]_discoveryVars => DiscoveryInv'
<1>. SUFFICES ASSUME DiscoveryInv, [DiscoveryNext]_discoveryVars PROVE DiscoveryInv'
  OBVIOUS
<1>. USE DEF DiscoveryInv, DiscoveryTypes, Configured
<1>1. CASE UNCHANGED <<from, handling, objectList, device_configurations, complete>>
           /\ (discover' = discover \/ discover' # "asking")
  BY <1>1
<1>2. CASE Gather
  BY <1>2 DEF Gather
<1>3. CASE Completes
  BY <1>3 DEF Completes, handlingVars
<1>4. CASE MakeNext
  BY <1>1, <1>4 DEF MakeNext, handlingVars
<1>5. ASSUME NEW a \in Answers, ReadDevice(a) \/ ListObject(a) \/ ReadObjects(a) PROVE DiscoveryInv'
  BY <1>1, <1>5 DEF ReadDevice, ListObject, ReadObjects, handlingVars, mainVars
<1>6. ASSUME NEW a \in Answers, DeviceRead(a) PROVE DiscoveryInv'
  <2>1. /\ handling[a] = "device" /\ handling' = [handling EXCEPT ![a] = "objects"]
        /\ UNCHANGED <<from, device_configurations, discover, complete>>
    BY <1>6 DEF DeviceRead, mainVars
  <2>2. PICK list \in {objectList[from[a]], Contents[from[a]]}
                        \cup (IF objectList[from[a]] = None THEN {{}} ELSE {}) :
          objectList' = [objectList EXCEPT ![from[a]] = list]
    BY <1>6 DEF DeviceRead
  <2>3. list \in (SUBSET Objects) \cup {None}
    <3>1. from[a] \in Devices
      OBVIOUS
    <3>2. /\ objectList[from[a]] \in (SUBSET Objects) \cup {None}
          /\ Contents[from[a]] \in SUBSET Objects /\ {} \in SUBSET Objects
      BY <3>1, DiscoveryAssumption
    <3>. QED
      BY <2>2, <3>2
  <2>. QED
    BY <2>1, <2>2, <2>3
<1>7. ASSUME NEW a \in Answers, HandleFails(a) PROVE DiscoveryInv'
  <2>1. /\ handling[a] \in {"device", "objects"}
        /\ handling' = [handling EXCEPT ![a] = "failed"] /\ discover' = "dead"
        /\ UNCHANGED <<from, objectList, device_configurations, complete>>
    BY <1>7 DEF HandleFails
  <2>. QED
    BY <2>1
<1>8. ASSUME NEW a \in Answers, Configure(a) PROVE DiscoveryInv'
  BY <1>8, ConfigureKeeps
<1>9. CASE ReadStep
  BY <1>1, <1>9 DEF ReadStep, handlingVars, mainVars
<1>10. ASSUME NEW p, ConfigToTasks(p) PROVE DiscoveryInv'
  BY <1>1, <1>10 DEF ConfigToTasks, CreateTask, PassEnds, handlingVars, mainVars
<1>11. ASSUME NEW p, NEW d, IAm(p, d) PROVE DiscoveryInv'
  BY <1>1, <1>11 DEF IAm, handlingVars, mainVars
<1>12. CASE UNCHANGED discoveryVars
  BY <1>1, <1>12 DEF discoveryVars, handlingVars, mainVars
<1>. QED
  BY <1>2, <1>3, <1>4, <1>5, <1>6, <1>7, <1>8, <1>9, <1>10, <1>11, <1>12
  DEF DiscoveryNext, Discover, Handle

\* CompleteIsConfigured: when I-Ams are listened to, every device that answered
\* has its configuration, however many answered and whatever failed.
THEOREM CompleteIsConfiguredCorrect == DiscoverySpec => []CompleteIsConfigured
<1>1. DiscoveryInv => CompleteIsConfigured
  BY DEF DiscoveryInv, Configured, CompleteIsConfigured
<1>. QED
  BY <1>1, DiscoveryInvInit, DiscoveryInvStep, PTL DEF DiscoverySpec

----------------------------------------------------------------------------
(* DiscoveryTypeOK.                                                         *)

HandlingTypes ==
  /\ from \in Networks
  /\ handling \in [Answers -> {"none", "device", "objects", "configured", "failed"}]
  /\ toRead \in [Answers -> SUBSET Objects]
  /\ objectList \in [Devices -> (SUBSET Objects) \cup {None}]
  /\ present \subseteq Places

MainTypes ==
  /\ device_configurations \in Seq(GoodConfig)
  /\ discover \in {"asking", "gathering", "generating", "done", "dead"}
  /\ complete \in BOOLEAN
  /\ made \in 0..Len(device_configurations)

TaskTypes ==
  /\ passes \in [Runners -> Pass \cup {None}]
  /\ rereads \in [Devices -> 0..Cardinality(Handlers)]
  /\ subscribed \subseteq Places
  /\ polls \in [Places -> Nat]

\* The types, with what makes them inductive: no request is in line twice, what is
\* left to a pass is in one poll list, and what is subscribed to is an object.
TypesInv == ReadsInv /\ HandlingTypes /\ MainTypes /\ TaskTypes

LEMMA TypesInvInit == DiscoveryInit => TypesInv
<1>. SUFFICES ASSUME DiscoveryInit PROVE TypesInv
  OBVIOUS
<1>1. ReadsInv
  <2>1. requests = <<>> /\ requests \in Seq(Request) /\ ToSet(requests) = {}
    BY DEF DiscoveryInit, ReadsInit, ToSet
  <2>2. IsInjective(requests) /\ \A r \in Reads : Of(r) = {}
    BY <2>1 DEF IsInjective, Of
  <2>3. ReadVarTypes
    BY DEF DiscoveryInit, ReadsInit, ReadVarTypes
  <2>. QED
    BY <2>1, <2>2, <2>3 DEF ReadsInv, InLine
<1>2. HandlingTypes
  <2>1. PICK restored \in SUBSET Saved :
          /\ objectList = [d \in Devices |-> IF d \in restored THEN Contents[d] ELSE None]
          /\ present = {x \in Places : x[1] \in restored /\ x[2] \in Readable(x[1])}
    BY DEF DiscoveryInit
  <2>. QED
    BY <2>1, DiscoveryAssumption DEF DiscoveryInit, HandlingTypes
<1>3. MainTypes
  <2>1. device_configurations = <<>> /\ Len(device_configurations) = 0
    BY DEF DiscoveryInit
  <2>2. device_configurations \in Seq(GoodConfig)
    BY <2>1
  <2>3. 0 \in 0..0
    OBVIOUS
  <2>. QED
    BY <2>1, <2>2, <2>3 DEF DiscoveryInit, MainTypes
<1>4. TaskTypes
  <2>1. Cardinality(Handlers) \in Nat
    BY DiscoveryAssumption, FS_CardinalityType
  <2>2. 0 \in 0..Cardinality(Handlers)
    BY <2>1
  <2>. QED
    BY <2>2 DEF DiscoveryInit, TaskTypes
<1>. QED
  BY <1>1, <1>2, <1>3, <1>4 DEF TypesInv

\* What is left of a list of phases when an item of the k-th has gone.
OneLess(left, k, item, rest) ==
  /\ Len(rest) = Len(left)
  /\ \A j \in 1..Len(left) :
       /\ rest[j].kind = left[j].kind
       /\ \A i \in Item : rest[j].items[i] = IF j = k /\ i = item THEN left[j].items[i] - 1
                                                                  ELSE left[j].items[i]

\* One task less to make.
LEMMA PassFacts ==
  ASSUME NEW pass \in Pass, NEW k \in 1..Len(pass.left), NEW item \in Items(pass.left[k].items)
  PROVE  LET new == [pass EXCEPT !.left[k].items[item] = @ - 1] IN
           new \in Pass /\ new.device = pass.device /\ OneLess(pass.left, k, item, new.left)
<1>. DEFINE new == [pass EXCEPT !.left[k].items[item] = @ - 1]
            left == pass.left
            one == [left[k] EXCEPT !.items[item] = @ - 1]
            rest == [left EXCEPT ![k] = one]
<1>1. left \in Seq(GoodPhase) /\ PollsApart(left) /\ PollsBounded(pass.device, left)
  BY DEF Pass
<1>2. \A j \in 1..Len(left) : left[j] \in GoodPhase /\ left[j].items \in [Item -> Nat]
  BY <1>1 DEF GoodPhase, Phase
<1>3. /\ one \in GoodPhase /\ one.kind = left[k].kind
      /\ \A i \in Item : one.items[i] = IF i = item THEN left[k].items[i] - 1 ELSE left[k].items[i]
  <2>1. item \in Item /\ left[k].items[item] > 0
    BY <1>2 DEF Items
  <2>2. /\ one.kind = left[k].kind /\ one = [left[k] EXCEPT !.items = one.items]
        /\ one.items = [left[k].items EXCEPT ![item] = @ - 1]
    BY <1>2 DEF GoodPhase, Phase
  <2>. HIDE DEF one
  <2>3. /\ one.items \in [Item -> Nat]
        /\ \A i \in Item : one.items[i] = IF i = item THEN left[k].items[i] - 1 ELSE left[k].items[i]
    BY <1>2, <2>1, <2>2
  <2>4. left[k].kind = "cov" => \A i \in Item : one.items[i] > 0 => i \in Objects
    BY <1>2, <2>1, <2>3 DEF GoodPhase
  <2>. QED
    BY <1>2, <2>2, <2>3, <2>4 DEF GoodPhase, Phase
<1>4. new = [pass EXCEPT !.left = rest]
  BY DEF Pass
<1>. HIDE DEF one
<1>5. /\ rest \in Seq(GoodPhase) /\ Len(rest) = Len(left)
      /\ \A j \in 1..Len(left) : rest[j] = IF j = k THEN one ELSE left[j]
  BY <1>1, <1>3
<1>. HIDE DEF new, rest
<1>6. OneLess(left, k, item, rest)
  BY <1>3, <1>5 DEF OneLess
<1>7. PollsApart(rest) /\ PollsBounded(pass.device, rest)
  <2>1. \A j \in 1..Len(left) : rest[j].items \in [Item -> Nat]
    BY <1>5 DEF GoodPhase, Phase
  <2>2. /\ Len(rest) = Len(left)
        /\ \A j \in 1..Len(left) :
             /\ rest[j].kind = left[j].kind
             /\ \A i \in Item : /\ rest[j].items[i] \in Nat /\ left[j].items[i] \in Nat
                                /\ rest[j].items[i] <= left[j].items[i]
    BY <1>2, <1>6, <2>1 DEF OneLess
  <2>3. PollsApart(rest)
    <3>1. ASSUME NEW j \in 1..Len(left), NEW m \in 1..Len(left), NEW i \in Item,
                 rest[j].kind = "poll", rest[m].kind = "poll", j # m, rest[j].items[i] > 0
          PROVE  rest[m].items[i] = 0
      <4>1. left[j].kind = "poll" /\ left[m].kind = "poll" /\ left[j].items[i] > 0
        BY <2>2, <3>1
      <4>2. left[m].items[i] = 0
        BY <1>1, <3>1, <4>1 DEF PollsApart
      <4>. QED
        BY <2>2, <4>2
    <3>. QED
      BY <2>2, <3>1 DEF PollsApart
  <2>4. PollsBounded(pass.device, rest)
    <3>1. Objects \subseteq Item /\ \A o \in Objects : Times[<<pass.device, o>>] \in Nat
      BY TimesFacts DEF Pass, Item
    <3>2. ASSUME NEW j \in 1..Len(left), NEW o \in Objects, rest[j].kind = "poll"
          PROVE  rest[j].items[o] <= Times[<<pass.device, o>>]
      <4>1. left[j].items[o] <= Times[<<pass.device, o>>]
        BY <1>1, <2>2, <3>2 DEF PollsBounded
      <4>. QED
        BY <2>2, <3>1, <4>1
    <3>. QED
      BY <2>2, <3>2 DEF PollsBounded
  <2>. QED
    BY <2>3, <2>4
<1>8. new \in Pass /\ new.device = pass.device /\ new.left = rest
  BY <1>4, <1>5, <1>7 DEF Pass
<1>. QED
  BY <1>6, <1>8 DEF new

\* The step of a runner that makes the task of an item of its k-th phase.
Makes(p, k, item) ==
  /\ passes[p] \in Pass /\ passes'[p] \in Pass
  /\ passes'[p].device = passes[p].device
  /\ OneLess(passes[p].left, k, item, passes'[p].left)
  /\ \A r \in Runners : r # p => passes'[r] = passes[r]
  /\ passes' \in [Runners -> Pass \cup {None}]
  /\ passes[p].left[k].kind = "cov" =>
       /\ <<passes[p].device, item>> \in Places
       /\ subscribed' = subscribed \cup {<<passes[p].device, item>>}
       /\ polls' = polls
  /\ passes[p].left[k].kind # "cov" =>
       /\ polls' = IF <<passes[p].device, item>> \in present
                     THEN [polls EXCEPT ![<<passes[p].device, item>>] = @ + 1] ELSE polls
       /\ subscribed' = subscribed

\* A task of a runner is made: one item goes from what it has left.
LEMMA CreateFacts ==
  ASSUME TaskTypes, NEW p \in Runners, CreateTask(p)
  PROVE  \E k \in 1..Len(passes[p].left) : \E item \in Items(passes[p].left[k].items) :
           Through(p, k - 1) /\ Makes(p, k, item)
<1>0. PICK k \in 1..Len(passes[p].left) :
        Through(p, k - 1) /\ \E item \in Items(passes[p].left[k].items) : Created(p, k, item)
  BY DEF CreateTask
<1>1. PICK item \in Items(passes[p].left[k].items) : Created(p, k, item)
  BY <1>0
<1>2. passes[p] \in Pass
  BY DEF CreateTask, TaskTypes
<1>. DEFINE new == [passes[p] EXCEPT !.left[k].items[item] = @ - 1]
            x == <<passes[p].device, item>>
<1>3. /\ new \in Pass /\ new.device = passes[p].device
      /\ OneLess(passes[p].left, k, item, new.left)
  BY <1>2, PassFacts
<1>4. passes' = [passes EXCEPT ![p] = new]
  BY <1>1 DEF Created
<1>. HIDE DEF new
<1>5. /\ passes'[p] = new /\ \A r \in Runners : r # p => passes'[r] = passes[r]
      /\ passes' \in [Runners -> Pass \cup {None}]
  BY <1>3, <1>4 DEF TaskTypes
<1>6. ASSUME passes[p].left[k].kind = "cov"
      PROVE  x \in Places /\ subscribed' = subscribed \cup {x} /\ polls' = polls
  <2>1. passes[p].left[k] \in GoodPhase /\ passes[p].device \in Devices
    BY <1>2 DEF Pass
  <2>2. item \in Objects
    <3>1. item \in Item /\ passes[p].left[k].items[item] > 0
      BY <2>1 DEF Items, GoodPhase, Phase
    <3>. QED
      BY <1>6, <2>1, <3>1 DEF GoodPhase
  <2>. QED
    BY <1>1, <1>6, <2>1, <2>2 DEF Created, Places
<1>7. ASSUME passes[p].left[k].kind # "cov"
      PROVE  /\ polls' = IF x \in present THEN [polls EXCEPT ![x] = @ + 1] ELSE polls
             /\ subscribed' = subscribed
  BY <1>1, <1>7 DEF Created
<1>8. Makes(p, k, item)
  BY <1>2, <1>3, <1>5, <1>6, <1>7 DEF Makes
<1>. QED
  BY <1>0, <1>8

\* The reads of a device, or of its objects, are finitely many.
LEMMA FiniteReads ==
  ASSUME HandlingTypes
  PROVE  /\ {<<a, Own>> : a \in Answers} \in SUBSET Reads
         /\ IsFiniteSet({<<a, Own>> : a \in Answers})
         /\ \A a \in Answers : /\ {<<a, Own>>} \in SUBSET Reads /\ IsFiniteSet({<<a, Own>>})
                               /\ ObjectReads(a) \in SUBSET Reads /\ IsFiniteSet(ObjectReads(a))
                               /\ \A r \in ObjectReads(a) : IsFiniteSet({r})
<1>1. IsFiniteSet({<<a, Own>> : a \in Answers})
  <2>. DEFINE f == [a \in Answers |-> <<a, Own>>]
  <2>1. IsFiniteSet(Answers)
    BY DiscoveryAssumption
  <2>3. IsFiniteSet({f[a] : a \in Answers})
    BY <2>1, ImageFinite
  <2>2. {f[a] : a \in Answers} = {<<a, Own>> : a \in Answers}
    OBVIOUS
  <2>. QED
    BY <2>2, <2>3
<1>2. ASSUME NEW a \in Answers PROVE IsFiniteSet(ObjectReads(a))
  <2>. DEFINE f == [o \in toRead[a] |-> <<a, o>>]
  <2>1. IsFiniteSet(toRead[a])
    BY DiscoveryAssumption, FS_Subset DEF HandlingTypes
  <2>2. IsFiniteSet({f[o] : o \in toRead[a]})
    BY <2>1, ImageFinite
  <2>3. {f[o] : o \in toRead[a]} = ObjectReads(a)
    BY DEF ObjectReads
  <2>. QED
    BY <2>2, <2>3
<1>3. ASSUME NEW a \in Answers
      PROVE  {<<a, Own>>} \in SUBSET Reads /\ ObjectReads(a) \in SUBSET Reads
  BY DiscoveryAssumption DEF HandlingTypes, ObjectReads
<1>4. \A x : IsFiniteSet({x})
  BY FS_Singleton
<1>. QED
  BY <1>1, <1>2, <1>3, <1>4, DiscoveryAssumption

\* The steps of handle_device keep the types.
LEMMA HandleTypes ==
  ASSUME TypesInv, NEW a \in Answers, Handle(a)
  PROVE  TypesInv'
<1>1. /\ from[a] \in Devices /\ handling[a] \in {"none", "device", "objects", "configured", "failed"}
      /\ toRead[a] \in SUBSET Objects /\ objectList[from[a]] \in (SUBSET Objects) \cup {None}
      /\ Contents[from[a]] \in SUBSET Objects
  BY DiscoveryAssumption DEF TypesInv, HandlingTypes
<1>2. UNCHANGED taskVars => TaskTypes'
  BY DEF TypesInv, TaskTypes, taskVars
<1>3. UNCHANGED mainVars => MainTypes'
  BY DEF TypesInv, MainTypes, mainVars
<1>4. UNCHANGED handlingVars => HandlingTypes'
  BY DEF TypesInv, HandlingTypes, handlingVars
<1>5. UNCHANGED readVars => ReadsInv'
  BY DEF TypesInv, ReadsInv, ReadVarTypes, InLine, Of, readVars
<1>6. CASE ReadDevice(a) \/ ListObject(a) \/ ReadObjects(a)
  <2>1. PICK reads \in SUBSET Reads :
          IsFiniteSet(reads) /\ (StartLists(reads) \/ StartMultiple(reads) \/ StartSingle(reads))
    <3>1. CASE ReadDevice(a)
      BY <3>1, FiniteReads DEF ReadDevice, TypesInv
    <3>2. CASE ListObject(a)
      <4>1. PICK r \in ObjectReads(a) : StartLists({r})
        BY <3>2 DEF ListObject
      <4>. QED
        BY <4>1, FiniteReads DEF TypesInv
    <3>3. CASE ReadObjects(a)
      BY <3>3, FiniteReads DEF ReadObjects, TypesInv
    <3>. QED
      BY <1>6, <3>1, <3>2, <3>3
  <2>2. ReadsInv'
    BY <2>1, StartKeeps DEF TypesInv
  <2>3. UNCHANGED <<handlingVars, mainVars, taskVars>>
    BY <1>6 DEF ReadDevice, ListObject, ReadObjects
  <2>. QED
    BY <1>2, <1>3, <1>4, <2>2, <2>3 DEF TypesInv
<1>7. CASE DeviceRead(a)
  <2>1. UNCHANGED <<readVars, from, present, mainVars, taskVars>>
    BY <1>7 DEF DeviceRead
  <2>2. PICK list \in {objectList[from[a]], Contents[from[a]]}
                        \cup (IF objectList[from[a]] = None THEN {{}} ELSE {}) :
          /\ objectList' = [objectList EXCEPT ![from[a]] = list]
          /\ toRead' = [toRead EXCEPT ![a] = IF list = None THEN {} ELSE Eligible(list, from[a])]
    BY <1>7 DEF DeviceRead
  <2>3. handling' = [handling EXCEPT ![a] = "objects"]
    BY <1>7 DEF DeviceRead
  <2>4. list \in (SUBSET Objects) \cup {None}
    BY <1>1, <2>2
  <2>5. (IF list = None THEN {} ELSE Eligible(list, from[a])) \in SUBSET Objects
    BY <2>4 DEF Eligible
  <2>6. HandlingTypes'
    BY <2>1, <2>2, <2>3, <2>4, <2>5 DEF TypesInv, HandlingTypes
  <2>. QED
    BY <1>2, <1>3, <1>5, <2>1, <2>6 DEF TypesInv
<1>8. CASE Configure(a)
  <2>. DEFINE config == [device |-> from[a],
                         lists |-> Generated(ConfigOf[from[a]], from[a], objectList[from[a]] \ Ignored)]
  <2>1. UNCHANGED <<readVars, from, toRead, objectList, discover, complete, made, taskVars>>
    BY <1>8 DEF Configure, AddConfiguration
  <2>2. config \in GoodConfig
    BY <1>1, <1>8, GeneratedIsGood DEF Configure
  <2>3. device_configurations' = Append(device_configurations, config)
    BY <1>8 DEF Configure, AddConfiguration
  <2>4. MainTypes'
    <3>. HIDE DEF config
    <3>1. /\ device_configurations' \in Seq(GoodConfig)
          /\ Len(device_configurations') = Len(device_configurations) + 1
          /\ Len(device_configurations) \in Nat
      BY <2>2, <2>3 DEF TypesInv, MainTypes
    <3>. QED
      BY <2>1, <3>1 DEF TypesInv, MainTypes
  <2>5. HandlingTypes'
    <3>1. PICK new \in SUBSET {<<from[a], o>> : o \in toRead[a]} : present' = present \cup new
      BY <1>8 DEF Configure
    <3>2. present' \subseteq Places
      BY <1>1, <3>1 DEF TypesInv, HandlingTypes, Places
    <3>3. handling' = [handling EXCEPT ![a] = "configured"]
      BY <1>8 DEF Configure
    <3>. QED
      BY <2>1, <3>2, <3>3 DEF TypesInv, HandlingTypes
  <2>. QED
    BY <1>2, <1>5, <2>1, <2>4, <2>5 DEF TypesInv
<1>9. CASE HandleFails(a)
  <2>1. /\ handling' = [handling EXCEPT ![a] = "failed"] /\ discover' = "dead"
        /\ UNCHANGED <<readVars, from, toRead, objectList, present, device_configurations,
                       complete, made, taskVars>>
    BY <1>9 DEF HandleFails
  <2>2. HandlingTypes' /\ MainTypes'
    BY <2>1 DEF TypesInv, HandlingTypes, MainTypes
  <2>. QED
    BY <1>2, <1>5, <2>1, <2>2 DEF TypesInv
<1>. QED
  BY <1>6, <1>7, <1>8, <1>9 DEF Handle

\* config_to_tasks begins: what it has to go through is a list of phases.
LEMMA RunTypes ==
  ASSUME TypesInv, NEW p \in Runners, NEW i \in 1..Len(device_configurations),
         NEW first_run \in BOOLEAN, Run(p, device_configurations[i], first_run)
  PROVE  LET c == device_configurations[i] IN
           /\ c \in GoodConfig
           /\ passes' \in [Runners -> Pass \cup {None}]
           /\ passes'[p] \in Pass /\ passes'[p].device = c.device
           /\ passes'[p].left = Passes(c.lists, c.device, first_run)
           /\ \A r \in Runners : r # p => passes'[r] = passes[r]
<1>. DEFINE c == device_configurations[i]
            new == [device |-> c.device, left |-> Passes(c.lists, c.device, first_run)]
<1>1. c \in GoodConfig
  BY DEF TypesInv, MainTypes
<1>2. /\ Passes(c.lists, c.device, first_run) \in Seq(GoodPhase)
      /\ PollsApart(Passes(c.lists, c.device, first_run))
      /\ PollsBounded(c.device, Passes(c.lists, c.device, first_run))
  BY <1>1, PassesFacts
<1>3. new \in Pass /\ new.device = c.device /\ new.left = Passes(c.lists, c.device, first_run)
  BY <1>1, <1>2 DEF Pass, GoodConfig
<1>4. passes' = [passes EXCEPT ![p] = new]
  BY DEF Run
<1>. HIDE DEF new
<1>. QED
  BY <1>1, <1>3, <1>4 DEF TypesInv, TaskTypes

LEMMA TypesStep == TypesInv /\ [DiscoveryNext]_discoveryVars => TypesInv'
<1>. SUFFICES ASSUME TypesInv, [DiscoveryNext]_discoveryVars PROVE TypesInv'
  OBVIOUS
<1>1. UNCHANGED taskVars => TaskTypes'
  BY DEF TypesInv, TaskTypes, taskVars
<1>2. UNCHANGED mainVars => MainTypes'
  BY DEF TypesInv, MainTypes, mainVars
<1>3. UNCHANGED handlingVars => HandlingTypes'
  BY DEF TypesInv, HandlingTypes, handlingVars
<1>4. UNCHANGED readVars => ReadsInv'
  BY DEF TypesInv, ReadsInv, ReadVarTypes, InLine, Of, readVars
<1>5. CASE Gather
  <2>1. ReadsInv'
    BY <1>5, FiniteReads, StartKeeps DEF Gather, TypesInv
  <2>2. HandlingTypes'
    BY <1>5 DEF Gather, TypesInv, HandlingTypes
  <2>3. MainTypes'
    BY <1>5 DEF Gather, TypesInv, MainTypes
  <2>. QED
    BY <1>1, <1>5, <2>1, <2>2, <2>3 DEF Gather, TypesInv
<1>6. CASE Completes
  <2>1. MainTypes'
    BY <1>6 DEF Completes, TypesInv, MainTypes
  <2>. QED
    BY <1>1, <1>3, <1>4, <1>6, <2>1 DEF Completes, TypesInv
<1>7. CASE MakeNext
  <2>1. UNCHANGED <<readVars, handlingVars, device_configurations, complete,
                    rereads, subscribed, polls>>
    BY <1>7 DEF MakeNext
  <2>2. CASE made = Len(device_configurations) /\ discover' = "done" /\ UNCHANGED <<made, passes>>
    <3>1. MainTypes' /\ TaskTypes'
      BY <2>1, <2>2 DEF TypesInv, MainTypes, TaskTypes
    <3>. QED
      BY <1>3, <1>4, <2>1, <3>1 DEF TypesInv
  <2>3. CASE /\ made # Len(device_configurations) /\ made' = made + 1
             /\ Run(Main, device_configurations[made + 1], TRUE) /\ UNCHANGED discover
    <3>1. made + 1 \in 1..Len(device_configurations) /\ Len(device_configurations) \in Nat
      BY <2>3 DEF TypesInv, MainTypes
    <3>2. passes' \in [Runners -> Pass \cup {None}]
      BY <2>3, <3>1, RunTypes DEF Runners
    <3>3. MainTypes'
      BY <2>1, <2>3, <3>1 DEF TypesInv, MainTypes
    <3>4. TaskTypes'
      BY <2>1, <3>2 DEF TypesInv, TaskTypes
    <3>. QED
      BY <1>3, <1>4, <2>1, <3>3, <3>4 DEF TypesInv
  <2>. QED
    BY <1>7, <2>2, <2>3 DEF MakeNext
<1>8. CASE ReadStep
  <2>1. ReadsInv'
    BY <1>8, AnswerKeeps DEF ReadStep, TypesInv
  <2>. QED
    BY <1>1, <1>2, <1>3, <1>8, <2>1 DEF ReadStep, TypesInv
<1>9. ASSUME NEW a \in Answers, Handle(a) PROVE TypesInv'
  BY <1>9, HandleTypes
<1>10. ASSUME NEW p \in Runners, ConfigToTasks(p) PROVE TypesInv'
  <2>1. UNCHANGED <<readVars, handlingVars, mainVars, rereads>>
    BY <1>10 DEF ConfigToTasks, CreateTask, PassEnds
  <2>2. TaskTypes'
    <3>1. CASE CreateTask(p)
      <4>1. PICK k \in 1..Len(passes[p].left) : \E item \in Items(passes[p].left[k].items) : Makes(p, k, item)
        BY <3>1, CreateFacts DEF TypesInv
      <4>2. PICK item \in Items(passes[p].left[k].items) : Makes(p, k, item)
        BY <4>1
      <4>3. CASE passes[p].left[k].kind = "cov"
        BY <2>1, <4>2, <4>3 DEF Makes, TypesInv, TaskTypes
      <4>4. CASE passes[p].left[k].kind # "cov"
        <5>1. polls' \in [Places -> Nat]
          <6>. DEFINE x == <<passes[p].device, item>>
          <6>1. polls' = IF x \in present THEN [polls EXCEPT ![x] = @ + 1] ELSE polls
            BY <4>2, <4>4 DEF Makes
          <6>2. x \in present => x \in Places
            BY DEF TypesInv, HandlingTypes
          <6>. HIDE DEF x
          <6>. QED
            BY <6>1, <6>2 DEF TypesInv, TaskTypes
        <5>. QED
          BY <2>1, <4>2, <4>4, <5>1 DEF Makes, TypesInv, TaskTypes
      <4>. QED
        BY <4>3, <4>4
    <3>2. CASE PassEnds(p)
      BY <2>1, <3>2 DEF PassEnds, TypesInv, TaskTypes
    <3>. QED
      BY <1>10, <3>1, <3>2 DEF ConfigToTasks
  <2>. QED
    BY <1>2, <1>3, <1>4, <2>1, <2>2 DEF TypesInv
<1>11. ASSUME NEW p \in Handlers, NEW d \in Devices, IAm(p, d) PROVE TypesInv'
  <2>1. UNCHANGED <<readVars, handlingVars, mainVars, subscribed, polls>>
    BY <1>11 DEF IAm
  <2>2. PICK i \in 1..Len(device_configurations) : Run(p, device_configurations[i], FALSE)
    BY <1>11 DEF IAm
  <2>3. passes' \in [Runners -> Pass \cup {None}]
    BY <2>2, RunTypes DEF Runners
  <2>4. rereads' \in [Devices -> 0..Cardinality(Handlers)]
    <3>1. Cardinality(Handlers) \in Nat
      BY DiscoveryAssumption, FS_CardinalityType
    <3>. QED
      BY <1>11, <3>1 DEF IAm, TypesInv, TaskTypes
  <2>5. TaskTypes'
    BY <2>1, <2>3, <2>4 DEF TypesInv, TaskTypes
  <2>. QED
    BY <1>2, <1>3, <1>4, <2>1, <2>5 DEF TypesInv
<1>12. CASE UNCHANGED discoveryVars
  BY <1>1, <1>2, <1>3, <1>4, <1>12 DEF discoveryVars, TypesInv
<1>. QED
  BY <1>5, <1>6, <1>7, <1>8, <1>9, <1>10, <1>11, <1>12 DEF DiscoveryNext, Discover

\* DiscoveryTypeOK: every variable keeps its type, and no request for a property
\* is ever twice in the line for the permits, however reads fall back.
THEOREM DiscoveryTypeCorrect == DiscoverySpec => []DiscoveryTypeOK
<1>1. TypesInv => DiscoveryTypeOK
  <2>. SUFFICES ASSUME TypesInv PROVE DiscoveryTypeOK
    OBVIOUS
  <2>1. ReadsTypeOK
    BY DEF TypesInv, ReadsInv, InLine, ReadVarTypes, ReadsTypeOK
  <2>2. device_configurations \in Seq([device : Devices, lists : Lists])
    <3>1. GoodConfig \subseteq Configuration
      BY DEF GoodConfig, Configuration
    <3>2. device_configurations \in Seq(GoodConfig)
      BY DEF TypesInv, MainTypes
    <3>3. device_configurations \in Seq(Configuration)
      BY <3>1, <3>2
    <3>. QED
      BY <3>3 DEF Configuration
  <2>3. ASSUME NEW p \in Runners, passes[p] # None
        PROVE  passes[p].device \in Devices /\ passes[p].left \in Seq(Phase)
    <3>1. passes[p] \in Pass
      BY <2>3 DEF TypesInv, TaskTypes
    <3>2. GoodPhase \subseteq Phase
      BY DEF GoodPhase
    <3>. QED
      BY <3>1, <3>2 DEF Pass
  <2>. QED
    BY <2>1, <2>2, <2>3 DEF TypesInv, HandlingTypes, MainTypes, TaskTypes, DiscoveryTypeOK
<1>. QED
  BY <1>1, TypesInvInit, TypesStep, PTL DEF DiscoverySpec

----------------------------------------------------------------------------
(* NoExtraPolls.                                                            *)

LEMMA SizeFacts ==
  /\ \A S : IsFiniteSet(S) => Cardinality(S) \in Nat
  /\ \A S, T : IsFiniteSet(T) /\ S \subseteq T => IsFiniteSet(S) /\ Cardinality(S) <= Cardinality(T)
  /\ \A S, x : IsFiniteSet(S) => /\ IsFiniteSet(S \cup {x})
                                 /\ Cardinality(S \cup {x}) <= Cardinality(S) + 1
                                 /\ x \notin S => Cardinality(S \cup {x}) = Cardinality(S) + 1
                                 /\ x \in S => Cardinality(S \ {x}) = Cardinality(S) - 1
<1>1. \A S : IsFiniteSet(S) => Cardinality(S) \in Nat
  BY FS_CardinalityType
<1>2. ASSUME NEW S, NEW T, IsFiniteSet(T), S \subseteq T
      PROVE  IsFiniteSet(S) /\ Cardinality(S) <= Cardinality(T)
  BY <1>2, FS_Subset
<1>3. ASSUME NEW S, NEW x, IsFiniteSet(S)
      PROVE  /\ IsFiniteSet(S \cup {x})
             /\ Cardinality(S \cup {x}) <= Cardinality(S) + 1
             /\ x \notin S => Cardinality(S \cup {x}) = Cardinality(S) + 1
             /\ x \in S => Cardinality(S \ {x}) = Cardinality(S) - 1
  <2>1. Cardinality(S) \in Nat
    BY <1>1, <1>3
  <2>2. /\ IsFiniteSet(S \cup {x})
        /\ Cardinality(S \cup {x}) = IF x \in S THEN Cardinality(S) ELSE Cardinality(S) + 1
    BY <1>3, FS_AddElement
  <2>3. Cardinality(S \ {x}) = IF x \in S THEN Cardinality(S) - 1 ELSE Cardinality(S)
    BY <1>3, FS_RemoveElement
  <2>. QED
    BY <2>1, <2>2, <2>3
<1>. QED
  BY <1>1, <1>2, <1>3

\* The pairs of a finite set and the numbers up to n.
LEMMA ProductFacts ==
  ASSUME NEW S, IsFiniteSet(S), NEW n \in Nat
  PROVE  IsFiniteSet(S \X (1..n)) /\ \A p : Cardinality({p} \X (1..n)) = n
<1>1. IsFiniteSet(1..n) /\ Cardinality(1..n) = n
  BY FS_Interval
<1>2. IsFiniteSet(S \X (1..n))
  BY <1>1, FS_Product
<1>3. ASSUME NEW p PROVE Cardinality({p} \X (1..n)) = n
  <2>1. IsFiniteSet({p}) /\ Cardinality({p}) = 1
    BY FS_Singleton
  <2>2. Cardinality({p} \X (1..n)) = 1 * n
    BY <1>1, <2>1, FS_Product
  <2>. QED
    BY <2>2
<1>. QED
  BY <1>2, <1>3

\* More of the same number are more.
LEMMA TimesGrow ==
  ASSUME NEW m \in Nat, NEW n \in Nat, NEW t \in Nat
  PROVE  /\ m * t \in Nat /\ n * t \in Nat
         /\ m <= n => m * t <= n * t
         /\ m < n => m * t + t <= n * t
<1>1. ASSUME NEW i \in Nat, NEW j \in Nat PROVE i * t \in Nat /\ (i + j) * t = i * t + j * t
  OBVIOUS
<1>2. m * t \in Nat /\ n * t \in Nat
  BY <1>1
<1>3. ASSUME m <= n PROVE m * t <= n * t
  <2>. DEFINE j == n - m
  <2>1. j \in Nat /\ m + j = n
    BY <1>3
  <2>. HIDE DEF j
  <2>2. n * t = m * t + j * t /\ j * t \in Nat
    BY <1>1, <2>1
  <2>. QED
    BY <1>2, <2>2
<1>4. ASSUME m < n PROVE m * t + t <= n * t
  <2>. DEFINE j == n - m - 1
  <2>1. j \in Nat /\ (m + 1) + j = n /\ m + 1 \in Nat
    BY <1>4
  <2>. HIDE DEF j
  <2>2. n * t = (m + 1) * t + j * t /\ j * t \in Nat
    BY <1>1, <2>1
  <2>3. (m + 1) * t = m * t + t
    OBVIOUS
  <2>. QED
    BY <1>2, <2>2, <2>3
<1>. QED
  BY <1>2, <1>3, <1>4

\* The poll tasks of an object that a runner still has to make, numbered.
LeftOf(p, x, n) ==
  /\ passes[p] # None /\ passes[p].device = x[1]
  /\ \E k \in 1..Len(passes[p].left) :
       passes[p].left[k].kind = "poll" /\ n <= passes[p].left[k].items[x[2]]
Pending(x) == {q \in Runners \X (Nat \ {0}) : LeftOf(q[1], x, q[2])}

Configurations(d) == {i \in 1..Len(device_configurations) : device_configurations[i].device = d}
Configurers(d) == {a \in Answers : handling[a] = "configured" /\ from[a] = d}
Made(d) == {i \in 1..made : device_configurations[i].device = d}
Again(d) == IF ConfigOf[d].reread_on_iam THEN rereads[d] ELSE 0

\* Nothing is read or configured before Who-Is has been answered.
NotYet ==
  discover = "asking" =>
    device_configurations = <<>> /\ \A a \in Answers : handling[a] = "none"

\* A handle_device adds at most one configuration.
OneForEach ==
  \A d \in Devices :
    Cardinality(Configurations(d)) <= Cardinality(Configurers(d))

\* The poll tasks of an object that exist, and those that will: Times for each
\* configuration of its device that has been taken up and each I-Am that rereads.
TakenFor(d) == Cardinality(Made(d)) + Again(d)
PollsCounted ==
  \A x \in Places : polls[x] + Cardinality(Pending(x)) <= TakenFor(x[1]) * Times[x]

LEMMA CountedSets ==
  ASSUME TypesInv
  PROVE  /\ \A x \in Places :
              /\ Times[x] \in Nat /\ IsFiniteSet(Pending(x))
              /\ Pending(x) \subseteq Runners \X (1..Times[x])
         /\ \A d : IsFiniteSet(Configurations(d)) /\ IsFiniteSet(Made(d))
         /\ \A d : Made(d) \subseteq Configurations(d)
         /\ \A d : IsFiniteSet(Configurers(d)) /\ IsFiniteSet({a \in Answers : from[a] = d})
         /\ \A d : Configurers(d) \subseteq {a \in Answers : from[a] = d}
<1>1. IsFiniteSet(Runners) /\ IsFiniteSet(Answers)
  <2>1. IsFiniteSet(Handlers) /\ IsFiniteSet(Answers)
    BY DiscoveryAssumption
  <2>. QED
    BY <2>1, SizeFacts DEF Runners
<1>2. Len(device_configurations) \in Nat /\ made \in 0..Len(device_configurations)
  BY DEF TypesInv, MainTypes
<1>3. IsFiniteSet(1..Len(device_configurations))
  BY <1>2, FS_Interval
<1>4. \A d : Made(d) \subseteq Configurations(d) /\ Configurations(d) \subseteq 1..Len(device_configurations)
  BY <1>2 DEF Made, Configurations
<1>5. \A d : IsFiniteSet(Configurations(d)) /\ IsFiniteSet(Made(d))
  BY <1>3, <1>4, SizeFacts
<1>6. ASSUME NEW x \in Places
      PROVE  /\ Times[x] \in Nat /\ IsFiniteSet(Pending(x))
             /\ Pending(x) \subseteq Runners \X (1..Times[x])
  <2>1. x = <<x[1], x[2]>> /\ x[1] \in Devices /\ x[2] \in Objects
    BY DEF Places
  <2>2. Times[x] \in Nat
    BY <2>1, TimesFacts
  <2>3. ASSUME NEW p \in Runners, NEW n \in Nat \ {0}, LeftOf(p, x, n) PROVE n \in 1..Times[x]
    <3>1. PICK k \in 1..Len(passes[p].left) :
            passes[p].left[k].kind = "poll" /\ n <= passes[p].left[k].items[x[2]]
      BY <2>3 DEF LeftOf
    <3>2. passes[p] \in Pass /\ passes[p].device = x[1]
      BY <2>3 DEF LeftOf, TypesInv, TaskTypes
    <3>3. passes[p].left[k].items[x[2]] <= Times[x]
      BY <2>1, <3>1, <3>2 DEF Pass, PollsBounded
    <3>4. passes[p].left[k].items[x[2]] \in Nat
      <4>1. passes[p].left[k] \in GoodPhase
        BY <3>2 DEF Pass
      <4>. QED
        BY <2>1, <4>1 DEF GoodPhase, Phase, Item
    <3>. QED
      BY <2>2, <3>1, <3>3, <3>4
  <2>4. Pending(x) \subseteq Runners \X (1..Times[x])
    BY <2>3 DEF Pending
  <2>5. IsFiniteSet(Runners \X (1..Times[x]))
    BY <1>1, <2>2, ProductFacts
  <2>. QED
    BY <2>2, <2>4, <2>5, SizeFacts
<1>7. \A d : /\ Configurers(d) \subseteq {a \in Answers : from[a] = d}
             /\ {a \in Answers : from[a] = d} \subseteq Answers
  BY DEF Configurers
<1>. QED
  BY <1>1, <1>4, <1>5, <1>6, <1>7, SizeFacts

LEMMA NotYetStep ==
  ASSUME TypesInv, NotYet, [DiscoveryNext]_discoveryVars
  PROVE  NotYet'
<1>1. CASE Gather
  BY <1>1 DEF Gather, NotYet
<1>2. CASE Completes \/ MakeNext
  BY <1>2 DEF Completes, MakeNext, NotYet, handlingVars
<1>3. CASE ReadStep
  BY <1>3 DEF ReadStep, NotYet, handlingVars, mainVars
<1>4. ASSUME NEW a \in Answers, Handle(a) PROVE NotYet'
  <2>1. handling[a] # "none"
    BY <1>4 DEF Handle, ReadDevice, DeviceRead, ListObject, ReadObjects, Configure, HandleFails
  <2>2. discover # "asking"
    BY <2>1 DEF NotYet
  <2>3. discover' # "asking"
    BY <1>4, <2>2 DEF Handle, ReadDevice, DeviceRead, ListObject, ReadObjects, Configure,
                      AddConfiguration, HandleFails, mainVars
  <2>. QED
    BY <2>3 DEF NotYet
<1>5. ASSUME NEW p, ConfigToTasks(p) PROVE NotYet'
  BY <1>5 DEF ConfigToTasks, CreateTask, PassEnds, NotYet, handlingVars, mainVars
<1>6. ASSUME NEW p, NEW d, IAm(p, d) PROVE NotYet'
  BY <1>6 DEF IAm, NotYet, handlingVars, mainVars
<1>7. CASE UNCHANGED discoveryVars
  BY <1>7 DEF discoveryVars, NotYet, handlingVars, mainVars
<1>. QED
  BY <1>1, <1>2, <1>3, <1>4, <1>5, <1>6, <1>7 DEF DiscoveryNext, Discover

LEMMA OneForEachStep ==
  ASSUME TypesInv, NotYet, OneForEach, [DiscoveryNext]_discoveryVars
  PROVE  OneForEach'
<1>1. CASE UNCHANGED <<device_configurations, handling, from>>
  BY <1>1 DEF OneForEach, Configurations, Configurers
<1>2. CASE Gather
  <2>1. device_configurations' = <<>>
    BY <1>2 DEF Gather, NotYet
  <2>2. \A d : Configurations(d)' = {} /\ Configurers(d)' = {}
    BY <1>2, <2>1 DEF Configurations, Configurers, Gather
  <2>3. Cardinality({}) = 0
    BY FS_EmptySet
  <2>. QED
    BY <2>2, <2>3 DEF OneForEach
<1>3. ASSUME NEW a \in Answers, DeviceRead(a) \/ HandleFails(a) PROVE OneForEach'
  <2>1. /\ handling[a] # "configured"
        /\ handling' \in {[handling EXCEPT ![a] = "objects"], [handling EXCEPT ![a] = "failed"]}
        /\ UNCHANGED <<device_configurations, from>>
    BY <1>3 DEF DeviceRead, HandleFails, mainVars
  <2>2. \A b \in Answers : handling'[b] = "configured" <=> handling[b] = "configured"
    BY <2>1 DEF TypesInv, HandlingTypes
  <2>3. \A d : Configurations(d)' = Configurations(d) /\ Configurers(d)' = Configurers(d)
    BY <2>1, <2>2 DEF Configurations, Configurers
  <2>. QED
    BY <2>3 DEF OneForEach
<1>4. ASSUME NEW a \in Answers, Configure(a) PROVE OneForEach'
  <2>. DEFINE n == Len(device_configurations)
              config == [device |-> from[a],
                         lists |-> Generated(ConfigOf[from[a]], from[a], objectList[from[a]] \ Ignored)]
  <2>1. /\ device_configurations' = Append(device_configurations, config)
        /\ handling[a] = "objects" /\ handling' = [handling EXCEPT ![a] = "configured"]
        /\ from' = from /\ config.device = from[a]
    BY <1>4 DEF Configure, AddConfiguration
  <2>. HIDE DEF config
  <2>2. /\ Len(device_configurations') = n + 1 /\ n \in Nat
        /\ device_configurations'[n + 1] = config
        /\ \A i \in 1..n : device_configurations'[i] = device_configurations[i]
    BY <2>1 DEF TypesInv, MainTypes
  <2>3. SUFFICES ASSUME NEW d \in Devices
                 PROVE  Cardinality(Configurations(d)') <= Cardinality(Configurers(d)')
    BY DEF OneForEach
  <2>4. /\ IsFiniteSet(Configurations(d)) /\ IsFiniteSet(Configurers(d))
        /\ Cardinality(Configurations(d)) <= Cardinality(Configurers(d))
    BY CountedSets DEF OneForEach
  <2>5. CASE from[a] = d
    <3>1. /\ Configurations(d)' = Configurations(d) \cup {n + 1}
          /\ Configurers(d)' = Configurers(d) \cup {a} /\ a \notin Configurers(d)
      BY <2>1, <2>2, <2>5 DEF Configurations, Configurers, TypesInv, HandlingTypes
    <3>2. Cardinality(Configurations(d)') <= Cardinality(Configurations(d)) + 1
      BY <2>4, <3>1, SizeFacts
    <3>3. Cardinality(Configurers(d)') = Cardinality(Configurers(d)) + 1
      BY <2>4, <3>1, SizeFacts
    <3>4. /\ Cardinality(Configurations(d)) \in Nat /\ Cardinality(Configurers(d)) \in Nat
          /\ Cardinality(Configurations(d)') \in Nat
      <4>1. IsFiniteSet(Configurations(d)')
        BY <2>4, <3>1, SizeFacts
      <4>. QED
        BY <2>4, <4>1, SizeFacts
    <3>. QED
      BY <2>4, <3>2, <3>3, <3>4
  <2>6. CASE from[a] # d
    <3>1. Configurations(d)' = Configurations(d) /\ Configurers(d)' = Configurers(d)
      BY <2>1, <2>2, <2>6 DEF Configurations, Configurers, TypesInv, HandlingTypes
    <3>. QED
      BY <2>4, <3>1
  <2>. QED
    BY <2>5, <2>6
<1>5. ASSUME NEW a \in Answers, ReadDevice(a) \/ ListObject(a) \/ ReadObjects(a) PROVE OneForEach'
  BY <1>1, <1>5 DEF ReadDevice, ListObject, ReadObjects, handlingVars, mainVars
<1>6. CASE Completes \/ MakeNext
  BY <1>1, <1>6 DEF Completes, MakeNext, handlingVars
<1>7. CASE ReadStep
  BY <1>1, <1>7 DEF ReadStep, handlingVars, mainVars
<1>8. ASSUME NEW p, ConfigToTasks(p) PROVE OneForEach'
  BY <1>1, <1>8 DEF ConfigToTasks, CreateTask, PassEnds, handlingVars, mainVars
<1>9. ASSUME NEW p, NEW d, IAm(p, d) PROVE OneForEach'
  BY <1>1, <1>9 DEF IAm, handlingVars, mainVars
<1>10. CASE UNCHANGED discoveryVars
  BY <1>1, <1>10 DEF discoveryVars, handlingVars, mainVars
<1>. QED
  BY <1>2, <1>3, <1>4, <1>5, <1>6, <1>7, <1>8, <1>9, <1>10 DEF DiscoveryNext, Discover, Handle

\* Whatever leaves passes, polls, rereads and made alone leaves the count as it is;
\* configurations are only added behind.
LEMMA CountedSame ==
  ASSUME TypesInv, PollsCounted, UNCHANGED <<made, passes, rereads, polls>>,
         \A i \in 1..made : device_configurations'[i] = device_configurations[i]
  PROVE  PollsCounted'
<1>1. \A x : Pending(x)' = Pending(x)
  BY DEF Pending, LeftOf
<1>2. \A d : Made(d)' = Made(d) /\ Again(d)' = Again(d)
  BY DEF Made, Again
<1>. QED
  BY <1>1, <1>2 DEF PollsCounted, TakenFor

\* A runner takes up a configuration: counted first, made later.
LEMMA CountedRun ==
  ASSUME TypesInv, PollsCounted, polls' = polls, NEW p \in Runners,
         \A r \in Runners : r # p => passes'[r] = passes[r],
         passes'[p] \in Pass,
         \A d \in Devices : /\ TakenFor(d) \in Nat /\ TakenFor(d)' \in Nat
                            /\ TakenFor(d) <= TakenFor(d)',
         \A x \in Places, n \in Nat \ {0} : LeftOf(p, x, n)' => TakenFor(x[1]) < TakenFor(x[1])'
  PROVE  PollsCounted'
<1>. SUFFICES ASSUME NEW x \in Places
              PROVE  polls[x] + Cardinality(Pending(x)') <= TakenFor(x[1])' * Times[x]
  BY DEF PollsCounted
<1>. DEFINE new == {p} \X (1..Times[x])
<1>0. x = <<x[1], x[2]>> /\ x[1] \in Devices /\ x[2] \in Objects
  BY DEF Places
<1>1. /\ IsFiniteSet(Pending(x)) /\ Times[x] \in Nat /\ polls[x] \in Nat
      /\ TakenFor(x[1]) \in Nat /\ TakenFor(x[1])' \in Nat /\ TakenFor(x[1]) <= TakenFor(x[1])'
      /\ polls[x] + Cardinality(Pending(x)) <= TakenFor(x[1]) * Times[x]
  BY <1>0, CountedSets DEF PollsCounted, TypesInv, TaskTypes
<1>2. Pending(x)' \subseteq Pending(x) \cup {q \in Pending(x)' : q[1] = p}
  BY DEF Pending, LeftOf
<1>3. CASE \E n \in Nat \ {0} : LeftOf(p, x, n)'
  <2>1. TakenFor(x[1]) < TakenFor(x[1])'
    BY <1>3
  <2>2. ASSUME NEW n \in Nat \ {0}, LeftOf(p, x, n)' PROVE n \in 1..Times[x]
    <3>0. Times[x] \in Nat
      BY <1>1
    <3>1. PICK k \in 1..Len(passes'[p].left) :
            passes'[p].left[k].kind = "poll" /\ n <= passes'[p].left[k].items[x[2]]
      BY <2>2 DEF LeftOf
    <3>2. passes'[p].device = x[1]
      BY <2>2 DEF LeftOf
    <3>3. passes'[p].left[k].items[x[2]] <= Times[x]
      BY <1>0, <3>1, <3>2 DEF Pass, PollsBounded
    <3>4. passes'[p].left[k].items[x[2]] \in Nat
      <4>1. passes'[p].left[k] \in GoodPhase
        BY DEF Pass
      <4>. QED
        BY <1>0, <4>1 DEF GoodPhase, Phase, Item
    <3>. QED
      BY <3>0, <3>1, <3>3, <3>4
  <2>3. Pending(x)' \subseteq Pending(x) \cup new
    BY <1>2, <2>2 DEF Pending
  <2>4. IsFiniteSet(new) /\ Cardinality(new) = Times[x]
    <3>1. IsFiniteSet({p})
      BY FS_Singleton
    <3>. QED
      BY <1>1, <3>1, ProductFacts
  <2>. HIDE DEF new
  <2>5. /\ IsFiniteSet(Pending(x) \cup new)
        /\ Cardinality(Pending(x) \cup new) =
             Cardinality(Pending(x)) + Cardinality(new) - Cardinality(Pending(x) \cap new)
    BY <1>1, <2>4, FS_Union
  <2>6. Cardinality(Pending(x) \cap new) \in Nat /\ Cardinality(Pending(x)) \in Nat
    <3>1. Pending(x) \cap new \subseteq new
      OBVIOUS
    <3>. QED
      BY <1>1, <2>4, <3>1, SizeFacts
  <2>7. /\ Cardinality(Pending(x)') <= Cardinality(Pending(x) \cup new)
        /\ Cardinality(Pending(x)') \in Nat
    BY <2>3, <2>5, SizeFacts
  <2>8. /\ TakenFor(x[1]) * Times[x] \in Nat /\ TakenFor(x[1])' * Times[x] \in Nat
        /\ TakenFor(x[1]) * Times[x] + Times[x] <= TakenFor(x[1])' * Times[x]
    BY <1>1, <2>1, TimesGrow
  <2>. QED
    BY <1>1, <2>4, <2>5, <2>6, <2>7, <2>8
<1>4. CASE \A n \in Nat \ {0} : ~LeftOf(p, x, n)'
  <2>1. Pending(x)' \subseteq Pending(x)
    BY <1>2, <1>4 DEF Pending
  <2>2. /\ Cardinality(Pending(x)') <= Cardinality(Pending(x))
        /\ Cardinality(Pending(x)) \in Nat /\ Cardinality(Pending(x)') \in Nat
    BY <1>1, <2>1, SizeFacts
  <2>3. /\ TakenFor(x[1]) * Times[x] \in Nat /\ TakenFor(x[1])' * Times[x] \in Nat
        /\ TakenFor(x[1]) * Times[x] <= TakenFor(x[1])' * Times[x]
    BY <1>1, TimesGrow
  <2>. QED
    BY <1>1, <2>2, <2>3
<1>. QED
  BY <1>3, <1>4

LEMMA CountedMakeNext ==
  ASSUME TypesInv, PollsCounted, MakeNext
  PROVE  PollsCounted'
<1>1. UNCHANGED <<device_configurations, rereads, polls>>
  BY DEF MakeNext
<1>2. CASE UNCHANGED <<made, passes>>
  BY <1>1, <1>2, CountedSame
<1>3. CASE /\ made # Len(device_configurations) /\ made' = made + 1
           /\ Run(Main, device_configurations[made + 1], TRUE)
  <2>. DEFINE c == device_configurations[made + 1]
  <2>1. made \in Nat /\ made + 1 \in 1..Len(device_configurations)
    BY <1>3 DEF TypesInv, MainTypes
  <2>2. /\ passes'[Main].device = c.device /\ passes'[Main] \in Pass
        /\ \A r \in Runners : r # Main => passes'[r] = passes[r]
    BY <1>3, <2>1, RunTypes DEF Runners
  <2>3. \A d : IsFiniteSet(Made(d)) /\ made + 1 \notin Made(d)
    <3>1. made + 1 \notin 1..made
      BY <2>1
    <3>. QED
      BY <3>1, CountedSets DEF Made
  <2>4. \A d : Made(d)' = IF c.device = d THEN Made(d) \cup {made + 1} ELSE Made(d)
    <3>1. 1..made' = 1..made \cup {made + 1}
      BY <1>3, <2>1
    <3>. QED
      BY <1>1, <3>1 DEF Made
  <2>. HIDE DEF c
  <2>5. \A d \in Devices : Again(d)' = Again(d) /\ Again(d) \in Nat
    <3>1. Cardinality(Handlers) \in Nat
      BY DiscoveryAssumption, FS_CardinalityType
    <3>. QED
      BY <1>1, <3>1 DEF Again, TypesInv, TaskTypes
  <2>6. \A d : /\ IsFiniteSet(Made(d)') /\ Cardinality(Made(d)) \in Nat
               /\ Cardinality(Made(d)') = IF c.device = d THEN Cardinality(Made(d)) + 1
                                                          ELSE Cardinality(Made(d))
    BY <2>3, <2>4, SizeFacts
  <2>7. \A d \in Devices : /\ TakenFor(d) \in Nat /\ TakenFor(d)' \in Nat
                           /\ TakenFor(d) <= TakenFor(d)'
                           /\ c.device = d => TakenFor(d) < TakenFor(d)'
    BY <2>5, <2>6 DEF TakenFor
  <2>8. ASSUME NEW x \in Places, NEW n \in Nat \ {0}, LeftOf(Main, x, n)'
        PROVE  TakenFor(x[1]) < TakenFor(x[1])'
    <3>1. c.device = x[1] /\ x[1] \in Devices
      BY <2>2, <2>8 DEF LeftOf, Places
    <3>. QED
      BY <2>7, <3>1
  <2>9. Main \in Runners
    BY DEF Runners
  <2>. QED
    BY <1>1, <2>2, <2>7, <2>8, <2>9, CountedRun
<1>. QED
  BY <1>2, <1>3 DEF MakeNext

LEMMA CountedIAm ==
  ASSUME TypesInv, PollsCounted, NEW p \in Handlers, NEW d \in Devices, IAm(p, d)
  PROVE  PollsCounted'
<1>1. UNCHANGED <<device_configurations, made, polls>>
  BY DEF IAm, mainVars
<1>2. PICK i \in 1..Len(device_configurations) :
        device_configurations[i].device = d /\ Run(p, device_configurations[i], FALSE)
  BY DEF IAm
<1>. DEFINE c == device_configurations[i]
            w == Passes(c.lists, c.device, FALSE)
<1>3. p \in Runners
  BY DEF Runners
<1>4. /\ c \in GoodConfig /\ passes'[p].device = d /\ passes'[p].left = w /\ passes'[p] \in Pass
      /\ \A r \in Runners : r # p => passes'[r] = passes[r]
  BY <1>2, <1>3, RunTypes
<1>5. ~ConfigOf[d].reread_on_iam => \A k \in 1..Len(w) : w[k].kind = "cov"
  BY <1>2, <1>4, PassesFacts
<1>6. \A e \in Devices : rereads[e] \in Nat /\ rereads'[e] = IF e = d THEN rereads[e] + 1 ELSE rereads[e]
  <2>1. Cardinality(Handlers) \in Nat
    BY DiscoveryAssumption, FS_CardinalityType
  <2>. QED
    BY <2>1 DEF IAm, TypesInv, TaskTypes
<1>7. \A e : Made(e)' = Made(e) /\ IsFiniteSet(Made(e)) /\ Cardinality(Made(e)) \in Nat
  <2>1. \A e : Made(e)' = Made(e)
    BY <1>1 DEF Made
  <2>. QED
    BY <2>1, CountedSets, SizeFacts
<1>8. \A e \in Devices : /\ Again(e) \in Nat /\ Again(e)' \in Nat /\ Again(e) <= Again(e)'
                         /\ e = d /\ ConfigOf[d].reread_on_iam => Again(e)' > Again(e)
  BY <1>6 DEF Again
<1>9. \A e \in Devices : /\ TakenFor(e) \in Nat /\ TakenFor(e)' \in Nat /\ TakenFor(e) <= TakenFor(e)'
                         /\ e = d /\ ConfigOf[d].reread_on_iam => TakenFor(e) < TakenFor(e)'
  BY <1>7, <1>8 DEF TakenFor
<1>10. ASSUME NEW x \in Places, NEW n \in Nat \ {0}, LeftOf(p, x, n)'
       PROVE  TakenFor(x[1]) < TakenFor(x[1])'
  <2>1. passes'[p].device = x[1]
    BY <1>10 DEF LeftOf
  <2>2. \E k \in 1..Len(w) : w[k].kind = "poll"
    BY <1>4, <1>10 DEF LeftOf
  <2>. HIDE DEF w
  <2>3. x[1] = d /\ ConfigOf[d].reread_on_iam
    BY <1>4, <1>5, <2>1, <2>2
  <2>. QED
    BY <1>9, <2>3
<1>. HIDE DEF c, w
<1>. QED
  BY <1>1, <1>3, <1>4, <1>9, <1>10, CountedRun

\* A task is made: what a runner still has to make is one less, or what it made was
\* no poll task.
LEMMA CountedCreate ==
  ASSUME TypesInv, PollsCounted, NEW p \in Runners, CreateTask(p)
  PROVE  PollsCounted'
<1>1. UNCHANGED <<device_configurations, made, rereads>>
  BY DEF CreateTask, mainVars
<1>2. PICK k \in 1..Len(passes[p].left) : \E item \in Items(passes[p].left[k].items) : Makes(p, k, item)
  BY CreateFacts DEF TypesInv
<1>3. PICK item \in Items(passes[p].left[k].items) : Makes(p, k, item)
  BY <1>2
<1>. DEFINE y == <<passes[p].device, item>>
<1>4. /\ passes[p] # None /\ passes[p] \in Pass /\ passes'[p] \in Pass
      /\ passes'[p].device = passes[p].device
      /\ OneLess(passes[p].left, k, item, passes'[p].left)
      /\ \A r \in Runners : r # p => passes'[r] = passes[r]
  BY <1>3 DEF Makes, CreateTask
<1>5. /\ \A j \in 1..Len(passes[p].left) :
           passes[p].left[j] \in GoodPhase /\ passes[p].left[j].items \in [Item -> Nat]
      /\ \A j \in 1..Len(passes'[p].left) : passes'[p].left[j].items \in [Item -> Nat]
      /\ PollsApart(passes[p].left)
      /\ item \in Item /\ passes[p].left[k].items[item] > 0
  <2>1. ASSUME NEW pass \in Pass, NEW j \in 1..Len(pass.left)
        PROVE  pass.left[j] \in GoodPhase /\ pass.left[j].items \in [Item -> Nat]
    <3>1. pass.left[j] \in GoodPhase
      BY DEF Pass
    <3>. QED
      BY <3>1 DEF GoodPhase, Phase
  <2>2. PollsApart(passes[p].left)
    BY <1>4 DEF Pass
  <2>. QED
    BY <1>4, <2>1, <2>2 DEF Items
<1>6. \A x \in Places : Pending(x)' \subseteq Pending(x)
  <2>1. ASSUME NEW x \in Places, NEW r \in Runners, NEW n \in Nat \ {0}, LeftOf(r, x, n)'
        PROVE  LeftOf(r, x, n)
    <3>1. CASE r = p
      <4>0. x[2] \in Item
        BY DEF Places, Item
      <4>1. PICK j \in 1..Len(passes'[p].left) :
              passes'[p].left[j].kind = "poll" /\ n <= passes'[p].left[j].items[x[2]]
        BY <2>1, <3>1 DEF LeftOf
      <4>2. /\ j \in 1..Len(passes[p].left) /\ passes[p].left[j].kind = "poll"
            /\ \/ passes'[p].left[j].items[x[2]] = passes[p].left[j].items[x[2]]
               \/ passes'[p].left[j].items[x[2]] = passes[p].left[j].items[x[2]] - 1
        BY <1>4, <4>0, <4>1 DEF OneLess
      <4>5. passes[p].left[j].items[x[2]] \in Nat
        BY <1>5, <4>0, <4>2
      <4>6. n \in Nat
        OBVIOUS
      <4>3. n <= passes[p].left[j].items[x[2]]
        <5>1. CASE passes'[p].left[j].items[x[2]] = passes[p].left[j].items[x[2]]
          BY <4>1, <5>1
        <5>2. CASE passes'[p].left[j].items[x[2]] = passes[p].left[j].items[x[2]] - 1
          <6>1. n <= passes[p].left[j].items[x[2]] - 1
            BY <4>1, <5>2
          <6>. QED
            BY <4>5, <4>6, <6>1
        <5>. QED
          BY <4>2, <5>1, <5>2
      <4>4. passes[p].device = x[1]
        BY <1>4, <2>1, <3>1 DEF LeftOf
      <4>. QED
        BY <1>4, <3>1, <4>2, <4>3, <4>4 DEF LeftOf
    <3>2. CASE r # p
      BY <1>4, <2>1, <3>2 DEF LeftOf
    <3>. QED
      BY <3>1, <3>2
  <2>. QED
    BY <2>1 DEF Pending
<1>7. SUFFICES ASSUME NEW x \in Places
               PROVE  polls'[x] + Cardinality(Pending(x)') <= TakenFor(x[1]) * Times[x]
  <2>1. \A d : TakenFor(d)' = TakenFor(d)
    BY <1>1 DEF Made, Again, TakenFor
  <2>. QED
    BY <2>1 DEF PollsCounted
<1>8. /\ IsFiniteSet(Pending(x)) /\ polls[x] \in Nat /\ TakenFor(x[1]) * Times[x] \in Nat
      /\ polls[x] + Cardinality(Pending(x)) <= TakenFor(x[1]) * Times[x]
  <2>1. TakenFor(x[1]) \in Nat
    <3>1. Cardinality(Handlers) \in Nat
      BY DiscoveryAssumption, FS_CardinalityType
    <3>2. Again(x[1]) \in Nat
      BY <3>1 DEF Again, TypesInv, TaskTypes, Places
    <3>3. Cardinality(Made(x[1])) \in Nat
      BY CountedSets, SizeFacts
    <3>. QED
      BY <3>2, <3>3 DEF TakenFor
  <2>2. Times[x] \in Nat
    BY CountedSets
  <2>3. TakenFor(x[1]) * Times[x] \in Nat
    BY <2>1, <2>2, TimesGrow
  <2>. QED
    BY <2>3, CountedSets DEF PollsCounted, TypesInv, TaskTypes
<1>9. /\ Cardinality(Pending(x)) \in Nat /\ Cardinality(Pending(x)') \in Nat
      /\ Cardinality(Pending(x)') <= Cardinality(Pending(x))
  BY <1>6, <1>8, SizeFacts
<1>10. CASE polls'[x] = polls[x]
  BY <1>8, <1>9, <1>10
<1>11. CASE polls'[x] # polls[x]
  <2>1. passes[p].left[k].kind # "cov" /\ x = y /\ polls'[x] = polls[x] + 1
    <3>1. passes[p].left[k].kind = "cov" => polls' = polls
      BY <1>3 DEF Makes
    <3>2. passes[p].left[k].kind # "cov" =>
            polls' = IF y \in present THEN [polls EXCEPT ![y] = @ + 1] ELSE polls
      BY <1>3 DEF Makes
    <3>. HIDE DEF y
    <3>. QED
      BY <1>11, <3>1, <3>2 DEF TypesInv, TaskTypes
  <2>2. passes[p].left[k].kind = "poll"
    BY <1>5, <2>1 DEF GoodPhase, Phase
  <2>0. PICK n : n = passes[p].left[k].items[item]
    OBVIOUS
  <2>. DEFINE last == <<p, n>>
  <2>3. n \in Nat \ {0} /\ x[2] = item /\ x[1] = passes[p].device
    BY <1>5, <2>0, <2>1
  <2>4. last \in Pending(x)
    <3>1. LeftOf(p, x, n)
      BY <1>4, <2>0, <2>2, <2>3 DEF LeftOf
    <3>. QED
      BY <2>3, <3>1 DEF Pending
  <2>5. ~LeftOf(p, x, n)'
    <3>1. SUFFICES ASSUME NEW j \in 1..Len(passes'[p].left), passes'[p].left[j].kind = "poll",
                          n <= passes'[p].left[j].items[item]
                   PROVE  FALSE
      BY <2>3 DEF LeftOf
    <3>2. j \in 1..Len(passes[p].left) /\ passes[p].left[j].kind = "poll"
      BY <1>4, <3>1 DEF OneLess
    <3>3. CASE j = k
      <4>1. passes'[p].left[j].items[item] = n - 1
        BY <1>4, <1>5, <2>0, <3>2, <3>3 DEF OneLess
      <4>. QED
        BY <2>3, <3>1, <4>1
    <3>4. CASE j # k
      <4>1. passes'[p].left[j].items[item] = passes[p].left[j].items[item]
        BY <1>4, <1>5, <3>2, <3>4 DEF OneLess
      <4>2. passes[p].left[j].items[item] = 0
        BY <1>5, <2>2, <3>2, <3>4 DEF PollsApart
      <4>. QED
        BY <2>3, <3>1, <4>1, <4>2
    <3>. QED
      BY <3>3, <3>4
  <2>6. last \notin Pending(x)'
    BY <2>5 DEF Pending
  <2>. HIDE DEF last
  <2>7. Cardinality(Pending(x)') <= Cardinality(Pending(x)) - 1
    <3>1. Pending(x)' \subseteq Pending(x) \ {last} /\ Pending(x) \ {last} \subseteq Pending(x)
      BY <1>6, <2>6
    <3>2. IsFiniteSet(Pending(x) \ {last})
      BY <1>8, <3>1, SizeFacts
    <3>3. Cardinality(Pending(x) \ {last}) = Cardinality(Pending(x)) - 1
      BY <1>8, <2>4, SizeFacts
    <3>4. Cardinality(Pending(x)') <= Cardinality(Pending(x) \ {last})
      BY <3>1, <3>2, SizeFacts
    <3>. QED
      BY <3>3, <3>4
  <2>. QED
    BY <1>8, <1>9, <2>1, <2>7
<1>. QED
  BY <1>10, <1>11

LEMMA CountedStep ==
  ASSUME TypesInv, PollsCounted, [DiscoveryNext]_discoveryVars
  PROVE  PollsCounted'
<1>1. CASE Gather \/ Completes
  BY <1>1, CountedSame DEF Gather, Completes, handlingVars, taskVars
<1>2. CASE ReadStep
  BY <1>2, CountedSame DEF ReadStep, mainVars, taskVars
<1>3. ASSUME NEW a \in Answers, Configure(a) PROVE PollsCounted'
  <2>. DEFINE config == [device |-> from[a],
                         lists |-> Generated(ConfigOf[from[a]], from[a], objectList[from[a]] \ Ignored)]
  <2>1. /\ device_configurations' = Append(device_configurations, config)
        /\ UNCHANGED <<made, passes, rereads, polls>>
    BY <1>3 DEF Configure, AddConfiguration, taskVars
  <2>. HIDE DEF config
  <2>2. \A i \in 1..made : device_configurations'[i] = device_configurations[i]
    BY <2>1 DEF TypesInv, MainTypes
  <2>. QED
    BY <2>1, <2>2, CountedSame
<1>4. ASSUME NEW a \in Answers, \/ ReadDevice(a) \/ ListObject(a) \/ ReadObjects(a)
                               \/ DeviceRead(a) \/ HandleFails(a)
      PROVE  PollsCounted'
  BY <1>4, CountedSame DEF ReadDevice, ListObject, ReadObjects, DeviceRead, HandleFails, mainVars, taskVars
<1>5. ASSUME NEW p \in Runners, PassEnds(p) PROVE PollsCounted'
  <2>1. /\ passes' = [passes EXCEPT ![p] = None]
        /\ UNCHANGED <<device_configurations, made, rereads, polls>>
        /\ passes[p] # None /\ Through(p, Len(passes[p].left))
    BY <1>5 DEF PassEnds, mainVars
  <2>2. ASSUME NEW x \in Places PROVE Pending(x)' = Pending(x)
    <3>1. \A n \in Nat \ {0} : ~LeftOf(p, x, n)'
      BY <2>1 DEF LeftOf, TypesInv, TaskTypes
    <3>2. ASSUME NEW n \in Nat \ {0}, LeftOf(p, x, n) PROVE FALSE
      <4>1. PICK k \in 1..Len(passes[p].left) :
              passes[p].left[k].kind = "poll" /\ n <= passes[p].left[k].items[x[2]]
        BY <3>2 DEF LeftOf
      <4>2. passes[p] \in Pass /\ x[2] \in Item
        BY <2>1 DEF TypesInv, TaskTypes, Places, Item
      <4>3. passes[p].left[k].items \in [Item -> Nat]
        <5>1. passes[p].left[k] \in GoodPhase
          BY <4>2 DEF Pass
        <5>. QED
          BY <5>1 DEF GoodPhase, Phase
      <4>4. x[2] \notin Items(passes[p].left[k].items)
        BY <2>1 DEF Through
      <4>. QED
        BY <4>1, <4>2, <4>3, <4>4 DEF Items
    <3>3. \A r \in Runners : r # p => passes'[r] = passes[r]
      BY <2>1 DEF TypesInv, TaskTypes
    <3>4. \A r \in Runners, n \in Nat \ {0} : LeftOf(r, x, n)' <=> LeftOf(r, x, n)
      BY <3>1, <3>2, <3>3 DEF LeftOf
    <3>. QED
      BY <3>4 DEF Pending
  <2>3. \A d : TakenFor(d)' = TakenFor(d)
    BY <2>1 DEF Made, Again, TakenFor
  <2>. QED
    BY <2>1, <2>2, <2>3 DEF PollsCounted
<1>6. ASSUME NEW p \in Runners, ConfigToTasks(p) PROVE PollsCounted'
  BY <1>5, <1>6, CountedCreate DEF ConfigToTasks
<1>7. CASE UNCHANGED discoveryVars
  BY <1>7, CountedSame DEF discoveryVars, mainVars, taskVars
<1>. QED
  BY <1>1, <1>2, <1>3, <1>4, <1>6, <1>7, CountedMakeNext, CountedIAm
  DEF DiscoveryNext, Discover, Handle

\* NoExtraPolls: whatever lists of the options an object is in, and however often, it
\* gets no more poll tasks than one of the poll lists writes it, for each answer of
\* its device, and for each I-Am only if the device is to be read again.
THEOREM NoExtraPollsCorrect == DiscoverySpec => []NoExtraPolls
<1>. DEFINE Inv == TypesInv /\ NotYet /\ OneForEach /\ PollsCounted
<1>1. DiscoveryInit => Inv
  <2>. SUFFICES ASSUME DiscoveryInit PROVE Inv
    OBVIOUS
  <2>1. TypesInv
    BY TypesInvInit
  <2>2. NotYet
    BY DEF DiscoveryInit, NotYet
  <2>3. Cardinality({}) = 0
    BY FS_EmptySet
  <2>4. OneForEach
    <3>1. \A d : Configurations(d) = {} /\ Configurers(d) = {}
      <4>1. 1..Len(device_configurations) = {} /\ \A a \in Answers : handling[a] # "configured"
        BY DEF DiscoveryInit
      <4>. QED
        BY <4>1 DEF Configurations, Configurers
    <3>. QED
      BY <2>3, <3>1 DEF OneForEach
  <2>5. PollsCounted
    <3>1. \A x : Pending(x) = {}
      BY DEF DiscoveryInit, Pending, LeftOf
    <3>2. \A d : Made(d) = {}
      <4>1. 1..made = {}
        BY DEF DiscoveryInit
      <4>. QED
        BY <4>1 DEF Made
    <3>3. \A x \in Places : polls[x] = 0 /\ Again(x[1]) = 0
      BY DEF DiscoveryInit, Again, Places
    <3>4. \A x \in Places : TakenFor(x[1]) * Times[x] \in Nat
      <4>1. ASSUME NEW x \in Places PROVE TakenFor(x[1]) \in Nat
        <5>1. Cardinality(Made(x[1])) = 0 /\ Again(x[1]) = 0
          BY <2>3, <3>2, <3>3
        <5>. QED
          BY <5>1 DEF TakenFor
      <4>2. \A x \in Places : Times[x] \in Nat
        BY <2>1, CountedSets
      <4>. QED
        BY <4>1, <4>2, TimesGrow
    <3>5. \A x \in Places : polls[x] + Cardinality(Pending(x)) = 0
      BY <2>3, <3>1, <3>3
    <3>. QED
      BY <3>4, <3>5 DEF PollsCounted
  <2>. QED
    BY <2>1, <2>2, <2>4, <2>5
<1>2. Inv /\ [DiscoveryNext]_discoveryVars => Inv'
  BY TypesStep, NotYetStep, OneForEachStep, CountedStep
<1>3. Inv => NoExtraPolls
  <2>. SUFFICES ASSUME Inv, NEW x \in Places
                PROVE  polls[x] <= (Cardinality({a \in Answers : from[a] = x[1]}) + Again(x[1])) * Times[x]
    BY DEF NoExtraPolls, Again
  <2>. DEFINE all == Cardinality({a \in Answers : from[a] = x[1]}) + Again(x[1])
  <2>1. x[1] \in Devices
    BY DEF Places
  <2>2. polls[x] + Cardinality(Pending(x)) <= TakenFor(x[1]) * Times[x]
    BY DEF PollsCounted
  <2>3. Cardinality(Configurations(x[1])) <= Cardinality(Configurers(x[1]))
    BY <2>1 DEF OneForEach
  <2>4. Cardinality(Made(x[1])) <= Cardinality(Configurations(x[1]))
    BY CountedSets, SizeFacts
  <2>5. Cardinality(Configurers(x[1])) <= Cardinality({a \in Answers : from[a] = x[1]})
    BY CountedSets, SizeFacts
  <2>6. /\ polls[x] \in Nat /\ Cardinality(Pending(x)) \in Nat /\ Times[x] \in Nat
        /\ Cardinality(Made(x[1])) \in Nat /\ Cardinality(Configurations(x[1])) \in Nat
        /\ Cardinality(Configurers(x[1])) \in Nat
        /\ Cardinality({a \in Answers : from[a] = x[1]}) \in Nat
    BY CountedSets, SizeFacts DEF TypesInv, TaskTypes
  <2>7. Again(x[1]) \in Nat
    <3>1. Cardinality(Handlers) \in Nat
      BY DiscoveryAssumption, FS_CardinalityType
    <3>. QED
      BY <2>1, <3>1 DEF Again, TypesInv, TaskTypes
  <2>8. TakenFor(x[1]) \in Nat /\ all \in Nat /\ TakenFor(x[1]) <= all
    BY <2>3, <2>4, <2>5, <2>6, <2>7 DEF TakenFor
  <2>. HIDE DEF all
  <2>9. /\ TakenFor(x[1]) * Times[x] <= all * Times[x]
        /\ TakenFor(x[1]) * Times[x] \in Nat /\ all * Times[x] \in Nat
    BY <2>6, <2>8, TimesGrow
  <2>10. polls[x] <= all * Times[x]
    BY <2>2, <2>6, <2>9
  <2>. QED
    BY <2>10 DEF all
<1>. HIDE DEF Inv
<1>. QED
  BY <1>1, <1>2, <1>3, PTL DEF DiscoverySpec

----------------------------------------------------------------------------
(* EverythingAskedIsServed.                                                 *)

\* What discover_devices itself has still to do for an object.
Waits(d, o, kind) ==
  /\ passes[Main] # None /\ passes[Main].device = d
  /\ \E k \in 1..Len(passes[Main].left) :
       passes[Main].left[k].kind = kind /\ passes[Main].left[k].items[o] > 0

Newest(a, c) ==
  /\ c.device = from[a]
  /\ c.lists = Generated(ConfigOf[from[a]], from[a], objectList[from[a]] \ Ignored)

\* The configuration of a device is made from the newest object list, or another
\* handle_device of the device is still to make one.
UpToDate ==
  \A a \in Answers : handling[a] = "configured" =>
    \/ \E c \in ToSet(device_configurations) : Newest(a, c)
    \/ \E b \in Answers : from[b] = from[a] /\ handling[b] \in {"objects", "failed"}

ToBePolled(lists, d, o) == ToPollQuickly(lists, d)[o] > 0 \/ ToPollSlowly(lists, d)[o] > 0
Served(c) ==
  /\ \A o \in Item : ToSubscribe(c.lists, c.device)[o] > 0 =>
       <<c.device, o>> \in subscribed \/ Waits(c.device, o, "cov")
  /\ \A o \in Item : ToBePolled(c.lists, c.device, o) /\ <<c.device, o>> \in present =>
       polls[<<c.device, o>>] > 0 \/ Waits(c.device, o, "poll")

TakenUp == {device_configurations[i] : i \in 1..made}
ServedInv ==
  /\ made > 0 \/ discover \in {"generating", "done"} => complete
  /\ discover = "done" => made = Len(device_configurations) /\ passes[Main] = None
  /\ \A c \in TakenUp : Served(c)

LEMMA UpToDateStep ==
  ASSUME TypesInv, NotYet, UpToDate, [DiscoveryNext]_discoveryVars
  PROVE  UpToDate'
<1>1. CASE UNCHANGED <<device_configurations, handling, from, objectList>>
  BY <1>1 DEF UpToDate, Newest
<1>2. CASE Gather
  <2>1. \A a \in Answers : handling'[a] # "configured"
    BY <1>2 DEF Gather
  <2>. QED
    BY <2>1 DEF UpToDate
<1>3. ASSUME NEW b \in Answers, DeviceRead(b) PROVE UpToDate'
  <2>1. /\ handling[b] = "device" /\ handling' = [handling EXCEPT ![b] = "objects"]
        /\ UNCHANGED <<device_configurations, from>>
    BY <1>3 DEF DeviceRead, mainVars
  <2>2. \A d \in Devices : d # from[b] => objectList'[d] = objectList[d]
    <3>1. PICK list : objectList' = [objectList EXCEPT ![from[b]] = list]
      BY <1>3 DEF DeviceRead
    <3>. QED
      BY <3>1 DEF TypesInv, HandlingTypes
  <2>3. \A a \in Answers : /\ from[a] \in Devices
                           /\ handling'[a] = IF a = b THEN "objects" ELSE handling[a]
    BY <2>1, DiscoveryAssumption DEF TypesInv, HandlingTypes
  <2>4. SUFFICES ASSUME NEW a \in Answers, handling'[a] = "configured"
                 PROVE  \/ \E k \in ToSet(device_configurations') : Newest(a, k)'
                        \/ \E c \in Answers : from[c] = from[a] /\ handling'[c] \in {"objects", "failed"}
    BY <2>1 DEF UpToDate
  <2>5. CASE from[a] = from[b]
    BY <2>3, <2>5
  <2>6. CASE from[a] # from[b]
    <3>1. objectList'[from[a]] = objectList[from[a]] /\ handling[a] = "configured"
      BY <2>2, <2>3, <2>4, <2>6
    <3>2. CASE \E c \in Answers : from[c] = from[a] /\ handling[c] \in {"objects", "failed"}
      BY <2>3, <3>2
    <3>3. CASE \E k \in ToSet(device_configurations) : Newest(a, k)
      BY <2>1, <3>1, <3>3 DEF Newest
    <3>. QED
      BY <3>1, <3>2, <3>3 DEF UpToDate
  <2>. QED
    BY <2>5, <2>6
<1>4. ASSUME NEW b \in Answers, HandleFails(b) PROVE UpToDate'
  <2>1. /\ handling[b] # "configured" /\ handling' = [handling EXCEPT ![b] = "failed"]
        /\ UNCHANGED <<device_configurations, from, objectList>>
    BY <1>4 DEF HandleFails
  <2>2. \A a \in Answers : handling'[a] = IF a = b THEN "failed" ELSE handling[a]
    BY <2>1 DEF TypesInv, HandlingTypes
  <2>. QED
    BY <2>1, <2>2 DEF UpToDate, Newest
<1>5. ASSUME NEW b \in Answers, Configure(b) PROVE UpToDate'
  <2>0. PICK config :
          config = [device |-> from[b],
                    lists |-> Generated(ConfigOf[from[b]], from[b], objectList[from[b]] \ Ignored)]
    OBVIOUS
  <2>1. /\ device_configurations' = Append(device_configurations, config)
        /\ handling' = [handling EXCEPT ![b] = "configured"]
        /\ UNCHANGED <<from, objectList>>
    BY <1>5, <2>0 DEF Configure, AddConfiguration
  <2>2. \A a \in Answers : from[a] = from[b] => Newest(a, config)'
    BY <2>0, <2>1 DEF Newest
  <2>3. ToSet(device_configurations') = ToSet(device_configurations) \cup {config}
    <3>1. from[b] \in Devices /\ objectList[from[b]] \ Ignored \in SUBSET Objects
      BY <1>5, DiscoveryAssumption DEF Configure, TypesInv, HandlingTypes
    <3>2. config \in GoodConfig
      BY <1>5, <2>0, <3>1, GeneratedIsGood DEF Configure
    <3>. DEFINE n == Len(device_configurations)
    <3>3. /\ n \in Nat /\ Len(device_configurations') = n + 1
          /\ device_configurations'[n + 1] = config
          /\ \A i \in 1..n : device_configurations'[i] = device_configurations[i]
      BY <2>1, <3>2 DEF TypesInv, MainTypes
    <3>4. 1..(n + 1) = 1..n \cup {n + 1}
      BY <3>3
    <3>. HIDE DEF n
    <3>. QED
      BY <3>3, <3>4 DEF ToSet, n
  <2>4. \A a \in Answers : handling'[a] = IF a = b THEN "configured" ELSE handling[a]
    BY <2>1 DEF TypesInv, HandlingTypes
  <2>5. SUFFICES ASSUME NEW a \in Answers, handling'[a] = "configured"
                 PROVE  \/ \E k \in ToSet(device_configurations') : Newest(a, k)'
                        \/ \E c \in Answers : from[c] = from[a] /\ handling'[c] \in {"objects", "failed"}
    BY <2>1 DEF UpToDate
  <2>6. CASE from[a] = from[b]
    BY <2>2, <2>3, <2>6
  <2>7. CASE from[a] # from[b]
    <3>1. handling[a] = "configured"
      BY <2>4, <2>5, <2>7
    <3>2. CASE \E c \in Answers : from[c] = from[a] /\ handling[c] \in {"objects", "failed"}
      BY <2>4, <2>7, <3>2
    <3>3. CASE \E k \in ToSet(device_configurations) : Newest(a, k)
      BY <2>1, <2>3, <3>3 DEF Newest
    <3>. QED
      BY <3>1, <3>2, <3>3 DEF UpToDate
  <2>. QED
    BY <2>6, <2>7
<1>6. ASSUME NEW a \in Answers, ReadDevice(a) \/ ListObject(a) \/ ReadObjects(a) PROVE UpToDate'
  BY <1>1, <1>6 DEF ReadDevice, ListObject, ReadObjects, handlingVars, mainVars
<1>7. CASE Completes \/ MakeNext
  BY <1>1, <1>7 DEF Completes, MakeNext, handlingVars
<1>8. CASE ReadStep
  BY <1>1, <1>8 DEF ReadStep, handlingVars, mainVars
<1>9. ASSUME NEW p, ConfigToTasks(p) PROVE UpToDate'
  BY <1>1, <1>9 DEF ConfigToTasks, CreateTask, PassEnds, handlingVars, mainVars
<1>10. ASSUME NEW p, NEW d, IAm(p, d) PROVE UpToDate'
  BY <1>1, <1>10 DEF IAm, handlingVars, mainVars
<1>11. CASE UNCHANGED discoveryVars
  BY <1>1, <1>11 DEF discoveryVars, handlingVars, mainVars
<1>. QED
  BY <1>2, <1>3, <1>4, <1>5, <1>6, <1>7, <1>8, <1>9, <1>10, <1>11 DEF DiscoveryNext, Discover, Handle

\* Tasks only come to be, and what discover_devices still has to do it keeps.
LEMMA ServedSame ==
  ASSUME TypesInv, ServedInv, UNCHANGED <<device_configurations, complete, made, discover, present>>,
         subscribed \subseteq subscribed', polls' \in [Places -> Nat], \A x \in Places : polls'[x] >= polls[x],
         passes'[Main] = passes[Main]
  PROVE  ServedInv'
<1>1. \A d, o, kind : Waits(d, o, kind)' <=> Waits(d, o, kind)
  BY DEF Waits
<1>2. ASSUME NEW x \in present PROVE polls[x] > 0 => polls'[x] > 0
  BY DEF TypesInv, TaskTypes, HandlingTypes
<1>3. ASSUME NEW c, Served(c) PROVE Served(c)'
  BY <1>1, <1>2, <1>3 DEF Served
<1>4. TakenUp' = TakenUp
  BY DEF TakenUp
<1>. QED
  BY <1>3, <1>4 DEF ServedInv

\* Before discovery is complete nothing has been taken up.
LEMMA ServedBefore ==
  ASSUME ServedInv, ~complete, made' = made, made \in Nat,
         discover' = discover \/ discover' \notin {"generating", "done"}
  PROVE  ServedInv'
<1>1. made = 0 /\ discover \notin {"generating", "done"}
  BY DEF ServedInv
<1>2. 1..made' = {}
  BY <1>1
<1>3. TakenUp' = {}
  BY <1>2 DEF TakenUp
<1>. QED
  BY <1>1, <1>3 DEF ServedInv

\* What a runner has left is not nothing.
LEMMA NoneIsNoPass == None \notin Pass
<1>1. GoodPhase \subseteq Phase
  BY DEF GoodPhase
<1>2. Pass \subseteq [device : Devices, left : Seq(Phase)]
  BY <1>1 DEF Pass
<1>. QED
  BY <1>2, DiscoveryAssumption

LEMMA ServedMakeNext ==
  ASSUME TypesInv, ServedInv, MakeNext
  PROVE  ServedInv'
<1>1. /\ UNCHANGED <<present, device_configurations, complete, subscribed, polls>>
      /\ discover = "generating" /\ passes[Main] = None /\ complete
  BY DEF MakeNext, handlingVars, ServedInv
<1>2. \A d, o, kind : ~Waits(d, o, kind)
  BY <1>1 DEF Waits
<1>3. \A c : Served(c) => Served(c)'
  BY <1>1, <1>2 DEF Served
<1>4. CASE made = Len(device_configurations) /\ UNCHANGED <<made, passes>>
  <2>1. TakenUp' = TakenUp
    BY <1>1, <1>4 DEF TakenUp
  <2>. QED
    BY <1>1, <1>3, <1>4, <2>1 DEF ServedInv
<1>5. CASE /\ made # Len(device_configurations) /\ made' = made + 1
           /\ Run(Main, device_configurations[made + 1], TRUE) /\ UNCHANGED discover
  <2>0. PICK c : c = device_configurations[made + 1]
    OBVIOUS
  <2>. DEFINE w == passes'[Main].left
  <2>1. made \in Nat /\ made + 1 \in 1..Len(device_configurations)
    BY <1>5 DEF TypesInv, MainTypes
  <2>2. /\ c \in GoodConfig /\ passes'[Main] \in Pass /\ passes'[Main].device = c.device
        /\ w = Passes(c.lists, c.device, TRUE)
    BY <1>5, <2>0, <2>1, RunTypes DEF Runners
  <2>3. w = <<CovPhase(c), QuickPhase(c), SlowPhase(c)>>
    BY <2>2, PassesFacts
  <2>4. passes'[Main] # None
    BY <2>2, NoneIsNoPass
  <2>. HIDE DEF w
  <2>5. 1 \in 1..Len(w) /\ 2 \in 1..Len(w) /\ 3 \in 1..Len(w)
    BY <2>3
  <2>6. w[1] = CovPhase(c) /\ w[2] = QuickPhase(c) /\ w[3] = SlowPhase(c)
    BY <2>3
  <2>7. ASSUME NEW o \in Item, ToSubscribe(c.lists, c.device)[o] > 0
        PROVE  Waits(c.device, o, "cov")'
    <3>1. w[1].kind = "cov" /\ w[1].items[o] > 0
      BY <2>6, <2>7 DEF CovPhase
    <3>. QED
      BY <2>2, <2>4, <2>5, <3>1 DEF Waits, w
  <2>8. ASSUME NEW o \in Item, ToBePolled(c.lists, c.device, o)
        PROVE  Waits(c.device, o, "poll")'
    <3>1. \E k \in {2, 3} : w[k].kind = "poll" /\ w[k].items[o] > 0
      BY <2>6, <2>8 DEF QuickPhase, SlowPhase, ToBePolled
    <3>. QED
      BY <2>2, <2>4, <2>5, <3>1 DEF Waits, w
  <2>9. Served(c)'
    BY <2>7, <2>8 DEF Served
  <2>10. TakenUp' = TakenUp \cup {c}
    <3>1. 1..made' = 1..made \cup {made + 1}
      BY <1>5, <2>1
    <3>. QED
      BY <1>1, <2>0, <3>1 DEF TakenUp
  <2>11. \A k \in TakenUp' : Served(k)'
    BY <1>3, <2>9, <2>10 DEF ServedInv
  <2>. QED
    BY <1>1, <1>5, <2>11 DEF ServedInv
<1>. QED
  BY <1>4, <1>5 DEF MakeNext

\* An item goes from what discover_devices has still to do only when its task is made,
\* or the object is not there.
LEMMA ServedCreate ==
  ASSUME TypesInv, ServedInv, NEW p \in Runners, CreateTask(p)
  PROVE  ServedInv'
<1>1. PICK k \in 1..Len(passes[p].left) : \E item \in Items(passes[p].left[k].items) : Makes(p, k, item)
  BY CreateFacts DEF TypesInv
<1>2. PICK item \in Items(passes[p].left[k].items) : Makes(p, k, item)
  BY <1>1
<1>3. UNCHANGED <<device_configurations, complete, made, discover, present>>
  BY DEF CreateTask, handlingVars, mainVars
<1>4. PICK x : x = <<passes[p].device, item>>
  OBVIOUS
<1>5. \/ /\ passes[p].left[k].kind = "cov"
         /\ x \in Places /\ subscribed' = subscribed \cup {x} /\ polls' = polls
      \/ /\ passes[p].left[k].kind # "cov" /\ subscribed' = subscribed
         /\ polls' = IF x \in present THEN [polls EXCEPT ![x] = @ + 1] ELSE polls
  BY <1>2, <1>4 DEF Makes
<1>6. /\ subscribed \subseteq subscribed'
      /\ \A y \in Places : polls[y] \in Nat /\ polls'[y] \in Nat /\ polls'[y] >= polls[y]
      /\ polls' \in [Places -> Nat]
      /\ passes[p].left[k].kind # "cov" /\ x \in present => polls'[x] > 0
  <2>. USE DEF TypesInv, TaskTypes, HandlingTypes
  <2>1. polls \in [Places -> Nat] /\ present \subseteq Places
    OBVIOUS
  <2>2. CASE polls' = polls /\ subscribed \subseteq subscribed' /\ passes[p].left[k].kind = "cov"
    BY <2>1, <2>2
  <2>3. CASE x \in present /\ polls' = [polls EXCEPT ![x] = @ + 1] /\ subscribed' = subscribed
    BY <2>1, <2>3
  <2>4. CASE x \notin present /\ polls' = polls /\ subscribed' = subscribed
    BY <2>1, <2>4
  <2>. QED
    BY <1>5, <2>2, <2>3, <2>4
<1>7. CASE p # Main
  <2>1. passes'[Main] = passes[Main]
    BY <1>2, <1>7 DEF Makes, Runners
  <2>. QED
    BY <1>3, <1>6, <2>1, ServedSame
<1>8. CASE p = Main
  <2>1. /\ passes[Main] \in Pass /\ passes'[Main] \in Pass /\ passes'[Main] # None
        /\ passes'[Main].device = passes[Main].device
        /\ OneLess(passes[Main].left, k, item, passes'[Main].left)
    BY <1>2, <1>8, NoneIsNoPass DEF Makes
  <2>2. ASSUME NEW d, NEW o \in Item, NEW kind, Waits(d, o, kind),
               ~(d = passes[Main].device /\ o = item /\ passes[Main].left[k].kind = kind)
        PROVE  Waits(d, o, kind)'
    <3>1. PICK j \in 1..Len(passes[Main].left) :
            passes[Main].left[j].kind = kind /\ passes[Main].left[j].items[o] > 0
      BY <2>2 DEF Waits
    <3>2. passes[Main].device = d
      BY <2>2 DEF Waits
    <3>3. ~(j = k /\ o = item)
      BY <2>2, <3>1, <3>2
    <3>4. /\ j \in 1..Len(passes'[Main].left) /\ passes'[Main].left[j].kind = kind
          /\ passes'[Main].left[j].items[o] > 0
      BY <2>1, <3>1, <3>3 DEF OneLess
    <3>. QED
      BY <2>1, <3>2, <3>4 DEF Waits
  <2>3. ASSUME NEW c, Served(c) PROVE Served(c)'
    <3>1. ASSUME NEW o \in Item, ToSubscribe(c.lists, c.device)[o] > 0
          PROVE  <<c.device, o>> \in subscribed' \/ Waits(c.device, o, "cov")'
      <4>1. CASE <<c.device, o>> \in subscribed
        BY <1>6, <4>1
      <4>2. CASE Waits(c.device, o, "cov")
        <5>1. CASE c.device = passes[Main].device /\ o = item /\ passes[Main].left[k].kind = "cov"
          BY <1>4, <1>5, <1>8, <5>1
        <5>. QED
          BY <2>2, <4>2, <5>1
      <4>. QED
        BY <2>3, <3>1, <4>1, <4>2 DEF Served
    <3>2. ASSUME NEW o \in Item, ToBePolled(c.lists, c.device, o),
                 <<c.device, o>> \in present
          PROVE  polls'[<<c.device, o>>] > 0 \/ Waits(c.device, o, "poll")'
      <4>1. CASE polls[<<c.device, o>>] > 0
        <5>1. PICK y : y = <<c.device, o>>
          OBVIOUS
        <5>2. y \in Places /\ polls[y] > 0
          BY <3>2, <4>1, <5>1 DEF TypesInv, HandlingTypes
        <5>3. polls'[y] > 0
          BY <1>6, <5>2
        <5>. QED
          BY <5>1, <5>3
      <4>2. CASE Waits(c.device, o, "poll")
        <5>1. CASE c.device = passes[Main].device /\ o = item /\ passes[Main].left[k].kind = "poll"
          <6>1. x = <<c.device, o>>
            BY <1>4, <1>8, <5>1
          <6>. QED
            BY <1>6, <1>8, <3>2, <5>1, <6>1
        <5>. QED
          BY <2>2, <4>2, <5>1
      <4>. QED
        BY <2>3, <3>2, <4>1, <4>2 DEF Served
    <3>. QED
      BY <1>3, <3>1, <3>2 DEF Served
  <2>4. TakenUp' = TakenUp
    BY <1>3 DEF TakenUp
  <2>5. discover' # "done"
    BY <1>3, <1>8 DEF CreateTask, ServedInv
  <2>. QED
    BY <1>3, <2>3, <2>4, <2>5 DEF ServedInv
<1>. QED
  BY <1>7, <1>8

\* It ends when nothing is left.
LEMMA ServedPassEnds ==
  ASSUME TypesInv, ServedInv, NEW p \in Runners, PassEnds(p)
  PROVE  ServedInv'
<1>1. /\ passes[p] # None /\ Through(p, Len(passes[p].left)) /\ passes' = [passes EXCEPT ![p] = None]
      /\ UNCHANGED <<device_configurations, complete, made, discover, present, subscribed, polls>>
  BY DEF PassEnds, handlingVars, mainVars
<1>2. \A d, kind : \A o \in Item : Waits(d, o, kind) => Waits(d, o, kind)'
  <2>1. CASE p = Main
    <3>1. ASSUME NEW d, NEW kind, NEW o \in Item, Waits(d, o, kind) PROVE FALSE
      <4>1. PICK k \in 1..Len(passes[Main].left) : passes[Main].left[k].items[o] > 0
        BY <3>1 DEF Waits
      <4>2. passes[Main] \in Pass
        BY <1>1, <2>1 DEF TypesInv, TaskTypes
      <4>3. passes[Main].left[k].items \in [Item -> Nat]
        <5>1. passes[Main].left[k] \in GoodPhase
          BY <4>2 DEF Pass
        <5>. QED
          BY <5>1 DEF GoodPhase, Phase
      <4>4. o \in Items(passes[Main].left[k].items)
        BY <4>1, <4>3 DEF Items
      <4>. QED
        BY <1>1, <2>1, <4>4 DEF Through
    <3>. QED
      BY <3>1
  <2>2. CASE p # Main
    <3>1. passes'[Main] = passes[Main]
      BY <1>1, <2>2 DEF TypesInv, TaskTypes, Runners
    <3>. QED
      BY <3>1 DEF Waits
  <2>. QED
    BY <2>1, <2>2
<1>3. \A c : Served(c) => Served(c)'
  BY <1>1, <1>2 DEF Served
<1>4. TakenUp' = TakenUp
  BY <1>1 DEF TakenUp
<1>5. passes[Main] = None => passes'[Main] = None
  BY <1>1 DEF TypesInv, TaskTypes, Runners
<1>. QED
  BY <1>1, <1>3, <1>4, <1>5 DEF ServedInv

LEMMA ServedStep ==
  ASSUME TypesInv, DiscoveryInv, ServedInv, [DiscoveryNext]_discoveryVars
  PROVE  ServedInv'
<1>. USE DEF TypesInv, MainTypes, TaskTypes
<1>1. made \in Nat /\ \A y \in Places : polls[y] >= polls[y]
  <2>1. Len(device_configurations) \in Nat
    OBVIOUS
  <2>2. made \in Nat
    BY <2>1
  <2>3. ASSUME NEW y \in Places PROVE polls[y] >= polls[y]
    OBVIOUS
  <2>. QED
    BY <2>2, <2>3
<1>2. CASE UNCHANGED <<device_configurations, complete, made, discover, present, subscribed, polls>>
           /\ passes'[Main] = passes[Main]
  BY <1>1, <1>2, ServedSame
<1>3. CASE Gather
  <2>1. ~complete /\ made' = made /\ discover' = "gathering"
    BY <1>3 DEF Gather, DiscoveryInv
  <2>. QED
    BY <1>1, <2>1, ServedBefore
<1>4. CASE Completes
  <2>1. /\ discover = "gathering" /\ discover' = "generating" /\ complete'
        /\ UNCHANGED <<present, device_configurations, made, passes, subscribed, polls>>
    BY <1>4 DEF Completes, handlingVars, taskVars
  <2>2. \A c : Served(c) => Served(c)'
    BY <2>1 DEF Served, Waits
  <2>3. TakenUp' = TakenUp
    BY <2>1 DEF TakenUp
  <2>. QED
    BY <2>1, <2>2, <2>3 DEF ServedInv
<1>5. CASE ReadStep
  BY <1>2, <1>5 DEF ReadStep, handlingVars, mainVars, taskVars
<1>6. ASSUME NEW a \in Answers, Handle(a) PROVE ServedInv'
  <2>1. CASE ReadDevice(a) \/ ListObject(a) \/ ReadObjects(a)
    BY <1>2, <2>1 DEF ReadDevice, ListObject, ReadObjects, handlingVars, mainVars, taskVars
  <2>2. CASE DeviceRead(a) \/ Configure(a) \/ HandleFails(a)
    <3>1. handling[a] # "configured"
      BY <2>2 DEF DeviceRead, Configure, HandleFails
    <3>2. ~complete
      BY <3>1 DEF DiscoveryInv
    <3>3. made' = made /\ (discover' = discover \/ discover' = "dead")
      BY <2>2 DEF DeviceRead, Configure, AddConfiguration, HandleFails, mainVars
    <3>. QED
      BY <1>1, <3>2, <3>3, ServedBefore
  <2>. QED
    BY <1>6, <2>1, <2>2 DEF Handle
<1>7. ASSUME NEW p \in Runners, ConfigToTasks(p) PROVE ServedInv'
  BY <1>7, ServedCreate, ServedPassEnds DEF ConfigToTasks
<1>8. ASSUME NEW p \in Handlers, NEW d \in Devices, IAm(p, d) PROVE ServedInv'
  <2>1. p # Main
    BY DiscoveryAssumption
  <2>2. passes'[Main] = passes[Main]
    BY <1>8, <2>1 DEF IAm, Run, Runners
  <2>. QED
    BY <1>2, <1>8, <2>2 DEF IAm, handlingVars, mainVars
<1>9. CASE UNCHANGED discoveryVars
  BY <1>2, <1>9 DEF discoveryVars, handlingVars, mainVars, taskVars
<1>. QED
  BY <1>3, <1>4, <1>5, <1>6, <1>7, <1>8, <1>9, ServedMakeNext DEF DiscoveryNext, Discover

\* The lists that are generated hold what the options ask for, but for what
\* EverythingAskedIsServed excepts.
LEMMA GeneratedServes ==
  ASSUME NEW d \in Devices, NEW known, NEW o \in Objects
  PROVE  LET lists == ConfigOf[d]
             g == Generated(lists, d, known)
             cov == Items(AllToObjects(lists.cov, known))
             quick == Items(AllToObjects(lists.quick, known))
             slow == Items(AllToObjects(lists.slow, known))
         IN  o \in Eligible(Asked(lists, known), d) =>
               \/ ToSubscribe(g, d)[o] > 0
               \/ ToBePolled(g, d, o)
               \/ o \in cov \ Subscribable /\ (o \in quick \/ o \notin slow)
<1>. DEFINE lists == ConfigOf[d]
            g == Generated(lists, d, known)
            cov == AllToObjects(lists.cov, known)
            quick == AllToObjects(lists.quick, known)
            slow == AllToObjects(lists.slow, known)
<1>1. lists \in Lists
  BY ConfigType
<1>. HIDE DEF lists
<1>2. /\ g \in Lists
      /\ cov \in ListOfItems /\ quick \in ListOfItems /\ slow \in ListOfItems
      /\ \A i \in Item \ {d} : /\ g.cov[i] = cov[i]
                               /\ g.quick[i] = IF cov[i] > 0 THEN 0 ELSE quick[i]
                               /\ g.slow[i] = IF quick[i] > 0 THEN 0 ELSE slow[i]
  BY <1>1, GeneratedFacts
<1>3. \A x : x \in Eligible(Asked(lists, known), d) =>
               /\ x \notin Skipped(d)
               /\ x \in Items(cov) \cup Items(quick) \cup Items(slow)
  BY DEF Eligible, Asked
<1>. HIDE DEF g, cov, quick, slow
<1>4. o \in Item
  BY DEF Item
<1>5. /\ o \in Items(cov) <=> cov[o] > 0
      /\ o \in Items(quick) <=> quick[o] > 0
      /\ o \in Items(slow) <=> slow[o] > 0
  BY <1>2, <1>4, ListFacts
<1>6. ASSUME o \notin Skipped(d)
      PROVE  /\ ToSubscribe(g, d)[o] = IF o \in Subscribable THEN g.cov[o] ELSE 0
             /\ ToPollQuickly(g, d)[o] = g.quick[o] /\ ToPollSlowly(g, d)[o] = g.slow[o]
  <2>1. g.cov \in ListOfItems
    BY <1>2 DEF Lists
  <2>2. Without(g.cov, Item \ Subscribable)[o] = IF o \in Subscribable THEN g.cov[o] ELSE 0
    BY <1>4, <2>1, ListFacts
  <2>. QED
    BY <1>4, <1>6, <2>2 DEF ToSubscribe, ToPollQuickly, ToPollSlowly, Wanted
<1>7. o \in Eligible(Asked(lists, known), d) =>
        \/ ToSubscribe(g, d)[o] > 0
        \/ ToBePolled(g, d, o)
        \/ o \in Items(cov) \ Subscribable /\ (o \in Items(quick) \/ o \notin Items(slow))
  <2>. SUFFICES ASSUME o \in Eligible(Asked(lists, known), d)
                PROVE  \/ ToSubscribe(g, d)[o] > 0
                       \/ ToBePolled(g, d, o)
                       \/ o \in Items(cov) \ Subscribable /\ (o \in Items(quick) \/ o \notin Items(slow))
    OBVIOUS
  <2>1. /\ o \notin Skipped(d) /\ o # d /\ o \in Item \ {d}
        /\ cov[o] > 0 \/ quick[o] > 0 \/ slow[o] > 0
    BY <1>3, <1>4, <1>5 DEF Skipped
  <2>2. cov[o] \in Nat /\ quick[o] \in Nat /\ slow[o] \in Nat
    BY <1>2, <1>4 DEF ListOfItems
  <2>. QED
    BY <1>2, <1>5, <1>6, <2>1, <2>2 DEF ToBePolled
<1>. QED
  BY <1>7 DEF g, cov, quick, slow, lists

\* EverythingAskedIsServed: when discover_devices is through, every object the options
\* ask for has the subscription or the poll task that generate_config leaves it,
\* however many devices answered, how often, and whatever I-Ams came meanwhile.
THEOREM EverythingAskedIsServedCorrect == DiscoverySpec => []EverythingAskedIsServed
<1>. DEFINE Inv == TypesInv /\ DiscoveryInv /\ NotYet /\ UpToDate /\ ServedInv
<1>1. DiscoveryInit => Inv
  <2>. SUFFICES ASSUME DiscoveryInit PROVE Inv
    OBVIOUS
  <2>1. TypesInv /\ DiscoveryInv
    BY TypesInvInit, DiscoveryInvInit
  <2>2. NotYet /\ UpToDate
    BY DEF DiscoveryInit, NotYet, UpToDate
  <2>3. ServedInv
    <3>1. made = 0 /\ discover = "asking" /\ 1..made = {}
      BY DEF DiscoveryInit
    <3>2. TakenUp = {}
      BY <3>1 DEF TakenUp
    <3>. QED
      BY <3>1, <3>2 DEF ServedInv
  <2>. QED
    BY <2>1, <2>2, <2>3
<1>2. Inv /\ [DiscoveryNext]_discoveryVars => Inv'
  BY TypesStep, DiscoveryInvStep, NotYetStep, UpToDateStep, ServedStep
<1>3. Inv => EverythingAskedIsServed
  <2>. SUFFICES ASSUME Inv, discover = "done", NEW a \in Answers, NEW o \in Objects
                PROVE  LET d == from[a]
                           lists == ConfigOf[d]
                           known == objectList[d] \ Ignored
                           cov == Items(AllToObjects(lists.cov, known))
                           quick == Items(AllToObjects(lists.quick, known))
                           slow == Items(AllToObjects(lists.slow, known))
                       IN  o \in Eligible(Asked(lists, known), d) =>
                             \/ <<d, o>> \in subscribed \/ polls[d, o] > 0
                             \/ <<d, o>> \notin present
                             \/ o \in cov \ Subscribable /\ (o \in quick \/ o \notin slow)
    BY DEF EverythingAskedIsServed
  <2>1. \A b \in Answers : handling[b] = "configured"
    BY DEF ServedInv, DiscoveryInv
  <2>2. PICK c \in ToSet(device_configurations) : Newest(a, c)
    BY <2>1 DEF UpToDate
  <2>3. c \in TakenUp
    BY DEF ToSet, TakenUp, ServedInv
  <2>4. Served(c) /\ passes[Main] = None
    BY <2>3 DEF ServedInv
  <2>5. \A k, kind : ~Waits(c.device, k, kind)
    BY <2>4 DEF Waits
  <2>6. from[a] \in Devices
    BY DiscoveryAssumption DEF TypesInv, HandlingTypes
  <2>7. /\ c.device = from[a]
        /\ c.lists = Generated(ConfigOf[from[a]], from[a], objectList[from[a]] \ Ignored)
    BY <2>2 DEF Newest
  <2>8. ToSubscribe(c.lists, c.device)[o] > 0 => <<from[a], o>> \in subscribed
    BY <2>4, <2>5, <2>7 DEF Served, Item
  <2>9. ToBePolled(c.lists, c.device, o) =>
          polls[from[a], o] > 0 \/ <<from[a], o>> \notin present
    BY <2>4, <2>5, <2>7 DEF Served, Item
  <2>. DEFINE known == objectList[from[a]] \ Ignored
              asked == Eligible(Asked(ConfigOf[from[a]], known), from[a])
              cov == Items(AllToObjects(ConfigOf[from[a]].cov, known))
              quick == Items(AllToObjects(ConfigOf[from[a]].quick, known))
              slow == Items(AllToObjects(ConfigOf[from[a]].slow, known))
  <2>10. o \in asked =>
           \/ ToSubscribe(c.lists, c.device)[o] > 0
           \/ ToBePolled(c.lists, c.device, o)
           \/ o \in cov \ Subscribable /\ (o \in quick \/ o \notin slow)
    BY <2>6, <2>7, GeneratedServes
  <2>11. o \in asked =>
           \/ <<from[a], o>> \in subscribed \/ polls[from[a], o] > 0
           \/ <<from[a], o>> \notin present
           \/ o \in cov \ Subscribable /\ (o \in quick \/ o \notin slow)
    <3>. HIDE DEF asked, cov, quick, slow
    <3>. QED
      BY <2>8, <2>9, <2>10
  <2>. QED
    BY <2>11
<1>. HIDE DEF Inv
<1>. QED
  BY <1>1, <1>2, <1>3, PTL DEF DiscoverySpec
=============================================================================
