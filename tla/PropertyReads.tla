--------------------------- MODULE PropertyReads ---------------------------
(***************************************************************************)
(* How the properties of one object are read, from the property list to    *)
(* the values in the dictionary.  A read of several properties at once may *)
(* fall back to single reads, and a single read of a list to the size of   *)
(* the list and its elements.  Every request to a device holds a permit of *)
(* read_semaphore until its answer.                                        *)
(*                                                                         *)
(* Of the properties two are told apart: one that is a list, "array", and  *)
(* one that is not, "scalar".  Only what the control flow depends on is    *)
(* kept of an answer.                                                      *)
(***************************************************************************)
EXTENDS Naturals, Sequences, SequencesExt

CONSTANTS
  Reads,     \* reads of an object, each by one coroutine
  WithList,  \* reads of an object with a property that is a list
  Permits,   \* permits of read_semaphore
  Elements   \* bound: elements of a list

ASSUME ReadsAssumption ==
  WithList \subseteq Reads /\ Permits \in Nat \ {0} /\ Elements \in Nat \ {0}

VARIABLES
  requests,  \* requests in the order of their permits: the first have been sent
  single,    \* single[r]: the single reads of r that have not returned
  bad,       \* bad[r]: one of them returned False
  result     \* result[r]: how far the read is, or what came of it

readVars == <<requests, single, bad, result>>

\* The requests of a read; elements are numbered, the others have number 0.
Kinds == {"list", "multiple", "scalar", "array", "size", "element"}
Request == {q \in [read : Reads, kind : Kinds, number : 0..Elements] :
              q.kind = "element" <=> q.number > 0}
Ask(r, kind) == [read |-> r, kind |-> kind, number |-> 0]
Element(r, n) == [read |-> r, kind |-> "element", number |-> n]
Of(r) == {q \in ToSet(requests) : q.read = r}

Singles(r) == IF r \in WithList THEN {"scalar", "array"} ELSE {"scalar"}
Ended(r) == result[r] \in {"read", "failed", "raised"}

ReadsTypeOK ==
  /\ requests \in Seq(Request) /\ IsInjective(requests)
  /\ single \in [Reads -> SUBSET {"scalar", "array"}]
  /\ bad \in [Reads -> BOOLEAN]
  /\ result \in [Reads -> {"none", "listing", "listed", "unlisted", "reading",
                           "read", "failed", "raised"}]

ReadsInit ==
  /\ requests = <<>>
  /\ single = [r \in Reads |-> {}]
  /\ bad = [r \in Reads |-> FALSE]
  /\ result = [r \in Reads |-> "none"]

----------------------------------------------------------------------------
(* The semaphore: who asks joins the line, and permits go round in order.   *)

Sent(q, i) == i <= Permits /\ requests[i] = q
Join(new) == requests' = requests \o SetToSeq(new)

\* Mutant: what follows is asked for inside the "async with".
ReleaseNested(q, next) ==
  \E i \in 1..Len(requests) :
    /\ Sent(q, i)
    /\ requests' = (IF next = {} THEN RemoveAt(requests, i) ELSE requests) \o SetToSeq(next)

\* The answer of q: its permit is free before the coroutine asks for more.
Release(q, next) ==
  \E i \in 1..Len(requests) :
    /\ Sent(q, i)
    /\ requests' = RemoveAt(requests, i) \o SetToSeq(next)

----------------------------------------------------------------------------
(* get_property_list.                                                       *)

StartLists(reads) ==
  /\ \A r \in reads : result[r] = "none"
  /\ Join({Ask(r, "list") : r \in reads})
  /\ result' = [r \in Reads |-> IF r \in reads THEN "listing" ELSE result[r]]
  /\ UNCHANGED <<single, bad>>

\* Whatever the answer, there is a list to go on with; but an exception that
\* is not expected, as an invalid tag, ends the read.
ListAnswered(r) ==
  /\ Release(Ask(r, "list"), {})
  /\ \E end \in {"listed", "unlisted"} : result' = [result EXCEPT ![r] = end]
  /\ UNCHANGED <<single, bad>>

----------------------------------------------------------------------------
(* properties_read_multiple.                                                *)

StartMultiple(reads) ==
  /\ \A r \in reads : result[r] = "listed"
  /\ Join({Ask(r, "multiple") : r \in reads})
  /\ result' = [r \in Reads |-> IF r \in reads THEN "reading" ELSE result[r]]
  /\ UNCHANGED <<single, bad>>

\* Values, of which all may be errors; or an error, or something unexpected.
MultipleAnswered(r) ==
  /\ Release(Ask(r, "multiple"), {})
  /\ \E end \in {"read", "failed", "raised"} : result' = [result EXCEPT ![r] = end]
  /\ UNCHANGED <<single, bad>>

\* No segmentation, no such service, or an invalid tag.
FallBack(r) ==
  /\ Release(Ask(r, "multiple"), {Ask(r, kind) : kind \in Singles(r)})
  /\ single' = [single EXCEPT ![r] = Singles(r)]
  /\ UNCHANGED <<bad, result>>

----------------------------------------------------------------------------
(* properties_read.                                                         *)

StartSingle(reads) ==
  /\ \A r \in reads : result[r] = "listed"
  /\ Join(UNION {{Ask(r, kind) : kind \in Singles(r)} : r \in reads})
  /\ single' = [r \in Reads |-> IF r \in reads THEN Singles(r) ELSE single[r]]
  /\ result' = [r \in Reads |-> IF r \in reads THEN "reading" ELSE result[r]]
  /\ UNCHANGED bad

\* A single read returns; the last one decides.
Return(r, kind, ok) ==
  /\ single' = [single EXCEPT ![r] = @ \ {kind}]
  /\ bad' = [bad EXCEPT ![r] = @ \/ ~ok]
  /\ result' = IF single[r] = {kind}
                 THEN [result EXCEPT ![r] = IF bad'[r] THEN "failed" ELSE "read"]
                 ELSE result

\* An exception that is not expected ends the read; what has been asked for
\* beside goes on, with nobody waiting for it.
Raise(r) ==
  /\ result' = [result EXCEPT ![r] = "raised"]
  /\ single' = [single EXCEPT ![r] = {}]
  /\ bad' = [bad EXCEPT ![r] = FALSE]

Ends(r, kind) == Raise(r) \/ \E ok \in BOOLEAN : Return(r, kind, ok)
Unnoticed == UNCHANGED <<single, bad, result>>

SingleAnswered(r) ==
  \E kind \in {"scalar", "array"} :
    /\ Release(Ask(r, kind), {})
    /\ IF kind \in single[r] THEN Ends(r, kind) ELSE Unnoticed

\* The list does not fit into one answer: read_list_property.
ListTooLong(r) ==
  /\ Release(Ask(r, "array"), {Ask(r, "size")})
  /\ UNCHANGED <<single, bad, result>>

\* Mutant: elements are numbered from 0.
ElementsFromZero(r) == {Element(r, n - 1) : n \in 1..Elements}

AllElements(r) == {Element(r, n) : n \in 1..Elements}

\* The size is 0 or cannot be read; or the elements are asked for, all at once.
SizeAnswered(r) ==
  \/ /\ Release(Ask(r, "size"), {})
     /\ IF "array" \in single[r] THEN Raise(r) \/ Return(r, "array", FALSE) ELSE Unnoticed
  \/ /\ Release(Ask(r, "size"), AllElements(r))
     /\ UNCHANGED <<single, bad, result>>

\* An element comes, and the last one completes the list; or it fails, which
\* ends the list while the requests for the other elements go on.
ElementAnswered(r) ==
  \E n \in 1..Elements :
    /\ Release(Element(r, n), {})
    /\ \/ "array" \notin single[r] /\ Unnoticed
       \/ "array" \in single[r] /\ (Raise(r) \/ Return(r, "array", FALSE))
       \/ /\ "array" \in single[r]
          /\ IF \E q \in Of(r) : q.kind = "element" /\ q.number # n
               THEN Unnoticed
               ELSE Return(r, "array", TRUE)

Answer(r) ==
  \/ ListAnswered(r) \/ MultipleAnswered(r) \/ FallBack(r)
  \/ SingleAnswered(r) \/ ListTooLong(r) \/ SizeAnswered(r) \/ ElementAnswered(r)
=============================================================================
