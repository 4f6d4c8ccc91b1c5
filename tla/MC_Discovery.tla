---------------------------- MODULE MC_Discovery ----------------------------
(***************************************************************************)
(* Discovery for TLC: two I-Ams of one device, or one of each of two.      *)
(* Only the first read has a property that is a list.                      *)
(***************************************************************************)
EXTENDS Discovery, TLC

CONSTANTS a1, a2, d1, d2, d3, ai, prog

MCNetworks == {a1 :> d1 @@ a2 :> d1, a1 :> d2 @@ a2 :> d3}
MCContents == d1 :> {prog} @@ d2 :> {ai} @@ d3 :> {prog}
MCReads == Answers \X (Objects \cup {Own})
MCWithList == {<<a1, Own>>}

\* d1 is polled, and read again when it announces itself; an object is written
\* twice in its quick list.  Of d2 and d3 everything is asked for, in all three
\* lists; the object of d3 cannot be subscribed to.
MCEntries ==
  << [deviceID |-> All,
      lists |-> [cov |-> OnceEach({All}), quick |-> OnceEach({All}), slow |-> OnceEach({All}),
                 resub_on_iam |-> TRUE, reread_on_iam |-> FALSE]],
     [deviceID |-> d1,
      lists |-> [cov |-> OnceEach({}), quick |-> [OnceEach({prog}) EXCEPT ![prog] = 2],
                 slow |-> OnceEach({All}), resub_on_iam |-> FALSE, reread_on_iam |-> TRUE]] >>
=============================================================================
