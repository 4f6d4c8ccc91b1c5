------------------------------ MODULE Startup ------------------------------
(***************************************************************************)
(* From the options to the worker processes, and to their end.  The        *)
(* configured interfaces are resolved to adapters of the host, a worker is *)
(* spawned for each and registered under the name of its adapter, and it   *)
(* is by the router that the supervisor reaches it from then on.           *)
(*                                                                         *)
(* What is under way when a worker ends is in CommandRpc; here it is told  *)
(* to end or it is not.  Prefix lengths and what an entry holds for its    *)
(* worker are left out.                                                    *)
(***************************************************************************)
EXTENDS Naturals, Sequences

CONSTANTS
  Names,           \* names of adapters
  EligibleNames,   \* those with an eligible prefix and no excluded one
  Addresses,       \* IPv4 addresses
  Automatic,            \* "auto"
  Identifiers,     \* values of objectIdentifier
  Default,         \* the one that is taken when there is no entry, 420
  MaxEntries,      \* bound: entries of options["interfaces"]
  Hosts            \* what ifaddr may list, sequences of adapters

Adapter == [name : Names, ips : Seq(Addresses)]
Entry == [enabled : BOOLEAN, name : Names \cup {Automatic}, address : Addresses \cup {Automatic},
          objectIdentifier : Identifiers]

ASSUME StartupAssumption ==
  /\ EligibleNames \subseteq Names /\ Automatic \notin Names \cup Addresses
  /\ Default \in Identifiers /\ MaxEntries \in Nat /\ Hosts \subseteq Seq(Adapter)

VARIABLES
  adapters,     \* what ifaddr lists
  interfaces,   \* options["interfaces"]
  phase,        \* "validating", "resolving", "spawning", "serving", "stopping" or "ended"
  seen,         \* entries resolve_interface_config has been called for
  resolved,     \* resolved_interfaces, each with the number of its entry
  router,       \* router[n]: the worker registered under n, 0 if none
  process,      \* process[w]: "running", "ended" or "killed", of the w-th resolved
  told          \* workers that SHUTDOWN was put for

hostVars == <<adapters, interfaces>>
vars == <<hostVars, phase, seen, resolved, router, process, told>>

Entries == 1..Len(interfaces)
Workers == 1..Len(process)
Resolution == [entry : 0..MaxEntries, name : Names, ip : Addresses, objectIdentifier : Identifiers]

TypeOK ==
  /\ adapters \in Seq(Adapter)
  /\ interfaces \in Seq(Entry) /\ Len(interfaces) <= MaxEntries
  /\ phase \in {"validating", "resolving", "spawning", "serving", "stopping", "ended"}
  /\ seen \in 0..Len(interfaces)
  /\ resolved \in Seq(Resolution)
  /\ process \in Seq({"running", "ended", "killed"}) /\ Len(process) <= Len(resolved)
  /\ router \in [Names -> 0..Len(process)]
  /\ told \subseteq Workers

Init ==
  /\ adapters \in Hosts
  /\ interfaces \in UNION {[1..n -> Entry] : n \in 0..MaxEntries}
  /\ phase = "validating"
  /\ seen = 0
  /\ resolved = <<>> /\ process = <<>>
  /\ router = [n \in Names |-> 0]
  /\ told = {}

----------------------------------------------------------------------------
(* get_eligible_interfaces and resolve_interface_config.                    *)

\* Adapters to choose from: of a name, the first with an IPv4 address.
Available ==
  {i \in 1..Len(adapters) :
     /\ adapters[i].name \in EligibleNames
     /\ adapters[i].ips # <<>>
     /\ \A j \in 1..(i - 1) : adapters[j].name = adapters[i].name => adapters[j].ips = <<>>}

FirstAvailable == {i \in Available : \A j \in Available : i <= j}

Matched(entry) ==
  IF entry.name = Automatic THEN FirstAvailable
  ELSE {i \in Available : adapters[i].name = entry.name}

\* Mutant: the name is only looked at to tell whether there is such an adapter.
TakesFirst(k, i) ==
  LET first == CHOOSE j \in FirstAvailable : TRUE
  IN  [entry |-> k, name |-> adapters[first].name, ip |-> adapters[first].ips[1],
       objectIdentifier |-> interfaces[k].objectIdentifier]

\* Entry k with adapter i.
Resolve(k, i) ==
  [entry |-> k, name |-> adapters[i].name,
   ip |-> IF interfaces[k].address = Automatic THEN adapters[i].ips[1] ELSE interfaces[k].address,
   objectIdentifier |-> interfaces[k].objectIdentifier]

----------------------------------------------------------------------------
(* discover_and_resolve.                                                    *)

Enabled == {i \in Entries : interfaces[i].enabled}

\* Mutant: identifiers are compared under the same name only.
UniquePerName ==
  \A i, j \in Enabled :
    (interfaces[i].name = interfaces[j].name
       /\ interfaces[i].objectIdentifier = interfaces[j].objectIdentifier) => i = j

\* validate_unique_identifiers finds no error.
UniqueIdentifiers ==
  \A i, j \in Enabled :
    interfaces[i].objectIdentifier = interfaces[j].objectIdentifier => i = j

\* An error ends the program.
Validate ==
  /\ phase = "validating"
  /\ phase' = IF UniqueIdentifiers THEN "resolving" ELSE "ended"
  /\ UNCHANGED <<hostVars, seen, resolved, router, process, told>>

\* Mutant: whether the entry is enabled is not asked.
ResolveAny ==
  /\ phase = "resolving" /\ seen < Len(interfaces)
  /\ seen' = seen + 1
  /\ LET found == Matched(interfaces[seen + 1])
     IN  IF found # {}
           THEN \E i \in found : resolved' = Append(resolved, Resolve(seen + 1, i))
           ELSE UNCHANGED resolved
  /\ UNCHANGED <<hostVars, phase, router, process, told>>

\* resolve_interface_config for the next entry.
ResolveNext ==
  /\ phase = "resolving" /\ seen < Len(interfaces)
  /\ seen' = seen + 1
  /\ LET found == Matched(interfaces[seen + 1])
     IN  IF interfaces[seen + 1].enabled /\ found # {}
           THEN \E i \in found : resolved' = Append(resolved, Resolve(seen + 1, i))
           ELSE UNCHANGED resolved
  /\ UNCHANGED <<hostVars, phase, router, process, told>>

\* Nothing was resolved: the first adapter, with the first entry whether it is
\* enabled or not, or with none.
FallBack ==
  \E i \in FirstAvailable :
    resolved' = <<[entry |-> IF interfaces = <<>> THEN 0 ELSE 1,
                   name |-> adapters[i].name, ip |-> adapters[i].ips[1],
                   objectIdentifier |-> IF interfaces = <<>> THEN Default
                                        ELSE interfaces[1].objectIdentifier]>>

\* All entries have been seen; main ends when no adapter can be used.
Resolved ==
  /\ phase = "resolving" /\ seen = Len(interfaces)
  /\ \/ resolved # <<>> /\ phase' = "spawning" /\ UNCHANGED resolved
     \/ resolved = <<>> /\ FallBack /\ phase' = "spawning"
     \/ resolved = <<>> /\ Available = {} /\ phase' = "ended" /\ UNCHANGED resolved
  /\ UNCHANGED <<hostVars, seen, router, process, told>>

----------------------------------------------------------------------------
(* spawn_workers, and register_worker.                                      *)

\* Mutant: a name that is taken keeps its worker.
RegisterFirst(w) ==
  router' = [router EXCEPT ![resolved[w].name] = IF @ = 0 THEN w ELSE @]

Register(w) == router' = [router EXCEPT ![resolved[w].name] = w]

Spawn ==
  /\ phase = "spawning"
  /\ IF Len(process) < Len(resolved)
       THEN /\ Register(Len(process) + 1)
            /\ process' = Append(process, "running")
            /\ UNCHANGED phase
       ELSE phase' = "serving" /\ UNCHANGED <<router, process>>
  /\ UNCHANGED <<hostVars, seen, resolved, told>>

\* A worker may fail, at its start or later, or be asked to end and do so.
WorkerEnds(w) ==
  /\ w \in Workers /\ process[w] = "running"
  /\ process' = [process EXCEPT ![w] = "ended"]
  /\ UNCHANGED <<hostVars, phase, seen, resolved, router, told>>

----------------------------------------------------------------------------
(* shutdown_workers, and the end of the program.                            *)

Tended(w) == router[resolved[w].name] = w

\* server.serve has returned: SHUTDOWN is broadcast.
Stop ==
  /\ phase = "serving"
  /\ phase' = "stopping"
  /\ told' = {w \in Workers : Tended(w)}
  /\ UNCHANGED <<hostVars, seen, resolved, router, process>>

\* A worker of the router has been joined for 5 s in vain.
Terminate(w) ==
  /\ phase = "stopping"
  /\ w \in Workers /\ Tended(w) /\ process[w] = "running"
  /\ process' = [process EXCEPT ![w] = "killed"]
  /\ UNCHANGED <<hostVars, phase, seen, resolved, router, told>>

AllJoined == \A w \in Workers : Tended(w) => process[w] # "running"

\* Mutant: the processes are no daemons, and Python joins them.
ExitAfterAll ==
  /\ phase = "stopping"
  /\ AllJoined /\ \A w \in Workers : process[w] # "running"
  /\ phase' = "ended"
  /\ UNCHANGED <<hostVars, seen, resolved, router, process, told>>

\* The program ends, and Python terminates the daemonic processes left.
Exit ==
  /\ phase = "stopping"
  /\ AllJoined
  /\ phase' = "ended"
  /\ process' = [w \in Workers |-> IF process[w] = "running" THEN "killed" ELSE process[w]]
  /\ UNCHANGED <<hostVars, seen, resolved, router, told>>

----------------------------------------------------------------------------
Next ==
  \/ Validate \/ ResolveNext \/ Resolved \/ Spawn \/ Stop \/ Exit
  \/ \E w \in 1..Len(process) : WorkerEnds(w) \/ Terminate(w)

Spec == Init /\ [][Next]_vars

\* The joins time out, and the program goes on to its end.  Nobody needs to stop
\* it, and no worker needs to do as it is told.
Fairness == WF_vars(Exit \/ \E w \in 1..Len(process) : Terminate(w))
FairSpec == Spec /\ Fairness

----------------------------------------------------------------------------
(* Properties.                                                              *)

\* No two workers are the same BACnet device, though only enabled entries are
\* compared and the fallback takes an entry that may not be.
DistinctIdentity ==
  \A v, w \in Workers :
    resolved[v].objectIdentifier = resolved[w].objectIdentifier => v = w

\* A disabled entry has a worker only when it is the first one, and no enabled
\* entry could be resolved; then no other worker is there.
DisabledOnlyAsFallback ==
  \A w \in Workers :
    LET k == resolved[w].entry
    IN  k # 0 /\ ~interfaces[k].enabled =>
          /\ k = 1 /\ Len(resolved) = 1
          /\ \A j \in Enabled : Matched(interfaces[j]) = {}

\* When enabled entries name different adapters and leave the address to them,
\* all that is there runs as configured: each worker on an adapter and an
\* address of its own, reached by the supervisor, and none is missing.
Apart ==
  /\ \A j \in Enabled : interfaces[j].name # Automatic /\ interfaces[j].address = Automatic
  /\ \A i, j \in Enabled : interfaces[i].name = interfaces[j].name => i = j

RunsAsConfigured ==
  (Apart /\ phase = "serving" /\ Enabled # {}) =>
    /\ \A w \in Workers : Tended(w)
    /\ \A v, w \in Workers : resolved[v].ip = resolved[w].ip => v = w
    /\ \A j \in Enabled : Matched(interfaces[j]) # {} =>
         \E w \in Workers : resolved[w].entry = j /\ resolved[w].name = interfaces[j].name

\* A worker ends without having been told only when it failed, or when a later
\* entry came to the same adapter and took its place in the router.
UntoldWasReplaced ==
  phase = "ended" =>
    \A w \in Workers :
      process[w] = "killed" /\ w \notin told =>
        \E v \in Workers : v > w /\ resolved[v].name = resolved[w].name

\* Once the server has stopped the program ends, and no worker outlives it, one
\* that was replaced and is not told included.
NothingOutlives ==
  phase = "stopping" ~> (phase = "ended" /\ \A w \in Workers : process[w] # "running")
=============================================================================
