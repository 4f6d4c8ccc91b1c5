--------------------------- MODULE CallContract ---------------------------
(***************************************************************************)
(* What Supervisor.send_and_wait promises its caller (main.py:96-112),     *)
(* said without queues, futures or processes:                              *)
(*   - a call that has been opened returns at most one result;             *)
(*   - a command takes effect at most once, and only for an opened call;   *)
(*   - a caller told of success had its command carried out before;        *)
(*   - a caller told of an error, a timeout or a cancellation knows        *)
(*     nothing: the command may have been carried out, may still be        *)
(*     carried out later, or never.                                        *)
(***************************************************************************)
EXTENDS Naturals

CONSTANT Requests       \* the calls that may be made, one request id each

VARIABLES
  phase,                \* phase[r]: "new", "waiting", or the result of call r
  effects               \* effects[r]: how often the command of r was carried out

vars == <<phase, effects>>

Results == {"ok", "error", "timeout", "cancelled"}

Init ==
  /\ phase = [r \in Requests |-> "new"]
  /\ effects = [r \in Requests |-> 0]

Open(r) ==
  /\ phase[r] = "new"
  /\ phase' = [phase EXCEPT ![r] = "waiting"]
  /\ UNCHANGED effects

\* Also after the caller has given up: a timeout does not recall the command.
TakeEffect(r) ==
  /\ phase[r] # "new"
  /\ effects[r] = 0
  /\ effects' = [effects EXCEPT ![r] = 1]
  /\ UNCHANGED phase

Return(r, result) ==
  /\ phase[r] = "waiting"
  /\ result = "ok" => effects[r] = 1
  /\ phase' = [phase EXCEPT ![r] = result]
  /\ UNCHANGED effects

Next ==
  \E r \in Requests :
    \/ Open(r)
    \/ TakeEffect(r)
    \/ \E result \in Results : Return(r, result)

Spec == Init /\ [][Next]_vars
=============================================================================
