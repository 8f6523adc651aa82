---------------------------------- MODULE Rpc ----------------------------------
(***************************************************************************)
(* What a caller of the host library is promised: its command is executed  *)
(* at most once, an answer it gets is the device's answer to that command, *)
(* and anything else is reported as a failure, which says nothing about    *)
(* whether the command was executed.                                       *)
(***************************************************************************)
CONSTANTS Calls

VARIABLES result,   \* per call: "none", "open", "ack", "nack" or "failed"
          outcome   \* per call, what the device answered: "none", "ack" or "nack"

vars == <<result, outcome>>

Init == result = [c \in Calls |-> "none"] /\ outcome = [c \in Calls |-> "none"]

Invoke(c) ==
  /\ result[c] = "none"
  /\ result' = [result EXCEPT ![c] = "open"]
  /\ UNCHANGED outcome

\* Possibly after the caller has given up.
Execute(c) ==
  /\ result[c] # "none" /\ outcome[c] = "none"
  /\ \E o \in {"ack", "nack"} : outcome' = [outcome EXCEPT ![c] = o]
  /\ UNCHANGED result

Answer(c) ==
  /\ result[c] = "open" /\ outcome[c] # "none"
  /\ result' = [result EXCEPT ![c] = outcome[c]]
  /\ UNCHANGED outcome

Fail(c) ==
  /\ result[c] = "open"
  /\ result' = [result EXCEPT ![c] = "failed"]
  /\ UNCHANGED outcome

Next == \E c \in Calls : Invoke(c) \/ Execute(c) \/ Answer(c) \/ Fail(c)

Spec == Init /\ [][Next]_vars
=============================================================================
