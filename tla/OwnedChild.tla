---------------------------- MODULE OwnedChild ------------------------------
(***************************************************************************)
(* What a Process promises to its callers on every platform                *)
(* (internal/platform/process.go): the result of the child is published    *)
(* once, and is never "ok" while anything of the child runs; every call is *)
(* told that result, an outcome it can stand for, or an error.  Signals,   *)
(* handles, locks and retries do not exist here.                           *)
(***************************************************************************)
CONSTANT Callers   \* goroutines that use the Process, one call each

VARIABLES
  gone,       \* the child and its descendants have ended, and stay so
  result,     \* what the waiter has published: "pending", "ok" or "failed"
  outcome,    \* what CloseContext has settled on: "open", "ok" or "failed"
  told        \* what each caller was told: <<>>, or its call and the answer

vars == <<gone, result, outcome, told>>

Init ==
  /\ gone = FALSE /\ result = "pending" /\ outcome = "open"
  /\ told = [c \in Callers |-> <<>>]

\* The last process of the child's group or job has ended, or was ended.
End ==
  /\ ~gone /\ gone' = TRUE
  /\ UNCHANGED <<result, outcome, told>>

Publish(value) ==
  /\ result = "pending" /\ result' = value
  /\ value = "ok" => gone
  /\ UNCHANGED <<gone, outcome, told>>

Tell(c, call, value) == told[c] = <<>> /\ told' = [told EXCEPT ![c] = <<call, value>>]

\* Wait hands on the result.
Wait(c) ==
  /\ result # "pending" /\ Tell(c, "waited", result)
  /\ UNCHANGED <<gone, result, outcome>>

\* Terminate may fail at any time, but succeeds only with the result.
Terminate(c, value) ==
  /\ value = "failed" \/ (result # "pending" /\ value = result)
  /\ Tell(c, "terminated", value)
  /\ UNCHANGED <<gone, result, outcome>>

\* The first CloseContext to get so far settles the outcome, behind the result.
Close(c, value) ==
  /\ outcome = "open" /\ result # "pending" /\ value \in {"failed", result}
  /\ outcome' = value /\ Tell(c, "shut", value)
  /\ UNCHANGED <<gone, result>>

\* Any other repeats it.
CloseAgain(c) ==
  /\ outcome # "open" /\ Tell(c, "shut", outcome)
  /\ UNCHANGED <<gone, result, outcome>>

Values == {"ok", "failed"}

Next ==
  \/ End \/ \E v \in Values : Publish(v)
  \/ \E c \in Callers : Wait(c) \/ CloseAgain(c) \/ \E v \in Values : Terminate(c, v) \/ Close(c, v)

Spec == Init /\ [][Next]_vars
=============================================================================
