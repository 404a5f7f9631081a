--------------------------- MODULE AtomicPublish ----------------------------
(***************************************************************************)
(* What destination.Create promises to processes that create an archive at *)
(* one final path: the path changes once at most, from nothing to the      *)
(* whole archive of one of them, and everyone who is told anything is told *)
(* the truth.  Staging directories and their files do not exist here.      *)
(***************************************************************************)
CONSTANTS
  Creators,   \* processes that create an archive at the final path
  Nothing,    \* no object is at the final path
  Foreign     \* an object that none of them made is at the final path

VARIABLES
  visible,    \* whose whole archive the final path shows
  told        \* what each creator has learnt: "waiting", "ok", "failed", "dead"

Init ==
  /\ visible \in {Nothing, Foreign}
  /\ told = [c \in Creators |-> "waiting"]

\* The whole archive appears at once, and only where nothing was.
Appear(c) ==
  /\ told[c] = "waiting" /\ visible = Nothing
  /\ visible' = c
  /\ UNCHANGED told

Succeed(c) ==
  /\ told[c] = "waiting" /\ visible = c
  /\ told' = [told EXCEPT ![c] = "ok"]
  /\ UNCHANGED visible

Fail(c) ==
  /\ told[c] = "waiting" /\ visible # c
  /\ told' = [told EXCEPT ![c] = "failed"]
  /\ UNCHANGED visible

Die(c) ==
  /\ told[c] = "waiting"
  /\ told' = [told EXCEPT ![c] = "dead"]
  /\ UNCHANGED visible

Next == \E c \in Creators : Appear(c) \/ Succeed(c) \/ Fail(c) \/ Die(c)

Spec == Init /\ [][Next]_<<visible, told>>
=============================================================================
