----------------------------- MODULE SpoolPromise -----------------------------
(***************************************************************************)
(* What the spool promises, whatever happens to the process: an accepted   *)
(* file is held until it is delivered to somebody, set aside for the       *)
(* operator, or given up as unresolvable; who was served stays served; and *)
(* a file that is gone never comes back.                                   *)
(***************************************************************************)
CONSTANTS Files, Rcpts, To

VARIABLES place,   \* where each file is
          served   \* the recipients each file was delivered to

promiseVars == <<place, served>>

Init == /\ place = [f \in Files |-> "absent"]
        /\ served = [f \in Files |-> {}]

Moves(f, from, to) == /\ place[f] = from
                      /\ place' = [place EXCEPT ![f] = to]
                      /\ UNCHANGED served

Accept(f) == Moves(f, "absent", "incoming")

\* One copy can serve two recipients that share a mailbox.
Deliver(f) ==
  /\ place[f] = "incoming"
  /\ \E rs \in (SUBSET (To[f] \ served[f])) \ {{}} :
        served' = [served EXCEPT ![f] = @ \cup rs]
  /\ UNCHANGED place

Remove(f)     == served[f] # {} /\ Moves(f, "incoming", "gone")
GiveUp(f)     == Moves(f, "incoming", "unresolved")
Quarantine(f) == Moves(f, "incoming", "quarantine")
Return(f)     == Moves(f, "quarantine", "incoming")

Next == \E f \in Files : \/ Accept(f) \/ Deliver(f) \/ Remove(f) \/ GiveUp(f)
                         \/ Quarantine(f) \/ Return(f)

Spec == Init /\ [][Next]_promiseVars
\* (That a held file leaves is a property of its own, Settles in SpoolDrain.)
===============================================================================
