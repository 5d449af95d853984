----------------------------- MODULE MCSpoolDrain -----------------------------
(* Small instances of SpoolDrain for TLC. *)
EXTENDS SpoolDrain

CONSTANTS m1, m2, m3,            \* spool files
          alice, bob, team, lost, bounce,  \* envelope recipients
          a, b, c,               \* mailboxes
          out                    \* an address on another server

\* alice has a mailbox, forwarded locally to c; team is a group of the mailbox
\* b and of an outside address; bob is an alias of alice; nobody takes lost.
MCTargets == [r \in Rcpts |->
  CASE r = alice -> {a} [] r = bob -> {a} [] r = team -> {b, out}
    [] r = lost -> {} [] r = bounce -> {out}]

MCForward == [x \in Boxes |-> IF x = a /\ c \in Boxes THEN {c} ELSE {}]

NoForward == [x \in Boxes |-> {}]

\* The scripts: keep in a, forward or redirect b, consume in c.
MCSieve == [x \in Boxes |->
  CASE x = a -> {"keep"} [] x = b -> {"forward", "redirect"} [] x = c -> {"discard", "reject"}]

KeepAll == [x \in Boxes |-> {"keep"}]

AllToAll == [f \in Files |-> Rcpts]

\* m1 to the first mailbox, m2 to nobody, m3 to the first mailbox.
OneEach == [f \in Files |-> IF f = m2 THEN {lost} ELSE {alice}]
===============================================================================
