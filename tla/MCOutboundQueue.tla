---------------------------- MODULE MCOutboundQueue ----------------------------
(* Small instances of OutboundQueue for TLC. *)
EXTENDS OutboundQueue, TLC

CONSTANTS j1, j2,   \* jobs
          s1, s2    \* senders

\* The senders are not told apart.
TwoSenders == Permutations({s1, s2})
===============================================================================
