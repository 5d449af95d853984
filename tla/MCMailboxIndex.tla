---------------------------- MODULE MCMailboxIndex ----------------------------
(* Small instances of MailboxIndex for TLC. *)
EXTENDS MailboxIndex, TLC

CONSTANTS m1, m2,      \* messages
          inbox, work, \* mailboxes
          s1           \* a session
===============================================================================
