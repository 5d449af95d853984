------------------------------ MODULE SpoolDrain ------------------------------
(***************************************************************************)
(* The spool drain of the mail core (crates/intake): one process walks the *)
(* files the receiver accepted, serves every envelope recipient of a file  *)
(* and removes the file.  The process may die between any two side         *)
(* effects; the attempt record on disk, the names of the maildir copies    *)
(* and the once-keys of the outbound queue are what hold across its        *)
(* deaths.  Data is abstract: a file is a name, a message has no content,  *)
(* an address is a model value.                                            *)
(***************************************************************************)
EXTENDS Naturals

CONSTANTS
  Files,         \* names of spool files, each used once
  Rcpts,         \* canonical envelope recipients
  Boxes,         \* local mailboxes
  Outside,       \* addresses on other servers
  To,            \* [Files -> SUBSET Rcpts]: the envelope of a file
  Targets,       \* [Rcpts -> SUBSET (Boxes \cup Outside)]: where a recipient's
                 \* route leads; several only for a group, none for Nobody
  Sieve,         \* [Boxes -> SUBSET Decisions]: what the owner's script and
                 \* forwarding settings may decide about a copy
  LocalForward,  \* [Boxes -> SUBSET Boxes]: copies placed after a delivery
  Groups,        \* SUBSET Rcpts: email groups
  Srs,           \* SUBSET Rcpts: bounces to an address our forwarding rewrote
  Submitted,     \* SUBSET Files: handed in over SMTP AUTH by an account
  Poison,        \* SUBSET Files: files whose delivery never survives
  Limit,         \* attempts::LIMIT
  Sent,          \* the step "sent <user>" of a record
  None           \* no file, recipient or target in hand

CONSTANTS        \* bounds of the environment, and faults that are switched on
  MaxCrashes,    \* deaths of the process that no poison file causes
  MaxFaults,     \* failed disk operations
  MaxReinjects,  \* times the operator moves a file back from quarantine
  SaveMayFail,   \* whether writing an attempt record may fail
  MarkersExpire  \* whether the operator may wait longer than a once-key lives

Decisions == {"keep", "discard", "reject", "redirect", "forward"}
Addresses == Boxes \cup Outside
Steps     == Rcpts \cup {Sent}

ASSUME ConstantsAssumption ==
  /\ To \in [Files -> SUBSET Rcpts]
  /\ Targets \in [Rcpts -> SUBSET Addresses]
  /\ Sieve \in [Boxes -> SUBSET Decisions]
  /\ LocalForward \in [Boxes -> SUBSET Boxes]
  /\ Groups \subseteq Rcpts
  /\ \A r \in Rcpts \ Groups : \A t, u \in Targets[r] : t = u
  /\ Srs \subseteq Rcpts \ Groups /\ \A r \in Srs : Targets[r] \subseteq Outside
  /\ Submitted \subseteq Files /\ Poison \subseteq Files
  /\ Boxes \cap Outside = {} /\ Rcpts \cap Addresses = {}
  /\ Sent \notin Rcpts /\ None \notin Files
  /\ Limit \in Nat \ {0}
  /\ MaxCrashes \in Nat /\ MaxFaults \in Nat /\ MaxReinjects \in Nat
  /\ SaveMayFail \in BOOLEAN /\ MarkersExpire \in BOOLEAN

VARIABLES
  \* the spool on disk
  spool,        \* where each file is
  rec,          \* attempts/<F>
  beside,       \* quarantine/<F>.json
  told,         \* quarantined files the postmaster's notice was spooled for
  \* the mailboxes
  inNew,        \* the copy under new/
  inCur,        \* the copy a client moved to cur/
  ingests,      \* how often a copy was given to the core's index
  dropped,      \* boxes whose script consumed the message without a copy
  sentFiled,    \* Sent copies of a submitted file on disk
  sentIndexed,  \* files whose Sent copy the index knows
  \* the outbound queue in the network kevy
  marker,       \* once-keys that are set
  jobs,         \* once-keys a job was queued for
  again,        \* once-keys a second job was queued for
  \* the drain process
  pc,           \* what it does next
  file,         \* the file in hand
  mem,          \* its record, in memory
  retry,        \* an earlier attempt left a record
  todo,         \* recipients still to be looked at
  rcpt,         \* the recipient being served
  tgts, tgt,    \* its targets still to be served, and the one being written
  took,         \* a copy of this recipient was consumed
  any,          \* a copy of this file was consumed
  missed,       \* the unresolved addresses of this attempt
  walk,         \* files of this tick still to be visited
  \* history and bounds
  deaths,       \* deaths over a file since its last finished attempt
  durable,      \* steps of a file ever recorded as done on disk
  stale,        \* files older than aging::STALE
  crashes, faults, reinjects

spoolVars == <<spool, rec, beside, told>>
boxVars   == <<inNew, inCur, ingests, dropped, sentFiled, sentIndexed>>
kevyVars  == <<marker, jobs, again>>
handVars  == <<file, mem, retry>>
rcptVars  == <<rcpt, tgts, tgt, took, missed>>
procVars  == <<pc, handVars, todo, rcptVars, any, walk>>
histVars  == <<deaths, durable, stale, crashes, faults, reinjects>>
vars      == <<spoolVars, boxVars, kevyVars, procVars, histVars>>

-----------------------------------------------------------------------------
(* Records.  An absent record reads as the default one, with kept = FALSE. *)

Record   == [kept : BOOLEAN, attempts : Nat, done : SUBSET Steps]
NoRecord == [kept |-> FALSE, attempts |-> 0, done |-> {}]

EarlierInAttemptsOnly(f) == rec[f]    \* mutant: the record beside is not read

\* The record a new attempt starts from: attempts/<F>, or else the one beside
\* a file moved back from quarantine, with its attempts forgotten.
Earlier(f) == IF rec[f].kept THEN rec[f] ELSE [beside[f] EXCEPT !.attempts = 0]

StartedUncounted(f) ==    \* mutant: the attempt is not counted
  [kept |-> TRUE, attempts |-> Earlier(f).attempts, done |-> Earlier(f).done]

\* The record of an attempt that starts.
Started(f) ==
  [kept |-> TRUE, attempts |-> Earlier(f).attempts + 1, done |-> Earlier(f).done]

Done(step) == [mem EXCEPT !.done = @ \cup {step}]

\* One more failed disk operation.
Fault == faults < MaxFaults /\ faults' = faults + 1

\* Attempt::save: a failure is logged and the attempt goes on.
Save(f, m) ==
  \/ /\ rec' = [rec EXCEPT ![f] = m]
     /\ durable' = [durable EXCEPT ![f] = @ \cup m.done]
  \/ SaveMayFail /\ UNCHANGED <<rec, durable>>

Incoming == {f \in Files : spool[f] = "incoming"}
RcptPcs    == {"targets", "write", "writing", "ingest"}
AttemptPcs == {"sender", "sentCopy", "rcpts", "finish"} \cup RcptPcs
Attempting == pc \in AttemptPcs

Own(t)   == [to |-> t, counts |-> TRUE]    \* a target of the recipient itself
Extra(t) == [to |-> t, counts |-> FALSE]   \* a local forward: failing costs nothing
Target   == [to : Addresses, counts : BOOLEAN]

\* A once-key names the file, the step, whose copy it is and where it goes; the
\* one address a box's script or settings send to needs no name of its own.
Key(step, of, to) == <<file, step, of, to>>
Keys == Files \X {"relay", "redirect", "forward", "reject"} \X (Rcpts \cup Boxes) \X Addresses

QueueAlways(k) ==    \* mutant: the marker is not looked at
  /\ marker' = marker \cup {k}
  /\ jobs' = jobs \cup {k}
  /\ again' = IF k \in jobs THEN again \cup {k} ELSE again

\* write_fresh_pending_once: the marker and the job in one pipeline.
QueueOnce(k) ==
  IF k \in marker THEN UNCHANGED kevyVars ELSE QueueAlways(k)

\* The call failed: the job may have been queued and the answer lost.
QueueFails(k) == QueueOnce(k) \/ UNCHANGED kevyVars

\* A target took its copy; a delivered mailbox has its local forwards added.
Consume(t) ==
  /\ tgts' = (tgts \ {t}) \cup
       IF t.counts /\ t.to \in Boxes
       THEN {Extra(b) : b \in LocalForward[t.to] \ {t.to}} ELSE {}
  /\ took' = (took \/ t.counts)
  /\ UNCHANGED missed

UnresolvedForgotten(addr) == missed    \* mutant: nobody is named

\* A bounce that could not be relayed is not among the addresses left unresolved.
Unresolved(addr) == IF rcpt \in Srs THEN missed ELSE missed \cup {addr}

Miss(t) ==
  /\ tgts' = tgts \ {t}
  /\ missed' = IF t.counts THEN Unresolved(t.to) ELSE missed
  /\ UNCHANGED took

-----------------------------------------------------------------------------
Init ==
  /\ spool = [f \in Files |-> "absent"]
  /\ rec = [f \in Files |-> NoRecord]
  /\ beside = [f \in Files |-> NoRecord]
  /\ told = {}
  /\ inNew = [f \in Files |-> [b \in Boxes |-> "none"]]
  /\ inCur = [f \in Files |-> [b \in Boxes |-> "none"]]
  /\ ingests = [f \in Files |-> [b \in Boxes |-> 0]]
  /\ dropped = [f \in Files |-> {}]
  /\ sentFiled = [f \in Files |-> 0]
  /\ sentIndexed = {}
  /\ marker = {} /\ jobs = {} /\ again = {}
  /\ pc = "idle" /\ file = None /\ mem = NoRecord /\ retry = FALSE
  /\ todo = {} /\ rcpt = None /\ tgts = {} /\ tgt = None
  /\ took = FALSE /\ any = FALSE /\ missed = {} /\ walk = {}
  /\ deaths = [f \in Files |-> 0]
  /\ durable = [f \in Files |-> {}]
  /\ stale = {} /\ crashes = 0 /\ faults = 0 /\ reinjects = 0

\* The receiver renames an accepted message into incoming/new.
Arrive(f) ==
  /\ spool[f] = "absent"
  /\ spool' = [spool EXCEPT ![f] = "incoming"]
  /\ UNCHANGED <<rec, beside, told, boxVars, kevyVars, procVars, histVars>>

-----------------------------------------------------------------------------
(* The walk of a tick, and the start of an attempt. *)

StartTick ==
  /\ pc = "idle" /\ walk = {} /\ Incoming # {}
  /\ walk' = Incoming
  /\ UNCHANGED <<spoolVars, boxVars, kevyVars, pc, handVars, todo, rcptVars, any, histVars>>

\* attempts::begin finds the file interrupted fewer than Limit times.
Begin(f) ==
  /\ pc = "idle" /\ f \in walk
  /\ Earlier(f).attempts < Limit
  /\ file' = f /\ mem' = Started(f) /\ retry' = Earlier(f).kept
  /\ Save(f, mem')
  /\ pc' = "sender" /\ todo' = To[f] /\ any' = FALSE /\ missed' = {}
  /\ walk' = walk \ {f}
  /\ UNCHANGED <<spool, beside, told, boxVars, kevyVars, rcpt, tgts, tgt, took,
                 deaths, stale, crashes, faults, reinjects>>

\* attempts::begin finds it interrupted Limit times.
Refuse(f) ==
  /\ pc = "idle" /\ f \in walk
  /\ Earlier(f).attempts >= Limit
  /\ file' = f /\ mem' = Earlier(f) /\ pc' = "aside"
  /\ walk' = walk \ {f}
  /\ UNCHANGED <<spoolVars, boxVars, kevyVars, retry, todo, rcptVars, any, histVars>>

-----------------------------------------------------------------------------
(* The sender's own copy of a submitted message. *)

SkipSender ==
  /\ pc = "sender"
  /\ file \notin Submitted \/ Sent \in mem.done
  /\ pc' = "rcpts"
  /\ UNCHANGED <<spoolVars, boxVars, kevyVars, handVars, todo, rcptVars, any, walk, histVars>>

\* The copy is on disk under Sent, not yet indexed.
WriteSent ==
  /\ pc = "sender" /\ file \in Submitted /\ Sent \notin mem.done
  /\ file \notin sentIndexed
  /\ sentFiled' = [sentFiled EXCEPT ![file] = @ + 1]
  /\ Save(file, mem)
  /\ pc' = "sentCopy"
  /\ UNCHANGED <<spool, beside, told, inNew, inCur, ingests, dropped, sentIndexed, kevyVars,
                 handVars, todo, rcptVars, any, walk, deaths, stale, crashes, faults, reinjects>>

\* Already held by its Message-ID, or indexed now: the step is done.
SentDone ==
  /\ \/ pc = "sender" /\ file \in Submitted /\ Sent \notin mem.done /\ file \in sentIndexed
     \/ pc = "sentCopy"
  /\ sentIndexed' = sentIndexed \cup {file}
  /\ mem' = Done(Sent)
  /\ Save(file, mem')
  /\ pc' = "rcpts"
  /\ UNCHANGED <<spool, beside, told, inNew, inCur, ingests, dropped, sentFiled, kevyVars,
                 file, retry, todo, rcptVars, any, walk, deaths, stale, crashes, faults, reinjects>>

SentFailsRecorded ==    \* mutant: a failure is recorded as done
  /\ Fault /\ pc = "sender" /\ file \in Submitted /\ Sent \notin mem.done
  /\ mem' = Done(Sent) /\ Save(file, mem')
  /\ pc' = "rcpts"
  /\ UNCHANGED <<spool, beside, told, boxVars, kevyVars, file, retry, todo, rcptVars, any,
                 walk, deaths, stale, crashes, reinjects>>

\* Filing the copy failed: the account could not be looked up, the copy not
\* written, or the index or what follows it failed.  It holds back no recipient.
SentFails ==
  /\ Fault
  /\ \/ /\ pc = "sender" /\ file \in Submitted /\ Sent \notin mem.done
        /\ UNCHANGED sentIndexed
        /\ Save(file, mem) \/ UNCHANGED <<rec, durable>>
     \/ /\ pc = "sentCopy"
        /\ UNCHANGED sentIndexed \/ sentIndexed' = sentIndexed \cup {file}
        /\ UNCHANGED <<rec, durable>>
  /\ pc' = "rcpts"
  /\ UNCHANGED <<spool, beside, told, inNew, inCur, ingests, dropped, sentFiled, kevyVars,
                 handVars, todo, rcptVars, any, walk, deaths, stale, crashes, reinjects>>

-----------------------------------------------------------------------------
(* The envelope recipients. *)

\* Served by an earlier attempt: counts as consumed and is not served again.
SkipDone(r) ==
  /\ pc = "rcpts" /\ r \in todo /\ r \in mem.done
  /\ todo' = todo \ {r} /\ any' = TRUE
  /\ UNCHANGED <<spoolVars, boxVars, kevyVars, pc, handVars, rcptVars, walk, histVars>>

\* The route of r could not be worked out.
LookupFails(r) ==
  /\ pc = "rcpts" /\ r \in todo /\ r \notin mem.done
  /\ Fault /\ Save(file, mem)
  /\ todo' = todo \ {r} /\ missed' = missed \cup {r}
  /\ UNCHANGED <<spool, beside, told, boxVars, kevyVars, pc, handVars, rcpt, tgts, tgt,
                 took, any, walk, deaths, stale, crashes, reinjects>>

StartRcpt(r) ==
  /\ pc = "rcpts" /\ r \in todo /\ r \notin mem.done
  /\ Save(file, mem)
  /\ todo' = todo \ {r} /\ rcpt' = r /\ took' = FALSE
  /\ tgts' = {Own(t) : t \in Targets[r]}
  /\ pc' = "targets"
  /\ UNCHANGED <<spool, beside, told, boxVars, kevyVars, handVars, tgt, missed, any, walk,
                 deaths, stale, crashes, faults, reinjects>>

\* Once nobody was reached: a group is named besides its members, and an
\* address nobody takes.
Unreached == IF rcpt \in Groups \/ Targets[rcpt] = {} THEN Unresolved(rcpt) ELSE missed

\* One consumed copy is enough for the recipient to be recorded as served.
EndRcpt ==
  /\ pc = "targets" /\ tgts = {}
  /\ IF took
     THEN /\ mem' = Done(rcpt) /\ Save(file, mem')
          /\ any' = TRUE /\ UNCHANGED missed
     ELSE /\ missed' = Unreached
          /\ UNCHANGED <<mem, rec, durable, any>>
  /\ pc' = "rcpts" /\ rcpt' = None /\ took' = FALSE
  /\ UNCHANGED <<spool, beside, told, boxVars, kevyVars, file, retry, todo, tgts, tgt, walk,
                 deaths, stale, crashes, faults, reinjects>>

-----------------------------------------------------------------------------
(* One target of the recipient: an address on another server gets a job in *)
(* the outbound queue, a mailbox what its script and settings decide.      *)

\* t is next: the local forwards of a mailbox go right after it.
Turn(t) ==
  /\ pc = "targets" /\ t \in tgts
  /\ t.counts => \A u \in tgts : u.counts

\* The target cannot be looked up, or its maildir cannot be made.
TargetFails(t) ==
  /\ Turn(t) /\ Fault /\ Miss(t)
  /\ UNCHANGED <<spoolVars, boxVars, kevyVars, pc, handVars, todo, rcpt, tgt, any, walk,
                 deaths, durable, stale, crashes, reinjects>>

Relay(t) ==
  /\ Turn(t) /\ t.to \in Outside
  /\ QueueOnce(Key("relay", rcpt, t.to)) /\ Consume(t)
  /\ UNCHANGED <<spoolVars, boxVars, pc, handVars, todo, rcpt, tgt, any, walk, histVars>>

RelayFails(t) ==
  /\ Turn(t) /\ t.to \in Outside
  /\ Fault /\ QueueFails(Key("relay", rcpt, t.to)) /\ Miss(t)
  /\ UNCHANGED <<spoolVars, boxVars, pc, handVars, todo, rcpt, tgt, any, walk,
                 deaths, durable, stale, crashes, reinjects>>

Decided(t, decision) == Turn(t) /\ t.to \in Boxes /\ decision \in Sieve[t.to]

Drop(t) == dropped' = [dropped EXCEPT ![file] = @ \cup {t.to}]

Discard(t) ==
  /\ Decided(t, "discard") /\ Drop(t) /\ Consume(t)
  /\ UNCHANGED <<spoolVars, inNew, inCur, ingests, sentFiled, sentIndexed, kevyVars,
                 pc, handVars, todo, rcpt, tgt, any, walk, histVars>>

\* Consumed whether or not the notice to the sender could be queued, or was due.
Reject(t) ==
  /\ Decided(t, "reject") /\ Drop(t) /\ Consume(t)
  /\ QueueFails(Key("reject", t.to, t.to))
  /\ UNCHANGED <<spoolVars, inNew, inCur, ingests, sentFiled, sentIndexed,
                 pc, handVars, todo, rcpt, tgt, any, walk, histVars>>

\* A redirect keeps no copy here.
Redirect(t) ==
  /\ Decided(t, "redirect")
  /\ QueueOnce(Key("redirect", t.to, t.to)) /\ Consume(t)
  /\ UNCHANGED <<spoolVars, boxVars, pc, handVars, todo, rcpt, tgt, any, walk, histVars>>

StartWrite(t) == pc' = "write" /\ tgt' = t

\* A redirect refused or not queued falls back to keeping the copy.
RedirectFails(t) ==
  /\ Decided(t, "redirect")
  /\ Fault /\ QueueFails(Key("redirect", t.to, t.to)) /\ StartWrite(t)
  /\ UNCHANGED <<spoolVars, boxVars, handVars, todo, rcpt, tgts, took, missed, any, walk,
                 deaths, durable, stale, crashes, reinjects>>

\* The forwarding set in the settings, with the copy kept here as well; kept
\* too when the settings cannot be read or the job not be queued.
Forward(t) ==
  /\ Decided(t, "forward")
  /\ \/ QueueOnce(Key("forward", t.to, t.to)) /\ UNCHANGED faults
     \/ Fault /\ QueueFails(Key("forward", t.to, t.to))
  /\ StartWrite(t)
  /\ UNCHANGED <<spoolVars, boxVars, handVars, todo, rcpt, tgts, took, missed, any, walk,
                 deaths, durable, stale, crashes, reinjects>>

Keep(t) ==
  /\ Decided(t, "keep") /\ StartWrite(t)
  /\ UNCHANGED <<spoolVars, boxVars, kevyVars, handVars, todo, rcpt, tgts, took, missed, any,
                 walk, histVars>>

-----------------------------------------------------------------------------
(* maildir::deliver and the core's index. *)

InNewOnly(f, b) == inNew[f][b] # "none"    \* mutant: cur/ is not listed

\* A copy an earlier attempt wrote: in new/, or on a retry in cur/ too.
AlreadyThere(f, b) == inNew[f][b] # "none" \/ (retry /\ inCur[f][b] # "none")

FindCopy ==
  /\ pc = "write" /\ AlreadyThere(file, tgt.to)
  /\ pc' = "ingest"
  /\ UNCHANGED <<spoolVars, boxVars, kevyVars, handVars, todo, rcptVars, any, walk, histVars>>

\* fs::write creates the file under its final name ...
CreateCopy ==
  /\ pc = "write" /\ ~AlreadyThere(file, tgt.to)
  /\ inNew' = [inNew EXCEPT ![file][tgt.to] = "torn"]
  /\ pc' = "writing"
  /\ UNCHANGED <<spoolVars, inCur, ingests, dropped, sentFiled, sentIndexed, kevyVars,
                 handVars, todo, rcptVars, any, walk, histVars>>

\* ... and fills it, wherever a client has moved it to.
FinishCopy ==
  /\ pc = "writing"
  /\ IF inNew[file][tgt.to] = "torn"
     THEN inNew' = [inNew EXCEPT ![file][tgt.to] = "whole"] /\ UNCHANGED inCur
     ELSE inCur' = [inCur EXCEPT ![file][tgt.to] = "whole"] /\ UNCHANGED inNew
  /\ pc' = "ingest"
  /\ UNCHANGED <<spoolVars, ingests, dropped, sentFiled, sentIndexed, kevyVars, handVars,
                 todo, rcptVars, any, walk, histVars>>

\* The file cannot be created, or not be filled.
CopyFails ==
  /\ \/ pc = "write" /\ ~AlreadyThere(file, tgt.to)
     \/ pc = "writing"
  /\ Fault /\ Miss(tgt)
  /\ pc' = "targets" /\ tgt' = None
  /\ UNCHANGED <<spoolVars, boxVars, kevyVars, handVars, todo, rcpt, any, walk,
                 deaths, durable, stale, crashes, reinjects>>

\* The index takes a file once; what follows it (pushes, webhooks, counters)
\* happens on every call.
Ingest ==
  /\ pc = "ingest"
  /\ ingests' = [ingests EXCEPT ![file][tgt.to] = @ + 1]
  /\ Consume(tgt)
  /\ pc' = "targets" /\ tgt' = None
  /\ UNCHANGED <<spoolVars, inNew, inCur, dropped, sentFiled, sentIndexed, kevyVars,
                 handVars, todo, rcpt, any, walk, histVars>>

-----------------------------------------------------------------------------
(* The end of an attempt. *)

CloseUnaged ==    \* mutant: a stale file is not moved to unresolved/
  /\ pc = "rcpts" /\ todo = {} /\ file \notin Poison
  /\ spool' = IF any THEN [spool EXCEPT ![file] = "gone"] ELSE spool
  /\ pc' = "finish"
  /\ UNCHANGED <<rec, beside, told, boxVars, kevyVars, handVars, todo, rcptVars, any, walk,
                 histVars>>

\* All recipients seen.  One consumed copy removes the file; with none it stays,
\* and moves to unresolved/ once stale.  A move or removal may fail.
Close ==
  /\ pc = "rcpts" /\ todo = {} /\ file \notin Poison
  /\ \/ /\ any /\ spool' = [spool EXCEPT ![file] = "gone"] /\ UNCHANGED faults
     \/ /\ ~any /\ file \in stale
        /\ spool' = [spool EXCEPT ![file] = "unresolved"] /\ UNCHANGED faults
     \/ /\ ~any /\ file \notin stale /\ UNCHANGED <<spool, faults>>
     \/ /\ any \/ file \in stale
        /\ Fault /\ UNCHANGED spool
  /\ pc' = "finish"
  /\ UNCHANGED <<rec, beside, told, boxVars, kevyVars, handVars, todo, rcptVars, any, walk,
                 deaths, durable, stale, crashes, reinjects>>

LetGoOfFile ==    \* mutant: the recipient in hand survives
  /\ pc' = "idle" /\ file' = None /\ mem' = NoRecord /\ retry' = FALSE
  /\ todo' = {} /\ tgts' = {} /\ tgt' = None
  /\ took' = FALSE /\ any' = FALSE /\ missed' = {} /\ UNCHANGED rcpt

\* What the process holds is gone: at the end of a file, or at its death.
LetGo ==
  /\ pc' = "idle" /\ file' = None /\ mem' = NoRecord /\ retry' = FALSE
  /\ todo' = {} /\ rcpt' = None /\ tgts' = {} /\ tgt' = None
  /\ took' = FALSE /\ any' = FALSE /\ missed' = {}

RestForgetful == NoRecord    \* mutant: the done steps are not kept

\* What is kept of an attempt that leaves its file for another tick.
Rest == [mem EXCEPT !.attempts = 0]

\* A record whose removal fails names a file that is gone, and is never read.
Finish ==
  /\ pc = "finish"
  /\ IF spool[file] = "incoming"
     THEN Save(file, Rest) /\ UNCHANGED beside
     ELSE /\ rec' = [rec EXCEPT ![file] = NoRecord]
          /\ beside' = [beside EXCEPT ![file] = NoRecord]
          /\ UNCHANGED durable
  /\ deaths' = [deaths EXCEPT ![file] = 0]
  /\ LetGo
  /\ UNCHANGED <<spool, told, boxVars, kevyVars, walk, stale, crashes, faults, reinjects>>

-----------------------------------------------------------------------------
(* Setting a file aside: the record beside it, the file, its attempt record, *)
(* the postmaster's notice.                                                  *)

AsideRecordEmpty ==    \* mutant: the record beside starts afresh
  /\ pc = "aside" /\ pc' = "move"
  /\ beside' = [beside EXCEPT ![file] = [mem EXCEPT !.done = {}]]
  /\ UNCHANGED <<spool, rec, told, boxVars, kevyVars, handVars, todo, rcptVars, any, walk,
                 histVars>>

AsideRecord ==
  /\ pc = "aside"
  /\ beside' = [beside EXCEPT ![file] = mem]
  /\ pc' = "move"
  /\ UNCHANGED <<spool, rec, told, boxVars, kevyVars, handVars, todo, rcptVars, any, walk,
                 histVars>>

AsideMoveFirst ==    \* mutant: the file first, the record after it
  /\ pc = "aside"
  /\ spool' = [spool EXCEPT ![file] = "quarantine"]
  /\ pc' = "forget"
  /\ UNCHANGED <<rec, beside, told, boxVars, kevyVars, handVars, todo, rcptVars, any, walk,
                 histVars>>

AsideRemove ==    \* mutant: the file is removed, not moved
  /\ pc = "move"
  /\ spool' = [spool EXCEPT ![file] = "gone"]
  /\ pc' = "forget"
  /\ UNCHANGED <<rec, beside, told, boxVars, kevyVars, handVars, todo, rcptVars, any, walk,
                 histVars>>

AsideMove ==
  /\ pc = "move"
  /\ spool' = [spool EXCEPT ![file] = "quarantine"]
  /\ pc' = "forget"
  /\ UNCHANGED <<rec, beside, told, boxVars, kevyVars, handVars, todo, rcptVars, any, walk,
                 histVars>>

\* Neither could be done: the file is tried again.
AsideFails ==
  /\ pc \in {"aside", "move"}
  /\ Fault /\ LetGo
  /\ UNCHANGED <<spoolVars, boxVars, kevyVars, walk, deaths, durable, stale, crashes, reinjects>>

AsideForget ==
  /\ pc = "forget"
  /\ \/ rec' = [rec EXCEPT ![file] = NoRecord] /\ UNCHANGED faults
     \/ Fault /\ UNCHANGED rec
  /\ pc' = "tell"
  /\ UNCHANGED <<spool, beside, told, boxVars, kevyVars, handVars, todo, rcptVars, any, walk,
                 deaths, durable, stale, crashes, reinjects>>

TellNobody ==    \* mutant: no notice is spooled
  /\ pc = "tell" /\ LetGo
  /\ UNCHANGED <<spoolVars, boxVars, kevyVars, walk, histVars>>

Tell ==
  /\ pc = "tell"
  /\ \/ told' = told \cup {file} /\ UNCHANGED faults
     \/ Fault /\ UNCHANGED told
  /\ LetGo
  /\ UNCHANGED <<spool, rec, beside, boxVars, kevyVars, walk, deaths, durable, stale, crashes,
                 reinjects>>

-----------------------------------------------------------------------------
(* Deaths of the process, and what happens outside it. *)

Die ==
  /\ LetGo /\ walk' = {}
  /\ deaths' = [deaths EXCEPT ![file] = IF Attempting THEN @ + 1 ELSE @]
  /\ UNCHANGED <<spoolVars, boxVars, kevyVars, durable, stale, faults, reinjects>>

\* A deploy, an OOM kill: anywhere.
Crash == pc # "idle" /\ crashes < MaxCrashes /\ crashes' = crashes + 1 /\ Die

\* The message itself takes the process down, before its attempt can close.
PoisonDies == Attempting /\ file \in Poison /\ Die /\ UNCHANGED crashes

\* A client sets a flag: the copy moves from new/ to cur/ (mark_processed).
ClientMoves(f, b) ==
  /\ inNew[f][b] # "none" /\ inCur[f][b] = "none"
  /\ inCur' = [inCur EXCEPT ![f][b] = inNew[f][b]]
  /\ inNew' = [inNew EXCEPT ![f][b] = "none"]
  /\ UNCHANGED <<spoolVars, ingests, dropped, sentFiled, sentIndexed, kevyVars, procVars,
                 histVars>>

\* The operator moves a quarantined file back, under its name.
Reinject(f) ==
  /\ spool[f] = "quarantine" /\ reinjects < MaxReinjects
  /\ spool' = [spool EXCEPT ![f] = "incoming"]
  /\ told' = told \ {f}
  /\ deaths' = [deaths EXCEPT ![f] = 0]
  /\ reinjects' = reinjects + 1
  /\ UNCHANGED <<rec, beside, boxVars, kevyVars, procVars, durable, stale, crashes, faults>>

\* A once-key outlives any file the drain still retries, but not one in
\* quarantine for longer than its life.
ExpireMarker(k) ==
  /\ MarkersExpire /\ k \in marker /\ spool[k[1]] = "quarantine"
  /\ marker' = marker \ {k}
  /\ UNCHANGED <<spoolVars, boxVars, jobs, again, procVars, histVars>>

Age(f) ==
  /\ spool[f] = "incoming" /\ f \notin stale
  /\ stale' = stale \cup {f}
  /\ UNCHANGED <<spoolVars, boxVars, kevyVars, procVars, deaths, durable, crashes, faults,
                 reinjects>>

-----------------------------------------------------------------------------
Walk == StartTick \/ \E f \in Files : Begin(f) \/ Refuse(f)

SendersCopy == SkipSender \/ WriteSent \/ SentDone \/ SentFails

EachRcpt == (\E r \in Rcpts : SkipDone(r) \/ LookupFails(r) \/ StartRcpt(r)) \/ EndRcpt

Serve(t) == \/ TargetFails(t) \/ Relay(t) \/ RelayFails(t) \/ Discard(t) \/ Reject(t)
            \/ Redirect(t) \/ RedirectFails(t) \/ Forward(t) \/ Keep(t)

Copy == FindCopy \/ CreateCopy \/ FinishCopy \/ CopyFails \/ Ingest

SetAside == AsideRecord \/ AsideMove \/ AsideFails \/ AsideForget \/ Tell

\* The drain's own next step.
Drain == \/ Walk \/ SendersCopy \/ EachRcpt \/ (\E t \in Target : Serve(t)) \/ Copy
         \/ Close \/ Finish \/ SetAside \/ PoisonDies

Environment ==
  \/ Crash
  \/ \E f \in Files : Arrive(f) \/ Reinject(f) \/ Age(f) \/ (\E b \in Boxes : ClientMoves(f, b))
  \/ \E k \in Keys : ExpireMarker(k)

Next == Drain \/ Environment

Spec == Init /\ [][Next]_vars

\* The process runs whenever it can and a file grows older; nothing obliges
\* clients, the operator or the receiver.
FairSpec == Spec /\ WF_vars(Drain) /\ \A f \in Files : WF_vars(Age(f))

-----------------------------------------------------------------------------
(* Properties. *)

SpoolTypeOK ==
  /\ spool \in [Files -> {"absent", "incoming", "gone", "unresolved", "quarantine"}]
  /\ rec \in [Files -> Record] /\ beside \in [Files -> Record]
  /\ told \subseteq Files

BoxTypeOK ==
  /\ inNew \in [Files -> [Boxes -> {"none", "torn", "whole"}]]
  /\ inCur \in [Files -> [Boxes -> {"none", "torn", "whole"}]]
  /\ ingests \in [Files -> [Boxes -> Nat]]
  /\ dropped \in [Files -> SUBSET Boxes]
  /\ sentFiled \in [Files -> Nat] /\ sentIndexed \subseteq Files

KevyTypeOK == marker \subseteq Keys /\ jobs \subseteq Keys /\ again \subseteq Keys

ProcTypeOK ==
  /\ pc \in {"idle", "aside", "move", "forget", "tell"} \cup AttemptPcs
  /\ pc # "idle" => file \in Files
  /\ mem \in Record /\ retry \in BOOLEAN
  /\ todo \subseteq Rcpts
  /\ pc \in RcptPcs => rcpt \in Rcpts
  /\ pc \notin RcptPcs => rcpt = None
  /\ tgts \subseteq Target
  /\ pc \in {"write", "writing", "ingest"} => tgt \in Target /\ tgt.to \in Boxes
  /\ took \in BOOLEAN /\ any \in BOOLEAN
  /\ missed \subseteq Rcpts \cup Addresses /\ walk \subseteq Files

HistTypeOK ==
  /\ deaths \in [Files -> Nat] /\ durable \in [Files -> SUBSET Steps]
  /\ stale \subseteq Files
  /\ crashes \in Nat /\ faults \in Nat /\ reinjects \in Nat

TypeOK == SpoolTypeOK /\ BoxTypeOK /\ KevyTypeOK /\ ProcTypeOK /\ HistTypeOK

(* What shows that a recipient was served: for some target, a copy in the  *)
(* mailbox, a decision of its script not to keep one, or a queued job.     *)
HasCopy(f, b) == inNew[f][b] # "none" \/ inCur[f][b] # "none"

Reached(f, r, a) ==
  \/ a \in Outside /\ <<f, "relay", r, a>> \in jobs
  \/ a \in Boxes /\ \/ HasCopy(f, a) \/ a \in dropped[f]
                    \/ <<f, "redirect", a, a>> \in jobs

Served(f, r) == \E a \in Targets[r] : Reached(f, r, a)

-----------------------------------------------------------------------------
(* Safety and liveness. *)

(***************************************************************************)
(* A recipient whose service an attempt recorded on disk is never served   *)
(* again, whichever deaths, failed removals, quarantines and re-injections *)
(* lie between (attempts::begin, each_recipient).                          *)
(***************************************************************************)
DoneNotServedAgain == rcpt # None => rcpt \notin durable[file]

(***************************************************************************)
(* A file in quarantine has a record beside it that names every step ever  *)
(* recorded as done, so moving the file back forgets none of them          *)
(* (quarantine::set_aside: "the record first").                            *)
(***************************************************************************)
QuarantineRemembers ==
  \A f \in Files : spool[f] = "quarantine" => beside[f].kept /\ durable[f] \subseteq beside[f].done

(***************************************************************************)
(* The inductive reason for the two above: what the next attempt would     *)
(* start from, the record in memory and the one being set beside the file  *)
(* all hold every step on disk, and the file in hand is where the drain    *)
(* believes it to be (attempts.rs, quarantine.rs).                         *)
(***************************************************************************)
EarlierCovers ==
  \A f \in Files : spool[f] \in {"absent", "incoming", "quarantine"}
                     => durable[f] \subseteq Earlier(f).done

HandCovers ==
  Attempting \/ pc \in {"aside", "move"} => mem.kept /\ durable[file] \subseteq mem.done

AsideCovers ==
  pc \in {"move", "forget"} => beside[file].kept /\ durable[file] \subseteq beside[file].done

InHand ==
  /\ (Attempting /\ pc # "finish") \/ pc \in {"aside", "move"} => spool[file] = "incoming"
  /\ pc = "finish" => spool[file] \in {"incoming", "gone", "unresolved"}
  /\ \A f \in walk : spool[f] = "incoming" /\ (pc # "idle" => f # file)

RcptFresh == rcpt # None => rcpt \notin mem.done

Remembers ==
  EarlierCovers /\ QuarantineRemembers /\ HandCovers /\ AsideCovers /\ InHand /\ RcptFresh

(***************************************************************************)
(* A recipient recorded as served really was: for one of its targets there *)
(* is a copy on disk, a decision of its script, or a job in the queue; and *)
(* a Sent copy recorded as filed is one the index knows (each_recipient,   *)
(* file_senders_copy: recorded after the step, never before it).           *)
(***************************************************************************)
DoneMeansServed ==
  \A f \in Files : /\ \A r \in durable[f] \cap Rcpts : Served(f, r)
                   /\ Sent \in durable[f] => f \in sentIndexed

(***************************************************************************)
(* When the drain removes a file, every recipient of it was served or is   *)
(* named among the unresolved ones of the attempt, as it stands or by the  *)
(* address its route leads to (deliver_file); bounces to rewritten         *)
(* addresses are the exception deliver_to makes.                           *)
(***************************************************************************)
Removes(f) == spool[f] = "incoming" /\ spool'[f] = "gone"

Named(r) == r \in missed \/ Targets[r] \cap missed # {}

RemovalAccounts ==
  [][\A f \in Files : Removes(f) => \A r \in To[f] \ Srs : Served(f, r) \/ Named(r)]_vars

(***************************************************************************)
(* A mailbox that one recipient of a file reaches, in one way, holds one   *)
(* copy of it, though a client moves the copy to cur/ between two attempts *)
(* (maildir::deliver).                                                     *)
(***************************************************************************)
Ways(f, b) ==
  {w \in To[f] \X Boxes : /\ w[2] \in Targets[w[1]]
                          /\ w[2] = b \/ b \in LocalForward[w[2]]}

ReachedOneWay(f, b) == \A v, w \in Ways(f, b) : v = w

NoDoubleCopy ==
  \A f \in Files, b \in Boxes :
    ReachedOneWay(f, b) => ~(inNew[f][b] # "none" /\ inCur[f][b] # "none")

(***************************************************************************)
(* However often a file is drained, an outbound job of it is queued once   *)
(* per recipient and address (write_fresh_pending_once).                   *)
(***************************************************************************)
JobOnce == again = {}

(***************************************************************************)
(* What follows the index (a push, a webhook) is repeated for a copy only  *)
(* when the process died in between: one more time for each death.         *)
(***************************************************************************)
RepeatsCostDeaths ==
  \A f \in Files \ Poison, b \in Boxes : ReachedOneWay(f, b) => ingests[f][b] <= 1 + crashes

(***************************************************************************)
(* A file takes the process down at most Limit times before it is set      *)
(* aside, and again after each time the operator moves it back             *)
(* (attempts::LIMIT).                                                      *)
(***************************************************************************)
DeathsBounded == \A f \in Files : deaths[f] <= Limit

(***************************************************************************)
(* Every file leaves the spool: delivered, unresolved for too long, or in  *)
(* quarantine; none waits for good behind a file that kills the process.   *)
(***************************************************************************)
Settles == \A f \in Files : spool[f] = "incoming" ~> spool[f] # "incoming"

(***************************************************************************)
(* The postmaster misses the notice of a quarantined file only when the    *)
(* process died, or the disk failed, before it was spooled (notify).       *)
(***************************************************************************)
NoticeLostOnlyByFailure ==
  \A f \in Files : spool[f] = "quarantine" /\ f \notin told /\ file # f => crashes + faults > 0

(***************************************************************************)
(* The drain keeps the spool's promise: a file is removed only after one of *)
(* its recipients was served, and what was served is never lost.            *)
(***************************************************************************)
Promise == INSTANCE SpoolPromise WITH
  place  <- spool,
  served <- [f \in Files |-> {r \in To[f] : Served(f, r)}]

PromiseKept == Promise!Spec

(* What the documentation says and the code does not do. *)

(***************************************************************************)
(* Delivery is at least once: a copy the index was given is on disk, whole.*)
(***************************************************************************)
IndexedCopyIsWhole ==
  \A f \in Files, b \in Boxes :
    ingests[f][b] > 0 => "whole" \in {inNew[f][b], inCur[f][b]}
=============================================================================
