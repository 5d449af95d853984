----------------------------- MODULE OutboundQueue -----------------------------
(***************************************************************************)
(* The outbound queue of crates/core-sidestate (families/outbound) and the *)
(* processes that work on it: the sender (crates/fastcore, bin/sender),    *)
(* which claims a job, sends it and settles it, and the requests of people *)
(* (crates/webapi, the account delete), which cancel, move, withhold,      *)
(* retry and release jobs meanwhile.  All share one network store: a       *)
(* command, a pipeline or a WATCH/MULTI transaction on it is one step, and *)
(* between two steps anybody may act and the sender may die.  A job is one *)
(* message to one recipient; all jobs are of one account.                  *)
(***************************************************************************)
EXTENDS Naturals, Sequences, FiniteSets

CONSTANTS
  Jobs,         \* job ids, each allocated once
  Senders,      \* sender processes sharing the queue
  Later,        \* SUBSET Jobs: those that may be scheduled for later (or wait out an undo window)
  Asks,         \* SUBSET Requests: what people ask for in this instance
  Limit,        \* recover::INTERRUPTED_LIMIT
  MaxAttempts,  \* cfg.max_attempts
  NoJob         \* nothing in hand

CONSTANTS       \* bounds of the environment
  MaxStops,     \* deaths of a sender, or store calls that fail on it
  MaxAsks,      \* requests people make
  MaxBlips,     \* reads of a claimed job's message that fail
  SlowSend      \* whether a live sender may hold a job longer than STALE_SECS

Requests == {"cancel", "reschedule", "withhold", "release", "retry", "unset",
             "pause", "resume"}

ASSUME ConstantsAssumption ==
  /\ Later \subseteq Jobs /\ Asks \subseteq Requests /\ NoJob \notin Jobs
  /\ IsFiniteSet(Senders)
  /\ Limit \in Nat \ {0} /\ MaxAttempts \in Nat \ {0}
  /\ MaxStops \in Nat /\ MaxAsks \in Nat /\ MaxBlips \in Nat
  /\ SlowSend \in BOOLEAN

VARIABLES
  row,      \* the job hash of each id
  pending,  \* pending-idx: pushed at its head, popped at its end
  idx,      \* the sets and sorted sets of ids, by name
  due,      \* the jobs whose send time has passed
  paused,   \* outbound:paused of the account
  snd,      \* what each sender has in hand
  web,      \* the request being served
  tale,     \* what became of each job, for the properties
  spare     \* what is left of the bounds

store == <<row, pending, idx, due, paused>>
vars  == <<store, snd, web, tale, spare>>

-----------------------------------------------------------------------------
(* The store *)

States == {"none", "pending", "inflight", "delivered", "failed", "held",
           "withheld", "set_aside"}
Ages   == {"none", "fresh", "stale"}  \* a time: absent, within STALE_SECS, older
Names  == {"scheduled", "retry", "withheld", "held", "set_aside", "failed"}

Row == [state : States,
        blob : {"none", "message", "filler"},  \* the envelope with its message
        tries : Nat,                \* attempts in the envelope
        ripe : BOOLEAN,             \* the floor after the last attempt has passed
        claimed : Ages, updated : Ages,        \* claimed_at, updated_at
        interrupted : Nat,          \* claims that dead senders left behind
        expires : BOOLEAN]          \* the row has a day to live

\* A row that is not there; HSET on it makes one with the fields it sets.
NoRow == [state |-> "none", blob |-> "none", tries |-> 0, ripe |-> TRUE,
          claimed |-> "none", updated |-> "none", interrupted |-> 0, expires |-> FALSE]

NewRow == [NoRow EXCEPT !.state = "pending", !.blob = "message", !.updated = "fresh"]

Push(j)      == pending' = <<j>> \o pending
Add(name, j) == idx' = [idx EXCEPT ![name] = @ \cup {j}]
Del(name, j) == idx' = [idx EXCEPT ![name] = @ \ {j}]

UnindexedBlind(j) ==    \* mutant: a job waiting for its send time is not seen
  /\ j \notin idx["retry"] /\ \A i \in DOMAIN pending : pending[i] # j

\* A pending job that waits nowhere: its id was popped and the claim did not take.
\* The three indexes are read one after the other; what moves meanwhile moves as
\* well before the row is put back, which is a step of its own.
Unindexed(j) == /\ j \notin idx["scheduled"] \cup idx["retry"]
                /\ \A i \in DOMAIN pending : pending[i] # j

\* HSET state and updated_at, the fields of most transitions of a row.
Mark(r, state) == [r EXCEPT !.state = state, !.updated = "fresh"]

\* The terminal transition: the claim goes, and the row is kept for a day.
Final(r, state) == [Mark(r, state) EXCEPT !.claimed = "none", !.expires = TRUE]

-----------------------------------------------------------------------------
(* The processes *)

\* Where a sender is between two calls to the store, with a job in hand.
Holding  == {"claimed", "check", "hold", "send", "sent", "fail", "failed", "refill"}
Settling == {"held", "park", "parked", "queue", "refilled"}
Sweeping == {"due_scheduled", "due_retry", "leave_scheduled", "leave_retry",
             "look", "report"}
Pcs      == {"idle", "popped"} \cup Holding \cup Settling \cup Sweeping

Idle == [pc |-> "idle", job |-> NoJob, tries |-> 0]

At(s, pc)      == snd[s].pc = pc
Goto(s, pc)    == snd' = [snd EXCEPT ![s].pc = pc]
Take(s, pc, j) == snd' = [snd EXCEPT ![s] = [pc |-> pc, job |-> j, tries |-> 0]]
Rest(s)        == snd' = [snd EXCEPT ![s] = Idle]

\* A live sender works on its claim of the job.
InHand(s, j) == snd[s].job = j /\ snd[s].pc \in Holding

\* A sender has claimed the job and is not done writing what became of it.
AtWork(s, j) == snd[s].job = j /\ snd[s].pc \in Holding \cup Settling

WebPcs  == {"idle", "move", "mark", "take", "undo", "restore", "relist", "retry",
            "send", "discard"}
WebIdle == [pc |-> "idle", job |-> NoJob, ids |-> {}]

Quiet(j) == /\ \A s \in Senders : snd[s].job # j
            /\ web.job # j /\ j \notin web.ids

(* The history of a job: queued, how often a receiving server took it, how
   often a sender stopped over it, and with its claim, how often somebody else
   than the sender made it pending again, whether a cancel answered yes, the
   account's delete has it and no sender was at work on it, or it ended:
   delivered, failed, or removed. *)
Tale == [queued : BOOLEAN, accepted : Nat, stops : Nat, killed : Nat, again : Nat,
         cancelled : BOOLEAN, taken : BOOLEAN, ended : BOOLEAN]

NoTale == [queued |-> FALSE, accepted |-> 0, stops |-> 0, killed |-> 0, again |-> 0,
           cancelled |-> FALSE, taken |-> FALSE, ended |-> FALSE]

Spend(bound) == spare[bound] > 0 /\ spare' = [spare EXCEPT ![bound] = @ - 1]

TypeOK ==
  /\ row \in [Jobs -> Row] /\ pending \in Seq(Jobs)
  /\ idx \in [Names -> SUBSET Jobs] /\ due \subseteq Jobs /\ paused \in BOOLEAN
  /\ snd \in [Senders -> [pc : Pcs, job : Jobs \cup {NoJob}, tries : Nat]]
  /\ web \in [pc : WebPcs, job : Jobs \cup {NoJob}, ids : SUBSET Jobs]
  /\ tale \in [Jobs -> Tale]
  /\ spare \in [{"stops", "asks", "blips"} -> Nat]

Init ==
  /\ row = [j \in Jobs |-> NoRow] /\ pending = <<>>
  /\ idx = [n \in Names |-> {}] /\ due = {} /\ paused = FALSE
  /\ snd = [s \in Senders |-> Idle] /\ web = WebIdle
  /\ tale = [j \in Jobs |-> NoTale]
  /\ spare = [stops |-> MaxStops, asks |-> MaxAsks, blips |-> MaxBlips]

-----------------------------------------------------------------------------
(* Queueing, and time *)

\* write_pending_marked: the job and its index in one pipeline; a send time ahead
\* makes that scheduled-idx.
Enqueue(j) ==
  /\ ~tale[j].queued
  /\ row' = [row EXCEPT ![j] = NewRow]
  /\ tale' = [tale EXCEPT ![j].queued = TRUE]
  /\ \/ Push(j) /\ due' = due \cup {j} /\ UNCHANGED idx
     \/ j \in Later /\ Add("scheduled", j) /\ UNCHANGED <<pending, due>>
  /\ UNCHANGED <<paused, snd, web, spare>>

\* The send time of a scheduled job comes.
SendTime(j) ==
  /\ tale[j].queued /\ j \notin due
  /\ due' = due \cup {j}
  /\ UNCHANGED <<row, pending, idx, paused, snd, web, tale, spare>>

\* The retry floor of the last attempt passes.
Ripen(j) ==
  /\ ~row[j].ripe
  /\ row' = [row EXCEPT ![j].ripe = TRUE]
  /\ UNCHANGED <<pending, idx, due, paused, snd, web, tale, spare>>

\* STALE_SECS pass over the times of a row.  A live process is done with a job
\* it has in hand before that, unless sends are slow.
Age(j) ==
  /\ Quiet(j) \/ SlowSend
  /\ \/ row[j].claimed = "fresh" \/ row[j].updated = "fresh"
  /\ LET Old(age) == IF age = "none" THEN "none" ELSE "stale" IN
     row' = [row EXCEPT ![j].claimed = Old(@), ![j].updated = Old(@)]
  /\ UNCHANGED <<pending, idx, due, paused, snd, web, tale, spare>>

\* The day a settled row is kept is over.
Expire(j) ==
  /\ row[j].expires /\ Quiet(j)
  /\ row' = [row EXCEPT ![j] = NoRow]
  /\ UNCHANGED <<pending, idx, due, paused, snd, web, tale, spare>>

-----------------------------------------------------------------------------
(* The sender: what it does between two jobs *)

\* promote_due: a member whose score is in the past is pushed, and leaves its
\* zset after.  Its claim, not its place, says whether it may be sent.
FindDue(s, j) ==
  /\ At(s, "idle")
  /\ \/ j \in idx["scheduled"] \cap due /\ Take(s, "due_scheduled", j)
     \/ j \in idx["retry"] /\ row[j].ripe /\ Take(s, "due_retry", j)
  /\ UNCHANGED <<store, web, tale, spare>>

Promote(s) ==
  /\ \/ At(s, "due_scheduled") /\ Goto(s, "leave_scheduled")
     \/ At(s, "due_retry") /\ Goto(s, "leave_retry")
  /\ Push(snd[s].job)
  /\ UNCHANGED <<row, idx, due, paused, web, tale, spare>>

Promoted(s) ==
  /\ \/ At(s, "leave_scheduled") /\ Del("scheduled", snd[s].job)
     \/ At(s, "leave_retry") /\ Del("retry", snd[s].job)
  /\ Rest(s)
  /\ UNCHANGED <<row, pending, due, paused, web, tale, spare>>

LeftOrInUse(j) == row[j].state = "inflight"    \* mutant: the age of the claim is ignored

\* A claim that a dead sender left behind, and how many of the job that makes.
LeftBehind(j)  == row[j].state = "inflight" /\ row[j].claimed = "stale"
NotCounted(j)  == row[j].interrupted    \* mutant: the claim is not counted
Interrupted(j) == row[j].interrupted + 1

\* reset_stale_inflight, under WATCH.
ResetStale(s, j) ==
  /\ At(s, "idle") /\ LeftBehind(j)
  /\ LET n == Interrupted(j)
         Back(state) == [Mark(row[j], state) EXCEPT !.claimed = "none", !.interrupted = n]
     IN \/ /\ n < Limit
           /\ row' = [row EXCEPT ![j] = Back("pending")]
           /\ Push(j) /\ UNCHANGED <<idx, snd>>
        \/ /\ n >= Limit
           /\ row' = [row EXCEPT ![j] = Back("set_aside")]
           /\ Add("set_aside", j) /\ Take(s, "report", j) /\ UNCHANGED pending
  /\ UNCHANGED <<due, paused, web, tale, spare>>

\* report_set_aside: the record the admin queue page reads.
Report(s) ==
  /\ At(s, "report") /\ Add("failed", snd[s].job) /\ Rest(s)
  /\ UNCHANGED <<row, pending, due, paused, web, tale, spare>>

\* requeue_unindexed: the indexes are read, then the row is put back under WATCH.
Look(s, j) ==
  /\ At(s, "idle") /\ row[j].state = "pending" /\ row[j].updated = "stale"
  /\ Unindexed(j)
  /\ Take(s, "look", j)
  /\ UNCHANGED <<store, web, tale, spare>>

PutBackUnqueued(s) ==    \* mutant: the id is not pushed
  /\ At(s, "look") /\ Rest(s)
  /\ row' = [row EXCEPT ![snd[s].job].updated = "fresh"]
  /\ UNCHANGED <<pending, idx, due, paused, web, tale, spare>>

PutBack(s) ==
  /\ At(s, "look") /\ Rest(s)
  /\ LET j == snd[s].job IN
     IF row[j].state = "pending"
     THEN row' = [row EXCEPT ![j].updated = "fresh"] /\ Push(j)
     ELSE UNCHANGED <<row, pending>>
  /\ UNCHANGED <<idx, due, paused, web, tale, spare>>

\* pause::sweep, drop_held: held mail past the queue's lifetime is bounced.
DropHeld(s, j) ==
  /\ At(s, "idle") /\ paused /\ j \in idx["held"]
  /\ Del("held", j)
  /\ row' = [row EXCEPT ![j] = NoRow]
  /\ tale' = [tale EXCEPT ![j].ended = TRUE]
  /\ UNCHANGED <<pending, due, paused, snd, web, spare>>

-----------------------------------------------------------------------------
(* The sender: one job *)

\* pop_next: BRPOP takes the id whatever the claim will say.
Pop(s) ==
  /\ At(s, "idle") /\ pending # <<>>
  /\ Take(s, "popped", pending[Len(pending)])
  /\ pending' = SubSeq(pending, 1, Len(pending) - 1)
  /\ UNCHANGED <<row, idx, due, paused, web, tale, spare>>

ClaimableAnyway(j) == row[j] # NoRow    \* mutant: the state is not looked at
Claimable(j)       == row[j].state = "pending"

\* try_claim: the state is read under WATCH and set in the transaction.
Claim(s) ==
  /\ At(s, "popped") /\ Claimable(snd[s].job)
  /\ row' = [row EXCEPT ![snd[s].job].state = "inflight", ![snd[s].job].claimed = "fresh"]
  /\ Goto(s, "claimed")
  /\ UNCHANGED <<pending, idx, due, paused, web, tale, spare>>

\* A job that is gone or not pending: the popped id was a stray copy.
SkipClaim(s) ==
  /\ At(s, "popped") /\ ~Claimable(snd[s].job)
  /\ Rest(s)
  /\ UNCHANGED <<store, web, tale, spare>>

\* load_envelope, and the start of process_one: a job without a message is
\* left as it is, a malformed one fails, one picked up too soon is parked.
Load(s) ==
  /\ At(s, "claimed")
  /\ LET r == row[snd[s].job] IN
     \/ r.blob = "none" /\ Rest(s)
     \/ r.blob = "filler" /\ Goto(s, "fail")
     \/ /\ r.blob = "message"
        /\ snd' = [snd EXCEPT ![s].pc = IF r.ripe THEN "check" ELSE "park", ![s].tries = r.tries]
  /\ UNCHANGED <<store, web, tale, spare>>

\* The read of the envelope fails: a filler takes its place.
LoadFails(s) ==
  /\ At(s, "claimed") /\ Goto(s, "refill") /\ Spend("blips")
  /\ UNCHANGED <<store, web, tale>>

\* pause::decide: an account that is paused, or over its limit with this first
\* attempt, has the job held.
Check(s) ==
  /\ At(s, "check")
  /\ \/ ~paused /\ Goto(s, "send") /\ UNCHANGED paused
     \/ paused /\ Goto(s, "hold") /\ UNCHANGED paused
     \/ /\ ~paused /\ "pause" \in Asks /\ snd[s].tries = 0
        /\ paused' = TRUE /\ Goto(s, "hold")
  /\ UNCHANGED <<row, pending, idx, due, web, tale, spare>>

\* pause::held: a check that fails, half done or not, lets the job go.
CheckFails(s) ==
  /\ snd[s].pc \in {"check", "hold", "held"}
  /\ Goto(s, "send") /\ Spend("stops")
  /\ UNCHANGED <<store, web, tale>>

\* pause::hold, its two writes.
Hold(s) ==
  /\ At(s, "hold") /\ Goto(s, "held")
  /\ row' = [row EXCEPT ![snd[s].job].state = "held"]
  /\ UNCHANGED <<pending, idx, due, paused, web, tale, spare>>

ListHeld(s) ==
  /\ At(s, "held") /\ Add("held", snd[s].job) /\ Rest(s)
  /\ UNCHANGED <<row, pending, due, paused, web, tale, spare>>

\* try_deliver, Outcome::Delivered: a receiving server has the message.
Accept(s) ==
  /\ At(s, "send") /\ Goto(s, "sent")
  /\ tale' = [tale EXCEPT ![snd[s].job].accepted = @ + 1]
  /\ UNCHANGED <<store, web, spare>>

\* A refusal by the attachment rules, Outcome::Permanent (which may pause the
\* account), or the end of the queue lifetime: the sender is told.
Bounce(s) ==
  /\ At(s, "send") /\ Goto(s, "fail")
  /\ \/ UNCHANGED paused
     \/ "pause" \in Asks /\ paused' = TRUE
  /\ UNCHANGED <<row, pending, idx, due, web, tale, spare>>

\* Outcome::Transient with attempts left.
Defer(s) ==
  /\ At(s, "send") /\ snd[s].tries + 1 < MaxAttempts
  /\ snd' = [snd EXCEPT ![s].pc = "park", ![s].tries = @ + 1]
  /\ UNCHANGED <<store, web, tale, spare>>

\* drop_blob.
Deliver(s) ==
  /\ At(s, "sent") /\ Rest(s)
  /\ row' = [row EXCEPT ![snd[s].job] = Final(@, "delivered")]
  /\ tale' = [tale EXCEPT ![snd[s].job].ended = TRUE]
  /\ UNCHANGED <<pending, idx, due, paused, web, spare>>

\* move_to_failed: the record for people, then the state.
RecordFailure(s) ==
  /\ At(s, "fail") /\ Add("failed", snd[s].job) /\ Goto(s, "failed")
  /\ UNCHANGED <<row, pending, due, paused, web, tale, spare>>

FailBounced(s) ==    \* mutant: a state that nothing else knows
  /\ At(s, "failed") /\ Rest(s)
  /\ row' = [row EXCEPT ![snd[s].job] = Final(@, "bounced")]
  /\ UNCHANGED <<pending, idx, due, paused, web, tale, spare>>

Fail(s) ==
  /\ At(s, "failed") /\ Rest(s)
  /\ row' = [row EXCEPT ![snd[s].job] = Final(@, "failed")]
  /\ tale' = [tale EXCEPT ![snd[s].job].ended = TRUE]
  /\ UNCHANGED <<pending, idx, due, paused, web, spare>>

\* schedule_retry_on, its three writes: the row with the envelope as the
\* sender has it, the claim, the index.
Park(s) ==
  /\ At(s, "park") /\ Goto(s, "parked")
  /\ row' = [row EXCEPT ![snd[s].job] = [Mark(@, "pending") EXCEPT
               !.blob = "message", !.tries = snd[s].tries, !.ripe = FALSE]]
  /\ UNCHANGED <<pending, idx, due, paused, web, tale, spare>>

Unclaim(s) ==
  /\ At(s, "parked") /\ Goto(s, "queue")
  /\ row' = [row EXCEPT ![snd[s].job].claimed = "none"]
  /\ UNCHANGED <<pending, idx, due, paused, web, tale, spare>>

ListAndPush(s) ==    \* mutant: the id goes back to the queue as well
  /\ At(s, "queue") /\ Add("retry", snd[s].job) /\ Push(snd[s].job) /\ Rest(s)
  /\ UNCHANGED <<row, due, paused, web, tale, spare>>

ListRetry(s) ==
  /\ At(s, "queue") /\ Add("retry", snd[s].job) /\ Rest(s)
  /\ UNCHANGED <<row, pending, due, paused, web, tale, spare>>

\* requeue after a failed read, its two writes: the filler, then the state and
\* the index in one pipeline.
Refill(s) ==
  /\ At(s, "refill") /\ Goto(s, "refilled")
  /\ row' = [row EXCEPT ![snd[s].job].blob = "filler"]
  /\ UNCHANGED <<pending, idx, due, paused, web, tale, spare>>

Requeue(s) ==
  /\ At(s, "refilled") /\ Rest(s)
  /\ row' = [row EXCEPT ![snd[s].job] = [Mark(@, "pending") EXCEPT !.claimed = "none"]]
  /\ Push(snd[s].job)
  /\ UNCHANGED <<idx, due, paused, web, tale, spare>>

\* The sender dies, or the store refuses the next call and the handler gives
\* the job up; a claim whose answer is lost, or that loses the WATCH, ends the
\* same way.  It is back at once: its boot sweep is the ordinary one.
Stop(s) ==
  /\ ~At(s, "idle") /\ Rest(s) /\ Spend("stops")
  /\ LET j == snd[s].job
         k == IF InHand(s, j) /\ row[j].state = "inflight" THEN 1 ELSE 0
     IN tale' = [tale EXCEPT ![j].stops = @ + 1, ![j].killed = @ + k]
  /\ UNCHANGED <<store, web>>

-----------------------------------------------------------------------------
(* The requests of people, one at a time *)

Ask(request) == request \in Asks /\ web = WebIdle /\ Spend("asks")

Answer        == web' = WebIdle
Follow(pc, j) == web' = [pc |-> pc, job |-> j, ids |-> {}]

\* A request makes a job pending and pushes its id: requeue_pending, a pipeline
\* after a check that the row is there; the row's time to live stays.
Again(j) ==
  IF row[j] = NoRow THEN UNCHANGED <<row, pending, tale>>
  ELSE /\ row' = [row EXCEPT ![j] = Mark(@, "pending")] /\ Push(j)
       /\ tale' = [tale EXCEPT ![j].taken = FALSE, ![j].again = @ + 1]

CancellableAnyway(j) == row[j].blob = "message"    \* mutant: not only while it waits

\* cancel_waiting: under WATCH, a job that is pending and whose envelope names
\* the person.
Cancellable(j) == row[j].state = "pending" /\ row[j].blob = "message"

Cancel(j) ==
  /\ Ask("cancel") /\ Cancellable(j)
  /\ row' = [row EXCEPT ![j] = NoRow]
  /\ idx' = [idx EXCEPT !["scheduled"] = @ \ {j}, !["retry"] = @ \ {j}]
  /\ tale' = [tale EXCEPT ![j].cancelled = TRUE]
  /\ UNCHANGED <<pending, due, paused, snd, web>>

\* reschedule: out of the index, and in again at the new time.
Reschedule(j) ==
  /\ Ask("reschedule") /\ row[j].blob = "message" /\ j \in idx["scheduled"]
  /\ Del("scheduled", j) /\ Follow("move", j)
  /\ UNCHANGED <<row, pending, due, paused, snd, tale>>

Move ==
  /\ web.pc = "move" /\ Add("scheduled", web.job) /\ Answer
  /\ due' = due \ {web.job}
  /\ UNCHANGED <<row, pending, paused, snd, tale, spare>>

WithholdUnlisted(j) ==    \* mutant: marked, and not listed before
  /\ Ask("withhold") /\ row[j].blob = "message" /\ j \in idx["scheduled"]
  /\ Follow("mark", j)
  /\ UNCHANGED <<store, snd, tale>>

\* withhold, one job of the deleted account: listed, marked, taken out of the
\* index, and made pending again when somebody else took it out first.
Withhold(j) ==
  /\ Ask("withhold") /\ row[j].blob = "message" /\ j \in idx["scheduled"]
  /\ Add("withheld", j) /\ Follow("mark", j)
  /\ UNCHANGED <<row, pending, due, paused, snd, tale>>

Taken(j) == tale' = [tale EXCEPT ![j].taken = \A s \in Senders : ~AtWork(s, j)]

MarkNothing ==    \* mutant: taken out of the index without a mark
  /\ web.pc = "mark" /\ Follow("take", web.job) /\ Taken(web.job)
  /\ UNCHANGED <<store, snd, spare>>

MarkWithheld ==
  /\ web.pc = "mark" /\ Follow("take", web.job) /\ Taken(web.job)
  /\ row' = [row EXCEPT ![web.job].state = "withheld"]
  /\ UNCHANGED <<pending, idx, due, paused, snd, spare>>

TakeOut ==
  /\ web.pc = "take"
  /\ LET j == web.job IN
     \/ /\ j \in idx["scheduled"] /\ Del("scheduled", j) /\ Answer
        /\ UNCHANGED tale
     \/ /\ j \notin idx["scheduled"] /\ Del("withheld", j) /\ Follow("undo", j)
        /\ tale' = [tale EXCEPT ![j].taken = FALSE]
  /\ UNCHANGED <<row, pending, due, paused, snd, spare>>

Undo ==
  /\ web.pc = "undo" /\ Answer
  /\ LET j == web.job IN
     IF row[j] = NoRow THEN UNCHANGED <<row, tale>>
     ELSE /\ row' = [row EXCEPT ![j].state = "pending"]
          /\ tale' = [tale EXCEPT ![j].again = @ + 1]
  /\ UNCHANGED <<pending, idx, due, paused, snd, spare>>

\* release, one job: off the list; if still withheld, its time decides: back
\* where it waited, or, when it lapsed, a draft.
Release(j) ==
  /\ Ask("release") /\ j \in idx["withheld"] /\ Del("withheld", j)
  /\ IF row[j].state = "withheld" THEN Follow("restore", j) ELSE Answer
  /\ UNCHANGED <<row, pending, due, paused, snd, tale>>

Restore ==
  /\ web.pc = "restore"
  /\ LET j == web.job IN
     \/ /\ row' = [row EXCEPT ![j] = Mark(@, "pending")] /\ Follow("relist", j)
        /\ tale' = [tale EXCEPT ![j].taken = FALSE, ![j].again = @ + 1]
     \/ /\ j \in due
        /\ row' = [row EXCEPT ![j] = NoRow] /\ Answer
        /\ tale' = [tale EXCEPT ![j].ended = TRUE]
  /\ UNCHANGED <<pending, idx, due, paused, snd, spare>>

Relist ==
  /\ web.pc = "relist" /\ Add("scheduled", web.job) /\ Answer
  /\ UNCHANGED <<row, pending, due, paused, snd, tale, spare>>

\* retry_queue_message: a job on the admin's failed list is queued again.
Retry(j) ==
  /\ Ask("retry") /\ j \in idx["failed"]
  /\ Del("failed", j) /\ Follow("retry", j)
  /\ UNCHANGED <<row, pending, due, paused, snd, tale>>

RetryQueued ==
  /\ web.pc = "retry" /\ Again(web.job) /\ Answer
  /\ UNCHANGED <<idx, due, paused, snd, spare>>

\* The operator sends a job that was set aside: HSET state, LPUSH.
Unset(j) ==
  /\ Ask("unset") /\ row[j].state = "set_aside"
  /\ row' = [row EXCEPT ![j].state = "pending"] /\ Push(j)
  /\ tale' = [tale EXCEPT ![j].again = @ + 1]
  /\ UNCHANGED <<idx, due, paused, snd, web>>

\* pause::resume: the held ids are read, each is queued again or deleted, and
\* then the pause and the list of held ids go.
Resume(choice) ==
  /\ Ask("resume") /\ paused
  /\ web' = [pc |-> choice, job |-> NoJob, ids |-> idx["held"]]
  /\ UNCHANGED <<store, snd, tale>>

ResumeOne(j) ==
  /\ j \in web.ids
  /\ web' = [web EXCEPT !.ids = @ \ {j}]
  /\ \/ web.pc = "send" /\ Again(j)
     \/ /\ web.pc = "discard" /\ UNCHANGED pending
        /\ row' = [row EXCEPT ![j] = NoRow]
        /\ tale' = [tale EXCEPT ![j].ended = TRUE]
  /\ UNCHANGED <<idx, due, paused, snd, spare>>

ResumeDone ==
  /\ web.pc \in {"send", "discard"} /\ web.ids = {} /\ Answer
  /\ idx' = [idx EXCEPT !["held"] = {}] /\ paused' = FALSE
  /\ UNCHANGED <<row, pending, due, snd, tale, spare>>

-----------------------------------------------------------------------------
Time(j) == SendTime(j) \/ Ripen(j) \/ Age(j)

OneJob(s) ==
  \/ Pop(s) \/ Claim(s) \/ SkipClaim(s) \/ Load(s) \/ Check(s) \/ Hold(s) \/ ListHeld(s)
  \/ Accept(s) \/ Bounce(s) \/ Defer(s) \/ Deliver(s) \/ RecordFailure(s) \/ Fail(s)
  \/ Park(s) \/ Unclaim(s) \/ ListRetry(s) \/ Refill(s) \/ Requeue(s)

Housekeeping(s) ==
  \/ Promote(s) \/ Promoted(s) \/ Report(s) \/ PutBack(s)
  \/ \E j \in Jobs : FindDue(s, j) \/ ResetStale(s, j) \/ Look(s, j)

Trouble(s) == LoadFails(s) \/ CheckFails(s) \/ Stop(s)

Asked ==
  \/ \E j \in Jobs : \/ Cancel(j) \/ Reschedule(j) \/ Withhold(j) \/ Release(j)
                     \/ Retry(j) \/ Unset(j)
  \/ \E choice \in {"send", "discard"} : Resume(choice)

Served ==
  \/ Move \/ MarkWithheld \/ TakeOut \/ Undo \/ Restore \/ Relist \/ RetryQueued
  \/ ResumeDone \/ \E j \in Jobs : ResumeOne(j)

Next ==
  \/ \E j \in Jobs : Enqueue(j) \/ Time(j) \/ Expire(j)
  \/ \E s \in Senders : \/ OneJob(s) \/ Housekeeping(s) \/ Trouble(s)
                        \/ \E j \in Jobs : DropHeld(s, j)
  \/ Asked \/ Served

Spec == Init /\ [][Next]_vars

\* A sender goes on or is restarted and goes on, time passes, and a request
\* once made is served; nobody has to queue, ask, fail or die.
Fairness ==
  /\ \A s \in Senders : WF_vars(OneJob(s) \/ Housekeeping(s))
  /\ \A j \in Jobs : WF_vars(SendTime(j)) /\ WF_vars(Ripen(j)) /\ WF_vars(Age(j))
  /\ WF_vars(Served)

FairSpec == Spec /\ Fairness

-----------------------------------------------------------------------------
(* Properties *)

\* Two senders never work on claims of the same job (try_claim, recover_on):
\* neither a stray copy of its id, nor a sweep, nor a resume hands it out twice.
ClaimedOnce ==
  \A s, t \in Senders : s # t => \A j \in Jobs : ~(InHand(s, j) /\ InHand(t, j))

\* A receiving server takes a job once, and once more for each time a sender
\* stopped over it or a person had it sent again (drop_blob, recover_on).
SentOnce == \A j \in Jobs : tale[j].accepted <= 1 + tale[j].stops + tale[j].again

\* Once a cancel has answered yes, no receiving server takes the job
\* (cancel_waiting: "too late" is the honest answer for one in flight).
CancelledStaysUnsent ==
  [][\A j \in Jobs : tale[j].cancelled => tale'[j].accepted = tale[j].accepted]_vars

\* A scheduled job is sent only when its time has come, through withholding,
\* restoring and recovery (promote_due, withhold, release, requeue_unindexed).
NotBeforeItsTime == \A j \in Jobs : tale[j].accepted > 0 => j \in due

\* Once the account's delete has marked a job that no sender is at work on, none
\* claims it until a person has it sent: not one that was promoting or looking
\* for it, nor one that pops what a dead sender left in the queue (withhold).
WithheldStaysUnclaimed ==
  [][\A j \in Jobs : tale[j].taken => row'[j].state # "inflight"]_vars

\* A job whose scan or sending kills the sender does so Limit times, and once
\* more for each time a person has it tried again (reset_stale_inflight), as long
\* as its row is kept: of one that a person has let go of, a sender that still
\* parks it makes a row that counts from nothing.
PoisonBounded ==
  \A j \in Jobs : ~tale[j].ended /\ ~tale[j].cancelled
                   => tale[j].killed <= Limit + tale[j].again

\* The queue holds one copy of an id, and one more for each time a sender
\* stopped over it or a person pushed it: parking a job consumes its copy.
Copies(j) == Cardinality({i \in DOMAIN pending : pending[i] = j})
QueueBounded == \A j \in Jobs : Copies(j) <= 1 + tale[j].stops + tale[j].again

\* A job has its message and is somewhere it can be found again until it is
\* delivered, failed, cancelled or let go of: nothing that stops the sender
\* loses one (recover_on, set_aside, withhold, release).
NothingForgotten ==
  \A j \in Jobs :
    tale[j].queued /\ ~tale[j].cancelled /\ ~tale[j].ended =>
      /\ row[j].blob = "message"
      /\ row[j].state = "inflight" => row[j].claimed # "none"
      /\ row[j].state = "withheld" => j \in idx["withheld"] \/ web.job = j
      /\ row[j].state = "set_aside" => j \in idx["set_aside"]
      /\ row[j].state \in {"pending", "inflight", "set_aside"} => ~row[j].expires

\* A job that waits to be sent has its message: a read that fails leaves it as it
\* is (process_one: "requeue as-is").
MessageKept ==
  \A j \in Jobs : row[j].state = "pending" /\ ~tale[j].cancelled /\ ~tale[j].ended
                   => row[j].blob = "message"

\* Every queued job ends delivered, failed or cancelled, or is set aside, held or
\* withheld until a person decides.
Settled(j) ==
  \/ row[j].state \in {"delivered", "failed", "set_aside", "held", "withheld"}
  \/ tale[j].cancelled \/ tale[j].ended
Settles == \A j \in Jobs : tale[j].queued ~> Settled(j)

=============================================================================
