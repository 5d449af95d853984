---------------------------- MODULE WebhookOutbox ----------------------------
(***************************************************************************)
(* The webhook delivery queue (crates/core-sidestate, families             *)
(* webhook_outbox, webhook_events and webhooks; crates/intake,             *)
(* webhook_delivery).  Any process queues an event for each subscription   *)
(* of its user; the workers of several processes claim what is due, POST   *)
(* it and write down what came of it; the purge of an account removes what *)
(* is its own.  Each call to the store is one step.                        *)
(***************************************************************************)
EXTENDS Naturals, FiniteSets

CONSTANTS
  Workers,     \* processes that run the delivery loop
  Subs,        \* the subscriptions of one account
  Matches,     \* the sets of them that one event is for
  MaxAttempts, \* MAX_ATTEMPTS
  Batch,       \* BATCH, the entries of one pass
  Permits,     \* CONCURRENCY
  None         \* no hash, no subscription

CONSTANTS      \* bounds of the environment
  MaxId,       \* entries queued
  Events,      \* SUBSET of the events there may be
  MaxEvents    \* how many there are

\* A process dies; a call to the store fails; a subscription is deleted; the
\* account is purged.
Kinds == {"die", "fail", "unsubscribe", "purge"}

\* What is in a hash; a hash without its subscription and payload has no sub.
Entries == [sub : Subs \cup {None}, attempts : 0..MaxAttempts]

ASSUME ConstantsAssumption ==
  /\ MaxAttempts \in Nat \ {0} /\ Batch \in Nat \ {0} /\ Permits \in Nat \ {0}
  /\ MaxId \in Nat /\ MaxEvents \in Nat /\ Events \subseteq Kinds
  /\ IsFiniteSet(Subs) /\ None \notin Subs \cup Entries

VARIABLES
  counter,  \* webhook:outbox:counter
  hash,     \* webhook:outbox:{id}: an entry, what is left of one, or None
  ready,    \* webhook:outbox:ready
  later,    \* the ids of ready whose score is in the future
  dead,     \* webhook:outbox:dead
  subs,     \* admin:webhooks:{account}
  arrival,  \* the event being queued
  worker,   \* what each worker's pass is doing
  task,     \* what each worker does with an entry it claimed
  purge,    \* the purge of the account
  posts,    \* history: how often an entry was POSTed
  seen,     \* history: the entries a POST of which was seen to succeed
  dropped,  \* history: the entries whose subscription was gone
  gone,     \* history: the entries the purge deleted
  late,     \* history: the entries POSTed after that
  slipped,  \* history: the entries a death or a failed call took away
  events    \* what is left of MaxEvents

storeVars == <<counter, hash, ready, later, dead, subs>>
pastVars  == <<posts, seen, dropped, gone, late, slipped>>
vars == <<storeVars, arrival, worker, task, purge, pastVars, events>>

Ids == 1..MaxId

-----------------------------------------------------------------------------
(* State *)

WorkerPcs == {"idle", "check", "take", "fetch", "deliver"}
TaskPcs   == {"none", "claimed", "lookup", "post", "drop", "forget", "record", "index"}
PurgePcs  == {"idle", "keys", "owner", "ready", "dead", "del"}

Entry(sub, attempts) == [sub |-> sub, attempts |-> attempts]

\* from_flat: a hash without its subscription and payload is no entry.
Whole(id) == hash[id] # None /\ hash[id].sub # None

Tasks  == [pc : TaskPcs, attempts : 0..MaxAttempts, sub : Subs \cup {None}]
NoTask == [pc |-> "none", attempts |-> 0, sub |-> None]
Resting == [pc |-> "idle", todo |-> {}, id |-> 0]

Init ==
  /\ counter = 0 /\ hash = [id \in Ids |-> None]
  /\ ready = {} /\ later = {} /\ dead = {} /\ subs = Subs
  /\ arrival = Resting /\ purge = Resting
  /\ worker = [w \in Workers |-> Resting]
  /\ task = [w \in Workers |-> [id \in Ids |-> NoTask]]
  /\ posts = [id \in Ids |-> 0]
  /\ seen = {} /\ dropped = {} /\ gone = {} /\ late = {} /\ slipped = {}
  /\ events = MaxEvents

Happens(kind) == kind \in Events /\ events > 0 /\ events' = events - 1

TasksOf(w)  == {id \in Ids : task[w][id].pc # "none"}
Running(w)  == {id \in TasksOf(w) : task[w][id].pc # "claimed"}
InHand(w)   == TasksOf(w) \cup (IF worker[w].pc = "fetch" THEN {worker[w].id} ELSE {})

-----------------------------------------------------------------------------
(* Queueing an event: webhook_events::enqueue *)

\* The subscriptions that are there and admit the event, read once; nothing to do
\* without one.
Arrive ==
  /\ arrival.pc = "idle"
  /\ \E admitted \in {subs \cap matched : matched \in Matches} :
       /\ admitted # {} /\ counter + Cardinality(admitted) <= MaxId
       /\ arrival' = [Resting EXCEPT !.pc = "put", !.todo = admitted]
  /\ UNCHANGED <<storeVars, worker, task, purge, pastVars, events>>

\* The counter, then the hash under the id it gave.  The counter alone is read by
\* nobody: the two are one step.
PutEntry ==
  LET id == counter + 1 IN
  /\ arrival.pc = "put"
  /\ \E sub \in arrival.todo :
       /\ hash' = [hash EXCEPT ![id] = Entry(sub, 0)]
       /\ arrival' = [pc |-> "list", todo |-> arrival.todo \ {sub}, id |-> id]
  /\ counter' = id
  /\ UNCHANGED <<ready, later, dead, subs, worker, task, purge, pastVars, events>>

ListEntry ==
  /\ arrival.pc = "list"
  /\ ready' = ready \cup {arrival.id} /\ later' = later \ {arrival.id}
  /\ arrival' = IF arrival.todo = {} THEN Resting
                ELSE [arrival EXCEPT !.pc = "put", !.id = 0]
  /\ UNCHANGED <<counter, hash, dead, subs, worker, task, purge, pastVars, events>>

\* The process dies or a call fails: the event is queued for nobody else.
StopArrival ==
  /\ arrival.pc # "idle" /\ (Happens("die") \/ Happens("fail"))
  /\ arrival' = Resting
  /\ slipped' = slipped \cup (IF arrival.pc = "list" THEN {arrival.id} ELSE {})
  /\ UNCHANGED <<storeVars, worker, task, purge, posts, seen, dropped, gone, late>>

-----------------------------------------------------------------------------
(* Claiming: claim_due, call by call *)

WorkerIs(w, pc) == worker[w].pc = pc
WorkerDoes(w, pc, todo, id) ==
  worker' = [worker EXCEPT ![w] = [pc |-> pc, todo |-> todo, id |-> id]]

\* An empty queue: the pass ends where it began.
ReadQueue(w) ==
  /\ WorkerIs(w, "idle") /\ ready # {}
  /\ WorkerDoes(w, "check", ready, 0)
  /\ UNCHANGED <<storeVars, arrival, task, purge, pastVars, events>>

BatchFull(w) == Cardinality(TasksOf(w)) >= Batch

CheckDue(w) ==
  /\ WorkerIs(w, "check") /\ ~BatchFull(w)
  /\ \E id \in worker[w].todo :
       LET rest == worker[w].todo \ {id} IN
       IF id \in ready \ later THEN WorkerDoes(w, "take", rest, id)
                               ELSE WorkerDoes(w, "check", rest, 0)
  /\ UNCHANGED <<storeVars, arrival, task, purge, pastVars, events>>

TakeAnyway(w) ==
  LET id == worker[w].id IN
  /\ WorkerIs(w, "take")
  /\ ready' = ready \ {id} /\ later' = later \ {id}
  /\ WorkerDoes(w, "fetch", worker[w].todo, id)
  /\ UNCHANGED <<counter, hash, dead, subs, arrival, task, purge, pastVars, events>>

TakeAndLeave(w) ==
  /\ WorkerIs(w, "take")
  /\ IF worker[w].id \in ready THEN WorkerDoes(w, "fetch", worker[w].todo, worker[w].id)
                               ELSE WorkerDoes(w, "check", worker[w].todo, 0)
  /\ UNCHANGED <<storeVars, arrival, task, purge, pastVars, events>>

\* The claim: whoever removes the member owns the entry.
TakeReady(w) ==
  LET id == worker[w].id IN
  /\ WorkerIs(w, "take")
  /\ ready' = ready \ {id} /\ later' = later \ {id}
  /\ IF id \in ready THEN WorkerDoes(w, "fetch", worker[w].todo, id)
                     ELSE WorkerDoes(w, "check", worker[w].todo, 0)
  /\ UNCHANGED <<counter, hash, dead, subs, arrival, task, purge, pastVars, events>>

FetchEntry(w) ==
  LET id == worker[w].id IN
  /\ WorkerIs(w, "fetch")
  /\ task' = IF Whole(id)
               THEN [task EXCEPT ![w][id] = [pc |-> "claimed", attempts |-> hash[id].attempts,
                                             sub |-> hash[id].sub]]
               ELSE task
  /\ WorkerDoes(w, "check", worker[w].todo, 0)
  /\ UNCHANGED <<storeVars, arrival, purge, pastVars, events>>

StartDeliveries(w) ==
  /\ WorkerIs(w, "check") /\ (worker[w].todo = {} \/ BatchFull(w))
  /\ WorkerDoes(w, IF TasksOf(w) = {} THEN "idle" ELSE "deliver", {}, 0)
  /\ UNCHANGED <<storeVars, arrival, task, purge, pastVars, events>>

\* The pass ends, with what it had claimed.
ClaimFails(w) ==
  /\ worker[w].pc \in {"check", "take", "fetch"} /\ Happens("fail")
  /\ slipped' = slipped \cup InHand(w)
  /\ task' = [task EXCEPT ![w] = [id \in Ids |-> NoTask]]
  /\ WorkerDoes(w, "idle", {}, 0)
  /\ UNCHANGED <<storeVars, arrival, purge, posts, seen, dropped, gone, late>>

-----------------------------------------------------------------------------
(* Delivering: deliver_one, for each claimed entry *)

TaskIs(w, id, pc) == WorkerIs(w, "deliver") /\ task[w][id].pc = pc
TaskDoes(w, id, pc) == task' = [task EXCEPT ![w][id].pc = pc]
TaskEnds(w, id) == task' = [task EXCEPT ![w][id] = NoTask]

BeginAlone(w, id) ==
  /\ TaskIs(w, id, "claimed") /\ Cardinality(TasksOf(w)) <= Permits
  /\ TaskDoes(w, id, "lookup")
  /\ UNCHANGED <<storeVars, arrival, worker, purge, pastVars, events>>

BeginDelivery(w, id) ==
  /\ TaskIs(w, id, "claimed") /\ Cardinality(Running(w)) < Permits
  /\ TaskDoes(w, id, "lookup")
  /\ UNCHANGED <<storeVars, arrival, worker, purge, pastVars, events>>

Lookup(w, id) ==
  LET found == task[w][id].sub \in subs IN
  /\ TaskIs(w, id, "lookup")
  /\ TaskDoes(w, id, IF found THEN "post" ELSE "drop")
  /\ dropped' = IF found THEN dropped ELSE dropped \cup {id}
  /\ UNCHANGED <<storeVars, arrival, worker, purge, posts, seen, gone, late, slipped, events>>

\* A failed read is taken for an account without subscriptions.
LookupFails(w, id) ==
  /\ TaskIs(w, id, "lookup") /\ Happens("fail")
  /\ TaskDoes(w, id, "drop")
  /\ slipped' = slipped \cup {id}
  /\ UNCHANGED <<storeVars, arrival, worker, purge, posts, seen, dropped, gone, late>>

\* The subscriber takes it, and the worker hears so, or it does not.
Post(w, id) ==
  /\ TaskIs(w, id, "post")
  /\ posts' = [posts EXCEPT ![id] = @ + 1]
  /\ late' = IF id \in gone THEN late \cup {id} ELSE late
  /\ \/ TaskDoes(w, id, "forget") /\ seen' = seen \cup {id}
     \/ TaskDoes(w, id, "record") /\ UNCHANGED seen
  /\ UNCHANGED <<storeVars, arrival, worker, purge, dropped, gone, slipped, events>>

\* mark_delivered, after a success or for a subscription that is gone.
MarkDelivered(w, id) ==
  /\ TaskIs(w, id, "forget") \/ TaskIs(w, id, "drop")
  /\ hash' = [hash EXCEPT ![id] = None]
  /\ TaskEnds(w, id)
  /\ UNCHANGED <<counter, ready, later, dead, subs, arrival, worker, purge, pastVars, events>>

RecordEntry(w, id) ==
  LET tried == task[w][id].attempts + 1 IN
  /\ TaskIs(w, id, "record")
  /\ hash' = [hash EXCEPT ![id] = Entry(task[w][id].sub, tried)]
  /\ task' = [task EXCEPT ![w][id].pc = "index", ![w][id].attempts = tried]
  /\ UNCHANGED <<counter, ready, later, dead, subs, arrival, worker, purge, pastVars, events>>

\* mark_failed: the attempt, on whatever hash there is...
RecordFailure(w, id) ==
  LET tried == task[w][id].attempts + 1 IN
  /\ TaskIs(w, id, "record")
  /\ hash' = [hash EXCEPT ![id] = Entry(IF @ = None THEN None ELSE @.sub, tried)]
  /\ task' = [task EXCEPT ![w][id].pc = "index", ![w][id].attempts = tried]
  /\ UNCHANGED <<counter, ready, later, dead, subs, arrival, worker, purge, pastVars, events>>

GivesUpLater(attempts) == attempts > MaxAttempts
GivesUpSooner(attempts) == attempts + 1 >= MaxAttempts

\* plan_after_failure
GivesUp(attempts) == attempts >= MaxAttempts

IndexRetries(w, id) ==
  /\ TaskIs(w, id, "index")
  /\ IF GivesUp(task[w][id].attempts)
       THEN UNCHANGED <<ready, later>>
       ELSE ready' = ready \cup {id} /\ later' = later \cup {id}
  /\ TaskEnds(w, id)
  /\ UNCHANGED <<counter, hash, dead, subs, arrival, worker, purge, pastVars, events>>

\* ... then the queue it waits in.
IndexFailure(w, id) ==
  /\ TaskIs(w, id, "index")
  /\ IF GivesUp(task[w][id].attempts)
       THEN dead' = dead \cup {id} /\ UNCHANGED <<ready, later>>
       ELSE ready' = ready \cup {id} /\ later' = later \cup {id} /\ UNCHANGED dead
  /\ TaskEnds(w, id)
  /\ UNCHANGED <<counter, hash, subs, arrival, worker, purge, pastVars, events>>

\* No connection, or a write that fails: the task ends with what it held.
DeliveryFails(w, id) ==
  /\ WorkerIs(w, "deliver") /\ Happens("fail")
  /\ task[w][id].pc \in {"lookup", "forget", "drop", "record", "index"}
  /\ TaskEnds(w, id)
  /\ slipped' = slipped \cup {id}
  /\ UNCHANGED <<storeVars, arrival, worker, purge, posts, seen, dropped, gone, late>>

EndPass(w) ==
  /\ WorkerIs(w, "deliver") /\ TasksOf(w) = {}
  /\ WorkerDoes(w, "idle", {}, 0)
  /\ UNCHANGED <<storeVars, arrival, task, purge, pastVars, events>>

Die(w) ==
  /\ worker[w].pc # "idle" /\ Happens("die")
  /\ slipped' = slipped \cup InHand(w)
  /\ task' = [task EXCEPT ![w] = [id \in Ids |-> NoTask]]
  /\ WorkerDoes(w, "idle", {}, 0)
  /\ UNCHANGED <<storeVars, arrival, purge, posts, seen, dropped, gone, late>>

-----------------------------------------------------------------------------
(* Subscriptions and accounts that go *)

Unsubscribe ==
  /\ Happens("unsubscribe")
  /\ \E sub \in subs : subs' = subs \ {sub}
  /\ UNCHANGED <<counter, hash, ready, later, dead, arrival, worker, task, purge, pastVars>>

\* webhooks::purge_owner, then webhook_outbox::purge_account.
PurgeSubs ==
  /\ purge.pc = "idle" /\ Happens("purge")
  /\ subs' = {}
  /\ purge' = [purge EXCEPT !.pc = "keys"]
  /\ UNCHANGED <<counter, hash, ready, later, dead, arrival, worker, task, pastVars>>

PurgeDoes(pc, todo, id) ==
  purge' = IF pc = "owner" /\ todo = {} THEN Resting ELSE [pc |-> pc, todo |-> todo, id |-> id]

PurgeKeys ==
  /\ purge.pc = "keys"
  /\ PurgeDoes("owner", {id \in Ids : hash[id] # None}, 0)
  /\ UNCHANGED <<storeVars, arrival, worker, task, pastVars, events>>

PurgeOwner ==
  /\ purge.pc = "owner"
  /\ \E id \in purge.todo :
       IF Whole(id) THEN PurgeDoes("ready", purge.todo \ {id}, id)
                    ELSE PurgeDoes("owner", purge.todo \ {id}, 0)
  /\ UNCHANGED <<storeVars, arrival, worker, task, pastVars, events>>

PurgeReady ==
  /\ purge.pc = "ready"
  /\ ready' = ready \ {purge.id} /\ later' = later \ {purge.id}
  /\ PurgeDoes("dead", purge.todo, purge.id)
  /\ UNCHANGED <<counter, hash, dead, subs, arrival, worker, task, pastVars, events>>

PurgeDead ==
  /\ purge.pc = "dead"
  /\ dead' = dead \ {purge.id}
  /\ PurgeDoes("del", purge.todo, purge.id)
  /\ UNCHANGED <<counter, hash, ready, later, subs, arrival, worker, task, pastVars, events>>

PurgeHash ==
  /\ purge.pc = "del"
  /\ hash' = [hash EXCEPT ![purge.id] = None]
  /\ gone' = gone \cup {purge.id}
  /\ PurgeDoes("owner", purge.todo, 0)
  /\ UNCHANGED <<counter, ready, later, dead, subs, arrival, worker, task,
                 posts, seen, dropped, late, slipped, events>>

\* The process dies or a call fails; once for each purge, so no event is counted.
PurgeFails ==
  /\ purge.pc # "idle" /\ Events \cap {"die", "fail"} # {}
  /\ purge' = Resting
  /\ slipped' = slipped \cup (IF purge.pc \in {"dead", "del"} THEN {purge.id} ELSE {})
  /\ UNCHANGED <<storeVars, arrival, worker, task, posts, seen, dropped, gone, late, events>>

\* A retry falls due.
TimePasses ==
  /\ \E id \in later : later' = later \ {id}
  /\ UNCHANGED <<counter, hash, ready, dead, subs, arrival, worker, task, purge, pastVars, events>>

-----------------------------------------------------------------------------
TaskSteps(w, id) ==
  \/ BeginDelivery(w, id) \/ Lookup(w, id) \/ Post(w, id) \/ MarkDelivered(w, id)
  \/ RecordFailure(w, id) \/ IndexFailure(w, id)

WorkerSteps(w) ==
  \/ ReadQueue(w) \/ CheckDue(w) \/ TakeReady(w) \/ FetchEntry(w) \/ StartDeliveries(w)
  \/ EndPass(w) \/ \E id \in Ids : TaskSteps(w, id)

WorkerSlips(w) ==
  \/ ClaimFails(w) \/ Die(w)
  \/ \E id \in Ids : LookupFails(w, id) \/ DeliveryFails(w, id)

PurgeGoesOn == PurgeKeys \/ PurgeOwner \/ PurgeReady \/ PurgeDead \/ PurgeHash

Next ==
  \/ Arrive \/ PutEntry \/ ListEntry \/ StopArrival
  \/ \E w \in Workers : WorkerSteps(w) \/ WorkerSlips(w)
  \/ Unsubscribe \/ PurgeSubs \/ PurgeGoesOn \/ PurgeFails \/ TimePasses

\* The loops never end, a POST is answered or times out, a purge that has begun
\* goes on, and time passes.
Fairness == /\ \A w \in Workers : WF_vars(WorkerSteps(w))
            /\ WF_vars(PurgeGoesOn) /\ WF_vars(TimePasses)

Spec == Init /\ [][Next]_vars /\ Fairness

-----------------------------------------------------------------------------
(* Properties *)

TypeOK ==
  /\ counter \in 0..MaxId
  /\ hash \in [Ids -> Entries \cup {None}]
  /\ ready \subseteq Ids /\ later \subseteq ready /\ dead \subseteq Ids /\ subs \subseteq Subs
  /\ arrival \in [pc : {"idle", "put", "list"}, todo : SUBSET Subs, id : 0..MaxId]
  /\ worker \in [Workers -> [pc : WorkerPcs, todo : SUBSET Ids, id : 0..MaxId]]
  /\ task \in [Workers -> [Ids -> Tasks]]
  /\ purge \in [pc : PurgePcs, todo : SUBSET Ids, id : 0..MaxId]
  /\ posts \in [Ids -> Nat]
  /\ seen \subseteq Ids /\ dropped \subseteq Ids /\ gone \subseteq Ids
  /\ late \subseteq Ids /\ slipped \subseteq Ids
  /\ events \in 0..MaxEvents

\* An entry has one owner: what a worker has in hand no other worker has, and
\* no queue names.
ClaimedOnce == \A w \in Workers : \A id \in InHand(w) :
  /\ id \notin ready \cup dead
  /\ \A v \in Workers \ {w} : id \notin InHand(v)

\* What was seen to succeed is never POSTed again.
NotAgain == [][\A id \in seen : posts'[id] = posts[id]]_vars

\* An entry is POSTed at most MAX_ATTEMPTS times, and given up on after all of
\* them only.
TriedEnough == \A id \in Ids :
  posts[id] <= MaxAttempts /\ (id \in dead => posts[id] = MaxAttempts)

\* An entry queued is waiting, in hand, given up on, delivered, dropped for a
\* subscription that is gone, purged, or a death or a failed call explains it.
Explained == seen \cup dropped \cup gone \cup slipped \cup dead
NothingForgotten == \A id \in 1..counter :
  \/ id \in Explained \cup ready
  \/ \E w \in Workers : id \in InHand(w)
  \/ arrival.pc = "list" /\ arrival.id = id
  \/ purge.pc \in {"dead", "del"} /\ purge.id = id

\* After the purge has deleted an entry it is POSTed once more at most, by the
\* worker that had it in hand, and its payload does not come back.
PurgedStaysGone == [][\A id \in gone :
  /\ ~Whole(id)' /\ (id \in late => posts'[id] = posts[id])]_vars

\* What is queued is settled in the end.
Settles == \A id \in Ids : id \in ready ~> id \in Explained
===============================================================================
