------------------------- MODULE WebhookOutboxProofs -------------------------
(***************************************************************************)
(* The safety of WebhookOutbox for any number of workers, subscriptions,   *)
(* entries and attempts.  None of the properties is inductive as it        *)
(* stands: whether an entry may be claimed, POSTed or written down depends *)
(* on what the store, the worker that has it in hand, the process that     *)
(* queues it and the purge each know of it.  IInv says how these agree.    *)
(***************************************************************************)
EXTENDS WebhookOutbox, FiniteSetTheorems, TLAPS

-----------------------------------------------------------------------------
(* The inductive invariant *)

\* Worker w has entry id in hand: claimed and not yet fetched, or in a task.
Fetching(w, id) == worker[w].pc = "fetch" /\ worker[w].id = id
Has(w, id)      == task[w][id].pc # "none" \/ Fetching(w, id)
Held(id)        == \E w \in Workers : Has(w, id)
Listing(id)     == arrival.pc = "list" /\ arrival.id = id

\* The ids that the processes hold are ids of entries.
Placed ==
  /\ arrival.pc = "put" => arrival.todo # {}
  /\ arrival.pc = "list" => arrival.id \in Ids /\ arrival.id <= counter
  /\ arrival.pc # "idle" => counter + Cardinality(arrival.todo) <= MaxId
  /\ \A w \in Workers : worker[w].pc \in {"take", "fetch"} => worker[w].id \in Ids
  /\ \A id \in purge.todo : id <= counter
  /\ purge.pc \in {"ready", "dead", "del"} => purge.id \in Ids /\ purge.id <= counter

\* An id the counter has not reached is nowhere.
Fresh == \A id \in Ids : id > counter =>
  /\ hash[id] = None /\ posts[id] = 0
  /\ id \notin ready \cup dead \cup seen \cup gone /\ ~Held(id)

\* An entry is in one queue, or being listed for the first time, or in one hand.
Owned == \A id \in Ids :
  /\ ~(id \in ready /\ id \in dead)
  /\ Listing(id) => id \notin ready \cup dead /\ ~Held(id)
  /\ \A w \in Workers : Has(w, id) =>
       id \notin ready \cup dead /\ \A v \in Workers \ {w} : ~Has(v, id)

\* What will be claimed was not seen to succeed, has attempts left, and its
\* hash, if there is one to deliver, counts its POSTs.
Waiting(id) == id \in ready \/ Listing(id) \/ \E w \in Workers : Fetching(w, id)

Counted == \A id \in Ids : Waiting(id) =>
  /\ id \notin seen
  /\ Whole(id) => hash[id].attempts < MaxAttempts /\ posts[id] = hash[id].attempts

\* So does a task, at each of its steps.
TaskCounts(w, id) == LET t == task[w][id] IN
  /\ t.pc \in {"claimed", "lookup", "post"} =>
       t.attempts < MaxAttempts /\ posts[id] = t.attempts /\ id \notin late
  /\ t.pc \in {"forget", "record"} => t.attempts < MaxAttempts /\ posts[id] = t.attempts + 1
  /\ t.pc = "forget" => id \in seen
  /\ t.pc \notin {"none", "forget"} => id \notin seen
  /\ t.pc = "index" => posts[id] = t.attempts /\ (Whole(id) => hash[id].attempts = t.attempts)
  /\ t.pc = "drop" => id \in dropped \cup slipped

TasksCount == \A w \in Workers, id \in Ids : TaskCounts(w, id)

\* What was given up on, and what the purge deleted.
Ended == \A id \in Ids :
  /\ posts[id] <= MaxAttempts
  /\ id \in dead => posts[id] = MaxAttempts /\ id \notin seen
  /\ id \in late => id \in gone
  /\ id \in gone => ~Whole(id)

\* An entry without its payload was delivered, dropped or purged, or slipped.
Away(id) == id \in seen \/ id \in dropped \/ id \in gone \/ id \in slipped
Spent == \A id \in Ids : id <= counter /\ ~Whole(id) => Away(id)

\* An entry is somewhere.
Somewhere == \A id \in Ids : id <= counter =>
  \/ Away(id) \/ id \in dead \/ id \in ready \/ Held(id) \/ Listing(id)
  \/ purge.pc \in {"dead", "del"} /\ purge.id = id

IInv == /\ TypeOK /\ Placed /\ Fresh /\ Owned /\ Counted /\ TasksCount /\ Ended
        /\ Spent /\ Somewhere

-----------------------------------------------------------------------------
(* Tasks *)

OtherTasksStay(w, i) ==
  \A v \in Workers, j \in Ids : ~(v = w /\ j = i) => task'[v][j] = task[v][j]

LEMMA TaskBecomes ==
  ASSUME TypeOK, NEW w \in Workers, NEW i \in Ids, NEW t \in Tasks,
         task' = [task EXCEPT ![w] = [task[w] EXCEPT ![i] = t]]
  PROVE  task' \in [Workers -> [Ids -> Tasks]] /\ task'[w][i] = t /\ OtherTasksStay(w, i)
<1> DEFINE mine == [task[w] EXCEPT ![i] = t]
<1>1. task \in [Workers -> [Ids -> Tasks]] /\ task[w] \in [Ids -> Tasks]
  BY DEF TypeOK
<1>2. mine \in [Ids -> Tasks] /\ mine[i] = t /\ \A j \in Ids \ {i} : mine[j] = task[w][j]
  BY <1>1
<1> HIDE DEF mine
<1>3. task' = [task EXCEPT ![w] = mine]
  BY DEF mine
<1> QED
  BY <1>1, <1>2, <1>3 DEF OtherTasksStay

LEMMA TaskMoves ==
  ASSUME TypeOK, NEW w \in Workers, NEW i \in Ids, NEW pc \in TaskPcs, NEW n \in 0..MaxAttempts,
         task' = [task EXCEPT ![w][i].pc = pc, ![w][i].attempts = n]
  PROVE  /\ task' \in [Workers -> [Ids -> Tasks]] /\ OtherTasksStay(w, i)
         /\ task'[w][i].pc = pc /\ task'[w][i].attempts = n
<1> DEFINE t == [task[w][i] EXCEPT !.pc = pc, !.attempts = n]
<1>1. task \in [Workers -> [Ids -> Tasks]] /\ task[w][i] \in Tasks
  BY DEF TypeOK
<1>2. t \in Tasks /\ t.pc = pc /\ t.attempts = n
  BY <1>1 DEF Tasks
<1>3. task' = [task EXCEPT ![w] = [task[w] EXCEPT ![i] = t]]
  BY <1>1
<1> HIDE DEF t
<1>4. t \in Tasks
  BY <1>2
<1>5. task' \in [Workers -> [Ids -> Tasks]] /\ task'[w][i] = t /\ OtherTasksStay(w, i)
  BY <1>3, <1>4, TaskBecomes
<1> QED
  BY <1>2, <1>5

LEMMA TaskDoesOnly ==
  ASSUME TypeOK, NEW w \in Workers, NEW i \in Ids, NEW pc \in TaskPcs, TaskDoes(w, i, pc)
  PROVE  /\ task' \in [Workers -> [Ids -> Tasks]] /\ OtherTasksStay(w, i)
         /\ task'[w][i].pc = pc /\ task'[w][i].attempts = task[w][i].attempts
<1> DEFINE t == [task[w][i] EXCEPT !.pc = pc]
<1>1. task \in [Workers -> [Ids -> Tasks]] /\ task[w][i] \in Tasks
  BY DEF TypeOK
<1>2. t \in Tasks /\ t.pc = pc /\ t.attempts = task[w][i].attempts
  BY <1>1 DEF Tasks
<1>3. task' = [task EXCEPT ![w] = [task[w] EXCEPT ![i] = t]]
  BY <1>1 DEF TaskDoes
<1> HIDE DEF t
<1>4. t \in Tasks
  BY <1>2
<1>5. task' \in [Workers -> [Ids -> Tasks]] /\ task'[w][i] = t /\ OtherTasksStay(w, i)
  BY <1>3, <1>4, TaskBecomes
<1> QED
  BY <1>2, <1>5

\* A task counts as before when nothing it counts by changes, or it is gone.
LEMMA TaskStays ==
  ASSUME NEW v \in Workers, NEW j \in Ids, TaskCounts(v, j),
         \/ task'[v][j].pc = "none"
         \/ /\ task'[v][j] = task[v][j] /\ posts'[j] = posts[j] /\ hash'[j] = hash[j]
            /\ (j \in seen' <=> j \in seen)
            /\ (j \in late' => j \in late)
            /\ dropped \subseteq dropped' /\ slipped \subseteq slipped'
  PROVE  TaskCounts(v, j)'
BY DEF TaskCounts, Whole

LEMMA RecordFailureKeeps ==
  ASSUME IInv, NEW w \in Workers, NEW i \in Ids, RecordFailure(w, i)
  PROVE  IInv'
<1> USE DEF IInv
<1>1. MaxAttempts \in Nat /\ MaxId \in Nat /\ task[w][i].attempts + 1 \in 0..MaxAttempts
  <2>1. task[w][i] \in Tasks /\ TaskCounts(w, i)
    BY DEF TypeOK, TasksCount
  <2>2. task[w][i].pc = "record"
    BY DEF RecordFailure, TaskIs
  <2>3. task[w][i].attempts \in 0..MaxAttempts /\ task[w][i].attempts < MaxAttempts
    BY <2>1, <2>2 DEF TaskCounts, Tasks
  <2> QED
    BY <2>3, ConstantsAssumption
<1>2. /\ task' \in [Workers -> [Ids -> Tasks]] /\ OtherTasksStay(w, i)
      /\ task'[w][i].pc = "index" /\ task'[w][i].attempts = task[w][i].attempts + 1
  <2>1. task' = [task EXCEPT ![w][i].pc = "index", ![w][i].attempts = task[w][i].attempts + 1]
    BY DEF RecordFailure
  <2> QED
    BY <1>1, <2>1, TaskMoves, ZenonT(30) DEF TaskPcs
<1>3. /\ hash' \in [Ids -> Entries \cup {None}] /\ \A j \in Ids \ {i} : hash'[j] = hash[j]
      /\ hash'[i].attempts = task[w][i].attempts + 1
      /\ hash'[i] # None /\ (Whole(i)' <=> Whole(i))
  BY <1>1, ConstantsAssumption DEF RecordFailure, TypeOK, Entries, Entry, Whole
<1>4. UNCHANGED <<counter, ready, later, dead, subs, arrival, worker, purge, pastVars, events>>
  BY DEF RecordFailure
<1>5. task[w][i].pc = "record" /\ worker[w].pc = "deliver"
  BY DEF RecordFailure, TaskIs, WorkerIs
<1>6. \A v \in Workers, j \in Ids : Has(v, j)' <=> Has(v, j)
  BY <1>2, <1>4, <1>5 DEF Has, Fetching, OtherTasksStay
<1>7. ~Waiting(i) /\ i <= counter /\ \A v \in Workers \ {w} : task[v][i].pc = "none"
  BY <1>5 DEF Owned, Fresh, Waiting, Held, Has, Fetching, TypeOK, Ids
<1>8. TypeOK'
  BY <1>2, <1>3, <1>4 DEF TypeOK, pastVars
<1>9. Placed'
  BY <1>4 DEF Placed
<1>10. Fresh'
  BY <1>3, <1>4, <1>6, <1>7 DEF Fresh, Held, pastVars, TypeOK, Ids
<1>11. Owned'
  BY <1>4, <1>6 DEF Owned, Held, Listing
<1>12. Counted'
  BY <1>3, <1>4, <1>7 DEF Counted, Waiting, Fetching, Listing, pastVars, Whole
<1>13. Ended'
  BY <1>3, <1>4 DEF Ended, pastVars, Whole
<1>14. Spent'
  BY <1>3, <1>4 DEF Spent, Away, pastVars, Whole
<1>15. Somewhere'
  BY <1>4, <1>6 DEF Somewhere, Held, Listing, Away, pastVars
<1>16. TasksCount'
  <2>1. TaskCounts(w, i)'
    BY <1>2, <1>3, <1>4, <1>5 DEF TasksCount, TaskCounts, pastVars, TypeOK, Tasks
  <2>2. ASSUME NEW v \in Workers, NEW j \in Ids, v # w \/ j # i
        PROVE  TaskCounts(v, j)'
    BY <2>2, <1>2, <1>3, <1>4, <1>7, TaskStays DEF TasksCount, OtherTasksStay, pastVars
  <2> QED
    BY <2>1, <2>2 DEF TasksCount
<1> QED
  BY <1>8, <1>9, <1>10, <1>11, <1>12, <1>13, <1>14, <1>15, <1>16 DEF IInv
-----------------------------------------------------------------------------
(* Steps that claim, queue and deliver nothing *)

\* Nobody gets an entry in hand or in a queue, and no entry changes.
NothingGained ==
  /\ UNCHANGED <<counter, hash, posts, seen, gone, late>>
  /\ ready' \subseteq ready /\ dead' \subseteq dead
  /\ dropped \subseteq dropped' /\ slipped \subseteq slipped'
  /\ \A v \in Workers, j \in Ids :
       (Has(v, j)' => Has(v, j)) /\ (Fetching(v, j)' => Fetching(v, j))
  /\ \A j \in Ids : Listing(j)' => Listing(j)

LEMMA NothingGainedKeeps ==
  ASSUME IInv, NothingGained, TypeOK', Placed', TasksCount', Somewhere'
  PROVE  IInv'
<1> USE DEF IInv, NothingGained
<1>1. \A j \in Ids : Held(j)' => Held(j)
  BY DEF Held
<1>2. \A j \in Ids : Waiting(j)' => Waiting(j)
  BY DEF Waiting
<1>3. Fresh'
  BY <1>1 DEF Fresh
<1>4. Owned'
  BY <1>1 DEF Owned
<1>5. Counted'
  BY <1>2 DEF Counted, Whole
<1>6. Ended' /\ Spent'
  BY DEF Ended, Spent, Away, Whole
<1> QED
  BY <1>3, <1>4, <1>5, <1>6

\* What the workers hold, when they do nothing.
LEMMA HandsStay ==
  ASSUME IInv, UNCHANGED <<task, worker, hash, posts, seen, late>>,
         dropped \subseteq dropped', slipped \subseteq slipped'
  PROVE  /\ TasksCount'
         /\ \A v \in Workers, j \in Ids : Has(v, j)' = Has(v, j) /\ Fetching(v, j)' = Fetching(v, j)
         /\ \A j \in Ids : Held(j)' = Held(j)
<1>1. TasksCount'
  BY TaskStays DEF IInv, TasksCount
<1> QED
  BY <1>1 DEF Has, Fetching, Held

\* An event arrives, an arrival stops, time passes, a subscription is deleted.
LEMMA ArriveKeeps ==
  ASSUME IInv, Arrive
  PROVE  IInv'
<1> USE DEF IInv
<1>1. UNCHANGED <<storeVars, worker, task, purge, pastVars, events>>
  BY DEF Arrive
<1>2. PICK admitted \in SUBSET subs :
        /\ admitted # {} /\ counter + Cardinality(admitted) <= MaxId
        /\ arrival' = [Resting EXCEPT !.pc = "put", !.todo = admitted]
  BY DEF Arrive
<1>3. arrival' = [pc |-> "put", todo |-> admitted, id |-> 0] /\ arrival.pc = "idle"
  BY <1>2 DEF Resting, Arrive
<1>4. TypeOK'
  BY <1>1, <1>2, <1>3, ConstantsAssumption DEF TypeOK, storeVars, pastVars
<1>5. Placed'
  BY <1>1, <1>2, <1>3 DEF Placed, storeVars
<1>6. TasksCount' /\ NothingGained /\ \A j \in Ids : Held(j)' = Held(j)
  BY <1>1, <1>3, HandsStay DEF NothingGained, Listing, storeVars, pastVars
<1>7. Somewhere'
  BY <1>1, <1>3, <1>6 DEF Somewhere, Away, Listing, storeVars, pastVars
<1> QED
  BY <1>4, <1>5, <1>6, <1>7, NothingGainedKeeps

LEMMA StopArrivalKeeps ==
  ASSUME IInv, StopArrival
  PROVE  IInv'
<1> USE DEF IInv
<1>1. /\ UNCHANGED <<storeVars, worker, task, purge, posts, seen, dropped, gone, late>>
      /\ arrival' = Resting /\ events' \in 0..MaxEvents
      /\ slipped' = slipped \cup (IF arrival.pc = "list" THEN {arrival.id} ELSE {})
  BY ConstantsAssumption DEF StopArrival, Happens, TypeOK
<1>2. TypeOK'
  BY <1>1, ConstantsAssumption DEF TypeOK, Placed, storeVars, Resting
<1>3. Placed'
  BY <1>1 DEF Placed, storeVars, Resting
<1>4. TasksCount' /\ NothingGained /\ \A j \in Ids : Held(j)' = Held(j)
  BY <1>1, HandsStay DEF NothingGained, Listing, storeVars, Resting
<1>5. Somewhere'
  BY <1>1, <1>4 DEF Somewhere, Away, Listing, storeVars
<1> QED
  BY <1>2, <1>3, <1>4, <1>5, NothingGainedKeeps

LEMMA EnvironmentKeeps ==
  ASSUME IInv, TimePasses \/ Unsubscribe
  PROVE  IInv'
<1> USE DEF IInv
<1>1. /\ UNCHANGED <<counter, hash, ready, dead, arrival, worker, task, purge, pastVars>>
      /\ later' \subseteq later /\ subs' \subseteq subs /\ events' \in 0..MaxEvents
  BY ConstantsAssumption DEF TimePasses, Unsubscribe, Happens, TypeOK
<1>2. TypeOK'
  BY <1>1 DEF TypeOK, pastVars
<1>3. Placed'
  BY <1>1 DEF Placed
<1>4. TasksCount' /\ NothingGained /\ \A j \in Ids : Held(j)' = Held(j)
  BY <1>1, HandsStay DEF NothingGained, Listing, pastVars
<1>5. Somewhere'
  BY <1>1, <1>4 DEF Somewhere, Away, Listing, pastVars
<1> QED
  BY <1>2, <1>3, <1>4, <1>5, NothingGainedKeeps

-----------------------------------------------------------------------------
(* The purge *)

LEMMA PurgeWalks ==
  ASSUME IInv, PurgeSubs \/ PurgeKeys \/ PurgeOwner \/ PurgeReady \/ PurgeDead \/ PurgeFails
  PROVE  IInv'
<1> USE DEF IInv
<1>1. /\ UNCHANGED <<counter, hash, arrival, worker, task, posts, seen, dropped, gone, late>>
      /\ subs' \subseteq subs /\ later' \subseteq later \cap ready' /\ events' \in 0..MaxEvents
  BY ConstantsAssumption DEF PurgeSubs, PurgeKeys, PurgeOwner, PurgeReady, PurgeDead, PurgeFails,
     Happens, TypeOK, storeVars, pastVars
<1>2. /\ purge' \in [pc : PurgePcs, todo : SUBSET Ids, id : 0..MaxId]
      /\ \A j \in purge'.todo : j <= counter
      /\ purge'.pc \in {"ready", "dead", "del"} => purge'.id \in Ids /\ purge'.id <= counter
  <2>1. CASE PurgeSubs
    BY <2>1 DEF PurgeSubs, TypeOK, Placed, PurgePcs
  <2>2. CASE PurgeKeys
    BY <2>2, ConstantsAssumption DEF PurgeKeys, PurgeDoes, TypeOK, Fresh, PurgePcs, Resting, Ids
  <2>3. CASE PurgeOwner
    BY <2>3, ConstantsAssumption DEF PurgeOwner, PurgeDoes, TypeOK, Placed, PurgePcs, Resting, Ids
  <2>4. CASE PurgeReady
    BY <2>4 DEF PurgeReady, PurgeDoes, TypeOK, Placed, PurgePcs
  <2>5. CASE PurgeDead
    BY <2>5 DEF PurgeDead, PurgeDoes, TypeOK, Placed, PurgePcs
  <2>6. CASE PurgeFails
    BY <2>6, ConstantsAssumption DEF PurgeFails, TypeOK, PurgePcs, Resting
  <2> QED
    BY <2>1, <2>2, <2>3, <2>4, <2>5, <2>6
<1>3. /\ ready' \subseteq ready /\ dead' \subseteq dead
      /\ slipped \subseteq slipped' /\ slipped' \subseteq Ids
  BY DEF PurgeSubs, PurgeKeys, PurgeOwner, PurgeReady, PurgeDead, PurgeFails, Placed, TypeOK,
     storeVars, pastVars
<1>4. \A j \in Ids : /\ j \in ready \cup dead => \/ j \in ready' \cup dead'
                                                 \/ purge'.pc \in {"dead", "del"} /\ purge'.id = j
                     /\ purge.pc \in {"dead", "del"} /\ purge.id = j =>
                          \/ j \in slipped'
                          \/ purge'.pc \in {"dead", "del"} /\ purge'.id = j
  BY DEF PurgeSubs, PurgeKeys, PurgeOwner, PurgeReady, PurgeDead, PurgeFails, PurgeDoes,
     storeVars, pastVars
<1>5. TypeOK'
  BY <1>1, <1>2, <1>3 DEF TypeOK
<1>6. Placed'
  BY <1>1, <1>2 DEF Placed
<1>7. TasksCount' /\ NothingGained /\ \A j \in Ids : Held(j)' = Held(j)
  BY <1>1, <1>3, HandsStay DEF NothingGained, Listing
<1>8. Somewhere'
  BY <1>1, <1>3, <1>4, <1>7 DEF Somewhere, Away, Listing
<1> QED
  BY <1>5, <1>6, <1>7, <1>8, NothingGainedKeeps

LEMMA PurgeHashKeeps ==
  ASSUME IInv, PurgeHash
  PROVE  IInv'
<1> USE DEF IInv
<1>0. PICK i \in Ids : i = purge.id
  BY DEF PurgeHash, Placed
<1>1. i \in Ids /\ i <= counter /\ purge.pc = "del"
  BY <1>0 DEF PurgeHash, Placed
<1>2. /\ UNCHANGED <<counter, ready, later, dead, subs, arrival, worker, task,
                     posts, seen, dropped, late, slipped, events>>
      /\ gone' = gone \cup {i} /\ hash' = [hash EXCEPT ![i] = None]
  BY <1>0 DEF PurgeHash
<1>3. /\ purge' \in [pc : PurgePcs, todo : SUBSET Ids, id : 0..MaxId]
      /\ purge'.todo = purge.todo \/ purge'.todo = {}
      /\ purge'.pc \in {"owner", "idle"}
  BY ConstantsAssumption DEF PurgeHash, PurgeDoes, TypeOK, PurgePcs, Resting
<1>4. ~Whole(i)' /\ \A j \in Ids : (Whole(j)' => Whole(j)) /\ (j # i => hash'[j] = hash[j])
  <2>1. hash'[i] = None /\ \A j \in Ids : j # i => hash'[j] = hash[j]
    BY <1>1, <1>2 DEF TypeOK
  <2> QED
    BY <2>1 DEF Whole
<1>5. \A j \in Ids : /\ Held(j)' = Held(j) /\ Listing(j)' = Listing(j) /\ Waiting(j)' = Waiting(j)
                     /\ \A v \in Workers : Has(v, j)' = Has(v, j)
  BY <1>2 DEF Held, Has, Fetching, Listing, Waiting
<1>6. TypeOK'
  BY <1>1, <1>2, <1>3 DEF TypeOK
<1>7. Placed'
  BY <1>2, <1>3 DEF Placed
<1>8. Fresh'
  BY <1>1, <1>2, <1>4, <1>5 DEF Fresh, TypeOK, Ids
<1>9. Owned'
  BY <1>2, <1>5 DEF Owned
<1>10. Counted'
  BY <1>2, <1>4, <1>5 DEF Counted, Whole
<1>11. TasksCount'
  BY <1>2, <1>4 DEF TasksCount, TaskCounts, Whole
<1>12. Ended'
  BY <1>2, <1>4 DEF Ended
<1>13. Spent'
  BY <1>2, <1>4 DEF Spent, Away, Whole
<1>14. Somewhere'
  BY <1>0, <1>1, <1>2, <1>5 DEF Somewhere, Away
<1> QED
  BY <1>6, <1>7, <1>8, <1>9, <1>10, <1>11, <1>12, <1>13, <1>14

-----------------------------------------------------------------------------
(* Queueing *)

LEMMA PutEntryKeeps ==
  ASSUME IInv, PutEntry
  PROVE  IInv'
<1> USE DEF IInv
<1>0. PICK i : i = counter + 1
  OBVIOUS
<1>1. PICK sub \in arrival.todo : /\ hash' = [hash EXCEPT ![i] = Entry(sub, 0)]
                                  /\ arrival' = [pc |-> "list", todo |-> arrival.todo \ {sub}, id |-> i]
  BY <1>0 DEF PutEntry
<1>2. arrival.todo \subseteq Subs /\ IsFiniteSet(arrival.todo) /\ sub \in Subs
  BY ConstantsAssumption, FS_Subset DEF TypeOK
<1>3. /\ Cardinality(arrival.todo) \in Nat /\ Cardinality(arrival.todo) # 0
      /\ Cardinality(arrival.todo \ {sub}) = Cardinality(arrival.todo) - 1
  <2>1. Cardinality(arrival.todo) \in Nat
    BY <1>2, FS_CardinalityType
  <2>2. Cardinality(arrival.todo) # 0
    BY <1>2, FS_EmptySet
  <2>3. Cardinality(arrival.todo \ {sub}) = Cardinality(arrival.todo) - 1
    BY <1>2, FS_RemoveElement
  <2> QED
    BY <2>1, <2>2, <2>3
<1>4. /\ counter \in Nat /\ MaxId \in Nat /\ counter < MaxId /\ i \in Ids
      /\ i + Cardinality(arrival.todo \ {sub}) <= MaxId
  BY <1>0, <1>3, ConstantsAssumption DEF PutEntry, Placed, TypeOK, Ids
<1>5. /\ UNCHANGED <<ready, later, dead, subs, worker, task, purge, pastVars, events>>
      /\ counter' = i /\ arrival.pc = "put"
  BY <1>0 DEF PutEntry
<1>6. Entry(sub, 0) \in Entries /\ Entry(sub, 0).attempts = 0 /\ Entry(sub, 0).sub = sub
  BY <1>2, ConstantsAssumption DEF Entry, Entries
<1>7. /\ hash' \in [Ids -> Entries \cup {None}] /\ \A j \in Ids \ {i} : hash'[j] = hash[j]
      /\ Whole(i)' /\ hash'[i].attempts = 0
  <2>1. hash' \in [Ids -> Entries \cup {None}] /\ \A j \in Ids \ {i} : hash'[j] = hash[j]
    BY <1>1, <1>4, <1>6 DEF TypeOK
  <2>2. hash'[i] = Entry(sub, 0)
    BY <1>1, <1>4 DEF TypeOK
  <2>3. Entry(sub, 0) # None /\ sub # None
    BY <1>2, <1>6, ConstantsAssumption
  <2> QED
    BY <1>6, <2>1, <2>2, <2>3 DEF Whole
<1>8. /\ \A j \in Ids : Held(j)' = Held(j) /\ (Listing(j)' <=> j = i) /\ ~Listing(j)
                     /\ \A v \in Workers : Has(v, j)' = Has(v, j) /\ Fetching(v, j)' = Fetching(v, j)
  BY <1>1, <1>5 DEF Held, Has, Fetching, Listing
<1>9. posts[i] = 0 /\ i \notin ready \cup dead \cup seen \cup gone /\ ~Held(i)
  BY <1>0, <1>4 DEF Fresh
<1>10. TypeOK'
  BY <1>1, <1>2, <1>4, <1>5, <1>7, SMTT(30) DEF TypeOK, pastVars, Ids
<1>11. Placed'
  BY <1>0, <1>1, <1>4, <1>5 DEF Placed, TypeOK, Ids
<1>12. Fresh'
  BY <1>0, <1>4, <1>5, <1>7, <1>8 DEF Fresh, pastVars, Ids
<1>13. Owned'
  BY <1>5, <1>8, <1>9 DEF Owned
<1>14. Counted'
  <2>1. ~\E v \in Workers : Fetching(v, i)
    BY <1>9 DEF Held, Has
  <2> QED
    BY <1>5, <1>7, <1>8, <1>9, <2>1, ConstantsAssumption DEF Counted, Waiting, pastVars, Whole
<1>15. TasksCount'
  <2>1. \A v \in Workers : task[v][i].pc = "none"
    BY <1>9 DEF Held, Has
  <2> QED
    BY <1>5, <1>7, <2>1 DEF TasksCount, TaskCounts, pastVars, Whole
<1>16. Ended'
  BY <1>5, <1>7, <1>9 DEF Ended, pastVars, Whole
<1>17. Spent'
  <2>1. \A j \in Ids : (j <= i => j = i \/ j <= counter) /\ (j # i => (Whole(j)' <=> Whole(j)))
    BY <1>0, <1>4, <1>7 DEF Whole, Ids
  <2> QED
    BY <1>5, <1>7, <2>1 DEF Spent, Away, pastVars
<1>18. Somewhere'
  BY <1>0, <1>4, <1>5, <1>8 DEF Somewhere, Away, pastVars, Ids
<1> QED
  BY <1>10, <1>11, <1>12, <1>13, <1>14, <1>15, <1>16, <1>17, <1>18

LEMMA ListEntryKeeps ==
  ASSUME IInv, ListEntry
  PROVE  IInv'
<1> USE DEF IInv
<1>0. PICK i : i = arrival.id
  OBVIOUS
<1>1. /\ arrival.pc = "list" /\ ready' = ready \cup {i} /\ later' = later \ {i}
      /\ UNCHANGED <<counter, hash, dead, subs, worker, task, purge, pastVars, events>>
  BY <1>0 DEF ListEntry
<1>2. i \in Ids /\ i <= counter /\ Listing(i)
  BY <1>0, <1>1 DEF Placed, Listing
<1>3. /\ arrival' \in [pc : {"idle", "put"}, todo : SUBSET Subs, id : 0..MaxId]
      /\ arrival'.pc = "put" => arrival'.todo = arrival.todo /\ arrival.todo # {}
  <2>1. CASE arrival.todo = {}
    BY <2>1, ConstantsAssumption DEF ListEntry, Resting
  <2>2. CASE arrival.todo # {}
    <3>1. arrival' = [pc |-> "put", todo |-> arrival.todo, id |-> 0]
      BY <2>2 DEF ListEntry, TypeOK
    <3> QED
      BY <2>2, <3>1, ConstantsAssumption DEF TypeOK
  <2> QED
    BY <2>1, <2>2
<1>4. \A j \in Ids : /\ Held(j)' = Held(j) /\ ~Listing(j)' /\ (Listing(j) <=> j = i)
                     /\ \A v \in Workers : Has(v, j)' = Has(v, j) /\ Fetching(v, j)' = Fetching(v, j)
  BY <1>0, <1>1, <1>3 DEF Held, Has, Fetching, Listing
<1>5. TypeOK'
  BY <1>1, <1>2, <1>3 DEF TypeOK, pastVars
<1>6. Placed'
  BY <1>1, <1>3 DEF Placed
<1>7. Fresh'
  BY <1>1, <1>2, <1>4 DEF Fresh, pastVars, TypeOK, Ids
<1>8. Owned'
  BY <1>1, <1>2, <1>4 DEF Owned, Held
<1>9. Counted'
  BY <1>1, <1>2, <1>4 DEF Counted, Waiting, pastVars, Whole
<1>10. TasksCount'
  BY <1>1, HandsStay DEF pastVars
<1>11. Ended' /\ Spent'
  BY <1>1 DEF Ended, Spent, Away, pastVars, Whole
<1>12. Somewhere'
  BY <1>1, <1>4 DEF Somewhere, Away, pastVars
<1> QED
  BY <1>5, <1>6, <1>7, <1>8, <1>9, <1>10, <1>11, <1>12

-----------------------------------------------------------------------------
(* Claiming *)

Walks == [pc : WorkerPcs, todo : SUBSET Ids, id : 0..MaxId]

\* A worker reads the queue, looks at an entry, goes on to deliver or rests.
LEMMA WorkerTurns ==
  ASSUME IInv, NEW w \in Workers,
         ReadQueue(w) \/ CheckDue(w) \/ StartDeliveries(w) \/ EndPass(w)
  PROVE  IInv'
<1> USE DEF IInv
<1>1. UNCHANGED <<storeVars, arrival, task, purge, pastVars, events>>
  BY DEF ReadQueue, CheckDue, StartDeliveries, EndPass
<1>2. worker[w].pc # "fetch" /\ worker[w].todo \subseteq Ids
  BY DEF ReadQueue, CheckDue, StartDeliveries, EndPass, WorkerIs, TypeOK
<1>3. /\ worker' \in [Workers -> Walks] /\ worker'[w].pc # "fetch"
      /\ worker'[w].pc = "take" => worker'[w].id \in Ids
      /\ \A v \in Workers \ {w} : worker'[v] = worker[v]
  <2>1. CASE ReadQueue(w)
    BY <2>1, ConstantsAssumption DEF ReadQueue, WorkerDoes, Walks, WorkerPcs, TypeOK
  <2>2. CASE CheckDue(w)
    <3>1. PICK id \in worker[w].todo : \/ WorkerDoes(w, "take", worker[w].todo \ {id}, id)
                                       \/ WorkerDoes(w, "check", worker[w].todo \ {id}, 0)
      BY <2>2 DEF CheckDue
    <3>2. worker[w].todo \ {id} \in SUBSET Ids /\ id \in Ids /\ id \in 0..MaxId /\ 0 \in 0..MaxId
      BY <1>2, ConstantsAssumption DEF Ids
    <3>3. CASE WorkerDoes(w, "take", worker[w].todo \ {id}, id)
      BY <3>2, <3>3 DEF WorkerDoes, Walks, WorkerPcs, TypeOK
    <3>4. CASE WorkerDoes(w, "check", worker[w].todo \ {id}, 0)
      BY <3>2, <3>4 DEF WorkerDoes, Walks, WorkerPcs, TypeOK
    <3> QED
      BY <3>1, <3>3, <3>4
  <2>3. CASE StartDeliveries(w)
    BY <2>3, ConstantsAssumption DEF StartDeliveries, WorkerDoes, Walks, WorkerPcs, TypeOK
  <2>4. CASE EndPass(w)
    BY <2>4, ConstantsAssumption DEF EndPass, WorkerDoes, Walks, WorkerPcs, TypeOK
  <2> QED
    BY <2>1, <2>2, <2>3, <2>4
<1>4. TypeOK'
  BY <1>1, <1>3 DEF TypeOK, Walks, storeVars, pastVars
<1>5. Placed'
  BY <1>1, <1>3 DEF Placed, storeVars
<1>6. \A v \in Workers, j \in Ids : Has(v, j)' = Has(v, j) /\ Fetching(v, j)' = Fetching(v, j)
  BY <1>1, <1>2, <1>3 DEF Has, Fetching
<1>7. NothingGained /\ \A j \in Ids : Held(j)' = Held(j)
  BY <1>1, <1>6 DEF NothingGained, Held, Listing, storeVars, pastVars
<1>8. TasksCount'
  BY <1>1, TaskStays DEF TasksCount, storeVars, pastVars
<1>9. Somewhere'
  BY <1>1, <1>7 DEF Somewhere, Away, Listing, storeVars, pastVars
<1> QED
  BY <1>4, <1>5, <1>7, <1>8, <1>9, NothingGainedKeeps

\* A worker loses all it has in hand.
LEMMA WorkerStops ==
  ASSUME IInv, NEW w \in Workers, ClaimFails(w) \/ Die(w)
  PROVE  IInv'
<1> USE DEF IInv
<1>1. /\ UNCHANGED <<storeVars, arrival, purge, posts, seen, dropped, gone, late>>
      /\ slipped' = slipped \cup InHand(w) /\ events' \in 0..MaxEvents
      /\ task' = [task EXCEPT ![w] = [id \in Ids |-> NoTask]]
      /\ worker' = [worker EXCEPT ![w] = [pc |-> "idle", todo |-> {}, id |-> 0]]
  BY ConstantsAssumption DEF ClaimFails, Die, Happens, WorkerDoes, TypeOK
<1>2. NoTask \in Tasks /\ NoTask.pc = "none"
  BY ConstantsAssumption DEF NoTask, Tasks, TaskPcs
<1>3. /\ task' \in [Workers -> [Ids -> Tasks]]
      /\ \A j \in Ids : task'[w][j].pc = "none"
      /\ \A v \in Workers \ {w}, j \in Ids : task'[v][j] = task[v][j]
  BY <1>1, <1>2 DEF TypeOK
<1>4. /\ worker' \in [Workers -> Walks] /\ worker'[w].pc = "idle"
      /\ \A v \in Workers \ {w} : worker'[v] = worker[v]
  BY <1>1, ConstantsAssumption DEF TypeOK, Walks, WorkerPcs
<1>5. InHand(w) \subseteq Ids /\ \A j \in Ids : Has(w, j) => j \in InHand(w)
  BY DEF InHand, TasksOf, Has, Fetching, Placed
<1>6. TypeOK'
  BY <1>1, <1>3, <1>4, <1>5 DEF TypeOK, Walks, storeVars
<1>7. Placed'
  BY <1>1, <1>4 DEF Placed, storeVars
<1>8. \A v \in Workers, j \in Ids : /\ Has(v, j)' => Has(v, j)
                                    /\ Fetching(v, j)' => Fetching(v, j)
                                    /\ v # w => Has(v, j)' = Has(v, j)
  BY <1>1, <1>3, <1>4 DEF Has, Fetching
<1>9. NothingGained /\ \A j \in Ids : Held(j) => Held(j)' \/ j \in slipped'
  BY <1>1, <1>5, <1>8 DEF NothingGained, Held, Listing, storeVars
<1>10. TasksCount'
  BY <1>1, <1>3, TaskStays DEF TasksCount, storeVars
<1>11. Somewhere'
  BY <1>1, <1>9 DEF Somewhere, Away, Listing, storeVars
<1> QED
  BY <1>6, <1>7, <1>9, <1>10, <1>11, NothingGainedKeeps

\* The claim moves an entry from the queue into the hand of one worker.
LEMMA TakeReadyKeeps ==
  ASSUME IInv, NEW w \in Workers, TakeReady(w)
  PROVE  IInv'
<1> USE DEF IInv
<1>0. PICK i \in Ids : i = worker[w].id
  BY DEF TakeReady, WorkerIs, Placed
<1>1. /\ worker[w].pc = "take" /\ ready' = ready \ {i} /\ later' = later \ {i}
      /\ UNCHANGED <<counter, hash, dead, subs, arrival, task, purge, pastVars, events>>
  BY <1>0 DEF TakeReady, WorkerIs
<1>2. PICK x \in Walks : /\ worker' = [worker EXCEPT ![w] = x] /\ x.pc \in {"fetch", "check"}
                         /\ x.pc = "fetch" => x.id = i /\ i \in ready
                         /\ i \in ready => x.pc = "fetch"
  BY <1>0, ConstantsAssumption DEF TakeReady, WorkerDoes, Walks, WorkerPcs, TypeOK, Ids
<1>3. worker' \in [Workers -> Walks] /\ worker'[w] = x /\ \A v \in Workers \ {w} : worker'[v] = worker[v]
  BY <1>2 DEF TypeOK, Walks
<1>4. TypeOK'
  BY <1>1, <1>3 DEF TypeOK, Walks, pastVars
<1>5. Placed'
  BY <1>1, <1>2, <1>3 DEF Placed
<1>6. \A v \in Workers, j \in Ids :
        /\ Fetching(v, j)' = (Fetching(v, j) \/ (v = w /\ j = i /\ i \in ready))
        /\ Has(v, j)' = (Has(v, j) \/ (v = w /\ j = i /\ i \in ready))
  BY <1>1, <1>2, <1>3 DEF Has, Fetching
<1>7. \A j \in Ids : /\ Held(j) => Held(j)'
                     /\ Held(j)' => Held(j) \/ (j = i /\ i \in ready)
                     /\ i \in ready => Held(i)'
  BY <1>6 DEF Held
<1>8. Fresh'
  BY <1>1, <1>7 DEF Fresh, pastVars
<1>9. Owned'
  BY <1>1, <1>6, <1>7, ZenonT(40) DEF Owned, Held, Listing
<1>10. \A j \in Ids : Waiting(j)' => Waiting(j)
  BY <1>1, <1>6 DEF Waiting, Listing
<1>11. Counted'
  BY <1>1, <1>10 DEF Counted, Whole, pastVars
<1>12. TasksCount'
  BY <1>1, TaskStays DEF TasksCount, pastVars
<1>13. Ended' /\ Spent'
  BY <1>1 DEF Ended, Spent, Away, Whole, pastVars
<1>14. Somewhere'
  BY <1>1, <1>7 DEF Somewhere, Away, Listing, pastVars
<1> QED
  BY <1>4, <1>5, <1>8, <1>9, <1>11, <1>12, <1>13, <1>14

\* An entry claimed becomes a task, or is left when there is nothing to deliver.
LEMMA FetchEntryKeeps ==
  ASSUME IInv, NEW w \in Workers, FetchEntry(w)
  PROVE  IInv'
<1> USE DEF IInv
<1>0. PICK i \in Ids : i = worker[w].id
  BY DEF FetchEntry, WorkerIs, Placed
<1>1. /\ UNCHANGED <<storeVars, arrival, purge, pastVars, events>> /\ Fetching(w, i)
      /\ \A j \in Ids : Fetching(w, j) <=> j = i
  BY <1>0 DEF FetchEntry, WorkerIs, Fetching
<1>2. /\ worker' \in [Workers -> Walks] /\ worker'[w].pc = "check"
      /\ \A v \in Workers \ {w} : worker'[v] = worker[v]
  BY ConstantsAssumption DEF FetchEntry, WorkerDoes, TypeOK, Walks, WorkerPcs
<1>3. /\ Waiting(i) /\ i <= counter /\ i \notin seen
      /\ \A v \in Workers \ {w} : ~Has(v, i)
  BY <1>1 DEF Counted, Waiting, Owned, Fresh, Held, Has, TypeOK, Ids
<1>4. /\ task' \in [Workers -> [Ids -> Tasks]] /\ OtherTasksStay(w, i)
      /\ Whole(i) => /\ task'[w][i].pc = "claimed" /\ task'[w][i].attempts = hash[i].attempts
      /\ ~Whole(i) => task' = task
  <2>1. CASE Whole(i)
    <3> DEFINE t == [pc |-> "claimed", attempts |-> hash[i].attempts, sub |-> hash[i].sub]
    <3>1. t \in Tasks /\ t.pc = "claimed" /\ t.attempts = hash[i].attempts
      <4>1. hash[i] \in Entries
        BY <2>1 DEF Whole, TypeOK
      <4> QED
        BY <4>1 DEF Tasks, TaskPcs, Entries
    <3>2. task' = [task EXCEPT ![w][i] = t]
      BY <1>0, <2>1 DEF FetchEntry
    <3> HIDE DEF t
    <3>3. t \in Tasks
      BY <3>1
    <3>4. /\ task' \in [Workers -> [Ids -> Tasks]] /\ task'[w][i] = t
          /\ OtherTasksStay(w, i)
      BY <3>2, <3>3, TaskBecomes
    <3> QED
      BY <2>1, <3>1, <3>4
  <2>2. CASE ~Whole(i)
    BY <1>0, <2>2 DEF FetchEntry, TypeOK, OtherTasksStay
  <2> QED
    BY <2>1, <2>2
<1>5. \A v \in Workers, j \in Ids :
        /\ Fetching(v, j)' => Fetching(v, j)
        /\ Has(v, j)' => Has(v, j)
        /\ v # w \/ j # i => Has(v, j)' = Has(v, j)
  BY <1>1, <1>2, <1>4 DEF Has, Fetching, OtherTasksStay
<1>6. Whole(i) => Has(w, i)'
  BY <1>4 DEF Has
<1>7. NothingGained
  BY <1>1, <1>5 DEF NothingGained, Listing, storeVars, pastVars
<1>8. TypeOK'
  BY <1>1, <1>2, <1>4 DEF TypeOK, Walks, storeVars, pastVars
<1>9. Placed'
  BY <1>1, <1>2 DEF Placed, storeVars
<1>10. TasksCount'
  <2>1. TaskCounts(w, i)'
    <3>1. CASE Whole(i)
      BY <1>1, <1>3, <1>4, <3>1 DEF Counted, Ended, TaskCounts, storeVars, pastVars
    <3>2. CASE ~Whole(i)
      BY <1>1, <1>4, <3>2, TaskStays DEF TasksCount, storeVars, pastVars
    <3> QED
      BY <3>1, <3>2
  <2>2. ASSUME NEW v \in Workers, NEW j \in Ids, v # w \/ j # i
        PROVE  TaskCounts(v, j)'
    BY <2>2, <1>1, <1>4, TaskStays DEF TasksCount, OtherTasksStay, storeVars, pastVars
  <2> QED
    BY <2>1, <2>2 DEF TasksCount
<1>11. Somewhere'
  <2>1. \A j \in Ids : Held(j) => Held(j)' \/ (j = i /\ ~Whole(i))
    BY <1>5, <1>6 DEF Held
  <2>2. ~Whole(i) => Away(i)
    BY <1>3 DEF Spent
  <2> QED
    BY <1>1, <2>1, <2>2 DEF Somewhere, Away, Listing, storeVars, pastVars
<1> QED
  BY <1>7, <1>8, <1>9, <1>10, <1>11, NothingGainedKeeps

-----------------------------------------------------------------------------
(* Delivering *)

\* A task goes on to look up its subscription, and finds one or not.
LEMMA TaskGoesOn ==
  ASSUME IInv, NEW w \in Workers, NEW i \in Ids,
         BeginDelivery(w, i) \/ Lookup(w, i) \/ LookupFails(w, i)
  PROVE  IInv'
<1> USE DEF IInv
<1>1. /\ UNCHANGED <<storeVars, arrival, worker, purge, posts, seen, gone, late>>
      /\ dropped \subseteq dropped' /\ dropped' \subseteq Ids
      /\ slipped \subseteq slipped' /\ slipped' \subseteq Ids /\ events' \in 0..MaxEvents
  BY ConstantsAssumption DEF BeginDelivery, Lookup, LookupFails, Happens, TypeOK, pastVars
<1>2. PICK pc \in {"lookup", "post", "drop"} :
        TaskDoes(w, i, pc) /\ (pc = "drop" => i \in dropped' \cup slipped')
  BY DEF BeginDelivery, Lookup, LookupFails
<1>3. /\ task' \in [Workers -> [Ids -> Tasks]] /\ OtherTasksStay(w, i)
      /\ task'[w][i].pc = pc /\ task'[w][i].attempts = task[w][i].attempts
  BY <1>2, TaskDoesOnly DEF TaskPcs
<1>4. task[w][i].pc \in {"claimed", "lookup"}
  BY DEF BeginDelivery, Lookup, LookupFails, TaskIs
<1>5. TypeOK'
  BY <1>1, <1>3 DEF TypeOK, storeVars
<1>6. Placed'
  BY <1>1 DEF Placed, storeVars
<1>7. \A v \in Workers, j \in Ids : Has(v, j)' = Has(v, j) /\ Fetching(v, j)' = Fetching(v, j)
  BY <1>1, <1>3, <1>4 DEF Has, Fetching, OtherTasksStay
<1>8. NothingGained /\ \A j \in Ids : Held(j)' = Held(j)
  BY <1>1, <1>7 DEF NothingGained, Held, Listing, storeVars
<1>9. TasksCount'
  <2>1. TaskCounts(w, i)'
    BY <1>1, <1>2, <1>3, <1>4 DEF TasksCount, TaskCounts
  <2>2. ASSUME NEW v \in Workers, NEW j \in Ids, v # w \/ j # i
        PROVE  TaskCounts(v, j)'
    BY <2>2, <1>1, <1>3, TaskStays DEF TasksCount, OtherTasksStay, storeVars
  <2> QED
    BY <2>1, <2>2 DEF TasksCount
<1>10. Somewhere'
  BY <1>1, <1>8 DEF Somewhere, Away, Listing, storeVars
<1> QED
  BY <1>5, <1>6, <1>8, <1>9, <1>10, NothingGainedKeeps

LEMMA TaskEndsOnly ==
  ASSUME TypeOK, NEW w \in Workers, NEW i \in Ids, TaskEnds(w, i)
  PROVE  /\ task' \in [Workers -> [Ids -> Tasks]] /\ OtherTasksStay(w, i)
         /\ task'[w][i].pc = "none"
<1>1. NoTask \in Tasks /\ NoTask.pc = "none"
  BY ConstantsAssumption DEF NoTask, Tasks, TaskPcs
<1> QED
  BY <1>1, TaskBecomes DEF TaskEnds

LEMMA DeliveryFailsKeeps ==
  ASSUME IInv, NEW w \in Workers, NEW i \in Ids, DeliveryFails(w, i)
  PROVE  IInv'
<1> USE DEF IInv
<1>1. /\ UNCHANGED <<storeVars, arrival, worker, purge, posts, seen, dropped, gone, late>>
      /\ slipped' = slipped \cup {i} /\ events' \in 0..MaxEvents
  BY ConstantsAssumption DEF DeliveryFails, Happens, TypeOK
<1>2. /\ task' \in [Workers -> [Ids -> Tasks]] /\ OtherTasksStay(w, i)
      /\ task'[w][i].pc = "none"
  BY TaskEndsOnly DEF DeliveryFails
<1>3. TypeOK'
  BY <1>1, <1>2 DEF TypeOK, storeVars
<1>4. Placed'
  BY <1>1 DEF Placed, storeVars
<1>5. \A v \in Workers, j \in Ids : /\ Has(v, j)' => Has(v, j)
                                    /\ Fetching(v, j)' => Fetching(v, j)
                                    /\ v # w \/ j # i => Has(v, j)' = Has(v, j)
  BY <1>1, <1>2 DEF Has, Fetching, OtherTasksStay
<1>6. NothingGained /\ \A j \in Ids : Held(j) => Held(j)' \/ j \in slipped'
  BY <1>1, <1>5 DEF NothingGained, Held, Listing, storeVars
<1>7. TasksCount'
  BY <1>1, <1>2, TaskStays DEF TasksCount, OtherTasksStay, storeVars
<1>8. Somewhere'
  BY <1>1, <1>6 DEF Somewhere, Away, Listing, storeVars
<1> QED
  BY <1>3, <1>4, <1>6, <1>7, <1>8, NothingGainedKeeps

LEMMA PostKeeps ==
  ASSUME IInv, NEW w \in Workers, NEW i \in Ids, Post(w, i)
  PROVE  IInv'
<1> USE DEF IInv
<1>1. /\ UNCHANGED <<storeVars, arrival, worker, purge, dropped, gone, slipped, events>>
      /\ posts' = [posts EXCEPT ![i] = @ + 1]
      /\ late \subseteq late' /\ late' \subseteq late \cup {i} /\ (i \in late' => i \in gone \cup late)
  BY DEF Post
<1>2. task[w][i].pc = "post" /\ worker[w].pc = "deliver"
  BY DEF Post, TaskIs, WorkerIs
<1>3. /\ posts' \in [Ids -> Nat] /\ posts'[i] = posts[i] + 1
      /\ \A j \in Ids \ {i} : posts'[j] = posts[j]
  BY <1>1 DEF TypeOK
<1>4. PICK pc \in {"forget", "record"} :
        TaskDoes(w, i, pc) /\ seen' = IF pc = "forget" THEN seen \cup {i} ELSE seen
  BY DEF Post
<1>5. /\ task' \in [Workers -> [Ids -> Tasks]] /\ OtherTasksStay(w, i)
      /\ task'[w][i].pc = pc /\ task'[w][i].attempts = task[w][i].attempts
  BY <1>4, TaskDoesOnly DEF TaskPcs
<1>6. /\ posts[i] = task[w][i].attempts /\ task[w][i].attempts < MaxAttempts
      /\ posts[i] + 1 <= MaxAttempts /\ i \notin seen
  BY <1>2, ConstantsAssumption DEF TasksCount, TaskCounts, TypeOK, Tasks
<1>7. /\ ~Waiting(i) /\ i <= counter /\ i \notin dead
      /\ \A v \in Workers \ {w} : task[v][i].pc = "none"
  BY <1>2 DEF Owned, Fresh, Waiting, Held, Has, Fetching, TypeOK, Ids
<1>8. \A v \in Workers, j \in Ids : Has(v, j)' = Has(v, j) /\ Fetching(v, j)' = Fetching(v, j)
  BY <1>1, <1>2, <1>4, <1>5 DEF Has, Fetching, OtherTasksStay
<1>9. \A j \in Ids : Held(j)' = Held(j) /\ Listing(j)' = Listing(j) /\ Waiting(j)' = Waiting(j)
  BY <1>1, <1>8 DEF Held, Listing, Waiting, storeVars
<1>10. TypeOK'
  BY <1>1, <1>3, <1>4, <1>5 DEF TypeOK, storeVars
<1>11. Placed'
  BY <1>1 DEF Placed, storeVars
<1>12. Fresh'
  BY <1>1, <1>3, <1>4, <1>7, <1>9 DEF Fresh, storeVars, TypeOK, Ids
<1>13. Owned'
  BY <1>1, <1>8, <1>9 DEF Owned, storeVars
<1>14. Counted'
  BY <1>1, <1>3, <1>4, <1>7, <1>9 DEF Counted, Whole, storeVars
<1>15. TasksCount'
  <2>1. TaskCounts(w, i)'
    BY <1>3, <1>4, <1>5, <1>6 DEF TaskCounts
  <2>2. ASSUME NEW v \in Workers, NEW j \in Ids, j # i
        PROVE  TaskCounts(v, j)'
    BY <2>2, <1>1, <1>3, <1>4, <1>5, TaskStays DEF TasksCount, OtherTasksStay, storeVars
  <2>3. ASSUME NEW v \in Workers \ {w}
        PROVE  TaskCounts(v, i)'
    BY <2>3, <1>5, <1>7 DEF TaskCounts, OtherTasksStay
  <2> QED
    BY <2>1, <2>2, <2>3 DEF TasksCount
<1>16. Ended'
  <2>1. \A j \in Ids : Whole(j)' <=> Whole(j)
    BY <1>1 DEF Whole, storeVars
  <2> QED
    BY <1>1, <1>3, <1>4, <1>6, <1>7, <2>1 DEF Ended, storeVars
<1>17. Spent'
  BY <1>1, <1>4 DEF Spent, Away, Whole, storeVars
<1>18. Somewhere'
  BY <1>1, <1>4, <1>9 DEF Somewhere, Away, storeVars
<1> QED
  BY <1>10, <1>11, <1>12, <1>13, <1>14, <1>15, <1>16, <1>17, <1>18

LEMMA MarkDeliveredKeeps ==
  ASSUME IInv, NEW w \in Workers, NEW i \in Ids, MarkDelivered(w, i)
  PROVE  IInv'
<1> USE DEF IInv
<1>1. /\ UNCHANGED <<counter, ready, later, dead, subs, arrival, worker, purge, pastVars, events>>
      /\ hash' = [hash EXCEPT ![i] = None]
  BY DEF MarkDelivered
<1>2. task[w][i].pc \in {"forget", "drop"} /\ worker[w].pc = "deliver"
  BY DEF MarkDelivered, TaskIs, WorkerIs
<1>3. /\ task' \in [Workers -> [Ids -> Tasks]] /\ OtherTasksStay(w, i)
      /\ task'[w][i].pc = "none"
  BY TaskEndsOnly DEF MarkDelivered
<1>4. hash' \in [Ids -> Entries \cup {None}] /\ hash'[i] = None /\ \A j \in Ids \ {i} : hash'[j] = hash[j]
  BY <1>1 DEF TypeOK
<1>5. ~Whole(i)' /\ \A j \in Ids \ {i} : Whole(j)' <=> Whole(j)
  BY <1>4 DEF Whole
<1>6. /\ Away(i) /\ i <= counter /\ \A v \in Workers \ {w} : task[v][i].pc = "none"
  BY <1>2 DEF TasksCount, TaskCounts, Away, Owned, Fresh, Held, Has, TypeOK, Ids
<1>7. \A v \in Workers, j \in Ids : /\ Has(v, j)' => Has(v, j)
                                    /\ Fetching(v, j)' = Fetching(v, j)
                                    /\ v # w \/ j # i => Has(v, j)' = Has(v, j)
  BY <1>1, <1>3 DEF Has, Fetching, OtherTasksStay
<1>8. \A j \in Ids : /\ Held(j)' => Held(j)
                     /\ j # i => Held(j)' = Held(j)
                     /\ Waiting(j)' = Waiting(j) /\ Listing(j)' = Listing(j)
  BY <1>1, <1>7 DEF Held, Waiting, Listing
<1>9. TypeOK'
  BY <1>1, <1>3, <1>4 DEF TypeOK, pastVars
<1>10. Placed'
  BY <1>1 DEF Placed
<1>11. Fresh'
  BY <1>1, <1>4, <1>8 DEF Fresh, pastVars
<1>12. Owned'
  BY <1>1, <1>7, <1>8 DEF Owned
<1>13. Counted'
  BY <1>1, <1>4, <1>5, <1>8 DEF Counted, pastVars
<1>14. TasksCount'
  <2>1. ASSUME NEW v \in Workers
        PROVE  TaskCounts(v, i)'
    BY <2>1, <1>3, <1>6 DEF TaskCounts, OtherTasksStay
  <2>2. ASSUME NEW v \in Workers, NEW j \in Ids, j # i
        PROVE  TaskCounts(v, j)'
    BY <2>2, <1>1, <1>3, <1>4, TaskStays DEF TasksCount, OtherTasksStay, pastVars
  <2> QED
    BY <2>1, <2>2 DEF TasksCount
<1>15. Ended'
  BY <1>1, <1>5 DEF Ended, pastVars
<1>16. Spent'
  BY <1>1, <1>5, <1>6 DEF Spent, Away, pastVars
<1>17. Somewhere'
  BY <1>1, <1>6, <1>8 DEF Somewhere, Away, pastVars
<1> QED
  BY <1>9, <1>10, <1>11, <1>12, <1>13, <1>14, <1>15, <1>16, <1>17

LEMMA IndexFailureKeeps ==
  ASSUME IInv, NEW w \in Workers, NEW i \in Ids, IndexFailure(w, i)
  PROVE  IInv'
<1> USE DEF IInv
<1>1. /\ UNCHANGED <<counter, hash, subs, arrival, worker, purge, pastVars, events>>
      /\ \/ /\ task[w][i].attempts < MaxAttempts /\ dead' = dead
            /\ ready' = ready \cup {i} /\ later' = later \cup {i}
         \/ /\ task[w][i].attempts >= MaxAttempts /\ dead' = dead \cup {i}
            /\ ready' = ready /\ later' = later
  BY ConstantsAssumption DEF IndexFailure, GivesUp, TypeOK, Tasks
<1>2. task[w][i].pc = "index" /\ worker[w].pc = "deliver"
  BY DEF IndexFailure, TaskIs, WorkerIs
<1>3. /\ task' \in [Workers -> [Ids -> Tasks]] /\ OtherTasksStay(w, i)
      /\ task'[w][i].pc = "none"
  BY TaskEndsOnly DEF IndexFailure
<1>4. /\ posts[i] = task[w][i].attempts /\ i \notin seen /\ posts[i] \in Nat /\ posts[i] <= MaxAttempts
      /\ Whole(i) => hash[i].attempts = posts[i]
  BY <1>2 DEF TasksCount, TaskCounts, Ended, TypeOK
<1>5. /\ i \notin ready \cup dead /\ ~Listing(i) /\ i <= counter
      /\ \A v \in Workers : ~Fetching(v, i)
      /\ \A v \in Workers \ {w} : ~Has(v, i)
  BY <1>2 DEF Owned, Fresh, Held, Has, Fetching, TypeOK, Ids
<1>6. \A v \in Workers, j \in Ids : /\ Has(v, j)' <=> Has(v, j) /\ ~(v = w /\ j = i)
                                    /\ Fetching(v, j)' = Fetching(v, j)
  BY <1>1, <1>3, <1>5 DEF Has, Fetching, OtherTasksStay
<1>7. \A j \in Ids : /\ Listing(j)' = Listing(j) /\ (Held(j)' => Held(j))
                     /\ j # i => Held(j)' = Held(j)
                     /\ Waiting(j)' => Waiting(j) \/ (j = i /\ posts[i] < MaxAttempts)
  BY <1>1, <1>4, <1>6 DEF Held, Listing, Waiting
<1>8. ~Held(i)'
  BY <1>5, <1>6 DEF Held
<1>9. TypeOK'
  BY <1>1, <1>3 DEF TypeOK, pastVars
<1>10. Placed'
  BY <1>1 DEF Placed
<1>11. Fresh'
  BY <1>1, <1>5, <1>7 DEF Fresh, pastVars, TypeOK, Ids
<1>12. Owned'
  BY <1>1, <1>5, <1>6, <1>7, <1>8 DEF Owned
<1>13. Counted'
  BY <1>1, <1>4, <1>7 DEF Counted, Whole, pastVars
<1>14. TasksCount'
  BY <1>1, <1>3, TaskStays DEF TasksCount, OtherTasksStay, pastVars
<1>15. Ended'
  <2>1. i \in dead' => posts[i] = MaxAttempts
    BY <1>1, <1>4, <1>5, ConstantsAssumption
  <2> QED
    BY <1>1, <1>4, <2>1 DEF Ended, Whole, pastVars
<1>16. Spent'
  BY <1>1 DEF Spent, Away, Whole, pastVars
<1>17. Somewhere'
  BY <1>1, <1>7 DEF Somewhere, Away, pastVars
<1> QED
  BY <1>9, <1>10, <1>11, <1>12, <1>13, <1>14, <1>15, <1>16, <1>17

-----------------------------------------------------------------------------
(* The invariant holds *)

LEMMA InitIInv == Init => IInv
<1> SUFFICES ASSUME Init PROVE IInv
  OBVIOUS
<1>1. \A w \in Workers : /\ worker[w].pc = "idle"
                         /\ \A id \in Ids : task[w][id].pc = "none" /\ ~Has(w, id)
  BY DEF Init, Resting, NoTask, Has, Fetching
<1>2. arrival = Resting /\ purge = Resting /\ counter = 0 /\ \A id \in Ids : id > 0
  BY ConstantsAssumption DEF Init, Ids
<1>3. NoTask \in Tasks /\ Resting.pc = "idle" /\ Resting.todo = {} /\ Resting.id = 0
  BY ConstantsAssumption DEF NoTask, Tasks, TaskPcs, Resting
<1>4. TypeOK
  BY <1>3, ConstantsAssumption DEF Init, TypeOK, WorkerPcs, PurgePcs, Resting
<1>5. Placed /\ Fresh
  BY <1>1, <1>2, <1>3 DEF Init, Placed, Fresh, Held
<1>6. Owned /\ Counted
  BY <1>1, <1>2, <1>3 DEF Init, Owned, Counted, Waiting, Held, Listing, Fetching
<1>7. TasksCount
  BY <1>1 DEF TasksCount, TaskCounts
<1>8. Ended
  BY ConstantsAssumption DEF Init, Ended
<1>9. Spent /\ Somewhere
  BY <1>2 DEF Spent, Somewhere, Ids
<1> QED
  BY <1>4, <1>5, <1>6, <1>7, <1>8, <1>9 DEF IInv

LEMMA StutterKeeps == IInv /\ UNCHANGED vars => IInv'
<1> SUFFICES ASSUME IInv, UNCHANGED vars PROVE IInv'
  OBVIOUS
<1> USE DEF IInv, vars, storeVars, pastVars
<1>1. TypeOK' /\ Placed'
  BY DEF TypeOK, Placed
<1>2. TasksCount' /\ NothingGained /\ \A j \in Ids : Held(j)' = Held(j)
  BY HandsStay DEF NothingGained, Listing
<1>3. Somewhere'
  BY <1>2 DEF Somewhere, Away, Listing
<1> QED
  BY <1>1, <1>2, <1>3, NothingGainedKeeps

LEMMA NextKeeps == IInv /\ Next => IInv'
<1> SUFFICES ASSUME IInv, Next PROVE IInv'
  OBVIOUS
<1>1. CASE Arrive \/ PutEntry \/ ListEntry \/ StopArrival
  BY <1>1, ArriveKeeps, PutEntryKeeps, ListEntryKeeps, StopArrivalKeeps
<1>2. CASE \E w \in Workers : WorkerSteps(w)
  <2>1. PICK w \in Workers : WorkerSteps(w)
    BY <1>2
  <2>2. CASE ReadQueue(w) \/ CheckDue(w) \/ TakeReady(w) \/ FetchEntry(w)
             \/ StartDeliveries(w) \/ EndPass(w)
    BY <2>2, WorkerTurns, TakeReadyKeeps, FetchEntryKeeps
  <2>3. CASE \E i \in Ids : TaskSteps(w, i)
    <3>1. PICK i \in Ids : TaskSteps(w, i)
      BY <2>3
    <3> QED
      BY <3>1, TaskGoesOn, PostKeeps, MarkDeliveredKeeps, RecordFailureKeeps, IndexFailureKeeps
         DEF TaskSteps
  <2> QED
    BY <2>1, <2>2, <2>3 DEF WorkerSteps
<1>3. CASE \E w \in Workers : WorkerSlips(w)
  BY <1>3, WorkerStops, TaskGoesOn, DeliveryFailsKeeps DEF WorkerSlips
<1>4. CASE Unsubscribe \/ TimePasses
  BY <1>4, EnvironmentKeeps
<1>5. CASE PurgeSubs \/ PurgeGoesOn \/ PurgeFails
  BY <1>5, PurgeWalks, PurgeHashKeeps DEF PurgeGoesOn
<1> QED
  BY <1>1, <1>2, <1>3, <1>4, <1>5 DEF Next

\* Where an entry is, who has it in hand and how often it was tried agree in every
\* reachable state, whatever dies or fails (claim_due, deliver_one, purge_account).
THEOREM Invariance == Spec => []IInv
<1>1. IInv /\ [Next]_vars => IInv'
  BY NextKeeps, StutterKeeps
<1> QED
  BY InitIInv, <1>1, PTL DEF Spec

-----------------------------------------------------------------------------
(* What follows *)

\* Every reachable state of the queue is well typed.
THEOREM TypeCorrect == Spec => []TypeOK
<1>1. IInv => TypeOK
  BY DEF IInv
<1> QED
  BY Invariance, <1>1, PTL

LEMMA HandsAre ==
  ASSUME IInv, NEW w \in Workers
  PROVE  InHand(w) \subseteq Ids /\ \A id \in Ids : id \in InHand(w) <=> Has(w, id)
BY DEF IInv, Placed, InHand, TasksOf, Has, Fetching

\* claim_due: an entry in the hand of one worker is in no queue and in no other
\* worker's hand, however many processes claim.
THEOREM OneOwner == Spec => []ClaimedOnce
<1>1. IInv => ClaimedOnce
  BY HandsAre DEF IInv, Owned, ClaimedOnce
<1> QED
  BY Invariance, <1>1, PTL

\* plan_after_failure: no entry is POSTed more than MAX_ATTEMPTS times, and none is
\* given up on before.
THEOREM AttemptsBounded == Spec => []TriedEnough
<1>1. IInv => TriedEnough
  BY DEF IInv, Ended, TriedEnough
<1> QED
  BY Invariance, <1>1, PTL

\* An entry queued is somewhere, or ended in a way the code means, or a death or
\* a failed call explains where it went.
THEOREM NoneForgotten == Spec => []NothingForgotten
<1>1. IInv => NothingForgotten
  <2> SUFFICES ASSUME IInv, NEW id \in 1..counter
               PROVE  \/ id \in Explained \cup ready
                      \/ \E w \in Workers : id \in InHand(w)
                      \/ arrival.pc = "list" /\ arrival.id = id
                      \/ purge.pc \in {"dead", "del"} /\ purge.id = id
    BY DEF NothingForgotten
  <2>1. id \in Ids /\ id <= counter
    BY ConstantsAssumption DEF IInv, TypeOK, Ids
  <2> QED
    BY <2>1, HandsAre DEF IInv, Somewhere, Away, Held, Listing, Explained
<1> QED
  BY Invariance, <1>1, PTL

\* The purge's mark stays, and only a task POSTs.
LEMMA PostsAreSteps ==
  ASSUME Next
  PROVE  gone \subseteq gone' /\ (posts' = posts \/ \E w \in Workers, i \in Ids : Post(w, i))
<1>1. CASE Arrive \/ PutEntry \/ ListEntry \/ StopArrival
  BY <1>1 DEF Arrive, PutEntry, ListEntry, StopArrival, pastVars
<1>2. CASE Unsubscribe \/ TimePasses \/ PurgeSubs \/ PurgeFails
  BY <1>2 DEF Unsubscribe, TimePasses, PurgeSubs, PurgeFails, pastVars
<1>3. CASE PurgeGoesOn
  BY <1>3 DEF PurgeGoesOn, PurgeKeys, PurgeOwner, PurgeReady, PurgeDead, PurgeHash, pastVars
<1>4. ASSUME NEW w \in Workers, WorkerSlips(w)
      PROVE  gone \subseteq gone' /\ posts' = posts
  <2>1. CASE ClaimFails(w) \/ Die(w)
    BY <2>1 DEF ClaimFails, Die
  <2>2. ASSUME NEW i \in Ids, LookupFails(w, i) \/ DeliveryFails(w, i)
        PROVE  gone \subseteq gone' /\ posts' = posts
    BY <2>2 DEF LookupFails, DeliveryFails
  <2> QED
    BY <1>4, <2>1, <2>2 DEF WorkerSlips
<1>5. ASSUME NEW w \in Workers, WorkerSteps(w)
      PROVE  gone \subseteq gone' /\ (posts' = posts \/ \E i \in Ids : Post(w, i))
  <2>1. CASE ReadQueue(w) \/ CheckDue(w) \/ TakeReady(w)
    BY <2>1 DEF ReadQueue, CheckDue, TakeReady, pastVars
  <2>2. CASE FetchEntry(w) \/ StartDeliveries(w) \/ EndPass(w)
    BY <2>2 DEF FetchEntry, StartDeliveries, EndPass, pastVars
  <2>3. ASSUME NEW i \in Ids, TaskSteps(w, i), ~Post(w, i)
        PROVE  gone \subseteq gone' /\ posts' = posts
    BY <2>3 DEF TaskSteps, BeginDelivery, Lookup, MarkDelivered, RecordFailure, IndexFailure,
       pastVars
  <2>4. ASSUME NEW i \in Ids, Post(w, i) PROVE gone \subseteq gone'
    BY <2>4 DEF Post
  <2> QED
    BY <1>5, <2>1, <2>2, <2>3, <2>4 DEF WorkerSteps
<1> QED
  BY <1>1, <1>2, <1>3, <1>4, <1>5 DEF Next

LEMMA PostCounts ==
  ASSUME IInv, Next, NEW id \in Ids, posts'[id] # posts[id]
  PROVE  id \notin seen /\ id \notin late
<1>1. PICK w \in Workers, i \in Ids : Post(w, i)
  BY PostsAreSteps
<1>2. i = id /\ task[w][id].pc = "post"
  BY <1>1 DEF Post, TaskIs, IInv, TypeOK
<1> QED
  BY <1>2 DEF IInv, TasksCount, TaskCounts

\* mark_delivered: what was seen to succeed is never POSTed again.
THEOREM NotAgainHolds == Spec => NotAgain
<1>1. IInv /\ [Next]_vars => [\A id \in seen : posts'[id] = posts[id]]_vars
  <2> SUFFICES ASSUME IInv, Next, NEW id \in seen PROVE posts'[id] = posts[id]
    OBVIOUS
  <2>1. id \in Ids
    BY DEF IInv, TypeOK
  <2> QED
    BY <2>1, PostCounts
<1> QED
  BY Invariance, <1>1, PTL DEF Spec, NotAgain

\* purge_account: an entry it deleted has no payload again and is POSTed once more
\* at most.
THEOREM PurgedStays == Spec => PurgedStaysGone
<1>1. IInv /\ [Next]_vars =>
        [\A id \in gone : /\ ~Whole(id)' /\ (id \in late => posts'[id] = posts[id])]_vars
  <2> SUFFICES ASSUME IInv, Next, NEW id \in gone
               PROVE  ~Whole(id)' /\ (id \in late => posts'[id] = posts[id])
    OBVIOUS
  <2>1. id \in Ids
    BY DEF IInv, TypeOK
  <2>2. id \in gone'
    BY PostsAreSteps
  <2>3. ~Whole(id)'
    BY <2>1, <2>2, NextKeeps DEF IInv, Ended
  <2> QED
    BY <2>1, <2>3, PostCounts
<1> QED
  BY Invariance, <1>1, PTL DEF Spec, PurgedStaysGone
=============================================================================
