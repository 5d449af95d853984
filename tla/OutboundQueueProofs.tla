-------------------------- MODULE OutboundQueueProofs --------------------------
(***************************************************************************)
(* What holds of the outbound queue for every set of jobs and senders, any *)
(* number of deaths, failed calls and requests: whose a job is while it is *)
(* being sent, how often a receiving server can take it, how often it can  *)
(* take a sender down, and when.                                           *)
(***************************************************************************)
EXTENDS OutboundQueue, FiniteSetTheorems, TLAPS

-----------------------------------------------------------------------------
(* The operators *)

\* An id waits in the list.
InPending(j) == \E i \in DOMAIN pending : pending[i] = j

LEMMA PushList ==
  ASSUME NEW s \in Seq(Jobs), NEW j \in Jobs
  PROVE  /\ <<j>> \o s \in Seq(Jobs)
         /\ \A k : (\E i \in DOMAIN (<<j>> \o s) : (<<j>> \o s)[i] = k)
                     => k = j \/ \E i \in DOMAIN s : s[i] = k
<1>1. /\ <<j>> \o s \in Seq(Jobs) /\ Len(<<j>> \o s) = 1 + Len(s)
      /\ \A i \in 1 .. 1 + Len(s) : (<<j>> \o s)[i] = IF i = 1 THEN j ELSE s[i - 1]
  OBVIOUS
<1>2. ASSUME NEW i \in DOMAIN (<<j>> \o s), (<<j>> \o s)[i] # j
      PROVE  i - 1 \in DOMAIN s /\ (<<j>> \o s)[i] = s[i - 1]
  BY <1>1, <1>2
<1> QED
  BY <1>1, <1>2

LEMMA PopList ==
  ASSUME NEW s \in Seq(Jobs), s # <<>>
  PROVE  /\ s[Len(s)] \in Jobs /\ SubSeq(s, 1, Len(s) - 1) \in Seq(Jobs)
         /\ \E i \in DOMAIN s : s[i] = s[Len(s)]
         /\ \A k : (\E i \in DOMAIN SubSeq(s, 1, Len(s) - 1) : SubSeq(s, 1, Len(s) - 1)[i] = k)
                     => \E i \in DOMAIN s : s[i] = k
<1>1. Len(s) \in Nat \ {0} /\ \A i \in 1 .. Len(s) : s[i] \in Jobs
  OBVIOUS
<1>2. /\ SubSeq(s, 1, Len(s) - 1) \in Seq(Jobs)
      /\ DOMAIN SubSeq(s, 1, Len(s) - 1) = 1 .. (Len(s) - 1)
      /\ \A i \in 1 .. (Len(s) - 1) : SubSeq(s, 1, Len(s) - 1)[i] = s[i]
  BY <1>1
<1> QED
  BY <1>1, <1>2

\* What the transitions of a row do to its type and its fields.
LEMMA RowType ==
  ASSUME NEW r \in Row, NEW st \in States
  PROVE  [r EXCEPT !.state = st] \in Row /\ Mark(r, st) \in Row /\ Final(r, st) \in Row
BY DEF Row, Mark, Final, Ages

LEMMA RowFields ==
  ASSUME NEW r \in Row
  PROVE  /\ [r EXCEPT !.claimed = "fresh"] \in Row /\ [r EXCEPT !.claimed = "none"] \in Row
         /\ [r EXCEPT !.updated = "fresh"] \in Row
         /\ [r EXCEPT !.ripe = TRUE] \in Row /\ [r EXCEPT !.blob = "filler"] \in Row
BY DEF Row, Ages

LEMMA NoRowType == NoRow \in Row /\ NewRow \in Row
BY DEF NoRow, NewRow, Row, States, Ages

LEMMA RowParts ==
  ASSUME NEW r \in Row
  PROVE  /\ r.state \in States /\ r.blob \in {"none", "message", "filler"} /\ r.tries \in Nat
         /\ r.claimed \in Ages /\ r.updated \in Ages /\ r.interrupted \in Nat
         /\ r.ripe \in BOOLEAN /\ r.expires \in BOOLEAN
BY DEF Row

LEMMA StoppedTale ==
  ASSUME NEW t \in Tale, NEW k \in {0, 1}
  PROVE  [t EXCEPT !.stops = @ + 1, !.killed = @ + k] \in Tale
<1>1. t.stops + 1 \in Nat /\ t.killed + k \in Nat
  BY DEF Tale
<1> QED
  BY <1>1 DEF Tale

-----------------------------------------------------------------------------
(* Types, and what a process has in hand when it is not idle. *)

RowOK  == row \in [Jobs -> Row]
ListOK == /\ pending \in Seq(Jobs) /\ idx \in [Names -> SUBSET Jobs]
          /\ due \subseteq Jobs /\ paused \in BOOLEAN
SndOK  == /\ snd \in [Senders -> [pc : Pcs, job : Jobs \cup {NoJob}, tries : Nat]]
          /\ \A s \in Senders : snd[s].pc = "idle" <=> snd[s].job = NoJob
WebOK  == /\ web \in [pc : WebPcs, job : Jobs \cup {NoJob}, ids : SUBSET Jobs]
          /\ web.pc \in {"idle", "send", "discard"} <=> web.job = NoJob
          /\ web.pc \notin {"send", "discard"} => web.ids = {}
TaleOK == /\ tale \in [Jobs -> Tale]
          /\ spare \in [{"stops", "asks", "blips"} -> Nat]

Sound == RowOK /\ ListOK /\ SndOK /\ WebOK /\ TaleOK

LEMMA SndRest == ASSUME SndOK, NEW s \in Senders, Rest(s) PROVE SndOK'
BY DEF SndOK, Rest, Idle, Pcs

LEMMA SndGoto ==
  ASSUME SndOK, NEW s \in Senders, NEW p \in Pcs, Goto(s, p), ~At(s, "idle"), p # "idle"
  PROVE  SndOK'
BY DEF SndOK, Goto, At

LEMMA SndTake ==
  ASSUME SndOK, NEW s \in Senders, NEW p \in Pcs, NEW j \in Jobs, Take(s, p, j), p # "idle"
  PROVE  SndOK'
BY ConstantsAssumption DEF SndOK, Take

LEMMA InHandJob ==
  ASSUME SndOK, NEW s \in Senders, ~At(s, "idle")
  PROVE  snd[s].job \in Jobs
BY DEF SndOK, At

LEMMA WebAnswer == ASSUME WebOK, Answer PROVE WebOK'
BY DEF WebOK, Answer, WebIdle, WebPcs

LEMMA WebFollow ==
  ASSUME WebOK, NEW j \in Jobs, NEW p \in WebPcs \ {"idle", "send", "discard"}, Follow(p, j)
  PROVE  WebOK'
BY ConstantsAssumption DEF WebOK, Follow

LEMMA WebJob ==
  ASSUME WebOK, web.pc \notin {"idle", "send", "discard"}
  PROVE  web.job \in Jobs
BY DEF WebOK

LEMMA SpareType ==
  ASSUME TaleOK, NEW b \in {"stops", "asks", "blips"}, Spend(b)
  PROVE  spare' \in [{"stops", "asks", "blips"} -> Nat]
<1>1. spare[b] - 1 \in Nat
  BY DEF TaleOK, Spend
<1> QED
  BY <1>1 DEF TaleOK, Spend

LEMMA ListChange ==
  ASSUME ListOK, NEW n \in Names, NEW j \in Jobs
  PROVE  /\ Push(j) => pending' \in Seq(Jobs)
         /\ Add(n, j) \/ Del(n, j) => idx' \in [Names -> SUBSET Jobs]
<1>1. Push(j) => pending' \in Seq(Jobs)
  BY PushList DEF ListOK, Push
<1>2. Add(n, j) \/ Del(n, j) => idx' \in [Names -> SUBSET Jobs]
  BY DEF ListOK, Add, Del
<1> QED
  BY <1>1, <1>2

\* A row changed to one of its kind, and a tale as well.
LEMMA RowChange ==
  ASSUME RowOK, NEW j \in Jobs, NEW r \in Row, row' = [row EXCEPT ![j] = r]
  PROVE  RowOK'
BY DEF RowOK

\* What of a job's history its delete leaves alone.
SameHistory(k) ==
  /\ tale'[k].queued = tale[k].queued /\ tale'[k].accepted = tale[k].accepted
  /\ tale'[k].stops = tale[k].stops /\ tale'[k].killed = tale[k].killed
  /\ tale'[k].again = tale[k].again /\ tale'[k].cancelled = tale[k].cancelled
  /\ tale'[k].ended = tale[k].ended

LEMMA TakenTale ==
  ASSUME TaleOK, NEW j \in Jobs, UNCHANGED spare, NEW b \in BOOLEAN,
         tale' = [tale EXCEPT ![j].taken = b]
  PROVE  /\ TaleOK' /\ \A k \in Jobs : SameHistory(k)
         /\ tale'[j].taken = b /\ \A k \in Jobs \ {j} : tale'[k] = tale[k]
<1>1. tale \in [Jobs -> Tale] /\ tale[j] \in Tale
  BY DEF TaleOK
<1>2. [tale[j] EXCEPT !.taken = b] \in Tale
  BY <1>1 DEF Tale
<1>3. tale' \in [Jobs -> Tale] /\ tale'[j] = [tale[j] EXCEPT !.taken = b]
      /\ \A k \in Jobs \ {j} : tale'[k] = tale[k]
  BY <1>1, <1>2
<1>4. SameHistory(j) /\ tale'[j].taken = b
  BY <1>1, <1>3 DEF SameHistory, Tale
<1> QED
  BY <1>3, <1>4 DEF TaleOK, SameHistory

LEMMA MarkedTale ==
  ASSUME TaleOK, web.job \in Jobs, MarkWithheld
  PROVE  /\ TaleOK' /\ \A k \in Jobs : SameHistory(k)
         /\ \A k \in Jobs \ {web.job} : tale'[k] = tale[k]
         /\ tale'[web.job].taken <=> \A s \in Senders : ~AtWork(s, web.job)
<1>1. (\A s \in Senders : ~AtWork(s, web.job)) \in BOOLEAN
  OBVIOUS
<1>2. /\ UNCHANGED spare
      /\ tale' = [tale EXCEPT ![web.job].taken = \A s \in Senders : ~AtWork(s, web.job)]
  BY DEF MarkWithheld, Taken
<1> QED
  BY <1>1, <1>2, TakenTale

LEMMA TakeOutTale ==
  ASSUME TaleOK, web.job \in Jobs, TakeOut
  PROVE  /\ TaleOK' /\ \A k \in Jobs : SameHistory(k)
         /\ \A k \in Jobs \ {web.job} : tale'[k] = tale[k]
         /\ UNCHANGED tale \/ ~tale'[web.job].taken
<1>1. UNCHANGED spare
  BY DEF TakeOut
<1>2. CASE UNCHANGED tale
  BY <1>1, <1>2 DEF TaleOK, SameHistory
<1>3. CASE tale' = [tale EXCEPT ![web.job].taken = FALSE]
  BY <1>1, <1>3, TakenTale
<1> QED
  BY <1>2, <1>3 DEF TakeOut

LEMMA TaleChange ==
  ASSUME TaleOK, NEW j \in Jobs, UNCHANGED spare,
         \/ tale' = [tale EXCEPT ![j].queued = TRUE]
         \/ tale' = [tale EXCEPT ![j].cancelled = TRUE]
         \/ tale' = [tale EXCEPT ![j].ended = TRUE]
         \/ tale' = [tale EXCEPT ![j].accepted = @ + 1]
         \/ tale' = [tale EXCEPT ![j].again = @ + 1]
         \/ tale' = [tale EXCEPT ![j].taken = FALSE, ![j].again = @ + 1]
  PROVE  TaleOK'
<1>1. tale \in [Jobs -> Tale] /\ tale[j] \in Tale
  BY DEF TaleOK
<1>2. /\ [tale[j] EXCEPT !.queued = TRUE] \in Tale /\ [tale[j] EXCEPT !.cancelled = TRUE] \in Tale
      /\ [tale[j] EXCEPT !.ended = TRUE] \in Tale
  BY <1>1 DEF Tale
<1>3. tale[j].accepted + 1 \in Nat /\ tale[j].again + 1 \in Nat
  BY <1>1 DEF Tale
<1>4. [tale[j] EXCEPT !.accepted = @ + 1] \in Tale /\ [tale[j] EXCEPT !.again = @ + 1] \in Tale
  BY <1>1, <1>3 DEF Tale
<1>5. [tale[j] EXCEPT !.taken = FALSE, !.again = @ + 1] \in Tale
  BY <1>1, <1>3 DEF Tale
<1>6. \E t \in Tale : tale' = [tale EXCEPT ![j] = t]
  <2>1. CASE tale' = [tale EXCEPT ![j].queued = TRUE]
    BY <1>2, <2>1
  <2>2. CASE tale' = [tale EXCEPT ![j].cancelled = TRUE]
    BY <1>2, <2>2
  <2>3. CASE tale' = [tale EXCEPT ![j].ended = TRUE]
    BY <1>2, <2>3
  <2>4. CASE tale' = [tale EXCEPT ![j].accepted = @ + 1]
    BY <1>4, <2>4
  <2>5. CASE tale' = [tale EXCEPT ![j].again = @ + 1]
    BY <1>4, <2>5
  <2>6. CASE tale' = [tale EXCEPT ![j].taken = FALSE, ![j].again = @ + 1]
    BY <1>5, <2>6, <1>1
  <2> QED
    BY <2>1, <2>2, <2>3, <2>4, <2>5, <2>6
<1> QED
  BY <1>1, <1>6 DEF TaleOK

LEMMA TimeSound ==
  ASSUME Sound, NEW j \in Jobs, Enqueue(j) \/ Time(j) \/ Expire(j)
  PROVE  Sound'
<1> USE DEF Sound
<1>0. row[j] \in Row /\ tale[j] \in Tale
  BY DEF RowOK, TaleOK
<1>1. CASE Enqueue(j)
  <2>1. RowOK'
    BY <1>1, NoRowType, RowChange DEF Enqueue
  <2>2. ListOK'
    BY <1>1, ListChange DEF Enqueue, ListOK, Names
  <2>3. TaleOK'
    BY <1>1, TaleChange DEF Enqueue
  <2> QED
    BY <1>1, <2>1, <2>2, <2>3 DEF Enqueue, SndOK, WebOK
<1>2. CASE SendTime(j)
  BY <1>2 DEF SendTime, RowOK, ListOK, SndOK, WebOK, TaleOK
<1>3. CASE Ripen(j)
  <2>1. RowOK'
    BY <1>0, <1>3, RowFields, RowChange DEF Ripen
  <2> QED
    BY <1>3, <2>1 DEF Ripen, ListOK, SndOK, WebOK, TaleOK
<1>4. CASE Age(j)
  <2> DEFINE Old(age) == IF age = "none" THEN "none" ELSE "stale"
             r1 == [row[j] EXCEPT !.claimed = Old(@)]
             r2 == [r1 EXCEPT !.updated = Old(@)]
  <2>1. \A age : Old(age) \in Ages
    BY DEF Ages
  <2>2. r1 \in Row
    BY <1>0, <2>1 DEF Row
  <2>3. r2 \in Row
    BY <2>1, <2>2 DEF Row
  <2>4. row' = [row EXCEPT ![j] = r2]
    BY <1>0, <1>4 DEF Age, RowOK
  <2>5. RowOK'
    BY <2>3, <2>4, RowChange
  <2> QED
    BY <1>4, <2>5 DEF Age, ListOK, SndOK, WebOK, TaleOK
<1>5. CASE Expire(j)
  <2>1. RowOK'
    BY <1>5, NoRowType DEF Expire, RowOK
  <2> QED
    BY <1>5, <2>1 DEF Expire, ListOK, SndOK, WebOK, TaleOK
<1> QED
  BY <1>1, <1>2, <1>3, <1>4, <1>5 DEF Time

\* A sender between two jobs: promoting, sweeping.
LEMMA SweepSound ==
  ASSUME Sound, NEW s \in Senders,
         NEW j \in Jobs
  PROVE  /\ Promote(s) \/ Promoted(s) \/ Report(s) \/ PutBack(s) => Sound'
         /\ FindDue(s, j) \/ ResetStale(s, j) \/ Look(s, j) \/ DropHeld(s, j) => Sound'
<1> USE DEF Sound
<1>0. /\ \A k \in Jobs : row[k] \in Row /\ tale[k] \in Tale
      /\ ~At(s, "idle") => snd[s].job \in Jobs
  BY InHandJob DEF RowOK, TaleOK
<1>1. ASSUME Promote(s) PROVE Sound'
  <2>1. \E p \in {"leave_scheduled", "leave_retry"} : Goto(s, p) /\ ~At(s, "idle")
    BY <1>1 DEF Promote, At
  <2>2. SndOK'
    BY <2>1, SndGoto DEF Pcs, Sweeping
  <2>3. pending' \in Seq(Jobs)
    BY <1>0, <1>1, <2>1, PushList DEF Promote, Push, ListOK
  <2> QED
    BY <1>1, <2>2, <2>3 DEF Promote, RowOK, ListOK, WebOK, TaleOK
<1>2. ASSUME Promoted(s) PROVE Sound'
  <2>1. ~At(s, "idle") /\ SndOK'
    BY <1>2, SndRest DEF Promoted, At
  <2>2. ListOK'
    BY <1>0, <1>2, <2>1, ListChange DEF Promoted, ListOK, Names
  <2> QED
    BY <1>2, <2>1, <2>2 DEF Promoted, RowOK, WebOK, TaleOK
<1>3. ASSUME Report(s) PROVE Sound'
  <2>1. ~At(s, "idle") /\ SndOK'
    BY <1>3, SndRest DEF Report, At
  <2>2. ListOK'
    BY <1>0, <1>3, <2>1, ListChange DEF Report, ListOK, Names
  <2> QED
    BY <1>3, <2>1, <2>2 DEF Report, RowOK, WebOK, TaleOK
<1>4. ASSUME PutBack(s) PROVE Sound'
  <2>1. ~At(s, "idle") /\ SndOK'
    BY <1>4, SndRest DEF PutBack, At
  <2>2. RowOK'
    BY <1>0, <1>4, <2>1, RowFields, RowChange DEF PutBack, RowOK
  <2>3. pending' \in Seq(Jobs)
    BY <1>0, <1>4, <2>1, PushList DEF PutBack, Push, ListOK
  <2> QED
    BY <1>4, <2>1, <2>2, <2>3 DEF PutBack, ListOK, WebOK, TaleOK
<1>5. ASSUME FindDue(s, j) PROVE Sound'
  <2>1. \E p \in {"due_scheduled", "due_retry"} : Take(s, p, j)
    BY <1>5 DEF FindDue
  <2>2. SndOK'
    BY <2>1, SndTake DEF Pcs, Sweeping
  <2> QED
    BY <1>5, <2>2 DEF FindDue, store, RowOK, ListOK, WebOK, TaleOK
<1>6. ASSUME ResetStale(s, j) PROVE Sound'
  <2> DEFINE back(st) == [Mark(row[j], st) EXCEPT !.claimed = "none", !.interrupted = Interrupted(j)]
  <2>1. \A st \in {"pending", "set_aside"} : back(st) \in Row
    <3>1. Interrupted(j) \in Nat
      BY <1>0, RowParts DEF Interrupted
    <3>2. \A st \in {"pending", "set_aside"} : Mark(row[j], st) \in Row
      BY <1>0, RowType DEF States
    <3> QED
      BY <3>1, <3>2 DEF Row, Ages
  <2>2. row' = [row EXCEPT ![j] = back("pending")] \/ row' = [row EXCEPT ![j] = back("set_aside")]
    BY <1>6 DEF ResetStale
  <2>3. RowOK'
    BY <2>1, <2>2, RowChange
  <2>4. SndOK'
    <3>1. Take(s, "report", j) \/ UNCHANGED snd
      BY <1>6 DEF ResetStale
    <3> QED
      BY <3>1, SndTake DEF Pcs, Sweeping, SndOK
  <2>5. ListOK'
    BY <1>6, ListChange DEF ResetStale, ListOK, Names
  <2> QED
    BY <1>6, <2>3, <2>4, <2>5 DEF ResetStale, WebOK, TaleOK
<1>7. ASSUME Look(s, j) PROVE Sound'
  <2>1. SndOK'
    BY <1>7, SndTake DEF Look, Pcs, Sweeping
  <2> QED
    BY <1>7, <2>1 DEF Look, store, RowOK, ListOK, WebOK, TaleOK
<1>8. ASSUME DropHeld(s, j) PROVE Sound'
  <2>1. RowOK'
    BY <1>8, NoRowType, RowChange DEF DropHeld
  <2>2. ListOK'
    BY <1>8, ListChange DEF DropHeld, ListOK, Names
  <2>3. TaleOK'
    BY <1>8, TaleChange DEF DropHeld
  <2> QED
    BY <1>8, <2>1, <2>2, <2>3 DEF DropHeld, SndOK, WebOK
<1> QED
  BY <1>1, <1>2, <1>3, <1>4, <1>5, <1>6, <1>7, <1>8

\* A sender with a job: each step leaves it with the job, or empty-handed.
LEMMA JobSound ==
  ASSUME Sound, NEW s \in Senders
  PROVE  /\ OneJob(s) => Sound'
         /\ Trouble(s) => Sound'
<1> USE DEF Sound
<1>0. /\ \A k \in Jobs : row[k] \in Row /\ tale[k] \in Tale
      /\ ~At(s, "idle") => snd[s].job \in Jobs
      /\ row \in [Jobs -> Row] /\ snd[s].tries \in Nat
  BY InHandJob DEF RowOK, TaleOK, SndOK
<1> DEFINE j == snd[s].job
<1>1. ASSUME Pop(s) PROVE Sound'
  <2>1. ListOK' /\ pending[Len(pending)] \in Jobs
    BY <1>1, PopList DEF Pop, ListOK
  <2>2. SndOK'
    BY <1>1, <2>1, SndTake DEF Pop, Pcs
  <2> QED
    BY <1>1, <2>1, <2>2 DEF Pop, RowOK, WebOK, TaleOK
<1>2. ASSUME Claim(s) PROVE Sound'
  <2>1. ~At(s, "idle") /\ SndOK'
    BY <1>2, SndGoto DEF Claim, At, Pcs, Holding
  <2> DEFINE r == [row[j] EXCEPT !.state = "inflight"]
  <2>2. r \in Row
    BY <1>0, <2>1, RowType DEF States
  <2>3. [r EXCEPT !.claimed = "fresh"] \in Row
    BY <2>2, RowFields
  <2>4. row' = [row EXCEPT ![j] = [r EXCEPT !.claimed = "fresh"]]
    BY <1>0, <1>2, <2>1 DEF Claim
  <2>5. RowOK'
    BY <1>0, <2>1, <2>3, <2>4, RowChange
  <2> QED
    BY <1>2, <2>1, <2>5 DEF Claim, ListOK, WebOK, TaleOK
<1>3. ASSUME SkipClaim(s) PROVE Sound'
  BY <1>3, SndRest DEF SkipClaim, store, RowOK, ListOK, WebOK, TaleOK
<1>4. ASSUME Load(s) PROVE Sound'
  <2>1. ~At(s, "idle") /\ row[j].tries \in Nat
    BY <1>0, <1>4, RowParts DEF Load, At
  <2>2. CASE Rest(s)
    BY <1>4, <2>2, SndRest DEF Load, store, RowOK, ListOK, WebOK, TaleOK
  <2>3. CASE Goto(s, "fail")
    BY <1>4, <2>1, <2>3, SndGoto DEF Load, Pcs, Holding, store, RowOK, ListOK, WebOK, TaleOK
  <2>4. CASE \E p \in {"check", "park"} :
                snd' = [snd EXCEPT ![s].pc = p, ![s].tries = row[j].tries]
    <3>1. PICK p \in {"check", "park"}, n \in Nat :
            snd' = [snd EXCEPT ![s].pc = p, ![s].tries = n]
      BY <2>1, <2>4
    <3>2. SndOK'
      BY <2>1, <3>1 DEF SndOK, At, Pcs, Holding, Settling
    <3> QED
      BY <1>4, <3>2 DEF Load, store, RowOK, ListOK, WebOK, TaleOK
  <2> QED
    BY <1>4, <2>2, <2>3, <2>4 DEF Load
<1>5. ASSUME Check(s) PROVE Sound'
  <2>1. ~At(s, "idle") /\ (Goto(s, "send") \/ Goto(s, "hold")) /\ paused' \in BOOLEAN
    BY <1>5 DEF Check, At, ListOK
  <2>2. SndOK'
    BY <2>1, SndGoto DEF Pcs, Holding
  <2> QED
    BY <1>5, <2>1, <2>2 DEF Check, RowOK, ListOK, WebOK, TaleOK
<1>6. ASSUME Hold(s) PROVE Sound'
  <2>1. ~At(s, "idle") /\ SndOK'
    BY <1>6, SndGoto DEF Hold, At, Pcs, Settling
  <2>2. [row[j] EXCEPT !.state = "held"] \in Row
    BY <1>0, <2>1, RowType DEF States
  <2>3. RowOK'
    BY <1>0, <1>6, <2>1, <2>2, RowChange DEF Hold
  <2> QED
    BY <1>6, <2>1, <2>3 DEF Hold, ListOK, WebOK, TaleOK
<1>7. ASSUME ListHeld(s) PROVE Sound'
  <2>1. ~At(s, "idle") /\ SndOK'
    BY <1>7, SndRest DEF ListHeld, At
  <2>2. ListOK'
    BY <1>0, <1>7, <2>1, ListChange DEF ListHeld, ListOK, Names
  <2> QED
    BY <1>7, <2>1, <2>2 DEF ListHeld, RowOK, WebOK, TaleOK
<1>8. ASSUME Accept(s) PROVE Sound'
  <2>1. ~At(s, "idle") /\ SndOK'
    BY <1>8, SndGoto DEF Accept, At, Pcs, Holding
  <2>2. TaleOK'
    BY <1>0, <1>8, <2>1, TaleChange DEF Accept
  <2> QED
    BY <1>8, <2>1, <2>2 DEF Accept, store, RowOK, ListOK, WebOK
<1>9. ASSUME Bounce(s) PROVE Sound'
  <2>1. ~At(s, "idle") /\ SndOK' /\ paused' \in BOOLEAN
    BY <1>9, SndGoto DEF Bounce, At, Pcs, Holding, ListOK
  <2> QED
    BY <1>9, <2>1 DEF Bounce, RowOK, ListOK, WebOK, TaleOK
<1>10. ASSUME Defer(s) PROVE Sound'
  <2>1. ~At(s, "idle") /\ snd[s].tries + 1 \in Nat
    BY <1>0, <1>10 DEF Defer, At
  <2>2. PICK n \in Nat : snd' = [snd EXCEPT ![s].pc = "park", ![s].tries = n]
    BY <1>10, <2>1 DEF Defer
  <2>3. SndOK'
    BY <2>1, <2>2 DEF SndOK, At, Pcs, Settling
  <2> QED
    BY <1>10, <2>3 DEF Defer, store, RowOK, ListOK, WebOK, TaleOK
<1>11. ASSUME Deliver(s) PROVE Sound'
  <2>1. ~At(s, "idle") /\ SndOK'
    BY <1>11, SndRest DEF Deliver, At
  <2>2. Final(row[j], "delivered") \in Row
    BY <1>0, <2>1, RowType DEF States
  <2>3. RowOK'
    BY <1>0, <1>11, <2>1, <2>2, RowChange DEF Deliver
  <2>4. TaleOK'
    BY <1>0, <1>11, <2>1, TaleChange DEF Deliver
  <2> QED
    BY <1>11, <2>1, <2>3, <2>4 DEF Deliver, ListOK, WebOK
<1>12. ASSUME RecordFailure(s) PROVE Sound'
  <2>1. ~At(s, "idle") /\ SndOK'
    BY <1>12, SndGoto DEF RecordFailure, At, Pcs, Holding
  <2>2. ListOK'
    BY <1>0, <1>12, <2>1, ListChange DEF RecordFailure, ListOK, Names
  <2> QED
    BY <1>12, <2>1, <2>2 DEF RecordFailure, RowOK, WebOK, TaleOK
<1>13. ASSUME Fail(s) PROVE Sound'
  <2>1. ~At(s, "idle") /\ SndOK'
    BY <1>13, SndRest DEF Fail, At
  <2>2. Final(row[j], "failed") \in Row
    BY <1>0, <2>1, RowType DEF States
  <2>3. RowOK'
    BY <1>0, <1>13, <2>1, <2>2, RowChange DEF Fail
  <2>4. TaleOK'
    BY <1>0, <1>13, <2>1, TaleChange DEF Fail
  <2> QED
    BY <1>13, <2>1, <2>3, <2>4 DEF Fail, ListOK, WebOK
<1>14. ASSUME Park(s) PROVE Sound'
  <2>1. ~At(s, "idle") /\ SndOK'
    BY <1>14, SndGoto DEF Park, At, Pcs, Settling
  <2>2. Mark(row[j], "pending") \in Row
    BY <1>0, <2>1, RowType DEF States
  <2>3. [Mark(row[j], "pending") EXCEPT !.blob = "message", !.tries = snd[s].tries, !.ripe = FALSE]
          \in Row
    BY <1>0, <2>2 DEF Row
  <2>4. RowOK'
    BY <1>0, <1>14, <2>1, <2>3 DEF Park, RowOK
  <2> QED
    BY <1>14, <2>1, <2>4 DEF Park, ListOK, WebOK, TaleOK
<1>15. ASSUME Unclaim(s) PROVE Sound'
  <2>1. ~At(s, "idle") /\ SndOK'
    BY <1>15, SndGoto DEF Unclaim, At, Pcs, Settling
  <2>2. [row[j] EXCEPT !.claimed = "none"] \in Row
    BY <1>0, <2>1, RowFields
  <2>3. RowOK'
    BY <1>0, <1>15, <2>1, <2>2, RowChange DEF Unclaim
  <2> QED
    BY <1>15, <2>1, <2>3 DEF Unclaim, ListOK, WebOK, TaleOK
<1>16. ASSUME ListRetry(s) PROVE Sound'
  <2>1. ~At(s, "idle") /\ SndOK'
    BY <1>16, SndRest DEF ListRetry, At
  <2>2. ListOK'
    BY <1>0, <1>16, <2>1, ListChange DEF ListRetry, ListOK, Names
  <2> QED
    BY <1>16, <2>1, <2>2 DEF ListRetry, RowOK, WebOK, TaleOK
<1>17. ASSUME Refill(s) PROVE Sound'
  <2>1. ~At(s, "idle") /\ SndOK'
    BY <1>17, SndGoto DEF Refill, At, Pcs, Settling
  <2>2. [row[j] EXCEPT !.blob = "filler"] \in Row
    BY <1>0, <2>1, RowFields
  <2>3. RowOK'
    BY <1>0, <1>17, <2>1, <2>2, RowChange DEF Refill
  <2> QED
    BY <1>17, <2>1, <2>3 DEF Refill, ListOK, WebOK, TaleOK
<1>18. ASSUME Requeue(s) PROVE Sound'
  <2>1. ~At(s, "idle") /\ SndOK'
    BY <1>18, SndRest DEF Requeue, At
  <2>2. [Mark(row[j], "pending") EXCEPT !.claimed = "none"] \in Row
    BY <1>0, <2>1, RowType, RowFields DEF States
  <2>3. RowOK'
    BY <1>0, <1>18, <2>1, <2>2, RowChange DEF Requeue
  <2>4. pending' \in Seq(Jobs)
    BY <1>0, <1>18, <2>1, PushList DEF Requeue, Push, ListOK
  <2> QED
    BY <1>18, <2>1, <2>3, <2>4 DEF Requeue, ListOK, WebOK, TaleOK
<1>19. ASSUME LoadFails(s) PROVE Sound'
  <2>1. SndOK'
    BY <1>19, SndGoto DEF LoadFails, At, Pcs, Holding
  <2> QED
    BY <1>19, <2>1, SpareType DEF LoadFails, store, RowOK, ListOK, WebOK, TaleOK
<1>20. ASSUME CheckFails(s) PROVE Sound'
  <2>1. SndOK'
    BY <1>20, SndGoto DEF CheckFails, At, Pcs, Holding
  <2> QED
    BY <1>20, <2>1, SpareType DEF CheckFails, store, RowOK, ListOK, WebOK, TaleOK
<1>21. ASSUME Stop(s) PROVE Sound'
  <2>1. ~At(s, "idle") /\ SndOK'
    BY <1>21, SndRest DEF Stop
  <2>2. PICK k \in {0, 1} : tale' = [tale EXCEPT ![j].stops = @ + 1, ![j].killed = @ + k]
    BY <1>21 DEF Stop
  <2>3. [tale[j] EXCEPT !.stops = @ + 1, !.killed = @ + k] \in Tale
    BY <1>0, <2>1, StoppedTale, Zenon
  <2>4. tale' \in [Jobs -> Tale]
    BY <1>0, <2>1, <2>2, <2>3 DEF TaleOK
  <2>5. TaleOK'
    BY <1>21, <2>4, SpareType DEF Stop, TaleOK
  <2> QED
    BY <1>21, <2>1, <2>5 DEF Stop, store, RowOK, ListOK, WebOK
<1> QED
  BY <1>1, <1>2, <1>3, <1>4, <1>5, <1>6, <1>7, <1>8, <1>9, <1>10, <1>11, <1>12, <1>13, <1>14,
     <1>15, <1>16, <1>17, <1>18, <1>19, <1>20, <1>21 DEF OneJob, Trouble

\* What people ask for, and what serving it does.
LEMMA AskedSound ==
  ASSUME Sound, Asked
  PROVE  Sound'
<1> USE DEF Sound
<1>0. /\ \A k \in Jobs : row[k] \in Row /\ tale[k] \in Tale
      /\ row \in [Jobs -> Row] /\ idx \in [Names -> SUBSET Jobs]
  BY DEF RowOK, TaleOK, ListOK
<1>1. ASSUME NEW j \in Jobs, Cancel(j) PROVE Sound'
  <2>1. RowOK'
    BY <1>1, NoRowType, RowChange DEF Cancel
  <2>2. ListOK'
    BY <1>0, <1>1 DEF Cancel, ListOK, Names
  <2>3. tale' \in [Jobs -> Tale]
    BY <1>0, <1>1 DEF Cancel, TaleOK, Tale
  <2> QED
    BY <1>1, <2>1, <2>2, <2>3, SpareType DEF Cancel, Ask, SndOK, WebOK, TaleOK
<1>2. ASSUME NEW j \in Jobs, Reschedule(j) PROVE Sound'
  <2>1. ListOK'
    BY <1>2, ListChange DEF Reschedule, ListOK, Names
  <2>2. WebOK'
    BY <1>2, WebFollow DEF Reschedule, WebPcs
  <2> QED
    BY <1>2, <2>1, <2>2, SpareType DEF Reschedule, Ask, RowOK, SndOK, TaleOK
<1>3. ASSUME NEW j \in Jobs, Withhold(j) PROVE Sound'
  <2>1. ListOK'
    BY <1>3, ListChange DEF Withhold, ListOK, Names
  <2>2. WebOK'
    BY <1>3, WebFollow DEF Withhold, WebPcs
  <2> QED
    BY <1>3, <2>1, <2>2, SpareType DEF Withhold, Ask, RowOK, SndOK, TaleOK
<1>4. ASSUME NEW j \in Jobs, Release(j) PROVE Sound'
  <2>1. ListOK'
    BY <1>4, ListChange DEF Release, ListOK, Names
  <2>2. WebOK'
    BY <1>4, WebFollow, WebAnswer DEF Release, WebPcs
  <2> QED
    BY <1>4, <2>1, <2>2, SpareType DEF Release, Ask, RowOK, SndOK, TaleOK
<1>5. ASSUME NEW j \in Jobs, Retry(j) PROVE Sound'
  <2>1. ListOK'
    BY <1>5, ListChange DEF Retry, ListOK, Names
  <2>2. WebOK'
    BY <1>5, WebFollow DEF Retry, WebPcs
  <2> QED
    BY <1>5, <2>1, <2>2, SpareType DEF Retry, Ask, RowOK, SndOK, TaleOK
<1>6. ASSUME NEW j \in Jobs, Unset(j) PROVE Sound'
  <2>1. [row[j] EXCEPT !.state = "pending"] \in Row
    BY <1>0, RowType DEF States
  <2>2. RowOK'
    BY <1>6, <2>1, RowChange DEF Unset
  <2>3. ListOK'
    BY <1>6, PushList DEF Unset, Push, ListOK
  <2>4. tale' \in [Jobs -> Tale]
    <3>1. tale[j].again + 1 \in Nat /\ tale \in [Jobs -> Tale]
      BY <1>0 DEF Tale, TaleOK
    <3>2. PICK n \in Nat : tale' = [tale EXCEPT ![j].again = n]
      BY <1>6, <3>1 DEF Unset
    <3> QED
      BY <3>1, <3>2 DEF Tale
  <2> QED
    BY <1>6, <2>2, <2>3, <2>4, SpareType DEF Unset, Ask, SndOK, WebOK, TaleOK
<1>7. ASSUME NEW choice \in {"send", "discard"}, Resume(choice) PROVE Sound'
  <2>1. WebOK'
    BY <1>0, <1>7, ConstantsAssumption DEF Resume, WebOK, WebPcs, Names
  <2> QED
    BY <1>7, <2>1, SpareType DEF Resume, Ask, store, RowOK, ListOK, SndOK, TaleOK
<1> QED
  BY <1>1, <1>2, <1>3, <1>4, <1>5, <1>6, <1>7 DEF Asked

LEMMA ServedSound ==
  ASSUME Sound, Served
  PROVE  Sound'
<1> USE DEF Sound
<1>0. /\ \A k \in Jobs : row[k] \in Row /\ tale[k] \in Tale
      /\ row \in [Jobs -> Row] /\ idx \in [Names -> SUBSET Jobs]
      /\ web.pc \notin {"idle", "send", "discard"} => web.job \in Jobs
  BY WebJob DEF RowOK, TaleOK, ListOK
<1>1. ASSUME Move PROVE Sound'
  <2>1. WebOK' /\ web.job \in Jobs
    BY <1>0, <1>1, WebAnswer DEF Move
  <2>2. ListOK'
    BY <1>1, <2>1, ListChange DEF Move, ListOK, Names
  <2> QED
    BY <1>1, <2>1, <2>2 DEF Move, RowOK, SndOK, TaleOK
<1>2. ASSUME MarkWithheld PROVE Sound'
  <2>1. WebOK' /\ web.job \in Jobs
    BY <1>0, <1>2, WebFollow DEF MarkWithheld, WebPcs
  <2>2. [row[web.job] EXCEPT !.state = "withheld"] \in Row
    BY <1>0, <2>1, RowType DEF States
  <2>3. RowOK'
    BY <1>2, <2>1, <2>2, RowChange DEF MarkWithheld
  <2> QED
    BY <1>2, <2>1, <2>3, MarkedTale DEF MarkWithheld, ListOK, SndOK
<1>3. ASSUME TakeOut PROVE Sound'
  <2>1. web.job \in Jobs
    BY <1>0, <1>3 DEF TakeOut
  <2>2. WebOK'
    BY <1>3, <2>1, WebFollow, WebAnswer DEF TakeOut, WebPcs
  <2>3. ListOK'
    BY <1>3, <2>1, ListChange DEF TakeOut, ListOK, Names
  <2>4. TaleOK'
    BY <1>3, <2>1, TakeOutTale
  <2> QED
    BY <1>3, <2>2, <2>3, <2>4 DEF TakeOut, RowOK, SndOK
<1>4. ASSUME Undo PROVE Sound'
  <2>1. WebOK' /\ web.job \in Jobs
    BY <1>0, <1>4, WebAnswer DEF Undo
  <2>2. [row[web.job] EXCEPT !.state = "pending"] \in Row
    BY <1>0, <2>1, RowType DEF States
  <2>3. RowOK' /\ TaleOK'
    BY <1>4, <2>1, <2>2, RowChange, TaleChange DEF Undo, RowOK, TaleOK
  <2> QED
    BY <1>4, <2>1, <2>3 DEF Undo, ListOK, SndOK
<1>5. ASSUME Restore PROVE Sound'
  <2>1. web.job \in Jobs
    BY <1>0, <1>5 DEF Restore
  <2>2. WebOK'
    BY <1>5, <2>1, WebFollow, WebAnswer DEF Restore, WebPcs
  <2>3. Mark(row[web.job], "pending") \in Row
    BY <1>0, <2>1, RowType DEF States
  <2>4. RowOK'
    BY <1>5, <2>1, <2>3, RowChange, NoRowType DEF Restore
  <2>5. TaleOK'
    BY <1>5, <2>1, TaleChange DEF Restore
  <2> QED
    BY <1>5, <2>2, <2>4, <2>5 DEF Restore, ListOK, SndOK
<1>6. ASSUME Relist PROVE Sound'
  <2>1. WebOK' /\ web.job \in Jobs
    BY <1>0, <1>6, WebAnswer DEF Relist
  <2>2. ListOK'
    BY <1>6, <2>1, ListChange DEF Relist, ListOK, Names
  <2> QED
    BY <1>6, <2>1, <2>2 DEF Relist, RowOK, SndOK, TaleOK
<1>7. ASSUME NEW j \in Jobs, Again(j), UNCHANGED spare
      PROVE  RowOK' /\ TaleOK' /\ pending' \in Seq(Jobs)
  <2>1. CASE row[j] = NoRow
    BY <1>7, <2>1 DEF Again, RowOK, TaleOK, ListOK
  <2>2. CASE row[j] # NoRow
    <3>1. Mark(row[j], "pending") \in Row
      BY <1>0, RowType DEF States
    <3> QED
      BY <1>7, <2>2, <3>1, RowChange, TaleChange, PushList DEF Again, Push, ListOK
  <2> QED
    BY <2>1, <2>2
<1>8. ASSUME RetryQueued PROVE Sound'
  <2>1. WebOK' /\ web.job \in Jobs
    BY <1>0, <1>8, WebAnswer DEF RetryQueued
  <2>2. RowOK' /\ TaleOK' /\ pending' \in Seq(Jobs)
    BY <1>7, <1>8, <2>1 DEF RetryQueued
  <2> QED
    BY <1>8, <2>1, <2>2 DEF RetryQueued, ListOK, SndOK
<1>9. ASSUME ResumeDone PROVE Sound'
  <2>1. WebOK'
    BY <1>9, WebAnswer DEF ResumeDone
  <2>2. ListOK'
    BY <1>9 DEF ResumeDone, ListOK, Names
  <2> QED
    BY <1>9, <2>1, <2>2 DEF ResumeDone, RowOK, SndOK, TaleOK
<1>10. ASSUME NEW j \in Jobs, ResumeOne(j) PROVE Sound'
  <2>1. WebOK'
    BY <1>10 DEF ResumeOne, WebOK
  <2>2. CASE Again(j)
    BY <1>7, <1>10, <2>1, <2>2 DEF ResumeOne, ListOK, SndOK
  <2>3. CASE /\ row' = [row EXCEPT ![j] = NoRow] /\ UNCHANGED pending
             /\ tale' = [tale EXCEPT ![j].ended = TRUE]
    <3>1. RowOK'
      BY <2>3, NoRowType, RowChange
    <3>2. TaleOK'
      BY <1>10, <2>3, TaleChange DEF ResumeOne
    <3> QED
      BY <1>10, <2>1, <2>3, <3>1, <3>2 DEF ResumeOne, ListOK, SndOK
  <2> QED
    BY <1>10, <2>2, <2>3 DEF ResumeOne
<1> QED
  BY <1>1, <1>2, <1>3, <1>4, <1>5, <1>6, <1>8, <1>9, <1>10 DEF Served

\* Every field is what the code takes it for; a sender or the server of a
\* request has a job in hand exactly while it is at work on one.
LEMMA SoundInit == Init => Sound
<1> SUFFICES ASSUME Init PROVE Sound
  OBVIOUS
<1>1. NoTale \in Tale
  BY DEF NoTale, Tale
<1>2. RowOK /\ TaleOK
  <2>1. spare \in [{"stops", "asks", "blips"} -> Nat]
    BY ConstantsAssumption DEF Init
  <2> QED
    BY <1>1, <2>1, NoRowType DEF Init, RowOK, TaleOK
<1>3. ListOK
  <2>1. <<>> \in Seq(Jobs)
    OBVIOUS
  <2>2. pending = <<>> /\ idx = [n \in Names |-> {}] /\ due = {} /\ paused = FALSE
    BY DEF Init
  <2>3. idx \in [Names -> SUBSET Jobs]
    BY <2>2
  <2> QED
    BY <2>1, <2>2, <2>3 DEF ListOK
<1>4. SndOK
  BY DEF Init, SndOK, Idle, Pcs
<1>5. WebOK
  BY DEF Init, WebOK, WebIdle, WebPcs
<1> QED
  BY <1>2, <1>3, <1>4, <1>5 DEF Sound

LEMMA SoundNext == ASSUME Sound, [Next]_vars PROVE Sound'
<1>1. CASE UNCHANGED vars
  BY <1>1 DEF Sound, RowOK, ListOK, SndOK, WebOK, TaleOK, vars, store
<1>2. ASSUME NEW j \in Jobs, Enqueue(j) \/ Time(j) \/ Expire(j) PROVE Sound'
  BY <1>2, TimeSound
<1>3. ASSUME NEW s \in Senders, OneJob(s) \/ Trouble(s) PROVE Sound'
  BY <1>3, JobSound
<1>4. ASSUME NEW s \in Senders, Housekeeping(s) \/ \E j \in Jobs : DropHeld(s, j) PROVE Sound'
  <2>1. ASSUME NEW j \in Jobs,
               FindDue(s, j) \/ ResetStale(s, j) \/ Look(s, j) \/ DropHeld(s, j)
        PROVE  Sound'
    BY <2>1, SweepSound
  <2>2. ASSUME Promote(s) \/ Promoted(s) \/ Report(s) \/ PutBack(s) PROVE Sound'
    <3>1. \A j \in Jobs : Sound'
      BY <2>2, SweepSound
    <3>2. Jobs # {}
      BY <2>2, InHandJob DEF Sound, Promote, Promoted, Report, PutBack, At
    <3> QED
      BY <3>1, <3>2
  <2> QED
    BY <1>4, <2>1, <2>2 DEF Housekeeping
<1> QED
  BY <1>1, <1>2, <1>3, <1>4, AskedSound, ServedSound DEF Next

\* Type correctness of the queue, for any jobs, senders and requests.
THEOREM TypeCorrect == Spec => []TypeOK
<1>1. Sound => TypeOK
  BY DEF Sound, RowOK, ListOK, SndOK, WebOK, TaleOK, TypeOK
<1> QED
  BY <1>1, SoundInit, SoundNext, PTL DEF Spec

-----------------------------------------------------------------------------
(* One job at a time: a step leaves alone every job but the one it is about. *)

SndKept(k) == \A s \in Senders : snd[s].job = k \/ snd'[s].job = k => snd'[s] = snd[s]

Kept(k) ==
  /\ row'[k] = row[k] /\ tale'[k] = tale[k]
  /\ k \in due' <=> k \in due
  /\ InPending(k)' => InPending(k)
  /\ \A n \in Names : k \in idx'[n] <=> k \in idx[n]
  /\ SndKept(k)
  /\ web.job = k \/ web'.job = k => web' = web
  /\ k \in web'.ids <=> k \in web.ids

LEMMA SndStill ==
  ASSUME SndOK, NEW s \in Senders, NEW k \in Jobs, snd[s].job # k
  PROVE  /\ \A p : Goto(s, p) => SndKept(k)
         /\ Rest(s) => SndKept(k)
         /\ \A p, j : Take(s, p, j) /\ j # k => SndKept(k)
BY ConstantsAssumption DEF SndOK, SndKept, Goto, Rest, Take, Idle

LEMMA PushStill ==
  ASSUME ListOK, NEW j \in Jobs, NEW k \in Jobs, j # k, Push(j), InPending(k)'
  PROVE  InPending(k)
BY PushList DEF ListOK, Push, InPending

\* What the clock and a new job do, seen from another job.
LEMMA TimeKeeps ==
  ASSUME Sound, NEW j \in Jobs, NEW k \in Jobs, j # k, Enqueue(j) \/ Time(j) \/ Expire(j)
  PROVE  Kept(k)
<1> USE DEF Sound, SndKept
<1>1. CASE Enqueue(j)
  <2>1. InPending(k)' => InPending(k)
    BY <1>1, PushStill DEF Enqueue, InPending
  <2> QED
    BY <1>1, <2>1 DEF Enqueue, Kept, Add, ListOK, RowOK, TaleOK
<1>2. CASE SendTime(j)
  BY <1>2 DEF SendTime, Kept, InPending
<1>3. CASE Ripen(j)
  BY <1>3 DEF Ripen, Kept, InPending, RowOK
<1>4. CASE Age(j)
  BY <1>4 DEF Age, Kept, InPending, RowOK
<1>5. CASE Expire(j)
  BY <1>5 DEF Expire, Kept, InPending, RowOK
<1> QED
  BY <1>1, <1>2, <1>3, <1>4, <1>5 DEF Time

\* A sender with a job in hand, and one that takes a job.
LEMMA SweepKeeps ==
  ASSUME Sound, NEW s \in Senders, NEW k \in Jobs, snd[s].job # k
  PROVE  /\ Promote(s) \/ Promoted(s) \/ Report(s) \/ PutBack(s) => Kept(k)
         /\ \A j \in Jobs \ {k} :
              FindDue(s, j) \/ ResetStale(s, j) \/ Look(s, j) \/ DropHeld(s, j) => Kept(k)
<1> USE DEF Sound
<1>0. ~At(s, "idle") => snd[s].job \in Jobs
  BY InHandJob
<1>1. ASSUME Promote(s) PROVE Kept(k)
  <2>1. ~At(s, "idle") /\ SndKept(k)
    BY <1>1, SndStill DEF Promote, At
  <2>2. InPending(k)' => InPending(k)
    BY <1>0, <1>1, <2>1, PushStill DEF Promote
  <2> QED
    BY <1>1, <2>1, <2>2 DEF Promote, Kept
<1>2. ASSUME Promoted(s) PROVE Kept(k)
  <2>1. SndKept(k)
    BY <1>2, SndStill DEF Promoted
  <2> QED
    BY <1>2, <2>1 DEF Promoted, Kept, Del, ListOK, InPending
<1>3. ASSUME Report(s) PROVE Kept(k)
  <2>1. SndKept(k)
    BY <1>3, SndStill DEF Report
  <2> QED
    BY <1>3, <2>1 DEF Report, Kept, Add, ListOK, InPending
<1>4. ASSUME PutBack(s) PROVE Kept(k)
  <2>1. ~At(s, "idle") /\ SndKept(k)
    BY <1>4, SndStill DEF PutBack, At
  <2>2. InPending(k)' => InPending(k)
    BY <1>0, <1>4, <2>1, PushStill DEF PutBack, InPending
  <2> QED
    BY <1>4, <2>1, <2>2 DEF PutBack, Kept, RowOK
<1>5. ASSUME NEW j \in Jobs \ {k}, FindDue(s, j) PROVE Kept(k)
  <2>1. SndKept(k)
    BY <1>5, SndStill DEF FindDue
  <2> QED
    BY <1>5, <2>1 DEF FindDue, store, Kept, InPending
<1>6. ASSUME NEW j \in Jobs \ {k}, ResetStale(s, j) PROVE Kept(k)
  <2>1. SndKept(k)
    <3>1. Take(s, "report", j) \/ UNCHANGED snd
      BY <1>6 DEF ResetStale
    <3> QED
      BY <1>6, <3>1, SndStill DEF SndKept
  <2>2. InPending(k)' => InPending(k)
    <3>1. Push(j) \/ UNCHANGED pending
      BY <1>6 DEF ResetStale
    <3> QED
      BY <1>6, <3>1, PushStill DEF InPending
  <2>3. \A n \in Names : k \in idx'[n] <=> k \in idx[n]
    BY <1>6 DEF ResetStale, Add, ListOK
  <2>4. row'[k] = row[k]
    BY <1>6 DEF ResetStale, RowOK
  <2> QED
    BY <1>6, <2>1, <2>2, <2>3, <2>4 DEF ResetStale, Kept
<1>7. ASSUME NEW j \in Jobs \ {k}, Look(s, j) PROVE Kept(k)
  <2>1. SndKept(k)
    BY <1>7, SndStill DEF Look
  <2> QED
    BY <1>7, <2>1 DEF Look, store, Kept, InPending
<1>8. ASSUME NEW j \in Jobs \ {k}, DropHeld(s, j) PROVE Kept(k)
  BY <1>8 DEF DropHeld, Del, Kept, SndKept, InPending, RowOK, ListOK, TaleOK
<1> QED
  BY <1>1, <1>2, <1>3, <1>4, <1>5, <1>6, <1>7, <1>8

LEMMA JobKeeps ==
  ASSUME Sound, NEW s \in Senders, NEW k \in Jobs, snd[s].job # k
  PROVE  /\ OneJob(s) /\ (At(s, "idle") => pending[Len(pending)] # k) => Kept(k)
         /\ Trouble(s) => Kept(k)
<1> USE DEF Sound
<1>0. ~At(s, "idle") => snd[s].job \in Jobs
  BY InHandJob
<1>1. ASSUME Pop(s), At(s, "idle") => pending[Len(pending)] # k PROVE Kept(k)
  <2>1. SndKept(k)
    BY <1>1, SndStill DEF Pop
  <2>2. InPending(k)' => InPending(k)
    BY <1>1, PopList DEF Pop, ListOK, InPending
  <2> QED
    BY <1>1, <2>1, <2>2 DEF Pop, Kept
<1>2. ASSUME Claim(s) PROVE Kept(k)
  BY <1>2, SndStill DEF Claim, Kept, InPending, RowOK
<1>3. ASSUME SkipClaim(s) PROVE Kept(k)
  BY <1>3, SndStill DEF SkipClaim, store, Kept, InPending
<1>4. ASSUME Load(s) PROVE Kept(k)
  <2>1. SndKept(k)
    BY <1>4, SndStill DEF Load, SndOK, SndKept
  <2> QED
    BY <1>4, <2>1 DEF Load, store, Kept, InPending
<1>5. ASSUME Check(s) PROVE Kept(k)
  <2>1. SndKept(k)
    BY <1>5, SndStill DEF Check
  <2> QED
    BY <1>5, <2>1 DEF Check, Kept, InPending
<1>6. ASSUME Hold(s) PROVE Kept(k)
  BY <1>6, SndStill DEF Hold, Kept, InPending, RowOK
<1>7. ASSUME ListHeld(s) PROVE Kept(k)
  BY <1>7, SndStill DEF ListHeld, Kept, InPending, ListOK, Add
<1>8. ASSUME Accept(s) PROVE Kept(k)
  BY <1>8, SndStill DEF Accept, store, Kept, InPending, TaleOK
<1>9. ASSUME Bounce(s) PROVE Kept(k)
  BY <1>9, SndStill DEF Bounce, Kept, InPending
<1>10. ASSUME Defer(s) PROVE Kept(k)
  <2>1. SndKept(k)
    BY <1>10 DEF Defer, SndOK, SndKept
  <2> QED
    BY <1>10, <2>1 DEF Defer, store, Kept, InPending
<1>11. ASSUME Deliver(s) PROVE Kept(k)
  BY <1>11, SndStill DEF Deliver, Kept, InPending, RowOK, TaleOK
<1>12. ASSUME RecordFailure(s) PROVE Kept(k)
  BY <1>12, SndStill DEF RecordFailure, Kept, InPending, ListOK, Add
<1>13. ASSUME Fail(s) PROVE Kept(k)
  BY <1>13, SndStill DEF Fail, Kept, InPending, RowOK, TaleOK
<1>14. ASSUME Park(s) PROVE Kept(k)
  BY <1>14, SndStill DEF Park, Kept, InPending, RowOK
<1>15. ASSUME Unclaim(s) PROVE Kept(k)
  BY <1>15, SndStill DEF Unclaim, Kept, InPending, RowOK
<1>16. ASSUME ListRetry(s) PROVE Kept(k)
  BY <1>16, SndStill DEF ListRetry, Kept, InPending, ListOK, Add
<1>17. ASSUME Refill(s) PROVE Kept(k)
  BY <1>17, SndStill DEF Refill, Kept, InPending, RowOK
<1>18. ASSUME Requeue(s) PROVE Kept(k)
  <2>1. ~At(s, "idle") /\ SndKept(k)
    BY <1>18, SndStill DEF Requeue, At
  <2>2. InPending(k)' => InPending(k)
    BY <1>0, <1>18, <2>1, PushStill DEF Requeue
  <2> QED
    BY <1>18, <2>1, <2>2 DEF Requeue, Kept, RowOK
<1>19. ASSUME LoadFails(s) PROVE Kept(k)
  BY <1>19, SndStill DEF LoadFails, store, Kept, InPending
<1>20. ASSUME CheckFails(s) PROVE Kept(k)
  BY <1>20, SndStill DEF CheckFails, store, Kept, InPending
<1>21. ASSUME Stop(s) PROVE Kept(k)
  BY <1>21, SndStill DEF Stop, store, Kept, InPending, TaleOK
<1> QED
  BY <1>1, <1>2, <1>3, <1>4, <1>5, <1>6, <1>7, <1>8, <1>9, <1>10, <1>11, <1>12, <1>13, <1>14,
     <1>15, <1>16, <1>17, <1>18, <1>19, <1>20, <1>21 DEF OneJob, Trouble

\* A request, seen from a job it is not about.
LEMMA AskedKeeps ==
  ASSUME Sound, NEW j \in Jobs, NEW k \in Jobs, j # k,
         Cancel(j) \/ Reschedule(j) \/ Withhold(j) \/ Release(j) \/ Retry(j) \/ Unset(j)
  PROVE  Kept(k)
<1> USE DEF Sound, SndKept
<1>0. web = WebIdle => web.job # k /\ web.ids = {}
  BY ConstantsAssumption DEF WebIdle
<1>1. CASE Cancel(j)
  BY <1>1 DEF Cancel, Kept, InPending, RowOK, TaleOK, ListOK
<1>2. CASE Reschedule(j)
  BY <1>0, <1>2 DEF Reschedule, Ask, Follow, Del, Kept, InPending, ListOK
<1>3. CASE Withhold(j)
  BY <1>0, <1>3 DEF Withhold, Ask, Follow, Add, Kept, InPending, ListOK
<1>4. CASE Release(j)
  BY <1>0, <1>4 DEF Release, Ask, Follow, Answer, Del, Kept, InPending, ListOK
<1>5. CASE Retry(j)
  BY <1>0, <1>5 DEF Retry, Ask, Follow, Del, Kept, InPending, ListOK
<1>6. CASE Unset(j)
  <2>1. InPending(k)' => InPending(k)
    BY <1>6, PushStill DEF Unset
  <2> QED
    BY <1>6, <2>1 DEF Unset, Kept, RowOK, TaleOK
<1> QED
  BY <1>1, <1>2, <1>3, <1>4, <1>5, <1>6

LEMMA AgainKeeps ==
  ASSUME Sound, NEW j \in Jobs, NEW k \in Jobs, j # k, Again(j)
  PROVE  row'[k] = row[k] /\ tale'[k] = tale[k] /\ (InPending(k)' => InPending(k))
<1>1. InPending(k)' => InPending(k)
  BY PushStill DEF Sound, Again, InPending
<1> QED
  BY <1>1 DEF Sound, Again, RowOK, TaleOK

LEMMA ServedKeeps ==
  ASSUME Sound, NEW k \in Jobs
  PROVE  /\ /\ \/ Move \/ MarkWithheld \/ TakeOut \/ Undo \/ Restore \/ Relist \/ RetryQueued
            /\ web.job # k
            => Kept(k)
         /\ \A j \in Jobs \ {k} : ResumeOne(j) => Kept(k)
<1> USE DEF Sound, SndKept
<1>0. /\ web.pc \notin {"idle", "send", "discard"} => web.job \in Jobs
      /\ web.pc \notin {"send", "discard"} => web.ids = {}
      /\ web.pc \in {"send", "discard"} => web.job # k
  BY WebJob, ConstantsAssumption DEF WebOK
<1>1. ASSUME Move, web.job # k PROVE Kept(k)
  BY <1>0, <1>1, ConstantsAssumption DEF Move, Answer, WebIdle, Add, Kept, InPending, ListOK
<1>2. ASSUME MarkWithheld, web.job # k PROVE Kept(k)
  <2>1. tale'[k] = tale[k]
    BY <1>0, <1>2, MarkedTale DEF MarkWithheld
  <2> QED
    BY <1>0, <1>2, <2>1 DEF MarkWithheld, Follow, Kept, InPending, RowOK
<1>3. ASSUME TakeOut, web.job # k PROVE Kept(k)
  <2>1. \A n \in Names : k \in idx'[n] <=> k \in idx[n]
    BY <1>3 DEF TakeOut, Del, ListOK
  <2>2. tale'[k] = tale[k]
    BY <1>0, <1>3, TakeOutTale DEF TakeOut
  <2>3. web'.job # k /\ web'.ids = {}
    BY <1>3, ConstantsAssumption DEF TakeOut, Answer, Follow, WebIdle
  <2> QED
    BY <1>0, <1>3, <2>1, <2>2, <2>3 DEF TakeOut, Kept, InPending
<1>4. ASSUME Undo, web.job # k PROVE Kept(k)
  <2>1. row'[k] = row[k] /\ tale'[k] = tale[k]
    BY <1>4 DEF Undo, RowOK, TaleOK
  <2> QED
    BY <1>0, <1>4, <2>1, ConstantsAssumption DEF Undo, Answer, WebIdle, Kept, InPending
<1>5. ASSUME Restore, web.job # k PROVE Kept(k)
  <2>1. row'[k] = row[k] /\ tale'[k] = tale[k]
    BY <1>5 DEF Restore, RowOK, TaleOK
  <2>2. web'.job # k /\ web'.ids = {}
    BY <1>5, ConstantsAssumption DEF Restore, Answer, Follow, WebIdle
  <2> QED
    BY <1>0, <1>5, <2>1, <2>2 DEF Restore, Kept, InPending
<1>6. ASSUME Relist, web.job # k PROVE Kept(k)
  BY <1>0, <1>6, ConstantsAssumption DEF Relist, Answer, WebIdle, Add, Kept, InPending, ListOK
<1>7. ASSUME RetryQueued, web.job # k PROVE Kept(k)
  <2>1. row'[k] = row[k] /\ tale'[k] = tale[k] /\ (InPending(k)' => InPending(k))
    BY <1>0, <1>7, AgainKeeps DEF RetryQueued
  <2> QED
    BY <1>0, <1>7, <2>1, ConstantsAssumption DEF RetryQueued, Answer, WebIdle, Kept
<1>8. ASSUME NEW j \in Jobs \ {k}, ResumeOne(j) PROVE Kept(k)
  <2>1. row'[k] = row[k] /\ tale'[k] = tale[k] /\ (InPending(k)' => InPending(k))
    <3>1. CASE Again(j)
      BY <1>8, <3>1, AgainKeeps
    <3>2. CASE /\ row' = [row EXCEPT ![j] = NoRow] /\ UNCHANGED pending
               /\ tale' = [tale EXCEPT ![j].ended = TRUE]
      BY <1>8, <3>2 DEF RowOK, TaleOK, InPending
    <3> QED
      BY <1>8, <3>1, <3>2 DEF ResumeOne
  <2>2. web.job # k /\ web'.job = web.job /\ web'.ids = web.ids \ {j}
    <3>1. j \in web.ids /\ web' = [web EXCEPT !.ids = @ \ {j}]
      BY <1>8 DEF ResumeOne
    <3>2. web.pc \in {"send", "discard"}
      BY <1>0, <3>1
    <3>3. web \in [pc : WebPcs, job : Jobs \cup {NoJob}, ids : SUBSET Jobs]
      BY DEF WebOK
    <3>4. web'.job = web.job /\ web'.ids = web.ids \ {j}
      BY <3>1, <3>3
    <3> QED
      BY <1>0, <3>2, <3>4
  <2> QED
    BY <1>8, <2>1, <2>2 DEF ResumeOne, Kept
<1> QED
  BY <1>1, <1>2, <1>3, <1>4, <1>5, <1>6, <1>7, <1>8

\* The steps about a job: of the clock, of a sender, of a request.
ClockStep(k) == Time(k) \/ Expire(k)

SenderStep(s, k) ==
  \/ Pop(s) /\ pending[Len(pending)] = k
  \/ /\ snd[s].job = k
     /\ \/ OneJob(s) \/ Trouble(s)
        \/ Promote(s) \/ Promoted(s) \/ Report(s) \/ PutBack(s)
  \/ FindDue(s, k) \/ ResetStale(s, k) \/ Look(s, k) \/ DropHeld(s, k)

WebStep(k) ==
  \/ Cancel(k) \/ Reschedule(k) \/ Withhold(k) \/ Release(k) \/ Retry(k) \/ Unset(k)
  \/ /\ web.job = k
     /\ Move \/ MarkWithheld \/ TakeOut \/ Undo \/ Restore \/ Relist \/ RetryQueued
  \/ ResumeOne(k)

ResumeEnds == ResumeDone \/ \E choice \in {"send", "discard"} : Resume(choice)

LEMMA Steps ==
  ASSUME Sound, [Next]_vars, NEW k \in Jobs
  PROVE  \/ Kept(k) \/ Enqueue(k) \/ ClockStep(k)
         \/ \E s \in Senders : SenderStep(s, k)
         \/ WebStep(k) \/ ResumeEnds
<1>1. CASE UNCHANGED vars
  BY <1>1 DEF vars, store, Kept, SndKept, InPending
<1>2. ASSUME NEW j \in Jobs, Enqueue(j) \/ Time(j) \/ Expire(j)
      PROVE  Kept(k) \/ Enqueue(k) \/ ClockStep(k)
  BY <1>2, TimeKeeps DEF ClockStep
<1>3. ASSUME NEW s \in Senders, OneJob(s) \/ Trouble(s)
      PROVE  Kept(k) \/ SenderStep(s, k)
  <2>1. CASE snd[s].job = k
    BY <1>3, <2>1 DEF SenderStep
  <2>2. CASE snd[s].job # k /\ At(s, "idle") /\ OneJob(s)
    <3>1. Pop(s)
      BY <2>2 DEF OneJob, At, Claim, SkipClaim, Load, Check, Hold, ListHeld, Accept, Bounce,
         Defer, Deliver, RecordFailure, Fail, Park, Unclaim, ListRetry, Refill, Requeue
    <3>2. CASE pending[Len(pending)] = k
      BY <3>1, <3>2 DEF SenderStep
    <3>3. CASE pending[Len(pending)] # k
      BY <2>2, <3>3, JobKeeps
    <3> QED
      BY <3>2, <3>3
  <2>3. CASE snd[s].job # k /\ ~(At(s, "idle") /\ OneJob(s))
    BY <1>3, <2>3, JobKeeps
  <2> QED
    BY <2>1, <2>2, <2>3
<1>4. ASSUME NEW s \in Senders, Housekeeping(s) \/ \E j \in Jobs : DropHeld(s, j)
      PROVE  Kept(k) \/ SenderStep(s, k)
  <2>1. CASE snd[s].job = k
    <3>1. ~At(s, "idle")
      BY <2>1, ConstantsAssumption DEF Sound, SndOK, At
    <3>2. ASSUME NEW j \in Jobs,
                 FindDue(s, j) \/ ResetStale(s, j) \/ Look(s, j) \/ DropHeld(s, j)
          PROVE  FALSE
      BY <3>1, <3>2 DEF FindDue, ResetStale, Look, DropHeld
    <3> QED
      BY <1>4, <2>1, <3>2 DEF Housekeeping, SenderStep
  <2>2. CASE snd[s].job # k
    <3>1. ASSUME NEW j \in Jobs,
                 FindDue(s, j) \/ ResetStale(s, j) \/ Look(s, j) \/ DropHeld(s, j)
          PROVE  Kept(k) \/ SenderStep(s, k)
      BY <2>2, <3>1, SweepKeeps DEF SenderStep
    <3>2. ASSUME Promote(s) \/ Promoted(s) \/ Report(s) \/ PutBack(s)
          PROVE  Kept(k)
      BY <2>2, <3>2, SweepKeeps
    <3> QED
      BY <1>4, <3>1, <3>2 DEF Housekeeping
  <2> QED
    BY <2>1, <2>2
<1>5. CASE Asked
  <2>1. ASSUME NEW j \in Jobs,
               Cancel(j) \/ Reschedule(j) \/ Withhold(j) \/ Release(j) \/ Retry(j) \/ Unset(j)
        PROVE  Kept(k) \/ WebStep(k)
    BY <2>1, AskedKeeps DEF WebStep
  <2> QED
    BY <1>5, <2>1 DEF Asked, ResumeEnds
<1>6. CASE Served
  <2>1. ASSUME \/ Move \/ MarkWithheld \/ TakeOut \/ Undo \/ Restore \/ Relist \/ RetryQueued
        PROVE  Kept(k) \/ WebStep(k)
    BY <2>1, ServedKeeps DEF WebStep
  <2>2. ASSUME NEW j \in Jobs, ResumeOne(j) PROVE Kept(k) \/ WebStep(k)
    BY <2>2, ServedKeeps DEF WebStep
  <2> QED
    BY <1>6, <2>1, <2>2 DEF Served, ResumeEnds
<1> QED
  BY <1>1, <1>2, <1>3, <1>4, <1>5, <1>6 DEF Next

\* What a resume begins and ends with.
LEMMA ResumeEndsKeep ==
  ASSUME Sound, NEW k \in Jobs, ResumeEnds
  PROVE  /\ row' = row /\ tale' = tale /\ due' = due /\ pending' = pending /\ snd' = snd
         /\ web'.job = NoJob /\ web'.ids \subseteq idx["held"]
         /\ \A n \in Names : idx'[n] \subseteq idx[n] /\ (n # "held" => idx'[n] = idx[n])
BY DEF Sound, ListOK, ResumeEnds, ResumeDone, Resume, store, Answer, WebIdle, Names

-----------------------------------------------------------------------------
(* A job that was never queued is nowhere. *)

Nowhere(j) ==
  /\ row[j] = NoRow /\ tale[j] = NoTale /\ j \notin due
  /\ ~InPending(j) /\ \A n \in Names : j \notin idx[n]
  /\ \A s \in Senders : snd[s].job # j
  /\ web.job # j /\ j \notin web.ids

QueuedFirst == \A j \in Jobs : ~tale[j].queued => Nowhere(j)

LEMMA StepQueued ==
  ASSUME Sound, QueuedFirst, NEW k \in Jobs,
         ClockStep(k) \/ (\E s \in Senders : SenderStep(s, k)) \/ WebStep(k)
  PROVE  tale[k].queued
<1>1. ASSUME Nowhere(k) PROVE FALSE
  <2>0. /\ row[k].state = "none" /\ row[k].ripe /\ row[k].claimed = "none"
        /\ row[k].updated = "none" /\ ~row[k].expires /\ row[k].blob = "none"
        /\ tale[k].queued = FALSE
    BY <1>1 DEF Nowhere, NoRow, NoTale
  <2>1. CASE ClockStep(k)
    BY <2>0, <2>1 DEF ClockStep, Time, SendTime, Ripen, Age, Expire
  <2>2. ASSUME NEW s \in Senders, SenderStep(s, k) PROVE FALSE
    <3>1. Pop(s) => InPending(pending[Len(pending)])
      BY PopList DEF Pop, Sound, ListOK, InPending
    <3> QED
      BY <1>1, <2>0, <2>2, <3>1 DEF SenderStep, Nowhere, FindDue, ResetStale, LeftBehind, Look,
         DropHeld, Names
  <2>3. CASE WebStep(k)
    BY <1>1, <2>0, <2>3 DEF WebStep, Nowhere, Cancel, Cancellable, Reschedule, Withhold, Release,
       Retry, Unset, ResumeOne, Names
  <2> QED
    BY <2>1, <2>2, <2>3
<1> QED
  BY <1>1 DEF QueuedFirst

LEMMA QueuedStays ==
  ASSUME Sound, [Next]_vars, NEW k \in Jobs
  PROVE  tale[k].queued => tale'[k].queued
<1>0. tale \in [Jobs -> Tale]
  BY DEF Sound, TaleOK
<1>1. CASE Kept(k) \/ ResumeEnds
  BY <1>1, ResumeEndsKeep DEF Kept
<1>2. CASE Enqueue(k)
  BY <1>0, <1>2 DEF Enqueue, Tale
<1>3. CASE ClockStep(k)
  BY <1>3 DEF ClockStep, Time, SendTime, Ripen, Age, Expire
<1>4. ASSUME NEW s \in Senders, SenderStep(s, k) PROVE tale[k].queued => tale'[k].queued
  <2>1. CASE OneJob(s)
    <3>1. CASE Accept(s) \/ Deliver(s) \/ Fail(s)
      BY <1>0, <3>1 DEF Accept, Deliver, Fail, Tale
    <3>2. CASE UNCHANGED tale
      BY <3>2
    <3>3. \/ Accept(s) \/ Deliver(s) \/ Fail(s)
          \/ UNCHANGED tale
      BY <2>1 DEF OneJob, Pop, Claim, SkipClaim, Load, Check, Hold, ListHeld, Bounce, Defer,
         RecordFailure, Park, Unclaim, ListRetry, Refill, Requeue
    <3> QED
      BY <3>1, <3>2, <3>3
  <2>2. CASE Trouble(s)
    BY <1>0, <2>2 DEF Trouble, Tale, LoadFails, CheckFails, Stop
  <2>3. CASE Promote(s) \/ Promoted(s) \/ Report(s) \/ PutBack(s)
    BY <2>3 DEF Promote, Promoted, Report, PutBack
  <2>4. CASE FindDue(s, k) \/ ResetStale(s, k) \/ Look(s, k) \/ DropHeld(s, k)
    BY <1>0, <2>4 DEF FindDue, ResetStale, Look, DropHeld, Tale
  <2> QED
    BY <1>4, <2>1, <2>2, <2>3, <2>4 DEF SenderStep, OneJob
<1>5. CASE WebStep(k)
  <2>1. CASE Cancel(k) \/ Reschedule(k) \/ Withhold(k) \/ Release(k) \/ Retry(k) \/ Unset(k)
    BY <1>0, <2>1 DEF Tale, Cancel, Reschedule, Withhold, Release, Retry, Unset
  <2>2. CASE Move \/ Undo \/ Restore \/ Relist
    BY <1>0, <2>2 DEF Tale, Move, Undo, Restore, Relist
  <2>4. CASE MarkWithheld \/ TakeOut
    <3>1. web.job \in Jobs
      BY <2>4, WebJob DEF Sound, MarkWithheld, TakeOut
    <3> QED
      BY <2>4, <3>1, MarkedTale, TakeOutTale DEF Sound, SameHistory
  <2>3. CASE RetryQueued \/ ResumeOne(k)
    BY <1>0, <2>3 DEF Tale, RetryQueued, ResumeOne, Again
  <2> QED
    BY <1>5, <2>1, <2>2, <2>3, <2>4 DEF WebStep
<1> QED
  BY <1>1, <1>2, <1>3, <1>4, <1>5, Steps

LEMMA QueuedNext == ASSUME Sound, QueuedFirst, [Next]_vars PROVE QueuedFirst'
<1> SUFFICES ASSUME NEW k \in Jobs, ~tale'[k].queued PROVE Nowhere(k)'
  BY DEF QueuedFirst
<1>1. ~tale[k].queued /\ Nowhere(k)
  BY QueuedStays DEF QueuedFirst
<1>2. CASE Kept(k)
  BY <1>1, <1>2 DEF Kept, SndKept, Nowhere
<1>3. CASE Enqueue(k)
  BY <1>3 DEF Enqueue, Sound, TaleOK, Tale
<1>4. CASE ResumeEnds
  BY <1>1, <1>4, ResumeEndsKeep, ConstantsAssumption DEF Nowhere, InPending, Names
<1> QED
  BY <1>1, <1>2, <1>3, <1>4, Steps, StepQueued

LEMMA QueuedInit == Init => QueuedFirst
BY ConstantsAssumption DEF Init, QueuedFirst, Nowhere, InPending, Idle, WebIdle

-----------------------------------------------------------------------------
(* How many senders have a job in hand. *)

\* Where a sender may still write the row of its job, or call a server about it.
BoundPcs == Holding \cup {"held", "park", "refilled"}

\* Where it may still have a server take the job, or make the row pending.
TokenPcs == BoundPcs \ {"sent", "fail", "failed"}

On(s, j, pcs) == snd[s].job = j /\ snd[s].pc \in pcs
Count(j, pcs) == Cardinality({s \in Senders : On(s, j, pcs)})
One(b)        == IF b THEN 1 ELSE 0

LEMMA OneMore ==
  ASSUME NEW B, IsFiniteSet(B), NEW s
  PROVE  /\ Cardinality(B) \in Nat /\ Cardinality(B \ {s}) \in Nat
         /\ Cardinality(B) = Cardinality(B \ {s}) + One(s \in B)
<1>1. /\ IsFiniteSet(B \ {s}) /\ Cardinality(B) \in Nat /\ Cardinality(B \ {s}) \in Nat
  BY FS_Subset, FS_CardinalityType
<1>2. CASE s \in B
  <2>1. Cardinality(B \ {s}) = Cardinality(B) - 1
    BY <1>2, FS_RemoveElement
  <2> QED
    BY <1>1, <1>2, <2>1 DEF One
<1>3. CASE s \notin B
  <2>1. B \ {s} = B
    BY <1>3
  <2> QED
    BY <1>1, <1>3, <2>1 DEF One
<1> QED
  BY <1>2, <1>3

LEMMA CountStep ==
  ASSUME NEW s \in Senders, NEW j, NEW pcs, \A t \in Senders \ {s} : snd'[t] = snd[t]
  PROVE  /\ Count(j, pcs) \in Nat /\ Count(j, pcs)' \in Nat
         /\ Count(j, pcs)' + One(On(s, j, pcs)) = Count(j, pcs) + One(On(s, j, pcs)')
         /\ On(s, j, pcs)' => Count(j, pcs)' # 0
<1>1. PICK B, C : /\ B = {t \in Senders : On(t, j, pcs)}
                  /\ C = {t \in Senders : On(t, j, pcs)'}
  OBVIOUS
<1>2. /\ Count(j, pcs) = Cardinality(B) /\ Count(j, pcs)' = Cardinality(C)
      /\ s \in B <=> On(s, j, pcs)
      /\ s \in C <=> On(s, j, pcs)'
  BY <1>1 DEF Count
<1>3. C \ {s} = B \ {s}
  BY <1>1 DEF On
<1>4. IsFiniteSet(B) /\ IsFiniteSet(C)
  BY <1>1, ConstantsAssumption, FS_Subset
<1>5. One(On(s, j, pcs)) = One(s \in B) /\ One(On(s, j, pcs)') = One(s \in C)
  BY <1>2 DEF One
<1>6. One(s \in B) \in Nat /\ One(s \in C) \in Nat
  BY DEF One
<1>7. /\ Cardinality(B) \in Nat /\ Cardinality(B \ {s}) \in Nat
      /\ Cardinality(B) = Cardinality(B \ {s}) + One(s \in B)
  BY <1>4, OneMore
<1>8. /\ Cardinality(C) \in Nat
      /\ Cardinality(C) = Cardinality(B \ {s}) + One(s \in C)
  BY <1>3, <1>4, OneMore
<1>9. On(s, j, pcs)' => Count(j, pcs)' # 0
  <2>1. s \in C => Cardinality(C) # 0
    BY <1>4, FS_EmptySet
  <2> QED
    BY <1>2, <2>1
<1> QED
  BY <1>2, <1>5, <1>6, <1>7, <1>8, <1>9

LEMMA CountSame ==
  ASSUME NEW j, NEW pcs, snd' = snd \/ SndKept(j)
  PROVE  Count(j, pcs)' = Count(j, pcs)
<1>1. \A s \in Senders : On(s, j, pcs)' <=> On(s, j, pcs)
  BY DEF On, SndKept
<1>2. {s \in Senders : On(s, j, pcs)}' = {s \in Senders : On(s, j, pcs)}
  BY <1>1
<1> QED
  BY <1>2 DEF Count

LEMMA CountType == ASSUME NEW j, NEW pcs PROVE Count(j, pcs) \in Nat
<1>1. IsFiniteSet({s \in Senders : On(s, j, pcs)})
  BY ConstantsAssumption, FS_Subset
<1> QED
  BY <1>1, FS_CardinalityType DEF Count

LEMMA CountZero ==
  ASSUME NEW j, NEW pcs, \A s \in Senders : ~On(s, j, pcs)
  PROVE  Count(j, pcs) = 0
<1>1. {s \in Senders : On(s, j, pcs)} = {}
  OBVIOUS
<1> QED
  BY <1>1, FS_EmptySet DEF Count

LEMMA SenderAlone ==
  ASSUME Sound, NEW s \in Senders, NEW k \in Jobs, SenderStep(s, k)
  PROVE  \A t \in Senders \ {s} : snd'[t] = snd[t]
<1>0. snd \in [Senders -> [pc : Pcs, job : Jobs \cup {NoJob}, tries : Nat]]
  BY DEF Sound, SndOK
<1>1. \/ \E p : Goto(s, p)
      \/ \E p, j : Take(s, p, j)
      \/ Rest(s) \/ UNCHANGED snd
      \/ \E p, n : snd' = [snd EXCEPT ![s].pc = p, ![s].tries = n]
  <2>1. CASE OneJob(s)
    BY <2>1 DEF OneJob, Pop, Claim, SkipClaim, Load, Check, Hold, ListHeld, Accept,
       Bounce, Defer, Deliver, RecordFailure, Fail, Park, Unclaim, ListRetry, Refill, Requeue
  <2>2. CASE Trouble(s)
    BY <2>2 DEF Trouble, LoadFails, CheckFails, Stop
  <2>3. CASE Promote(s) \/ Promoted(s) \/ Report(s) \/ PutBack(s)
    BY <2>3 DEF Promote, Promoted, Report, PutBack
  <2>4. CASE FindDue(s, k) \/ ResetStale(s, k) \/ Look(s, k) \/ DropHeld(s, k)
    BY <2>4 DEF FindDue, ResetStale, Look, DropHeld
  <2>5. Pop(s) => OneJob(s)
    BY DEF OneJob
  <2> QED
    BY <2>1, <2>2, <2>3, <2>4, <2>5 DEF SenderStep
<1> QED
  BY <1>0, <1>1 DEF Goto, Take, Rest

\* The steps of a sender that change no row and no tale: it goes on with its job,
\* or lets it go.
Quietly(s, k) ==
  \/ Pop(s) \/ SkipClaim(s) \/ Load(s) \/ LoadFails(s) \/ Check(s) \/ CheckFails(s)
  \/ ListHeld(s) \/ Bounce(s) \/ Defer(s) \/ RecordFailure(s) \/ ListRetry(s)
  \/ Promote(s) \/ Promoted(s) \/ Report(s) \/ FindDue(s, k) \/ Look(s, k)

\* What a move of the sender makes of its having a job in hand.
LEMMA Moves ==
  ASSUME SndOK, NEW s \in Senders, NEW k \in Jobs, NEW pcs
  PROVE  /\ Rest(s) => ~On(s, k, pcs)'
         /\ \A p : Goto(s, p) => (On(s, k, pcs)' <=> snd[s].job = k /\ p \in pcs)
         /\ \A p, j : Take(s, p, j) => (On(s, k, pcs)' <=> j = k /\ p \in pcs)
         /\ At(s, "idle") => ~On(s, k, pcs)
BY ConstantsAssumption DEF SndOK, Rest, Idle, Goto, Take, On, At

LEMMA QuietSteps ==
  ASSUME Sound, NEW s \in Senders, NEW k \in Jobs, Quietly(s, k)
  PROVE  /\ row' = row /\ tale' = tale
         /\ \A pcs \in {BoundPcs, TokenPcs} : On(s, k, pcs)' => On(s, k, pcs)
<1>1. row' = row /\ tale' = tale
  BY DEF Quietly, store, Pop, SkipClaim, Load, LoadFails, Check, CheckFails, ListHeld, Bounce,
     Defer, RecordFailure, ListRetry, Promote, Promoted, Report, FindDue, Look
<1>2. SUFFICES ASSUME NEW pcs, pcs \in {BoundPcs, TokenPcs}
               PROVE  On(s, k, pcs)' => On(s, k, pcs)
  BY <1>1
<1>3. /\ {"claimed", "check", "hold", "send", "held", "park"} \subseteq pcs
      /\ \A p \in {"popped", "due_scheduled", "due_retry", "look", "leave_scheduled", "leave_retry"} :
           p \notin pcs
      /\ "failed" \in pcs <=> "fail" \in pcs
      /\ "refill" \in pcs
  BY <1>2 DEF BoundPcs, TokenPcs, Holding
<1>4. SndOK
  BY DEF Sound
<1>5. CASE Pop(s) \/ FindDue(s, k) \/ Look(s, k)
  <2>1. PICK p, j : Take(s, p, j) /\ p \notin pcs
    BY <1>3, <1>5 DEF Pop, FindDue, Look
  <2> QED
    BY <1>4, <2>1, Moves
<1>6. CASE SkipClaim(s) \/ ListHeld(s) \/ ListRetry(s) \/ Promoted(s) \/ Report(s)
  BY <1>4, <1>6, Moves DEF SkipClaim, ListHeld, ListRetry, Promoted, Report
<1>7. CASE LoadFails(s) \/ Check(s) \/ CheckFails(s) \/ Bounce(s) \/ RecordFailure(s) \/ Promote(s)
  <2>1. ASSUME NEW p, Goto(s, p), p \in pcs => snd[s].pc \in pcs
        PROVE  On(s, k, pcs)' => On(s, k, pcs)
    BY <1>4, <2>1, Moves DEF On
  <2>2. CASE LoadFails(s) \/ Check(s) \/ CheckFails(s)
    BY <1>3, <2>1, <2>2 DEF LoadFails, Check, CheckFails, At
  <2>3. CASE Bounce(s)
    BY <1>3, <2>1, <2>3 DEF Bounce, At
  <2>4. CASE RecordFailure(s)
    BY <1>3, <2>1, <2>4 DEF RecordFailure, At
  <2>5. CASE Promote(s)
    BY <1>3, <2>1, <2>5 DEF Promote, At
  <2> QED
    BY <1>7, <2>2, <2>3, <2>4, <2>5
<1>8. CASE Load(s) \/ Defer(s)
  <2>1. CASE Rest(s)
    BY <1>4, <2>1, Moves
  <2>0. snd[s].pc \in pcs
    BY <1>3, <1>8 DEF Load, Defer, At
  <2>2. CASE \E p : Goto(s, p)
    BY <1>4, <2>0, <2>2, Moves DEF On
  <2>3. CASE \E p, n : snd' = [snd EXCEPT ![s].pc = p, ![s].tries = n]
    <3>1. snd'[s].job = snd[s].job
      BY <1>4, <2>3 DEF SndOK
    <3> QED
      BY <2>0, <3>1 DEF On
  <2> QED
    BY <1>8, <2>1, <2>2, <2>3 DEF Load, Defer
<1> QED
  BY <1>5, <1>6, <1>7, <1>8 DEF Quietly

-----------------------------------------------------------------------------
(* How often a job can take a sender down. *)

\* How often it did, and the attempts at it that are under way or open.
Weight(j) == tale[j].killed + Count(j, BoundPcs) + One(row[j].state = "pending")

Live(j) == ~tale[j].ended /\ ~tale[j].cancelled

\* Every claim that killed a sender is counted in the row, but for the last.
PoisonInv ==
  \A j \in Jobs :
    /\ row[j].expires => tale[j].ended
    /\ Live(j) => /\ Weight(j) <= row[j].interrupted + 1 + tale[j].again
                  /\ Weight(j) <= Limit + tale[j].again

SameTale(k) == /\ tale'[k].again = tale[k].again /\ tale'[k].ended = tale[k].ended
               /\ tale'[k].cancelled = tale[k].cancelled

\* Nothing is added to the weight of a job, or a claim left behind is counted.
Calm(k) == /\ SameTale(k) /\ row'[k].expires = row[k].expires
           /\ row'[k].interrupted >= row[k].interrupted
           /\ Weight(k)' <= Weight(k)
Back(k) == /\ SameTale(k) /\ row'[k].expires = row[k].expires
           /\ row'[k].interrupted = row[k].interrupted + 1 /\ row'[k].interrupted < Limit
           /\ Weight(k)' <= Weight(k) + 1

LEMMA PoisonSender ==
  ASSUME Sound, Sound', NEW s \in Senders, NEW k \in Jobs, SenderStep(s, k)
  PROVE  tale'[k].ended \/ Calm(k) \/ Back(k)
<1> DEFINE b == On(s, k, BoundPcs)
           n == Count(k, BoundPcs)
<1>0. /\ row \in [Jobs -> Row] /\ tale \in [Jobs -> Tale] /\ SndOK
      /\ row[k] \in Row /\ row'[k] \in Row /\ tale[k] \in Tale /\ tale'[k] \in Tale
  BY DEF Sound, RowOK, TaleOK
<1>1. /\ row[k].interrupted \in Nat /\ row'[k].interrupted \in Nat
      /\ tale[k].killed \in Nat /\ tale'[k].killed \in Nat
  BY <1>0 DEF Row, Tale
<1>2. /\ n \in Nat /\ n' \in Nat
      /\ n' + One(b) = n + One(b')
  BY CountStep, SenderAlone
<1> HIDE DEF n, b
<1>3. ASSUME row'[k].interrupted = row[k].interrupted, row'[k].expires = row[k].expires,
             SameTale(k), tale'[k].killed + One(b') + One(row'[k].state = "pending")
                            <= tale[k].killed + One(b) + One(row[k].state = "pending")
      PROVE  Calm(k)
  <2>1. Weight(k)' <= Weight(k)
    BY <1>1, <1>2, <1>3 DEF Weight, One, n
  <2> QED
    BY <1>1, <1>3, <2>1 DEF Calm
<1>4. CASE Quietly(s, k)
  <2>1. row' = row /\ tale' = tale /\ (b' => b)
    BY <1>4, QuietSteps DEF b
  <2> QED
    BY <1>1, <1>3, <2>1 DEF SameTale, One
<1>5. CASE Claim(s) /\ snd[s].job = k
  <2>1. row'[k] = [row[k] EXCEPT !.state = "inflight", !.claimed = "fresh"] /\ tale' = tale
    BY <1>0, <1>5 DEF Claim
  <2>2. /\ row[k].state = "pending" /\ row'[k].state = "inflight"
        /\ row'[k].interrupted = row[k].interrupted /\ row'[k].expires = row[k].expires
    BY <1>0, <1>5, <2>1 DEF Claim, Claimable, Row
  <2>3. ~b
    BY <1>5 DEF Claim, b, On, At, BoundPcs, Holding
  <2> QED
    BY <1>1, <1>3, <2>1, <2>2, <2>3 DEF SameTale, One
<1>6. CASE Hold(s) /\ snd[s].job = k
  <2>1. row'[k] = [row[k] EXCEPT !.state = "held"] /\ tale' = tale
    BY <1>0, <1>6 DEF Hold
  <2>2. /\ row'[k].state = "held"
        /\ row'[k].interrupted = row[k].interrupted /\ row'[k].expires = row[k].expires
    BY <1>0, <2>1 DEF Row
  <2>3. b
    BY <1>6 DEF Hold, b, On, At, BoundPcs, Holding
  <2> QED
    BY <1>1, <1>3, <2>1, <2>2, <2>3 DEF SameTale, One
<1>7. CASE Accept(s) /\ snd[s].job = k
  <2>1. row' = row /\ tale'[k] = [tale[k] EXCEPT !.accepted = @ + 1]
    BY <1>0, <1>7 DEF Accept, store
  <2>2. SameTale(k) /\ tale'[k].killed = tale[k].killed
    BY <1>0, <2>1 DEF SameTale, Tale
  <2>3. b
    BY <1>7 DEF Accept, b, On, At, BoundPcs, Holding
  <2> QED
    BY <1>1, <1>3, <2>1, <2>2, <2>3 DEF One
<1>8. CASE (Deliver(s) \/ Fail(s)) /\ snd[s].job = k
  BY <1>0, <1>8 DEF Deliver, Fail, Tale
<1>9. CASE Park(s) /\ snd[s].job = k
  <2>1. row'[k] = [Mark(row[k], "pending") EXCEPT
                     !.blob = "message", !.tries = snd[s].tries, !.ripe = FALSE]
    BY <1>0, <1>9 DEF Park
  <2>2. row'[k].interrupted = row[k].interrupted /\ row'[k].expires = row[k].expires
    BY <1>0, <2>1 DEF Row, Mark
  <2>3. b
    BY <1>9 DEF Park, b, On, At, BoundPcs, Holding
  <2>4. ~b' /\ tale' = tale
    BY <1>0, <1>9, Moves DEF Park, b, BoundPcs, Holding
  <2> QED
    BY <1>1, <1>3, <2>2, <2>3, <2>4 DEF SameTale, One
<1>10. CASE Unclaim(s) /\ snd[s].job = k
  <2>1. row'[k] = [row[k] EXCEPT !.claimed = "none"]
    BY <1>0, <1>10 DEF Unclaim
  <2>2. row'[k].interrupted = row[k].interrupted /\ row'[k].expires = row[k].expires
        /\ row'[k].state = row[k].state
    BY <1>0, <2>1 DEF Row
  <2>3. ~b' /\ tale' = tale
    BY <1>0, <1>10, Moves DEF Unclaim, b, BoundPcs, Holding
  <2> QED
    BY <1>1, <1>3, <2>2, <2>3 DEF SameTale, One
<1>11. CASE Refill(s) /\ snd[s].job = k
  <2>1. row'[k] = [row[k] EXCEPT !.blob = "filler"] /\ tale' = tale
    BY <1>0, <1>11 DEF Refill
  <2>2. row'[k].interrupted = row[k].interrupted /\ row'[k].expires = row[k].expires
        /\ row'[k].state = row[k].state
    BY <1>0, <2>1 DEF Row
  <2>3. b
    BY <1>11 DEF Refill, b, On, At, BoundPcs, Holding
  <2> QED
    BY <1>1, <1>3, <2>1, <2>2, <2>3 DEF SameTale, One
<1>12. CASE Requeue(s) /\ snd[s].job = k
  <2>1. row'[k] = [Mark(row[k], "pending") EXCEPT !.claimed = "none"] /\ tale' = tale
    BY <1>0, <1>12 DEF Requeue
  <2>2. row'[k].interrupted = row[k].interrupted /\ row'[k].expires = row[k].expires
    BY <1>0, <2>1 DEF Row, Mark
  <2>3. b
    BY <1>12 DEF Requeue, b, On, At, BoundPcs
  <2>4. ~b'
    BY <1>0, <1>12, Moves DEF Requeue, b
  <2> QED
    BY <1>1, <1>3, <2>1, <2>2, <2>3, <2>4 DEF SameTale, One
<1>13. CASE Stop(s) /\ snd[s].job = k
  <2> DEFINE i == IF InHand(s, k) /\ row[k].state = "inflight" THEN 1 ELSE 0
  <2>1. /\ tale'[k] = [tale[k] EXCEPT !.stops = @ + 1, !.killed = @ + i]
        /\ i \in {0, 1} /\ (i = 1 => b)
    BY <1>0, <1>13 DEF Stop, InHand, b, On, BoundPcs
  <2> HIDE DEF i
  <2>2. SameTale(k) /\ tale'[k].killed = tale[k].killed + i
    BY <1>0, <2>1 DEF SameTale, Tale
  <2>3. ~b' /\ row' = row
    BY <1>0, <1>13, Moves DEF Stop, store, b
  <2> QED
    BY <1>1, <1>3, <2>1, <2>2, <2>3 DEF One
<1>14. CASE PutBack(s) /\ snd[s].job = k
  <2>1. row'[k] = row[k] \/ row'[k] = [row[k] EXCEPT !.updated = "fresh"]
    BY <1>0, <1>14 DEF PutBack
  <2>2. row'[k].interrupted = row[k].interrupted /\ row'[k].expires = row[k].expires
        /\ row'[k].state = row[k].state
    BY <1>0, <2>1 DEF Row
  <2>3. ~b' /\ tale' = tale
    BY <1>0, <1>14, Moves DEF PutBack, b
  <2> QED
    BY <1>1, <1>3, <2>2, <2>3 DEF SameTale, One
<1>15. CASE ResetStale(s, k)
  <2>1. PICK st \in {"pending", "set_aside"} :
          /\ row'[k] = [Mark(row[k], st) EXCEPT !.claimed = "none", !.interrupted = row[k].interrupted + 1]
          /\ st = "pending" => row[k].interrupted + 1 < Limit
    BY <1>0, <1>15 DEF ResetStale, Interrupted
  <2>2. /\ row'[k].interrupted = row[k].interrupted + 1 /\ row'[k].expires = row[k].expires
        /\ row'[k].state = st /\ tale' = tale
    BY <1>0, <1>15, <2>1 DEF Row, Mark, ResetStale
  <2>3. ~b /\ ~b'
    <3>1. ~b
      BY <1>0, <1>15, Moves DEF ResetStale, b
    <3>2. CASE UNCHANGED snd
      BY <3>1, <3>2 DEF b, On
    <3>3. CASE Take(s, "report", k)
      BY <1>0, <3>1, <3>3, Moves DEF b, BoundPcs, Holding
    <3> QED
      BY <1>15, <3>1, <3>2, <3>3 DEF ResetStale
  <2>4. Weight(k)' <= Weight(k) + One(st = "pending")
    BY <1>1, <1>2, <2>2, <2>3 DEF Weight, One, n
  <2>5. Weight(k) \in Nat /\ Weight(k)' \in Nat /\ SameTale(k)
    BY <1>1, <1>2, <2>2 DEF Weight, One, n, SameTale
  <2>6. CASE st = "pending"
    BY <1>1, <2>1, <2>2, <2>4, <2>5, <2>6 DEF Back, One
  <2>7. CASE st = "set_aside"
    BY <1>1, <2>1, <2>2, <2>4, <2>5, <2>7 DEF Calm, One
  <2> QED
    BY <2>6, <2>7
<1>16. CASE DropHeld(s, k)
  BY <1>0, <1>16 DEF DropHeld, Tale
<1> QED
  BY <1>4, <1>5, <1>6, <1>7, <1>8, <1>9, <1>10, <1>11, <1>12, <1>13, <1>14, <1>15, <1>16
  DEF SenderStep, OneJob, Trouble, Quietly

\* A person makes the job pending again.
Raised(k) == /\ tale'[k].again = tale[k].again + 1 /\ tale'[k].ended = tale[k].ended
             /\ tale'[k].cancelled = tale[k].cancelled /\ row'[k].expires = row[k].expires
             /\ row'[k].interrupted = row[k].interrupted
             /\ Weight(k)' <= Weight(k) + 1

\* The row of the job is gone for good, or only its age changes.
LetGo(k) == row'[k] = NoRow /\ (tale'[k].ended \/ tale'[k].cancelled)

LEMMA PoisonWeb ==
  ASSUME Sound, Sound', NEW k \in Jobs, WebStep(k)
  PROVE  LetGo(k) \/ Calm(k) \/ Raised(k)
<1> DEFINE n == Count(k, BoundPcs)
<1>0. /\ row \in [Jobs -> Row] /\ tale \in [Jobs -> Tale]
      /\ row[k] \in Row /\ row'[k] \in Row /\ tale[k] \in Tale /\ tale'[k] \in Tale
  BY DEF Sound, RowOK, TaleOK
<1>1. /\ row[k].interrupted \in Nat /\ tale[k].killed \in Nat /\ tale[k].again \in Nat
      /\ n \in Nat
  BY <1>0, CountType DEF Row, Tale
<1>2. n' = n
  BY CountSame DEF WebStep, Cancel, Reschedule, Withhold, Release, Retry, Unset, Move,
     MarkWithheld, TakeOut, Undo, Restore, Relist, RetryQueued, ResumeOne
<1> HIDE DEF n
<1>3. ASSUME row'[k] = row[k], SameTale(k), tale'[k].killed = tale[k].killed PROVE Calm(k)
  BY <1>1, <1>2, <1>3 DEF Calm, Weight, One, n
<1>4. ASSUME \/ row'[k] = [row[k] EXCEPT !.state = "pending"] \/ row'[k] = Mark(row[k], "pending"),
             \/ tale'[k] = [tale[k] EXCEPT !.again = @ + 1]
             \/ tale'[k] = [tale[k] EXCEPT !.taken = FALSE, !.again = @ + 1]
      PROVE  Raised(k)
  <2>1. /\ row'[k].state = "pending" /\ row'[k].interrupted = row[k].interrupted
        /\ row'[k].expires = row[k].expires
    BY <1>0, <1>4 DEF Row, Mark
  <2>2. /\ tale'[k].again = tale[k].again + 1 /\ tale'[k].ended = tale[k].ended
        /\ tale'[k].cancelled = tale[k].cancelled /\ tale'[k].killed = tale[k].killed
    BY <1>0, <1>4 DEF Tale
  <2>3. Weight(k)' <= Weight(k) + 1
    BY <1>1, <1>2, <2>1, <2>2 DEF Weight, One, n
  <2> QED
    BY <2>1, <2>2, <2>3 DEF Raised
<1>5. CASE Cancel(k)
  BY <1>0, <1>5 DEF Cancel, LetGo, Tale
<1>6. CASE Reschedule(k) \/ Withhold(k) \/ Release(k) \/ Retry(k) \/ Move \/ Relist
  BY <1>3, <1>6 DEF Reschedule, Withhold, Release, Retry, Move, Relist, SameTale
<1>7. CASE Unset(k)
  BY <1>0, <1>4, <1>7 DEF Unset
<1>8. CASE MarkWithheld /\ web.job = k
  <2>1. row'[k] = [row[k] EXCEPT !.state = "withheld"] /\ SameHistory(k)
    BY <1>0, <1>8, MarkedTale DEF MarkWithheld, Sound
  <2>2. /\ row'[k].state = "withheld" /\ row'[k].interrupted = row[k].interrupted
        /\ row'[k].expires = row[k].expires
    BY <1>0, <2>1 DEF Row
  <2> QED
    BY <1>1, <1>2, <2>1, <2>2 DEF Calm, SameTale, SameHistory, Weight, One, n
<1>9. CASE TakeOut /\ web.job = k
  <2>1. row' = row /\ SameHistory(k)
    BY <1>9, TakeOutTale DEF TakeOut, Sound
  <2>2. SameTale(k) /\ tale'[k].killed = tale[k].killed
    BY <2>1 DEF SameHistory, SameTale
  <2> QED
    BY <1>3, <2>1, <2>2
<1>10. CASE Undo /\ web.job = k
  BY <1>0, <1>3, <1>4, <1>10 DEF Undo, SameTale
<1>11. CASE Restore /\ web.job = k
  <2>1. CASE /\ row' = [row EXCEPT ![k] = Mark(@, "pending")]
             /\ tale' = [tale EXCEPT ![k].taken = FALSE, ![k].again = @ + 1]
    BY <1>0, <1>4, <2>1
  <2>2. CASE row' = [row EXCEPT ![k] = NoRow] /\ tale' = [tale EXCEPT ![k].ended = TRUE]
    BY <1>0, <2>2 DEF LetGo, Tale
  <2> QED
    BY <1>11, <2>1, <2>2 DEF Restore
<1>12. ASSUME Again(k) PROVE Calm(k) \/ Raised(k)
  BY <1>0, <1>3, <1>4, <1>12 DEF Again, SameTale
<1>13. CASE RetryQueued /\ web.job = k
  BY <1>12, <1>13 DEF RetryQueued
<1>14. CASE ResumeOne(k)
  <2>1. CASE row' = [row EXCEPT ![k] = NoRow] /\ tale' = [tale EXCEPT ![k].ended = TRUE]
    BY <1>0, <2>1 DEF LetGo, Tale
  <2> QED
    BY <1>12, <1>14, <2>1 DEF ResumeOne
<1> QED
  BY <1>5, <1>6, <1>7, <1>8, <1>9, <1>10, <1>11, <1>13, <1>14 DEF WebStep

LEMMA PoisonClock ==
  ASSUME Sound, Sound', NEW k \in Jobs, ClockStep(k)
  PROVE  \/ row[k].expires /\ row'[k] = NoRow /\ tale' = tale
         \/ Calm(k)
<1>0. /\ row \in [Jobs -> Row] /\ row[k] \in Row /\ tale[k] \in Tale
  BY DEF Sound, RowOK, TaleOK
<1>1. row[k].interrupted \in Nat /\ tale[k].killed \in Nat /\ Count(k, BoundPcs) \in Nat
  BY <1>0, CountType DEF Row, Tale
<1>2. CASE Expire(k)
  BY <1>0, <1>2 DEF Expire
<1>3. CASE Time(k)
  <2>1. snd' = snd /\ tale' = tale
    BY <1>3 DEF Time, SendTime, Ripen, Age
  <2>2. /\ row'[k].state = row[k].state /\ row'[k].interrupted = row[k].interrupted
        /\ row'[k].expires = row[k].expires
    BY <1>0, <1>3 DEF Time, SendTime, Ripen, Age, Row
  <2>3. Count(k, BoundPcs)' = Count(k, BoundPcs)
    BY <2>1, CountSame
  <2> QED
    BY <1>1, <2>1, <2>2, <2>3 DEF Calm, SameTale, Weight, One
<1> QED
  BY <1>2, <1>3 DEF ClockStep

LEMMA PoisonNext ==
  ASSUME Sound, Sound', QueuedFirst, PoisonInv, [Next]_vars
  PROVE  PoisonInv'
<1> DEFINE Good(j) == /\ row[j].expires => tale[j].ended
                      /\ Live(j) => /\ Weight(j) <= row[j].interrupted + 1 + tale[j].again
                                    /\ Weight(j) <= Limit + tale[j].again
<1>1. SUFFICES ASSUME NEW k \in Jobs PROVE Good(k)'
  BY DEF PoisonInv
<1>2. /\ row[k] \in Row /\ row'[k] \in Row /\ tale[k] \in Tale /\ tale'[k] \in Tale
      /\ row \in [Jobs -> Row] /\ tale \in [Jobs -> Tale]
  BY DEF Sound, RowOK, TaleOK
<1>3. /\ row[k].interrupted \in Nat /\ row'[k].interrupted \in Nat
      /\ tale[k].again \in Nat /\ tale[k].killed \in Nat /\ tale'[k].killed \in Nat
      /\ Limit \in Nat \ {0}
  BY <1>2, ConstantsAssumption DEF Row, Tale
<1>4. Weight(k) \in Nat /\ Weight(k)' \in Nat
  <2>1. Count(k, BoundPcs) \in Nat /\ Count(k, BoundPcs)' \in Nat
    BY CountType, ConstantsAssumption, FS_Subset, FS_CardinalityType DEF Count
  <2> QED
    BY <1>3, <2>1 DEF Weight, One
<1>5. Good(k)
  BY DEF PoisonInv
<1>6. ASSUME Calm(k) PROVE Good(k)'
  <2>1. (Live(k)' => Live(k)) /\ tale'[k].again = tale[k].again
    BY <1>6 DEF Calm, SameTale, Live
  <2>2. row'[k].expires => tale'[k].ended
    BY <1>5, <1>6 DEF Calm, SameTale
  <2> QED
    BY <1>3, <1>4, <1>5, <1>6, <2>1, <2>2 DEF Calm
<1>7. ASSUME Back(k) PROVE Good(k)'
  <2>1. (Live(k)' => Live(k)) /\ tale'[k].again = tale[k].again
    BY <1>7 DEF Back, SameTale, Live
  <2>2. row'[k].expires => tale'[k].ended
    BY <1>5, <1>7 DEF Back, SameTale
  <2> QED
    BY <1>3, <1>4, <1>5, <1>7, <2>1, <2>2 DEF Back
<1>8. ASSUME Raised(k) PROVE Good(k)'
  <2>1. Live(k)' => Live(k)
    BY <1>8 DEF Raised, Live
  <2>2. row'[k].expires => tale'[k].ended
    BY <1>5, <1>8 DEF Raised
  <2> QED
    BY <1>3, <1>4, <1>5, <1>8, <2>1, <2>2 DEF Raised
<1>9. ASSUME LetGo(k) PROVE Good(k)'
  BY <1>9 DEF LetGo, Live, NoRow
<1>10. CASE Kept(k) \/ ResumeEnds
  <2>1. row'[k] = row[k] /\ tale'[k] = tale[k]
    BY <1>10, ResumeEndsKeep DEF Kept
  <2>2. Count(k, BoundPcs)' = Count(k, BoundPcs)
    BY <1>10, CountSame, ResumeEndsKeep DEF Kept
  <2>3. Weight(k)' = Weight(k)
    BY <2>1, <2>2 DEF Weight
  <2> QED
    BY <1>5, <2>1, <2>3 DEF Live
<1>11. CASE Enqueue(k)
  <2>1. Nowhere(k) /\ snd' = snd
    BY <1>11 DEF Enqueue, QueuedFirst
  <2>2. row'[k] = NewRow /\ tale'[k] = [tale[k] EXCEPT !.queued = TRUE]
    BY <1>2, <1>11 DEF Enqueue
  <2>3. tale'[k].killed = 0 /\ tale'[k].again = 0
    BY <2>1, <2>2 DEF Nowhere, NoTale
  <2>4. row'[k].state = "pending" /\ row'[k].interrupted = 0 /\ ~row'[k].expires
    BY <2>2 DEF NewRow, NoRow
  <2>5. Count(k, BoundPcs)' = 0
    BY <2>1, CountSame, CountZero DEF Nowhere, On
  <2>6. Weight(k)' = 1
    BY <2>3, <2>4, <2>5 DEF Weight, One
  <2> QED
    BY <1>3, <2>3, <2>4, <2>6
<1>12. CASE ClockStep(k)
  <2>1. CASE row[k].expires /\ row'[k] = NoRow /\ tale' = tale
    BY <1>5, <2>1 DEF NoRow, Live
  <2> QED
    BY <1>6, <1>12, <2>1, PoisonClock
<1>13. ASSUME NEW s \in Senders, SenderStep(s, k) PROVE Good(k)'
  <2>1. CASE tale'[k].ended
    BY <2>1 DEF Live
  <2> QED
    BY <1>6, <1>7, <1>13, <2>1, PoisonSender
<1>14. CASE WebStep(k)
  BY <1>6, <1>8, <1>9, <1>14, PoisonWeb
<1> QED
  BY <1>10, <1>11, <1>12, <1>13, <1>14, Steps

LEMMA PoisonInit == Init => PoisonInv
<1> SUFFICES ASSUME Init, NEW j \in Jobs
             PROVE  /\ ~row[j].expires
                    /\ Weight(j) <= row[j].interrupted + 1 + tale[j].again
                    /\ Weight(j) <= Limit + tale[j].again
  BY DEF PoisonInv
<1>1. row[j] = NoRow /\ tale[j] = NoTale
  BY DEF Init
<1>2. Count(j, BoundPcs) = 0
  BY CountZero DEF Init, On, Idle, BoundPcs, Holding
<1>3. Weight(j) = 0
  BY <1>1, <1>2 DEF Weight, One, NoRow, NoTale
<1> QED
  BY <1>1, <1>3, ConstantsAssumption DEF NoRow, NoTale

\* A job whose scan or sending kills the sender does so at most Limit times, and
\* once more for each time a person has it tried again, whatever else is asked for
\* and however many senders there are (reset_stale_inflight).
THEOREM PoisonIsSetAside == Spec => []PoisonBounded
<1> DEFINE IInv == Sound /\ QueuedFirst /\ PoisonInv
<1>1. Init => IInv
  BY SoundInit, QueuedInit, PoisonInit
<1>2. IInv /\ [Next]_vars => IInv'
  BY SoundNext, QueuedNext, PoisonNext
<1>3. IInv => PoisonBounded
  <2> SUFFICES ASSUME IInv, NEW j \in Jobs, Live(j) PROVE tale[j].killed <= Limit + tale[j].again
    BY DEF PoisonBounded, Live
  <2>1. tale[j] \in Tale /\ Weight(j) <= Limit + tale[j].again
    BY DEF PoisonInv, Sound, TaleOK
  <2> QED
    BY <2>1, CountType, ConstantsAssumption DEF Weight, One, Tale
<1> QED
  BY <1>1, <1>2, <1>3, PTL DEF Spec

-----------------------------------------------------------------------------
(* How often a receiving server can take a job. *)

\* A claim that a live sender works on is not stale, when no send is slow.
ClaimsFresh ==
  \A j \in Jobs : \A s \in Senders : On(s, j, BoundPcs) => row[j].claimed # "stale"

\* The job waits to be sent, or a claim that nobody works on will be taken back.
Open(j) == \/ row[j].state = "pending"
           \/ row[j].state = "inflight" /\ Count(j, BoundPcs) = 0

\* How often it was sent, and may be without anything else happening to it.
Burden(j) == tale[j].accepted + Count(j, TokenPcs) + One(Open(j))

SentInv == \A j \in Jobs : Burden(j) <= 1 + tale[j].stops + tale[j].again

\* A step adds no more to the burden than somebody answers for.
Fair(k) == Burden(k)' + tale[k].stops + tale[k].again
             <= Burden(k) + tale'[k].stops + tale'[k].again

LEMMA QuietLeaves ==
  ASSUME Sound, NEW s \in Senders, NEW k \in Jobs, Quietly(s, k), On(s, k, BoundPcs)
  PROVE  On(s, k, BoundPcs)' \/ On(s, k, TokenPcs)
<1>1. SUFFICES ASSUME ~On(s, k, TokenPcs) PROVE On(s, k, BoundPcs)'
  OBVIOUS
<1>2. snd[s].pc \in {"sent", "fail", "failed"} /\ snd[s].job = k
  BY <1>1 DEF On, TokenPcs
<1>3. RecordFailure(s)
  BY <1>2 DEF Quietly, Pop, SkipClaim, Load, LoadFails, Check, CheckFails, ListHeld, Bounce,
     Defer, ListRetry, Promote, Promoted, Report, FindDue, Look, At
<1> QED
  BY <1>2, <1>3, Moves DEF Sound, RecordFailure, BoundPcs, Holding

LEMMA FreshNext ==
  ASSUME Sound, QueuedFirst, ~SlowSend, ClaimsFresh, [Next]_vars
  PROVE  ClaimsFresh'
<1>1. SUFFICES ASSUME NEW k \in Jobs, NEW t \in Senders, On(t, k, BoundPcs)'
               PROVE  row'[k].claimed # "stale"
  BY DEF ClaimsFresh, On
<1>2. /\ row \in [Jobs -> Row] /\ row[k] \in Row /\ SndOK
  BY DEF Sound, RowOK
<1>3. ASSUME On(t, k, BoundPcs), row'[k].claimed = row[k].claimed
      PROVE  row'[k].claimed # "stale"
  BY <1>3 DEF ClaimsFresh
<1>4. ASSUME row'[k].claimed \in {"fresh", "none"} PROVE row'[k].claimed # "stale"
  BY <1>4
<1>5. ASSUME snd' = snd PROVE On(t, k, BoundPcs)
  BY <1>1, <1>5 DEF On
<1>6. CASE Kept(k) \/ ResumeEnds
  <2>1. row'[k] = row[k] /\ On(t, k, BoundPcs)
    BY <1>1, <1>6, ResumeEndsKeep DEF Kept, SndKept, On
  <2> QED
    BY <1>3, <2>1
<1>7. CASE Enqueue(k)
  BY <1>2, <1>4, <1>7 DEF Enqueue, NewRow, NoRow
<1>8. CASE ClockStep(k)
  <2>1. CASE Age(k)
    BY <1>1, <1>5, <2>1 DEF Age, Quiet, On
  <2>2. CASE SendTime(k)
    BY <1>3, <1>5, <2>2 DEF SendTime
  <2>3. CASE Ripen(k)
    BY <1>2, <1>3, <1>5, <2>3 DEF Ripen, Row
  <2>4. CASE Expire(k)
    BY <1>2, <1>4, <2>4 DEF Expire, NoRow
  <2> QED
    BY <1>8, <2>1, <2>2, <2>3, <2>4 DEF ClockStep, Time
<1>9. CASE WebStep(k)
  <2>1. row'[k].claimed = row[k].claimed \/ row'[k] = NoRow
    <3>1. \/ row'[k] = row[k] \/ row'[k] = NoRow \/ row'[k] = Mark(row[k], "pending")
          \/ row'[k] = [row[k] EXCEPT !.state = "pending"]
          \/ row'[k] = [row[k] EXCEPT !.state = "withheld"]
      BY <1>2, <1>9 DEF WebStep, Cancel, Reschedule, Withhold, Release, Retry, Unset, Move,
         MarkWithheld, TakeOut, Undo, Restore, Relist, RetryQueued, ResumeOne, Again
    <3> QED
      BY <1>2, <3>1 DEF Row, Mark
  <2>2. snd' = snd
    BY <1>9 DEF WebStep, Cancel, Reschedule, Withhold, Release, Retry, Unset, Move,
       MarkWithheld, TakeOut, Undo, Restore, Relist, RetryQueued, ResumeOne
  <2> QED
    BY <1>3, <1>4, <1>5, <2>1, <2>2 DEF NoRow
<1>10. ASSUME NEW s \in Senders, SenderStep(s, k) PROVE row'[k].claimed # "stale"
  <2>1. ASSUME row'[k].claimed = row[k].claimed, On(s, k, BoundPcs)' => On(s, k, BoundPcs)
        PROVE  row'[k].claimed # "stale"
    <3>1. CASE t = s
      BY <1>1, <1>3, <2>1, <3>1
    <3>2. CASE t # s
      BY <1>1, <1>3, <1>10, <2>1, <3>2, SenderAlone DEF On
    <3> QED
      BY <3>1, <3>2
  <2>2. CASE Quietly(s, k)
    BY <2>1, <2>2, QuietSteps
  <2>3. CASE Claim(s) /\ snd[s].job = k
    BY <1>2, <1>4, <2>3 DEF Claim, Row
  <2>4. CASE Hold(s) /\ snd[s].job = k
    <3>1. row'[k].claimed = row[k].claimed /\ On(s, k, BoundPcs)
      BY <1>2, <2>4 DEF Hold, Row, On, At, BoundPcs, Holding
    <3> QED
      BY <2>1, <3>1
  <2>5. CASE (Accept(s) \/ Stop(s)) /\ snd[s].job = k
    <3>1. row' = row
      BY <2>5 DEF Accept, Stop, store
    <3>2. On(s, k, BoundPcs)' => On(s, k, BoundPcs)
      <4>1. Accept(s) => On(s, k, BoundPcs)
        BY <2>5 DEF Accept, On, At, BoundPcs, Holding
      <4>2. Stop(s) => ~On(s, k, BoundPcs)'
        BY <1>2, Moves DEF Stop
      <4> QED
        BY <2>5, <4>1, <4>2
    <3> QED
      BY <2>1, <3>1, <3>2
  <2>6. CASE (Deliver(s) \/ Fail(s) \/ Unclaim(s) \/ Requeue(s)) /\ snd[s].job = k
    <3>1. CASE Deliver(s) \/ Fail(s)
      <4>1. row'[k] = Final(row[k], "delivered") \/ row'[k] = Final(row[k], "failed")
        BY <1>2, <2>6, <3>1 DEF Deliver, Fail
      <4>2. row'[k].claimed = "none"
        BY <1>2, <4>1 DEF Final, Mark, Row
      <4> QED
        BY <4>2
    <3>2. CASE Unclaim(s)
      BY <1>2, <2>6, <3>2 DEF Unclaim, Row
    <3>3. CASE Requeue(s)
      BY <1>2, <2>6, <3>3 DEF Requeue, Mark, Row
    <3> QED
      BY <1>4, <2>6, <3>1, <3>2, <3>3
  <2>7. CASE Park(s) /\ snd[s].job = k
    <3>1. row'[k].claimed = row[k].claimed /\ On(s, k, BoundPcs)
      BY <1>2, <2>7 DEF Park, Row, Mark, On, At, BoundPcs, Holding
    <3> QED
      BY <2>1, <3>1
  <2>8. CASE Refill(s) /\ snd[s].job = k
    <3>1. row'[k].claimed = row[k].claimed /\ On(s, k, BoundPcs)
      BY <1>2, <2>8 DEF Refill, Row, On, At, BoundPcs, Holding
    <3> QED
      BY <2>1, <3>1
  <2>9. CASE PutBack(s) /\ snd[s].job = k
    <3>1. row'[k] = row[k] \/ row'[k] = [row[k] EXCEPT !.updated = "fresh"]
      BY <1>2, <2>9 DEF PutBack
    <3>2. row'[k].claimed = row[k].claimed
      BY <1>2, <3>1 DEF Row
    <3>3. ~On(s, k, BoundPcs)'
      BY <1>2, <2>9, Moves DEF PutBack
    <3> QED
      BY <2>1, <3>2, <3>3
  <2>10. CASE ResetStale(s, k)
    <3>1. \E st \in {"pending", "set_aside"} :
            row'[k] = [Mark(row[k], st) EXCEPT !.claimed = "none", !.interrupted = Interrupted(k)]
      BY <1>2, <2>10 DEF ResetStale
    <3>2. row'[k].claimed = "none"
      BY <1>2, <3>1 DEF Row, Mark
    <3> QED
      BY <1>4, <3>2
  <2>11. CASE DropHeld(s, k)
    BY <1>2, <1>4, <2>11 DEF DropHeld, NoRow
  <2> QED
    BY <1>10, <2>2, <2>3, <2>4, <2>5, <2>6, <2>7, <2>8, <2>9, <2>10, <2>11
    DEF SenderStep, OneJob, Trouble, Quietly
<1> QED
  BY <1>6, <1>7, <1>8, <1>9, <1>10, Steps

LEMMA SentSender ==
  ASSUME Sound, Sound', ClaimsFresh, NEW s \in Senders, NEW k \in Jobs, SenderStep(s, k)
  PROVE  Fair(k)
<1> DEFINE b == On(s, k, BoundPcs)
           c == On(s, k, TokenPcs)
           n == Count(k, BoundPcs)
           m == Count(k, TokenPcs)
           o == Open(k)
<1>0. /\ row \in [Jobs -> Row] /\ tale \in [Jobs -> Tale] /\ SndOK
      /\ row[k] \in Row /\ row'[k] \in Row /\ tale[k] \in Tale /\ tale'[k] \in Tale
  BY DEF Sound, RowOK, TaleOK
<1>1. /\ tale[k].accepted \in Nat /\ tale'[k].accepted \in Nat
      /\ tale[k].stops \in Nat /\ tale'[k].stops \in Nat
      /\ tale[k].again \in Nat /\ tale'[k].again \in Nat
  BY <1>0 DEF Tale
<1>2. /\ n \in Nat /\ n' \in Nat /\ m \in Nat /\ m' \in Nat
      /\ n' + One(b) = n + One(b')
      /\ m' + One(c) = m + One(c')
  BY CountStep, SenderAlone
<1>3. (c => b) /\ (c' => b')
  BY DEF On, TokenPcs
<1>4. /\ Burden(k) = tale[k].accepted + m + One(o)
      /\ Burden(k)' = tale'[k].accepted + m' + One(o')
      /\ o <=> row[k].state = "pending" \/ (row[k].state = "inflight" /\ n = 0)
      /\ o' <=> row'[k].state = "pending" \/ (row'[k].state = "inflight" /\ n' = 0)
  BY DEF Burden, Open
<1> HIDE DEF n, m, b, c, o
<1>5. ASSUME tale'[k].accepted + One(c') + One(o') + tale[k].stops + tale[k].again
               <= tale[k].accepted + One(c) + One(o) + tale'[k].stops + tale'[k].again
      PROVE  Fair(k)
  <2>1. One(c) \in Nat /\ One(c') \in Nat /\ One(o) \in Nat /\ One(o') \in Nat
    BY DEF One
  <2>2. /\ Burden(k) = tale[k].accepted + m + One(o)
        /\ Burden(k)' = tale'[k].accepted + m' + One(o')
    BY <1>4
  <2> QED
    BY <1>1, <1>2, <1>5, <2>1, <2>2 DEF Fair
<1>6. ASSUME row'[k].state = row[k].state, o', b => b' PROVE o
  <2>1. n' = 0 => n = 0
    <3>1. One(b') \in {0, 1} /\ One(b) \in {0, 1} /\ (One(b) = 1 => One(b') = 1)
      BY <1>6 DEF One
    <3> QED
      BY <1>2, <3>1
  <2>2. /\ o <=> row[k].state = "pending" \/ (row[k].state = "inflight" /\ n = 0)
        /\ o' <=> row'[k].state = "pending" \/ (row'[k].state = "inflight" /\ n' = 0)
    BY <1>4
  <2> QED
    BY <1>6, <2>1, <2>2
<1>7. CASE Quietly(s, k)
  <2>1. row' = row /\ tale' = tale /\ (b' => b) /\ (c' => c) /\ (b => b' \/ c)
    BY <1>7, QuietSteps, QuietLeaves DEF b, c
  <2>2. One(c') + One(o') <= One(c) + One(o)
    BY <1>3, <1>6, <2>1 DEF One
  <2> QED
    BY <1>1, <1>5, <2>1, <2>2 DEF One
<1>8. CASE Claim(s) /\ snd[s].job = k
  <2>1. row'[k] = [row[k] EXCEPT !.state = "inflight", !.claimed = "fresh"] /\ tale' = tale
    BY <1>0, <1>8 DEF Claim
  <2>2. row[k].state = "pending" /\ row'[k].state = "inflight"
    BY <1>0, <1>8, <2>1 DEF Claim, Claimable, Row
  <2>3. ~b /\ b'
    <3>1. ~b
      BY <1>8 DEF Claim, b, On, At, BoundPcs, Holding
    <3> QED
      BY <1>0, <1>8, <3>1, Moves DEF Claim, b, BoundPcs, Holding
  <2>4. o /\ ~o' /\ ~c
    <3>1. n' # 0
      BY <2>3, CountStep, SenderAlone DEF n, b
    <3>2. row[k].state = "pending" => o
      BY <1>4
    <3>3. o' => row'[k].state = "pending" \/ n' = 0
      BY <1>4
    <3>4. o /\ ~o'
      BY <2>2, <3>1, <3>2, <3>3
    <3> QED
      BY <1>3, <2>3, <3>4
  <2> QED
    BY <1>1, <1>5, <2>1, <2>4 DEF One
<1>9. CASE Hold(s) /\ snd[s].job = k
  <2>1. row'[k] = [row[k] EXCEPT !.state = "held"] /\ tale' = tale
    BY <1>0, <1>9 DEF Hold
  <2>2. row'[k].state = "held"
    BY <1>0, <2>1 DEF Row
  <2>3. c /\ ~o'
    BY <1>4, <1>9, <2>2 DEF Hold, c, On, At, TokenPcs, BoundPcs, Holding
  <2> QED
    BY <1>1, <1>5, <2>1, <2>3 DEF One
<1>10. CASE Accept(s) /\ snd[s].job = k
  <2>1. row' = row /\ tale'[k] = [tale[k] EXCEPT !.accepted = @ + 1]
    BY <1>0, <1>10 DEF Accept, store
  <2>2. /\ tale'[k].accepted = tale[k].accepted + 1
        /\ tale'[k].stops = tale[k].stops /\ tale'[k].again = tale[k].again
    BY <1>0, <2>1 DEF Tale
  <2>3. c
    BY <1>10 DEF Accept, c, On, At, TokenPcs, BoundPcs, Holding
  <2>4. ~c' /\ b'
    BY <1>0, <1>10, Moves DEF Accept, b, c, TokenPcs, BoundPcs, Holding
  <2>5. o' => o
    BY <1>6, <2>1, <2>4
  <2> QED
    BY <1>1, <1>5, <2>2, <2>3, <2>4, <2>5 DEF One
<1>11. CASE (Deliver(s) \/ Fail(s)) /\ snd[s].job = k
  <2>1. row'[k] = Final(row[k], "delivered") \/ row'[k] = Final(row[k], "failed")
    BY <1>0, <1>11 DEF Deliver, Fail
  <2>2. row'[k].state \in {"delivered", "failed"}
    BY <1>0, <2>1 DEF Final, Mark, Row
  <2>3. ~o' /\ ~c'
    <3>1. ~c'
      BY <1>0, <1>11, Moves DEF Deliver, Fail, c
    <3> QED
      BY <1>4, <2>2, <3>1
  <2>4. tale'[k] = [tale[k] EXCEPT !.ended = TRUE]
    BY <1>0, <1>11 DEF Deliver, Fail
  <2>5. /\ tale'[k].accepted = tale[k].accepted
        /\ tale'[k].stops = tale[k].stops /\ tale'[k].again = tale[k].again
    BY <1>0, <2>4 DEF Tale
  <2> QED
    BY <1>1, <1>5, <2>3, <2>5 DEF One
<1>12. CASE (Park(s) \/ Requeue(s)) /\ snd[s].job = k
  <2>1. c /\ tale' = tale
    BY <1>12 DEF Park, Requeue, c, On, At, TokenPcs, BoundPcs, Holding
  <2>2. ~c'
    BY <1>0, <1>12, Moves DEF Park, Requeue, c, TokenPcs, BoundPcs, Holding
  <2> QED
    BY <1>1, <1>5, <2>1, <2>2 DEF One
<1>13. CASE (Unclaim(s) \/ PutBack(s)) /\ snd[s].job = k
  <2>1. \/ row'[k] = row[k] \/ row'[k] = [row[k] EXCEPT !.claimed = "none"]
        \/ row'[k] = [row[k] EXCEPT !.updated = "fresh"]
    BY <1>0, <1>13 DEF Unclaim, PutBack
  <2>2. row'[k].state = row[k].state /\ tale' = tale
    BY <1>0, <1>13, <2>1 DEF Row, Unclaim, PutBack
  <2>3. ~b /\ ~b'
    <3>1. ~b
      BY <1>13 DEF Unclaim, PutBack, b, On, At, BoundPcs, Holding
    <3> QED
      BY <1>0, <1>13, <3>1, Moves DEF Unclaim, PutBack, b, BoundPcs, Holding
  <2> QED
    BY <1>1, <1>3, <1>5, <1>6, <2>2, <2>3 DEF One
<1>14. CASE Refill(s) /\ snd[s].job = k
  <2>1. row'[k] = [row[k] EXCEPT !.blob = "filler"] /\ tale' = tale
    BY <1>0, <1>14 DEF Refill
  <2>2. row'[k].state = row[k].state
    BY <1>0, <2>1 DEF Row
  <2>3. c
    BY <1>14 DEF Refill, c, On, At, TokenPcs, BoundPcs, Holding
  <2>4. b'
    BY <1>0, <1>14, Moves DEF Refill, b, BoundPcs
  <2> QED
    BY <1>1, <1>5, <1>6, <2>1, <2>2, <2>3, <2>4 DEF One
<1>15. CASE Stop(s) /\ snd[s].job = k
  <2> DEFINE i == IF InHand(s, k) /\ row[k].state = "inflight" THEN 1 ELSE 0
  <2>1. row' = row /\ tale'[k] = [tale[k] EXCEPT !.stops = @ + 1, !.killed = @ + i]
    BY <1>0, <1>15 DEF Stop, store
  <2> HIDE DEF i
  <2>2. /\ tale'[k].accepted = tale[k].accepted
        /\ tale'[k].stops = tale[k].stops + 1 /\ tale'[k].again = tale[k].again
    BY <1>0, <2>1 DEF Tale
  <2>3. ~c'
    BY <1>0, <1>15, Moves DEF Stop, c
  <2> QED
    BY <1>1, <1>5, <2>2, <2>3 DEF One
<1>16. CASE ResetStale(s, k)
  <2>1. \A t \in Senders : ~On(t, k, BoundPcs)
    BY <1>16 DEF ResetStale, LeftBehind, ClaimsFresh
  <2>2. o /\ ~b /\ tale' = tale
    BY <1>4, <1>16, <2>1, CountZero DEF ResetStale, LeftBehind, b, n
  <2>3. ~b'
    <3>1. CASE UNCHANGED snd
      BY <2>2, <3>1 DEF b, On
    <3>2. CASE Take(s, "report", k)
      BY <1>0, <3>2, Moves DEF b, BoundPcs, Holding
    <3> QED
      BY <1>16, <3>1, <3>2 DEF ResetStale
  <2> QED
    BY <1>1, <1>3, <1>5, <2>2, <2>3 DEF One
<1>17. CASE DropHeld(s, k)
  <2>1. row'[k].state = "none" /\ tale'[k] = [tale[k] EXCEPT !.ended = TRUE]
    BY <1>0, <1>17 DEF DropHeld, NoRow
  <2>2. /\ tale'[k].accepted = tale[k].accepted
        /\ tale'[k].stops = tale[k].stops /\ tale'[k].again = tale[k].again
    BY <1>0, <2>1 DEF Tale
  <2>3. ~o' /\ (c' <=> c)
    BY <1>4, <1>17, <2>1 DEF DropHeld, c, On
  <2> QED
    BY <1>1, <1>5, <2>2, <2>3 DEF One
<1> QED
  BY <1>7, <1>8, <1>9, <1>10, <1>11, <1>12, <1>13, <1>14, <1>15, <1>16, <1>17
  DEF SenderStep, OneJob, Trouble, Quietly

LEMMA SentWeb ==
  ASSUME Sound, Sound', NEW k \in Jobs, WebStep(k) \/ ClockStep(k)
  PROVE  Fair(k)
<1>0. /\ row \in [Jobs -> Row] /\ tale \in [Jobs -> Tale]
      /\ row[k] \in Row /\ row'[k] \in Row /\ tale[k] \in Tale /\ tale'[k] \in Tale
  BY DEF Sound, RowOK, TaleOK
<1>1. /\ tale[k].accepted \in Nat /\ tale[k].stops \in Nat /\ tale[k].again \in Nat
      /\ Count(k, TokenPcs) \in Nat
  BY <1>0, CountType DEF Tale
<1>2. /\ Count(k, TokenPcs)' = Count(k, TokenPcs)
      /\ Count(k, BoundPcs)' = Count(k, BoundPcs)
  BY CountSame DEF WebStep, Cancel, Reschedule, Withhold, Release, Retry, Unset, Move,
     MarkWithheld, TakeOut, Undo, Restore, Relist, RetryQueued, ResumeOne,
     ClockStep, Time, SendTime, Ripen, Age, Expire
<1>3. ASSUME Open(k)' => Open(k), tale'[k].accepted = tale[k].accepted,
             tale'[k].stops = tale[k].stops, tale'[k].again = tale[k].again
      PROVE  Fair(k)
  BY <1>1, <1>2, <1>3 DEF Fair, Burden, One
<1>4. ASSUME \/ tale'[k] = [tale[k] EXCEPT !.again = @ + 1]
             \/ tale'[k] = [tale[k] EXCEPT !.taken = FALSE, !.again = @ + 1]
      PROVE  Fair(k)
  <2>1. /\ tale'[k].again = tale[k].again + 1 /\ tale'[k].accepted = tale[k].accepted
        /\ tale'[k].stops = tale[k].stops
    BY <1>0, <1>4 DEF Tale
  <2> QED
    BY <1>1, <1>2, <2>1 DEF Fair, Burden, One
<1>5. ASSUME row'[k] = NoRow \/ row'[k].state = row[k].state \/ row'[k].state = "withheld",
             \/ tale'[k] = tale[k]
             \/ tale'[k] = [tale[k] EXCEPT !.ended = TRUE]
             \/ tale'[k] = [tale[k] EXCEPT !.cancelled = TRUE]
             \/ SameHistory(k)
      PROVE  Fair(k)
  <2>1. /\ tale'[k].accepted = tale[k].accepted /\ tale'[k].stops = tale[k].stops
        /\ tale'[k].again = tale[k].again
    BY <1>0, <1>5 DEF Tale, SameHistory
  <2>2. Open(k)' => Open(k)
    BY <1>2, <1>5 DEF Open, NoRow
  <2> QED
    BY <1>3, <2>1, <2>2
<1>6. CASE Cancel(k)
  BY <1>0, <1>5, <1>6 DEF Cancel
<1>7. CASE Reschedule(k) \/ Withhold(k) \/ Release(k) \/ Retry(k) \/ Move \/ Relist
  BY <1>5, <1>7 DEF Reschedule, Withhold, Release, Retry, Move, Relist
<1>8. CASE Unset(k)
  BY <1>0, <1>4, <1>8 DEF Unset
<1>9. CASE MarkWithheld /\ web.job = k
  <2>1. row'[k] = [row[k] EXCEPT !.state = "withheld"] /\ SameHistory(k)
    BY <1>0, <1>9, MarkedTale DEF MarkWithheld, Sound
  <2>2. row'[k].state = "withheld"
    BY <1>0, <2>1 DEF Row
  <2> QED
    BY <1>5, <2>1, <2>2
<1>10. CASE TakeOut /\ web.job = k
  <2>1. row' = row /\ SameHistory(k)
    BY <1>10, TakeOutTale DEF TakeOut, Sound
  <2> QED
    BY <1>5, <2>1
<1>11. CASE Undo /\ web.job = k
  BY <1>0, <1>4, <1>5, <1>11 DEF Undo
<1>12. CASE Restore /\ web.job = k
  <2>1. CASE tale' = [tale EXCEPT ![k].taken = FALSE, ![k].again = @ + 1]
    BY <1>0, <1>4, <2>1
  <2>2. CASE row' = [row EXCEPT ![k] = NoRow] /\ tale' = [tale EXCEPT ![k].ended = TRUE]
    BY <1>0, <1>5, <2>2
  <2> QED
    BY <1>12, <2>1, <2>2 DEF Restore
<1>13. ASSUME Again(k) PROVE Fair(k)
  BY <1>0, <1>4, <1>5, <1>13 DEF Again
<1>14. CASE RetryQueued /\ web.job = k
  BY <1>13, <1>14 DEF RetryQueued
<1>15. CASE ResumeOne(k)
  <2>1. CASE row' = [row EXCEPT ![k] = NoRow] /\ tale' = [tale EXCEPT ![k].ended = TRUE]
    BY <1>0, <1>5, <2>1
  <2> QED
    BY <1>13, <1>15, <2>1 DEF ResumeOne
<1>16. CASE ClockStep(k)
  <2>1. tale' = tale /\ (row'[k] = NoRow \/ row'[k].state = row[k].state)
    BY <1>0, <1>16 DEF ClockStep, Time, SendTime, Ripen, Age, Expire, Row
  <2> QED
    BY <1>5, <2>1
<1> QED
  BY <1>6, <1>7, <1>8, <1>9, <1>10, <1>11, <1>12, <1>14, <1>15, <1>16 DEF WebStep

LEMMA SentNext ==
  ASSUME Sound, Sound', QueuedFirst, ClaimsFresh, SentInv, [Next]_vars
  PROVE  SentInv'
<1>1. SUFFICES ASSUME NEW k \in Jobs
               PROVE  (Burden(k) <= 1 + tale[k].stops + tale[k].again)'
  BY DEF SentInv
<1>2. /\ tale \in [Jobs -> Tale] /\ row \in [Jobs -> Row]
      /\ tale[k] \in Tale /\ tale'[k] \in Tale
  BY DEF Sound, TaleOK, RowOK
<1>3. /\ tale[k].stops \in Nat /\ tale[k].again \in Nat /\ tale[k].accepted \in Nat
      /\ tale'[k].stops \in Nat /\ tale'[k].again \in Nat /\ tale'[k].accepted \in Nat
  BY <1>2 DEF Tale
<1>4. Burden(k) \in Nat /\ Burden(k)' \in Nat
  <2>1. Count(k, TokenPcs) \in Nat /\ Count(k, TokenPcs)' \in Nat
    BY CountType, ConstantsAssumption, FS_Subset, FS_CardinalityType DEF Count
  <2> QED
    BY <1>3, <2>1 DEF Burden, One
<1>5. Burden(k) <= 1 + tale[k].stops + tale[k].again
  BY DEF SentInv
<1>6. ASSUME Fair(k) PROVE (Burden(k) <= 1 + tale[k].stops + tale[k].again)'
  BY <1>3, <1>4, <1>5, <1>6 DEF Fair
<1>7. CASE Kept(k) \/ ResumeEnds
  <2>1. row'[k] = row[k] /\ tale'[k] = tale[k] /\ (snd' = snd \/ SndKept(k))
    BY <1>7, ResumeEndsKeep DEF Kept
  <2>2. /\ Count(k, BoundPcs)' = Count(k, BoundPcs)
        /\ Count(k, TokenPcs)' = Count(k, TokenPcs)
    BY <2>1, CountSame
  <2>3. Burden(k)' = Burden(k)
    BY <2>1, <2>2 DEF Burden, Open
  <2> QED
    BY <1>5, <2>1, <2>3
<1>8. CASE Enqueue(k)
  <2>1. Nowhere(k) /\ snd' = snd
    BY <1>8 DEF Enqueue, QueuedFirst
  <2>2. tale'[k].accepted = 0
    BY <1>2, <1>8, <2>1 DEF Enqueue, Nowhere, NoTale
  <2>3. Count(k, TokenPcs)' = 0
    BY <2>1, CountSame, CountZero DEF Nowhere, On
  <2> QED
    BY <1>3, <2>2, <2>3 DEF Burden, One
<1>9. ASSUME NEW s \in Senders, SenderStep(s, k)
      PROVE  (Burden(k) <= 1 + tale[k].stops + tale[k].again)'
  BY <1>6, <1>9, SentSender
<1>10. CASE WebStep(k) \/ ClockStep(k)
  BY <1>6, <1>10, SentWeb
<1> QED
  BY <1>7, <1>8, <1>9, <1>10, Steps

LEMMA SentInit == Init => ClaimsFresh /\ SentInv
<1> SUFFICES ASSUME Init, NEW j \in Jobs
             PROVE  /\ \A s \in Senders : ~On(s, j, BoundPcs)
                    /\ Burden(j) <= 1 + tale[j].stops + tale[j].again
  BY DEF ClaimsFresh, SentInv
<1>1. row[j] = NoRow /\ tale[j] = NoTale
  BY DEF Init
<1>2. \A s \in Senders : ~On(s, j, BoundPcs) /\ ~On(s, j, TokenPcs)
  BY DEF Init, On, Idle, TokenPcs, BoundPcs, Holding
<1>3. Count(j, TokenPcs) = 0
  BY <1>2, CountZero
<1>4. Burden(j) = 0
  BY <1>1, <1>3 DEF Burden, One, Open, NoRow, NoTale
<1> QED
  BY <1>1, <1>2, <1>4 DEF NoTale

\* While no send outlasts STALE_SECS, a receiving server takes a job once, and
\* once more for each time a sender stopped over it or a person had it sent again,
\* whatever is asked for and however many senders there are (drop_blob, recover_on).
THEOREM SentOnceEach == ASSUME ~SlowSend PROVE Spec => []SentOnce
<1> DEFINE IInv == Sound /\ QueuedFirst /\ ClaimsFresh /\ SentInv
<1>1. Init => IInv
  BY SoundInit, QueuedInit, SentInit
<1>2. IInv /\ [Next]_vars => IInv'
  BY SoundNext, QueuedNext, FreshNext, SentNext
<1>3. IInv => SentOnce
  <2> SUFFICES ASSUME IInv, NEW j \in Jobs
               PROVE  tale[j].accepted <= 1 + tale[j].stops + tale[j].again
    BY DEF SentOnce
  <2>1. tale[j] \in Tale /\ Burden(j) <= 1 + tale[j].stops + tale[j].again
    BY DEF SentInv, Sound, TaleOK
  <2> QED
    BY <2>1, CountType DEF Burden, One, Tale
<1> QED
  BY <1>1, <1>2, <1>3, PTL DEF Spec

-----------------------------------------------------------------------------
(* Whose a job is. *)

\* A held job waits for a person: on the list, or among the ids a resume has read.
Waiting(k) == IF web.pc \in {"send", "discard"} THEN k \in web.ids ELSE k \in idx["held"]

\* One sender at most has the job in hand; the row of a job that one has in hand
\* says so, nobody has a held or a cancelled one.
ClaimOf(k) ==
  /\ \A s \in Senders : On(s, k, BoundPcs) => row[k].state \notin {"pending", "set_aside"}
  /\ \A s, t \in Senders : On(s, k, BoundPcs) /\ On(t, k, BoundPcs) => s = t
  /\ \A s \in Senders : On(s, k, {"held"}) => row[k].state \in {"held", "none"}
  /\ Waiting(k) => /\ \A s \in Senders : ~On(s, k, BoundPcs)
                   /\ row[k].state \in {"held", "none"}
  /\ tale[k].cancelled => /\ row[k] = NoRow
                          /\ \A s \in Senders : ~On(s, k, BoundPcs)

\* What is served when nobody asks to withhold or to retry.
WebFew == idx["withheld"] = {} /\ web.pc \in {"idle", "move", "send", "discard"}

ClaimInv == WebFew /\ \A k \in Jobs : ClaimOf(k)

FewAsks == Asks \cap {"withhold", "retry"} = {}

LEMMA SenderWeb ==
  ASSUME Sound, NEW s \in Senders, NEW k \in Jobs, SenderStep(s, k)
  PROVE  /\ web' = web
         /\ idx'["withheld"] \subseteq idx["withheld"]
         /\ ~ListHeld(s) => (Waiting(k)' => Waiting(k))
<1>0. idx \in [Names -> SUBSET Jobs] /\ (~At(s, "idle") => snd[s].job \in Jobs)
  BY InHandJob DEF Sound, ListOK
<1>1. web' = web
  <2>1. OneJob(s) => web' = web
    BY DEF OneJob, Pop, Claim, SkipClaim, Load, Check, Hold, ListHeld, Accept, Bounce, Defer,
       Deliver, RecordFailure, Fail, Park, Unclaim, ListRetry, Refill, Requeue
  <2>2. Trouble(s) => web' = web
    BY DEF Trouble, LoadFails, CheckFails, Stop
  <2>3. Promote(s) \/ Promoted(s) \/ Report(s) \/ PutBack(s) => web' = web
    BY DEF Promote, Promoted, Report, PutBack
  <2>4. FindDue(s, k) \/ ResetStale(s, k) \/ Look(s, k) \/ DropHeld(s, k) => web' = web
    BY DEF FindDue, ResetStale, Look, DropHeld
  <2>5. Pop(s) => OneJob(s)
    BY DEF OneJob
  <2> QED
    BY <2>1, <2>2, <2>3, <2>4, <2>5 DEF SenderStep
<1>2. \/ idx' = idx
      \/ \E n \in {"retry", "failed", "set_aside"}, j \in Jobs : Add(n, j)
      \/ \E n \in {"scheduled", "retry", "held"}, j \in Jobs : Del(n, j)
      \/ ListHeld(s)
  <2>1. CASE OneJob(s)
    <3>1. ASSUME ListRetry(s) \/ RecordFailure(s)
          PROVE  \E n \in {"retry", "failed", "set_aside"}, j \in Jobs : Add(n, j)
      BY <1>0, <3>1 DEF ListRetry, RecordFailure, At
    <3> QED
      BY <2>1, <3>1 DEF OneJob, store, Pop, Claim, SkipClaim, Load, Check, Hold, Accept, Bounce,
         Defer, Deliver, Fail, Park, Unclaim, Refill, Requeue
  <2>2. CASE Trouble(s)
    BY <2>2 DEF Trouble, store, LoadFails, CheckFails, Stop
  <2>3. CASE Promote(s) \/ Promoted(s) \/ Report(s) \/ PutBack(s)
    <3>1. ASSUME Promoted(s)
          PROVE  \E n \in {"scheduled", "retry", "held"}, j \in Jobs : Del(n, j)
      BY <1>0, <3>1 DEF Promoted, At
    <3>2. ASSUME Report(s)
          PROVE  \E n \in {"retry", "failed", "set_aside"}, j \in Jobs : Add(n, j)
      BY <1>0, <3>2 DEF Report, At
    <3> QED
      BY <2>3, <3>1, <3>2 DEF Promote, PutBack
  <2>4. CASE FindDue(s, k) \/ ResetStale(s, k) \/ Look(s, k) \/ DropHeld(s, k)
    BY <2>4 DEF FindDue, ResetStale, Look, DropHeld, store
  <2>5. Pop(s) => OneJob(s)
    BY DEF OneJob
  <2> QED
    BY <2>1, <2>2, <2>3, <2>4, <2>5 DEF SenderStep
<1>3. idx'["withheld"] \subseteq idx["withheld"] /\ (~ListHeld(s) => idx'["held"] \subseteq idx["held"])
  BY <1>0, <1>2 DEF Add, Del, ListHeld, Names
<1> QED
  BY <1>1, <1>3 DEF Waiting

LEMMA QuietNotHeld ==
  ASSUME Sound, NEW s \in Senders, NEW k \in Jobs, Quietly(s, k)
  PROVE  ~On(s, k, {"held"})'
<1>0. SndOK
  BY DEF Sound
<1>1. CASE Load(s) \/ Defer(s)
  <2>1. \/ Rest(s) \/ Goto(s, "fail")
        \/ \E n : \E p \in {"check", "park"} : snd' = [snd EXCEPT ![s].pc = p, ![s].tries = n]
    BY <1>1 DEF Load, Defer
  <2>2. CASE Rest(s) \/ Goto(s, "fail")
    BY <1>0, <2>2, Moves
  <2>3. CASE \E n : \E p \in {"check", "park"} : snd' = [snd EXCEPT ![s].pc = p, ![s].tries = n]
    BY <1>0, <2>3 DEF SndOK, On
  <2> QED
    BY <2>1, <2>2, <2>3
<1>2. CASE Pop(s) \/ FindDue(s, k) \/ Look(s, k)
  BY <1>0, <1>2, Moves DEF Pop, FindDue, Look
<1>3. CASE SkipClaim(s) \/ ListHeld(s) \/ ListRetry(s) \/ Promoted(s) \/ Report(s)
  BY <1>0, <1>3, Moves DEF SkipClaim, ListHeld, ListRetry, Promoted, Report
<1>4. CASE LoadFails(s) \/ Check(s) \/ CheckFails(s) \/ Bounce(s) \/ RecordFailure(s) \/ Promote(s)
  BY <1>0, <1>4, Moves DEF LoadFails, Check, CheckFails, Bounce, RecordFailure, Promote
<1> QED
  BY <1>1, <1>2, <1>3, <1>4 DEF Quietly

LEMMA ClaimSender ==
  ASSUME Sound, Sound', ClaimsFresh, NEW s \in Senders, NEW k \in Jobs, ClaimOf(k),
         SenderStep(s, k)
  PROVE  ClaimOf(k)'
<1> DEFINE b == On(s, k, BoundPcs)
           h == On(s, k, {"held"})
<1>0. /\ row \in [Jobs -> Row] /\ tale \in [Jobs -> Tale] /\ SndOK
      /\ row[k] \in Row /\ row'[k] \in Row /\ tale[k] \in Tale /\ tale'[k] \in Tale
  BY DEF Sound, RowOK, TaleOK
<1>1. \A t \in Senders \ {s} : /\ On(t, k, BoundPcs)' <=> On(t, k, BoundPcs)
                               /\ On(t, k, {"held"})' <=> On(t, k, {"held"})
  BY SenderAlone DEF On
<1>2. h => b
  BY DEF On, BoundPcs
<1>3. ~ListHeld(s) => (Waiting(k)' => Waiting(k))
  BY SenderWeb
\* Nobody comes to have the job in hand, and its state stays, or the row goes.
<1>4. ASSUME b' => b, row'[k].state = row[k].state \/ row'[k] = NoRow,
             h' => row'[k].state \in {"held", "none"},
             Waiting(k)' => Waiting(k),
             tale'[k].cancelled => tale[k].cancelled, row[k] = NoRow => row'[k] = NoRow
      PROVE  ClaimOf(k)'
  <2>1. row'[k].state = row[k].state \/ row'[k].state = "none"
    BY <1>4 DEF NoRow
  <2>2. \A t \in Senders : On(t, k, BoundPcs)' => On(t, k, BoundPcs)
    BY <1>1, <1>4
  <2>3. \A t \in Senders : On(t, k, {"held"})' => row'[k].state \in {"held", "none"}
    BY <1>1, <1>4, <2>1 DEF ClaimOf
  <2>4. Waiting(k)' => /\ \A t \in Senders : ~On(t, k, BoundPcs)'
                       /\ row'[k].state \in {"held", "none"}
    BY <1>1, <1>4, <2>1, <2>2 DEF ClaimOf
  <2> QED
    BY <1>4, <2>1, <2>2, <2>3, <2>4 DEF ClaimOf
\* The sender that has the job lets it go.
<1>5. ASSUME b, ~b', ~h', ~ListHeld(s), tale'[k].cancelled = tale[k].cancelled
      PROVE  ClaimOf(k)'
  <2>1. \A t \in Senders : ~On(t, k, BoundPcs)' /\ ~On(t, k, {"held"})'
    <3>1. \A t \in Senders \ {s} : ~On(t, k, BoundPcs)
      BY <1>5 DEF ClaimOf
    <3>2. \A t \in Senders \ {s} : ~On(t, k, {"held"})
      BY <3>1 DEF On, BoundPcs
    <3> QED
      BY <1>1, <1>5, <3>1, <3>2
  <2>2. ~Waiting(k)' /\ ~tale'[k].cancelled
    BY <1>3, <1>5 DEF ClaimOf
  <2> QED
    BY <2>1, <2>2 DEF ClaimOf
<1> HIDE DEF b, h
<1>6. CASE Quietly(s, k)
  <2>1. row' = row /\ tale' = tale /\ (b' => b) /\ ~h'
    BY <1>6, QuietSteps, QuietNotHeld DEF b, h
  <2>2. CASE ~ListHeld(s)
    BY <1>3, <1>4, <2>1, <2>2
  <2>3. CASE ListHeld(s)
    <3>1. CASE snd[s].job = k
      <4>1. b /\ h
        BY <2>3, <3>1 DEF ListHeld, At, On, BoundPcs, b, h
      <4>2. ~b'
        BY <1>0, <2>3, Moves DEF ListHeld, b
      <4>3. row[k].state \in {"held", "none"}
        BY <4>1 DEF ClaimOf, h
      <4>4. \A t \in Senders : ~On(t, k, BoundPcs)'
        BY <1>1, <4>1, <4>2 DEF ClaimOf, b
      <4>5. ~tale'[k].cancelled
        BY <2>1, <4>1 DEF ClaimOf, b
      <4>6. \A t \in Senders : ~On(t, k, {"held"})'
        BY <4>4 DEF On, BoundPcs
      <4> QED
        BY <2>1, <4>3, <4>4, <4>5, <4>6 DEF ClaimOf
    <3>2. CASE snd[s].job # k
      <4>1. k \in idx'["held"] => k \in idx["held"]
        BY <2>3, <3>2 DEF ListHeld, Add, Sound, ListOK, Names
      <4>2. Waiting(k)' => Waiting(k)
        BY <2>3, <4>1 DEF Waiting, ListHeld
      <4> QED
        BY <1>4, <2>1, <4>2
    <3> QED
      BY <3>1, <3>2
  <2> QED
    BY <2>2, <2>3
<1>7. CASE Claim(s) /\ snd[s].job = k
  <2>1. row'[k] = [row[k] EXCEPT !.state = "inflight", !.claimed = "fresh"] /\ tale' = tale
    BY <1>0, <1>7 DEF Claim
  <2>2. row[k].state = "pending" /\ row'[k].state = "inflight"
    BY <1>0, <1>7, <2>1 DEF Claim, Claimable, Row
  <2>3. \A t \in Senders : ~On(t, k, BoundPcs)
    BY <2>2 DEF ClaimOf
  <2>4. ~Waiting(k) /\ ~tale[k].cancelled
    BY <2>2 DEF ClaimOf, NoRow
  <2>5. ~Waiting(k)' /\ ~tale'[k].cancelled
    BY <1>3, <1>7, <2>1, <2>4 DEF Claim, ListHeld, At
  <2>6. \A t \in Senders : ~On(t, k, {"held"})'
    <3>1. ~h'
      BY <1>0, <1>7, Moves DEF Claim, h
    <3>2. \A t \in Senders \ {s} : ~On(t, k, {"held"})
      BY <2>3 DEF On, BoundPcs
    <3> QED
      BY <1>1, <3>1, <3>2 DEF h
  <2>7. \A t, u \in Senders : On(t, k, BoundPcs)' /\ On(u, k, BoundPcs)' => t = u
    BY <1>1, <2>3
  <2> QED
    BY <2>2, <2>5, <2>6, <2>7 DEF ClaimOf
<1>8. CASE Hold(s) /\ snd[s].job = k
  <2>1. row'[k] = [row[k] EXCEPT !.state = "held"] /\ tale' = tale
    BY <1>0, <1>8 DEF Hold
  <2>2. row'[k].state = "held"
    BY <1>0, <2>1 DEF Row
  <2>3. b
    BY <1>8 DEF Hold, b, On, At, BoundPcs, Holding
  <2>4. ~Waiting(k) /\ ~tale[k].cancelled
    BY <2>3 DEF ClaimOf, b
  <2>5. ~Waiting(k)' /\ ~tale'[k].cancelled
    BY <1>3, <1>8, <2>1, <2>4 DEF Hold, ListHeld, At
  <2>6. \A t, u \in Senders : On(t, k, BoundPcs)' /\ On(u, k, BoundPcs)' => t = u
    BY <1>1, <2>3 DEF ClaimOf, b
  <2> QED
    BY <2>2, <2>5, <2>6 DEF ClaimOf
<1>9. CASE Accept(s) /\ snd[s].job = k
  <2>1. row' = row /\ tale'[k] = [tale[k] EXCEPT !.accepted = @ + 1]
    BY <1>0, <1>9 DEF Accept, store
  <2>2. tale'[k].cancelled = tale[k].cancelled
    BY <1>0, <2>1 DEF Tale
  <2>3. b /\ ~h' /\ ~ListHeld(s)
    <3>1. b /\ ~ListHeld(s)
      BY <1>9 DEF Accept, ListHeld, b, On, At, BoundPcs, Holding
    <3> QED
      BY <1>0, <1>9, <3>1, Moves DEF Accept, h
  <2> QED
    BY <1>3, <1>4, <2>1, <2>2, <2>3
<1>10. CASE (Deliver(s) \/ Fail(s) \/ Park(s) \/ Requeue(s)) /\ snd[s].job = k
  <2>1. b /\ ~ListHeld(s)
    BY <1>10 DEF Deliver, Fail, Park, Requeue, ListHeld, b, On, At, BoundPcs, Holding
  <2>2. ~b' /\ ~h'
    <3>1. Rest(s) \/ Goto(s, "parked")
      BY <1>10 DEF Deliver, Fail, Park, Requeue
    <3> QED
      BY <1>0, <3>1, Moves DEF b, h, BoundPcs, Holding
  <2>3. tale' = tale \/ tale'[k] = [tale[k] EXCEPT !.ended = TRUE]
    BY <1>0, <1>10 DEF Deliver, Fail, Park, Requeue
  <2>4. tale'[k].cancelled = tale[k].cancelled
    BY <1>0, <2>3 DEF Tale
  <2> QED
    BY <1>5, <2>1, <2>2, <2>4
<1>11. CASE (Unclaim(s) \/ PutBack(s)) /\ snd[s].job = k
  <2>1. \/ row'[k] = row[k]
        \/ row'[k] = [row[k] EXCEPT !.claimed = "none"]
        \/ /\ row'[k] = [row[k] EXCEPT !.updated = "fresh"]
           /\ row[k].state = "pending"
    BY <1>0, <1>11 DEF Unclaim, PutBack
  <2>2. row'[k].state = row[k].state /\ tale' = tale /\ (row[k] = NoRow => row'[k] = NoRow)
    <3>1. row'[k].state = row[k].state /\ tale' = tale
      BY <1>0, <1>11, <2>1 DEF Row, Unclaim, PutBack
    <3>2. [NoRow EXCEPT !.claimed = "none"] = NoRow /\ NoRow.state # "pending"
      BY DEF NoRow
    <3> QED
      BY <2>1, <3>1, <3>2
  <2>3. ~b' /\ ~h' /\ ~ListHeld(s)
    <3>1. Rest(s) \/ Goto(s, "queue")
      BY <1>11 DEF Unclaim, PutBack
    <3>2. ~b' /\ ~h'
      BY <1>0, <3>1, Moves DEF b, h, BoundPcs, Holding
    <3> QED
      BY <1>11, <3>2 DEF Unclaim, PutBack, ListHeld, At
  <2> QED
    BY <1>3, <1>4, <2>2, <2>3
<1>12. CASE Refill(s) /\ snd[s].job = k
  <2>1. row'[k] = [row[k] EXCEPT !.blob = "filler"] /\ tale' = tale
    BY <1>0, <1>12 DEF Refill
  <2>2. row'[k].state = row[k].state
    BY <1>0, <2>1 DEF Row
  <2>3. b /\ ~ListHeld(s)
    BY <1>12 DEF Refill, ListHeld, b, On, At, BoundPcs, Holding
  <2>4. ~h'
    BY <1>0, <1>12, Moves DEF Refill, h
  <2>5. /\ \A t \in Senders : On(t, k, BoundPcs)' => On(t, k, BoundPcs)
        /\ \A t \in Senders : On(t, k, {"held"})' => On(t, k, {"held"})
    BY <1>1, <2>3, <2>4 DEF b, h
  <2>6. ~Waiting(k)' /\ ~tale'[k].cancelled
    BY <1>3, <2>1, <2>3 DEF ClaimOf, b
  <2> QED
    BY <2>2, <2>5, <2>6 DEF ClaimOf
<1>13. CASE Stop(s) /\ snd[s].job = k
  <2> DEFINE i == IF InHand(s, k) /\ row[k].state = "inflight" THEN 1 ELSE 0
  <2>1. row' = row /\ tale'[k] = [tale[k] EXCEPT !.stops = @ + 1, !.killed = @ + i]
    BY <1>0, <1>13 DEF Stop, store
  <2> HIDE DEF i
  <2>2. tale'[k].cancelled = tale[k].cancelled
    BY <1>0, <2>1 DEF Tale
  <2>3. ~b' /\ ~h'
    BY <1>0, <1>13, Moves DEF Stop, b, h
  <2>4. idx' = idx /\ web' = web
    BY <1>13 DEF Stop, store
  <2>5. Waiting(k)' => Waiting(k)
    BY <2>4 DEF Waiting
  <2> QED
    BY <1>4, <2>1, <2>2, <2>3, <2>5
<1>14. CASE ResetStale(s, k)
  <2>1. \A t \in Senders : ~On(t, k, BoundPcs)
    BY <1>14 DEF ResetStale, LeftBehind, ClaimsFresh
  <2>2. ~b' /\ ~h'
    <3>1. ~b /\ ~h
      BY <1>2, <2>1 DEF b
    <3>2. CASE UNCHANGED snd
      BY <3>1, <3>2 DEF b, h, On
    <3>3. CASE Take(s, "report", k)
      BY <1>0, <3>3, Moves DEF b, h, BoundPcs, Holding
    <3> QED
      BY <1>14, <3>2, <3>3 DEF ResetStale
  <2>3. \A t \in Senders : ~On(t, k, BoundPcs)' /\ ~On(t, k, {"held"})'
    <3>1. \A t \in Senders : ~On(t, k, {"held"})
      BY <2>1 DEF On, BoundPcs
    <3> QED
      BY <1>1, <2>1, <2>2, <3>1 DEF b, h
  <2>4. ~Waiting(k) /\ ~tale[k].cancelled
    BY <1>14 DEF ResetStale, LeftBehind, ClaimOf, NoRow
  <2>5. ~Waiting(k)' /\ ~tale'[k].cancelled
    BY <1>3, <1>14, <2>4 DEF ResetStale, ListHeld, At
  <2> QED
    BY <2>3, <2>5 DEF ClaimOf
<1>15. CASE DropHeld(s, k)
  <2>1. row'[k] = NoRow /\ tale'[k] = [tale[k] EXCEPT !.ended = TRUE] /\ snd' = snd
    BY <1>0, <1>15 DEF DropHeld
  <2>2. tale'[k].cancelled = tale[k].cancelled
    BY <1>0, <2>1 DEF Tale
  <2>3. /\ b' => b
        /\ ~ListHeld(s)
        /\ row'[k].state = "none"
    BY <1>15, <2>1 DEF DropHeld, ListHeld, At, b, On, NoRow
  <2> QED
    BY <1>3, <1>4, <2>1, <2>2, <2>3
<1> QED
  BY <1>6, <1>7, <1>8, <1>9, <1>10, <1>11, <1>12, <1>13, <1>14, <1>15
  DEF SenderStep, OneJob, Trouble, Quietly

LEMMA SenderAct ==
  ASSUME Sound, NEW s \in Senders,
         OneJob(s) \/ Housekeeping(s) \/ Trouble(s) \/ \E j \in Jobs : DropHeld(s, j)
  PROVE  \E k \in Jobs : SenderStep(s, k)
<1>1. CASE At(s, "idle") /\ OneJob(s)
  <2>1. Pop(s)
    BY <1>1 DEF OneJob, At, Claim, SkipClaim, Load, Check, Hold, ListHeld, Accept, Bounce,
       Defer, Deliver, RecordFailure, Fail, Park, Unclaim, ListRetry, Refill, Requeue
  <2>2. pending[Len(pending)] \in Jobs
    BY <2>1, PopList DEF Pop, Sound, ListOK
  <2> QED
    BY <2>1, <2>2 DEF SenderStep
<1>2. CASE ~At(s, "idle") /\ (OneJob(s) \/ Trouble(s))
  <2>1. snd[s].job \in Jobs
    BY <1>2, InHandJob DEF Sound
  <2> QED
    BY <1>2, <2>1 DEF SenderStep
<1>3. Trouble(s) => ~At(s, "idle")
  BY DEF Trouble, LoadFails, CheckFails, Stop, At
<1>4. CASE Housekeeping(s) \/ \E j \in Jobs : DropHeld(s, j)
  <2>1. CASE Promote(s) \/ Promoted(s) \/ Report(s) \/ PutBack(s)
    <3>1. snd[s].job \in Jobs
      BY <2>1, InHandJob DEF Sound, Promote, Promoted, Report, PutBack, At
    <3> QED
      BY <2>1, <3>1 DEF SenderStep
  <2>2. CASE \E j \in Jobs : FindDue(s, j) \/ ResetStale(s, j) \/ Look(s, j) \/ DropHeld(s, j)
    BY <2>2 DEF SenderStep
  <2> QED
    BY <1>4, <2>1, <2>2 DEF Housekeeping
<1> QED
  BY <1>1, <1>2, <1>3, <1>4

Resuming == web.pc \in {"send", "discard"}

LEMMA FewNext ==
  ASSUME Sound, WebFew, FewAsks, [Next]_vars
  PROVE  /\ WebFew'
         /\ ~ResumeEnds => (Resuming' <=> Resuming)
<1>0. web \in [pc : WebPcs, job : Jobs \cup {NoJob}, ids : SUBSET Jobs]
      /\ idx \in [Names -> SUBSET Jobs]
  BY DEF Sound, WebOK, ListOK
<1>1. ASSUME web' = web, idx'["withheld"] \subseteq idx["withheld"]
      PROVE  WebFew' /\ (Resuming' <=> Resuming)
  BY <1>1 DEF WebFew, Resuming
<1>2. CASE UNCHANGED vars
  BY <1>1, <1>2 DEF vars, store
<1>3. ASSUME NEW j \in Jobs, Enqueue(j) \/ Time(j) \/ Expire(j)
      PROVE  WebFew' /\ (Resuming' <=> Resuming)
  <2>1. web' = web /\ (idx' = idx \/ Add("scheduled", j))
    BY <1>3 DEF Enqueue, Time, SendTime, Ripen, Age, Expire
  <2>2. idx'["withheld"] = idx["withheld"]
    BY <1>0, <2>1 DEF Add, Names
  <2> QED
    BY <1>1, <2>1, <2>2
<1>4. ASSUME NEW s \in Senders,
             OneJob(s) \/ Housekeeping(s) \/ Trouble(s) \/ \E j \in Jobs : DropHeld(s, j)
      PROVE  WebFew' /\ (Resuming' <=> Resuming)
  BY <1>1, <1>4, SenderAct, SenderWeb
<1>5. CASE Asked
  <2>1. ASSUME NEW j \in Jobs, Cancel(j) \/ Unset(j) PROVE WebFew' /\ (Resuming' <=> Resuming)
    <3>1. web' = web /\ idx'["withheld"] = idx["withheld"]
      BY <1>0, <2>1 DEF Cancel, Unset, Names
    <3> QED
      BY <1>1, <3>1
  <2>2. ASSUME NEW j \in Jobs, Reschedule(j) PROVE WebFew' /\ (Resuming' <=> Resuming)
    <3>1. web.pc = "idle" /\ web'.pc = "move" /\ idx'["withheld"] = idx["withheld"]
      BY <1>0, <2>2 DEF Reschedule, Ask, WebIdle, Follow, Del, Names
    <3> QED
      BY <3>1 DEF WebFew, Resuming
  <2>3. \A j \in Jobs : ~Withhold(j) /\ ~Retry(j)
    BY DEF Withhold, Retry, Ask, FewAsks
  <2>4. \A j \in Jobs : ~Release(j)
    BY DEF Release, WebFew
  <2>5. ASSUME NEW choice \in {"send", "discard"}, Resume(choice)
        PROVE  WebFew' /\ ResumeEnds
    BY <2>5 DEF Resume, store, WebFew, ResumeEnds
  <2> QED
    BY <1>5, <2>1, <2>2, <2>3, <2>4, <2>5 DEF Asked
<1>6. CASE Served
  <2>1. CASE Move
    <3>1. web.pc = "move" /\ web'.pc = "idle" /\ idx'["withheld"] = idx["withheld"]
      BY <1>0, <2>1 DEF Move, Answer, WebIdle, Add, Names
    <3> QED
      BY <3>1 DEF WebFew, Resuming
  <2>2. ~(MarkWithheld \/ TakeOut \/ Undo \/ Restore \/ Relist \/ RetryQueued)
    BY DEF WebFew, MarkWithheld, TakeOut, Undo, Restore, Relist, RetryQueued
  <2>3. CASE ResumeDone
    <3>1. web'.pc = "idle" /\ idx'["withheld"] = idx["withheld"]
      BY <1>0, <2>3 DEF ResumeDone, Answer, WebIdle, Names
    <3> QED
      BY <2>3, <3>1 DEF WebFew, ResumeEnds
  <2>4. ASSUME NEW j \in Jobs, ResumeOne(j) PROVE WebFew' /\ (Resuming' <=> Resuming)
    <3>1. idx' = idx /\ web' = [web EXCEPT !.ids = @ \ {j}]
      BY <2>4 DEF ResumeOne
    <3>2. web'.pc = web.pc
      BY <1>0, <3>1
    <3> QED
      BY <3>1, <3>2 DEF WebFew, Resuming
  <2> QED
    BY <1>6, <2>1, <2>2, <2>3, <2>4 DEF Served
<1> QED
  BY <1>2, <1>3, <1>4, <1>5, <1>6 DEF Next

LEMMA ClaimWeb ==
  ASSUME Sound, Sound', WebFew, FewAsks, [Next]_vars, NEW k \in Jobs, ClaimOf(k),
         WebStep(k) \/ ClockStep(k)
  PROVE  ClaimOf(k)'
<1>0. /\ row \in [Jobs -> Row] /\ tale \in [Jobs -> Tale] /\ idx \in [Names -> SUBSET Jobs]
      /\ row[k] \in Row /\ row'[k] \in Row /\ tale[k] \in Tale /\ tale'[k] \in Tale
      /\ web \in [pc : WebPcs, job : Jobs \cup {NoJob}, ids : SUBSET Jobs]
  BY DEF Sound, RowOK, TaleOK, ListOK, WebOK
<1>1. snd' = snd
  BY DEF WebStep, Cancel, Reschedule, Withhold, Release, Retry, Unset, Move, MarkWithheld,
     TakeOut, Undo, Restore, Relist, RetryQueued, ResumeOne, ClockStep, Time, SendTime, Ripen,
     Age, Expire
<1>2. \A pcs : \A s \in Senders : On(s, k, pcs)' <=> On(s, k, pcs)
  BY <1>1 DEF On
<1>3. ~(Withhold(k) \/ Release(k) \/ Retry(k) \/ MarkWithheld \/ TakeOut \/ Undo \/ Restore
        \/ Relist \/ RetryQueued)
  BY DEF WebFew, FewAsks, Ask, Withhold, Release, Retry, MarkWithheld, TakeOut, Undo, Restore,
     Relist, RetryQueued
<1>4. ASSUME Waiting(k)' => Waiting(k), row'[k].state = row[k].state \/ row'[k] = NoRow,
             tale'[k].cancelled => tale[k].cancelled, row[k] = NoRow => row'[k] = NoRow
      PROVE  ClaimOf(k)'
  <2>1. row'[k].state = row[k].state \/ row'[k].state = "none"
    BY <1>4 DEF NoRow
  <2>2. \A s \in Senders : On(s, k, BoundPcs)' => row'[k].state \notin {"pending", "set_aside"}
    BY <1>2, <2>1 DEF ClaimOf
  <2>3. \A s, t \in Senders : On(s, k, BoundPcs)' /\ On(t, k, BoundPcs)' => s = t
    BY <1>2 DEF ClaimOf
  <2>4. \A s \in Senders : On(s, k, {"held"})' => row'[k].state \in {"held", "none"}
    BY <1>2, <2>1 DEF ClaimOf
  <2>5. Waiting(k)' => /\ \A s \in Senders : ~On(s, k, BoundPcs)'
                       /\ row'[k].state \in {"held", "none"}
    BY <1>2, <1>4, <2>1 DEF ClaimOf
  <2> QED
    BY <1>2, <1>4, <2>2, <2>3, <2>4, <2>5 DEF ClaimOf
\* Nobody has the job in hand.
<1>5. ASSUME \A s \in Senders : ~On(s, k, BoundPcs), Waiting(k)' => row'[k].state \in {"held", "none"},
             tale'[k].cancelled => row'[k] = NoRow
      PROVE  ClaimOf(k)'
  <2>1. \A s \in Senders : ~On(s, k, {"held"})
    BY <1>5 DEF On, BoundPcs
  <2> QED
    BY <1>2, <1>5, <2>1 DEF ClaimOf
<1>6. CASE Cancel(k)
  <2>1. row'[k] = NoRow /\ row'[k].state = "none"
    BY <1>0, <1>6 DEF Cancel, NoRow
  <2>2. \A s \in Senders : ~On(s, k, BoundPcs)
    BY <1>6 DEF Cancel, Cancellable, ClaimOf
  <2> QED
    BY <1>5, <2>1, <2>2
<1>7. CASE Reschedule(k) \/ Move
  <2>1. Waiting(k)' => Waiting(k)
    BY <1>0, <1>7 DEF Reschedule, Move, Ask, WebIdle, Follow, Answer, Add, Del, Waiting, Names
  <2>2. row' = row /\ tale' = tale
    BY <1>7 DEF Reschedule, Move
  <2> QED
    BY <1>4, <2>1, <2>2
<1>8. CASE Unset(k)
  <2>1. /\ \A s \in Senders : ~On(s, k, BoundPcs)
        /\ ~Waiting(k) /\ ~tale[k].cancelled
    BY <1>8 DEF Unset, ClaimOf, NoRow
  <2>2. ~Waiting(k)'
    BY <1>8, <2>1 DEF Unset, Waiting
  <2>3. tale'[k] = [tale[k] EXCEPT !.again = @ + 1]
    BY <1>0, <1>8 DEF Unset
  <2>4. ~tale'[k].cancelled
    BY <1>0, <2>1, <2>3 DEF Tale
  <2> QED
    BY <1>5, <2>1, <2>2, <2>4
<1>9. CASE ResumeOne(k)
  <2>1. k \in web.ids /\ web' = [web EXCEPT !.ids = @ \ {k}] /\ idx' = idx /\ Resuming
    BY <1>9 DEF ResumeOne, Resuming
  <2>2. Waiting(k) /\ ~Waiting(k)'
    BY <1>0, <2>1 DEF Waiting, Resuming
  <2>3. \/ row'[k] = NoRow
        \/ tale'[k] = [tale[k] EXCEPT !.taken = FALSE, !.again = @ + 1] /\ row[k] # NoRow
    BY <1>0, <1>9 DEF ResumeOne, Again
  <2>4. tale'[k].cancelled => row'[k] = NoRow
    <3>1. CASE row'[k] = NoRow
      BY <3>1
    <3>2. CASE tale'[k] = [tale[k] EXCEPT !.taken = FALSE, !.again = @ + 1] /\ row[k] # NoRow
      <4>1. tale'[k].cancelled = tale[k].cancelled
        BY <1>0, <3>2 DEF Tale
      <4> QED
        BY <3>2, <4>1 DEF ClaimOf
    <3> QED
      BY <2>3, <3>1, <3>2
  <2>5. \A s \in Senders : ~On(s, k, BoundPcs)
    BY <2>2 DEF ClaimOf
  <2> QED
    BY <1>5, <2>2, <2>4, <2>5
<1>10. CASE ClockStep(k)
  <2>1. tale' = tale /\ idx' = idx /\ web' = web
    BY <1>10 DEF ClockStep, Time, SendTime, Ripen, Age, Expire
  <2>2. Waiting(k)' => Waiting(k)
    BY <2>1 DEF Waiting
  <2>3. row'[k].state = row[k].state \/ row'[k] = NoRow
    BY <1>0, <1>10 DEF ClockStep, Time, SendTime, Ripen, Age, Expire, Row
  <2>4. row[k] = NoRow => row'[k] = NoRow
    <3>1. /\ NoRow.ripe = TRUE /\ NoRow.claimed = "none" /\ NoRow.updated = "none"
          /\ NoRow.expires = FALSE
      BY DEF NoRow
    <3> QED
      BY <1>10, <3>1 DEF ClockStep, Time, SendTime, Ripen, Age, Expire
  <2> QED
    BY <1>4, <2>1, <2>2, <2>3, <2>4
<1> QED
  BY <1>3, <1>6, <1>7, <1>8, <1>9, <1>10 DEF WebStep

LEMMA ClaimNext ==
  ASSUME Sound, Sound', QueuedFirst, ClaimsFresh, ClaimInv, FewAsks, [Next]_vars
  PROVE  ClaimInv'
<1>1. WebFew' /\ (~ResumeEnds => (Resuming' <=> Resuming))
  BY FewNext DEF ClaimInv
<1>2. SUFFICES ASSUME NEW k \in Jobs PROVE ClaimOf(k)'
  BY <1>1 DEF ClaimInv
<1>3. ClaimOf(k) /\ WebFew
  BY DEF ClaimInv
<1>4. ASSUME row'[k] = row[k], tale'[k] = tale[k], snd' = snd \/ SndKept(k),
             Waiting(k)' => Waiting(k)
      PROVE  ClaimOf(k)'
  <2>1. \A pcs : \A s \in Senders : On(s, k, pcs)' <=> On(s, k, pcs)
    BY <1>4 DEF On, SndKept
  <2> QED
    BY <1>3, <1>4, <2>1 DEF ClaimOf
<1>5. CASE ResumeEnds
  <2>1. row'[k] = row[k] /\ tale'[k] = tale[k] /\ snd' = snd
    BY <1>5, ResumeEndsKeep
  <2>2. CASE ResumeDone
    <3>1. web'.pc = "idle" /\ idx'["held"] = {}
      BY <2>2 DEF ResumeDone, Answer, WebIdle, Sound, ListOK, Names
    <3>2. ~Waiting(k)'
      BY <3>1 DEF Waiting
    <3> QED
      BY <1>4, <2>1, <3>2
  <2>3. ASSUME NEW choice \in {"send", "discard"}, Resume(choice) PROVE ClaimOf(k)'
    <3>1. /\ web.pc = "idle" /\ web'.pc = choice /\ web'.ids = idx["held"]
      BY <2>3 DEF Resume, Ask, WebIdle
    <3>2. Waiting(k)' => Waiting(k)
      BY <3>1 DEF Waiting
    <3> QED
      BY <1>4, <2>1, <3>2
  <2> QED
    BY <1>5, <2>2, <2>3 DEF ResumeEnds
<1>6. CASE Kept(k) /\ ~ResumeEnds
  <2>1. Waiting(k)' => Waiting(k)
    BY <1>1, <1>6 DEF Waiting, Resuming, Kept, Names
  <2> QED
    BY <1>4, <1>6, <2>1 DEF Kept
<1>7. CASE Enqueue(k)
  <2>1. Nowhere(k) /\ snd' = snd
    BY <1>7 DEF Enqueue, QueuedFirst
  <2>2. \A pcs : \A s \in Senders : ~On(s, k, pcs)'
    BY <2>1 DEF Nowhere, On
  <2>3. ~tale'[k].cancelled
    BY <1>7, <2>1 DEF Enqueue, Nowhere, NoTale, Sound, TaleOK
  <2>4. web' = web /\ (k \in idx'["held"] => k \in idx["held"])
    BY <1>7 DEF Enqueue, Add, Sound, ListOK, Names
  <2>5. ~Waiting(k)'
    BY <2>1, <2>4 DEF Waiting, Nowhere, Names
  <2> QED
    BY <2>2, <2>3, <2>5 DEF ClaimOf
<1>8. ASSUME NEW s \in Senders, SenderStep(s, k) PROVE ClaimOf(k)'
  BY <1>3, <1>8, ClaimSender
<1>9. CASE WebStep(k) \/ ClockStep(k)
  BY <1>3, <1>9, ClaimWeb
<1> QED
  BY <1>5, <1>6, <1>7, <1>8, <1>9, Steps

LEMMA ClaimInit == Init => ClaimInv
<1> SUFFICES ASSUME Init PROVE ClaimInv
  OBVIOUS
<1>1. WebFew
  BY DEF Init, WebFew, WebIdle, Names
<1>2. ASSUME NEW k \in Jobs PROVE ClaimOf(k)
  <2>1. \A s \in Senders : ~On(s, k, BoundPcs) /\ ~On(s, k, {"held"})
    BY DEF Init, On, Idle, BoundPcs, Holding
  <2>2. ~Waiting(k) /\ ~tale[k].cancelled
    BY DEF Init, Waiting, WebIdle, NoTale, Names
  <2> QED
    BY <2>1, <2>2 DEF ClaimOf
<1> QED
  BY <1>1, <1>2 DEF ClaimInv

\* What holds while no send outlasts STALE_SECS and nobody withholds or retries.
ClaimIInv == Sound /\ QueuedFirst /\ ClaimsFresh /\ ClaimInv

LEMMA AlwaysClaimed == ASSUME ~SlowSend, FewAsks PROVE Spec => []ClaimIInv
<1>1. Init => ClaimIInv
  BY SoundInit, QueuedInit, SentInit, ClaimInit DEF ClaimIInv
<1>2. ClaimIInv /\ [Next]_vars => ClaimIInv'
  BY SoundNext, QueuedNext, FreshNext, ClaimNext DEF ClaimIInv
<1> QED
  BY <1>1, <1>2, PTL DEF Spec

\* However many senders share the queue, and whoever cancels and moves jobs, resumes
\* an account or has a job that was set aside sent, two of them never work on the
\* same job: neither a stray copy of its id, nor a sweep, nor a resume hands it out
\* twice (try_claim, recover_on).
THEOREM OneSenderEach ==
  ASSUME ~SlowSend, Asks \cap {"withhold", "retry"} = {}
  PROVE  Spec => []ClaimedOnce
<1>1. ClaimIInv => ClaimedOnce
  <2> SUFFICES ASSUME ClaimIInv, NEW s \in Senders, NEW t \in Senders, s # t, NEW j \in Jobs,
                      InHand(s, j), InHand(t, j)
               PROVE  FALSE
    BY DEF ClaimedOnce
  <2>1. On(s, j, BoundPcs) /\ On(t, j, BoundPcs)
    BY DEF InHand, On, BoundPcs
  <2> QED
    BY <2>1 DEF ClaimIInv, ClaimInv, ClaimOf
<1>2. Spec => []ClaimIInv
  BY AlwaysClaimed DEF FewAsks
<1> QED
  BY <1>1, <1>2, PTL

LEMMA OnlyAcceptCounts ==
  ASSUME Sound, [Next]_vars, NEW k \in Jobs, tale'[k].accepted # tale[k].accepted
  PROVE  \/ Enqueue(k)
         \/ \E s \in Senders : Accept(s) /\ snd[s].job = k
<1>0. tale \in [Jobs -> Tale]
  BY DEF Sound, TaleOK
<1>1. CASE Kept(k) \/ ResumeEnds
  BY <1>1, ResumeEndsKeep DEF Kept
<1>2. CASE ClockStep(k)
  BY <1>2 DEF ClockStep, Time, SendTime, Ripen, Age, Expire
<1>3. ASSUME NEW s \in Senders, SenderStep(s, k) PROVE Accept(s) /\ snd[s].job = k
  <2>1. CASE OneJob(s)
    <3>1. CASE Deliver(s) \/ Fail(s)
      BY <1>0, <3>1 DEF Deliver, Fail, Tale
    <3>2. CASE UNCHANGED tale
      BY <3>2
    <3>3. \/ Accept(s) \/ Deliver(s) \/ Fail(s)
          \/ UNCHANGED tale
      BY <2>1 DEF OneJob, Pop, Claim, SkipClaim, Load, Check, Hold, ListHeld, Bounce, Defer,
         RecordFailure, Park, Unclaim, ListRetry, Refill, Requeue
    <3>4. Accept(s) => snd[s].job = k
      BY <1>0 DEF Accept
    <3> QED
      BY <3>1, <3>2, <3>3, <3>4
  <2>2. CASE Trouble(s)
    BY <1>0, <2>2 DEF Trouble, Tale, LoadFails, CheckFails, Stop
  <2>3. CASE Promote(s) \/ Promoted(s) \/ Report(s) \/ PutBack(s)
    BY <2>3 DEF Promote, Promoted, Report, PutBack
  <2>4. CASE FindDue(s, k) \/ ResetStale(s, k) \/ Look(s, k) \/ DropHeld(s, k)
    BY <1>0, <2>4 DEF FindDue, ResetStale, Look, DropHeld, Tale
  <2> QED
    BY <1>3, <2>1, <2>2, <2>3, <2>4 DEF SenderStep, OneJob
<1>4. CASE WebStep(k)
  <2>1. CASE Cancel(k) \/ Reschedule(k) \/ Withhold(k) \/ Release(k) \/ Retry(k) \/ Unset(k)
    BY <1>0, <2>1 DEF Tale, Cancel, Reschedule, Withhold, Release, Retry, Unset
  <2>2. CASE Move \/ Undo \/ Restore \/ Relist
    BY <1>0, <2>2 DEF Tale, Move, Undo, Restore, Relist
  <2>4. CASE MarkWithheld \/ TakeOut
    <3>1. web.job \in Jobs
      BY <2>4, WebJob DEF Sound, MarkWithheld, TakeOut
    <3> QED
      BY <2>4, <3>1, MarkedTale, TakeOutTale DEF Sound, SameHistory
  <2>3. CASE RetryQueued \/ ResumeOne(k)
    BY <1>0, <2>3 DEF Tale, RetryQueued, ResumeOne, Again
  <2> QED
    BY <1>4, <2>1, <2>2, <2>3, <2>4 DEF WebStep
<1> QED
  BY <1>1, <1>2, <1>3, <1>4, Steps

\* Once a cancel has answered yes, no receiving server takes the job: not from a
\* stray copy of its id, not from a sender that had it in hand (cancel_waiting).
THEOREM CancelHolds ==
  ASSUME ~SlowSend, Asks \cap {"withhold", "retry"} = {}
  PROVE  Spec => CancelledStaysUnsent
<1>1. ClaimIInv /\ [Next]_vars
        => [\A j \in Jobs : tale[j].cancelled => tale'[j].accepted = tale[j].accepted]_vars
  <2> SUFFICES ASSUME ClaimIInv, [Next]_vars, NEW j \in Jobs, tale[j].cancelled,
                      tale'[j].accepted # tale[j].accepted
               PROVE  FALSE
    OBVIOUS
  <2>1. \A s \in Senders : ~On(s, j, BoundPcs)
    BY DEF ClaimIInv, ClaimInv, ClaimOf
  <2>2. ~Enqueue(j)
    BY DEF Enqueue, ClaimIInv, QueuedFirst, Nowhere, NoTale
  <2>3. PICK s \in Senders : Accept(s) /\ snd[s].job = j
    BY <2>2, OnlyAcceptCounts DEF ClaimIInv
  <2> QED
    BY <2>1, <2>3 DEF Accept, At, On, BoundPcs, Holding
<1>2. Spec => []ClaimIInv
  BY AlwaysClaimed DEF FewAsks
<1> QED
  BY <1>1, <1>2, PTL DEF Spec, CancelledStaysUnsent


-----------------------------------------------------------------------------
(* When a job may be sent. *)

\* A job whose time has not come is with no sender and in no queue: it is in the
\* schedule, withheld, or on its way between the two.
Early(k) ==
  /\ \A s \in Senders : snd[s].job # k
  /\ ~InPending(k) /\ k \notin web.ids
  /\ \A n \in Names \ {"scheduled", "withheld"} : k \notin idx[n]
  /\ tale[k].accepted = 0
  /\ row[k].state \in {"none", "pending", "withheld"}
  /\ row[k].state = "pending" =>
       \/ k \in idx["scheduled"]
       \/ web.pc = "relist" /\ web.job = k /\ row[k].updated = "fresh"
  /\ web.job = k => /\ web.pc \in {"mark", "take", "restore", "relist"}
                    /\ web.pc \in {"mark", "take"} => k \in idx["scheduled"]
                    /\ web.pc \in {"take", "restore"} => row[k].state # "pending"

TimeInv == /\ web.pc # "move"
           /\ \A k \in Jobs : k \notin due => Early(k)

LEMMA NothingMoves ==
  ASSUME Sound, "reschedule" \notin Asks, web.pc # "move", [Next]_vars
  PROVE  web'.pc # "move"
<1>0. web \in [pc : WebPcs, job : Jobs \cup {NoJob}, ids : SUBSET Jobs]
  BY DEF Sound, WebOK
<1>1. ASSUME web' = web PROVE web'.pc # "move"
  BY <1>1
<1>2. CASE UNCHANGED vars
  BY <1>1, <1>2 DEF vars
<1>3. ASSUME NEW j \in Jobs, Enqueue(j) \/ Time(j) \/ Expire(j) PROVE web' = web
  BY <1>3 DEF Enqueue, Time, SendTime, Ripen, Age, Expire
<1>4. ASSUME NEW s \in Senders,
             OneJob(s) \/ Housekeeping(s) \/ Trouble(s) \/ \E j \in Jobs : DropHeld(s, j)
      PROVE  web' = web
  BY <1>4, SenderAct, SenderWeb
<1>5. CASE Asked
  <2>1. ASSUME NEW j \in Jobs, Cancel(j) \/ Reschedule(j) \/ Unset(j) PROVE web' = web
    BY <2>1 DEF Cancel, Reschedule, Unset, Ask
  <2>2. ASSUME NEW j \in Jobs, Withhold(j) \/ Release(j) \/ Retry(j) PROVE web'.pc # "move"
    BY <2>2 DEF Withhold, Release, Retry, Follow, Answer, WebIdle
  <2>3. ASSUME NEW choice \in {"send", "discard"}, Resume(choice) PROVE web'.pc # "move"
    BY <2>3 DEF Resume
  <2> QED
    BY <1>1, <1>5, <2>1, <2>2, <2>3 DEF Asked
<1>6. CASE Served
  <2>1. CASE \E j \in Jobs : ResumeOne(j)
    BY <1>0, <2>1 DEF ResumeOne
  <2>2. CASE Move \/ MarkWithheld \/ TakeOut \/ Undo \/ Restore \/ Relist \/ RetryQueued \/ ResumeDone
    BY <2>2 DEF Move, MarkWithheld, TakeOut, Undo, Restore, Relist, RetryQueued, ResumeDone,
       Follow, Answer, WebIdle
  <2> QED
    BY <1>6, <2>1, <2>2 DEF Served
<1> QED
  BY <1>1, <1>2, <1>3, <1>4, <1>5, <1>6 DEF Next

LEMMA SenderDue ==
  ASSUME NEW s \in Senders, NEW k \in Jobs, SenderStep(s, k)
  PROVE  due' = due
<1>1. OneJob(s) => due' = due
  BY DEF OneJob, store, Pop, Claim, SkipClaim, Load, Check, Hold, ListHeld, Accept, Bounce, Defer,
     Deliver, RecordFailure, Fail, Park, Unclaim, ListRetry, Refill, Requeue
<1>2. Trouble(s) => due' = due
  BY DEF Trouble, LoadFails, CheckFails, Stop, store
<1>3. Promote(s) \/ Promoted(s) \/ Report(s) \/ PutBack(s) => due' = due
  BY DEF Promote, Promoted, Report, PutBack
<1>4. FindDue(s, k) \/ ResetStale(s, k) \/ Look(s, k) \/ DropHeld(s, k) => due' = due
  BY DEF FindDue, ResetStale, Look, DropHeld, store
<1>5. Pop(s) => OneJob(s)
  BY DEF OneJob
<1> QED
  BY <1>1, <1>2, <1>3, <1>4, <1>5 DEF SenderStep

\* No sender does anything about a job before its time.
LEMMA NobodySends ==
  ASSUME Sound, NEW k \in Jobs, k \notin due, Early(k), NEW s \in Senders
  PROVE  ~SenderStep(s, k)
<1>1. Pop(s) => InPending(pending[Len(pending)])
  BY PopList DEF Pop, Sound, ListOK, InPending
<1>2. ~FindDue(s, k)
  BY DEF FindDue, Early, Names
<1>3. ~ResetStale(s, k)
  BY DEF ResetStale, LeftBehind, Early
<1>4. ~Look(s, k)
  BY DEF Look, Unindexed, Early
<1>5. ~DropHeld(s, k)
  BY DEF DropHeld, Early, Names
<1> QED
  BY <1>1, <1>2, <1>3, <1>4, <1>5 DEF SenderStep, Early

\* What the people's requests make of it: withheld, restored, listed again.
LEMMA EarlyWeb ==
  ASSUME Sound, NEW k \in Jobs, k \notin due, Early(k), "reschedule" \notin Asks,
         web.pc # "move", WebStep(k)
  PROVE  Early(k)'
<1>0. /\ row \in [Jobs -> Row] /\ tale \in [Jobs -> Tale] /\ row[k] \in Row /\ tale[k] \in Tale
      /\ idx \in [Names -> SUBSET Jobs]
      /\ web \in [pc : WebPcs, job : Jobs \cup {NoJob}, ids : SUBSET Jobs]
  BY DEF Sound, RowOK, TaleOK, ListOK, WebOK
<1>1. ASSUME snd' = snd, pending' = pending, web'.ids = {},
             \A n \in Names \ {"scheduled", "withheld"} : idx'[n] \subseteq idx[n],
             tale'[k].accepted = tale[k].accepted,
             row'[k].state \in {"none", "pending", "withheld"},
             row'[k].state = "pending" =>
               \/ k \in idx'["scheduled"]
               \/ web'.pc = "relist" /\ web'.job = k /\ row'[k].updated = "fresh",
             web'.job = k => /\ web'.pc \in {"mark", "take", "restore", "relist"}
                             /\ web'.pc \in {"mark", "take"} => k \in idx'["scheduled"]
                             /\ web'.pc \in {"take", "restore"} => row'[k].state # "pending"
      PROVE  Early(k)'
  BY <1>1 DEF Early, InPending
<1>2. ASSUME web' = WebIdle PROVE web'.ids = {} /\ web'.job # k
  BY <1>2, ConstantsAssumption DEF WebIdle
<1>3. CASE Cancel(k)
  <2>1. row'[k].state = "none" /\ snd' = snd /\ pending' = pending /\ web' = WebIdle
    BY <1>0, <1>3 DEF Cancel, Ask, NoRow
  <2>2. \A n \in Names \ {"scheduled", "withheld"} : idx'[n] \subseteq idx[n]
    BY <1>0, <1>3 DEF Cancel
  <2>3. tale'[k].accepted = tale[k].accepted
    BY <1>0, <1>3 DEF Cancel, Tale
  <2> QED
    BY <1>1, <1>2, <2>1, <2>2, <2>3
<1>4. ~Reschedule(k) /\ ~Retry(k) /\ ~Unset(k) /\ ~ResumeOne(k)
  BY DEF Reschedule, Ask, Retry, Unset, ResumeOne, Early, Names
<1>5. CASE Withhold(k)
  <2>1. /\ row' = row /\ tale' = tale /\ snd' = snd /\ pending' = pending
        /\ web' = [pc |-> "mark", job |-> k, ids |-> {}] /\ k \in idx["scheduled"]
        /\ idx' = [idx EXCEPT !["withheld"] = @ \cup {k}]
    BY <1>5 DEF Withhold, Follow, Add
  <2>2. \A n \in Names \ {"withheld"} : idx'[n] = idx[n]
    BY <1>0, <2>1
  <2>3. k \in idx'["scheduled"]
    BY <2>1, <2>2 DEF Names
  <2>4. web'.pc = "mark" /\ web'.ids = {}
    BY <2>1
  <2> QED
    BY <1>1, <2>1, <2>2, <2>3, <2>4 DEF Early
<1>6. CASE Release(k)
  <2>1. /\ row' = row /\ tale' = tale /\ snd' = snd /\ pending' = pending
        /\ idx' = [idx EXCEPT !["withheld"] = @ \ {k}] /\ web = WebIdle
    BY <1>6 DEF Release, Ask, Del
  <2>2. \A n \in Names \ {"withheld"} : idx'[n] = idx[n]
    BY <1>0, <2>1
  <2>3. \/ /\ web' = [pc |-> "restore", job |-> k, ids |-> {}]
           /\ row[k].state = "withheld"
        \/ web' = WebIdle
    BY <1>6 DEF Release, Answer, Follow
  <2>4. web'.ids = {} /\ (web'.job = k => web'.pc = "restore" /\ row'[k].state = "withheld")
    BY <1>2, <2>1, <2>3
  <2>5. row[k].state = "pending" => k \in idx'["scheduled"]
    BY <2>1, <2>2 DEF Early, WebIdle, Names
  <2> QED
    BY <1>1, <2>1, <2>2, <2>4, <2>5 DEF Early
<1>7. CASE web.job = k /\ (Move \/ Undo \/ RetryQueued)
  BY <1>7 DEF Move, Undo, RetryQueued, Early
<1>8. CASE web.job = k /\ MarkWithheld
  <2>1. /\ web.pc = "mark" /\ web' = [pc |-> "take", job |-> k, ids |-> {}]
        /\ snd' = snd /\ pending' = pending /\ idx' = idx
        /\ row' = [row EXCEPT ![k].state = "withheld"]
    BY <1>8 DEF MarkWithheld, Follow
  <2>2. row'[k].state = "withheld"
    BY <1>0, <2>1 DEF Row
  <2>3. k \in idx["scheduled"]
    BY <1>8, <2>1 DEF Early
  <2>4. web'.pc = "take" /\ web'.ids = {}
    BY <2>1
  <2>5. tale'[k].accepted = tale[k].accepted
    BY <1>8, MarkedTale DEF Sound, SameHistory
  <2> QED
    BY <1>1, <2>1, <2>2, <2>3, <2>4, <2>5
<1>9. CASE web.job = k /\ TakeOut
  <2>1. web.pc = "take" /\ k \in idx["scheduled"] /\ row[k].state # "pending"
    BY <1>9 DEF TakeOut, Early
  <2>2. /\ web' = WebIdle /\ row' = row /\ snd' = snd /\ pending' = pending
        /\ Del("scheduled", k) /\ tale' = tale
    BY <1>9, <2>1 DEF TakeOut, Answer
  <2>3. \A n \in Names : idx'[n] \subseteq idx[n]
    BY <1>0, <2>2 DEF Del
  <2>4. tale'[k].accepted = tale[k].accepted
    BY <1>0, <2>2 DEF Tale
  <2> QED
    BY <1>1, <1>2, <2>1, <2>2, <2>3, <2>4 DEF Early
<1>10. CASE web.job = k /\ Restore
  <2>1. /\ row' = [row EXCEPT ![k] = Mark(@, "pending")] /\ Follow("relist", k)
        /\ tale' = [tale EXCEPT ![k].taken = FALSE, ![k].again = @ + 1]
        /\ snd' = snd /\ pending' = pending /\ idx' = idx
    BY <1>10 DEF Restore
  <2>2. row'[k] = Mark(row[k], "pending")
    BY <1>0, <2>1
  <2>3. row'[k].state = "pending" /\ row'[k].updated = "fresh"
    BY <1>0, <2>2 DEF Mark, Row
  <2>4. tale'[k].accepted = tale[k].accepted
    BY <1>0, <2>1 DEF Tale
  <2>5. web'.pc = "relist" /\ web'.job = k /\ web'.ids = {}
    BY <2>1 DEF Follow
  <2> QED
    BY <1>1, <2>1, <2>3, <2>4, <2>5
<1>11. CASE web.job = k /\ Relist
  <2>1. /\ row' = row /\ tale' = tale /\ snd' = snd /\ pending' = pending /\ web' = WebIdle
        /\ idx' = [idx EXCEPT !["scheduled"] = @ \cup {k}]
    BY <1>11 DEF Relist, Add, Answer
  <2>2. \A n \in Names \ {"scheduled"} : idx'[n] = idx[n]
    BY <1>0, <2>1
  <2>3. k \in idx'["scheduled"]
    BY <1>0, <2>1 DEF Names
  <2> QED
    BY <1>1, <1>2, <2>1, <2>2, <2>3 DEF Early
<1> QED
  BY <1>3, <1>4, <1>5, <1>6, <1>7, <1>8, <1>9, <1>10, <1>11 DEF WebStep

LEMMA TimeNext ==
  ASSUME Sound, QueuedFirst, ~SlowSend, "reschedule" \notin Asks, TimeInv, [Next]_vars
  PROVE  TimeInv'
<1>1. web'.pc # "move"
  BY NothingMoves DEF TimeInv
<1>2. SUFFICES ASSUME NEW k \in Jobs, k \notin due' PROVE Early(k)'
  BY <1>1 DEF TimeInv
<1>0. /\ row \in [Jobs -> Row] /\ tale \in [Jobs -> Tale] /\ row[k] \in Row /\ tale[k] \in Tale
      /\ idx \in [Names -> SUBSET Jobs]
  BY DEF Sound, RowOK, TaleOK, ListOK
<1>3. ASSUME k \notin due PROVE Early(k)
  BY <1>3 DEF TimeInv
<1>4. CASE Kept(k)
  <2>1. Early(k)
    BY <1>2, <1>3, <1>4 DEF Kept
  <2>2. \A s \in Senders : snd'[s].job # k
    BY <1>4, <2>1 DEF Kept, SndKept, Early
  <2>3. web'.job = k => web' = web
    BY <1>4 DEF Kept
  <2>4. \A n \in Names : k \in idx'[n] <=> k \in idx[n]
    BY <1>4 DEF Kept
  <2>5. web.job = k => web' = web
    BY <1>4 DEF Kept
  <2>6. ~InPending(k)' /\ k \notin web'.ids /\ row'[k] = row[k] /\ tale'[k] = tale[k]
    BY <1>4, <2>1 DEF Kept, Early
  <2> QED
    BY <2>1, <2>2, <2>3, <2>4, <2>5, <2>6 DEF Early, Names
<1>5. CASE Enqueue(k)
  <2>1. Nowhere(k)
    BY <1>5 DEF Enqueue, QueuedFirst
  <2>2. /\ row' = [row EXCEPT ![k] = NewRow] /\ tale' = [tale EXCEPT ![k].queued = TRUE]
        /\ idx' = [idx EXCEPT !["scheduled"] = @ \cup {k}]
        /\ pending' = pending /\ snd' = snd /\ web' = web
    BY <1>2, <1>5 DEF Enqueue, Add
  <2>3. row'[k].state = "pending"
    BY <1>0, <2>2 DEF NewRow, NoRow
  <2>4. tale'[k].accepted = 0
    BY <1>0, <2>1, <2>2 DEF Nowhere, NoTale, Tale
  <2>5. k \in idx'["scheduled"] /\ \A n \in Names \ {"scheduled"} : idx'[n] = idx[n]
    BY <1>0, <2>2 DEF Names
  <2> QED
    BY <2>1, <2>2, <2>3, <2>4, <2>5 DEF Early, Nowhere, InPending
<1>6. CASE ClockStep(k)
  <2>1. /\ tale' = tale /\ pending' = pending /\ idx' = idx /\ snd' = snd /\ web' = web
    BY <1>6 DEF ClockStep, Time, SendTime, Ripen, Age, Expire
  <2>2. Early(k)
    BY <1>2, <1>3, <1>6 DEF ClockStep, Time, SendTime, Ripen, Age, Expire
  <2>3. \/ row'[k] = [row[k] EXCEPT !.ripe = TRUE]
        \/ Age(k)
        \/ row'[k] = NoRow /\ Quiet(k)
    BY <1>0, <1>2, <1>6 DEF ClockStep, Time, SendTime, Ripen, Expire
  <2>4. \/ row'[k].state = row[k].state /\ row'[k].updated = row[k].updated
        \/ row'[k].state = row[k].state /\ Quiet(k)
        \/ row'[k].state = "none"
    <3>1. CASE row'[k] = [row[k] EXCEPT !.ripe = TRUE]
      BY <1>0, <3>1 DEF Row
    <3>2. CASE Age(k)
      BY <1>0, <3>2 DEF Age, Row
    <3> QED
      BY <2>3, <3>1, <3>2 DEF NoRow
  <2> QED
    BY <2>1, <2>2, <2>4 DEF Early, InPending, Quiet
<1>7. ASSUME NEW s \in Senders, SenderStep(s, k) PROVE Early(k)'
  <2>1. due' = due
    BY <1>7, SenderDue
  <2> QED
    BY <1>2, <1>3, <1>7, <2>1, NobodySends
<1>8. CASE WebStep(k)
  <2>1. due' = due
    BY <1>8 DEF TimeInv, WebStep, Cancel, Reschedule, Withhold, Release, Retry, Unset, Move,
       MarkWithheld, TakeOut, Undo, Restore, Relist, RetryQueued, ResumeOne, store
  <2> QED
    BY <1>2, <1>3, <1>8, <2>1, EarlyWeb DEF TimeInv
<1>9. CASE ResumeEnds
  <2>1. /\ row' = row /\ tale' = tale /\ due' = due /\ pending' = pending /\ snd' = snd
        /\ web'.job = NoJob /\ web'.ids \subseteq idx["held"]
        /\ \A n \in Names : idx'[n] \subseteq idx[n] /\ (n # "held" => idx'[n] = idx[n])
    BY <1>9, ResumeEndsKeep
  <2>2. web.pc # "relist"
    BY <1>9 DEF ResumeEnds, ResumeDone, Resume, Ask, WebIdle
  <2> QED
    BY <1>2, <1>3, <2>1, <2>2, ConstantsAssumption DEF Early, InPending, Names
<1> QED
  BY <1>4, <1>5, <1>6, <1>7, <1>8, <1>9, Steps

LEMMA TimeInit == Init => TimeInv
BY ConstantsAssumption DEF Init, TimeInv, Early, InPending, Idle, WebIdle, NoRow, NoTale

\* While nobody moves a job to another time, no receiving server has one whose time
\* has not come: not through withholding and restoring it, and not through
\* a sweep that finds it pending and in no index (promote_due, withhold, release,
\* requeue_unindexed).
THEOREM NoneBeforeItsTime ==
  ASSUME ~SlowSend, "reschedule" \notin Asks
  PROVE  Spec => []NotBeforeItsTime
<1> DEFINE TimeIInv == Sound /\ QueuedFirst /\ TimeInv
<1>1. Init => TimeIInv
  BY SoundInit, QueuedInit, TimeInit
<1>2. TimeIInv /\ [Next]_vars => TimeIInv'
  BY SoundNext, QueuedNext, TimeNext
<1>3. TimeIInv => NotBeforeItsTime
  BY DEF TimeInv, Early, NotBeforeItsTime
<1> QED
  BY <1>1, <1>2, <1>3, PTL DEF Spec

-----------------------------------------------------------------------------
(* A job its account's delete has: marked, and in the hands of nobody who     *)
(* could write another state over the mark.                                   *)

Withheld(k) ==
  tale[k].taken =>
    /\ row[k].state \in {"withheld", "none"}
    /\ \A s \in Senders : ~AtWork(s, k)
    /\ web.job = k => web.pc # "undo"

\* The senders: one that has the job is promoting it, looking for it, or about
\* to try a claim that its state does not grant.
LEMMA WithheldSender ==
  ASSUME Sound, NEW k \in Jobs, Withheld(k), tale[k].taken,
         NEW s \in Senders, SenderStep(s, k)
  PROVE  /\ row'[k].state \in {"withheld", "none"} /\ web' = web
         /\ snd'[s].job = k => snd'[s].pc \notin Holding \cup Settling
         /\ \A t \in Senders \ {s} : snd'[t] = snd[t]
<1>0. /\ row[k].state \in {"withheld", "none"} /\ row \in [Jobs -> Row] /\ row[k] \in Row
      /\ \A t \in Senders : ~AtWork(t, k)
      /\ snd \in [Senders -> [pc : Pcs, job : Jobs \cup {NoJob}, tries : Nat]]
  BY DEF Withheld, Sound, RowOK, SndOK
<1>1. /\ \A p, j : Take(s, p, j) => snd'[s].pc = p /\ \A t \in Senders \ {s} : snd'[t] = snd[t]
      /\ \A p : Goto(s, p) => snd'[s].pc = p /\ \A t \in Senders \ {s} : snd'[t] = snd[t]
      /\ Rest(s) => snd'[s].pc = "idle" /\ \A t \in Senders \ {s} : snd'[t] = snd[t]
  BY <1>0 DEF Take, Goto, Rest, Idle
<1>2. ASSUME Pop(s) \/ FindDue(s, k) \/ Look(s, k)
      PROVE  /\ row' = row /\ web' = web /\ snd'[s].pc \in {"popped"} \cup Sweeping
             /\ \A t \in Senders \ {s} : snd'[t] = snd[t]
  BY <1>1, <1>2 DEF Pop, FindDue, Look, store, Sweeping
<1>3. ~ResetStale(s, k)
  BY <1>0 DEF ResetStale, LeftBehind
<1>4. ASSUME DropHeld(s, k)
      PROVE  row'[k].state = "none" /\ web' = web /\ snd' = snd
  BY <1>0, <1>4 DEF DropHeld, NoRow
<1>5. ASSUME snd[s].job = k, OneJob(s), ~Pop(s)
      PROVE  SkipClaim(s)
  <2>1. snd[s].pc \notin Holding \cup Settling /\ ~Claimable(k)
    BY <1>0, <1>5 DEF AtWork, Claimable
  <2> QED
    BY <1>5, <2>1 DEF OneJob, At, Claim, Load, Check, Hold, ListHeld, Accept, Bounce, Defer,
       Deliver, RecordFailure, Fail, Park, Unclaim, ListRetry, Refill, Requeue, Holding, Settling
<1>6. ASSUME snd[s].job = k, Trouble(s)
      PROVE  Stop(s)
  <2>1. snd[s].pc \notin Holding \cup Settling
    BY <1>0, <1>6 DEF AtWork
  <2> QED
    BY <1>6, <2>1 DEF Trouble, At, LoadFails, CheckFails, Holding, Settling
<1>7. ASSUME SkipClaim(s) \/ Stop(s) \/ Promoted(s) \/ Report(s)
      PROVE  /\ row' = row /\ web' = web /\ snd'[s].pc = "idle"
             /\ \A t \in Senders \ {s} : snd'[t] = snd[t]
  BY <1>1, <1>7 DEF SkipClaim, Stop, Promoted, Report, store
<1>8. ASSUME snd[s].job = k, PutBack(s)
      PROVE  /\ row' = row /\ web' = web /\ snd'[s].pc = "idle"
             /\ \A t \in Senders \ {s} : snd'[t] = snd[t]
  BY <1>0, <1>1, <1>8 DEF PutBack
<1>9. ASSUME Promote(s)
      PROVE  /\ row' = row /\ web' = web /\ snd'[s].pc \in Sweeping
             /\ \A t \in Senders \ {s} : snd'[t] = snd[t]
  BY <1>1, <1>9 DEF Promote, Sweeping
<1>10. ({"popped", "idle"} \cup Sweeping) \cap (Holding \cup Settling) = {}
  BY DEF Sweeping, Holding, Settling
<1>11. CASE DropHeld(s, k)
  BY <1>0, <1>4, <1>11 DEF AtWork
<1>12. CASE ~DropHeld(s, k)
  <2>1. /\ row' = row /\ web' = web /\ snd'[s].pc \in {"popped", "idle"} \cup Sweeping
        /\ \A t \in Senders \ {s} : snd'[t] = snd[t]
    BY <1>2, <1>3, <1>5, <1>6, <1>7, <1>8, <1>9, <1>12 DEF SenderStep
  <2> QED
    BY <1>0, <1>10, <2>1
<1> QED
  BY <1>11, <1>12

\* The requests: the mark goes only with the row, or for a person who has the
\* job sent.
LEMMA WithheldWeb ==
  ASSUME Sound, Sound', NEW k \in Jobs, Withheld(k), WebStep(k), tale'[k].taken
  PROVE  Withheld(k)'
<1>0. /\ row \in [Jobs -> Row] /\ tale \in [Jobs -> Tale] /\ row[k] \in Row /\ tale[k] \in Tale
      /\ web \in [pc : WebPcs, job : Jobs \cup {NoJob}, ids : SUBSET Jobs]
  BY DEF Sound, RowOK, TaleOK, WebOK
<1>1. ASSUME tale[k].taken, row'[k].state \in {row[k].state, "none", "withheld"}, snd' = snd,
             web'.job = k => web'.pc # "undo"
      PROVE  Withheld(k)'
  BY <1>1 DEF Withheld, AtWork
<1>2. web' = WebIdle => web'.job # k
  BY ConstantsAssumption DEF WebIdle
<1>3. CASE Cancel(k)
  <2>1. row'[k].state = "none" /\ snd' = snd /\ web' = WebIdle /\ tale'[k].taken = tale[k].taken
    BY <1>0, <1>3 DEF Cancel, Ask, NoRow, Tale
  <2> QED
    BY <1>1, <1>2, <2>1
<1>4. CASE Reschedule(k) \/ Withhold(k) \/ Release(k) \/ Retry(k)
  <2>1. row' = row /\ tale' = tale /\ snd' = snd /\ (web' = WebIdle \/ web'.pc # "undo")
    BY <1>4 DEF Reschedule, Withhold, Release, Retry, Follow, Answer
  <2> QED
    BY <1>1, <1>2, <2>1
<1>5. CASE Unset(k)
  <2>1. tale'[k].taken = tale[k].taken /\ row[k].state = "set_aside"
    BY <1>0, <1>5 DEF Unset, Tale
  <2> QED
    BY <2>1 DEF Withheld
<1>6. CASE web.job = k /\ (Move \/ Relist)
  <2>1. row' = row /\ tale' = tale /\ snd' = snd /\ web' = WebIdle
    BY <1>6 DEF Move, Relist, Answer
  <2> QED
    BY <1>1, <1>2, <2>1
<1>7. CASE web.job = k /\ MarkWithheld
  <2>1. /\ row' = [row EXCEPT ![k].state = "withheld"] /\ snd' = snd
        /\ web' = [pc |-> "take", job |-> k, ids |-> {}]
    BY <1>7 DEF MarkWithheld, Follow
  <2>2. row'[k].state = "withheld"
    BY <1>0, <2>1 DEF Row
  <2>3. \A s \in Senders : ~AtWork(s, k)
    BY <1>7, MarkedTale DEF Sound
  <2> QED
    BY <2>1, <2>2, <2>3 DEF Withheld, AtWork
<1>8. CASE web.job = k /\ TakeOut
  <2>1. row' = row /\ snd' = snd
    BY <1>8 DEF TakeOut
  <2>2. tale' = tale
    BY <1>8, TakeOutTale DEF Sound
  <2>3. web' = WebIdle
    <3>1. CASE k \in idx["scheduled"]
      BY <1>8, <3>1 DEF TakeOut, Answer
    <3>2. CASE k \notin idx["scheduled"]
      <4>1. tale' = [tale EXCEPT ![k].taken = FALSE]
        BY <1>8, <3>2 DEF TakeOut
      <4> QED
        BY <1>0, <4>1 DEF Tale
    <3> QED
      BY <3>1, <3>2
  <2> QED
    BY <1>1, <1>2, <2>1, <2>2, <2>3
<1>9. CASE web.job = k /\ Undo
  <2>1. ~tale[k].taken
    BY <1>9 DEF Undo, Withheld
  <2>2. tale'[k].taken = tale[k].taken
    <3>1. tale' = tale \/ tale'[k] = [tale[k] EXCEPT !.again = @ + 1]
      BY <1>0, <1>9 DEF Undo
    <3> QED
      BY <1>0, <3>1 DEF Tale
  <2> QED
    BY <2>1, <2>2
<1>10. CASE web.job = k /\ Restore
  <2>1. CASE tale' = [tale EXCEPT ![k].taken = FALSE, ![k].again = @ + 1]
    BY <1>0, <2>1 DEF Tale
  <2>2. CASE /\ row' = [row EXCEPT ![k] = NoRow] /\ Answer
             /\ tale' = [tale EXCEPT ![k].ended = TRUE]
    <3>1. row'[k].state = "none" /\ tale'[k].taken = tale[k].taken
      BY <1>0, <2>2 DEF NoRow, Tale
    <3> QED
      BY <1>1, <1>2, <1>10, <2>2, <3>1 DEF Restore, Answer
  <2> QED
    BY <1>10, <2>1, <2>2 DEF Restore
<1>11. ASSUME Again(k)
       PROVE  row' = row /\ tale' = tale
  BY <1>0, <1>11 DEF Again, Tale
<1>12. CASE web.job = k /\ RetryQueued
  BY <1>1, <1>2, <1>11, <1>12 DEF RetryQueued, Answer
<1>13. CASE ResumeOne(k)
  <2>1. snd' = snd /\ web'.pc = web.pc /\ web.pc # "undo"
    BY <1>0, <1>13 DEF ResumeOne, Sound, WebOK
  <2>2. CASE Again(k)
    BY <1>1, <1>11, <2>1, <2>2
  <2>3. CASE row' = [row EXCEPT ![k] = NoRow] /\ tale' = [tale EXCEPT ![k].ended = TRUE]
    <3>1. row'[k].state = "none" /\ tale'[k].taken = tale[k].taken
      BY <1>0, <2>3 DEF NoRow, Tale
    <3> QED
      BY <1>1, <2>1, <3>1
  <2> QED
    BY <1>13, <2>2, <2>3 DEF ResumeOne
<1> QED
  BY <1>3, <1>4, <1>5, <1>6, <1>7, <1>8, <1>9, <1>10, <1>12, <1>13 DEF WebStep

LEMMA WithheldNext ==
  ASSUME Sound, Sound', QueuedFirst, [Next]_vars, NEW k \in Jobs, Withheld(k)
  PROVE  Withheld(k)'
<1>0. /\ row \in [Jobs -> Row] /\ tale \in [Jobs -> Tale] /\ row[k] \in Row /\ tale[k] \in Tale
  BY DEF Sound, RowOK, TaleOK
<1>1. CASE Kept(k)
  BY <1>1 DEF Kept, SndKept, Withheld, AtWork
<1>2. CASE Enqueue(k)
  <2>1. ~tale[k].taken
    BY <1>2 DEF Enqueue, QueuedFirst, Nowhere, NoTale
  <2>2. tale'[k].taken = tale[k].taken
    BY <1>0, <1>2 DEF Enqueue, Tale
  <2> QED
    BY <2>1, <2>2 DEF Withheld
<1>3. CASE ClockStep(k)
  <2>1. tale' = tale /\ snd' = snd /\ web' = web
    BY <1>3 DEF ClockStep, Time, SendTime, Ripen, Age, Expire
  <2>2. row'[k].state \in {row[k].state, "none"}
    BY <1>0, <1>3 DEF ClockStep, Time, SendTime, Ripen, Age, Expire, Row, NoRow
  <2> QED
    BY <2>1, <2>2 DEF Withheld, AtWork
<1>4. ASSUME NEW s \in Senders, SenderStep(s, k) PROVE Withheld(k)'
  <2>1. tale'[k].taken => tale[k].taken
    <3>1. CASE DropHeld(s, k) \/ Accept(s) \/ Deliver(s) \/ Fail(s) \/ Stop(s)
      BY <1>0, <3>1 DEF DropHeld, Accept, Deliver, Fail, Stop, Tale
    <3>2. \/ DropHeld(s, k) \/ Accept(s) \/ Deliver(s) \/ Fail(s) \/ Stop(s)
          \/ UNCHANGED tale
      BY <1>4 DEF SenderStep, OneJob, Trouble, Pop, Claim, SkipClaim, Load, Check, Hold, ListHeld,
         Bounce, Defer, RecordFailure, Park, Unclaim, ListRetry, Refill, Requeue, LoadFails,
         CheckFails, Promote, Promoted, Report, PutBack, FindDue, ResetStale, Look
    <3> QED
      BY <3>1, <3>2
  <2>2. CASE tale[k].taken
    <3>1. /\ row'[k].state \in {"withheld", "none"} /\ web' = web
          /\ snd'[s].job = k => snd'[s].pc \notin Holding \cup Settling
          /\ \A t \in Senders \ {s} : snd'[t] = snd[t]
      BY <1>4, <2>2, WithheldSender
    <3>2. \A t \in Senders : ~AtWork(t, k)'
      BY <2>2, <3>1 DEF Withheld, AtWork
    <3> QED
      BY <2>2, <3>1, <3>2 DEF Withheld
  <2> QED
    BY <2>1, <2>2 DEF Withheld
<1>5. CASE WebStep(k)
  BY <1>5, WithheldWeb DEF Withheld
<1>6. CASE ResumeEnds
  BY <1>6, ResumeEndsKeep, ConstantsAssumption DEF Withheld, AtWork
<1> QED
  BY <1>1, <1>2, <1>3, <1>4, <1>5, <1>6, Steps

\* A step that gives the job back leaves it for somebody to claim later.
LEMMA WithheldFreed ==
  ASSUME Sound, Sound', [Next]_vars, NEW k \in Jobs, Withheld(k), tale[k].taken, ~tale'[k].taken
  PROVE  row'[k].state # "inflight"
<1>0. /\ row \in [Jobs -> Row] /\ tale \in [Jobs -> Tale] /\ row[k] \in Row /\ tale[k] \in Tale
      /\ row[k].state # "inflight"
  BY DEF Sound, RowOK, TaleOK, Withheld
<1>1. CASE Kept(k) \/ ResumeEnds
  BY <1>1, ResumeEndsKeep DEF Kept
<1>2. CASE Enqueue(k)
  BY <1>0, <1>2 DEF Enqueue, Tale
<1>3. CASE ClockStep(k)
  BY <1>3 DEF ClockStep, Time, SendTime, Ripen, Age, Expire
<1>4. ASSUME NEW s \in Senders, SenderStep(s, k) PROVE row'[k].state # "inflight"
  BY <1>4, WithheldSender
<1>5. CASE WebStep(k)
  <2>1. CASE Cancel(k) \/ Reschedule(k) \/ Withhold(k) \/ Release(k) \/ Retry(k) \/ Unset(k)
    BY <1>0, <2>1 DEF Tale, Cancel, Reschedule, Withhold, Release, Retry, Unset
  <2>2. CASE web.job = k /\ (Move \/ TakeOut \/ Relist \/ Undo)
    BY <1>0, <2>2 DEF Tale, Move, TakeOut, Relist, Undo
  <2>3. CASE web.job = k /\ MarkWithheld
    BY <1>0, <2>3 DEF MarkWithheld, Row
  <2>0. Mark(row[k], "pending").state = "pending" /\ NoRow.state = "none"
    BY <1>0 DEF Mark, NoRow, Row
  <2>4. CASE web.job = k /\ Restore
    <3>1. row'[k] = Mark(row[k], "pending") \/ row'[k] = NoRow
      BY <1>0, <2>4 DEF Restore
    <3> QED
      BY <2>0, <3>1
  <2>5. CASE Again(k)
    <3>1. row'[k] = Mark(row[k], "pending") \/ row' = row
      BY <1>0, <2>5 DEF Again
    <3> QED
      BY <1>0, <2>0, <3>1
  <2>6. CASE row' = [row EXCEPT ![k] = NoRow] /\ tale' = [tale EXCEPT ![k].ended = TRUE]
    BY <1>0, <2>6 DEF NoRow
  <2> QED
    BY <1>5, <2>1, <2>2, <2>3, <2>4, <2>5, <2>6 DEF WebStep, RetryQueued, ResumeOne
<1> QED
  BY <1>1, <1>2, <1>3, <1>4, <1>5, Steps

WithheldIInv == Sound /\ QueuedFirst /\ \A k \in Jobs : Withheld(k)

\* Once the account's delete has marked a job that no sender is at work on, none
\* claims it until a person has it sent: for any senders, however slow, whoever
\* stops, and whatever people ask for (withhold, try_claim, requeue_unindexed).
THEOREM DeleteHolds == Spec => WithheldStaysUnclaimed
<1>1. Init => WithheldIInv
  BY SoundInit, QueuedInit DEF Init, WithheldIInv, Withheld, NoTale
<1>2. WithheldIInv /\ [Next]_vars => WithheldIInv'
  BY SoundNext, QueuedNext, WithheldNext DEF WithheldIInv
<1>3. WithheldIInv /\ WithheldIInv' /\ [Next]_vars
        => [\A j \in Jobs : tale[j].taken => row'[j].state # "inflight"]_vars
  <2>1. ASSUME WithheldIInv, WithheldIInv', [Next]_vars, NEW j \in Jobs, tale[j].taken
        PROVE  row'[j].state # "inflight"
    <3>1. tale'[j].taken => row'[j].state # "inflight"
      BY <2>1 DEF WithheldIInv, Withheld
    <3>2. ~tale'[j].taken => row'[j].state # "inflight"
      BY <2>1, WithheldFreed DEF WithheldIInv
    <3> QED
      BY <3>1, <3>2
  <2> QED
    BY <2>1
<1>4. Spec => []WithheldIInv
  BY <1>1, <1>2, PTL DEF Spec
<1> QED
  BY <1>3, <1>4, PTL DEF Spec, WithheldStaysUnclaimed

-----------------------------------------------------------------------------
(* What a lone sender leaves of a job that still has to be decided: where it  *)
(* is kept, and what of its row somebody will look for.                       *)

Awaited(k) == tale[k].queued /\ ~tale[k].cancelled /\ ~tale[k].ended

\* No read of a claimed job fails, so no filler is written over a message.
NoFiller == spare["blips"] = 0 /\ \A s \in Senders : snd[s].pc \notin {"refill", "refilled"}

Findable(k) ==
  /\ row[k].expires => tale[k].ended
  /\ Awaited(k) => row[k].blob = "message"
  /\ row[k].state = "inflight" =>
       row[k].claimed # "none" /\ \A s \in Senders : ~(snd[s].job = k /\ snd[s].pc = "parked")
  /\ Awaited(k) /\ row[k].state = "withheld" =>
       k \in idx["withheld"] \/ (web.job = k /\ web.pc \in {"undo", "restore"})
  /\ row[k].state = "set_aside" => k \in idx["set_aside"]
  /\ web.job = k /\ web.pc \in {"mark", "take"} => k \in idx["withheld"]

\* Nothing that a job has come to is undone, and only queueing makes it live.
LEMMA EndStays ==
  ASSUME Sound, NEW k \in Jobs,
         ClockStep(k) \/ (\E s \in Senders : SenderStep(s, k)) \/ WebStep(k)
  PROVE  (tale[k].ended => tale'[k].ended) /\ (Awaited(k)' => Awaited(k))
<1>0. tale \in [Jobs -> Tale] /\ tale[k] \in Tale
  BY DEF Sound, TaleOK
<1> DEFINE Stays == /\ tale'[k].queued = tale[k].queued
                    /\ tale[k].ended => tale'[k].ended
                    /\ tale[k].cancelled => tale'[k].cancelled
<1> SUFFICES Stays
  BY DEF Awaited
<1>1. CASE ClockStep(k)
  BY <1>1 DEF ClockStep, Time, SendTime, Ripen, Age, Expire
<1>2. ASSUME NEW s \in Senders, SenderStep(s, k) PROVE Stays
  <2>1. CASE DropHeld(s, k) \/ Accept(s) \/ Deliver(s) \/ Fail(s) \/ Stop(s)
    BY <1>0, <2>1 DEF DropHeld, Accept, Deliver, Fail, Stop, Tale
  <2>2. \/ DropHeld(s, k) \/ Accept(s) \/ Deliver(s) \/ Fail(s) \/ Stop(s)
        \/ UNCHANGED tale
    BY <1>2 DEF SenderStep, OneJob, Trouble, Pop, Claim, SkipClaim, Load, Check, Hold, ListHeld,
       Bounce, Defer, RecordFailure, Park, Unclaim, ListRetry, Refill, Requeue, LoadFails,
       CheckFails, Promote, Promoted, Report, PutBack, FindDue, ResetStale, Look
  <2> QED
    BY <2>1, <2>2
<1>3. CASE WebStep(k)
  <2>1. CASE Cancel(k) \/ Reschedule(k) \/ Withhold(k) \/ Release(k) \/ Retry(k) \/ Unset(k)
    BY <1>0, <2>1 DEF Tale, Cancel, Reschedule, Withhold, Release, Retry, Unset
  <2>2. CASE web.job = k /\ (Move \/ Undo \/ Restore \/ Relist)
    BY <1>0, <2>2 DEF Tale, Move, Undo, Restore, Relist
  <2>3. CASE web.job = k /\ (MarkWithheld \/ TakeOut)
    BY <2>3, MarkedTale, TakeOutTale DEF Sound, SameHistory
  <2>4. CASE (web.job = k /\ RetryQueued) \/ ResumeOne(k)
    BY <1>0, <2>4 DEF Tale, RetryQueued, ResumeOne, Again
  <2> QED
    BY <1>3, <2>1, <2>2, <2>3, <2>4 DEF WebStep
<1> QED
  BY <1>1, <1>2, <1>3

LEMMA FillerNext ==
  ASSUME Sound, NoFiller, [Next]_vars
  PROVE  NoFiller'
<1>0. /\ spare["blips"] = 0 /\ spare \in [{"stops", "asks", "blips"} -> Nat]
      /\ snd \in [Senders -> [pc : Pcs, job : Jobs \cup {NoJob}, tries : Nat]]
  BY DEF NoFiller, Sound, TaleOK, SndOK
<1>1. /\ ~Spend("blips")
      /\ \A b \in {"stops", "asks"} : Spend(b) => spare'["blips"] = 0
  BY <1>0 DEF Spend
<1>2. ASSUME snd' = snd, spare' = spare \/ \E b \in {"stops", "asks"} : Spend(b)
      PROVE  NoFiller'
  BY <1>1, <1>2 DEF NoFiller
<1>3. ASSUME NEW s \in Senders, spare' = spare \/ Spend("stops"),
             \/ UNCHANGED snd \/ Rest(s)
             \/ \E p \in Pcs \ {"refill", "refilled"} :
                  \/ Goto(s, p) \/ \E j : Take(s, p, j)
                  \/ snd' = [snd EXCEPT ![s].pc = p, ![s].tries = snd'[s].tries]
      PROVE  NoFiller'
  <2>1. snd'[s].pc \notin {"refill", "refilled"} /\ \A t \in Senders \ {s} : snd'[t] = snd[t]
    <3>1. CASE UNCHANGED snd \/ Rest(s)
      BY <1>0, <3>1 DEF Rest, Idle, NoFiller
    <3>2. ASSUME NEW p \in Pcs \ {"refill", "refilled"}, Goto(s, p)
          PROVE  /\ snd'[s].pc \notin {"refill", "refilled"}
                 /\ \A t \in Senders \ {s} : snd'[t] = snd[t]
      BY <1>0, <3>2 DEF Goto
    <3>3. ASSUME NEW p \in Pcs \ {"refill", "refilled"}, NEW j, Take(s, p, j)
          PROVE  /\ snd'[s].pc \notin {"refill", "refilled"}
                 /\ \A t \in Senders \ {s} : snd'[t] = snd[t]
      BY <1>0, <3>3 DEF Take
    <3>4. ASSUME NEW p \in Pcs \ {"refill", "refilled"},
                 snd' = [snd EXCEPT ![s].pc = p, ![s].tries = snd'[s].tries]
          PROVE  /\ snd'[s].pc \notin {"refill", "refilled"}
                 /\ \A t \in Senders \ {s} : snd'[t] = snd[t]
      <4> DEFINE n == snd'[s].tries
      <4>1. snd' = [snd EXCEPT ![s].pc = p, ![s].tries = n]
        BY <3>4
      <4> HIDE DEF n
      <4> QED
        BY <1>0, <4>1
    <3> QED
      BY <1>3, <3>1, <3>2, <3>3, <3>4
  <2>2. spare'["blips"] = 0
    BY <1>0, <1>1, <1>3
  <2> QED
    BY <2>1, <2>2 DEF NoFiller
<1>4. CASE UNCHANGED vars
  BY <1>2, <1>4 DEF vars
<1>5. ASSUME NEW j \in Jobs, Enqueue(j) \/ Time(j) \/ Expire(j) PROVE NoFiller'
  BY <1>2, <1>5 DEF Enqueue, Time, SendTime, Ripen, Age, Expire
<1>6. ASSUME NEW s \in Senders, OneJob(s) PROVE NoFiller'
  <2>1. ~Refill(s) /\ ~Requeue(s)
    BY DEF Refill, Requeue, At, NoFiller
  <2>2. CASE Pop(s) \/ Claim(s) \/ SkipClaim(s) \/ Check(s) \/ Hold(s) \/ ListHeld(s)
    BY <1>3, <2>2 DEF Pop, Claim, SkipClaim, Check, Hold, ListHeld, store, Pcs, Holding, Settling
  <2>3. CASE Load(s)
    <3>1. \/ Rest(s) \/ Goto(s, "fail")
          \/ \E p \in {"check", "park"} : \E n : snd' = [snd EXCEPT ![s].pc = p, ![s].tries = n]
      BY <2>3 DEF Load
    <3>2. \A p, n : snd' = [snd EXCEPT ![s].pc = p, ![s].tries = n] => snd'[s].tries = n
      BY <1>0
    <3> QED
      BY <1>3, <2>3, <3>1, <3>2 DEF Load, store, Pcs, Holding, Settling
  <2>4. CASE Accept(s) \/ Bounce(s) \/ Deliver(s) \/ RecordFailure(s) \/ Fail(s)
    BY <1>3, <2>4 DEF Accept, Bounce, Deliver, RecordFailure, Fail, Pcs, Holding, Settling
  <2>5. CASE Defer(s)
    <3>1. snd' = [snd EXCEPT ![s].pc = "park", ![s].tries = snd'[s].tries]
      BY <1>0, <2>5 DEF Defer
    <3> QED
      BY <1>3, <2>5, <3>1 DEF Defer, Pcs, Settling
  <2>6. CASE Park(s) \/ Unclaim(s) \/ ListRetry(s)
    BY <1>3, <2>6 DEF Park, Unclaim, ListRetry, Pcs, Holding, Settling
  <2> QED
    BY <1>6, <2>1, <2>2, <2>3, <2>4, <2>5, <2>6 DEF OneJob
<1>7. ASSUME NEW s \in Senders, Housekeeping(s) \/ \E j \in Jobs : DropHeld(s, j)
      PROVE  NoFiller'
  <2>1. \A p \in Sweeping : p \in Pcs \ {"refill", "refilled"}
    BY DEF Pcs, Sweeping
  <2>2. CASE Promote(s)
    BY <1>3, <2>1, <2>2 DEF Promote, Sweeping
  <2>3. CASE Promoted(s) \/ Report(s) \/ PutBack(s)
    BY <1>3, <2>3 DEF Promoted, Report, PutBack
  <2>4. ASSUME NEW j \in Jobs, FindDue(s, j) \/ ResetStale(s, j) \/ Look(s, j) PROVE NoFiller'
    <3>1. /\ UNCHANGED spare
          /\ UNCHANGED snd \/ \E p \in Sweeping : Take(s, p, j)
      BY <2>4 DEF FindDue, ResetStale, Look, Sweeping
    <3> QED
      BY <1>3, <2>1, <3>1
  <2>5. ASSUME NEW j \in Jobs, DropHeld(s, j) PROVE NoFiller'
    BY <1>2, <2>5 DEF DropHeld
  <2> QED
    BY <1>7, <2>2, <2>3, <2>4, <2>5 DEF Housekeeping
<1>8. ASSUME NEW s \in Senders, Trouble(s) PROVE NoFiller'
  BY <1>1, <1>3, <1>8 DEF Trouble, LoadFails, CheckFails, Stop, Pcs, Holding
<1>9. CASE Asked \/ Served
  <2>1. snd' = snd /\ (spare' = spare \/ Spend("asks"))
    BY <1>9 DEF Asked, Cancel, Reschedule, Withhold, Release, Retry, Unset, Resume, Ask, Served,
       Move, MarkWithheld, TakeOut, Undo, Restore, Relist, RetryQueued, ResumeDone, ResumeOne
  <2> QED
    BY <1>2, <2>1
<1> QED
  BY <1>4, <1>5, <1>6, <1>7, <1>8, <1>9 DEF Next

\* What a transition of a row makes of the fields the properties ask about.
LEMMA MarkFields ==
  ASSUME NEW r \in Row, NEW st \in States
  PROVE  /\ Mark(r, st).state = st /\ Mark(r, st).blob = r.blob
         /\ Mark(r, st).claimed = r.claimed /\ Mark(r, st).expires = r.expires
BY DEF Mark, Row

LEMMA NoRowFields ==
  /\ NoRow.state = "none" /\ NoRow.blob = "none" /\ ~NoRow.expires
  /\ NewRow.state = "pending" /\ NewRow.blob = "message" /\ ~NewRow.expires
BY DEF NoRow, NewRow

\* A row that a step leaves for people to find, or that it has done with.
Kind(k) ==
  /\ row'[k].expires => row[k].expires \/ tale'[k].ended
  /\ Awaited(k)' => row'[k].blob \in {row[k].blob, "message"}
  /\ row'[k].state = "inflight" => row'[k].claimed # "none"
  /\ row'[k].state = "set_aside" => k \in idx'["set_aside"]

\* A lone sender: its steps about a job.
LEMMA FindableSender ==
  ASSUME Sound, Sound', NoFiller, NEW k \in Jobs, Findable(k), NEW s \in Senders,
         Senders = {s}, SenderStep(s, k)
  PROVE  Findable(k)'
<1>0. /\ row \in [Jobs -> Row] /\ row[k] \in Row /\ tale \in [Jobs -> Tale] /\ tale[k] \in Tale
      /\ idx \in [Names -> SUBSET Jobs]
      /\ snd \in [Senders -> [pc : Pcs, job : Jobs \cup {NoJob}, tries : Nat]]
  BY DEF Sound, RowOK, TaleOK, ListOK, SndOK
<1>1. web' = web
  BY DEF SenderStep, OneJob, Trouble, Pop, Claim, SkipClaim, Load, Check, Hold, ListHeld, Accept,
     Bounce, Defer, Deliver, RecordFailure, Fail, Park, Unclaim, ListRetry, Refill, Requeue,
     LoadFails, CheckFails, Stop, Promote, Promoted, Report, PutBack, FindDue, ResetStale, Look,
     DropHeld
<1>2. k \in idx["withheld"] => k \in idx'["withheld"]
  BY <1>0 DEF SenderStep, OneJob, Trouble, Pop, Claim, SkipClaim, Load, Check, Hold, ListHeld,
     Accept, Bounce, Defer, Deliver, RecordFailure, Fail, Park, Unclaim, ListRetry, Refill,
     Requeue, LoadFails, CheckFails, Stop, Promote, Promoted, Report, PutBack, FindDue,
     ResetStale, Look, DropHeld, Add, Del, store, Names
<1>3. k \in idx["set_aside"] => k \in idx'["set_aside"]
  BY <1>0 DEF SenderStep, OneJob, Trouble, Pop, Claim, SkipClaim, Load, Check, Hold, ListHeld,
     Accept, Bounce, Defer, Deliver, RecordFailure, Fail, Park, Unclaim, ListRetry, Refill,
     Requeue, LoadFails, CheckFails, Stop, Promote, Promoted, Report, PutBack, FindDue,
     ResetStale, Look, DropHeld, Add, Del, store, Names
<1>4. (tale[k].ended => tale'[k].ended) /\ (Awaited(k)' => Awaited(k))
  BY EndStays
<1>5. ASSUME Kind(k), row'[k].state = "withheld" => row[k].state = "withheld",
             row'[k].state = "inflight" => ~(snd'[s].job = k /\ snd'[s].pc = "parked")
      PROVE  Findable(k)'
  BY <1>1, <1>2, <1>3, <1>4, <1>5 DEF Kind, Findable, Awaited
<1>6. ASSUME row'[k] = row[k], snd' = snd \/ snd'[s].pc # "parked"
      PROVE  Findable(k)'
  BY <1>3, <1>5, <1>6 DEF Kind, Findable
<1>7. /\ \A p, j : Take(s, p, j) => snd'[s].pc = p
      /\ \A p : Goto(s, p) => snd'[s].pc = p
      /\ Rest(s) => snd'[s].pc = "idle"
      /\ \A p, n : snd' = [snd EXCEPT ![s].pc = p, ![s].tries = n] => snd'[s].pc = p
  BY <1>0 DEF Take, Goto, Rest, Idle
<1>8. CASE \/ Pop(s) \/ SkipClaim(s) \/ Check(s) \/ ListHeld(s) \/ Accept(s) \/ Bounce(s)
           \/ RecordFailure(s) \/ ListRetry(s)
  BY <1>6, <1>7, <1>8 DEF Pop, SkipClaim, Check, ListHeld, Accept, Bounce, RecordFailure,
     ListRetry, store
<1>9. CASE Load(s)
  <2>1. \/ Rest(s) \/ Goto(s, "fail")
        \/ \E p \in {"check", "park"} : \E n : snd' = [snd EXCEPT ![s].pc = p, ![s].tries = n]
    BY <1>9 DEF Load
  <2> QED
    BY <1>6, <1>7, <1>9, <2>1 DEF Load, store
<1>10. CASE Defer(s)
  <2>1. snd' = [snd EXCEPT ![s].pc = "park", ![s].tries = snd[s].tries + 1]
    BY <1>0, <1>10 DEF Defer
  <2> QED
    BY <1>6, <1>7, <1>10, <2>1 DEF Defer, store
<1>11. CASE Trouble(s) \/ Promote(s) \/ Promoted(s) \/ Report(s) \/ FindDue(s, k) \/ Look(s, k)
  BY <1>6, <1>7, <1>11 DEF Trouble, LoadFails, CheckFails, Stop, Promote, Promoted, Report,
     FindDue, Look, store
<1>12. ~Refill(s) /\ ~Requeue(s)
  BY DEF Refill, Requeue, At, NoFiller
<1>13. CASE Claim(s) /\ snd[s].job = k
  <2>1. row'[k] = [row[k] EXCEPT !.state = "inflight", !.claimed = "fresh"]
    BY <1>0, <1>13 DEF Claim
  <2>2. /\ row'[k].state = "inflight" /\ row'[k].claimed = "fresh"
        /\ row'[k].blob = row[k].blob /\ row'[k].expires = row[k].expires
    BY <1>0, <2>1 DEF Row
  <2> QED
    BY <1>5, <1>7, <1>13, <2>2 DEF Kind, Claim
<1>14. CASE Hold(s) /\ snd[s].job = k
  <2>1. row'[k] = [row[k] EXCEPT !.state = "held"]
    BY <1>0, <1>14 DEF Hold
  <2>2. /\ row'[k].state = "held"
        /\ row'[k].blob = row[k].blob /\ row'[k].expires = row[k].expires
    BY <1>0, <2>1 DEF Row
  <2> QED
    BY <1>5, <2>2 DEF Kind
<1>15. CASE (Deliver(s) \/ Fail(s)) /\ snd[s].job = k
  <2>1. /\ row'[k] = Final(row[k], "delivered") \/ row'[k] = Final(row[k], "failed")
        /\ tale'[k] = [tale[k] EXCEPT !.ended = TRUE]
    BY <1>0, <1>15 DEF Deliver, Fail
  <2>2. row'[k].state \in {"delivered", "failed"} /\ tale'[k].ended
    BY <1>0, <2>1 DEF Final, Mark, Row, Tale
  <2> QED
    BY <1>5, <2>2 DEF Kind, Awaited
<1>16. CASE Park(s) /\ snd[s].job = k
  <2>1. row'[k] = [Mark(row[k], "pending") EXCEPT
                     !.blob = "message", !.tries = snd[s].tries, !.ripe = FALSE]
    BY <1>0, <1>16 DEF Park
  <2>2. /\ row'[k].state = "pending"
        /\ row'[k].blob = "message" /\ row'[k].expires = row[k].expires
    BY <1>0, <2>1 DEF Mark, Row
  <2> QED
    BY <1>5, <2>2 DEF Kind
<1>17. CASE Unclaim(s) /\ snd[s].job = k
  <2>1. row'[k] = [row[k] EXCEPT !.claimed = "none"] /\ snd[s].pc = "parked"
    BY <1>0, <1>17 DEF Unclaim, At
  <2>2. /\ row'[k].state = row[k].state /\ row[k].state # "inflight"
        /\ row'[k].blob = row[k].blob /\ row'[k].expires = row[k].expires
    BY <1>0, <1>17, <2>1 DEF Row, Findable
  <2> QED
    BY <1>3, <1>5, <2>2 DEF Kind, Findable
<1>18. CASE PutBack(s) /\ snd[s].job = k
  <2>1. CASE row[k].state = "pending"
    <3>1. row'[k] = [row[k] EXCEPT !.updated = "fresh"]
      BY <1>0, <1>18, <2>1 DEF PutBack
    <3>2. /\ row'[k].state = "pending"
          /\ row'[k].blob = row[k].blob /\ row'[k].expires = row[k].expires
      BY <1>0, <2>1, <3>1 DEF Row
    <3> QED
      BY <1>5, <3>2 DEF Kind
  <2>2. CASE row[k].state # "pending"
    BY <1>6, <1>7, <1>18, <2>2 DEF PutBack
  <2> QED
    BY <2>1, <2>2
<1>19. CASE ResetStale(s, k)
  <2> DEFINE PutAway(st) == [Mark(row[k], st) EXCEPT !.claimed = "none", !.interrupted = Interrupted(k)]
  <2>1. \A st \in States : /\ PutAway(st).state = st
                           /\ PutAway(st).blob = row[k].blob /\ PutAway(st).expires = row[k].expires
    BY <1>0 DEF Mark, Row
  <2>2. \/ row' = [row EXCEPT ![k] = PutAway("pending")]
        \/ row' = [row EXCEPT ![k] = PutAway("set_aside")] /\ Add("set_aside", k)
    BY <1>19 DEF ResetStale
  <2> HIDE DEF PutAway
  <2>3. \/ row'[k] = PutAway("pending")
        \/ row'[k] = PutAway("set_aside") /\ k \in idx'["set_aside"]
    BY <1>0, <2>2 DEF Add, Names
  <2> QED
    BY <1>5, <2>1, <2>3 DEF Kind, States
<1>20. CASE DropHeld(s, k)
  <2>1. row'[k] = NoRow /\ tale'[k] = [tale[k] EXCEPT !.ended = TRUE]
    BY <1>0, <1>20 DEF DropHeld
  <2>2. row'[k] = NoRow /\ tale'[k].ended
    BY <1>0, <2>1 DEF Tale
  <2> QED
    BY <1>5, <2>2, NoRowFields DEF Kind, Awaited
<1> QED
  BY <1>8, <1>9, <1>10, <1>11, <1>12, <1>13, <1>14, <1>15, <1>16, <1>17, <1>18, <1>19, <1>20
     DEF SenderStep, OneJob

\* A request: the list of withheld jobs and the state agree but while the
\* request is between the two.
LEMMA FindableWeb ==
  ASSUME Sound, Sound', NEW k \in Jobs, Findable(k), WebStep(k)
  PROVE  Findable(k)'
<1>0. /\ row \in [Jobs -> Row] /\ row[k] \in Row /\ tale \in [Jobs -> Tale] /\ tale[k] \in Tale
      /\ idx \in [Names -> SUBSET Jobs]
      /\ web \in [pc : WebPcs, job : Jobs \cup {NoJob}, ids : SUBSET Jobs]
  BY DEF Sound, RowOK, TaleOK, ListOK, WebOK
<1>1. (tale[k].ended => tale'[k].ended) /\ (Awaited(k)' => Awaited(k))
  BY EndStays
<1>2. ASSUME snd' = snd, k \in idx["set_aside"] => k \in idx'["set_aside"],
             row'[k].expires => row[k].expires \/ tale'[k].ended,
             Awaited(k)' => row'[k].blob = row[k].blob,
             row'[k] = row[k] \/ row'[k].state \in {"none", "pending", "withheld"},
             Awaited(k)' /\ row'[k].state = "withheld" =>
               k \in idx'["withheld"] \/ (web'.job = k /\ web'.pc \in {"undo", "restore"}),
             web'.job = k /\ web'.pc \in {"mark", "take"} => k \in idx'["withheld"]
      PROVE  Findable(k)'
  BY <1>1, <1>2 DEF Findable, Awaited
<1>3. web' = WebIdle => web'.job # k
  BY ConstantsAssumption DEF WebIdle
<1>4. web = WebIdle => (Awaited(k) /\ row[k].state = "withheld" => k \in idx["withheld"])
  BY ConstantsAssumption DEF WebIdle, Findable
<1>5. CASE Cancel(k)
  <2>1. /\ row'[k] = NoRow /\ snd' = snd /\ web' = WebIdle
        /\ idx'["set_aside"] = idx["set_aside"]
        /\ tale'[k] = [tale[k] EXCEPT !.cancelled = TRUE]
    BY <1>0, <1>5 DEF Cancel, Ask, Names
  <2>2. ~Awaited(k)'
    BY <1>0, <2>1 DEF Awaited, Tale
  <2> QED
    BY <1>2, <1>3, <2>1, <2>2, NoRowFields
<1>6. CASE Reschedule(k) \/ Retry(k)
  <2>1. /\ row' = row /\ snd' = snd /\ web = WebIdle /\ web'.pc \in {"move", "retry"}
        /\ idx'["set_aside"] = idx["set_aside"] /\ idx'["withheld"] = idx["withheld"]
    BY <1>0, <1>6 DEF Reschedule, Retry, Ask, Follow, Del, Names
  <2> QED
    BY <1>1, <1>2, <1>4, <2>1
<1>7. CASE Withhold(k)
  <2>1. /\ row' = row /\ snd' = snd
        /\ idx'["set_aside"] = idx["set_aside"] /\ k \in idx'["withheld"]
    BY <1>0, <1>7 DEF Withhold, Add, Names
  <2> QED
    BY <1>2, <2>1
<1>8. CASE Release(k)
  <2>1. /\ row' = row /\ snd' = snd /\ idx'["set_aside"] = idx["set_aside"]
        /\ \/ row[k].state = "withheld" /\ web' = [pc |-> "restore", job |-> k, ids |-> {}]
           \/ row[k].state # "withheld" /\ web' = WebIdle
    BY <1>0, <1>8 DEF Release, Follow, Answer, Del, Names
  <2> QED
    BY <1>2, <1>3, <2>1
<1>9. CASE Unset(k)
  <2>1. /\ row'[k] = [row[k] EXCEPT !.state = "pending"] /\ snd' = snd /\ web' = web /\ idx' = idx
    BY <1>0, <1>9 DEF Unset
  <2>2. /\ row'[k].state = "pending" /\ row'[k].blob = row[k].blob
        /\ row'[k].expires = row[k].expires
    BY <1>0, <2>1 DEF Row
  <2> QED
    BY <1>2, <2>1, <2>2 DEF Findable
<1>10. CASE web.job = k /\ (Move \/ Relist)
  <2>1. /\ row' = row /\ snd' = snd /\ web' = WebIdle /\ web.pc \notin {"undo", "restore"}
        /\ idx'["set_aside"] = idx["set_aside"] /\ idx'["withheld"] = idx["withheld"]
    BY <1>0, <1>10 DEF Move, Relist, Answer, Add, Names
  <2> QED
    BY <1>1, <1>2, <1>3, <2>1 DEF Findable
<1>11. CASE web.job = k /\ MarkWithheld
  <2>1. /\ row'[k] = [row[k] EXCEPT !.state = "withheld"] /\ snd' = snd /\ idx' = idx
        /\ web.pc = "mark"
    BY <1>0, <1>11 DEF MarkWithheld
  <2>2. /\ row'[k].state = "withheld" /\ row'[k].blob = row[k].blob
        /\ row'[k].expires = row[k].expires
    BY <1>0, <2>1 DEF Row
  <2>3. k \in idx'["withheld"]
    BY <1>11, <2>1 DEF Findable
  <2> QED
    BY <1>2, <2>1, <2>2, <2>3
<1>12. CASE web.job = k /\ TakeOut
  <2>1. row' = row /\ snd' = snd /\ k \in idx["withheld"]
    BY <1>12 DEF TakeOut, Findable
  <2>2. CASE k \in idx["scheduled"]
    <3>1. /\ web' = WebIdle /\ idx'["set_aside"] = idx["set_aside"]
          /\ idx'["withheld"] = idx["withheld"]
      BY <1>0, <1>12, <2>2 DEF TakeOut, Answer, Del, Names
    <3> QED
      BY <1>2, <1>3, <2>1, <3>1
  <2>3. CASE k \notin idx["scheduled"]
    <3>1. /\ web' = [pc |-> "undo", job |-> k, ids |-> {}]
          /\ idx'["set_aside"] = idx["set_aside"]
      BY <1>0, <1>12, <2>3 DEF TakeOut, Follow, Del, Names
    <3> QED
      BY <1>2, <2>1, <3>1
  <2> QED
    BY <2>2, <2>3
<1>13. CASE web.job = k /\ Undo
  <2>1. /\ (row' = row /\ row[k].state = "none") \/ row'[k] = [row[k] EXCEPT !.state = "pending"]
        /\ snd' = snd /\ idx' = idx /\ web' = WebIdle
    BY <1>0, <1>13, NoRowFields DEF Undo, Answer
  <2>2. /\ row'[k].state \in {"none", "pending"} /\ row'[k].blob = row[k].blob
        /\ row'[k].expires = row[k].expires
    BY <1>0, <2>1 DEF Row
  <2> QED
    BY <1>2, <1>3, <2>1, <2>2
<1>14. ASSUME row'[k] = Mark(row[k], "pending"), snd' = snd, idx' = idx,
              web'.job = k => web'.pc = "relist"
       PROVE  Findable(k)'
  <2>1. /\ row'[k].state = "pending" /\ row'[k].blob = row[k].blob
        /\ row'[k].expires = row[k].expires
    BY <1>0, <1>14, MarkFields DEF States
  <2> QED
    BY <1>2, <1>14, <2>1
<1>15. ASSUME row'[k] = NoRow, tale'[k] = [tale[k] EXCEPT !.ended = TRUE], snd' = snd, idx' = idx,
              web'.job # k
       PROVE  Findable(k)'
  <2>1. ~Awaited(k)'
    BY <1>0, <1>15 DEF Awaited, Tale
  <2> QED
    BY <1>2, <1>15, <2>1, NoRowFields
<1>16. CASE web.job = k /\ Restore
  <2>1. snd' = snd /\ idx' = idx
    BY <1>16 DEF Restore
  <2>2. CASE row' = [row EXCEPT ![k] = Mark(@, "pending")] /\ Follow("relist", k)
    BY <1>0, <1>14, <2>1, <2>2 DEF Follow
  <2>3. CASE /\ row' = [row EXCEPT ![k] = NoRow] /\ Answer
             /\ tale' = [tale EXCEPT ![k].ended = TRUE]
    BY <1>0, <1>3, <1>15, <2>1, <2>3 DEF Answer
  <2> QED
    BY <1>16, <2>2, <2>3 DEF Restore
<1>17. ASSUME Again(k), snd' = snd, idx' = idx, web'.job # k, web.pc \notin {"undo", "restore"}
       PROVE  Findable(k)'
  <2>1. CASE row[k] = NoRow
    BY <1>1, <1>2, <1>17, <2>1, NoRowFields DEF Again
  <2>2. CASE row[k] # NoRow
    BY <1>0, <1>14, <1>17, <2>2 DEF Again
  <2> QED
    BY <2>1, <2>2
<1>18. CASE web.job = k /\ RetryQueued
  BY <1>3, <1>17, <1>18 DEF RetryQueued, Answer
<1>19. CASE ResumeOne(k)
  <2>1. snd' = snd /\ idx' = idx /\ web'.job # k /\ web.pc \notin {"undo", "restore"}
    BY <1>0, <1>19, ConstantsAssumption DEF ResumeOne, Sound, WebOK
  <2>2. CASE Again(k)
    BY <1>17, <2>1, <2>2
  <2>3. CASE row' = [row EXCEPT ![k] = NoRow] /\ tale' = [tale EXCEPT ![k].ended = TRUE]
    BY <1>0, <1>15, <2>1, <2>3
  <2> QED
    BY <1>19, <2>2, <2>3 DEF ResumeOne
<1> QED
  BY <1>5, <1>6, <1>7, <1>8, <1>9, <1>10, <1>11, <1>12, <1>13, <1>16, <1>18, <1>19 DEF WebStep

LEMMA FindableNext ==
  ASSUME Sound, Sound', QueuedFirst, NoFiller, \A s, t \in Senders : s = t,
         [Next]_vars, NEW k \in Jobs, Findable(k)
  PROVE  Findable(k)'
<1>0. /\ row \in [Jobs -> Row] /\ row[k] \in Row /\ tale \in [Jobs -> Tale] /\ tale[k] \in Tale
      /\ idx \in [Names -> SUBSET Jobs]
  BY DEF Sound, RowOK, TaleOK, ListOK
<1>1. CASE Kept(k)
  BY <1>1 DEF Kept, SndKept, Findable, Awaited, Names
<1>2. CASE Enqueue(k)
  <2>1. /\ row'[k] = NewRow /\ snd' = snd /\ web' = web
        /\ idx'["set_aside"] = idx["set_aside"] /\ idx'["withheld"] = idx["withheld"]
    BY <1>0, <1>2 DEF Enqueue, Add, Names
  <2>2. web.job # k
    BY <1>2 DEF Enqueue, QueuedFirst, Nowhere
  <2> QED
    BY <2>1, <2>2, NoRowFields DEF Findable
<1>3. CASE ClockStep(k)
  <2>1. tale' = tale /\ snd' = snd /\ web' = web /\ idx' = idx
    BY <1>3 DEF ClockStep, Time, SendTime, Ripen, Age, Expire
  <2>2. CASE Time(k)
    <3>1. /\ row'[k].expires = row[k].expires /\ row'[k].blob = row[k].blob
          /\ row'[k].state = row[k].state
          /\ row[k].claimed # "none" => row'[k].claimed # "none"
      <4>1. CASE SendTime(k) \/ Ripen(k)
        BY <1>0, <4>1 DEF SendTime, Ripen, Row
      <4>2. CASE Age(k)
        BY <1>0, <4>2 DEF Age, Row
      <4> QED
        BY <2>2, <4>1, <4>2 DEF Time
    <3> QED
      BY <2>1, <3>1 DEF Findable, Awaited
  <2>3. CASE Expire(k)
    <3>1. row'[k] = NoRow /\ tale[k].ended
      BY <1>0, <2>3 DEF Expire, Findable
    <3> QED
      BY <2>1, <3>1, NoRowFields DEF Findable, Awaited
  <2> QED
    BY <1>3, <2>2, <2>3 DEF ClockStep
<1>4. ASSUME NEW s \in Senders, SenderStep(s, k) PROVE Findable(k)'
  <2>1. Senders = {s}
    OBVIOUS
  <2> QED
    BY <1>4, <2>1, FindableSender
<1>5. CASE WebStep(k)
  BY <1>5, FindableWeb
<1>6. CASE ResumeEnds
  <2>1. /\ row' = row /\ tale' = tale /\ snd' = snd /\ web'.job # k
        /\ idx'["set_aside"] = idx["set_aside"] /\ idx'["withheld"] = idx["withheld"]
    BY <1>6, ResumeEndsKeep, ConstantsAssumption DEF Names
  <2>2. web.pc \notin {"undo", "restore"}
    BY <1>6 DEF ResumeEnds, ResumeDone, Resume, Ask, WebIdle
  <2> QED
    BY <2>1, <2>2 DEF Findable, Awaited
<1> QED
  BY <1>1, <1>2, <1>3, <1>4, <1>5, <1>6, Steps

FindableInv == Sound /\ QueuedFirst /\ NoFiller /\ \A k \in Jobs : Findable(k)

\* Nothing that stops a lone sender loses a job: until it is delivered, failed,
\* cancelled or let go of it has its message, and what its state says where to
\* look for it is there; with slow sends and every request.  A read that fails
\* replaces the message (MessageKept), and a second sender may take the time
\* off the claim of the first (recover_on, set_aside, withhold, release).
THEOREM OneSenderKeepsAll ==
  ASSUME \A s, t \in Senders : s = t, MaxBlips = 0
  PROVE  Spec => []NothingForgotten
<1>1. Init => FindableInv
  <2>1. Init => NoFiller
    BY DEF Init, NoFiller, Idle
  <2>2. ASSUME Init, NEW k \in Jobs PROVE Findable(k)
    BY <2>2, NoRowFields, ConstantsAssumption DEF Init, Findable, Awaited, NoTale, WebIdle
  <2> QED
    BY <2>1, <2>2, SoundInit, QueuedInit DEF FindableInv
<1>2. FindableInv /\ [Next]_vars => FindableInv'
  BY SoundNext, QueuedNext, FillerNext, FindableNext DEF FindableInv
<1>3. FindableInv => NothingForgotten
  BY DEF FindableInv, NothingForgotten, Findable, Awaited
<1> QED
  BY <1>1, <1>2, <1>3, PTL DEF Spec

-----------------------------------------------------------------------------
(* How many copies of an id wait in the list.                                 *)

Occ(s, k) == {i \in DOMAIN s : s[i] = k}

LEMMA OccFinite ==
  ASSUME NEW s \in Seq(Jobs), NEW k
  PROVE  IsFiniteSet(Occ(s, k)) /\ Cardinality(Occ(s, k)) \in Nat
<1>1. Len(s) \in Nat /\ DOMAIN s = 1 .. Len(s)
  OBVIOUS
<1>2. IsFiniteSet(1 .. Len(s)) /\ Occ(s, k) \in SUBSET (1 .. Len(s))
  BY <1>1, FS_Interval DEF Occ
<1> QED
  BY <1>2, FS_Subset, FS_CardinalityType

LEMMA OccPush ==
  ASSUME NEW s \in Seq(Jobs), NEW j \in Jobs, NEW k
  PROVE  Cardinality(Occ(<<j>> \o s, k)) = Cardinality(Occ(s, k)) + One(j = k)
<1> DEFINE Up == {i + 1 : i \in Occ(s, k)}
           t  == <<j>> \o s
<1>1. /\ Len(s) \in Nat /\ DOMAIN s = 1 .. Len(s) /\ DOMAIN t = 1 .. (1 + Len(s))
      /\ \A i \in 1 .. 1 + Len(s) : t[i] = IF i = 1 THEN j ELSE s[i - 1]
  OBVIOUS
<1>2. IsFiniteSet(Occ(s, k)) /\ Cardinality(Occ(s, k)) \in Nat
  BY OccFinite
<1>3. [i \in Occ(s, k) |-> i + 1] \in Bijection(Occ(s, k), Up)
  <2>1. Occ(s, k) \subseteq Nat
    BY <1>1 DEF Occ
  <2> QED
    BY <2>1 DEF Bijection, Injection, Surjection, IsInjective
<1>4. IsFiniteSet(Up) /\ Cardinality(Up) = Cardinality(Occ(s, k))
  BY <1>2, <1>3, FS_Bijection DEF ExistsBijection
<1>5. 1 \notin Up /\ Up \subseteq 1 .. (1 + Len(s))
  BY <1>1 DEF Occ
<1>6. ASSUME NEW i \in Up PROVE t[i] = k
  <2>1. PICK n \in Occ(s, k) : i = n + 1
    BY <1>6
  <2>2. n \in 1 .. Len(s) /\ s[n] = k /\ i \in 1 .. (1 + Len(s)) /\ i # 1 /\ i - 1 = n
    BY <1>1, <2>1 DEF Occ
  <2> QED
    BY <1>1, <2>2
<1>7. ASSUME NEW i \in 1 .. (1 + Len(s)), t[i] = k, i # 1 PROVE i \in Up
  <2>1. i - 1 \in 1 .. Len(s) /\ s[i - 1] = k /\ i = (i - 1) + 1
    BY <1>1, <1>7
  <2> QED
    BY <1>1, <2>1 DEF Occ
<1>8. t[1] = j /\ 1 \in 1 .. (1 + Len(s))
  BY <1>1
<1>9. Occ(t, k) = IF j = k THEN Up \cup {1} ELSE Up
  <2> HIDE DEF Up, t
  <2>1. Occ(t, k) = {i \in 1 .. (1 + Len(s)) : t[i] = k}
    BY <1>1 DEF Occ
  <2> QED
    BY <1>5, <1>6, <1>7, <1>8, <2>1
<1> HIDE DEF Up
<1>10. CASE j = k
  <2>1. One(j = k) = 1
    BY <1>10 DEF One
  <2>2. Cardinality(Occ(t, k)) = Cardinality(Up) + 1
    BY <1>4, <1>5, <1>9, <1>10, FS_AddElement
  <2> QED
    BY <1>4, <2>1, <2>2
<1>11. CASE j # k
  <2>1. One(j = k) = 0
    BY <1>11 DEF One
  <2> QED
    BY <1>2, <1>4, <1>9, <1>11, <2>1
<1> QED
  BY <1>10, <1>11

LEMMA OccPop ==
  ASSUME NEW s \in Seq(Jobs), s # <<>>, NEW k
  PROVE  Cardinality(Occ(SubSeq(s, 1, Len(s) - 1), k)) + One(s[Len(s)] = k)
           = Cardinality(Occ(s, k))
<1> DEFINE t == SubSeq(s, 1, Len(s) - 1)
<1>1. /\ Len(s) \in Nat \ {0} /\ DOMAIN s = 1 .. Len(s) /\ DOMAIN t = 1 .. (Len(s) - 1)
      /\ \A i \in 1 .. (Len(s) - 1) : t[i] = s[i]
  OBVIOUS
<1>2. IsFiniteSet(Occ(s, k)) /\ Cardinality(Occ(s, k)) \in Nat
  BY OccFinite
<1>3. Occ(t, k) = Occ(s, k) \ {Len(s)} /\ (Len(s) \in Occ(s, k) <=> s[Len(s)] = k)
  <2> HIDE DEF t
  <2> QED
    BY <1>1 DEF Occ
<1> HIDE DEF t
<1>4. CASE s[Len(s)] = k
  <2>1. One(s[Len(s)] = k) = 1
    BY <1>4 DEF One
  <2>2. Cardinality(Occ(t, k)) = Cardinality(Occ(s, k)) - 1
    BY <1>2, <1>3, <1>4, FS_RemoveElement
  <2> QED
    BY <1>2, <2>1, <2>2 DEF t
<1>5. CASE s[Len(s)] # k
  <2>1. One(s[Len(s)] = k) = 0
    BY <1>5 DEF One
  <2>2. Occ(t, k) = Occ(s, k)
    BY <1>3, <1>5
  <2> QED
    BY <1>2, <2>1, <2>2 DEF t
<1> QED
  BY <1>4, <1>5

LEMMA CopiesStep ==
  ASSUME ListOK, ListOK', NEW k \in Jobs
  PROVE  /\ Copies(k) \in Nat /\ Copies(k)' \in Nat
         /\ pending' = pending => Copies(k)' = Copies(k)
         /\ \A j \in Jobs : Push(j) => Copies(k)' = Copies(k) + One(j = k)
         /\ pending # <<>> /\ pending' = SubSeq(pending, 1, Len(pending) - 1)
              => Copies(k)' + One(pending[Len(pending)] = k) = Copies(k)
<1>1. pending \in Seq(Jobs) /\ pending' \in Seq(Jobs)
  BY DEF ListOK
<1>2. Copies(k) = Cardinality(Occ(pending, k)) /\ Copies(k)' = Cardinality(Occ(pending', k))
  BY DEF Copies, Occ
<1>3. Copies(k) \in Nat /\ Copies(k)' \in Nat
  BY <1>1, <1>2, OccFinite
<1>4. ASSUME pending' = pending PROVE Copies(k)' = Copies(k)
  BY <1>2, <1>4
<1>5. ASSUME NEW j \in Jobs, Push(j) PROVE Copies(k)' = Copies(k) + One(j = k)
  BY <1>1, <1>2, <1>5, OccPush DEF Push
<1>6. ASSUME pending # <<>>, pending' = SubSeq(pending, 1, Len(pending) - 1)
      PROVE  Copies(k)' + One(pending[Len(pending)] = k) = Copies(k)
  BY <1>1, <1>2, <1>6, OccPop
<1> QED
  BY <1>3, <1>4, <1>5, <1>6

\* A copy comes only with a step about the job.
LEMMA PushOwn ==
  ASSUME Sound, Sound', [Next]_vars, NEW k \in Jobs
  PROVE  \/ Copies(k)' <= Copies(k)
         \/ Enqueue(k) \/ (\E s \in Senders : SenderStep(s, k)) \/ WebStep(k)
<1> DEFINE Own == Enqueue(k) \/ (\E s \in Senders : SenderStep(s, k)) \/ WebStep(k)
<1>0. ListOK /\ ListOK'
  BY DEF Sound
<1>1. ASSUME pending' = pending PROVE Copies(k)' <= Copies(k)
  BY <1>0, <1>1, CopiesStep
<1>2. ASSUME NEW j \in Jobs, j # k, Push(j) PROVE Copies(k)' <= Copies(k)
  BY <1>0, <1>2, CopiesStep DEF One
<1>3. CASE UNCHANGED vars
  BY <1>1, <1>3 DEF vars, store
<1>4. ASSUME NEW j \in Jobs, Enqueue(j) \/ Time(j) \/ Expire(j)
      PROVE  Copies(k)' <= Copies(k) \/ Own
  BY <1>1, <1>2, <1>4 DEF Enqueue, Time, SendTime, Ripen, Age, Expire
<1>5. ASSUME NEW s \in Senders, OneJob(s) \/ Trouble(s) PROVE Copies(k)' <= Copies(k) \/ Own
  <2>1. CASE Pop(s)
    BY <1>0, <2>1, CopiesStep DEF Pop, One
  <2>2. CASE Requeue(s)
    <3>1. snd[s].job \in Jobs /\ Push(snd[s].job)
      BY <2>2, InHandJob DEF Requeue, At, Sound
    <3>2. snd[s].job = k => SenderStep(s, k)
      BY <2>2 DEF SenderStep, OneJob
    <3> QED
      BY <1>2, <3>1, <3>2
  <2>3. CASE ~Pop(s) /\ ~Requeue(s)
    <3>1. pending' = pending
      BY <1>5, <2>3 DEF OneJob, Trouble, Claim, SkipClaim, Load, Check, Hold, ListHeld, Accept,
         Bounce, Defer, Deliver, RecordFailure, Fail, Park, Unclaim, ListRetry, Refill, LoadFails,
         CheckFails, Stop, store
    <3> QED
      BY <1>1, <3>1
  <2> QED
    BY <2>1, <2>2, <2>3
<1>6. ASSUME NEW s \in Senders, Housekeeping(s) \/ \E j \in Jobs : DropHeld(s, j)
      PROVE  Copies(k)' <= Copies(k) \/ Own
  <2>1. CASE Promote(s) \/ PutBack(s)
    <3>1. snd[s].job \in Jobs /\ (Push(snd[s].job) \/ UNCHANGED pending)
      BY <2>1, InHandJob DEF Promote, PutBack, At, Sound
    <3>2. snd[s].job = k => SenderStep(s, k)
      BY <2>1 DEF SenderStep
    <3> QED
      BY <1>1, <1>2, <3>1, <3>2
  <2>2. CASE Promoted(s) \/ Report(s)
    BY <1>1, <2>2 DEF Promoted, Report
  <2>3. ASSUME NEW j \in Jobs, FindDue(s, j) \/ Look(s, j) \/ DropHeld(s, j)
        PROVE  Copies(k)' <= Copies(k)
    BY <1>1, <2>3 DEF FindDue, Look, DropHeld, store
  <2>4. ASSUME NEW j \in Jobs, ResetStale(s, j) PROVE Copies(k)' <= Copies(k) \/ Own
    <3>1. Push(j) \/ UNCHANGED pending
      BY <2>4 DEF ResetStale
    <3>2. j = k => SenderStep(s, k)
      BY <2>4 DEF SenderStep
    <3> QED
      BY <1>1, <1>2, <3>1, <3>2
  <2> QED
    BY <1>6, <2>1, <2>2, <2>3, <2>4 DEF Housekeeping
<1>7. CASE Asked
  <2>1. ASSUME NEW j \in Jobs, Unset(j) PROVE Copies(k)' <= Copies(k) \/ Own
    BY <1>2, <2>1 DEF Unset, WebStep
  <2>2. ASSUME ~\E j \in Jobs : Unset(j) PROVE pending' = pending
    BY <1>7, <2>2 DEF Asked, Cancel, Reschedule, Withhold, Release, Retry, Resume, store
  <2> QED
    BY <1>1, <2>1, <2>2
<1>8. CASE Served
  <2>1. CASE RetryQueued
    <3>1. web.job \in Jobs /\ (Push(web.job) \/ UNCHANGED pending)
      BY <2>1, WebJob DEF RetryQueued, Again, Sound
    <3>2. web.job = k => WebStep(k)
      BY <2>1 DEF WebStep
    <3> QED
      BY <1>1, <1>2, <3>1, <3>2
  <2>2. ASSUME NEW j \in Jobs, ResumeOne(j) PROVE Copies(k)' <= Copies(k) \/ Own
    <3>1. Push(j) \/ UNCHANGED pending
      BY <2>2 DEF ResumeOne, Again
    <3>2. j = k => WebStep(k)
      BY <2>2 DEF WebStep
    <3> QED
      BY <1>1, <1>2, <3>1, <3>2
  <2>3. CASE ~RetryQueued /\ ~\E j \in Jobs : ResumeOne(j)
    <3>1. pending' = pending
      BY <1>8, <2>3 DEF Served, Move, MarkWithheld, TakeOut, Undo, Restore, Relist, ResumeDone
    <3> QED
      BY <1>1, <3>1
  <2> QED
    BY <2>1, <2>2, <2>3
<1> QED
  BY <1>3, <1>4, <1>5, <1>6, <1>7, <1>8 DEF Next

-----------------------------------------------------------------------------
(* What a job may still turn into a copy, with one sender and nobody who moves *)
(* jobs: the copies in the list, its waiting in the schedule or for a retry,   *)
(* the sender that will push it or has it from the list, a claim left behind,  *)
(* and the release that is about to list it.                                   *)

Waits(k, name, before, after) ==
  \/ \E s \in Senders : snd[s].job = k /\ snd[s].pc = before
  \/ k \in idx[name] /\ \A s \in Senders : ~(snd[s].job = k /\ snd[s].pc = after)

ToSend(k)  == Waits(k, "scheduled", "due_scheduled", "leave_scheduled")
ToRetry(k) == Waits(k, "retry", "due_retry", "leave_retry")

Bearing     == {"popped", "look"} \cup Holding \cup Settling
Borne(k)    == \E s \in Senders : snd[s].job = k /\ snd[s].pc \in Bearing
LeftOver(k) == row[k].state = "inflight" /\ \A s \in Senders : ~AtWork(s, k)
Relisted(k) == web.job = k /\ web.pc = "relist"

Spread(k) == Copies(k) + One(ToSend(k)) + One(ToRetry(k)) + One(Borne(k))
               + One(LeftOver(k)) + One(Relisted(k))

Bounded(k) ==
  /\ Spread(k) <= 1 + tale[k].stops + tale[k].again
  /\ Relisted(k) => tale[k].again > 0
  /\ row[k].state = "inflight" =>
       \A s \in Senders : ~(snd[s].job = k /\ snd[s].pc \in {"parked", "queue"})

LEMMA SpreadType ==
  ASSUME Sound, Sound', NEW k \in Jobs
  PROVE  /\ Copies(k) \in Nat /\ Copies(k)' \in Nat
         /\ tale[k].stops \in Nat /\ tale[k].again \in Nat
         /\ tale'[k].stops \in Nat /\ tale'[k].again \in Nat
<1>1. tale[k] \in Tale /\ tale'[k] \in Tale
  BY DEF Sound, TaleOK
<1> QED
  BY <1>1, CopiesStep DEF Sound, Tale

\* Nothing new turns into a copy.
LEMMA SpreadFalls ==
  ASSUME Sound, Sound', NEW k \in Jobs, Bounded(k),
         Copies(k)' <= Copies(k), ToSend(k)' => ToSend(k), ToRetry(k)' => ToRetry(k),
         Borne(k)' => Borne(k), LeftOver(k)' => LeftOver(k), Relisted(k)' => Relisted(k),
         tale'[k].stops >= tale[k].stops, tale'[k].again >= tale[k].again
  PROVE  /\ Spread(k)' <= 1 + tale'[k].stops + tale'[k].again
         /\ Relisted(k)' => tale'[k].again > 0
BY SpreadType DEF Spread, Bounded, One

LEMMA Alone ==
  ASSUME NEW s, Senders = {s}, NEW k
  PROVE  /\ ToSend(k) <=> \/ snd[s].job = k /\ snd[s].pc = "due_scheduled"
                          \/ k \in idx["scheduled"]
                             /\ ~(snd[s].job = k /\ snd[s].pc = "leave_scheduled")
         /\ ToRetry(k) <=> \/ snd[s].job = k /\ snd[s].pc = "due_retry"
                           \/ k \in idx["retry"]
                              /\ ~(snd[s].job = k /\ snd[s].pc = "leave_retry")
         /\ Borne(k) <=> snd[s].job = k /\ snd[s].pc \in Bearing
         /\ LeftOver(k) <=> /\ row[k].state = "inflight"
                            /\ ~(snd[s].job = k /\ snd[s].pc \in Holding \cup Settling)
BY DEF ToSend, ToRetry, Waits, Borne, LeftOver, AtWork

LEMMA AloneNext ==
  ASSUME NEW s, Senders = {s}, NEW k
  PROVE  /\ ToSend(k)' <=> \/ snd'[s].job = k /\ snd'[s].pc = "due_scheduled"
                           \/ k \in idx'["scheduled"]
                              /\ ~(snd'[s].job = k /\ snd'[s].pc = "leave_scheduled")
         /\ ToRetry(k)' <=> \/ snd'[s].job = k /\ snd'[s].pc = "due_retry"
                            \/ k \in idx'["retry"]
                               /\ ~(snd'[s].job = k /\ snd'[s].pc = "leave_retry")
         /\ Borne(k)' <=> snd'[s].job = k /\ snd'[s].pc \in Bearing
         /\ LeftOver(k)' <=> /\ row'[k].state = "inflight"
                             /\ ~(snd'[s].job = k /\ snd'[s].pc \in Holding \cup Settling)
BY DEF ToSend, ToRetry, Waits, Borne, LeftOver, AtWork

\* A sender makes no job anybody's, and only a stop is one.
LEMMA SenderTale ==
  ASSUME Sound, NEW s \in Senders, NEW k \in Jobs, SenderStep(s, k)
  PROVE  /\ tale'[k].again = tale[k].again /\ web' = web
         /\ tale'[k].stops = tale[k].stops
              \/ (Stop(s) /\ tale'[k].stops = tale[k].stops + 1)
<1>0. tale \in [Jobs -> Tale] /\ tale[k] \in Tale
  BY DEF Sound, TaleOK
<1>1. web' = web
  BY DEF SenderStep, OneJob, Trouble, Pop, Claim, SkipClaim, Load, Check, Hold, ListHeld, Accept,
     Bounce, Defer, Deliver, RecordFailure, Fail, Park, Unclaim, ListRetry, Refill, Requeue,
     LoadFails, CheckFails, Stop, Promote, Promoted, Report, PutBack, FindDue, ResetStale, Look,
     DropHeld
<1>2. CASE DropHeld(s, k) \/ Accept(s) \/ Deliver(s) \/ Fail(s)
  BY <1>0, <1>1, <1>2 DEF DropHeld, Accept, Deliver, Fail, Tale
<1>3. CASE Stop(s)
  <2>1. snd[s].job # k => ~Stop(s) \/ tale'[k] = tale[k]
    BY <1>0 DEF Stop
  <2>2. ASSUME snd[s].job = k
        PROVE  tale'[k].again = tale[k].again /\ tale'[k].stops = tale[k].stops + 1
    <3> DEFINE n == IF InHand(s, k) /\ row[k].state = "inflight" THEN 1 ELSE 0
    <3>1. tale' = [tale EXCEPT ![k].stops = @ + 1, ![k].killed = @ + n]
      BY <1>3, <2>2 DEF Stop
    <3> HIDE DEF n
    <3> QED
      BY <1>0, <3>1 DEF Tale
  <2> QED
    BY <1>1, <1>3, <2>1, <2>2
<1>4. \/ DropHeld(s, k) \/ Accept(s) \/ Deliver(s) \/ Fail(s) \/ Stop(s)
      \/ UNCHANGED tale
  BY DEF SenderStep, OneJob, Trouble, Pop, Claim, SkipClaim, Load, Check, Hold, ListHeld,
     Bounce, Defer, RecordFailure, Park, Unclaim, ListRetry, Refill, Requeue, LoadFails,
     CheckFails, Promote, Promoted, Report, PutBack, FindDue, ResetStale, Look
<1> QED
  BY <1>1, <1>2, <1>3, <1>4

LEMMA NoCopies ==
  ASSUME NEW k, \A i \in DOMAIN pending : pending[i] # k
  PROVE  Copies(k) = 0
<1>1. {i \in DOMAIN pending : pending[i] = k} = {}
  OBVIOUS
<1> QED
  BY <1>1, FS_EmptySet DEF Copies

\* Each copy the sender makes is made of something that was counted.
LEMMA BoundedSender ==
  ASSUME Sound, Sound', NEW k \in Jobs, Bounded(k), NEW s \in Senders, Senders = {s},
         SenderStep(s, k)
  PROVE  Bounded(k)'
<1>0. /\ row \in [Jobs -> Row] /\ row[k] \in Row /\ idx \in [Names -> SUBSET Jobs]
      /\ snd \in [Senders -> [pc : Pcs, job : Jobs \cup {NoJob}, tries : Nat]]
      /\ ListOK /\ ListOK' /\ NoJob # k
      /\ snd[s].pc = "idle" <=> snd[s].job = NoJob
  BY ConstantsAssumption DEF Sound, RowOK, ListOK, SndOK
<1>1. /\ tale'[k].again = tale[k].again /\ (Relisted(k)' <=> Relisted(k))
      /\ tale'[k].stops >= tale[k].stops
      /\ Stop(s) /\ snd[s].job = k => tale'[k].stops = tale[k].stops + 1
  <2>1. /\ tale'[k].again = tale[k].again /\ web' = web /\ tale'[k].stops >= tale[k].stops
    BY SenderTale, SpreadType
  <2>2. ASSUME Stop(s), snd[s].job = k PROVE tale'[k].stops = tale[k].stops + 1
    <3> DEFINE n == IF InHand(s, k) /\ row[k].state = "inflight" THEN 1 ELSE 0
    <3>1. tale' = [tale EXCEPT ![k].stops = @ + 1, ![k].killed = @ + n]
      BY <2>2 DEF Stop
    <3> HIDE DEF n
    <3> QED
      BY <3>1 DEF Sound, TaleOK, Tale
  <2> QED
    BY <2>1, <2>2 DEF Relisted
<1> DEFINE Calm3 == row'[k].state = "inflight" =>
                      ~(snd'[s].job = k /\ snd'[s].pc \in {"parked", "queue"})
<1>2. /\ \A p, j : Take(s, p, j) => snd'[s].pc = p /\ snd'[s].job = j
      /\ \A p : Goto(s, p) => snd'[s].pc = p /\ snd'[s].job = snd[s].job
      /\ Rest(s) => snd'[s].pc = "idle" /\ snd'[s].job = NoJob
      /\ \A p, n : snd' = [snd EXCEPT ![s].pc = p, ![s].tries = n]
                     => snd'[s].pc = p /\ snd'[s].job = snd[s].job
  BY <1>0 DEF Take, Goto, Rest, Idle
<1>3. /\ pending' = pending => Copies(k)' = Copies(k)
      /\ Push(k) => Copies(k)' = Copies(k) + 1
  BY <1>0, CopiesStep DEF One
<1>4. ASSUME Calm3, ToSend(k)' => ToSend(k), ToRetry(k)' => ToRetry(k), Copies(k)' <= Copies(k),
             Borne(k)' => Borne(k), LeftOver(k)' => LeftOver(k)
      PROVE  Bounded(k)'
  <2>1. tale'[k].again >= tale[k].again
    BY <1>1, SpreadType
  <2>2. /\ Spread(k)' <= 1 + tale'[k].stops + tale'[k].again
        /\ Relisted(k)' => tale'[k].again > 0
    BY <1>1, <1>4, <2>1, SpreadFalls
  <2> QED
    BY <1>4, <2>2 DEF Bounded
\* The sender works on; its claim takes the place of what it has from the list.
<1>5. ASSUME snd[s].job = k, snd'[s].job = k, snd[s].pc \in Bearing \ {"look"},
             snd'[s].pc \in Holding \cup Settling, Calm3, pending' = pending,
             idx'["scheduled"] = idx["scheduled"], idx'["retry"] = idx["retry"]
      PROVE  Bounded(k)'
  <2>1. Copies(k)' <= Copies(k)
    BY <1>3, <1>5, SpreadType
  <2> QED
    BY <1>4, <1>5, <2>1, Alone, AloneNext DEF Bearing, Holding, Settling
\* It is done with the job, or leaves a claim behind.
<1>6. ASSUME snd[s].job = k, Rest(s), snd[s].pc \in Bearing, row'[k].state = row[k].state
               \/ row'[k].state # "inflight",
             pending' = pending, idx'["scheduled"] = idx["scheduled"], idx'["retry"] = idx["retry"]
      PROVE  Bounded(k)'
  <2>1. Copies(k)' = Copies(k)
    BY <1>3, <1>6
  <2>2. ToSend(k)' => ToSend(k)
    BY <1>0, <1>2, <1>6, Alone, AloneNext DEF Bearing, Holding, Settling
  <2>3. ToRetry(k)' => ToRetry(k)
    BY <1>0, <1>2, <1>6, Alone, AloneNext DEF Bearing, Holding, Settling
  <2>4. Borne(k) /\ ~Borne(k)' /\ Calm3
    BY <1>0, <1>2, <1>6, Alone, AloneNext DEF Bearing
  <2>5. Spread(k)' <= Spread(k)
    BY <2>1, <2>2, <2>3, <2>4, <1>1, SpreadType DEF Spread, One
  <2> QED
    BY <1>1, <2>4, <2>5, SpreadType DEF Bounded, Spread, One
<1>7. CASE snd[s].job = k /\ (\/ LoadFails(s) \/ CheckFails(s) \/ Claim(s) \/ Check(s) \/ Accept(s)
                             \/ Bounce(s) \/ RecordFailure(s) \/ Refill(s) \/ Hold(s))
  <2>1. /\ snd'[s].job = k /\ snd[s].pc \in Bearing \ {"look"}
        /\ snd'[s].pc \in (Holding \cup Settling) \ {"parked", "queue"}
    BY <1>2, <1>7 DEF LoadFails, CheckFails, Claim, Check, Accept, Bounce, RecordFailure, Refill,
       Hold, At, Bearing, Holding, Settling
  <2>2. /\ pending' = pending
        /\ idx'["scheduled"] = idx["scheduled"] /\ idx'["retry"] = idx["retry"]
    BY <1>0, <1>7 DEF LoadFails, CheckFails, Claim, Check, Accept, Bounce, RecordFailure, Refill,
       Hold, store, Add, Names
  <2> QED
    BY <1>5, <1>7, <2>1, <2>2
<1>8. CASE snd[s].job = k /\ Load(s)
  <2>1. row' = row /\ pending' = pending /\ idx' = idx /\ snd[s].pc = "claimed"
    BY <1>8 DEF Load, store, At
  <2>2. CASE Rest(s)
    BY <1>6, <1>8, <2>1, <2>2 DEF Bearing, Holding
  <2>3. CASE ~Rest(s)
    <3>1. \/ Goto(s, "fail")
          \/ \E p \in {"check", "park"} : \E n : snd' = [snd EXCEPT ![s].pc = p, ![s].tries = n]
      BY <1>8, <2>3 DEF Load
    <3>2. snd'[s].job = k /\ snd'[s].pc \in {"fail", "check", "park"}
      BY <1>2, <1>8, <3>1
    <3> QED
      BY <1>5, <1>8, <2>1, <3>2 DEF Bearing, Holding, Settling
  <2> QED
    BY <2>2, <2>3
<1>9. CASE snd[s].job = k /\ Defer(s)
  <2>1. /\ snd' = [snd EXCEPT ![s].pc = "park", ![s].tries = snd[s].tries + 1]
        /\ pending' = pending /\ idx' = idx /\ snd[s].pc = "send"
    BY <1>0, <1>9 DEF Defer, store, At
  <2>2. snd'[s].pc = "park" /\ snd'[s].job = k
    BY <1>0, <1>9, <2>1
  <2> QED
    BY <1>5, <1>9, <2>1, <2>2 DEF Bearing, Holding, Settling
<1>10. CASE snd[s].job = k /\ Park(s)
  <2>1. row'[k] = [Mark(row[k], "pending") EXCEPT
                     !.blob = "message", !.tries = snd[s].tries, !.ripe = FALSE]
    BY <1>0, <1>10 DEF Park
  <2>2. /\ row'[k].state = "pending" /\ pending' = pending /\ idx' = idx
        /\ snd[s].pc = "park" /\ snd'[s].pc = "parked" /\ snd'[s].job = k
    BY <1>0, <1>2, <1>10, <2>1 DEF Park, Mark, Row, At
  <2> QED
    BY <1>5, <1>10, <2>2 DEF Bearing, Holding, Settling
<1>11. CASE snd[s].job = k /\ Unclaim(s)
  <2>1. row'[k] = [row[k] EXCEPT !.claimed = "none"] /\ snd[s].pc = "parked"
    BY <1>0, <1>11 DEF Unclaim, At
  <2>2. /\ row'[k].state # "inflight" /\ pending' = pending /\ idx' = idx
        /\ snd'[s].pc = "queue" /\ snd'[s].job = k
    BY <1>0, <1>2, <1>11, <2>1 DEF Unclaim, Row, Bounded
  <2> QED
    BY <1>5, <1>11, <2>1, <2>2 DEF Bearing, Holding, Settling
<1>12. CASE snd[s].job = k /\ (SkipClaim(s) \/ ListHeld(s))
  <2>1. /\ Rest(s) /\ snd[s].pc \in Bearing /\ row' = row /\ pending' = pending
        /\ idx'["scheduled"] = idx["scheduled"] /\ idx'["retry"] = idx["retry"]
    BY <1>0, <1>12 DEF SkipClaim, ListHeld, store, Add, Names, At, Bearing, Settling
  <2> QED
    BY <1>6, <1>12, <2>1
<1>13. CASE snd[s].job = k /\ (Deliver(s) \/ Fail(s))
  <2>1. row'[k] = Final(row[k], "delivered") \/ row'[k] = Final(row[k], "failed")
    BY <1>0, <1>13 DEF Deliver, Fail
  <2>2. row'[k].state # "inflight"
    BY <1>0, <2>1 DEF Final, Mark, Row
  <2>3. Rest(s) /\ snd[s].pc \in Bearing /\ pending' = pending /\ idx' = idx
    BY <1>13 DEF Deliver, Fail, At, Bearing, Holding
  <2> QED
    BY <1>6, <1>13, <2>2, <2>3
<1>14. CASE snd[s].job = k /\ ListRetry(s)
  <2>1. /\ row' = row /\ pending' = pending /\ snd[s].pc = "queue"
        /\ idx'["scheduled"] = idx["scheduled"] /\ row[k].state # "inflight"
    BY <1>0, <1>14 DEF ListRetry, Add, Names, At, Bounded
  <2>2. /\ snd'[s].pc = "idle" /\ snd'[s].job = NoJob
    BY <1>2, <1>14 DEF ListRetry
  <2>3. Copies(k)' = Copies(k)
    BY <1>3, <2>1
  <2>4. (ToSend(k)' => ToSend(k)) /\ Borne(k) /\ ~Borne(k)' /\ ~LeftOver(k)'
    BY <1>0, <1>14, <2>1, <2>2, Alone, AloneNext DEF Bearing, Settling
  <2>5. Spread(k)' <= Spread(k)
    BY <1>1, <2>3, <2>4, SpreadType DEF Spread, One
  <2> QED
    BY <1>0, <1>1, <2>1, <2>2, <2>5, SpreadType DEF Bounded, Spread, One
<1>15. CASE snd[s].job = k /\ Requeue(s)
  <2>1. row'[k] = [Mark(row[k], "pending") EXCEPT !.claimed = "none"]
    BY <1>0, <1>15 DEF Requeue
  <2>2. /\ row'[k].state = "pending" /\ Push(k) /\ snd[s].pc = "refilled" /\ idx' = idx
        /\ snd'[s].pc = "idle" /\ snd'[s].job = NoJob
    BY <1>0, <1>2, <1>15, <2>1 DEF Requeue, Mark, Row, At
  <2>3. Copies(k)' = Copies(k) + 1
    BY <1>3, <2>2
  <2>4. /\ (ToSend(k)' => ToSend(k)) /\ (ToRetry(k)' => ToRetry(k))
        /\ Borne(k) /\ ~Borne(k)' /\ ~LeftOver(k)'
    BY <1>0, <1>15, <2>2, Alone, AloneNext DEF Bearing, Settling
  <2>5. Spread(k)' <= Spread(k)
    BY <1>1, <2>3, <2>4, SpreadType DEF Spread, One
  <2> QED
    BY <1>0, <1>1, <2>2, <2>5, SpreadType DEF Bounded, Spread, One
<1>16. CASE snd[s].job = k /\ Stop(s)
  <2>1. /\ row' = row /\ pending' = pending /\ idx' = idx /\ web' = web
        /\ snd'[s].pc = "idle" /\ snd'[s].job = NoJob
        /\ tale'[k].stops = tale[k].stops + 1
    BY <1>1, <1>2, <1>16 DEF Stop, store
  <2>2. Copies(k)' = Copies(k)
    BY <1>3, <2>1
  <2>3. One(ToSend(k)') + One(ToRetry(k)') + One(Borne(k)') + One(LeftOver(k)')
          <= One(ToSend(k)) + One(ToRetry(k)) + One(Borne(k)) + One(LeftOver(k)) + 1
    <3>1. CASE snd[s].pc \in {"leave_scheduled", "due_scheduled"}
      <4>1. /\ (ToRetry(k)' => ToRetry(k)) /\ ~Borne(k)'
            /\ LeftOver(k)' => LeftOver(k)
        BY <1>0, <1>16, <2>1, <3>1, Alone, AloneNext DEF Bearing, Holding, Settling
      <4> QED
        BY <4>1 DEF One
    <3>2. CASE snd[s].pc \in {"leave_retry", "due_retry"}
      <4>1. /\ (ToSend(k)' => ToSend(k)) /\ ~Borne(k)'
            /\ LeftOver(k)' => LeftOver(k)
        BY <1>0, <1>16, <2>1, <3>2, Alone, AloneNext DEF Bearing, Holding, Settling
      <4> QED
        BY <4>1 DEF One
    <3>3. CASE snd[s].pc \notin {"leave_scheduled", "due_scheduled", "leave_retry", "due_retry"}
      <4>1. /\ (ToSend(k)' => ToSend(k)) /\ (ToRetry(k)' => ToRetry(k)) /\ ~Borne(k)'
        BY <1>0, <1>16, <2>1, <3>3, Alone, AloneNext DEF Bearing, Holding, Settling
      <4> QED
        BY <4>1 DEF One
    <3> QED
      BY <3>1, <3>2, <3>3
  <2>4. Spread(k)' <= Spread(k) + 1
    BY <1>1, <2>2, <2>3, SpreadType DEF Spread, One
  <2> QED
    BY <1>0, <1>1, <2>1, <2>4, SpreadType DEF Bounded, Spread, One
<1>17. CASE snd[s].job = k /\ Promote(s)
  <2>1. /\ row' = row /\ idx' = idx /\ Push(k) /\ snd'[s].job = k
        /\ \/ snd[s].pc = "due_scheduled" /\ snd'[s].pc = "leave_scheduled"
           \/ snd[s].pc = "due_retry" /\ snd'[s].pc = "leave_retry"
    BY <1>2, <1>17 DEF Promote, At
  <2>2. Copies(k)' = Copies(k) + 1
    BY <1>3, <2>1
  <2>3. ~Borne(k)' /\ (LeftOver(k)' => LeftOver(k))
    BY <1>0, <1>17, <2>1, Alone, AloneNext DEF Bearing, Holding, Settling
  <2>4. \/ ToSend(k) /\ ~ToSend(k)' /\ (ToRetry(k)' => ToRetry(k))
        \/ ToRetry(k) /\ ~ToRetry(k)' /\ (ToSend(k)' => ToSend(k))
    BY <1>0, <1>17, <2>1, Alone, AloneNext
  <2>5. Spread(k)' <= Spread(k)
    BY <1>1, <2>2, <2>3, <2>4, SpreadType DEF Spread, One
  <2> QED
    BY <1>0, <1>1, <2>1, <2>5, SpreadType DEF Bounded, Spread, One
<1>18. CASE snd[s].job = k /\ Promoted(s)
  <2>1. /\ row' = row /\ pending' = pending /\ snd'[s].pc = "idle" /\ snd'[s].job = NoJob
        /\ \/ /\ snd[s].pc = "leave_scheduled"
              /\ k \notin idx'["scheduled"] /\ idx'["retry"] = idx["retry"]
           \/ /\ snd[s].pc = "leave_retry"
              /\ k \notin idx'["retry"] /\ idx'["scheduled"] = idx["scheduled"]
    BY <1>0, <1>2, <1>18 DEF Promoted, Del, Names, At
  <2>2. Copies(k)' <= Copies(k)
    BY <1>3, <2>1, SpreadType
  <2>3. /\ ToSend(k)' => ToSend(k)
        /\ ToRetry(k)' => ToRetry(k)
        /\ ~Borne(k)'
        /\ LeftOver(k)' => LeftOver(k)
    BY <1>0, <1>18, <2>1, Alone, AloneNext DEF Bearing, Holding, Settling
  <2> QED
    BY <1>0, <1>4, <2>1, <2>2, <2>3
<1>19. CASE snd[s].job = k /\ Report(s)
  <2>1. /\ row' = row /\ pending' = pending /\ snd'[s].pc = "idle" /\ snd'[s].job = NoJob
        /\ idx'["retry"] = idx["retry"] /\ idx'["scheduled"] = idx["scheduled"]
        /\ snd[s].pc = "report"
    BY <1>0, <1>2, <1>19 DEF Report, Add, Names, At
  <2>2. Copies(k)' <= Copies(k)
    BY <1>3, <2>1, SpreadType
  <2>3. /\ ToSend(k)' => ToSend(k)
        /\ ToRetry(k)' => ToRetry(k)
        /\ ~Borne(k)'
        /\ LeftOver(k)' => LeftOver(k)
    BY <1>0, <1>19, <2>1, Alone, AloneNext DEF Bearing, Holding, Settling
  <2> QED
    BY <1>0, <1>4, <2>1, <2>2, <2>3
<1>20. CASE snd[s].job = k /\ PutBack(s)
  <2>1. /\ idx' = idx /\ snd[s].pc = "look" /\ snd'[s].pc = "idle" /\ snd'[s].job = NoJob
        /\ row'[k].state = row[k].state
        /\ Push(k) \/ pending' = pending
    <3>1. row' = row \/ row' = [row EXCEPT ![k].updated = "fresh"]
      BY <1>20 DEF PutBack
    <3>2. row'[k].state = row[k].state
      BY <1>0, <3>1 DEF Row
    <3> QED
      BY <1>2, <1>20, <3>2 DEF PutBack, At
  <2>2. Copies(k)' <= Copies(k) + 1
    BY <1>3, <2>1, SpreadType
  <2>3. /\ ToSend(k)' => ToSend(k)
        /\ ToRetry(k)' => ToRetry(k)
        /\ Borne(k) /\ ~Borne(k)'
        /\ LeftOver(k)' => LeftOver(k)
    BY <1>0, <1>20, <2>1, Alone, AloneNext DEF Bearing, Holding, Settling
  <2>4. Spread(k)' <= Spread(k)
    BY <1>1, <2>2, <2>3, SpreadType DEF Spread, One
  <2> QED
    BY <1>0, <1>1, <2>1, <2>4, SpreadType DEF Bounded, Spread, One
<1>21. CASE FindDue(s, k)
  <2>1. /\ row' = row /\ pending' = pending /\ idx' = idx /\ snd[s].pc = "idle"
        /\ snd[s].job # k /\ snd'[s].job = k
        /\ \/ k \in idx["scheduled"] /\ snd'[s].pc = "due_scheduled"
           \/ k \in idx["retry"] /\ snd'[s].pc = "due_retry"
    BY <1>0, <1>2, <1>21 DEF FindDue, store, At
  <2>2. Copies(k)' <= Copies(k)
    BY <1>3, <2>1, SpreadType
  <2>3. /\ ToSend(k)' => ToSend(k)
        /\ ToRetry(k)' => ToRetry(k)
        /\ ~Borne(k)'
        /\ LeftOver(k)' => LeftOver(k)
    BY <1>0, <2>1, Alone, AloneNext DEF Bearing, Holding, Settling
  <2> QED
    BY <1>4, <2>1, <2>2, <2>3
<1>22. CASE ResetStale(s, k)
  <2> DEFINE Put(st) == [Mark(row[k], st) EXCEPT !.claimed = "none", !.interrupted = Interrupted(k)]
  <2>1. \A st \in States : Put(st).state = st
    BY <1>0 DEF Mark, Row
  <2>2. /\ row[k].state = "inflight" /\ snd[s].pc = "idle" /\ snd[s].job # k
        /\ \/ row' = [row EXCEPT ![k] = Put("pending")] /\ Push(k) /\ snd' = snd /\ idx' = idx
           \/ /\ row' = [row EXCEPT ![k] = Put("set_aside")] /\ pending' = pending
              /\ Take(s, "report", k) /\ Add("set_aside", k)
    BY <1>0, <1>22 DEF ResetStale, LeftBehind, At
  <2> HIDE DEF Put
  <2>3. /\ row'[k].state # "inflight" /\ (Push(k) \/ pending' = pending)
        /\ idx'["retry"] = idx["retry"] /\ idx'["scheduled"] = idx["scheduled"]
        /\ snd'[s].pc \in {"idle", "report"} /\ (snd'[s].job = k => snd'[s].pc = "report")
    BY <1>0, <1>2, <2>1, <2>2 DEF States, Add, Names
  <2>4. Copies(k)' <= Copies(k) + 1
    BY <1>3, <2>3, SpreadType
  <2>5. /\ ToSend(k)' => ToSend(k)
        /\ ToRetry(k)' => ToRetry(k)
        /\ ~Borne(k)'
        /\ LeftOver(k) /\ ~LeftOver(k)'
    BY <1>0, <2>2, <2>3, Alone, AloneNext DEF Bearing, Holding, Settling
  <2>6. Spread(k)' <= Spread(k)
    BY <1>1, <2>4, <2>5, SpreadType DEF Spread, One
  <2> QED
    BY <1>0, <1>1, <2>3, <2>6, SpreadType DEF Bounded, Spread, One
<1>23. CASE Look(s, k)
  <2>1. /\ row' = row /\ pending' = pending /\ idx' = idx /\ snd[s].pc = "idle"
        /\ row[k].state = "pending" /\ snd[s].job # k
        /\ snd'[s].pc = "look" /\ snd'[s].job = k
        /\ k \notin idx["scheduled"] /\ k \notin idx["retry"]
    BY <1>0, <1>2, <1>23 DEF Look, Unindexed, store, At
  <2>2. Copies(k) = 0 /\ Copies(k)' = 0
    BY <1>3, <1>23, <2>1, NoCopies DEF Look, Unindexed
  <2>3. ~ToSend(k)' /\ ~ToRetry(k)' /\ ~LeftOver(k)'
    BY <1>0, <2>1, AloneNext
  <2>4. Spread(k)' <= 1 + One(Relisted(k))
    BY <1>1, <2>2, <2>3 DEF Spread, One
  <2>5. 1 + One(Relisted(k)) <= 1 + tale'[k].stops + tale'[k].again
    BY <1>1, SpreadType DEF Bounded, One
  <2>6. Spread(k)' \in Nat
    BY <2>2 DEF Spread, One
  <2> QED
    BY <1>0, <1>1, <2>1, <2>4, <2>5, <2>6, SpreadType DEF Bounded, One
<1>24. CASE DropHeld(s, k)
  <2>1. /\ row'[k] = NoRow /\ pending' = pending /\ snd' = snd /\ snd[s].job = NoJob
        /\ idx'["retry"] = idx["retry"] /\ idx'["scheduled"] = idx["scheduled"]
    BY <1>0, <1>24 DEF DropHeld, Del, Names, At
  <2>2. Copies(k)' <= Copies(k) /\ row'[k].state = "none"
    BY <1>3, <2>1, NoRowFields, SpreadType
  <2>3. /\ ToSend(k)' => ToSend(k)
        /\ ToRetry(k)' => ToRetry(k)
        /\ ~Borne(k)' /\ ~LeftOver(k)'
    BY <1>0, <2>1, <2>2, Alone, AloneNext
  <2> QED
    BY <1>4, <2>2, <2>3
<1>25. CASE Pop(s) /\ pending[Len(pending)] = k
  <2>1. /\ row' = row /\ idx' = idx /\ snd[s].pc = "idle" /\ snd[s].job # k
        /\ snd'[s].pc = "popped" /\ snd'[s].job = k
    BY <1>0, <1>2, <1>25 DEF Pop, At
  <2>2. Copies(k)' + 1 = Copies(k)
    <3>1. pending # <<>> /\ pending' = SubSeq(pending, 1, Len(pending) - 1)
      BY <1>25 DEF Pop
    <3> QED
      BY <1>0, <1>25, <3>1, CopiesStep DEF One
  <2>3. /\ ToSend(k)' => ToSend(k)
        /\ ToRetry(k)' => ToRetry(k)
        /\ ~Borne(k)
        /\ LeftOver(k)' => LeftOver(k)
    BY <1>0, <2>1, Alone, AloneNext DEF Bearing, Holding, Settling
  <2>4. Spread(k)' <= Spread(k)
    BY <1>1, <2>2, <2>3, SpreadType DEF Spread, One
  <2>5. Spread(k)' \in Nat /\ Spread(k) \in Nat
    BY SpreadType DEF Spread, One
  <2> QED
    BY <1>0, <1>1, <2>1, <2>4, <2>5, SpreadType DEF Bounded
<1>26. CASE Pop(s) /\ snd[s].job = k
  BY <1>0, <1>26 DEF Pop, At
<1> QED
  BY <1>7, <1>8, <1>9, <1>10, <1>11, <1>12, <1>13, <1>14, <1>15, <1>16, <1>17, <1>18, <1>19,
     <1>20, <1>21, <1>22, <1>23, <1>24, <1>25, <1>26 DEF SenderStep, OneJob, Trouble

LEMMA SendersStill ==
  ASSUME NEW k, snd' = snd
  PROVE  /\ (k \in idx'["scheduled"] => k \in idx["scheduled"]) => (ToSend(k)' => ToSend(k))
         /\ (k \in idx'["retry"] => k \in idx["retry"]) => (ToRetry(k)' => ToRetry(k))
         /\ Borne(k)' <=> Borne(k)
         /\ (row'[k].state = "inflight" => row[k].state = "inflight")
              => (LeftOver(k)' => LeftOver(k))
BY DEF ToSend, ToRetry, Waits, Borne, LeftOver, AtWork

\* Each copy a request makes is somebody's doing, and counted with the job.
LEMMA BoundedWeb ==
  ASSUME Sound, Sound', NEW k \in Jobs, Bounded(k), web.pc # "move", "reschedule" \notin Asks,
         WebStep(k)
  PROVE  Bounded(k)'
<1>0. /\ row \in [Jobs -> Row] /\ row[k] \in Row /\ tale \in [Jobs -> Tale] /\ tale[k] \in Tale
      /\ idx \in [Names -> SUBSET Jobs] /\ ListOK /\ ListOK' /\ NoJob # k
      /\ web \in [pc : WebPcs, job : Jobs \cup {NoJob}, ids : SUBSET Jobs]
      /\ WebOK /\ TaleOK
  BY ConstantsAssumption DEF Sound, RowOK, TaleOK, ListOK, WebOK
<1>1. /\ pending' = pending => Copies(k)' = Copies(k)
      /\ Push(k) => Copies(k)' = Copies(k) + 1
  BY <1>0, CopiesStep DEF One
<1> DEFINE Steady ==
             /\ snd' = snd
             /\ row'[k].state = "inflight" => row[k].state = "inflight"
             /\ k \in idx'["scheduled"] => k \in idx["scheduled"]
             /\ k \in idx'["retry"] => k \in idx["retry"]
             /\ tale'[k].stops = tale[k].stops
<1>2. ASSUME Steady
      PROVE  /\ ToSend(k)' => ToSend(k)
             /\ ToRetry(k)' => ToRetry(k)
             /\ Borne(k)' => Borne(k)
             /\ LeftOver(k)' => LeftOver(k)
             /\ row'[k].state = "inflight" =>
                  \A s \in Senders : ~(snd'[s].job = k /\ snd'[s].pc \in {"parked", "queue"})
  BY <1>2, SendersStill DEF Bounded
<1>3. ASSUME Steady, pending' = pending, Relisted(k)' => Relisted(k),
             \/ tale'[k].again = tale[k].again
             \/ tale'[k].again = tale[k].again + 1
      PROVE  Bounded(k)'
  <2>1. Copies(k)' <= Copies(k) /\ tale'[k].stops >= tale[k].stops
        /\ tale'[k].again >= tale[k].again
    BY <1>1, <1>3, SpreadType
  <2>2. /\ Spread(k)' <= 1 + tale'[k].stops + tale'[k].again
        /\ Relisted(k)' => tale'[k].again > 0
    BY <1>2, <1>3, <2>1, SpreadFalls
  <2> QED
    BY <1>2, <1>3, <2>2 DEF Bounded
<1>4. ASSUME Steady, tale'[k].again = tale[k].again + 1,
             \/ Push(k) /\ (Relisted(k)' => Relisted(k))
             \/ pending' = pending
      PROVE  Bounded(k)'
  <2>1. Spread(k)' <= Spread(k) + 1
    BY <1>1, <1>2, <1>4, SpreadType DEF Spread, One
  <2>2. Spread(k) \in Nat /\ Spread(k)' \in Nat
    BY SpreadType DEF Spread, One
  <2> QED
    BY <1>2, <1>4, <2>1, <2>2, SpreadType DEF Bounded
<1>5. web' = WebIdle => ~Relisted(k)'
  BY DEF Relisted, WebIdle
<1>6. CASE Cancel(k)
  <2>1. /\ row'[k] = NoRow /\ snd' = snd /\ web' = web /\ pending' = pending
        /\ k \in idx'["scheduled"] => k \in idx["scheduled"]
        /\ k \in idx'["retry"] => k \in idx["retry"]
        /\ tale'[k].stops = tale[k].stops /\ tale'[k].again = tale[k].again
    BY <1>0, <1>6 DEF Cancel, Names, Tale
  <2> QED
    BY <1>3, <2>1, NoRowFields DEF Relisted
<1>7. CASE Withhold(k) \/ Release(k) \/ Retry(k)
  <2>1. /\ row' = row /\ snd' = snd /\ tale' = tale /\ pending' = pending
        /\ web' = WebIdle \/ web'.pc \in {"mark", "restore", "retry"}
        /\ idx'["scheduled"] = idx["scheduled"] /\ idx'["retry"] = idx["retry"]
    BY <1>0, <1>7 DEF Withhold, Release, Retry, Add, Del, Names, Follow, Answer
  <2> QED
    BY <1>3, <1>5, <2>1 DEF Relisted
<1>8. CASE Unset(k)
  <2>1. /\ row'[k] = [row[k] EXCEPT !.state = "pending"] /\ Push(k)
        /\ snd' = snd /\ web' = web /\ idx' = idx
        /\ tale'[k] = [tale[k] EXCEPT !.again = @ + 1]
    BY <1>0, <1>8 DEF Unset
  <2>2. /\ row'[k].state = "pending"
        /\ tale'[k].stops = tale[k].stops /\ tale'[k].again = tale[k].again + 1
    BY <1>0, <2>1 DEF Row, Tale
  <2> QED
    BY <1>4, <2>1, <2>2 DEF Relisted
<1>9. CASE web.job = k /\ MarkWithheld
  <2>1. /\ row'[k] = [row[k] EXCEPT !.state = "withheld"] /\ pending' = pending
        /\ snd' = snd /\ idx' = idx /\ web'.pc = "take"
    BY <1>0, <1>9 DEF MarkWithheld, Follow
  <2>2. /\ row'[k].state = "withheld"
        /\ tale'[k].stops = tale[k].stops /\ tale'[k].again = tale[k].again
    BY <1>0, <1>9, <2>1, MarkedTale DEF Row, SameHistory
  <2> QED
    BY <1>3, <2>1, <2>2 DEF Relisted
<1>10. CASE web.job = k /\ TakeOut
  <2>1. /\ row' = row /\ snd' = snd /\ pending' = pending
        /\ web' = WebIdle \/ web'.pc = "undo"
        /\ k \in idx'["scheduled"] => k \in idx["scheduled"]
        /\ idx'["retry"] = idx["retry"]
    BY <1>0, <1>10 DEF TakeOut, Del, Names, Follow, Answer
  <2>2. tale'[k].stops = tale[k].stops /\ tale'[k].again = tale[k].again
    BY <1>0, <1>10, TakeOutTale DEF SameHistory
  <2> QED
    BY <1>3, <1>5, <2>1, <2>2 DEF Relisted
<1>11. CASE web.job = k /\ Undo
  <2>1. /\ snd' = snd /\ idx' = idx /\ pending' = pending /\ web' = WebIdle
        /\ \/ row' = row /\ tale' = tale
           \/ /\ row'[k] = [row[k] EXCEPT !.state = "pending"]
              /\ tale'[k] = [tale[k] EXCEPT !.again = @ + 1]
    BY <1>0, <1>11 DEF Undo, Answer
  <2>2. /\ row'[k].state = "inflight" => row[k].state = "inflight"
        /\ tale'[k].stops = tale[k].stops
        /\ tale'[k].again = tale[k].again \/ tale'[k].again = tale[k].again + 1
    BY <1>0, <2>1 DEF Row, Tale
  <2> QED
    BY <1>3, <1>5, <2>1, <2>2
\* Listing it again follows, which is counted already.
<1>12. CASE web.job = k /\ Restore
  <2>1. snd' = snd /\ idx' = idx /\ pending' = pending
    BY <1>12 DEF Restore
  <2>2. CASE /\ row' = [row EXCEPT ![k] = Mark(@, "pending")]
             /\ tale' = [tale EXCEPT ![k].taken = FALSE, ![k].again = @ + 1]
    <3>1. row'[k] = Mark(row[k], "pending")
      BY <1>0, <2>2
    <3>2. /\ row'[k].state = "pending"
          /\ tale'[k].stops = tale[k].stops /\ tale'[k].again = tale[k].again + 1
      BY <1>0, <2>2, <3>1, MarkFields DEF States, Tale
    <3> QED
      BY <1>4, <2>1, <3>2
  <2>3. CASE /\ row' = [row EXCEPT ![k] = NoRow] /\ Answer
             /\ tale' = [tale EXCEPT ![k].ended = TRUE]
    <3>1. /\ row'[k] = NoRow /\ web' = WebIdle
          /\ tale'[k].stops = tale[k].stops /\ tale'[k].again = tale[k].again
      BY <1>0, <2>3 DEF Answer, Tale
    <3> QED
      BY <1>3, <1>5, <2>1, <3>1, NoRowFields
  <2> QED
    BY <1>12, <2>2, <2>3 DEF Restore
<1>13. CASE web.job = k /\ Relist
  <2>1. /\ row' = row /\ snd' = snd /\ tale' = tale /\ pending' = pending /\ web' = WebIdle
        /\ idx'["retry"] = idx["retry"] /\ Relisted(k)
    BY <1>0, <1>13 DEF Relist, Answer, Add, Names, Relisted
  <2>2. /\ ToRetry(k)' => ToRetry(k)
        /\ Borne(k)' => Borne(k)
        /\ LeftOver(k)' => LeftOver(k)
        /\ ~Relisted(k)'
    BY <1>5, <2>1, SendersStill
  <2>3. Copies(k)' = Copies(k)
    BY <1>1, <2>1
  <2>4. Spread(k)' <= Spread(k)
    BY <2>1, <2>2, <2>3, SpreadType DEF Spread, One
  <2>5. Spread(k) \in Nat /\ Spread(k)' \in Nat
    BY SpreadType DEF Spread, One
  <2> QED
    BY <2>1, <2>2, <2>4, <2>5, SpreadType DEF Bounded
<1>14. ASSUME Again(k), snd' = snd, idx' = idx, ~Relisted(k)' PROVE Bounded(k)'
  <2>1. CASE row[k] = NoRow
    BY <1>3, <1>14, <2>1 DEF Again
  <2>2. CASE row[k] # NoRow
    <3>1. row'[k] = Mark(row[k], "pending") /\ Push(k)
      BY <1>0, <1>14, <2>2 DEF Again
    <3>2. /\ row'[k].state = "pending"
          /\ tale'[k].stops = tale[k].stops /\ tale'[k].again = tale[k].again + 1
      BY <1>0, <1>14, <2>2, <3>1, MarkFields DEF Again, States, Tale
    <3> QED
      BY <1>4, <1>14, <3>1, <3>2
  <2> QED
    BY <2>1, <2>2
<1>15. CASE web.job = k /\ RetryQueued
  BY <1>5, <1>14, <1>15 DEF RetryQueued, Answer
<1>16. CASE ResumeOne(k)
  <2>1. snd' = snd /\ idx' = idx /\ ~Relisted(k)'
    BY <1>0, <1>16 DEF ResumeOne, WebOK, Relisted
  <2>2. CASE Again(k)
    BY <1>14, <2>1, <2>2
  <2>3. CASE /\ row' = [row EXCEPT ![k] = NoRow] /\ tale' = [tale EXCEPT ![k].ended = TRUE]
             /\ UNCHANGED pending
    <3>1. /\ row'[k] = NoRow
          /\ tale'[k].stops = tale[k].stops /\ tale'[k].again = tale[k].again
      BY <1>0, <2>3 DEF Tale
    <3> QED
      BY <1>3, <2>1, <2>3, <3>1, NoRowFields
  <2> QED
    BY <1>16, <2>2, <2>3 DEF ResumeOne
<1>17. ~Reschedule(k) /\ ~Move
  BY DEF Reschedule, Ask, Move
<1> QED
  BY <1>6, <1>7, <1>8, <1>9, <1>10, <1>11, <1>12, <1>13, <1>15, <1>16, <1>17 DEF WebStep

LEMMA BoundedNext ==
  ASSUME Sound, Sound', QueuedFirst, \A s, t \in Senders : s = t, "reschedule" \notin Asks,
         web.pc # "move", [Next]_vars, NEW k \in Jobs, Bounded(k)
  PROVE  Bounded(k)'
<1>0. /\ row \in [Jobs -> Row] /\ row[k] \in Row /\ tale \in [Jobs -> Tale] /\ tale[k] \in Tale
      /\ idx \in [Names -> SUBSET Jobs] /\ ListOK /\ ListOK'
  BY DEF Sound, RowOK, TaleOK, ListOK
<1>1. ASSUME NEW s \in Senders, SenderStep(s, k) PROVE Bounded(k)'
  <2>1. Senders = {s}
    OBVIOUS
  <2> QED
    BY <1>1, <2>1, BoundedSender
<1>2. CASE WebStep(k)
  BY <1>2, BoundedWeb
<1>3. ASSUME row'[k].state = "inflight" => row[k].state = "inflight", snd' = snd, tale' = tale,
             web'.job = k => web' = web,
             k \in idx'["scheduled"] => k \in idx["scheduled"],
             k \in idx'["retry"] => k \in idx["retry"], Copies(k)' <= Copies(k)
      PROVE  Bounded(k)'
  <2>1. tale'[k].stops >= tale[k].stops /\ tale'[k].again >= tale[k].again
    BY <1>3, SpreadType
  <2>2. Relisted(k)' => Relisted(k)
    BY <1>3 DEF Relisted
  <2>3. /\ Spread(k)' <= 1 + tale'[k].stops + tale'[k].again
        /\ Relisted(k)' => tale'[k].again > 0
    BY <1>3, <2>1, <2>2, SpreadFalls, SendersStill
  <2> QED
    BY <1>3, <2>3 DEF Bounded
<1>4. CASE Enqueue(k)
  <2>1. Nowhere(k)
    BY <1>4 DEF Enqueue, QueuedFirst
  <2>2. Copies(k) = 0
    BY <2>1, NoCopies DEF Nowhere, InPending
  <2>3. /\ row'[k].state = "pending" /\ snd' = snd /\ web' = web
        /\ idx'["retry"] = idx["retry"]
        /\ \/ Push(k) /\ idx' = idx
           \/ UNCHANGED pending
    BY <1>0, <1>4, NoRowFields DEF Enqueue, Add, Names
  <2>4. ~ToRetry(k)' /\ ~Borne(k)' /\ ~LeftOver(k)' /\ ~Relisted(k)'
    BY <2>1, <2>3 DEF Nowhere, ToRetry, Waits, Borne, LeftOver, Relisted, Names
  <2>5. \/ Copies(k)' = 0
        \/ Copies(k)' = 1 /\ ~ToSend(k)'
    <3>1. CASE UNCHANGED pending
      BY <1>0, <2>2, <3>1, CopiesStep
    <3>2. CASE Push(k) /\ idx' = idx
      <4>1. Copies(k)' = 1
        BY <1>0, <2>2, <3>2, CopiesStep DEF One
      <4>2. ~ToSend(k)'
        BY <2>1, <2>3, <3>2 DEF Nowhere, ToSend, Waits, Names
      <4> QED
        BY <4>1, <4>2
    <3> QED
      BY <2>3, <3>1, <3>2
  <2>6. Spread(k)' <= 1
    BY <2>4, <2>5 DEF Spread, One
  <2>7. Spread(k)' \in Nat
    BY SpreadType DEF Spread, One
  <2> QED
    BY <2>3, <2>4, <2>6, <2>7, SpreadType DEF Bounded
<1>5. CASE ClockStep(k)
  <2>1. /\ tale' = tale /\ snd' = snd /\ web' = web /\ idx' = idx /\ pending' = pending
    BY <1>5 DEF ClockStep, Time, SendTime, Ripen, Age, Expire
  <2>2. row'[k].state = "inflight" => row[k].state = "inflight"
    <3>1. CASE SendTime(k) \/ Ripen(k)
      BY <1>0, <3>1 DEF SendTime, Ripen, Row
    <3>2. CASE Age(k)
      BY <1>0, <3>2 DEF Age, Row
    <3>3. CASE Expire(k)
      BY <1>0, <3>3, NoRowFields DEF Expire
    <3> QED
      BY <1>5, <3>1, <3>2, <3>3 DEF ClockStep, Time
  <2>3. Copies(k)' <= Copies(k)
    BY <1>0, <2>1, CopiesStep
  <2> QED
    BY <1>3, <2>1, <2>2, <2>3
<1>6. CASE ResumeEnds
  <2>1. /\ row' = row /\ tale' = tale /\ snd' = snd /\ pending' = pending /\ web'.job # k
        /\ idx'["scheduled"] = idx["scheduled"] /\ idx'["retry"] = idx["retry"]
    BY <1>6, ResumeEndsKeep, ConstantsAssumption DEF Names
  <2>2. Copies(k)' <= Copies(k)
    BY <1>0, <2>1, CopiesStep
  <2> QED
    BY <1>3, <2>1, <2>2
<1>7. CASE Kept(k) /\ Copies(k)' <= Copies(k)
  <2>1. /\ ToSend(k)' <=> ToSend(k)
        /\ ToRetry(k)' <=> ToRetry(k)
        /\ Borne(k)' <=> Borne(k)
        /\ LeftOver(k)' <=> LeftOver(k)
        /\ Relisted(k)' <=> Relisted(k)
    BY <1>7 DEF Kept, SndKept, ToSend, ToRetry, Waits, Borne, LeftOver, AtWork, Relisted, Names
  <2>2. tale'[k] = tale[k]
    BY <1>7 DEF Kept
  <2>3. tale'[k].stops >= tale[k].stops /\ tale'[k].again >= tale[k].again
    BY <2>2, SpreadType
  <2>4. /\ Spread(k)' <= 1 + tale'[k].stops + tale'[k].again
        /\ Relisted(k)' => tale'[k].again > 0
    BY <1>7, <2>1, <2>3, SpreadFalls
  <2> QED
    BY <1>7, <2>4 DEF Bounded, Kept, SndKept
<1> QED
  BY <1>1, <1>2, <1>4, <1>5, <1>6, <1>7, Steps, PushOwn

BoundedInv == Sound /\ QueuedFirst /\ web.pc # "move" /\ \A k \in Jobs : Bounded(k)

\* With one sender, and while nobody moves a job, the queue holds one copy of an
\* id, and one more for each stop over it and each time a person pushed it: a
\* failed job that is parked, a claim left behind and an id whose claim did not
\* take each give back the copy they used up (schedule_retry_on, recover_on).
THEOREM OneSenderFewCopies ==
  ASSUME \A s, t \in Senders : s = t, "reschedule" \notin Asks
  PROVE  Spec => []QueueBounded
<1>1. Init => BoundedInv
  <2>1. ASSUME Init, NEW k \in Jobs PROVE Bounded(k)
    <3>1. /\ row[k].state = "none" /\ pending = <<>> /\ tale[k] = NoTale /\ web = WebIdle
          /\ k \notin idx["scheduled"] /\ k \notin idx["retry"]
          /\ \A s \in Senders : snd[s].job # k
      BY <2>1, NoRowFields, ConstantsAssumption DEF Init, Idle, Names
    <3>2. Copies(k) = 0
      BY <3>1, NoCopies
    <3>3. ~ToSend(k) /\ ~ToRetry(k) /\ ~Borne(k) /\ ~LeftOver(k) /\ ~Relisted(k)
      BY <3>1 DEF ToSend, ToRetry, Waits, Borne, LeftOver, Relisted, WebIdle
    <3> QED
      BY <3>1, <3>2, <3>3 DEF Bounded, Spread, One, NoTale
  <2>2. Init => web.pc # "move"
    BY DEF Init, WebIdle
  <2> QED
    BY <2>1, <2>2, SoundInit, QueuedInit DEF BoundedInv
<1>2. BoundedInv /\ [Next]_vars => BoundedInv'
  BY SoundNext, QueuedNext, NothingMoves, BoundedNext DEF BoundedInv
<1>3. BoundedInv => QueueBounded
  <2> SUFFICES ASSUME BoundedInv, NEW k \in Jobs
               PROVE  Copies(k) <= 1 + tale[k].stops + tale[k].again
    BY DEF QueueBounded
  <2>1. /\ Copies(k) \in Nat /\ tale[k].stops \in Nat /\ tale[k].again \in Nat
    <3>1. tale[k] \in Tale /\ pending \in Seq(Jobs)
      BY DEF BoundedInv, Sound, TaleOK, ListOK
    <3>2. Copies(k) = Cardinality(Occ(pending, k))
      BY DEF Copies, Occ
    <3> QED
      BY <3>1, <3>2, OccFinite DEF Tale
  <2>2. Spread(k) <= 1 + tale[k].stops + tale[k].again
    BY DEF BoundedInv, Bounded
  <2> QED
    BY <2>1, <2>2 DEF Spread, One
<1> QED
  BY <1>1, <1>2, <1>3, PTL DEF Spec

===============================================================================
