-------------------------- MODULE SpoolServiceProofs --------------------------
(***************************************************************************)
(* What the drain's service of the recipients amounts to, for every spool, *)
(* envelope, routing table, script and limit: what a record says was done  *)
(* was done, nobody is forgotten when a file is removed, the spool's       *)
(* promise is kept, and no copy, job or death is one too many.             *)
(***************************************************************************)
EXTENDS SpoolDrainProofs

-----------------------------------------------------------------------------
(* What was served stays served. *)

Writing == {"write", "writing", "ingest"}

\* A step of a file was taken, as its effects show.
Taken(f, step) == IF step = Sent THEN f \in sentIndexed ELSE Served(f, step)

\* A step takes away no copy, no decision of a script and no job.
EffectsStay ==
  /\ \A f \in Files, b \in Boxes : HasCopy(f, b) => HasCopy(f, b)'
  /\ \A f \in Files : dropped[f] \subseteq dropped'[f]
  /\ jobs \subseteq jobs' /\ sentIndexed \subseteq sentIndexed'

\* A step has effects on the file in hand only.
EffectsInHand ==
  /\ \A f \in Files \ {file}, b \in Boxes : HasCopy(f, b)' => HasCopy(f, b)
  /\ \A f \in Files \ {file} : dropped'[f] = dropped[f]
  /\ \A k \in jobs' \ jobs : k[1] = file

LEMMA TakenStays ==
  ASSUME EffectsStay, NEW f \in Files
  PROVE  /\ \A r \in Rcpts : Served(f, r) => Served(f, r)'
         /\ \A s \in Steps : Taken(f, s) => Taken(f, s)'
<1>1. ASSUME NEW r \in Rcpts, Served(f, r) PROVE Served(f, r)'
  BY <1>1 DEF EffectsStay, Served, Reached
<1> QED
  BY <1>1 DEF Taken, Steps, EffectsStay

LEMMA ServedInHand ==
  ASSUME EffectsInHand, NEW f \in Files \ {file}, NEW r \in Rcpts, Served(f, r)'
  PROVE  Served(f, r)
<1>1. PICK a \in Targets[r] : Reached(f, r, a)'
  BY DEF Served
<1>2. CASE a \in Outside /\ <<f, "relay", r, a>> \in jobs'
  BY <1>2 DEF EffectsInHand, Served, Reached
<1>3. CASE a \in Boxes /\ (HasCopy(f, a)' \/ a \in dropped'[f])
  BY <1>3 DEF EffectsInHand, Served, Reached
<1>4. CASE a \in Boxes /\ <<f, "redirect", a, a>> \in jobs'
  BY <1>4 DEF EffectsInHand, Served, Reached
<1> QED
  BY <1>1, <1>2, <1>3, <1>4 DEF Reached

LEMMA NoEffects ==
  ASSUME UNCHANGED <<inNew, inCur, dropped, jobs>>, sentIndexed \subseteq sentIndexed'
  PROVE  EffectsStay /\ EffectsInHand
BY DEF EffectsStay, EffectsInHand, HasCopy

LEMMA QueueEffects ==
  ASSUME NEW step, NEW of, NEW to, QueueFails(Key(step, of, to))
  PROVE  jobs \subseteq jobs' /\ \A k \in jobs' \ jobs : k[1] = file
BY DEF QueueFails, QueueOnce, QueueAlways, Key, kevyVars

\* The effects of a target's turn.
LEMMA ServeEffects ==
  ASSUME TypeOK, NEW t \in Target, Serve(t)
  PROVE  EffectsStay /\ EffectsInHand /\ UNCHANGED <<inNew, inCur, ingests, sentIndexed>>
<1> USE DEF Serve, TargetFails, Relay, RelayFails, Discard, Reject, Redirect, RedirectFails,
            Forward, Keep, Decided, Turn, boxVars
<1>1. UNCHANGED <<inNew, inCur, ingests, sentIndexed>>
  OBVIOUS
<1>2. /\ \A f \in Files : dropped[f] \subseteq dropped'[f]
      /\ \A f \in Files \ {file} : dropped'[f] = dropped[f]
  BY DEF Drop, TypeOK, BoxTypeOK
<1>3. UNCHANGED jobs \/ \E step, of, to : QueueFails(Key(step, of, to))
  <2>1. CASE TargetFails(t) \/ Discard(t) \/ Keep(t)
    BY <2>1 DEF kevyVars
  <2>2. CASE Relay(t) \/ RelayFails(t) \/ Reject(t)
    BY <2>2 DEF QueueFails
  <2>3. CASE Redirect(t) \/ RedirectFails(t) \/ Forward(t)
    BY <2>3 DEF QueueFails
  <2> QED
    BY <2>1, <2>2, <2>3
<1>4. jobs \subseteq jobs' /\ \A k \in jobs' \ jobs : k[1] = file
  BY <1>3, QueueEffects
<1> QED
  BY <1>1, <1>2, <1>4 DEF EffectsStay, EffectsInHand, HasCopy

\* The effects of writing a copy.
LEMMA CopyEffects ==
  ASSUME TypeOK, Copy
  PROVE  EffectsStay /\ EffectsInHand /\ UNCHANGED <<dropped, jobs, sentIndexed>>
<1>0. /\ file \in Files /\ tgt.to \in Boxes
      /\ inNew \in [Files -> [Boxes -> {"none", "torn", "whole"}]]
      /\ inCur \in [Files -> [Boxes -> {"none", "torn", "whole"}]]
  BY DEF Copy, FindCopy, CreateCopy, FinishCopy, CopyFails, Ingest, TypeOK, ProcTypeOK, BoxTypeOK
<1>1. UNCHANGED <<dropped, jobs, sentIndexed>>
  BY DEF Copy, FindCopy, CreateCopy, FinishCopy, CopyFails, Ingest, boxVars, kevyVars
<1>2. CASE FindCopy \/ CopyFails \/ Ingest
  BY <1>1, <1>2, NoEffects DEF FindCopy, CopyFails, Ingest, boxVars
<1>3. CASE CreateCopy \/ FinishCopy
  <2>1. /\ inNew'[file][tgt.to] # "none" \/ inCur'[file][tgt.to] # "none"
        /\ \A f \in Files, b \in Boxes : (f # file \/ b # tgt.to) =>
              inNew'[f][b] = inNew[f][b] /\ inCur'[f][b] = inCur[f][b]
    <3>1. CASE CreateCopy
      BY <1>0, <3>1 DEF CreateCopy
    <3>2. CASE FinishCopy
      BY <1>0, <3>2 DEF FinishCopy
    <3> QED
      BY <1>3, <3>1, <3>2
  <2> QED
    BY <1>1, <2>1 DEF EffectsStay, EffectsInHand, HasCopy
<1> QED
  BY <1>2, <1>3 DEF Copy

\* A client's move of a copy leaves it where it counts.
LEMMA MoveEffects ==
  ASSUME TypeOK, NEW f \in Files, NEW b \in Boxes, ClientMoves(f, b)
  PROVE  /\ EffectsStay /\ EffectsInHand
         /\ \A g \in Files, c \in Boxes : HasCopy(g, c)' <=> HasCopy(g, c)
<1>1. /\ inNew \in [Files -> [Boxes -> {"none", "torn", "whole"}]]
      /\ inCur \in [Files -> [Boxes -> {"none", "torn", "whole"}]]
  BY DEF TypeOK, BoxTypeOK
<1>2. \A g \in Files, c \in Boxes : HasCopy(g, c)' <=> HasCopy(g, c)
  BY <1>1 DEF ClientMoves, HasCopy
<1> QED
  BY <1>2 DEF ClientMoves, EffectsStay, EffectsInHand, kevyVars

\* Every step keeps the effects there are, and adds some for the file in hand only.
LEMMA NextEffects ==
  ASSUME TypeOK, [Next]_vars
  PROVE  EffectsStay /\ EffectsInHand
<1>1. CASE UNCHANGED vars
  BY <1>1, NoEffects DEF vars, boxVars, kevyVars
<1>2. CASE Walk
  BY <1>2, NoEffects DEF Walk, StartTick, Begin, Refuse, boxVars, kevyVars
<1>3. CASE SendersCopy
  BY <1>3, NoEffects DEF SendersCopy, SkipSender, WriteSent, SentDone, SentFails, boxVars, kevyVars
<1>4. CASE EachRcpt
  BY <1>4, NoEffects DEF EachRcpt, SkipDone, LookupFails, StartRcpt, EndRcpt, boxVars, kevyVars
<1>5. CASE Close \/ Finish \/ SetAside \/ PoisonDies \/ Crash
  BY <1>5, NoEffects DEF Close, Finish, SetAside, AsideRecord, AsideMove, AsideFails, AsideForget,
                         Tell, PoisonDies, Crash, Die, boxVars, kevyVars
<1>6. ASSUME NEW f \in Files, Arrive(f) \/ Reinject(f) \/ Age(f)
      PROVE  EffectsStay /\ EffectsInHand
  BY <1>6, NoEffects DEF Arrive, Reinject, Age, boxVars, kevyVars
<1>7. ASSUME NEW k \in Keys, ExpireMarker(k) PROVE EffectsStay /\ EffectsInHand
  BY <1>7, NoEffects DEF ExpireMarker, boxVars
<1>8. CASE Environment
  BY <1>5, <1>6, <1>7, <1>8, MoveEffects DEF Environment
<1> QED
  BY <1>1, <1>2, <1>3, <1>4, <1>5, <1>8, ServeEffects, CopyEffects DEF Next, Drain

-----------------------------------------------------------------------------
(* The shapes of a step within a recipient. *)

\* What a target's turn does to the process: its copy is consumed, it is missed,
\* or a copy of it is about to be written.
LEMMA ServeShape ==
  ASSUME TypeOK, marker \subseteq jobs, NEW t \in Target, Serve(t)
  PROVE  /\ pc = "targets" /\ t \in tgts /\ file \in Files /\ rcpt \in Rcpts
         /\ UNCHANGED <<spool, rec, beside, told, file, mem, retry, todo, rcpt, any, walk,
                        deaths, durable, stale, crashes, reinjects>>
         /\ \/ pc' = "targets" /\ Consume(t) /\ Reached(file, rcpt, t.to)'
            \/ pc' = "targets" /\ Miss(t)
            \/ pc' = "write" /\ tgt' = t /\ UNCHANGED <<tgts, took, missed>>
         /\ faults' \in Nat /\ faults' >= faults
<1> USE DEF Turn, Decided
<1>1. pc = "targets" /\ t \in tgts /\ file \in Files /\ rcpt \in Rcpts
  BY DEF Serve, TargetFails, Relay, RelayFails, Discard, Reject, Redirect, RedirectFails,
         Forward, Keep, TypeOK, ProcTypeOK, RcptPcs
<1>2. UNCHANGED <<spool, rec, beside, told, file, mem, retry, todo, rcpt, any, walk,
                  deaths, durable, stale, crashes, reinjects>>
  BY DEF Serve, TargetFails, Relay, RelayFails, Discard, Reject, Redirect, RedirectFails,
         Forward, Keep, spoolVars, handVars, histVars
<1>3. faults' \in Nat /\ faults' >= faults
  BY DEF Serve, TargetFails, Relay, RelayFails, Discard, Reject, Redirect, RedirectFails,
         Forward, Keep, Fault, histVars, TypeOK, HistTypeOK
<1>4. CASE TargetFails(t) \/ RelayFails(t)
  BY <1>1, <1>2, <1>3, <1>4 DEF TargetFails, RelayFails
<1>5. CASE Relay(t)
  <2>1. <<file, "relay", rcpt, t.to>> \in jobs'
    BY <1>5 DEF Relay, QueueOnce, QueueAlways, Key, kevyVars
  <2>2. Reached(file, rcpt, t.to)'
    BY <1>2, <1>5, <2>1 DEF Relay, Reached
  <2> QED
    BY <1>1, <1>2, <1>3, <1>5, <2>2 DEF Relay
<1>6. CASE Discard(t) \/ Reject(t)
  <2>1. t.to \in dropped'[file] /\ t.to \in Boxes
    BY <1>1, <1>6 DEF Discard, Reject, Drop, TypeOK, BoxTypeOK
  <2>2. Reached(file, rcpt, t.to)'
    BY <1>2, <2>1 DEF Reached
  <2> QED
    BY <1>1, <1>2, <1>3, <1>6, <2>2 DEF Discard, Reject
<1>7. CASE Redirect(t)
  <2>1. <<file, "redirect", t.to, t.to>> \in jobs'
    BY <1>7 DEF Redirect, QueueOnce, QueueAlways, Key, kevyVars
  <2>2. Reached(file, rcpt, t.to)'
    BY <1>2, <1>7, <2>1 DEF Redirect, Reached
  <2> QED
    BY <1>1, <1>2, <1>3, <1>7, <2>2 DEF Redirect
<1>8. CASE RedirectFails(t) \/ Forward(t) \/ Keep(t)
  BY <1>1, <1>2, <1>3, <1>8 DEF RedirectFails, Forward, Keep, StartWrite, rcptVars
<1> QED
  BY <1>4, <1>5, <1>6, <1>7, <1>8 DEF Serve

\* What writing a copy does to the process.
LEMMA CopyShape ==
  ASSUME TypeOK, Copy
  PROVE  /\ pc \in Writing /\ tgt \in Target /\ tgt.to \in Boxes /\ file \in Files /\ rcpt \in Rcpts
         /\ UNCHANGED <<spool, rec, beside, told, file, mem, retry, todo, rcpt, any, walk,
                        deaths, durable, stale, crashes, reinjects>>
         /\ \/ pc' \in {"writing", "ingest"} /\ UNCHANGED <<tgts, tgt, took, missed>>
            \/ pc = "ingest" /\ pc' = "targets" /\ Consume(tgt)
            \/ pc # "ingest" /\ pc' = "targets" /\ Miss(tgt)
         /\ faults' \in Nat /\ faults' >= faults
<1>1. pc \in Writing /\ tgt \in Target /\ tgt.to \in Boxes /\ file \in Files /\ rcpt \in Rcpts
  BY DEF Copy, FindCopy, CreateCopy, FinishCopy, CopyFails, Ingest, Writing, RcptPcs, TypeOK,
         ProcTypeOK
<1>2. UNCHANGED <<spool, rec, beside, told, file, mem, retry, todo, rcpt, any, walk,
                  deaths, durable, stale, crashes, reinjects>>
  BY DEF Copy, FindCopy, CreateCopy, FinishCopy, CopyFails, Ingest, spoolVars, handVars, rcptVars,
         histVars
<1>3. faults' \in Nat /\ faults' >= faults
  BY DEF Copy, FindCopy, CreateCopy, FinishCopy, CopyFails, Ingest, Fault, histVars, TypeOK,
         HistTypeOK
<1> QED
  BY <1>1, <1>2, <1>3 DEF Copy, FindCopy, CreateCopy, FinishCopy, CopyFails, Ingest, rcptVars

-----------------------------------------------------------------------------
(* Records tell the truth. *)

RecordsTrue ==
  \A f \in Files : \A s \in rec[f].done \cup beside[f].done \cup durable[f] : Taken(f, s)

HandTrue == pc # "idle" => \A s \in mem.done : Taken(file, s)

\* The recipient in hand is one of the file's, and a copy of it that counts as
\* consumed has been.
HandServes ==
  /\ Attempting => todo \subseteq To[file]
  /\ pc \in RcptPcs =>
       /\ rcpt \in To[file] /\ rcpt \notin todo
       /\ \A t \in tgts : t.counts => t.to \in Targets[rcpt]
       /\ took => Served(file, rcpt)
  /\ pc \in Writing => tgt \in tgts
  /\ pc = "ingest" => HasCopy(file, tgt.to)

Truthful == marker \subseteq jobs /\ RecordsTrue /\ HandTrue /\ HandServes

\* What the records say stays true; a record that says no more says the truth.
LEMMA TruthStays ==
  ASSUME TypeOK, RecordsTrue, EffectsStay
  PROVE  /\ \A f \in Files : \A s \in rec[f].done \cup beside[f].done \cup durable[f] : Taken(f, s)'
         /\ (\A f \in Files : /\ rec'[f].done \subseteq rec[f].done
                             /\ beside'[f].done \subseteq beside[f].done
                             /\ durable'[f] = durable[f]) => RecordsTrue'
<1>1. ASSUME NEW f \in Files
      PROVE  rec[f].done \cup beside[f].done \cup durable[f] \subseteq Steps
  BY RecordParts DEF TypeOK, SpoolTypeOK, HistTypeOK
<1>2. \A f \in Files : \A s \in rec[f].done \cup beside[f].done \cup durable[f] : Taken(f, s)'
  BY <1>1, TakenStays DEF RecordsTrue
<1> QED
  BY <1>2 DEF RecordsTrue

\* A step that leaves what the records say alone.
LEMMA SameRecords ==
  ASSUME TypeOK, RecordsTrue, EffectsStay, UNCHANGED <<rec, beside, durable>>
  PROVE  RecordsTrue'
BY TruthStays DEF RecordsTrue

\* A step that saves a record of the file in hand, or not.
LEMMA SavedRecord ==
  ASSUME TypeOK, RecordsTrue, EffectsStay, UNCHANGED beside, NEW f \in Files, NEW m \in Record,
         \A s \in m.done : Taken(f, s)', Save(f, m) \/ UNCHANGED <<rec, durable>>
  PROVE  RecordsTrue'
<1>1. CASE UNCHANGED <<rec, durable>>
  BY <1>1, SameRecords
<1>2. CASE rec' = [rec EXCEPT ![f] = m] /\ durable' = [durable EXCEPT ![f] = @ \cup m.done]
  <2>1. ASSUME NEW g \in Files \ {f} PROVE rec'[g] = rec[g] /\ durable'[g] = durable[g]
    BY <1>2 DEF TypeOK, SpoolTypeOK, HistTypeOK
  <2>2. rec'[f] = m /\ durable'[f] = durable[f] \cup m.done
    BY <1>2 DEF TypeOK, SpoolTypeOK, HistTypeOK
  <2> QED
    BY <2>1, <2>2, TruthStays DEF RecordsTrue
<1> QED
  BY <1>1, <1>2 DEF Save

\* What the process holds is let go of.
LEMMA LettingGoTrue ==
  ASSUME LetGo
  PROVE  HandTrue' /\ HandServes'
BY DEF LetGo, HandTrue, HandServes, Attempting, AttemptPcs, RcptPcs, Writing

LEMMA InitTruthful == ASSUME Init PROVE Truthful
BY DEF Init, Truthful, RecordsTrue, HandTrue, HandServes, NoRecord, Attempting, AttemptPcs,
       RcptPcs, Writing

LEMMA WalkTruthful == ASSUME TypeOK, Truthful, Walk PROVE Truthful'
<1>0. EffectsStay /\ RecordsTrue /\ UNCHANGED <<marker, jobs>>
  BY NextEffects DEF Truthful, Next, Drain, Walk, StartTick, Begin, Refuse, kevyVars
<1>1. CASE StartTick
  <2>1. UNCHANGED <<rec, beside, durable>> /\ HandTrue' /\ HandServes'
    BY <1>1 DEF StartTick, spoolVars, histVars, HandTrue, HandServes, Attempting, AttemptPcs,
                RcptPcs, Writing
  <2> QED
    BY <1>0, <2>1, SameRecords DEF Truthful
<1>2. ASSUME NEW f \in Files, mem'.done = Earlier(f).done, file' = f
      PROVE  HandTrue' /\ \A s \in mem'.done : Taken(f, s)'
  <2>1. Earlier(f).done \subseteq rec[f].done \cup beside[f].done /\ Earlier(f).done \subseteq Steps
    BY EarlierType, RecordParts DEF TypeOK
  <2>2. ASSUME NEW s \in mem'.done PROVE Taken(f, s)'
    BY <1>0, <1>2, <2>1, TakenStays DEF RecordsTrue
  <2> QED
    BY <1>2, <2>2 DEF HandTrue
<1>3. ASSUME NEW f \in Files, Begin(f) PROVE Truthful'
  <2>1. mem' \in Record /\ mem'.done = Earlier(f).done /\ file' = f /\ UNCHANGED beside
    BY <1>3, EarlierType DEF Begin, TypeOK
  <2>2. RecordsTrue' /\ HandTrue'
    BY <1>0, <1>2, <1>3, <2>1, SavedRecord DEF Begin
  <2>3. HandServes'
    BY <1>3 DEF Begin, HandServes, RcptPcs, Writing
  <2> QED
    BY <1>0, <2>2, <2>3 DEF Truthful
<1>4. ASSUME NEW f \in Files, Refuse(f) PROVE Truthful'
  <2>1. mem'.done = Earlier(f).done /\ file' = f /\ UNCHANGED <<rec, beside, durable>>
    BY <1>4 DEF Refuse, spoolVars, histVars
  <2>2. HandServes'
    BY <1>4 DEF Refuse, HandServes, Attempting, AttemptPcs, RcptPcs, Writing
  <2> QED
    BY <1>0, <1>2, <2>1, <2>2, SameRecords DEF Truthful
<1> QED
  BY <1>1, <1>3, <1>4 DEF Walk

LEMMA SenderTruthful == ASSUME TypeOK, Truthful, SendersCopy PROVE Truthful'
<1>0. /\ EffectsStay /\ RecordsTrue /\ UNCHANGED <<marker, jobs>>
      /\ file \in Files /\ file' = file /\ mem \in Record /\ mem.done \subseteq Steps
      /\ \A s \in mem.done : Taken(file, s)
  BY NextEffects, RecordParts DEF Truthful, HandTrue, Next, Drain, SendersCopy, SkipSender,
     WriteSent, SentDone, SentFails, kevyVars, handVars, TypeOK, ProcTypeOK
<1>1. /\ pc \in {"sender", "sentCopy"} /\ pc' \in {"sentCopy", "rcpts"}
      /\ UNCHANGED <<beside, file, todo>>
  BY DEF SendersCopy, SkipSender, WriteSent, SentDone, SentFails, spoolVars, handVars
<1>2. mem' \in Record /\ \A s \in mem'.done : Taken(file, s)'
  <2>1. CASE SentDone
    <3>1. mem' \in Record /\ mem'.done = mem.done \cup {Sent} /\ file \in sentIndexed'
      BY <1>0, <2>1, DoneType DEF SentDone, Steps
    <3> QED
      BY <1>0, <3>1, TakenStays DEF Taken
  <2>2. CASE mem' = mem
    BY <1>0, <2>2, TakenStays
  <2> QED
    BY <2>1, <2>2 DEF SendersCopy, SkipSender, WriteSent, SentFails, handVars
<1>3. Save(file, mem') \/ UNCHANGED <<rec, durable>>
  BY DEF SendersCopy, SkipSender, WriteSent, SentDone, SentFails, handVars, spoolVars, histVars
<1>4. HandTrue' /\ HandServes'
  BY <1>1, <1>2 DEF Truthful, HandTrue, HandServes, Attempting, AttemptPcs, RcptPcs, Writing
<1> QED
  BY <1>0, <1>1, <1>2, <1>3, <1>4, SavedRecord DEF Truthful

LEMMA RcptTruthful == ASSUME TypeOK, Truthful, EachRcpt PROVE Truthful'
<1>0. /\ EffectsStay /\ RecordsTrue /\ UNCHANGED <<marker, jobs>>
      /\ file \in Files /\ file' = file /\ mem \in Record /\ mem.done \subseteq Steps
      /\ \A s \in mem.done : Taken(file, s)'
  <2>1. /\ UNCHANGED <<marker, jobs, file>> /\ pc \in {"rcpts", "targets"}
    BY DEF EachRcpt, SkipDone, LookupFails, StartRcpt, EndRcpt, kevyVars, handVars
  <2>2. EffectsStay /\ RecordsTrue /\ \A s \in mem.done : Taken(file, s)
    BY <2>1, NextEffects DEF Truthful, HandTrue, Next, Drain
  <2>3. file \in Files /\ mem \in Record /\ mem.done \subseteq Steps
    BY <2>1, RecordParts DEF TypeOK, ProcTypeOK
  <2> QED
    BY <2>1, <2>2, <2>3, TakenStays
<1>1. ASSUME NEW r \in Rcpts, SkipDone(r) \/ LookupFails(r) \/ StartRcpt(r)
      PROVE  Truthful'
  <2>1. /\ UNCHANGED <<beside, file, mem>> /\ pc = "rcpts" /\ pc' # "idle"
        /\ Save(file, mem) \/ UNCHANGED <<rec, durable>>
    BY <1>1 DEF SkipDone, LookupFails, StartRcpt, spoolVars, handVars, histVars
  <2>2. HandTrue'
    BY <1>0, <2>1 DEF HandTrue
  <2>3. HandServes'
    BY <1>1 DEF SkipDone, LookupFails, StartRcpt, handVars, rcptVars, Truthful, HandServes,
                Attempting, AttemptPcs, RcptPcs, Writing, Own
  <2> QED
    BY <1>0, <2>1, <2>2, <2>3, SavedRecord DEF Truthful
<1>2. CASE EndRcpt
  <2>1. /\ UNCHANGED <<beside, file, todo>> /\ pc = "targets" /\ pc' = "rcpts" /\ rcpt \in Rcpts
    BY <1>2 DEF EndRcpt, TypeOK, ProcTypeOK, RcptPcs
  <2>2. /\ mem' \in Record /\ \A s \in mem'.done : Taken(file, s)'
        /\ Save(file, mem') \/ UNCHANGED <<rec, durable>>
    <3>1. CASE took
      <4>1. PICK r \in Rcpts : r = rcpt
        BY <2>1
      <4>2. mem' \in Record /\ mem'.done = mem.done \cup {r} /\ Save(file, mem')
        BY <1>0, <1>2, <3>1, <4>1, DoneType DEF EndRcpt, Steps
      <4>3. Served(file, r)
        BY <2>1, <3>1, <4>1 DEF Truthful, HandServes, RcptPcs
      <4>4. Taken(file, r)'
        BY <1>0, <4>3, TakenStays, ConstantsAssumption DEF Taken
      <4> QED
        BY <1>0, <4>2, <4>4
    <3>2. CASE ~took
      BY <1>0, <1>2, <3>2 DEF EndRcpt
    <3> QED
      BY <3>1, <3>2
  <2>3. HandTrue' /\ HandServes'
    BY <2>1, <2>2 DEF Truthful, HandTrue, HandServes, Attempting, AttemptPcs, RcptPcs, Writing
  <2> QED
    BY <1>0, <2>1, <2>2, <2>3, SavedRecord DEF Truthful
<1> QED
  BY <1>1, <1>2 DEF EachRcpt

\* What a copy consumed or missed leaves of the targets.
LEMMA ConsumeServes ==
  ASSUME TypeOK, EffectsStay, HandServes, pc \in RcptPcs, pc' = "targets", NEW t \in tgts,
         UNCHANGED <<file, rcpt, todo>>,
         \/ Consume(t) /\ Reached(file, rcpt, t.to)'
         \/ Miss(t)
  PROVE  HandServes'
<1>1. PICK f \in Files, r \in Rcpts : f = file /\ r = rcpt /\ f = file' /\ r = rcpt'
  BY DEF RcptPcs, TypeOK, ProcTypeOK
<1>2. \A u \in tgts' : u.counts => u \in tgts /\ u.to \in Targets[r]
  BY <1>1 DEF Consume, Miss, Extra, HandServes
<1>3. ASSUME took' PROVE Served(f, r)'
  <2>1. CASE took
    BY <1>1, <2>1, TakenStays DEF HandServes
  <2>2. CASE ~took
    <3>1. t.counts /\ t.to \in Targets[r] /\ Reached(f, r, t.to)'
      BY <1>1, <1>3, <2>2 DEF Consume, Miss, HandServes
    <3> QED
      BY <3>1 DEF Served
  <2> QED
    BY <2>1, <2>2
<1> QED
  BY <1>1, <1>2, <1>3 DEF HandServes, Attempting, AttemptPcs, RcptPcs, Writing

LEMMA ServeTruthful ==
  ASSUME TypeOK, Truthful, (\E t \in Target : Serve(t)) \/ Copy
  PROVE  Truthful'
<1>1. EffectsStay /\ marker' \subseteq jobs'
  <2>1. EffectsStay
    BY NextEffects DEF Next, Drain
  <2>2. ASSUME NEW k, marker \subseteq jobs, QueueFails(k) PROVE marker' \subseteq jobs'
    BY <2>2 DEF QueueFails, QueueOnce, QueueAlways, kevyVars
  <2>3. UNCHANGED kevyVars \/ \E k : QueueFails(k)
    BY DEF Serve, TargetFails, Relay, RelayFails, Discard, Reject, Redirect, RedirectFails,
           Forward, Keep, Copy, FindCopy, CreateCopy, FinishCopy, CopyFails, Ingest, QueueFails
  <2> QED
    BY <2>1, <2>2, <2>3 DEF Truthful, kevyVars
<1>2. /\ UNCHANGED <<rec, beside, durable, mem, file, rcpt, todo>> /\ pc' # "idle"
      /\ pc \in RcptPcs /\ file \in Files /\ mem.done \subseteq Steps
  BY ServeShape, CopyShape, RecordParts DEF Truthful, Writing, RcptPcs, TypeOK, ProcTypeOK
<1>3. RecordsTrue' /\ HandTrue'
  <2>1. \A s \in mem.done : Taken(file, s)'
    BY <1>1, <1>2, TakenStays DEF Truthful, HandTrue, RcptPcs
  <2> QED
    BY <1>1, <1>2, <2>1, SameRecords DEF Truthful, HandTrue
<1>4. ASSUME pc' \in Writing, tgt' \in tgts', UNCHANGED <<tgts, took>>,
             pc' = "ingest" => HasCopy(file, tgt.to)' /\ tgt' = tgt
      PROVE  HandServes'
  <2>1. PICK f \in Files, r \in Rcpts : f = file /\ r = rcpt /\ f = file' /\ r = rcpt'
    BY <1>2 DEF RcptPcs, TypeOK, ProcTypeOK
  <2>2. took => Served(f, r)'
    BY <1>1, <1>2, <2>1, TakenStays DEF Truthful, HandServes
  <2> QED
    BY <1>2, <1>4, <2>1, <2>2 DEF Truthful, HandServes, Attempting, AttemptPcs, RcptPcs, Writing
<1>5. ASSUME NEW t \in Target, Serve(t) PROVE HandServes'
  BY <1>1, <1>2, <1>4, <1>5, ServeShape, ConsumeServes DEF Truthful, Writing
<1>6. ASSUME Copy PROVE HandServes'
  <2>1. CASE FindCopy \/ CreateCopy \/ FinishCopy
    <3>1. pc \in Writing /\ pc' \in Writing /\ UNCHANGED <<tgts, took, tgt>>
      BY <2>1 DEF FindCopy, CreateCopy, FinishCopy, rcptVars, Writing
    <3>2. tgt.to \in Boxes
      BY <1>6, CopyShape
    <3>3. pc' = "ingest" => HasCopy(file, tgt.to)'
      <4>1. CASE FindCopy
        BY <4>1 DEF FindCopy, AlreadyThere, HasCopy, boxVars, handVars, rcptVars
      <4>2. CASE CreateCopy
        BY <4>2 DEF CreateCopy
      <4>3. CASE FinishCopy
        BY <1>2, <3>1, <3>2, <4>3 DEF FinishCopy, HasCopy, TypeOK, BoxTypeOK
      <4> QED
        BY <2>1, <4>1, <4>2, <4>3
    <3>4. tgt \in tgts
      BY <3>1 DEF Truthful, HandServes
    <3> QED
      BY <1>4, <3>1, <3>3, <3>4
  <2>2. CASE CopyFails \/ Ingest
    <3>1. tgt \in tgts /\ pc' = "targets" /\ (Miss(tgt) \/ Consume(tgt))
      BY <2>2 DEF CopyFails, Ingest, Truthful, HandServes, Writing
    <3>2. CASE Miss(tgt)
      BY <1>1, <1>2, <3>1, <3>2, ConsumeServes DEF Truthful
    <3>3. CASE Ingest
      <4>1. PICK t \in tgts : t = tgt
        BY <3>1
      <4>2. HasCopy(file, t.to)' /\ t.to \in Boxes
        BY <1>2, <3>3, <4>1 DEF Ingest, Truthful, HandServes, HasCopy, TypeOK, ProcTypeOK
      <4>3. Reached(file, rcpt, t.to)' /\ Consume(t)
        BY <3>3, <4>1, <4>2 DEF Reached, Ingest
      <4> QED
        BY <1>1, <1>2, <3>1, <4>3, ConsumeServes DEF Truthful
    <3> QED
      BY <2>2, <3>2, <3>3 DEF CopyFails
  <2> QED
    BY <1>6, <2>1, <2>2 DEF Copy
<1> QED
  BY <1>1, <1>3, <1>5, <1>6 DEF Truthful

LEMMA EndTruthful ==
  ASSUME TypeOK, Truthful, Close \/ Finish \/ SetAside \/ PoisonDies \/ Crash
  PROVE  Truthful'
<1>0. EffectsStay /\ RecordsTrue /\ UNCHANGED <<marker, jobs>>
  BY NextEffects DEF Truthful, Next, Drain, Environment, Close, Finish, SetAside, AsideRecord,
     AsideMove, AsideFails, AsideForget, Tell, PoisonDies, Crash, Die, kevyVars
<1>1. CASE Close \/ AsideMove
  <2>1. /\ UNCHANGED <<rec, beside, durable, file, mem, todo>> /\ pc \in {"rcpts", "move"}
        /\ pc' \in {"finish", "forget"} /\ (pc' = "finish" => pc = "rcpts")
    BY <1>1 DEF Close, AsideMove, handVars, histVars
  <2>2. file \in Files /\ mem.done \subseteq Steps
    BY <2>1, RecordParts DEF TypeOK, ProcTypeOK
  <2>3. HandTrue'
    BY <1>0, <2>1, <2>2, TakenStays DEF Truthful, HandTrue
  <2>4. HandServes'
    BY <2>1 DEF Truthful, HandServes, Attempting, AttemptPcs, RcptPcs, Writing
  <2> QED
    BY <1>0, <2>1, <2>3, <2>4, SameRecords DEF Truthful
<1>2. CASE Finish
  <2>1. /\ file \in Files /\ mem \in Record /\ mem.done \subseteq Steps
        /\ \A s \in mem.done : Taken(file, s)
    BY <1>2, RecordParts DEF Finish, TypeOK, ProcTypeOK, Truthful, HandTrue
  <2>2. PICK f \in Files : f = file
    BY <2>1
  <2>3. Rest \in Record /\ \A s \in Rest.done : Taken(f, s)'
    BY <1>0, <2>1, <2>2, RestType, TakenStays
  <2>4. ASSUME spool[file] = "incoming" PROVE RecordsTrue'
    BY <1>0, <1>2, <2>2, <2>3, <2>4, SavedRecord DEF Finish
  <2>5. ASSUME spool[file] # "incoming" PROVE RecordsTrue'
    <3>1. /\ durable' = durable /\ rec' = [rec EXCEPT ![f] = NoRecord]
          /\ beside' = [beside EXCEPT ![f] = NoRecord]
      BY <1>2, <2>2, <2>5 DEF Finish
    <3>2. ASSUME NEW g \in Files
          PROVE  rec'[g].done \subseteq rec[g].done /\ beside'[g].done \subseteq beside[g].done
      BY <3>1, NoRecordType DEF TypeOK, SpoolTypeOK
    <3> QED
      BY <1>0, <3>1, <3>2, TruthStays
  <2>6. RecordsTrue'
    BY <2>4, <2>5
  <2> QED
    BY <1>0, <1>2, <2>6, LettingGoTrue DEF Finish, Truthful
<1>3. CASE AsideRecord
  <2>1. PICK f \in Files : f = file
    BY <1>3 DEF AsideRecord, TypeOK, ProcTypeOK
  <2>2. /\ beside' = [beside EXCEPT ![f] = mem] /\ UNCHANGED <<rec, durable, mem, file, todo>>
        /\ pc = "aside" /\ pc' = "move"
    BY <1>3, <2>1 DEF AsideRecord, handVars, histVars
  <2>3. \A s \in mem.done : Taken(f, s)'
    BY <1>0, <2>1, <2>2, RecordParts, TakenStays DEF Truthful, HandTrue, TypeOK, ProcTypeOK
  <2>4. ASSUME NEW g \in Files
        PROVE  \/ beside'[g].done = beside[g].done
               \/ g = f /\ beside'[g] = mem
    BY <2>2 DEF TypeOK, SpoolTypeOK
  <2>5. RecordsTrue'
    BY <1>0, <2>2, <2>3, <2>4, TruthStays DEF RecordsTrue
  <2>6. HandTrue' /\ HandServes'
    BY <2>1, <2>2, <2>3 DEF HandTrue, HandServes, Attempting, AttemptPcs, RcptPcs, Writing
  <2> QED
    BY <1>0, <2>5, <2>6 DEF Truthful
<1>4. CASE AsideForget
  <2>1. PICK f \in Files : f = file
    BY <1>4 DEF AsideForget, TypeOK, ProcTypeOK
  <2>2. /\ rec' = [rec EXCEPT ![f] = NoRecord] \/ UNCHANGED rec
        /\ UNCHANGED <<beside, durable, mem, file, todo>> /\ pc = "forget" /\ pc' = "tell"
    BY <1>4, <2>1 DEF AsideForget, handVars
  <2>3. \A s \in mem.done : Taken(f, s)'
    BY <1>0, <2>1, <2>2, RecordParts, TakenStays DEF Truthful, HandTrue, TypeOK, ProcTypeOK
  <2>4. ASSUME NEW g \in Files
        PROVE  rec'[g].done \subseteq rec[g].done
    BY <2>2, NoRecordType DEF TypeOK, SpoolTypeOK
  <2>5. RecordsTrue'
    BY <1>0, <2>2, <2>4, TruthStays
  <2>6. HandTrue' /\ HandServes'
    BY <2>1, <2>2, <2>3 DEF HandTrue, HandServes, Attempting, AttemptPcs, RcptPcs, Writing
  <2> QED
    BY <1>0, <2>5, <2>6 DEF Truthful
<1>5. CASE AsideFails \/ Tell \/ PoisonDies \/ Crash
  <2>1. LetGo /\ UNCHANGED <<rec, beside, durable>>
    BY <1>5 DEF AsideFails, Tell, PoisonDies, Crash, Die, spoolVars
  <2> QED
    BY <1>0, <2>1, SameRecords, LettingGoTrue DEF Truthful
<1> QED
  BY <1>1, <1>2, <1>3, <1>4, <1>5 DEF SetAside

LEMMA NextTruthful == ASSUME TypeOK, Truthful, [Next]_vars PROVE Truthful'
<1>1. ASSUME UNCHANGED <<rec, beside, durable, jobs, procVars>>, marker' \subseteq marker
      PROVE  Truthful'
  <2>1. EffectsStay
    BY NextEffects
  <2>2. UNCHANGED <<pc, file, mem, todo, rcpt, tgts, tgt, took>>
    BY <1>1 DEF procVars, handVars, rcptVars
  <2>3. HandTrue'
    BY <2>1, <2>2, TakenStays, RecordParts DEF Truthful, HandTrue, TypeOK, ProcTypeOK
  <2>4. took /\ pc \in RcptPcs => Served(file, rcpt)'
    BY <2>1, <2>2, TakenStays DEF Truthful, HandServes, TypeOK, ProcTypeOK, RcptPcs
  <2>5. pc = "ingest" => HasCopy(file, tgt.to)'
    BY <2>1, <2>2 DEF EffectsStay, Truthful, HandServes, TypeOK, ProcTypeOK, HasCopy
  <2>6. HandServes'
    BY <2>2, <2>4, <2>5 DEF Truthful, HandServes, Attempting
  <2> QED
    BY <1>1, <2>1, <2>3, <2>6, SameRecords DEF Truthful
<1>2. CASE UNCHANGED vars
  BY <1>1, <1>2 DEF vars, spoolVars, histVars, kevyVars
<1>3. ASSUME NEW f \in Files, Arrive(f) \/ Reinject(f) \/ Age(f) PROVE Truthful'
  BY <1>1, <1>3 DEF Arrive, Reinject, Age, spoolVars, histVars, kevyVars
<1>4. ASSUME NEW f \in Files, NEW b \in Boxes, ClientMoves(f, b) PROVE Truthful'
  BY <1>1, <1>4 DEF ClientMoves, spoolVars, histVars, kevyVars
<1>5. ASSUME NEW k \in Keys, ExpireMarker(k) PROVE Truthful'
  BY <1>1, <1>5 DEF ExpireMarker, spoolVars, histVars
<1>6. CASE Environment
  BY <1>3, <1>4, <1>5, <1>6, EndTruthful DEF Environment
<1> QED
  BY <1>2, <1>6, WalkTruthful, SenderTruthful, RcptTruthful, ServeTruthful, EndTruthful
     DEF Next, Drain

LEMMA AlwaysTruthful == Spec => []Truthful
<1>1. Init => Truthful
  BY InitTruthful
<1>2. TypeOK /\ Truthful /\ [Next]_vars => Truthful'
  BY NextTruthful
<1> QED
  BY <1>1, <1>2, TypeCorrect, PTL DEF Spec

(***************************************************************************)
(* A recipient recorded as served was served, and a Sent copy recorded as  *)
(* filed is indexed, whatever dies or fails in between.                    *)
(***************************************************************************)
THEOREM RecordsTellTheTruth == Spec => []DoneMeansServed
<1>1. Sent \notin Rcpts
  BY ConstantsAssumption
<1>2. ASSUME Truthful, NEW f \in Files
      PROVE  /\ \A r \in durable[f] \cap Rcpts : Served(f, r)
             /\ Sent \in durable[f] => f \in sentIndexed
  <2>1. \A s \in durable[f] : Taken(f, s)
    BY <1>2 DEF Truthful, RecordsTrue
  <2> QED
    BY <1>1, <2>1 DEF Taken, Served
<1>3. Truthful => DoneMeansServed
  BY <1>2, Zenon DEF DoneMeansServed
<1> QED
  BY <1>3, AlwaysTruthful, PTL

-----------------------------------------------------------------------------
(* Nobody is forgotten. *)

\* Still to be served by this attempt, or being served.
Pending(r) == r \in todo \/ (pc \in RcptPcs /\ r = rcpt)

\* Who is not pending was served or is named.  While nothing was consumed for
\* the recipient in hand, each of its addresses is still a target, or named.
Accounted ==
  /\ Attempting => \A r \in To[file] \ Srs : Pending(r) \/ Served(file, r) \/ Named(r)
  /\ pc \in RcptPcs /\ ~took /\ rcpt \notin Srs =>
       \A a \in Targets[rcpt] : Own(a) \in tgts \/ a \in missed

\* Within an attempt nobody is forgotten who was served or named before, and
\* only who is served or named stops being pending.
LEMMA StillAccounted ==
  ASSUME TypeOK, Accounted, EffectsStay, Attempting, UNCHANGED file, missed \subseteq missed',
         \A r \in To[file] \ Srs : Pending(r) => Pending(r)' \/ Served(file, r)' \/ Named(r)'
  PROVE  \A r \in To[file] \ Srs : Pending(r)' \/ Served(file, r)' \/ Named(r)'
<1>1. PICK f \in Files : f = file /\ f = file' /\ To[f] \subseteq Rcpts
  BY ConstantsAssumption DEF Attempting, AttemptPcs, RcptPcs, TypeOK, ProcTypeOK
<1>2. ASSUME NEW r \in To[f] \ Srs, Served(f, r) PROVE Served(f, r)'
  BY <1>1, <1>2, TakenStays
<1>3. ASSUME NEW r \in To[f] \ Srs, Named(r) PROVE Named(r)'
  BY <1>3 DEF Named
<1> QED
  BY <1>1, <1>2, <1>3 DEF Accounted

LEMMA OwnTarget ==
  ASSUME NEW t \in Target, t.counts
  PROVE  t = Own(t.to)
BY DEF Target, Own

\* The targets of the recipient in hand, when one of them is consumed or missed.
LEMMA TurnAccounted ==
  ASSUME TypeOK, Truthful, Accounted, pc \in RcptPcs, NEW t \in Target, t \in tgts,
         UNCHANGED rcpt, Consume(t) \/ Miss(t)
  PROVE  /\ missed \subseteq missed'
         /\ ~took' /\ rcpt \notin Srs => \A a \in Targets[rcpt] : Own(a) \in tgts' \/ a \in missed'
<1>1. missed \subseteq missed'
  BY DEF Consume, Miss, Unresolved
<1>2. ASSUME ~took', rcpt \notin Srs, NEW a \in Targets[rcpt], Own(a) \notin tgts'
      PROVE  a \in missed'
  <2>1. ~took
    BY <1>2 DEF Consume, Miss, TypeOK, ProcTypeOK
  <2>2. Own(a) \in tgts \/ a \in missed
    BY <1>2, <2>1 DEF Accounted
  <2>3. CASE a \in missed
    BY <1>1, <2>3
  <2>4. CASE Own(a) \in tgts
    <3>1. t = Own(a) /\ t.counts /\ t.to = a
      BY <1>2, <2>4 DEF Consume, Miss, Own
    <3> QED
      BY <1>2, <3>1 DEF Consume, Miss, Unresolved
  <2> QED
    BY <2>2, <2>3, <2>4
<1> QED
  BY <1>1, <1>2

LEMMA ServeAccounted ==
  ASSUME TypeOK, Truthful, Accounted, (\E t \in Target : Serve(t)) \/ Copy
  PROVE  Accounted'
<1>1. /\ UNCHANGED <<file, rcpt, todo>> /\ pc \in RcptPcs /\ pc' \in RcptPcs
  BY ServeShape, CopyShape DEF Truthful, Writing, RcptPcs
<1>2. \/ UNCHANGED <<tgts, took, missed>>
      \/ \E t \in Target : t \in tgts /\ (Consume(t) \/ Miss(t))
  BY ServeShape, CopyShape DEF Truthful, HandServes
<1>3. /\ missed \subseteq missed'
      /\ ~took' /\ rcpt \notin Srs => \A a \in Targets[rcpt] : Own(a) \in tgts' \/ a \in missed'
  <2>1. CASE UNCHANGED <<tgts, took, missed>>
    BY <1>1, <2>1 DEF Accounted
  <2>2. CASE \E t \in Target : t \in tgts /\ (Consume(t) \/ Miss(t))
    BY <1>1, <2>2, TurnAccounted
  <2> QED
    BY <1>2, <2>1, <2>2
<1>4. EffectsStay
  BY NextEffects DEF Next, Drain
<1>5. Attempting /\ \A r \in To[file] \ Srs : Pending(r) => Pending(r)'
  BY <1>1 DEF Pending, Attempting, AttemptPcs
<1>6. \A r \in To[file] \ Srs : Pending(r)' \/ Served(file, r)' \/ Named(r)'
  BY <1>1, <1>3, <1>4, <1>5, StillAccounted
<1> QED
  BY <1>1, <1>3, <1>6 DEF Accounted

LEMMA SenderAccounted == ASSUME TypeOK, Accounted, SendersCopy PROVE Accounted'
<1>1. /\ pc \in {"sender", "sentCopy"} /\ pc' \in {"sentCopy", "rcpts"}
      /\ UNCHANGED <<file, todo, missed>>
  BY DEF SendersCopy, SkipSender, WriteSent, SentDone, SentFails, handVars, rcptVars
<1>2. EffectsStay
  BY NextEffects DEF Next, Drain
<1>3. Attempting /\ \A r \in To[file] \ Srs : Pending(r) => Pending(r)'
  BY <1>1 DEF Pending, Attempting, AttemptPcs, RcptPcs
<1>4. \A r \in To[file] \ Srs : Pending(r)' \/ Served(file, r)' \/ Named(r)'
  BY <1>1, <1>2, <1>3, StillAccounted
<1> QED
  BY <1>1, <1>4 DEF Accounted, RcptPcs

LEMMA RcptAccounted == ASSUME TypeOK, Truthful, Accounted, EachRcpt PROVE Accounted'
<1>0. EffectsStay /\ UNCHANGED file /\ pc \in {"rcpts", "targets"} /\ file \in Files /\ Attempting
  BY NextEffects DEF Next, Drain, EachRcpt, SkipDone, LookupFails, StartRcpt, EndRcpt, handVars,
     Attempting, AttemptPcs, RcptPcs, TypeOK, ProcTypeOK
<1>1. ASSUME NEW r \in Rcpts, SkipDone(r) PROVE Accounted'
  <2>1. /\ UNCHANGED <<missed, pc>> /\ pc = "rcpts" /\ todo' = todo \ {r} /\ r \in mem.done
    BY <1>1 DEF SkipDone, rcptVars
  <2>2. Served(file, r)'
    <3>1. PICK f \in Files : f = file /\ f = file'
      BY <1>0
    <3>2. Taken(f, r) /\ r # Sent
      BY <2>1, <3>1, ConstantsAssumption DEF Truthful, HandTrue
    <3> QED
      BY <1>0, <3>1, <3>2, TakenStays DEF Taken
  <2>3. \A s \in To[file] \ Srs : Pending(s)' \/ Served(file, s)' \/ Named(s)'
    BY <1>0, <2>1, <2>2, StillAccounted DEF Pending, RcptPcs
  <2> QED
    BY <1>0, <2>1, <2>3 DEF Accounted, RcptPcs
<1>2. ASSUME NEW r \in Rcpts, LookupFails(r) PROVE Accounted'
  <2>1. /\ UNCHANGED pc /\ pc = "rcpts" /\ todo' = todo \ {r} /\ missed' = missed \cup {r}
    BY <1>2 DEF LookupFails
  <2>2. \A s \in To[file] \ Srs : Pending(s)' \/ Served(file, s)' \/ Named(s)'
    BY <1>0, <2>1, StillAccounted DEF Pending, RcptPcs, Named
  <2> QED
    BY <1>0, <2>1, <2>2 DEF Accounted, RcptPcs
<1>3. ASSUME NEW r \in Rcpts, StartRcpt(r) PROVE Accounted'
  <2>1. /\ UNCHANGED missed /\ pc = "rcpts" /\ pc' = "targets" /\ todo' = todo \ {r} /\ rcpt' = r
        /\ tgts' = {Own(a) : a \in Targets[r]}
    BY <1>3 DEF StartRcpt
  <2>2. \A s \in To[file] \ Srs : Pending(s)' \/ Served(file, s)' \/ Named(s)'
    BY <1>0, <2>1, StillAccounted DEF Pending, RcptPcs
  <2> QED
    BY <1>0, <2>1, <2>2 DEF Accounted
<1>4. CASE EndRcpt
  <2>1. PICK f \in Files, r \in Rcpts : f = file /\ f = file' /\ r = rcpt
    BY <1>0, <1>4 DEF EndRcpt, RcptPcs, TypeOK, ProcTypeOK
  <2>2. /\ pc = "targets" /\ pc' = "rcpts" /\ UNCHANGED todo /\ missed \subseteq missed'
    BY <1>4 DEF EndRcpt, Unreached, Unresolved
  <2>3. r \notin Srs => Served(f, r)' \/ Named(r)'
    <3>1. CASE took
      BY <1>0, <2>1, <2>2, <3>1, TakenStays DEF Truthful, HandServes, RcptPcs
    <3>2. CASE ~took /\ r \notin Srs
      <4>1. \A a \in Targets[r] : a \in missed
        BY <1>4, <2>1, <2>2, <3>2 DEF EndRcpt, Accounted, RcptPcs
      <4>2. CASE Targets[r] = {}
        BY <1>4, <2>1, <3>2, <4>2 DEF EndRcpt, Unreached, Unresolved, Named
      <4>3. CASE Targets[r] # {}
        BY <2>2, <4>1, <4>3 DEF Named
      <4> QED
        BY <4>2, <4>3
    <3> QED
      BY <3>1, <3>2
  <2>4. \A s \in To[f] \ Srs : Pending(s) => Pending(s)' \/ Served(f, s)' \/ Named(s)'
    BY <2>1, <2>2, <2>3 DEF Pending
  <2>5. \A s \in To[f] \ Srs : Pending(s)' \/ Served(f, s)' \/ Named(s)'
    BY <1>0, <2>1, <2>2, <2>4, StillAccounted
  <2> QED
    BY <2>1, <2>2, <2>5 DEF Accounted, RcptPcs
<1> QED
  BY <1>1, <1>2, <1>3, <1>4 DEF EachRcpt

LEMMA NextAccounted == ASSUME TypeOK, Truthful, Accounted, [Next]_vars PROVE Accounted'
<1>1. ASSUME UNCHANGED <<file, todo, rcptVars>>, pc' = pc \/ (pc = "rcpts" /\ pc' = "finish")
      PROVE  Accounted'
  <2>1. EffectsStay
    BY NextEffects
  <2>2. ASSUME Attempting
        PROVE  \A r \in To[file] \ Srs : Pending(r)' \/ Served(file, r)' \/ Named(r)'
    BY <1>1, <2>1, <2>2, StillAccounted DEF rcptVars, Pending, RcptPcs
  <2> QED
    BY <1>1, <2>2 DEF Accounted, Attempting, AttemptPcs, RcptPcs, rcptVars
<1>2. ASSUME ~Attempting' PROVE Accounted'
  BY <1>2 DEF Accounted, Attempting, AttemptPcs
<1>3. CASE UNCHANGED vars
  BY <1>1, <1>3 DEF vars, procVars, handVars
<1>4. CASE Walk
  <2>1. ASSUME NEW f \in Files, Begin(f) PROVE Accounted'
    BY <2>1 DEF Begin, Accounted, Pending, RcptPcs
  <2>2. ASSUME NEW f \in Files, StartTick \/ Refuse(f) PROVE Accounted'
    BY <1>2, <2>2 DEF StartTick, Refuse, Attempting, AttemptPcs, RcptPcs
  <2> QED
    BY <1>2, <1>4, <2>1, <2>2 DEF Walk, StartTick, Attempting, AttemptPcs, RcptPcs
<1>5. CASE Close
  BY <1>1, <1>5 DEF Close, handVars
<1>6. CASE Finish \/ SetAside \/ PoisonDies \/ Crash
  BY <1>2, <1>6 DEF Finish, SetAside, AsideRecord, AsideMove, AsideFails, AsideForget, Tell,
     PoisonDies, Crash, Die, LetGo, Attempting, AttemptPcs, RcptPcs
<1>7. ASSUME NEW f \in Files, Arrive(f) \/ Reinject(f) \/ Age(f) PROVE Accounted'
  BY <1>1, <1>7 DEF Arrive, Reinject, Age, procVars, handVars
<1>8. ASSUME NEW f \in Files, NEW b \in Boxes, ClientMoves(f, b) PROVE Accounted'
  BY <1>1, <1>8 DEF ClientMoves, procVars, handVars
<1>9. ASSUME NEW k \in Keys, ExpireMarker(k) PROVE Accounted'
  BY <1>1, <1>9 DEF ExpireMarker, procVars, handVars
<1>10. CASE Environment
  BY <1>6, <1>7, <1>8, <1>9, <1>10 DEF Environment
<1> QED
  BY <1>3, <1>4, <1>5, <1>6, <1>10, SenderAccounted, RcptAccounted, ServeAccounted DEF Next, Drain

LEMMA AlwaysAccounted == Spec => []Accounted
<1>1. Init => Accounted
  BY DEF Init, Accounted, Attempting, AttemptPcs, RcptPcs
<1>2. TypeOK /\ Truthful /\ Accounted /\ [Next]_vars => Accounted'
  BY NextAccounted
<1> QED
  BY <1>1, <1>2, TypeCorrect, AlwaysTruthful, PTL DEF Spec

\* The only removal of a file still in incoming/ is at the end of an attempt.
LEMMA RemovesInClose ==
  ASSUME TypeOK, [Next]_vars, NEW f \in Files, Removes(f)
  PROVE  Close /\ any /\ file = f
<1>0. spool \in [Files -> {"absent", "incoming", "gone", "unresolved", "quarantine"}]
  BY DEF TypeOK, SpoolTypeOK
<1>1. CASE Close
  <2>1. file \in Files
    BY <1>1 DEF Close, TypeOK, ProcTypeOK
  <2> QED
    BY <1>0, <1>1, <2>1 DEF Close, Removes
<1>2. ASSUME UNCHANGED spool PROVE FALSE
  BY <1>2 DEF Removes
<1>3. ASSUME NEW g \in Files, Arrive(g) \/ Reinject(g) PROVE FALSE
  BY <1>0, <1>3 DEF Arrive, Reinject, Removes
<1>4. ASSUME AsideMove PROVE FALSE
  BY <1>0, <1>4 DEF AsideMove, Removes
<1>5. ASSUME UNCHANGED vars PROVE FALSE
  BY <1>2, <1>5 DEF vars, spoolVars
<1>6. ASSUME Walk \/ SendersCopy \/ EachRcpt \/ Copy PROVE FALSE
  BY <1>2, <1>6 DEF Walk, StartTick, Begin, Refuse, SendersCopy, SkipSender, WriteSent, SentDone,
     SentFails, EachRcpt, SkipDone, LookupFails, StartRcpt, EndRcpt, Copy, FindCopy, CreateCopy,
     FinishCopy, CopyFails, Ingest, spoolVars
<1>7. ASSUME NEW t \in Target, Serve(t) PROVE FALSE
  BY <1>2, <1>7 DEF Serve, TargetFails, Relay, RelayFails, Discard, Reject, Redirect,
     RedirectFails, Forward, Keep, spoolVars
<1>8. ASSUME Finish \/ AsideRecord \/ AsideFails \/ AsideForget \/ Tell \/ PoisonDies \/ Crash
      PROVE  FALSE
  BY <1>2, <1>8 DEF Finish, AsideRecord, AsideFails, AsideForget, Tell, PoisonDies, Crash, Die,
     spoolVars
<1>9. ASSUME Environment PROVE FALSE
  <2>1. CASE \E g \in Files, b \in Boxes : ClientMoves(g, b)
    BY <1>2, <2>1 DEF ClientMoves, spoolVars
  <2>2. CASE \E k \in Keys : ExpireMarker(k)
    BY <1>2, <2>2 DEF ExpireMarker, spoolVars
  <2>3. CASE \E g \in Files : Age(g)
    BY <1>2, <2>3 DEF Age, spoolVars
  <2> QED
    BY <1>3, <1>8, <1>9, <2>1, <2>2, <2>3 DEF Environment
<1> QED
  BY <1>1, <1>4, <1>5, <1>6, <1>7, <1>8, <1>9 DEF Next, Drain, SetAside

(***************************************************************************)
(* When the drain removes a file, every recipient of it was served or is   *)
(* named among the unresolved of the attempt, except bounces to addresses  *)
(* our own forwarding rewrote.                                             *)
(***************************************************************************)
THEOREM NobodyForgotten == Spec => RemovalAccounts
<1>1. ASSUME TypeOK, Accounted, [Next]_vars, NEW f \in Files, Removes(f)
      PROVE  \A r \in To[f] \ Srs : Served(f, r) \/ Named(r)
  <2>1. Close /\ file = f
    BY <1>1, RemovesInClose
  <2>2. pc = "rcpts" /\ todo = {} /\ Attempting
    BY <2>1 DEF Close, Attempting, AttemptPcs
  <2> QED
    BY <1>1, <2>1, <2>2 DEF Accounted, Pending, RcptPcs
<1>2. TypeOK /\ Accounted /\ [Next]_vars =>
        [\A f \in Files : Removes(f) => \A r \in To[f] \ Srs : Served(f, r) \/ Named(r)]_vars
  BY <1>1
<1> QED
  BY <1>2, TypeCorrect, AlwaysAccounted, PTL DEF Spec, RemovalAccounts

-----------------------------------------------------------------------------
(* The spool's promise. *)

\* A copy counts as consumed only when a recipient of the file was served.
SomebodyServed == Attempting /\ any => \E r \in To[file] : Served(file, r)

LEMMA NextSomebody == ASSUME TypeOK, Truthful, SomebodyServed, [Next]_vars PROVE SomebodyServed'
<1>0. EffectsStay
  BY NextEffects
<1>1. ASSUME Attempting, UNCHANGED file,
             any' => any \/ \E r \in To[file] : Served(file, r)
      PROVE  SomebodyServed'
  <2>1. PICK f \in Files : f = file /\ f = file' /\ To[f] \subseteq Rcpts
    BY <1>1, ConstantsAssumption DEF Attempting, AttemptPcs, RcptPcs, TypeOK, ProcTypeOK
  <2>2. any' => \E r \in To[f] : Served(f, r)
    BY <1>1, <2>1 DEF SomebodyServed
  <2>3. any' => \E r \in To[f] : Served(f, r)'
    BY <1>0, <2>1, <2>2, TakenStays
  <2> QED
    BY <2>1, <2>3 DEF SomebodyServed
<1>2. ASSUME ~Attempting' \/ ~any' PROVE SomebodyServed'
  BY <1>2 DEF SomebodyServed
<1>3. ASSUME UNCHANGED <<file, any, pc>> PROVE SomebodyServed'
  <2>1. CASE Attempting
    BY <1>1, <1>3, <2>1
  <2>2. CASE ~Attempting
    BY <1>2, <1>3, <2>2 DEF Attempting
  <2> QED
    BY <2>1, <2>2
<1>4. CASE UNCHANGED vars
  BY <1>3, <1>4 DEF vars, procVars, handVars
<1>5. CASE Walk
  BY <1>2, <1>5 DEF Walk, StartTick, Begin, Refuse, Attempting, AttemptPcs, RcptPcs
<1>6. CASE SendersCopy \/ Close
  <2>1. pc \in {"sender", "sentCopy", "rcpts"} /\ UNCHANGED <<file, any>>
    BY <1>6 DEF SendersCopy, SkipSender, WriteSent, SentDone, SentFails, Close, handVars
  <2> QED
    BY <1>1, <2>1 DEF Attempting, AttemptPcs
<1>7. CASE EachRcpt
  <2>1. pc \in {"rcpts", "targets"} /\ UNCHANGED file /\ Attempting /\ file \in Files
    BY <1>7 DEF EachRcpt, SkipDone, LookupFails, StartRcpt, EndRcpt, handVars, Attempting,
       AttemptPcs, RcptPcs, TypeOK, ProcTypeOK
  <2>2. ASSUME NEW r \in Rcpts, SkipDone(r) PROVE Served(file, r) /\ r \in To[file]
    <3>1. r \in mem.done /\ r \in todo /\ pc = "rcpts" /\ r # Sent
      BY <2>2, ConstantsAssumption DEF SkipDone
    <3> QED
      BY <2>1, <3>1 DEF Truthful, HandTrue, Taken, HandServes
  <2>3. ASSUME EndRcpt, took PROVE Served(file, rcpt) /\ rcpt \in To[file]
    BY <2>3 DEF EndRcpt, Truthful, HandServes, RcptPcs
  <2>4. ASSUME any' PROVE any \/ \E r \in To[file] : Served(file, r)
    <3>1. CASE \E r \in Rcpts : SkipDone(r)
      BY <2>2, <3>1
    <3>2. CASE EndRcpt
      BY <2>3, <2>4, <3>2 DEF EndRcpt
    <3>3. CASE \E r \in Rcpts : LookupFails(r) \/ StartRcpt(r)
      BY <2>4, <3>3 DEF LookupFails, StartRcpt
    <3> QED
      BY <1>7, <3>1, <3>2, <3>3 DEF EachRcpt
  <2> QED
    BY <1>1, <2>1, <2>4
<1>8. CASE (\E t \in Target : Serve(t)) \/ Copy
  <2>1. pc \in RcptPcs /\ UNCHANGED <<file, any>>
    BY <1>8, ServeShape, CopyShape DEF Truthful, RcptPcs, Writing
  <2> QED
    BY <1>1, <2>1 DEF Attempting, AttemptPcs
<1>9. CASE Finish \/ SetAside \/ PoisonDies \/ Crash
  BY <1>2, <1>9 DEF Finish, SetAside, AsideRecord, AsideMove, AsideFails, AsideForget, Tell,
     PoisonDies, Crash, Die, LetGo, Attempting, AttemptPcs, RcptPcs
<1>10. ASSUME NEW f \in Files, Arrive(f) \/ Reinject(f) \/ Age(f) PROVE SomebodyServed'
  BY <1>3, <1>10 DEF Arrive, Reinject, Age, procVars, handVars
<1>11. ASSUME NEW f \in Files, NEW b \in Boxes, ClientMoves(f, b) PROVE SomebodyServed'
  BY <1>3, <1>11 DEF ClientMoves, procVars, handVars
<1>12. ASSUME NEW k \in Keys, ExpireMarker(k) PROVE SomebodyServed'
  BY <1>3, <1>12 DEF ExpireMarker, procVars, handVars
<1>13. CASE Environment
  BY <1>9, <1>10, <1>11, <1>12, <1>13 DEF Environment
<1> QED
  BY <1>4, <1>5, <1>6, <1>7, <1>8, <1>9, <1>13 DEF Next, Drain

\* Outside the service of the file in hand nothing is served, and the service
\* moves no file.
LEMMA ServedStill ==
  ASSUME UNCHANGED <<dropped, jobs>>,
         \A f \in Files, b \in Boxes : HasCopy(f, b)' <=> HasCopy(f, b)
  PROVE  UNCHANGED [f \in Files |-> {r \in To[f] : Served(f, r)}]
<1>1. ASSUME NEW f \in Files, NEW r, NEW a PROVE Reached(f, r, a)' <=> Reached(f, r, a)
  BY DEF Reached
<1>2. ASSUME NEW f \in Files, NEW r PROVE Served(f, r)' <=> Served(f, r)
  BY <1>1 DEF Served
<1>3. ASSUME NEW f \in Files PROVE {r \in To[f] : Served(f, r)}' = {r \in To[f] : Served(f, r)}
  BY <1>2
<1> QED
  BY <1>3

LEMMA ServedStep ==
  ASSUME TypeOK, Remembers, (\E t \in Target : Serve(t)) \/ Copy
  PROVE  [Promise!Next]_(Promise!promiseVars)
<1> DEFINE served == [f \in Files |-> {r \in To[f] : Served(f, r)}]
<1>1. PICK f \in Files : f = file /\ f = file'
  BY DEF Serve, TargetFails, Relay, RelayFails, Discard, Reject, Redirect, RedirectFails, Forward,
         Keep, Decided, Turn, Copy, FindCopy, CreateCopy, FinishCopy, CopyFails, Ingest, handVars,
         TypeOK, ProcTypeOK, RcptPcs
<1>2. /\ spool[f] = "incoming" /\ UNCHANGED spool
  BY <1>1 DEF Serve, TargetFails, Relay, RelayFails, Discard, Reject, Redirect, RedirectFails,
     Forward, Keep, Decided, Turn, Copy, FindCopy, CreateCopy, FinishCopy, CopyFails, Ingest,
     spoolVars, Remembers, InHand, Attempting, AttemptPcs, RcptPcs
<1>3. EffectsStay /\ EffectsInHand
  BY NextEffects DEF Next, Drain
<1>4. \A g \in Files : To[g] \subseteq Rcpts
  BY ConstantsAssumption
<1>5. \A g \in Files \ {f} : served'[g] = served[g]
  BY <1>1, <1>3, <1>4, TakenStays, ServedInHand
<1>6. served[f] \subseteq served'[f]
  BY <1>3, <1>4, TakenStays
<1>7. served' = [served EXCEPT ![f] = @ \cup (served'[f] \ served[f])]
  BY <1>5, <1>6
<1>8. CASE served'[f] \ served[f] = {}
  <2>1. UNCHANGED served
    BY <1>7, <1>8
  <2> QED
    BY <1>2, <2>1 DEF Promise!promiseVars
<1>9. CASE served'[f] \ served[f] # {}
  <2>1. served'[f] \ served[f] \in (SUBSET (To[f] \ served[f])) \ {{}}
    BY <1>9
  <2>2. Promise!Deliver(f)
    BY <1>2, <1>7, <2>1 DEF Promise!Deliver
  <2> QED
    BY <2>2 DEF Promise!Next
<1> QED
  BY <1>8, <1>9

LEMMA MovedStep ==
  ASSUME TypeOK, Remembers, SomebodyServed, Next,
         ~((\E t \in Target : Serve(t)) \/ Copy)
  PROVE  [Promise!Next]_(Promise!promiseVars)
<1> DEFINE served == [f \in Files |-> {r \in To[f] : Served(f, r)}]
<1>0. spool \in [Files -> {"absent", "incoming", "gone", "unresolved", "quarantine"}]
  BY DEF TypeOK, SpoolTypeOK
<1>1. ASSUME UNCHANGED <<inNew, inCur, dropped, jobs>> PROVE UNCHANGED served
  BY <1>1, ServedStill DEF HasCopy
<1>2. ASSUME UNCHANGED <<spool, inNew, inCur, dropped, jobs>>
      PROVE  [Promise!Next]_(Promise!promiseVars)
  BY <1>1, <1>2 DEF Promise!promiseVars
<1>3. ASSUME NEW f \in Files, Arrive(f) \/ Reinject(f)
      PROVE  [Promise!Next]_(Promise!promiseVars)
  <2>1. UNCHANGED served
    BY <1>1, <1>3 DEF Arrive, Reinject, boxVars, kevyVars
  <2>2. Promise!Accept(f) \/ Promise!Return(f)
    BY <1>3, <2>1 DEF Arrive, Reinject, Promise!Accept, Promise!Return, Promise!Moves
  <2> QED
    BY <2>2 DEF Promise!Next
<1>4. ASSUME Close PROVE [Promise!Next]_(Promise!promiseVars)
  <2>1. PICK f \in Files : f = file
    BY <1>4 DEF Close, TypeOK, ProcTypeOK
  <2>2. spool[f] = "incoming" /\ Attempting
    BY <1>4, <2>1 DEF Close, Remembers, InHand, Attempting, AttemptPcs
  <2>3. UNCHANGED served
    BY <1>1, <1>4 DEF Close, boxVars, kevyVars
  <2>4. CASE any /\ spool' = [spool EXCEPT ![f] = "gone"]
    <3>1. served[f] # {}
      BY <2>1, <2>2, <2>4 DEF SomebodyServed
    <3>2. Promise!Remove(f)
      BY <2>2, <2>3, <2>4, <3>1 DEF Promise!Remove, Promise!Moves
    <3> QED
      BY <3>2 DEF Promise!Next
  <2>5. CASE spool' = [spool EXCEPT ![f] = "unresolved"]
    <3>1. Promise!GiveUp(f)
      BY <2>2, <2>3, <2>5 DEF Promise!GiveUp, Promise!Moves
    <3> QED
      BY <3>1 DEF Promise!Next
  <2>6. CASE UNCHANGED spool
    BY <2>3, <2>6 DEF Promise!promiseVars
  <2> QED
    BY <1>4, <2>1, <2>4, <2>5, <2>6 DEF Close
<1>5. ASSUME AsideMove PROVE [Promise!Next]_(Promise!promiseVars)
  <2>1. PICK f \in Files : f = file
    BY <1>5 DEF AsideMove, TypeOK, ProcTypeOK
  <2>2. spool[f] = "incoming" /\ UNCHANGED served
    BY <1>1, <1>5, <2>1 DEF AsideMove, Remembers, InHand, boxVars, kevyVars
  <2>3. Promise!Quarantine(f)
    BY <1>5, <2>1, <2>2 DEF AsideMove, Promise!Quarantine, Promise!Moves
  <2> QED
    BY <2>3 DEF Promise!Next
<1>6. ASSUME NEW f \in Files, NEW b \in Boxes, ClientMoves(f, b)
      PROVE  [Promise!Next]_(Promise!promiseVars)
  <2>1. UNCHANGED <<spool, dropped, jobs>>
    BY <1>6 DEF ClientMoves, spoolVars, kevyVars
  <2>2. UNCHANGED served
    BY <1>6, <2>1, MoveEffects, ServedStill
  <2> QED
    BY <2>1, <2>2 DEF Promise!promiseVars
<1>7. ASSUME Walk \/ SendersCopy \/ EachRcpt PROVE [Promise!Next]_(Promise!promiseVars)
  BY <1>2, <1>7 DEF Walk, StartTick, Begin, Refuse, SendersCopy, SkipSender, WriteSent, SentDone,
     SentFails, EachRcpt, SkipDone, LookupFails, StartRcpt, EndRcpt, spoolVars, boxVars, kevyVars
<1>8. ASSUME Finish \/ AsideRecord \/ AsideFails \/ AsideForget \/ Tell \/ PoisonDies \/ Crash
      PROVE  [Promise!Next]_(Promise!promiseVars)
  BY <1>2, <1>8 DEF Finish, AsideRecord, AsideFails, AsideForget, Tell, PoisonDies, Crash, Die,
     spoolVars, boxVars, kevyVars
<1>9. ASSUME NEW k \in Keys, ExpireMarker(k) PROVE [Promise!Next]_(Promise!promiseVars)
  BY <1>2, <1>9 DEF ExpireMarker, spoolVars, boxVars
<1>10. ASSUME NEW f \in Files, Age(f) PROVE [Promise!Next]_(Promise!promiseVars)
  BY <1>2, <1>10 DEF Age, spoolVars, boxVars, kevyVars
<1>11. ASSUME Environment PROVE [Promise!Next]_(Promise!promiseVars)
  BY <1>3, <1>6, <1>8, <1>9, <1>10, <1>11 DEF Environment
<1> QED
  BY <1>4, <1>5, <1>7, <1>8, <1>11 DEF Next, Drain, SetAside

LEMMA PromiseStarts == ASSUME Init PROVE Promise!Init
<1>1. ASSUME NEW f \in Files, NEW r \in To[f] PROVE ~Served(f, r)
  <2>1. r \in Rcpts
    BY ConstantsAssumption
  <2> QED
    BY DEF Init, Served, Reached, HasCopy
<1> QED
  BY <1>1 DEF Init, Promise!Init

(***************************************************************************)
(* The drain implements the spool's promise: a file leaves incoming/ only  *)
(* delivered to somebody, given up or set aside, who was served stays      *)
(* served, and a file that is gone never comes back.                       *)
(***************************************************************************)
THEOREM KeepsPromise == Spec => PromiseKept
<1>1. Init => Promise!Init /\ SomebodyServed
  BY PromiseStarts DEF Init, SomebodyServed
<1>2. TypeOK /\ Truthful /\ SomebodyServed /\ [Next]_vars => SomebodyServed'
  BY NextSomebody
<1>3. TypeOK /\ Remembers /\ SomebodyServed /\ [Next]_vars => [Promise!Next]_(Promise!promiseVars)
  <2>1. ASSUME UNCHANGED vars PROVE UNCHANGED Promise!promiseVars
    BY <2>1, ServedStill DEF vars, spoolVars, boxVars, kevyVars, HasCopy, Promise!promiseVars
  <2> QED
    BY <2>1, ServedStep, MovedStep
<1> QED
  BY <1>1, <1>2, <1>3, TypeCorrect, AlwaysRemembers, AlwaysTruthful, PTL
     DEF Spec, PromiseKept, Promise!Spec

-----------------------------------------------------------------------------
(* Jobs.  A marker once set stays as long as a file that may look for it. *)

JobsMarked == jobs \subseteq marker /\ again = {}

(***************************************************************************)
(* Where the operator leaves no file in quarantine for longer than a       *)
(* once-key lives, a job is queued once, however often a file is drained.  *)
(***************************************************************************)
THEOREM JobsQueuedOnce == ASSUME ~MarkersExpire PROVE Spec => []JobOnce
<1>1. Init => JobsMarked
  BY DEF Init, JobsMarked
<1>2. ASSUME JobsMarked, [Next]_vars PROVE JobsMarked'
  <2>1. ASSUME NEW k, QueueFails(k) PROVE JobsMarked'
    BY <1>2, <2>1 DEF JobsMarked, QueueFails, QueueOnce, QueueAlways, kevyVars
  <2>2. ASSUME UNCHANGED kevyVars PROVE JobsMarked'
    BY <1>2, <2>2 DEF JobsMarked, kevyVars
  <2>3. CASE UNCHANGED vars
    BY <2>2, <2>3 DEF vars
  <2>4. CASE Walk \/ SendersCopy \/ EachRcpt \/ Copy
    BY <2>2, <2>4 DEF Walk, StartTick, Begin, Refuse, SendersCopy, SkipSender, WriteSent,
       SentDone, SentFails, EachRcpt, SkipDone, LookupFails, StartRcpt, EndRcpt, Copy, FindCopy,
       CreateCopy, FinishCopy, CopyFails, Ingest
  <2>5. ASSUME NEW t \in Target, Serve(t) PROVE JobsMarked'
    <3>1. CASE TargetFails(t) \/ Discard(t) \/ Keep(t)
      BY <2>2, <3>1 DEF TargetFails, Discard, Keep
    <3>2. CASE Relay(t) \/ RelayFails(t) \/ Reject(t)
      BY <2>1, <3>2 DEF Relay, RelayFails, Reject, QueueFails
    <3>3. CASE Redirect(t) \/ RedirectFails(t) \/ Forward(t)
      BY <2>1, <3>3 DEF Redirect, RedirectFails, Forward, QueueFails
    <3> QED
      BY <2>5, <3>1, <3>2, <3>3 DEF Serve
  <2>6. CASE Close \/ Finish \/ SetAside \/ PoisonDies \/ Crash
    BY <2>2, <2>6 DEF Close, Finish, SetAside, AsideRecord, AsideMove, AsideFails, AsideForget,
       Tell, PoisonDies, Crash, Die
  <2>7. CASE Environment
    BY <2>2, <2>6, <2>7 DEF Environment, Arrive, Reinject, Age, ClientMoves, ExpireMarker
  <2> QED
    BY <1>2, <2>3, <2>4, <2>5, <2>6, <2>7 DEF Next, Drain
<1>3. JobsMarked => JobOnce
  BY DEF JobsMarked, JobOnce
<1> QED
  BY <1>1, <1>2, <1>3, PTL DEF Spec

-----------------------------------------------------------------------------
(* Deaths over a file are counted on disk before they happen. *)

DeathsCounted ==
  /\ \A f \in Files : /\ deaths[f] <= Limit
                      /\ spool[f] = "incoming" => deaths[f] <= Earlier(f).attempts
                      /\ spool[f] = "absent" => deaths[f] = 0
  /\ Attempting => /\ rec[file].kept /\ rec[file].attempts = mem.attempts
                   /\ deaths[file] < mem.attempts /\ mem.attempts <= Limit
  /\ pc = "forget" => spool[file] = "quarantine" \/ deaths[file] = 0

LEMMA EarlierNat == ASSUME TypeOK, NEW f \in Files PROVE Earlier(f).attempts \in Nat
BY EarlierType, RecordParts DEF TypeOK

\* A step that leaves the counts as they are.
LEMMA SameCounts ==
  ASSUME DeathsCounted, UNCHANGED <<deaths, spool, file>>,
         \A f \in Files : Earlier(f)'.attempts = Earlier(f).attempts,
         Attempting' => /\ Attempting /\ mem'.attempts = mem.attempts
                        /\ rec'[file].kept /\ rec'[file].attempts = rec[file].attempts,
         pc' = "forget" => pc = "forget"
  PROVE  DeathsCounted'
BY DEF DeathsCounted

\* The saves of an attempt keep its count.
LEMMA SavedCounts ==
  ASSUME TypeOK, DeathsCounted, ~SaveMayFail, Attempting, Attempting', pc' # "forget",
         UNCHANGED <<deaths, spool, beside, file>>, mem' \in Record,
         mem'.attempts = mem.attempts, mem'.kept,
         Save(file, mem') \/ UNCHANGED <<rec, durable>>
  PROVE  DeathsCounted'
<1>1. PICK f \in Files : f = file
  BY DEF Attempting, AttemptPcs, RcptPcs, TypeOK, ProcTypeOK
<1>2. rec \in [Files -> Record]
  BY DEF TypeOK, SpoolTypeOK
<1>3. /\ rec'[f].kept /\ rec'[f].attempts = rec[f].attempts
      /\ \A g \in Files \ {f} : rec'[g] = rec[g]
  BY <1>1, <1>2 DEF Save, DeathsCounted
<1>4. \A g \in Files : Earlier(g)'.attempts = Earlier(g).attempts
  BY <1>1, <1>3 DEF Earlier, DeathsCounted
<1> QED
  BY <1>1, <1>3, <1>4, SameCounts

\* Between attempts the counts on disk stand.
LEMMA StandingCounts ==
  ASSUME DeathsCounted, UNCHANGED <<deaths, spool, rec, beside>>, ~Attempting', pc' # "forget"
  PROVE  DeathsCounted'
<1>1. \A f \in Files : Earlier(f)' = Earlier(f)
  BY DEF Earlier
<1> QED
  BY <1>1 DEF DeathsCounted

LEMMA WalkCounts ==
  ASSUME TypeOK, Remembers, DeathsCounted, ~SaveMayFail, Walk
  PROVE  DeathsCounted'
<1>1. ASSUME NEW f \in Files, Begin(f) PROVE DeathsCounted'
  <2>1. /\ Earlier(f) \in Record /\ Earlier(f).attempts \in Nat /\ Earlier(f).attempts < Limit
        /\ spool[f] = "incoming" /\ deaths[f] <= Earlier(f).attempts
    BY <1>1, EarlierType, RecordParts DEF Begin, Remembers, InHand, DeathsCounted, TypeOK
  <2>2. /\ mem' = Started(f) /\ mem'.kept /\ mem'.attempts = Earlier(f).attempts + 1
        /\ file' = f /\ pc' = "sender" /\ UNCHANGED <<spool, beside, deaths>>
    BY <1>1, EarlierType DEF Begin, Started, TypeOK
  <2>3. rec'[f] = mem' /\ \A g \in Files \ {f} : rec'[g] = rec[g]
    BY <1>1 DEF Begin, Save, TypeOK, SpoolTypeOK
  <2>4. /\ Earlier(f)'.attempts = mem'.attempts
        /\ \A g \in Files \ {f} : Earlier(g)' = Earlier(g)
    BY <2>2, <2>3 DEF Earlier
  <2>5. deaths \in [Files -> Nat] /\ Limit \in Nat
    BY ConstantsAssumption DEF TypeOK, HistTypeOK
  <2> QED
    BY <2>1, <2>2, <2>3, <2>4, <2>5 DEF DeathsCounted
<1>2. ASSUME NEW f \in Files, StartTick \/ Refuse(f) PROVE DeathsCounted'
  BY <1>2, StandingCounts DEF StartTick, Refuse, spoolVars, histVars, Attempting, AttemptPcs, RcptPcs
<1>3. CASE StartTick
  BY <1>3, StandingCounts DEF StartTick, spoolVars, histVars, Attempting, AttemptPcs, RcptPcs
<1> QED
  BY <1>1, <1>2, <1>3 DEF Walk

LEMMA AttemptCounts ==
  ASSUME TypeOK, Remembers, DeathsCounted, ~SaveMayFail,
         SendersCopy \/ EachRcpt \/ (\E t \in Target : Serve(t)) \/ Copy
  PROVE  DeathsCounted'
<1>0. mem \in Record /\ (Attempting => mem.kept)
  BY DEF TypeOK, ProcTypeOK, Remembers, HandCovers
<1>1. ASSUME NEW s \in Steps
      PROVE  /\ Done(s) \in Record /\ Done(s).kept = mem.kept /\ Done(s).attempts = mem.attempts
  BY <1>0 DEF Done, Record
<1>2. CASE SendersCopy
  <2>1. /\ Attempting /\ Attempting' /\ pc' # "forget" /\ UNCHANGED <<deaths, spool, beside, file>>
        /\ mem' = mem \/ (mem' = Done(Sent) /\ Sent \in Steps)
        /\ Save(file, mem') \/ UNCHANGED <<rec, durable>>
    BY <1>2 DEF SendersCopy, SkipSender, WriteSent, SentDone, SentFails, Attempting, AttemptPcs,
       spoolVars, handVars, histVars, Steps
  <2> QED
    BY <1>0, <1>1, <2>1, SavedCounts
<1>3. CASE EachRcpt
  <2>1. /\ Attempting /\ Attempting' /\ pc' # "forget" /\ UNCHANGED <<deaths, spool, beside, file>>
        /\ Save(file, mem') \/ UNCHANGED <<rec, durable>>
    BY <1>3 DEF EachRcpt, SkipDone, LookupFails, StartRcpt, EndRcpt, Attempting, AttemptPcs,
       RcptPcs, spoolVars, handVars, histVars
  <2>2. mem' = mem \/ \E s \in Steps : mem' = Done(s)
    BY <1>3 DEF EachRcpt, SkipDone, LookupFails, StartRcpt, EndRcpt, handVars, TypeOK, ProcTypeOK,
       RcptPcs, Steps
  <2> QED
    BY <1>0, <1>1, <2>1, <2>2, SavedCounts
<1>4. CASE (\E t \in Target : Serve(t)) \/ Copy
  <2>1. /\ pc \in RcptPcs /\ pc' \in RcptPcs
        /\ UNCHANGED <<deaths, spool, rec, durable, beside, file, mem>>
    <3>1. ASSUME NEW t \in Target, Serve(t)
          PROVE  /\ pc \in RcptPcs /\ pc' \in RcptPcs
                 /\ UNCHANGED <<deaths, spool, rec, durable, beside, file, mem>>
      BY <3>1 DEF Serve, TargetFails, Relay, RelayFails, Discard, Reject, Redirect, RedirectFails,
         Forward, Keep, Decided, Turn, StartWrite, RcptPcs, spoolVars, handVars, histVars
    <3> QED
      BY <1>4, <3>1, CopyShape DEF Writing, RcptPcs
  <2> QED
    BY <1>0, <2>1, SavedCounts DEF Attempting, AttemptPcs, RcptPcs
<1> QED
  BY <1>2, <1>3, <1>4

LEMMA EndCounts ==
  ASSUME TypeOK, Remembers, DeathsCounted, ~SaveMayFail,
         Close \/ Finish \/ SetAside \/ PoisonDies \/ Crash
  PROVE  DeathsCounted'
<1>0. /\ spool \in [Files -> {"absent", "incoming", "gone", "unresolved", "quarantine"}]
      /\ deaths \in [Files -> Nat] /\ mem \in Record /\ mem.attempts \in Nat /\ Limit \in Nat
      /\ rec \in [Files -> Record] /\ beside \in [Files -> Record]
  BY RecordParts, ConstantsAssumption DEF TypeOK, SpoolTypeOK, HistTypeOK, ProcTypeOK
<1>1. CASE Close
  <2>1. PICK f \in Files : f = file /\ f = file'
    BY <1>1 DEF Close, handVars, TypeOK, ProcTypeOK
  <2>2. /\ \A g \in Files : spool'[g] = spool[g] \/ spool'[g] \in {"gone", "unresolved"}
        /\ pc = "rcpts" /\ pc' = "finish" /\ UNCHANGED <<rec, beside, deaths, mem>>
    BY <1>0, <1>1, <2>1 DEF Close, handVars
  <2>3. \A g \in Files : Earlier(g)' = Earlier(g)
    BY <2>2 DEF Earlier
  <2> QED
    BY <2>1, <2>2, <2>3 DEF DeathsCounted, Attempting, AttemptPcs
<1>2. CASE Finish
  <2>1. PICK f \in Files : f = file
    BY <1>2 DEF Finish, TypeOK, ProcTypeOK
  <2>2. /\ UNCHANGED spool /\ pc' = "idle" /\ deaths'[f] = 0
        /\ \A g \in Files \ {f} : deaths'[g] = deaths[g] /\ rec'[g] = rec[g] /\ beside'[g] = beside[g]
    BY <1>0, <1>2, <2>1 DEF Finish, LetGo, Save
  <2>3. \A g \in Files \ {f} : Earlier(g)' = Earlier(g)
    BY <2>2 DEF Earlier
  <2>4. Earlier(f)'.attempts \in Nat
    <3>1. TypeOK'
      BY <1>2, NextType DEF Next, Drain
    <3>2. rec'[f] \in Record /\ beside'[f] \in Record
      BY <3>1 DEF TypeOK, SpoolTypeOK
    <3> QED
      BY <3>2, RecordParts, ForgetAttempts DEF Earlier
  <2> QED
    BY <1>0, <2>2, <2>3, <2>4 DEF DeathsCounted, Attempting, AttemptPcs, RcptPcs
<1>3. CASE AsideRecord
  <2>1. PICK f \in Files : f = file /\ f = file'
    BY <1>3 DEF AsideRecord, handVars, TypeOK, ProcTypeOK
  <2>2. /\ UNCHANGED <<spool, rec, deaths>> /\ pc' = "move"
        /\ \A g \in Files \ {f} : beside'[g] = beside[g]
        /\ beside'[f] \in Record
    BY <1>0, <1>3, <2>1 DEF AsideRecord, histVars
  <2>3. \A g \in Files : Earlier(g)'.attempts = Earlier(g).attempts
    BY <1>0, <2>2, ForgetAttempts DEF Earlier
  <2> QED
    BY <2>1, <2>2, <2>3, SameCounts DEF Attempting, AttemptPcs, RcptPcs
<1>4. CASE AsideMove
  <2>1. PICK f \in Files : f = file /\ f = file'
    BY <1>4 DEF AsideMove, handVars, TypeOK, ProcTypeOK
  <2>2. /\ UNCHANGED <<rec, beside, deaths>> /\ pc' = "forget"
        /\ spool'[f] = "quarantine" /\ \A g \in Files \ {f} : spool'[g] = spool[g]
    BY <1>0, <1>4, <2>1 DEF AsideMove, histVars
  <2>3. \A g \in Files : Earlier(g)' = Earlier(g)
    BY <2>2 DEF Earlier
  <2> QED
    BY <2>1, <2>2, <2>3 DEF DeathsCounted, Attempting, AttemptPcs, RcptPcs
<1>5. CASE AsideForget
  <2>1. PICK f \in Files : f = file
    BY <1>5 DEF AsideForget, TypeOK, ProcTypeOK
  <2>2. /\ UNCHANGED <<spool, beside, deaths>> /\ pc = "forget" /\ pc' = "tell"
        /\ \A g \in Files \ {f} : rec'[g] = rec[g]
    BY <1>0, <1>5, <2>1 DEF AsideForget
  <2>3. \A g \in Files \ {f} : Earlier(g)' = Earlier(g)
    BY <2>2 DEF Earlier
  <2>4. Earlier(f)'.attempts \in Nat
    <3>1. TypeOK'
      BY <1>5, NextType DEF Next, Drain, SetAside
    <3>2. rec'[f] \in Record /\ beside'[f] \in Record
      BY <3>1 DEF TypeOK, SpoolTypeOK
    <3> QED
      BY <3>2, RecordParts, ForgetAttempts DEF Earlier
  <2> QED
    BY <1>0, <2>1, <2>2, <2>3, <2>4 DEF DeathsCounted, Attempting, AttemptPcs, RcptPcs
<1>6. CASE AsideFails \/ Tell
  BY <1>6, StandingCounts DEF AsideFails, Tell, LetGo, spoolVars, Attempting, AttemptPcs, RcptPcs
<1>7. CASE PoisonDies \/ Crash
  <2>1. PICK f \in Files : f = file
    BY <1>7 DEF PoisonDies, Crash, Attempting, AttemptPcs, RcptPcs, TypeOK, ProcTypeOK
  <2>2. /\ UNCHANGED <<spool, rec, beside>> /\ pc' = "idle"
        /\ deaths'[f] = IF Attempting THEN deaths[f] + 1 ELSE deaths[f]
        /\ \A g \in Files \ {f} : deaths'[g] = deaths[g]
    BY <1>0, <1>7, <2>1 DEF PoisonDies, Crash, Die, LetGo, spoolVars
  <2>3. \A g \in Files : Earlier(g)' = Earlier(g)
    BY <2>2 DEF Earlier
  <2>4. Attempting => /\ spool[f] # "absent" /\ Earlier(f) = rec[f]
                      /\ deaths[f] + 1 <= mem.attempts /\ mem.attempts <= Limit
                      /\ rec[f].attempts = mem.attempts
    BY <1>0, <2>1 DEF Remembers, InHand, Attempting, AttemptPcs, DeathsCounted, Earlier
  <2> QED
    BY <1>0, <2>2, <2>3, <2>4 DEF DeathsCounted, Attempting, AttemptPcs, RcptPcs
<1> QED
  BY <1>1, <1>2, <1>3, <1>4, <1>5, <1>6, <1>7 DEF SetAside

LEMMA NextCounts ==
  ASSUME TypeOK, Remembers, DeathsCounted, ~SaveMayFail, [Next]_vars
  PROVE  DeathsCounted'
<1>0. /\ spool \in [Files -> {"absent", "incoming", "gone", "unresolved", "quarantine"}]
      /\ deaths \in [Files -> Nat] /\ Limit \in Nat
      /\ pc = "forget" \/ Attempting => file \in Files
  BY ConstantsAssumption DEF TypeOK, SpoolTypeOK, HistTypeOK, ProcTypeOK, Attempting, AttemptPcs,
     RcptPcs
<1>1. ASSUME UNCHANGED <<deaths, spoolVars, procVars>> PROVE DeathsCounted'
  BY <1>1 DEF DeathsCounted, Earlier, Attempting, spoolVars, procVars, handVars
<1>2. CASE UNCHANGED vars
  BY <1>1, <1>2 DEF vars, histVars
<1>3. ASSUME NEW f \in Files, Arrive(f) PROVE DeathsCounted'
  <2>1. /\ UNCHANGED <<rec, beside, deaths, pc, file, mem>> /\ spool[f] = "absent"
        /\ spool'[f] = "incoming" /\ \A g \in Files \ {f} : spool'[g] = spool[g]
    BY <1>0, <1>3 DEF Arrive, histVars, procVars, handVars
  <2>2. \A g \in Files : Earlier(g)' = Earlier(g) /\ Earlier(g).attempts \in Nat
    BY <2>1, EarlierNat DEF Earlier
  <2> QED
    BY <1>0, <2>1, <2>2 DEF DeathsCounted, Attempting
<1>4. ASSUME NEW f \in Files, Reinject(f) PROVE DeathsCounted'
  <2>1. /\ UNCHANGED <<rec, beside, pc, file, mem>> /\ spool[f] = "quarantine"
        /\ spool'[f] = "incoming" /\ deaths'[f] = 0
        /\ \A g \in Files \ {f} : spool'[g] = spool[g] /\ deaths'[g] = deaths[g]
    BY <1>0, <1>4 DEF Reinject, procVars, handVars
  <2>2. \A g \in Files : Earlier(g)' = Earlier(g) /\ Earlier(g).attempts \in Nat
    BY <2>1, EarlierNat DEF Earlier
  <2>3. Attempting => file # f
    BY <2>1 DEF Remembers, InHand, Attempting, AttemptPcs
  <2> QED
    BY <1>0, <2>1, <2>2, <2>3 DEF DeathsCounted, Attempting
<1>5. ASSUME NEW f \in Files, NEW b \in Boxes, ClientMoves(f, b) PROVE DeathsCounted'
  BY <1>1, <1>5 DEF ClientMoves, histVars
<1>6. ASSUME NEW k \in Keys, ExpireMarker(k) PROVE DeathsCounted'
  BY <1>1, <1>6 DEF ExpireMarker, histVars
<1>7. ASSUME NEW f \in Files, Age(f) PROVE DeathsCounted'
  BY <1>1, <1>7 DEF Age
<1>8. CASE Environment
  BY <1>3, <1>4, <1>5, <1>6, <1>7, <1>8, EndCounts DEF Environment
<1> QED
  BY <1>2, <1>8, WalkCounts, AttemptCounts, EndCounts DEF Next, Drain

LEMMA AlwaysCounted == ASSUME ~SaveMayFail PROVE Spec => []DeathsCounted
<1>1. Init => DeathsCounted
  BY ConstantsAssumption DEF Init, DeathsCounted, Attempting, AttemptPcs, RcptPcs
<1>2. TypeOK /\ Remembers /\ DeathsCounted /\ [Next]_vars => DeathsCounted'
  BY NextCounts
<1> QED
  BY <1>1, <1>2, TypeCorrect, AlwaysRemembers, PTL DEF Spec

(***************************************************************************)
(* Where attempt records can be written, a file takes the process down at  *)
(* most Limit times before it is set aside, and again after each time it   *)
(* is moved back.                                                          *)
(***************************************************************************)
THEOREM DeathsAreFew == ASSUME ~SaveMayFail PROVE Spec => []DeathsBounded
<1>1. DeathsCounted => DeathsBounded
  BY Zenon DEF DeathsCounted, DeathsBounded
<1> QED
  BY <1>1, AlwaysCounted, PTL

-----------------------------------------------------------------------------
(* The postmaster's notice. *)

NoticeDue ==
  \A f \in Files : spool[f] = "quarantine" /\ f \notin told =>
    \/ file = f /\ pc \in {"forget", "tell"}
    \/ crashes + faults > 0

LEMMA MoreFailures ==
  ASSUME NEW m \in Nat, NEW n \in Nat, NEW k \in Nat, k >= n
  PROVE  m + n > 0 => m + k > 0
OBVIOUS

\* Who is told of nothing: the reason is at hand, or something failed.
Due(f) == file = f /\ pc \in {"forget", "tell"}

LEMMA StillDue ==
  ASSUME TypeOK, NoticeDue, UNCHANGED crashes, faults' \in Nat, faults' >= faults,
         \A f \in Files : spool'[f] = "quarantine" /\ f \notin told' =>
           \/ spool[f] = "quarantine" /\ f \notin told /\ (Due(f) => Due(f)')
           \/ Due(f)'
  PROVE  NoticeDue'
<1>1. ASSUME NEW f \in Files, spool'[f] = "quarantine", f \notin told'
      PROVE  Due(f)' \/ crashes' + faults' > 0
  <2>1. Due(f)' \/ (spool[f] = "quarantine" /\ f \notin told /\ ~Due(f))
    BY <1>1
  <2>2. Due(f)' \/ crashes + faults > 0
    BY <2>1 DEF NoticeDue, Due
  <2>3. crashes + faults > 0 => crashes' + faults' > 0
    <3>1. crashes \in Nat /\ faults \in Nat
      BY DEF TypeOK, HistTypeOK
    <3> QED
      BY <3>1, MoreFailures
  <2> QED
    BY <2>2, <2>3
<1> QED
  BY <1>1, Zenon DEF NoticeDue, Due

LEMMA NextNotice == ASSUME TypeOK, Remembers, NoticeDue, [Next]_vars PROVE NoticeDue'
<1>0. /\ spool \in [Files -> {"absent", "incoming", "gone", "unresolved", "quarantine"}]
      /\ crashes \in Nat /\ faults \in Nat
  BY DEF TypeOK, SpoolTypeOK, HistTypeOK
<1>1. ASSUME UNCHANGED <<spool, told, crashes>>, faults' \in Nat, faults' >= faults,
             pc \in {"forget", "tell"} => pc' \in {"forget", "tell"} /\ file' = file
      PROVE  NoticeDue'
  BY <1>1, StillDue DEF Due
<1>2. ASSUME UNCHANGED <<spool, told, crashes>>, pc \notin {"forget", "tell"},
             faults' \in Nat, faults' >= faults
      PROVE  NoticeDue'
  BY <1>1, <1>2
<1>3. ASSUME UNCHANGED <<spool, told, crashes, faults, pc, file>> PROVE NoticeDue'
  BY <1>0, <1>1, <1>3
<1>4. CASE UNCHANGED vars
  BY <1>3, <1>4 DEF vars, spoolVars, procVars, handVars, histVars
<1>5. CASE Walk
  BY <1>0, <1>2, <1>5 DEF Walk, StartTick, Begin, Refuse, spoolVars, histVars
<1>6. CASE SendersCopy
  BY <1>0, <1>2, <1>6 DEF SendersCopy, SkipSender, WriteSent, SentDone, SentFails, Fault, spoolVars,
     histVars
<1>7. CASE EachRcpt
  BY <1>0, <1>2, <1>7 DEF EachRcpt, SkipDone, LookupFails, StartRcpt, EndRcpt, Fault, spoolVars,
     histVars
<1>8. CASE (\E t \in Target : Serve(t)) \/ Copy
  <2>1. ASSUME NEW t \in Target, Serve(t) PROVE NoticeDue'
    BY <1>0, <1>2, <2>1 DEF Serve, TargetFails, Relay, RelayFails, Discard, Reject, Redirect,
       RedirectFails, Forward, Keep, Decided, Turn, Fault, spoolVars, histVars
  <2>2. CASE Copy
    BY <1>0, <1>2, <2>2, CopyShape DEF Writing
  <2> QED
    BY <1>8, <2>1, <2>2
<1>9. CASE Close \/ AsideMove
  <2>1. PICK f \in Files : f = file
    BY <1>9 DEF Close, AsideMove, TypeOK, ProcTypeOK
  <2>2. /\ \A g \in Files : spool'[g] = "quarantine" =>
              spool[g] = "quarantine" \/ (g = f /\ file' = f /\ pc' = "forget")
        /\ UNCHANGED <<told, crashes>> /\ pc \notin {"forget", "tell"}
        /\ faults' \in Nat /\ faults' >= faults
    BY <1>0, <1>9, <2>1 DEF Close, AsideMove, Fault, handVars, histVars
  <2> QED
    BY <2>2, StillDue DEF Due
<1>10. CASE Finish \/ AsideRecord \/ AsideFails \/ PoisonDies
  <2>1. /\ UNCHANGED <<spool, told, crashes>> /\ pc \notin {"forget", "tell"}
        /\ faults' \in Nat /\ faults' >= faults
    BY <1>0, <1>10 DEF Finish, AsideRecord, AsideFails, PoisonDies, Die, Fault, Attempting,
       AttemptPcs, RcptPcs, spoolVars, histVars
  <2> QED
    BY <1>2, <2>1
<1>11. CASE AsideForget
  BY <1>0, <1>1, <1>11 DEF AsideForget, Fault, handVars
<1>12. CASE Tell
  BY <1>0, <1>12 DEF Tell, Fault, NoticeDue
<1>13. CASE Crash
  BY <1>0, <1>13 DEF Crash, Die, spoolVars, NoticeDue
<1>14. ASSUME NEW f \in Files, Arrive(f) \/ Reinject(f) PROVE NoticeDue'
  BY <1>0, <1>14 DEF Arrive, Reinject, procVars, handVars, histVars, NoticeDue
<1>15. ASSUME NEW f \in Files, Age(f) PROVE NoticeDue'
  BY <1>3, <1>15 DEF Age, spoolVars, procVars, handVars
<1>16. ASSUME NEW f \in Files, NEW b \in Boxes, ClientMoves(f, b) PROVE NoticeDue'
  BY <1>3, <1>16 DEF ClientMoves, spoolVars, procVars, handVars, histVars
<1>17. ASSUME NEW k \in Keys, ExpireMarker(k) PROVE NoticeDue'
  BY <1>3, <1>17 DEF ExpireMarker, spoolVars, procVars, handVars, histVars
<1>18. CASE Environment
  BY <1>13, <1>14, <1>15, <1>16, <1>17, <1>18 DEF Environment
<1> QED
  BY <1>4, <1>5, <1>6, <1>7, <1>8, <1>9, <1>10, <1>11, <1>11, <1>12, <1>18
     DEF Next, Drain, SetAside

(***************************************************************************)
(* The notice of a quarantined file is missed only when the process died   *)
(* or the disk failed.                                                     *)
(***************************************************************************)
THEOREM NoticesComeUnlessItFails == Spec => []NoticeLostOnlyByFailure
<1>1. Init => NoticeDue
  BY DEF Init, NoticeDue
<1>2. TypeOK /\ Remembers /\ NoticeDue /\ [Next]_vars => NoticeDue'
  BY NextNotice
<1>3. NoticeDue => NoticeLostOnlyByFailure
  BY DEF NoticeDue, NoticeLostOnlyByFailure
<1> QED
  BY <1>1, <1>2, <1>3, TypeCorrect, AlwaysRemembers, PTL DEF Spec

-----------------------------------------------------------------------------
(* Copies.  A mailbox reached in one way is served for one recipient, by   *)
(* one target; a local forward is a target only after the mailbox it comes *)
(* from was served.                                                        *)

ServingNow(f, r) == pc \in RcptPcs /\ file = f /\ rcpt = r

\* The recipient in hand may still bring a copy to b, by the way w.
ToCome(b, w) == \E t \in tgts : t.to = b \/ t = Own(w[2])

ExtrasFollow ==
  pc \in RcptPcs => \A t \in tgts : ~t.counts =>
    /\ took
    /\ \E x \in Targets[rcpt] \cap Boxes :
          t.to \in LocalForward[x] \ {x} /\ Own(x) \notin tgts

LEMMA TurnExtras ==
  ASSUME TypeOK, Truthful, ExtrasFollow, pc \in RcptPcs, NEW t \in Target, t \in tgts,
         UNCHANGED rcpt, Consume(t) \/ Miss(t)
  PROVE  ExtrasFollow'
<1>1. SUFFICES ASSUME NEW u \in tgts', ~u.counts
               PROVE  took' /\ \E x \in Targets[rcpt] \cap Boxes :
                                 u.to \in LocalForward[x] \ {x} /\ Own(x) \notin tgts'
  BY DEF ExtrasFollow
<1>2. \A x : Own(x) \in tgts' => Own(x) \in tgts
  BY DEF Consume, Miss, Own, Extra
<1>3. took => took'
  BY DEF Consume, Miss
<1>4. CASE u \in tgts
  <2>1. PICK x \in Targets[rcpt] \cap Boxes : u.to \in LocalForward[x] \ {x} /\ Own(x) \notin tgts
    BY <1>1, <1>4 DEF ExtrasFollow
  <2> QED
    BY <1>1, <1>2, <1>3, <1>4, <2>1 DEF ExtrasFollow
<1>5. CASE u \notin tgts
  <2>1. /\ Consume(t) /\ t.counts /\ t.to \in Boxes
        /\ u.to \in LocalForward[t.to] \ {t.to}
    BY <1>1, <1>5 DEF Consume, Miss, Extra
  <2>2. t = Own(t.to) /\ t.to \in Targets[rcpt]
    BY <2>1, OwnTarget DEF Truthful, HandServes
  <2>3. t \notin tgts'
    <3>1. ASSUME NEW c \in LocalForward[t.to] PROVE t # Extra(c)
      BY <2>1 DEF Extra
    <3> QED
      BY <2>1, <3>1 DEF Consume
  <2>4. took'
    BY <2>1 DEF Consume
  <2> QED
    BY <2>1, <2>2, <2>3, <2>4
<1> QED
  BY <1>4, <1>5

\* A target that may still bring a copy to b stands for the one way b is reached.
LEMMA TargetWay ==
  ASSUME Truthful, ExtrasFollow, pc \in RcptPcs, NEW b \in Boxes, ReachedOneWay(file, b),
         NEW w \in Ways(file, b), NEW v \in tgts, v \in Target, v.to = b
  PROVE  /\ v.counts => w[2] = b /\ v = Own(b)
         /\ ~v.counts => w[2] # b /\ Own(w[2]) \notin tgts /\ v = Extra(b)
         /\ w[1] = rcpt
<1>1. rcpt \in To[file]
  BY DEF Truthful, HandServes
<1>2. ASSUME v.counts PROVE w = <<rcpt, b>> /\ v = Own(b)
  <2>1. b \in Targets[rcpt]
    BY <1>2 DEF Truthful, HandServes
  <2>2. <<rcpt, b>> \in Ways(file, b)
    BY <1>1, <2>1 DEF Ways
  <2> QED
    BY <1>2, <2>2, OwnTarget DEF ReachedOneWay
<1>3. ASSUME ~v.counts PROVE w[1] = rcpt /\ w[2] # b /\ Own(w[2]) \notin tgts /\ v = Extra(b)
  <2>1. PICK x \in Targets[rcpt] \cap Boxes : b \in LocalForward[x] \ {x} /\ Own(x) \notin tgts
    BY <1>3 DEF ExtrasFollow
  <2>2. <<rcpt, x>> \in Ways(file, b)
    BY <1>1, <2>1 DEF Ways
  <2>3. w = <<rcpt, x>>
    BY <2>2 DEF ReachedOneWay
  <2> QED
    BY <1>3, <2>1, <2>3 DEF Target, Extra
<1> QED
  BY <1>2, <1>3 DEF Target

\* A mailbox some target stands for is reached.
LEMMA OnTheWay ==
  ASSUME Truthful, ExtrasFollow, pc \in RcptPcs, NEW b \in Boxes, NEW v \in tgts,
         v \in Target, v.to = b
  PROVE  Ways(file, b) # {}
<1>1. rcpt \in To[file]
  BY DEF Truthful, HandServes
<1>2. CASE v.counts
  <2>1. <<rcpt, b>> \in Ways(file, b)
    BY <1>1, <1>2 DEF Ways, Truthful, HandServes
  <2> QED
    BY <2>1
<1>3. CASE ~v.counts
  <2>1. PICK x \in Targets[rcpt] \cap Boxes : b \in LocalForward[x] \ {x}
    BY <1>3 DEF ExtrasFollow
  <2>2. <<rcpt, x>> \in Ways(file, b)
    BY <1>1, <2>1 DEF Ways
  <2> QED
    BY <2>2
<1> QED
  BY <1>2, <1>3

\* Consuming or missing a target brings no copy nearer, and its own is no longer
\* to come.
LEMMA TurnedWay ==
  ASSUME TypeOK, Truthful, ExtrasFollow, pc \in RcptPcs, NEW t \in Target, t \in tgts,
         Consume(t) \/ Miss(t), NEW b \in Boxes, ReachedOneWay(file, b),
         NEW w \in Ways(file, b), w[1] = rcpt, ToCome(b, w)'
  PROVE  ToCome(b, w) /\ t.to # b
<1>1. PICK u \in tgts' : u.to = b \/ u = Own(w[2])
  BY DEF ToCome
<1>2. CASE u \in tgts
  <2>1. u \in Target /\ u # t
    BY <1>1, <1>2 DEF Consume, Miss, Extra, TypeOK, ProcTypeOK
  <2>2. ToCome(b, w)
    BY <1>1, <1>2 DEF ToCome
  <2>3. ASSUME t.to = b PROVE FALSE
    <3>1. CASE t.counts
      <4>1. w[2] = b /\ t = Own(b)
        BY <2>3, <3>1, TargetWay
      <4>2. u.to = b
        BY <1>1, <4>1 DEF Own
      <4> QED
        BY <1>2, <2>1, <4>1, <4>2, TargetWay DEF Target
    <3>2. CASE ~t.counts
      <4>1. w[2] # b /\ Own(w[2]) \notin tgts /\ t = Extra(b)
        BY <2>3, <3>2, TargetWay
      <4>2. u.to = b
        BY <1>1, <1>2, <4>1
      <4> QED
        BY <1>2, <2>1, <4>1, <4>2, TargetWay DEF Target
    <3> QED
      BY <3>1, <3>2 DEF Target
  <2> QED
    BY <2>2, <2>3
<1>3. CASE u \notin tgts
  <2>1. PICK c \in LocalForward[t.to] \ {t.to} :
          u = Extra(c) /\ t.counts /\ t.to \in Boxes
    BY <1>1, <1>3 DEF Consume, Miss
  <2>2. c = b
    BY <1>1, <2>1 DEF Extra, Own
  <2>3. t = Own(t.to) /\ t.to \in Targets[rcpt] /\ rcpt \in To[file]
    BY <2>1, OwnTarget DEF Truthful, HandServes
  <2>4. <<rcpt, t.to>> \in Ways(file, b)
    BY <2>1, <2>2, <2>3 DEF Ways
  <2>5. w = <<rcpt, t.to>>
    BY <2>4 DEF ReachedOneWay
  <2> QED
    BY <2>1, <2>2, <2>3, <2>5 DEF ToCome
<1> QED
  BY <1>2, <1>3

\* What a turn does to the targets: one of them is done with, or none.
LEMMA TurnShape ==
  ASSUME TypeOK, Truthful, (\E t \in Target : Serve(t)) \/ Copy
  PROVE  /\ pc \in RcptPcs /\ pc' \in RcptPcs /\ file \in Files /\ rcpt \in Rcpts
         /\ UNCHANGED <<spool, rec, beside, file, mem, retry, todo, rcpt, durable, crashes>>
         /\ \/ UNCHANGED <<tgts, took>>
            \/ pc' = "targets" /\ \E t \in Target : t \in tgts /\ (Consume(t) \/ Miss(t))
<1>1. ASSUME NEW t \in Target, Serve(t)
      PROVE  /\ pc \in RcptPcs /\ pc' \in RcptPcs /\ file \in Files /\ rcpt \in Rcpts
             /\ UNCHANGED <<spool, rec, beside, file, mem, retry, todo, rcpt, durable, crashes>>
             /\ \/ UNCHANGED <<tgts, took>>
                \/ pc' = "targets" /\ \E u \in Target : u \in tgts /\ (Consume(u) \/ Miss(u))
  BY <1>1, ServeShape DEF Truthful, RcptPcs
<1>2. ASSUME Copy
      PROVE  /\ pc \in RcptPcs /\ pc' \in RcptPcs /\ file \in Files /\ rcpt \in Rcpts
             /\ UNCHANGED <<spool, rec, beside, file, mem, retry, todo, rcpt, durable, crashes>>
             /\ \/ UNCHANGED <<tgts, took>>
                \/ pc' = "targets" /\ \E u \in Target : u \in tgts /\ (Consume(u) \/ Miss(u))
  <2>1. pc \in Writing => tgt \in tgts
    BY DEF Truthful, HandServes
  <2> QED
    BY <1>2, <2>1, CopyShape DEF RcptPcs, Writing
<1> QED
  BY <1>1, <1>2

\* Outside a recipient there is nothing to serve, and a step that is not a turn
\* leaves the recipient, starts one, or leaves it as it is.
LEMMA OtherShape ==
  ASSUME TypeOK, [Next]_vars, ~((\E t \in Target : Serve(t)) \/ Copy)
  PROVE  \/ pc' \notin RcptPcs
         \/ \E r \in Rcpts : StartRcpt(r)
         \/ UNCHANGED procVars
<1>1. CASE UNCHANGED vars
  BY <1>1 DEF vars
<1>2. CASE Walk \/ SendersCopy
  BY <1>2 DEF Walk, StartTick, Begin, Refuse, SendersCopy, SkipSender, WriteSent, SentDone,
     SentFails, RcptPcs
<1>3. CASE EachRcpt
  BY <1>3 DEF EachRcpt, SkipDone, LookupFails, EndRcpt, RcptPcs
<1>4. CASE Close \/ Finish \/ SetAside \/ PoisonDies \/ Crash
  BY <1>4 DEF Close, Finish, SetAside, AsideRecord, AsideMove, AsideFails, AsideForget, Tell,
     PoisonDies, Crash, Die, LetGo, RcptPcs
<1>5. CASE Environment
  BY <1>4, <1>5 DEF Environment, Arrive, Reinject, Age, ClientMoves, ExpireMarker
<1> QED
  BY <1>1, <1>2, <1>3, <1>4, <1>5 DEF Next, Drain

LEMMA NextExtras ==
  ASSUME TypeOK, Truthful, ExtrasFollow, [Next]_vars
  PROVE  ExtrasFollow'
<1>1. CASE (\E t \in Target : Serve(t)) \/ Copy
  <2>1. CASE UNCHANGED <<tgts, took>>
    BY <1>1, <2>1, TurnShape DEF ExtrasFollow
  <2> QED
    BY <1>1, <2>1, TurnShape, TurnExtras
<1>2. CASE pc' \notin RcptPcs
  BY <1>2 DEF ExtrasFollow
<1>3. ASSUME NEW r \in Rcpts, StartRcpt(r) PROVE ExtrasFollow'
  BY <1>3 DEF StartRcpt, ExtrasFollow, Own
<1>4. CASE UNCHANGED procVars
  BY <1>4 DEF ExtrasFollow, procVars, rcptVars
<1> QED
  BY <1>1, <1>2, <1>3, <1>4, OtherShape

LEMMA AlwaysFollow == Spec => []ExtrasFollow
<1>1. Init => ExtrasFollow
  BY DEF Init, ExtrasFollow, RcptPcs
<1>2. TypeOK /\ Truthful /\ ExtrasFollow /\ [Next]_vars => ExtrasFollow'
  BY NextExtras
<1> QED
  BY <1>1, <1>2, TypeCorrect, AlwaysTruthful, PTL DEF Spec

-----------------------------------------------------------------------------
(* What follows a copy happens once more for each death. *)

\* Until the service of the one recipient is on disk, or under way with a copy
\* consumed, every call there was has been paid for by a death.
RepeatsPaid(f, b) ==
  /\ ingests[f][b] <= crashes + 1
  /\ \A w \in Ways(f, b) :
       /\ \/ ingests[f][b] <= crashes
          \/ w[1] \in durable[f]
          \/ ServingNow(f, w[1]) /\ took
       /\ ServingNow(f, w[1]) /\ ToCome(b, w) => ingests[f][b] <= crashes

Repeats == \A f \in Files \ Poison, b \in Boxes : ReachedOneWay(f, b) => RepeatsPaid(f, b)

\* A step that calls nobody and forgets no service.
LEMMA PaidStill ==
  ASSUME NEW f \in Files, NEW b \in Boxes, RepeatsPaid(f, b),
         ingests'[f][b] = ingests[f][b], UNCHANGED crashes, durable[f] \subseteq durable'[f],
         \A w \in Ways(f, b) :
            /\ ServingNow(f, w[1]) /\ took
                 => w[1] \in durable'[f] \/ (ServingNow(f, w[1]) /\ took)'
            /\ ServingNow(f, w[1])' /\ ToCome(b, w)' => ServingNow(f, w[1]) /\ ToCome(b, w)
  PROVE  RepeatsPaid(f, b)'
BY DEF RepeatsPaid

LEMMA DurableGrows ==
  ASSUME TypeOK, [Next]_vars, NEW f \in Files
  PROVE  durable[f] \subseteq durable'[f]
<1>0. durable \in [Files -> SUBSET Steps]
  BY DEF TypeOK, HistTypeOK
<1>1. \A g, m : Save(g, m) => durable[f] \subseteq durable'[f]
  BY <1>0 DEF Save
<1>2. CASE UNCHANGED vars
  BY <1>2 DEF vars, histVars
<1>3. CASE Walk
  BY <1>1, <1>3 DEF Walk, StartTick, Begin, Refuse, histVars
<1>4. CASE SendersCopy
  BY <1>1, <1>4 DEF SendersCopy, SkipSender, WriteSent, SentDone, SentFails, histVars
<1>5. CASE EachRcpt
  BY <1>1, <1>5 DEF EachRcpt, SkipDone, LookupFails, StartRcpt, EndRcpt, histVars
<1>6. CASE (\E t \in Target : Serve(t)) \/ Copy
  BY <1>6 DEF Serve, TargetFails, Relay, RelayFails, Discard, Reject, Redirect, RedirectFails,
     Forward, Keep, Copy, FindCopy, CreateCopy, FinishCopy, CopyFails, Ingest, histVars
<1>7. CASE Close \/ Finish \/ SetAside \/ PoisonDies \/ Crash
  BY <1>1, <1>7 DEF Close, Finish, SetAside, AsideRecord, AsideMove, AsideFails, AsideForget,
     Tell, PoisonDies, Crash, Die, histVars
<1>8. CASE Environment
  BY <1>7, <1>8 DEF Environment, Arrive, Reinject, Age, ClientMoves, ExpireMarker, histVars
<1> QED
  BY <1>2, <1>3, <1>4, <1>5, <1>6, <1>7, <1>8 DEF Next, Drain

\* Who is called, and who dies.
LEMMA CallsAndDeaths ==
  ASSUME TypeOK, [Next]_vars, ~Ingest
  PROVE  /\ UNCHANGED ingests
         /\ Crash \/ UNCHANGED crashes
<1>1. CASE UNCHANGED vars
  BY <1>1 DEF vars, boxVars, histVars
<1>2. CASE Walk \/ SendersCopy \/ EachRcpt
  BY <1>2 DEF Walk, StartTick, Begin, Refuse, SendersCopy, SkipSender, WriteSent, SentDone,
     SentFails, EachRcpt, SkipDone, LookupFails, StartRcpt, EndRcpt, boxVars, histVars
<1>3. CASE (\E t \in Target : Serve(t)) \/ Copy
  BY <1>3 DEF Serve, TargetFails, Relay, RelayFails, Discard, Reject, Redirect, RedirectFails,
     Forward, Keep, Copy, FindCopy, CreateCopy, FinishCopy, CopyFails, boxVars, histVars
<1>4. CASE Close \/ Finish \/ SetAside \/ PoisonDies \/ Crash
  BY <1>4 DEF Close, Finish, SetAside, AsideRecord, AsideMove, AsideFails, AsideForget,
     Tell, PoisonDies, Crash, Die, boxVars, histVars
<1>5. CASE Environment
  BY <1>4, <1>5 DEF Environment, Arrive, Reinject, Age, ClientMoves, ExpireMarker, boxVars, histVars
<1> QED
  BY <1>1, <1>2, <1>3, <1>4, <1>5 DEF Next, Drain

\* A recipient is left with its service recorded, or with none of its copies
\* consumed, or by a death.
LEMMA RcptLeft ==
  ASSUME TypeOK, Truthful, ~SaveMayFail, [Next]_vars, pc \in RcptPcs, pc' \notin RcptPcs, took
  PROVE  rcpt \in durable'[file] \/ Crash \/ PoisonDies
<1>0. /\ file \in Files /\ rcpt \in Rcpts /\ mem \in Record
      /\ durable \in [Files -> SUBSET Steps]
  BY DEF TypeOK, ProcTypeOK, HistTypeOK, AttemptPcs, RcptPcs
<1>1. ASSUME EndRcpt PROVE rcpt \in durable'[file]
  BY <1>0, <1>1 DEF EndRcpt, Save, Done, Record
<1>2. CASE UNCHANGED vars
  BY <1>2 DEF vars, procVars
<1>3. CASE Walk \/ SendersCopy
  BY <1>3 DEF Walk, StartTick, Begin, Refuse, SendersCopy, SkipSender, WriteSent, SentDone,
     SentFails, RcptPcs
<1>4. CASE EachRcpt
  BY <1>1, <1>4 DEF EachRcpt, SkipDone, LookupFails, StartRcpt, RcptPcs
<1>5. CASE Close \/ Finish \/ SetAside
  BY <1>5 DEF Close, Finish, SetAside, AsideRecord, AsideMove, AsideFails, AsideForget, Tell,
     RcptPcs
<1>6. CASE (\E t \in Target : Serve(t)) \/ Copy
  BY <1>6, TurnShape
<1>7. CASE Environment
  BY <1>7 DEF Environment, Arrive, Reinject, Age, ClientMoves, ExpireMarker, procVars
<1> QED
  BY <1>2, <1>3, <1>4, <1>5, <1>6, <1>7 DEF Next, Drain

\* The copy the index is given is one the mailbox's one way accounts for.
LEMMA IngestPaid ==
  ASSUME TypeOK, Truthful, ExtrasFollow, Ingest,
         NEW f \in Files, NEW b \in Boxes, ReachedOneWay(f, b), RepeatsPaid(f, b)
  PROVE  RepeatsPaid(f, b)'
<1>0. /\ file \in Files /\ tgt \in Target /\ tgt \in tgts /\ pc \in RcptPcs /\ pc' = "targets"
      /\ pc' \in RcptPcs
      /\ tgt.to \in Boxes /\ UNCHANGED <<file, rcpt, durable, crashes>> /\ Consume(tgt)
      /\ crashes \in Nat /\ ingests \in [Files -> [Boxes -> Nat]]
  BY DEF Ingest, Truthful, HandServes, Writing, RcptPcs, handVars, histVars, TypeOK, ProcTypeOK,
     HistTypeOK, BoxTypeOK
<1>1. ASSUME NEW w \in Ways(f, b), f = file, w[1] = rcpt, ToCome(b, w)'
      PROVE  ToCome(b, w) /\ tgt.to # b
  BY <1>0, <1>1, TurnedWay
<1>2. took => took'
  BY <1>0 DEF Consume
<1>3. CASE f = file /\ b = tgt.to
  <2>1. ingests'[f][b] = ingests[f][b] + 1 /\ ingests[f][b] \in Nat
    BY <1>0, <1>3 DEF Ingest
  <2>2. \A w \in Ways(f, b) : w[1] = rcpt /\ ToCome(b, w)
    BY <1>0, <1>3, TargetWay DEF ToCome
  <2>3. Ways(f, b) # {}
    BY <1>0, <1>3, OnTheWay
  <2>4. took'
    <3>1. CASE tgt.counts
      BY <1>0, <3>1 DEF Consume
    <3>2. CASE ~tgt.counts
      BY <1>0, <1>2, <3>2 DEF ExtrasFollow
    <3> QED
      BY <3>1, <3>2
  <2>5. ingests[f][b] <= crashes
    BY <1>0, <1>3, <2>2, <2>3 DEF RepeatsPaid, ServingNow
  <2>6. \A w \in Ways(f, b) : ServingNow(f, w[1])' /\ took' /\ ~ToCome(b, w)'
    BY <1>0, <1>1, <1>3, <2>2, <2>4 DEF ServingNow
  <2> QED
    BY <1>0, <2>1, <2>5, <2>6 DEF RepeatsPaid
<1>4. CASE ~(f = file /\ b = tgt.to)
  <2>1. ingests'[f][b] = ingests[f][b]
    BY <1>0, <1>4 DEF Ingest
  <2>2. ASSUME NEW w \in Ways(f, b)
        PROVE  /\ ServingNow(f, w[1]) /\ took
                    => w[1] \in durable'[f] \/ (ServingNow(f, w[1]) /\ took)'
               /\ ServingNow(f, w[1])' /\ ToCome(b, w)' => ServingNow(f, w[1]) /\ ToCome(b, w)
    BY <1>0, <1>1, <1>2, <2>2 DEF ServingNow
  <2> QED
    BY <1>0, <2>1, <2>2, PaidStill
<1> QED
  BY <1>3, <1>4

LEMMA NextRepeats ==
  ASSUME TypeOK, Remembers, Truthful, ExtrasFollow, Repeats, ~SaveMayFail, [Next]_vars
  PROVE  Repeats'
<1> SUFFICES ASSUME NEW f \in Files \ Poison, NEW b \in Boxes, ReachedOneWay(f, b)
             PROVE  RepeatsPaid(f, b)'
  BY DEF Repeats
<1>0. /\ RepeatsPaid(f, b) /\ durable[f] \subseteq durable'[f]
      /\ crashes \in Nat /\ ingests \in [Files -> [Boxes -> Nat]]
  BY DurableGrows DEF Repeats, TypeOK, HistTypeOK, BoxTypeOK
<1>1. CASE Ingest
  BY <1>0, <1>1, IngestPaid
<1>2. CASE Crash
  <2>1. crashes' = crashes + 1 /\ UNCHANGED ingests /\ pc' = "idle"
    BY <1>2 DEF Crash, Die, LetGo, boxVars
  <2>2. ingests'[f][b] <= crashes' /\ \A r : ~ServingNow(f, r)'
    BY <1>0, <2>1 DEF RepeatsPaid, ServingNow, RcptPcs
  <2> QED
    BY <1>0, <2>1, <2>2 DEF RepeatsPaid
<1>3. CASE ~Ingest /\ ~Crash
  <2>0. UNCHANGED <<ingests, crashes>>
    BY <1>3, CallsAndDeaths
  <2>1. CASE pc' \notin RcptPcs
    <3>1. \A r : ~ServingNow(f, r)'
      BY <2>1 DEF ServingNow
    <3>2. ASSUME NEW r, ServingNow(f, r), took PROVE r \in durable'[f]
      <4>1. ~PoisonDies
        BY <3>2 DEF PoisonDies, ServingNow
      <4> QED
        BY <1>3, <2>1, <3>2, <4>1, RcptLeft DEF ServingNow
    <3> QED
      BY <1>0, <2>0, <3>1, <3>2, PaidStill
  <2>2. ASSUME NEW r \in Rcpts, StartRcpt(r) PROVE RepeatsPaid(f, b)'
    <3>0. /\ pc = "rcpts" /\ UNCHANGED file /\ rcpt' = r /\ r \notin mem.done /\ file \in Files
          /\ \A q : ~ServingNow(f, q)
      BY <2>2 DEF StartRcpt, handVars, TypeOK, ProcTypeOK, ServingNow, RcptPcs
    <3>1. r \notin durable[file]
      BY <3>0 DEF Remembers, HandCovers, Attempting, AttemptPcs
    <3>2. ASSUME NEW w \in Ways(f, b), ServingNow(f, w[1])' PROVE ingests[f][b] <= crashes
      BY <1>0, <3>0, <3>1, <3>2 DEF RepeatsPaid, ServingNow
    <3> QED
      BY <1>0, <2>0, <3>0, <3>2 DEF RepeatsPaid
  <2>3. CASE UNCHANGED procVars
    <3>1. /\ \A r : ServingNow(f, r)' <=> ServingNow(f, r)
          /\ \A w : ToCome(b, w)' <=> ToCome(b, w)
          /\ UNCHANGED took
      BY <2>3 DEF procVars, handVars, rcptVars, ServingNow, ToCome
    <3> QED
      BY <1>0, <2>0, <3>1, PaidStill
  <2>4. CASE (\E t \in Target : Serve(t)) \/ Copy
    <3>0. /\ pc \in RcptPcs /\ UNCHANGED <<file, rcpt>> /\ pc' \in RcptPcs
          /\ \/ UNCHANGED <<tgts, took>>
             \/ \E t \in Target : t \in tgts /\ (Consume(t) \/ Miss(t))
      BY <2>4, TurnShape
    <3>1. took => took'
      BY <3>0 DEF Consume, Miss
    <3>2. ASSUME NEW w \in Ways(f, b), f = file, w[1] = rcpt, ToCome(b, w)' PROVE ToCome(b, w)
      <4>1. CASE UNCHANGED tgts
        BY <3>2, <4>1 DEF ToCome
      <4>2. ASSUME NEW t \in Target, t \in tgts, Consume(t) \/ Miss(t) PROVE ToCome(b, w)
        BY <3>0, <3>2, <4>2, TurnedWay
      <4> QED
        BY <3>0, <4>1, <4>2
    <3>3. ASSUME NEW w \in Ways(f, b)
          PROVE  /\ ServingNow(f, w[1]) /\ took
                      => w[1] \in durable'[f] \/ (ServingNow(f, w[1]) /\ took)'
                 /\ ServingNow(f, w[1])' /\ ToCome(b, w)' => ServingNow(f, w[1]) /\ ToCome(b, w)
      BY <3>0, <3>1, <3>2, <3>3 DEF ServingNow
    <3> QED
      BY <1>0, <2>0, <3>3, PaidStill
  <2> QED
    BY <2>1, <2>2, <2>3, <2>4, OtherShape
<1> QED
  BY <1>1, <1>2, <1>3

(***************************************************************************)
(* Where attempt records can be written, what follows the index (a push, a *)
(* webhook) is repeated for a copy of a mailbox reached in one way at most *)
(* once for each death of the process.                                     *)
(***************************************************************************)
THEOREM RepeatsAreDeaths == ASSUME ~SaveMayFail PROVE Spec => []RepeatsCostDeaths
<1>1. Init => Repeats
  BY DEF Init, Repeats, RepeatsPaid
<1>2. TypeOK /\ Remembers /\ Truthful /\ ExtrasFollow /\ Repeats /\ [Next]_vars => Repeats'
  BY NextRepeats
<1>3. TypeOK /\ Repeats => RepeatsCostDeaths
  <2>1. ASSUME TypeOK, Repeats, NEW f \in Files \ Poison, NEW b \in Boxes, ReachedOneWay(f, b)
        PROVE  ingests[f][b] <= 1 + crashes
    <3>1. ingests[f][b] <= crashes + 1 /\ crashes \in Nat
      BY <2>1 DEF Repeats, RepeatsPaid, TypeOK, HistTypeOK
    <3> QED
      BY <3>1
  <2> QED
    BY <2>1 DEF RepeatsCostDeaths
<1> QED
  BY <1>1, <1>2, <1>3, TypeCorrect, AlwaysRemembers, AlwaysTruthful, AlwaysFollow, PTL DEF Spec

-----------------------------------------------------------------------------
(* Copies: a mailbox reached in one way holds one.                         *)

\* What is being written is in new/, or a client has moved it to cur/.
BeingWritten ==
  pc = "writing" => \/ inNew[file][tgt.to] = "torn"
                    \/ inNew[file][tgt.to] = "none" /\ inCur[file][tgt.to] # "none"

\* A file that may still be drained and has copies has a record, so that its next
\* attempt is a retry, which looks for a copy in cur/ too.
CopiesRecorded ==
  \A f \in Files, b \in Boxes :
    HasCopy(f, b) /\ spool[f] \notin {"gone", "unresolved"} => Earlier(f).kept

\* Nothing but the write under way may bring another copy to b.
Settled(f, b) ==
  \A w \in Ways(f, b) :
    /\ w[1] \notin todo
    /\ ServingNow(f, w[1]) /\ ToCome(b, w) => pc \in {"writing", "ingest"} /\ tgt.to = b

FirstAttempt(f) == Attempting /\ file = f /\ ~retry

OneCopy(f, b) ==
  /\ ~(inNew[f][b] # "none" /\ inCur[f][b] # "none")
  /\ FirstAttempt(f) /\ HasCopy(f, b) => Settled(f, b)

CopiesOnce ==
  /\ BeingWritten /\ CopiesRecorded
  /\ \A f \in Files, b \in Boxes : ReachedOneWay(f, b) => OneCopy(f, b)

\* The client's moves, and the rest of what leaves the process alone.
LEMMA NextWritten ==
  ASSUME TypeOK, BeingWritten, [Next]_vars
  PROVE  BeingWritten'
<1>0. /\ inNew \in [Files -> [Boxes -> {"none", "torn", "whole"}]]
      /\ inCur \in [Files -> [Boxes -> {"none", "torn", "whole"}]]
  BY DEF TypeOK, BoxTypeOK
<1>1. CASE UNCHANGED <<inNew, inCur, procVars>>
  BY <1>1 DEF BeingWritten, procVars, handVars, rcptVars
<1>2. ASSUME pc' # "writing" PROVE BeingWritten'
  BY <1>2 DEF BeingWritten
<1>3. CASE UNCHANGED vars
  BY <1>1, <1>3 DEF vars, boxVars
<1>4. CASE Walk \/ SendersCopy \/ EachRcpt
  BY <1>2, <1>4 DEF Walk, StartTick, Begin, Refuse, SendersCopy, SkipSender, WriteSent, SentDone,
     SentFails, EachRcpt, SkipDone, LookupFails, StartRcpt, EndRcpt
<1>5. ASSUME NEW t \in Target, Serve(t) PROVE BeingWritten'
  BY <1>2, <1>5 DEF Serve, TargetFails, Relay, RelayFails, Discard, Reject, Redirect,
     RedirectFails, Forward, Keep, StartWrite, Decided, Turn
<1>6. CASE CreateCopy
  <2>1. /\ file \in Files /\ tgt.to \in Boxes /\ UNCHANGED <<file, tgt>>
    BY <1>6 DEF CreateCopy, TypeOK, ProcTypeOK, handVars, rcptVars
  <2>2. inNew'[file][tgt.to] = "torn"
    BY <1>0, <1>6, <2>1 DEF CreateCopy
  <2> QED
    BY <2>1, <2>2 DEF BeingWritten
<1>7. CASE FindCopy \/ FinishCopy \/ CopyFails \/ Ingest
  BY <1>2, <1>7 DEF FindCopy, FinishCopy, CopyFails, Ingest
<1>8. CASE Close \/ Finish \/ SetAside \/ PoisonDies \/ Crash
  BY <1>2, <1>8 DEF Close, Finish, SetAside, AsideRecord, AsideMove, AsideFails, AsideForget,
     Tell, PoisonDies, Crash, Die, LetGo
<1>9. ASSUME NEW f \in Files, NEW b \in Boxes, ClientMoves(f, b) PROVE BeingWritten'
  <2>1. /\ UNCHANGED <<pc, file, tgt>> /\ inNew[f][b] # "none" /\ inCur[f][b] = "none"
        /\ inNew'[f][b] = "none" /\ inCur'[f][b] = inNew[f][b]
        /\ \A g \in Files, c \in Boxes : (g # f \/ c # b) =>
              inNew'[g][c] = inNew[g][c] /\ inCur'[g][c] = inCur[g][c]
    BY <1>0, <1>9 DEF ClientMoves, procVars, handVars, rcptVars
  <2>2. pc = "writing" => file \in Files /\ tgt.to \in Boxes
    BY DEF TypeOK, ProcTypeOK
  <2> QED
    BY <2>1, <2>2 DEF BeingWritten
<1>10. CASE Environment
  BY <1>1, <1>8, <1>9, <1>10 DEF Environment, Arrive, Reinject, Age, ExpireMarker, boxVars
<1> QED
  BY <1>3, <1>4, <1>5, <1>6, <1>7, <1>8, <1>10 DEF Next, Drain, Copy

\* A record is not lost while its file may still be drained.
LEMMA RecordStays ==
  ASSUME TypeOK, Remembers, [Next]_vars, NEW f \in Files, Earlier(f).kept
  PROVE  Earlier(f)'.kept \/ spool'[f] \in {"gone", "unresolved"}
<1>0. /\ rec \in [Files -> Record] /\ beside \in [Files -> Record]
      /\ rec' \in [Files -> Record] /\ beside' \in [Files -> Record]
      /\ mem \in Record /\ (Attempting => mem.kept)
      /\ pc # "idle" => file \in Files
  BY NextType DEF TypeOK, SpoolTypeOK, ProcTypeOK, Remembers, HandCovers
<1>1. /\ Earlier(f).kept <=> rec[f].kept \/ beside[f].kept
      /\ Earlier(f)'.kept <=> rec'[f].kept \/ beside'[f].kept
  BY <1>0, ForgetAttempts DEF Earlier
<1>2. ASSUME NEW g \in Files, NEW m \in Record, m.kept, Save(g, m), UNCHANGED beside
      PROVE  Earlier(f)'.kept
  BY <1>0, <1>1, <1>2 DEF Save
<1>3. ASSUME UNCHANGED <<rec, beside>> PROVE Earlier(f)'.kept
  BY <1>1, <1>3
<1>4. ASSUME NEW s \in Steps PROVE Done(s) \in Record /\ Done(s).kept = mem.kept
  BY <1>0, DoneType
<1>5. CASE UNCHANGED vars
  BY <1>3, <1>5 DEF vars, spoolVars
<1>6. CASE Walk
  BY <1>0, <1>2, <1>3, <1>6, EarlierType DEF Walk, StartTick, Begin, Refuse, spoolVars, TypeOK
<1>7. CASE SendersCopy
  <2>1. /\ Attempting /\ UNCHANGED beside
        /\ Save(file, mem) \/ Save(file, Done(Sent)) \/ UNCHANGED rec
    BY <1>7 DEF SendersCopy, SkipSender, WriteSent, SentDone, SentFails, Attempting, AttemptPcs,
       spoolVars
  <2> QED
    BY <1>0, <1>2, <1>3, <1>4, <2>1 DEF Attempting, AttemptPcs, RcptPcs, Steps
<1>8. CASE EachRcpt
  <2>1. /\ Attempting /\ UNCHANGED beside
        /\ Save(file, mem) \/ (\E s \in Steps : Save(file, Done(s))) \/ UNCHANGED rec
    BY <1>8 DEF EachRcpt, SkipDone, LookupFails, StartRcpt, EndRcpt, Attempting, AttemptPcs,
       RcptPcs, Steps, spoolVars, TypeOK, ProcTypeOK
  <2> QED
    BY <1>0, <1>2, <1>3, <1>4, <2>1 DEF Attempting, AttemptPcs, RcptPcs
<1>9. CASE (\E t \in Target : Serve(t)) \/ Copy
  BY <1>3, <1>9 DEF Serve, TargetFails, Relay, RelayFails, Discard, Reject, Redirect,
     RedirectFails, Forward, Keep, Copy, FindCopy, CreateCopy, FinishCopy, CopyFails, Ingest,
     spoolVars
<1>10. CASE Finish
  <2>1. Rest \in Record /\ Rest.kept
    BY <1>0, <1>10, RestType DEF Finish, Attempting, AttemptPcs
  <2>2. CASE spool[file] = "incoming"
    BY <1>0, <1>2, <1>10, <2>1, <2>2 DEF Finish
  <2>3. CASE spool[file] # "incoming"
    <3>1. spool[file] \in {"gone", "unresolved"} /\ UNCHANGED spool
      BY <1>10, <2>3 DEF Finish, Remembers, InHand
    <3>2. f # file => rec'[f] = rec[f] /\ beside'[f] = beside[f]
      BY <1>0, <1>10, <2>3 DEF Finish
    <3> QED
      BY <1>1, <3>1, <3>2
  <2> QED
    BY <2>2, <2>3
<1>11. CASE AsideRecord
  <2>1. mem.kept /\ rec' = rec /\ beside' = [beside EXCEPT ![file] = mem] /\ file \in Files
    BY <1>0, <1>11 DEF AsideRecord, Remembers, HandCovers
  <2> QED
    BY <1>0, <1>1, <2>1
<1>12. CASE AsideForget
  <2>1. beside[file].kept /\ UNCHANGED beside /\ file \in Files
    BY <1>0, <1>12 DEF AsideForget, Remembers, AsideCovers
  <2>2. f # file => rec'[f] = rec[f]
    BY <1>0, <1>12 DEF AsideForget
  <2> QED
    BY <1>1, <2>1, <2>2
<1>13. CASE Close \/ AsideMove \/ AsideFails \/ Tell \/ PoisonDies \/ Crash
  BY <1>3, <1>13 DEF Close, AsideMove, AsideFails, Tell, PoisonDies, Crash, Die, spoolVars
<1>14. CASE Environment
  BY <1>3, <1>13, <1>14 DEF Environment, Arrive, Reinject, Age, ClientMoves, ExpireMarker, spoolVars
<1> QED
  BY <1>5, <1>6, <1>7, <1>8, <1>9, <1>10, <1>11, <1>12, <1>13, <1>14 DEF Next, Drain, SetAside

\* A file that left the spool never comes back.
LEMMA LeftForGood ==
  ASSUME TypeOK, Remembers, [Next]_vars, NEW f \in Files, spool[f] \in {"gone", "unresolved"}
  PROVE  spool'[f] = spool[f]
<1>0. spool \in [Files -> {"absent", "incoming", "gone", "unresolved", "quarantine"}]
  BY DEF TypeOK, SpoolTypeOK
<1>1. CASE Close \/ AsideMove
  <2>1. spool[file] = "incoming"
    BY <1>1 DEF Close, AsideMove, Remembers, InHand, Attempting, AttemptPcs
  <2> QED
    BY <1>0, <1>1, <2>1 DEF Close, AsideMove
<1>2. CASE UNCHANGED vars
  BY <1>2 DEF vars, spoolVars
<1>3. CASE Walk \/ SendersCopy \/ EachRcpt
  BY <1>3 DEF Walk, StartTick, Begin, Refuse, SendersCopy, SkipSender, WriteSent, SentDone,
     SentFails, EachRcpt, SkipDone, LookupFails, StartRcpt, EndRcpt, spoolVars
<1>4. CASE (\E t \in Target : Serve(t)) \/ Copy
  BY <1>4 DEF Serve, TargetFails, Relay, RelayFails, Discard, Reject, Redirect, RedirectFails,
     Forward, Keep, Copy, FindCopy, CreateCopy, FinishCopy, CopyFails, Ingest, spoolVars
<1>5. CASE Finish \/ AsideRecord \/ AsideFails \/ AsideForget \/ Tell \/ PoisonDies \/ Crash
  BY <1>5 DEF Finish, AsideRecord, AsideFails, AsideForget, Tell, PoisonDies, Crash, Die, spoolVars
<1>6. CASE Environment
  BY <1>0, <1>5, <1>6 DEF Environment, Arrive, Reinject, Age, ClientMoves, ExpireMarker, spoolVars
<1> QED
  BY <1>1, <1>2, <1>3, <1>4, <1>5, <1>6 DEF Next, Drain, SetAside

\* Only the creation of a copy makes one where there was none.
LEMMA NewCopies ==
  ASSUME TypeOK, [Next]_vars, NEW f \in Files, NEW b \in Boxes, HasCopy(f, b)', ~HasCopy(f, b)
  PROVE  Copy /\ f = file
<1>1. f = file
  BY NextEffects DEF EffectsInHand
<1>2. CASE UNCHANGED <<inNew, inCur>>
  BY <1>2 DEF HasCopy
<1>3. CASE UNCHANGED vars
  BY <1>2, <1>3 DEF vars, boxVars
<1>4. CASE Walk \/ SendersCopy \/ EachRcpt
  BY <1>2, <1>4 DEF Walk, StartTick, Begin, Refuse, SendersCopy, SkipSender, WriteSent, SentDone,
     SentFails, EachRcpt, SkipDone, LookupFails, StartRcpt, EndRcpt, boxVars
<1>5. CASE \E t \in Target : Serve(t)
  BY <1>2, <1>5, ServeEffects
<1>6. CASE Close \/ Finish \/ SetAside \/ PoisonDies \/ Crash
  BY <1>2, <1>6 DEF Close, Finish, SetAside, AsideRecord, AsideMove, AsideFails, AsideForget,
     Tell, PoisonDies, Crash, Die, boxVars
<1>7. ASSUME NEW g \in Files, NEW c \in Boxes, ClientMoves(g, c) PROVE FALSE
  BY <1>7, MoveEffects
<1>8. CASE Environment
  BY <1>2, <1>6, <1>7, <1>8 DEF Environment, Arrive, Reinject, Age, ExpireMarker, boxVars
<1> QED
  BY <1>1, <1>3, <1>4, <1>5, <1>6, <1>8 DEF Next, Drain

LEMMA NextRecorded ==
  ASSUME TypeOK, Remembers, DeathsCounted, CopiesRecorded, [Next]_vars
  PROVE  CopiesRecorded'
<1> SUFFICES ASSUME NEW f \in Files, NEW b \in Boxes, HasCopy(f, b)',
                    spool'[f] \notin {"gone", "unresolved"}
             PROVE  Earlier(f)'.kept
  BY DEF CopiesRecorded
<1>1. spool[f] \notin {"gone", "unresolved"}
  BY LeftForGood
<1>2. CASE HasCopy(f, b)
  BY <1>1, <1>2, RecordStays DEF CopiesRecorded
<1>3. CASE ~HasCopy(f, b)
  <2>1. Copy /\ f = file
    BY <1>3, NewCopies
  <2>2. Earlier(f).kept
    BY <2>1, CopyShape, EarlierType DEF DeathsCounted, Attempting, AttemptPcs, RcptPcs, Writing, TypeOK
  <2> QED
    BY <2>2, RecordStays
<1> QED
  BY <1>2, <1>3

\* A step that touches no copy of b and starts nothing that may bring one.
LEMMA OneStill ==
  ASSUME NEW f \in Files, NEW b \in Boxes, OneCopy(f, b),
         UNCHANGED <<inNew[f][b], inCur[f][b]>>,
         FirstAttempt(f)' => FirstAttempt(f) /\ todo' \subseteq todo,
         FirstAttempt(f)' => \A w \in Ways(f, b) : ServingNow(f, w[1])' /\ ToCome(b, w)' =>
                               /\ ServingNow(f, w[1]) /\ ToCome(b, w)
                               /\ \/ ~(pc \in {"writing", "ingest"} /\ tgt.to = b)
                                  \/ pc' \in {"writing", "ingest"} /\ tgt'.to = b
  PROVE  OneCopy(f, b)'
<1>1. HasCopy(f, b)' <=> HasCopy(f, b)
  BY DEF HasCopy
<1>2. FirstAttempt(f)' /\ HasCopy(f, b)' => Settled(f, b)'
  BY <1>1 DEF OneCopy, Settled
<1> QED
  BY <1>2 DEF OneCopy

\* A target's turn leaves the copies alone; the next one to write is not there yet.
LEMMA ServeOne ==
  ASSUME TypeOK, Truthful, ExtrasFollow, NEW t \in Target, Serve(t),
         NEW f \in Files, NEW b \in Boxes, ReachedOneWay(f, b), OneCopy(f, b)
  PROVE  OneCopy(f, b)'
<1>1. UNCHANGED <<inNew, inCur>>
  BY ServeEffects
<1>2. /\ pc = "targets" /\ pc \in RcptPcs /\ t \in tgts /\ UNCHANGED <<file, retry, todo, rcpt>>
      /\ Consume(t) \/ Miss(t) \/ UNCHANGED tgts
  BY ServeShape DEF Truthful, RcptPcs
<1>3. ASSUME NEW w \in Ways(f, b), ServingNow(f, w[1])', ToCome(b, w)'
      PROVE  /\ ServingNow(f, w[1]) /\ ToCome(b, w)
             /\ ~(pc \in {"writing", "ingest"} /\ tgt.to = b)
  <2>1. ServingNow(f, w[1])
    BY <1>2, <1>3 DEF ServingNow
  <2>2. CASE Consume(t) \/ Miss(t)
    BY <1>2, <1>3, <2>1, <2>2, TurnedWay DEF ServingNow
  <2>3. CASE UNCHANGED tgts
    BY <1>2, <1>3, <2>1, <2>3 DEF ToCome
  <2> QED
    BY <1>2, <2>1, <2>2, <2>3
<1>4. FirstAttempt(f)' => FirstAttempt(f) /\ todo' \subseteq todo
  BY <1>2 DEF FirstAttempt, Attempting, AttemptPcs
<1> QED
  BY <1>1, <1>2, <1>3, <1>4, OneStill

\* Writing a copy where there was none, finding it, and coming to its end.
LEMMA WriteOne ==
  ASSUME TypeOK, Truthful, ExtrasFollow, BeingWritten, Copy,
         NEW f \in Files, NEW b \in Boxes, ReachedOneWay(f, b), OneCopy(f, b)
  PROVE  OneCopy(f, b)'
<1>0. /\ inNew \in [Files -> [Boxes -> {"none", "torn", "whole"}]]
      /\ inCur \in [Files -> [Boxes -> {"none", "torn", "whole"}]]
  BY DEF TypeOK, BoxTypeOK
<1>1. /\ pc \in Writing /\ pc \in RcptPcs /\ Attempting
      /\ tgt \in Target /\ tgt \in tgts /\ tgt.to \in Boxes /\ file \in Files
      /\ UNCHANGED <<file, retry, todo, rcpt>>
      /\ rcpt \notin todo
  BY CopyShape DEF Writing, RcptPcs, Attempting, AttemptPcs, Truthful, HandServes
<1>2. FirstAttempt(f)' => FirstAttempt(f) /\ todo' \subseteq todo
  BY <1>1 DEF FirstAttempt
<1>3. ASSUME f = file, b = tgt.to
      PROVE  /\ Ways(f, b) # {}
             /\ \A w \in Ways(f, b) : w[1] = rcpt /\ ToCome(b, w) /\ ServingNow(f, w[1])
  BY <1>1, <1>3, OnTheWay, TargetWay DEF ToCome, ServingNow
<1>4. CASE CopyFails \/ Ingest
  <2>1. /\ UNCHANGED <<inNew, inCur>>
        /\ Consume(tgt) \/ Miss(tgt)
    BY <1>4 DEF CopyFails, Ingest, boxVars
  <2>2. ASSUME NEW w \in Ways(f, b), ServingNow(f, w[1])', ToCome(b, w)'
        PROVE  ServingNow(f, w[1]) /\ ToCome(b, w) /\ ~(pc \in {"writing", "ingest"} /\ tgt.to = b)
    <3>1. f = file /\ w[1] = rcpt
      BY <1>1, <2>2 DEF ServingNow
    <3>2. ToCome(b, w) /\ tgt.to # b
      BY <1>1, <2>1, <2>2, <3>1, TurnedWay
    <3> QED
      BY <1>1, <3>1, <3>2 DEF ServingNow
  <2>3. UNCHANGED <<inNew[f][b], inCur[f][b]>>
    BY <2>1
  <2> QED
    BY <1>2, <2>2, <2>3, OneStill
<1>5. CASE FindCopy \/ CreateCopy \/ FinishCopy
  <2>1. UNCHANGED <<tgts, tgt>> /\ pc' \in {"writing", "ingest"}
    BY <1>5 DEF FindCopy, CreateCopy, FinishCopy, rcptVars
  <2>2. CASE f = file /\ b = tgt.to
    <3>1. Settled(f, b)'
      BY <1>1, <1>3, <2>1, <2>2 DEF Settled
    <3>2. ~(inNew'[f][b] # "none" /\ inCur'[f][b] # "none")
      <4>1. CASE FindCopy
        BY <4>1 DEF FindCopy, boxVars, OneCopy
      <4>2. CASE CreateCopy
        <5>1. pc = "write" /\ inNew[f][b] = "none" /\ ~(retry /\ inCur[f][b] # "none")
          BY <2>2, <4>2 DEF CreateCopy, AlreadyThere
        <5>2. inCur[f][b] = "none"
          <6>1. CASE ~retry /\ HasCopy(f, b)
            <7>1. Settled(f, b)
              BY <1>1, <2>2, <6>1 DEF OneCopy, FirstAttempt
            <7> QED
              BY <1>3, <2>2, <5>1, <7>1 DEF Settled
          <6> QED
            BY <5>1, <6>1 DEF HasCopy, TypeOK, ProcTypeOK
        <5> QED
          BY <4>2, <5>2 DEF CreateCopy
      <4>3. CASE FinishCopy
        <5>1. inNew[f][b] = "torn" \/ inNew[f][b] = "none"
          BY <2>2, <4>3 DEF FinishCopy, BeingWritten
        <5> QED
          BY <1>0, <2>2, <4>3, <5>1 DEF FinishCopy, OneCopy
      <4> QED
        BY <1>5, <4>1, <4>2, <4>3
    <3> QED
      BY <3>1, <3>2 DEF OneCopy
  <2>3. CASE ~(f = file /\ b = tgt.to)
    <3>1. UNCHANGED <<inNew[f][b], inCur[f][b]>>
      BY <1>0, <1>1, <1>5, <2>3 DEF FindCopy, CreateCopy, FinishCopy, boxVars
    <3>2. ASSUME NEW w \in Ways(f, b), ServingNow(f, w[1])', ToCome(b, w)'
          PROVE  ServingNow(f, w[1]) /\ ToCome(b, w) /\ ~(pc \in {"writing", "ingest"} /\ tgt.to = b)
      BY <1>1, <2>1, <2>3, <3>2 DEF ServingNow, ToCome
    <3> QED
      BY <1>1, <1>2, <3>1, <3>2, OneStill
  <2> QED
    BY <2>2, <2>3
<1> QED
  BY <1>4, <1>5 DEF Copy

\* What the other steps do to the attempt in hand.
LEMMA OtherSteps ==
  ASSUME TypeOK, [Next]_vars, ~((\E t \in Target : Serve(t)) \/ Copy),
         \A f \in Files : ~Begin(f), \A r \in Rcpts : ~StartRcpt(r)
  PROVE  /\ Attempting' => /\ Attempting /\ UNCHANGED <<file, retry>> /\ todo' \subseteq todo
                           /\ pc' \in RcptPcs => UNCHANGED procVars
         /\ \/ UNCHANGED <<inNew, inCur>>
            \/ \E f \in Files, b \in Boxes : ClientMoves(f, b)
<1>1. CASE UNCHANGED vars
  BY <1>1 DEF vars, procVars, handVars, boxVars, Attempting
<1>2. CASE Walk
  BY <1>2 DEF Walk, StartTick, Refuse, Attempting, AttemptPcs, RcptPcs, boxVars
<1>3. CASE SendersCopy \/ EachRcpt
  BY <1>3 DEF SendersCopy, SkipSender, WriteSent, SentDone, SentFails, EachRcpt, SkipDone,
     LookupFails, EndRcpt, Attempting, AttemptPcs, RcptPcs, handVars, boxVars
<1>4. CASE Close
  BY <1>4 DEF Close, Attempting, AttemptPcs, RcptPcs, handVars, boxVars
<1>5. CASE Finish \/ SetAside \/ PoisonDies \/ Crash
  BY <1>5 DEF Finish, SetAside, AsideRecord, AsideMove, AsideFails, AsideForget, Tell, PoisonDies,
     Crash, Die, LetGo, Attempting, AttemptPcs, RcptPcs, boxVars
<1>6. CASE Environment
  BY <1>5, <1>6 DEF Environment, Arrive, Reinject, Age, ClientMoves, ExpireMarker, procVars,
     handVars, boxVars, Attempting
<1> QED
  BY <1>1, <1>2, <1>3, <1>4, <1>5, <1>6 DEF Next, Drain

LEMMA NextOne ==
  ASSUME TypeOK, Remembers, Truthful, ExtrasFollow, CopiesOnce, [Next]_vars,
         NEW f \in Files, NEW b \in Boxes, ReachedOneWay(f, b)
  PROVE  OneCopy(f, b)'
<1>0. OneCopy(f, b)
  BY DEF CopiesOnce
<1>1. CASE \E t \in Target : Serve(t)
  BY <1>0, <1>1, ServeOne
<1>2. CASE Copy
  BY <1>0, <1>2, WriteOne DEF CopiesOnce
<1>3. ASSUME NEW g \in Files, Begin(g) PROVE OneCopy(f, b)'
  <2>1. /\ UNCHANGED <<inNew, inCur, spool>> /\ file' = g /\ retry' = Earlier(g).kept
        /\ spool[g] = "incoming"
    BY <1>3 DEF Begin, boxVars, Remembers, InHand
  <2>2. f = g /\ HasCopy(f, b) => retry'
    BY <2>1 DEF CopiesOnce, CopiesRecorded
  <2>3. HasCopy(f, b)' <=> HasCopy(f, b)
    BY <2>1 DEF HasCopy
  <2> QED
    BY <1>0, <2>1, <2>2, <2>3 DEF OneCopy, FirstAttempt
<1>4. ASSUME NEW r \in Rcpts, StartRcpt(r) PROVE OneCopy(f, b)'
  <2>1. /\ UNCHANGED <<inNew, inCur, file, retry>> /\ pc = "rcpts" /\ r \in todo /\ rcpt' = r
        /\ todo' = todo \ {r}
    BY <1>4 DEF StartRcpt, boxVars, handVars
  <2>2. HasCopy(f, b)' <=> HasCopy(f, b)
    BY <2>1 DEF HasCopy
  <2>3. FirstAttempt(f)' => FirstAttempt(f)
    BY <2>1 DEF FirstAttempt, Attempting, AttemptPcs
  <2>4. FirstAttempt(f) /\ HasCopy(f, b) => Settled(f, b)'
    BY <1>0, <2>1 DEF OneCopy, Settled, ServingNow
  <2> QED
    BY <1>0, <2>1, <2>2, <2>3, <2>4 DEF OneCopy
<1>5. CASE /\ ~((\E t \in Target : Serve(t)) \/ Copy)
           /\ \A g \in Files : ~Begin(g) /\ \A r \in Rcpts : ~StartRcpt(r)
  <2>1. /\ Attempting' => /\ Attempting /\ UNCHANGED <<file, retry>> /\ todo' \subseteq todo
                          /\ pc' \in RcptPcs => UNCHANGED procVars
        /\ \/ UNCHANGED <<inNew, inCur>>
           \/ \E g \in Files, c \in Boxes : ClientMoves(g, c)
    BY <1>5, OtherSteps
  <2>2. FirstAttempt(f)' => FirstAttempt(f) /\ todo' \subseteq todo
    BY <2>1 DEF FirstAttempt
  <2>5. ASSUME FirstAttempt(f)', NEW w \in Ways(f, b), ServingNow(f, w[1])', ToCome(b, w)'
        PROVE  /\ ServingNow(f, w[1]) /\ ToCome(b, w)
               /\ \/ ~(pc \in {"writing", "ingest"} /\ tgt.to = b)
                  \/ pc' \in {"writing", "ingest"} /\ tgt'.to = b
    <3>1. UNCHANGED procVars
      BY <2>1, <2>5 DEF FirstAttempt, ServingNow
    <3> QED
      BY <2>5, <3>1 DEF ServingNow, ToCome, procVars, handVars, rcptVars
  <2>3. CASE UNCHANGED <<inNew, inCur>>
    BY <1>0, <2>2, <2>3, <2>5, OneStill
  <2>4. ASSUME NEW g \in Files, NEW c \in Boxes, ClientMoves(g, c) PROVE OneCopy(f, b)'
    <3>1. /\ inNew \in [Files -> [Boxes -> {"none", "torn", "whole"}]]
          /\ inCur \in [Files -> [Boxes -> {"none", "torn", "whole"}]]
      BY DEF TypeOK, BoxTypeOK
    <3>2. CASE f = g /\ b = c
      <4>1. HasCopy(f, b)' <=> HasCopy(f, b)
        BY <2>4, MoveEffects
      <4>2. inNew'[f][b] = "none"
        BY <2>4, <3>1, <3>2 DEF ClientMoves
      <4>3. UNCHANGED procVars
        BY <2>4 DEF ClientMoves
      <4>4. FirstAttempt(f)' /\ HasCopy(f, b) => Settled(f, b)'
        BY <1>0, <4>3 DEF OneCopy, Settled, FirstAttempt, Attempting, ServingNow, ToCome, procVars,
           handVars, rcptVars
      <4> QED
        BY <4>1, <4>2, <4>4 DEF OneCopy
    <3>3. CASE ~(f = g /\ b = c)
      <4>1. UNCHANGED <<inNew[f][b], inCur[f][b]>>
        BY <2>4, <3>1, <3>3 DEF ClientMoves
      <4> QED
        BY <1>0, <2>2, <2>5, <4>1, OneStill
    <3> QED
      BY <3>2, <3>3
  <2> QED
    BY <2>1, <2>3, <2>4
<1> QED
  BY <1>1, <1>2, <1>3, <1>4, <1>5

LEMMA AlwaysOneCopy == ASSUME ~SaveMayFail PROVE Spec => []CopiesOnce
<1>1. Init => CopiesOnce
  <2>1. ASSUME Init PROVE CopiesRecorded /\ BeingWritten
    BY <2>1 DEF Init, CopiesRecorded, BeingWritten, HasCopy
  <2>2. ASSUME Init, NEW f \in Files, NEW b \in Boxes PROVE OneCopy(f, b)
    BY <2>2 DEF Init, OneCopy, HasCopy
  <2> QED
    BY <2>1, <2>2 DEF CopiesOnce
<1>2. /\ TypeOK /\ Remembers /\ Truthful /\ ExtrasFollow /\ DeathsCounted /\ CopiesOnce
      /\ [Next]_vars
      => CopiesOnce'
  <2>1. ASSUME TypeOK, Remembers, Truthful, ExtrasFollow, DeathsCounted, CopiesOnce, [Next]_vars
        PROVE  CopiesOnce'
    <3>1. BeingWritten' /\ CopiesRecorded'
      BY <2>1, NextWritten, NextRecorded DEF CopiesOnce
    <3>2. \A f \in Files, b \in Boxes : ReachedOneWay(f, b) => OneCopy(f, b)'
      BY <2>1, NextOne
    <3> QED
      BY <3>1, <3>2 DEF CopiesOnce
  <2> QED
    BY <2>1
<1> QED
  BY <1>1, <1>2, TypeCorrect, AlwaysRemembers, AlwaysTruthful, AlwaysFollow, AlwaysCounted, PTL
     DEF Spec

(***************************************************************************)
(* Where attempt records can be written, a mailbox one recipient reaches   *)
(* in one way holds one copy of a file, wherever its client moves it       *)
(* between two attempts.                                                   *)
(***************************************************************************)
THEOREM OneCopyEach == ASSUME ~SaveMayFail PROVE Spec => []NoDoubleCopy
<1>1. CopiesOnce => NoDoubleCopy
  BY DEF CopiesOnce, OneCopy, NoDoubleCopy
<1> QED
  BY <1>1, AlwaysOneCopy, PTL
===============================================================================
