--------------------------- MODULE SpoolDrainProofs ---------------------------
(***************************************************************************)
(* What holds of the spool drain for every spool, envelope, routing table, *)
(* script and limit, and for any number of deaths and failed disk calls.   *)
(***************************************************************************)
EXTENDS SpoolDrain, TLAPS

-----------------------------------------------------------------------------
(* Types. *)

LEMMA RecordParts ==
  ASSUME NEW m \in Record
  PROVE  m.kept \in BOOLEAN /\ m.attempts \in Nat /\ m.done \in SUBSET Steps
BY DEF Record

LEMMA ForgetAttempts ==
  ASSUME NEW m \in Record, NEW n \in Nat
  PROVE  /\ [m EXCEPT !.attempts = n] \in Record
         /\ [m EXCEPT !.attempts = n].kept = m.kept
         /\ [m EXCEPT !.attempts = n].done = m.done
         /\ [m EXCEPT !.attempts = n].attempts = n
BY DEF Record

LEMMA MoreDone ==
  ASSUME NEW m \in Record, NEW d \in SUBSET Steps
  PROVE  /\ [m EXCEPT !.done = d] \in Record
         /\ [m EXCEPT !.done = d].kept = m.kept
         /\ [m EXCEPT !.done = d].done = d
BY DEF Record

\* The record an attempt starts from is a record; it is the file's own, or the
\* one beside it with its steps.
LEMMA EarlierType ==
  ASSUME SpoolTypeOK, NEW f \in Files
  PROVE  /\ Earlier(f) \in Record /\ Started(f) \in Record
         /\ Started(f).kept /\ Started(f).done = Earlier(f).done
         /\ rec[f].kept => Earlier(f) = rec[f]
         /\ ~rec[f].kept => /\ Earlier(f).kept = beside[f].kept
                            /\ Earlier(f).done = beside[f].done
                            /\ Earlier(f).attempts = 0
<1>1. rec[f] \in Record /\ beside[f] \in Record
  BY DEF SpoolTypeOK
<1>2. [beside[f] EXCEPT !.attempts = 0] \in Record
  BY <1>1, ForgetAttempts
<1>3. Earlier(f) \in Record
  BY <1>1, <1>2 DEF Earlier
<1>4. Started(f) \in Record
  BY <1>3, RecordParts DEF Started, Record
<1>5. Started(f).kept /\ Started(f).done = Earlier(f).done
  BY DEF Started
<1>6. rec[f].kept => Earlier(f) = rec[f]
  BY DEF Earlier
<1>7. ~rec[f].kept => /\ Earlier(f).kept = beside[f].kept
                      /\ Earlier(f).done = beside[f].done
                      /\ Earlier(f).attempts = 0
  BY <1>1, ForgetAttempts DEF Earlier
<1> QED
  BY <1>3, <1>4, <1>5, <1>6, <1>7

LEMMA SaveType ==
  ASSUME SpoolTypeOK, HistTypeOK, NEW f \in Files, NEW m \in Record, Save(f, m)
  PROVE  rec' \in [Files -> Record] /\ durable' \in [Files -> SUBSET Steps]
<1>1. m.done \in SUBSET Steps
  BY RecordParts
<1>2. rec \in [Files -> Record] /\ durable \in [Files -> SUBSET Steps]
  BY DEF SpoolTypeOK, HistTypeOK
<1>3. CASE rec' = [rec EXCEPT ![f] = m] /\ durable' = [durable EXCEPT ![f] = @ \cup m.done]
  BY <1>1, <1>2, <1>3
<1>4. CASE UNCHANGED <<rec, durable>>
  BY <1>2, <1>4
<1> QED
  BY <1>3, <1>4 DEF Save

LEMMA NoRecordType == NoRecord \in Record /\ ~NoRecord.kept /\ NoRecord.done = {}
BY DEF NoRecord, Record

LEMMA DoneType ==
  ASSUME mem \in Record, NEW s \in Steps
  PROVE  Done(s) \in Record /\ Done(s).kept = mem.kept /\ Done(s).done = mem.done \cup {s}
<1>1. mem.done \cup {s} \in SUBSET Steps
  BY RecordParts
<1> QED
  BY <1>1, MoreDone DEF Done

LEMMA RestType ==
  ASSUME mem \in Record
  PROVE  Rest \in Record /\ Rest.kept = mem.kept /\ Rest.done = mem.done
BY ForgetAttempts DEF Rest

LEMMA QueueType ==
  ASSUME KevyTypeOK, NEW k \in Keys, QueueFails(k)
  PROVE  KevyTypeOK'
BY DEF KevyTypeOK, QueueFails, QueueOnce, QueueAlways, kevyVars

LEMMA ConsumeType ==
  ASSUME ProcTypeOK, NEW t \in Target, Consume(t)
  PROVE  /\ tgts' \in SUBSET Target /\ took' \in BOOLEAN
         /\ missed' \in SUBSET (Rcpts \cup Addresses)
<1>1. ASSUME t.to \in Boxes, NEW b \in LocalForward[t.to] PROVE Extra(b) \in Target
  <2>1. LocalForward[t.to] \in SUBSET Boxes
    BY <1>1, ConstantsAssumption
  <2> QED
    BY <1>1, <2>1 DEF Extra, Target, Addresses
<1>2. t.counts \in BOOLEAN
  BY DEF Target
<1> QED
  BY <1>1, <1>2 DEF Consume, ProcTypeOK

LEMMA MissType ==
  ASSUME ProcTypeOK, NEW t \in Target, Miss(t)
  PROVE  /\ tgts' \in SUBSET Target /\ took' \in BOOLEAN
         /\ missed' \in SUBSET (Rcpts \cup Addresses)
<1>1. t.to \in Addresses
  BY DEF Target
<1> QED
  BY <1>1 DEF Miss, Unresolved, ProcTypeOK

LEMMA LetGoType ==
  ASSUME LetGo, walk' \in SUBSET Files
  PROVE  ProcTypeOK'
BY NoRecordType DEF LetGo, ProcTypeOK, RcptPcs, AttemptPcs

\* An action leaves the types of the variables it leaves alone.
LEMMA Frame ==
  ASSUME TypeOK
  PROVE  /\ UNCHANGED spoolVars => SpoolTypeOK'
         /\ UNCHANGED boxVars => BoxTypeOK'
         /\ UNCHANGED kevyVars => KevyTypeOK'
         /\ UNCHANGED procVars => ProcTypeOK'
         /\ UNCHANGED histVars => HistTypeOK'
BY DEF TypeOK, SpoolTypeOK, BoxTypeOK, KevyTypeOK, ProcTypeOK, HistTypeOK, spoolVars, boxVars,
       kevyVars, procVars, handVars, rcptVars, histVars

\* The walk and the start of an attempt.
LEMMA WalkType ==
  ASSUME TypeOK, Walk
  PROVE  TypeOK'
<1> SpoolTypeOK /\ BoxTypeOK /\ KevyTypeOK /\ ProcTypeOK /\ HistTypeOK
  BY DEF TypeOK
<1>1. CASE StartTick
  <2>1. ProcTypeOK'
    BY <1>1 DEF StartTick, Incoming, ProcTypeOK, handVars, rcptVars, RcptPcs, AttemptPcs
  <2> QED
    BY <1>1, <2>1, Frame DEF StartTick, TypeOK
<1>2. ASSUME NEW f \in Files, Begin(f) PROVE TypeOK'
  <2>1. mem' = Started(f) /\ mem' \in Record
    BY <1>2, EarlierType DEF Begin
  <2>2. rec' \in [Files -> Record] /\ durable' \in [Files -> SUBSET Steps]
    BY <1>2, <2>1, SaveType DEF Begin
  <2>3. SpoolTypeOK'
    BY <1>2, <2>2 DEF Begin, SpoolTypeOK
  <2>4. ProcTypeOK'
    BY <1>2, <2>1, EarlierType, RecordParts, ConstantsAssumption DEF Begin, ProcTypeOK,
        handVars, rcptVars, RcptPcs, AttemptPcs
  <2>5. HistTypeOK'
    BY <1>2, <2>2 DEF Begin, HistTypeOK
  <2> QED
    BY <1>2, <2>3, <2>4, <2>5, Frame DEF Begin, TypeOK
<1>3. ASSUME NEW f \in Files, Refuse(f) PROVE TypeOK'
  <2>1. mem' \in Record
    BY <1>3, EarlierType DEF Refuse
  <2>2. ProcTypeOK'
    BY <1>3, <2>1 DEF Refuse, ProcTypeOK, handVars, rcptVars, RcptPcs, AttemptPcs
  <2> QED
    BY <1>3, <2>2, Frame DEF Refuse, TypeOK
<1> QED
  BY <1>1, <1>2, <1>3 DEF Walk

\* The sender's copy.
LEMMA SenderType ==
  ASSUME TypeOK, SendersCopy
  PROVE  TypeOK'
<1> SpoolTypeOK /\ BoxTypeOK /\ KevyTypeOK /\ ProcTypeOK /\ HistTypeOK
  BY DEF TypeOK
<1>1. CASE SkipSender
  <2>1. ProcTypeOK'
    BY <1>1 DEF SkipSender, ProcTypeOK, handVars, rcptVars, RcptPcs, AttemptPcs
  <2> QED
    BY <1>1, <2>1, Frame DEF SkipSender, TypeOK
<1>2. CASE WriteSent
  <2>1. rec' \in [Files -> Record] /\ durable' \in [Files -> SUBSET Steps]
    BY <1>2, SaveType DEF WriteSent, ProcTypeOK, AttemptPcs
  <2>2. SpoolTypeOK'
    BY <1>2, <2>1 DEF WriteSent, SpoolTypeOK
  <2>3. BoxTypeOK'
    BY <1>2 DEF WriteSent, BoxTypeOK, ProcTypeOK
  <2>4. ProcTypeOK'
    BY <1>2 DEF WriteSent, ProcTypeOK, handVars, rcptVars, RcptPcs, AttemptPcs
  <2>5. HistTypeOK'
    BY <1>2, <2>1 DEF WriteSent, HistTypeOK
  <2> QED
    BY <1>2, <2>2, <2>3, <2>4, <2>5, Frame DEF WriteSent, TypeOK
<1>3. CASE SentDone
  <2>1. file \in Files /\ mem' \in Record
    BY <1>3, DoneType DEF SentDone, ProcTypeOK, Steps
  <2>2. rec' \in [Files -> Record] /\ durable' \in [Files -> SUBSET Steps]
    BY <1>3, <2>1, SaveType DEF SentDone
  <2>3. SpoolTypeOK'
    BY <1>3, <2>2 DEF SentDone, SpoolTypeOK
  <2>4. BoxTypeOK'
    BY <1>3, <2>1 DEF SentDone, BoxTypeOK
  <2>5. ProcTypeOK'
    BY <1>3, <2>1 DEF SentDone, ProcTypeOK, handVars, rcptVars, RcptPcs, AttemptPcs
  <2>6. HistTypeOK'
    BY <1>3, <2>2 DEF SentDone, HistTypeOK
  <2> QED
    BY <1>3, <2>3, <2>4, <2>5, <2>6, Frame DEF SentDone, TypeOK
<1>4. CASE SentFails
  <2>1. rec' \in [Files -> Record] /\ durable' \in [Files -> SUBSET Steps]
    BY <1>4, SaveType DEF SentFails, ProcTypeOK, SpoolTypeOK, HistTypeOK
  <2>2. SpoolTypeOK'
    BY <1>4, <2>1 DEF SentFails, SpoolTypeOK
  <2>3. BoxTypeOK'
    BY <1>4 DEF SentFails, BoxTypeOK, ProcTypeOK
  <2>4. ProcTypeOK'
    BY <1>4 DEF SentFails, ProcTypeOK, handVars, rcptVars, RcptPcs, AttemptPcs
  <2>5. HistTypeOK'
    BY <1>4, <2>1 DEF SentFails, Fault, HistTypeOK
  <2> QED
    BY <1>4, <2>2, <2>3, <2>4, <2>5, Frame DEF SentFails, TypeOK
<1> QED
  BY <1>1, <1>2, <1>3, <1>4 DEF SendersCopy

\* The recipients.
LEMMA RcptType ==
  ASSUME TypeOK, EachRcpt
  PROVE  TypeOK'
<1> SpoolTypeOK /\ BoxTypeOK /\ KevyTypeOK /\ ProcTypeOK /\ HistTypeOK
  BY DEF TypeOK
<1>1. ASSUME NEW r \in Rcpts, SkipDone(r) PROVE TypeOK'
  <2>1. ProcTypeOK'
    BY <1>1 DEF SkipDone, ProcTypeOK, handVars, rcptVars, RcptPcs, AttemptPcs
  <2> QED
    BY <1>1, <2>1, Frame DEF SkipDone, TypeOK
<1>2. ASSUME NEW r \in Rcpts, LookupFails(r) PROVE TypeOK'
  <2>1. rec' \in [Files -> Record] /\ durable' \in [Files -> SUBSET Steps]
    BY <1>2, SaveType DEF LookupFails, ProcTypeOK
  <2>2. SpoolTypeOK'
    BY <1>2, <2>1 DEF LookupFails, SpoolTypeOK
  <2>3. ProcTypeOK'
    BY <1>2 DEF LookupFails, ProcTypeOK, handVars, rcptVars, RcptPcs, AttemptPcs
  <2>4. HistTypeOK'
    BY <1>2, <2>1 DEF LookupFails, Fault, HistTypeOK
  <2> QED
    BY <1>2, <2>2, <2>3, <2>4, Frame DEF LookupFails, TypeOK
<1>3. ASSUME NEW r \in Rcpts, StartRcpt(r) PROVE TypeOK'
  <2>1. rec' \in [Files -> Record] /\ durable' \in [Files -> SUBSET Steps]
    BY <1>3, SaveType DEF StartRcpt, ProcTypeOK
  <2>2. Targets[r] \in SUBSET Addresses
    BY <1>3, ConstantsAssumption
  <2>3. ASSUME NEW a \in Targets[r] PROVE Own(a) \in Target
    BY <2>2 DEF Own, Target, Addresses
  <2>4. SpoolTypeOK'
    BY <1>3, <2>1 DEF StartRcpt, SpoolTypeOK
  <2>5. ProcTypeOK'
    BY <1>3, <2>3 DEF StartRcpt, ProcTypeOK, handVars, rcptVars, RcptPcs, AttemptPcs
  <2>6. HistTypeOK'
    BY <1>3, <2>1 DEF StartRcpt, HistTypeOK
  <2> QED
    BY <1>3, <2>4, <2>5, <2>6, Frame DEF StartRcpt, TypeOK
<1>4. CASE EndRcpt
  <2>1. file \in Files /\ rcpt \in Rcpts /\ mem' \in Record
    BY <1>4, DoneType DEF EndRcpt, ProcTypeOK, RcptPcs, Steps
  <2>2. rec' \in [Files -> Record] /\ durable' \in [Files -> SUBSET Steps]
    BY <1>4, <2>1, SaveType DEF EndRcpt, SpoolTypeOK, HistTypeOK
  <2>3. SpoolTypeOK'
    BY <1>4, <2>2 DEF EndRcpt, SpoolTypeOK
  <2>4. ProcTypeOK'
    BY <1>4, <2>1 DEF EndRcpt, Unreached, Unresolved, ProcTypeOK, handVars, rcptVars, RcptPcs,
        AttemptPcs
  <2>5. HistTypeOK'
    BY <1>4, <2>2 DEF EndRcpt, HistTypeOK
  <2> QED
    BY <1>4, <2>3, <2>4, <2>5, Frame DEF EndRcpt, TypeOK
<1> QED
  BY <1>1, <1>2, <1>3, <1>4 DEF EachRcpt

\* One target.
LEMMA ServeType ==
  ASSUME TypeOK, \E t \in Target : Serve(t)
  PROVE  TypeOK'
<1> SpoolTypeOK /\ BoxTypeOK /\ KevyTypeOK /\ ProcTypeOK /\ HistTypeOK
  BY DEF TypeOK
<1>1. ASSUME NEW t \in Target, TargetFails(t) PROVE TypeOK'
  <2>1. ProcTypeOK'
    BY <1>1, MissType DEF TargetFails, Turn, ProcTypeOK, handVars, rcptVars, RcptPcs,
        AttemptPcs
  <2>2. HistTypeOK'
    BY <1>1 DEF TargetFails, Fault, HistTypeOK
  <2> QED
    BY <1>1, <2>1, <2>2, Frame DEF TargetFails, TypeOK
<1>2. ASSUME NEW t \in Target, Relay(t) PROVE TypeOK'
  <2>1. Key("relay", rcpt, t.to) \in Keys
    BY <1>2 DEF Relay, Turn, RcptPcs, ProcTypeOK, Key, Keys, Target
  <2>2. KevyTypeOK'
    BY <1>2, <2>1, QueueType DEF Relay, QueueFails
  <2>3. ProcTypeOK'
    BY <1>2, ConsumeType DEF Relay, Turn, ProcTypeOK, handVars, rcptVars, RcptPcs,
        AttemptPcs
  <2> QED
    BY <1>2, <2>2, <2>3, Frame DEF Relay, TypeOK
<1>3. ASSUME NEW t \in Target, RelayFails(t) PROVE TypeOK'
  <2>1. Key("relay", rcpt, t.to) \in Keys
    BY <1>3 DEF RelayFails, Turn, RcptPcs, ProcTypeOK, Key, Keys, Target
  <2>2. KevyTypeOK'
    BY <1>3, <2>1, QueueType DEF RelayFails
  <2>3. ProcTypeOK'
    BY <1>3, MissType DEF RelayFails, Turn, ProcTypeOK, handVars, rcptVars, RcptPcs,
        AttemptPcs
  <2>4. HistTypeOK'
    BY <1>3 DEF RelayFails, Fault, HistTypeOK
  <2> QED
    BY <1>3, <2>2, <2>3, <2>4, Frame DEF RelayFails, TypeOK
<1>4. ASSUME NEW t \in Target, Discard(t) PROVE TypeOK'
  <2>1. BoxTypeOK'
    BY <1>4 DEF Discard, Decided, Drop, BoxTypeOK
  <2>2. ProcTypeOK'
    BY <1>4, ConsumeType DEF Discard, Decided, Turn, ProcTypeOK, handVars, rcptVars,
        RcptPcs, AttemptPcs
  <2> QED
    BY <1>4, <2>1, <2>2, Frame DEF Discard, TypeOK
<1>5. ASSUME NEW t \in Target, Reject(t) PROVE TypeOK'
  <2>1. Key("reject", t.to, t.to) \in Keys
    BY <1>5 DEF Reject, Decided, Turn, ProcTypeOK, Key, Keys, Target
  <2>2. BoxTypeOK'
    BY <1>5 DEF Reject, Decided, Drop, BoxTypeOK
  <2>3. KevyTypeOK'
    BY <1>5, <2>1, QueueType DEF Reject
  <2>4. ProcTypeOK'
    BY <1>5, ConsumeType DEF Reject, Decided, Turn, ProcTypeOK, handVars, rcptVars, RcptPcs,
        AttemptPcs
  <2> QED
    BY <1>5, <2>2, <2>3, <2>4, Frame DEF Reject, TypeOK
<1>6. ASSUME NEW t \in Target, Redirect(t) PROVE TypeOK'
  <2>1. Key("redirect", t.to, t.to) \in Keys
    BY <1>6 DEF Redirect, Decided, Turn, ProcTypeOK, Key, Keys, Target
  <2>2. KevyTypeOK'
    BY <1>6, <2>1, QueueType DEF Redirect, QueueFails
  <2>3. ProcTypeOK'
    BY <1>6, ConsumeType DEF Redirect, Decided, Turn, ProcTypeOK, handVars, rcptVars,
        RcptPcs, AttemptPcs
  <2> QED
    BY <1>6, <2>2, <2>3, Frame DEF Redirect, TypeOK
<1>7. ASSUME NEW t \in Target, RedirectFails(t) PROVE TypeOK'
  <2>1. Key("redirect", t.to, t.to) \in Keys
    BY <1>7 DEF RedirectFails, Decided, Turn, ProcTypeOK, Key, Keys, Target
  <2>2. KevyTypeOK'
    BY <1>7, <2>1, QueueType DEF RedirectFails
  <2>3. ProcTypeOK'
    BY <1>7 DEF RedirectFails, Decided, Turn, StartWrite, ProcTypeOK, handVars, rcptVars,
        RcptPcs, AttemptPcs
  <2>4. HistTypeOK'
    BY <1>7 DEF RedirectFails, Fault, HistTypeOK
  <2> QED
    BY <1>7, <2>2, <2>3, <2>4, Frame DEF RedirectFails, TypeOK
<1>8. ASSUME NEW t \in Target, Forward(t) PROVE TypeOK'
  <2>1. Key("forward", t.to, t.to) \in Keys
    BY <1>8 DEF Forward, Decided, Turn, ProcTypeOK, Key, Keys, Target
  <2>2. KevyTypeOK'
    BY <1>8, <2>1, QueueType DEF Forward, QueueFails
  <2>3. ProcTypeOK'
    BY <1>8 DEF Forward, Decided, Turn, StartWrite, ProcTypeOK, handVars, rcptVars, RcptPcs,
        AttemptPcs
  <2>4. HistTypeOK'
    BY <1>8 DEF Forward, Fault, HistTypeOK
  <2> QED
    BY <1>8, <2>2, <2>3, <2>4, Frame DEF Forward, TypeOK
<1>9. ASSUME NEW t \in Target, Keep(t) PROVE TypeOK'
  <2>1. ProcTypeOK'
    BY <1>9 DEF Keep, Decided, Turn, StartWrite, ProcTypeOK, handVars, rcptVars, RcptPcs,
        AttemptPcs
  <2> QED
    BY <1>9, <2>1, Frame DEF Keep, TypeOK
<1> QED
  BY <1>1, <1>2, <1>3, <1>4, <1>5, <1>6, <1>7, <1>8, <1>9 DEF Serve

\* A copy in a mailbox.
LEMMA CopyType ==
  ASSUME TypeOK, Copy
  PROVE  TypeOK'
<1> SpoolTypeOK /\ BoxTypeOK /\ KevyTypeOK /\ ProcTypeOK /\ HistTypeOK
  BY DEF TypeOK
<1>1. CASE FindCopy
  <2>1. ProcTypeOK'
    BY <1>1 DEF FindCopy, ProcTypeOK, handVars, rcptVars, RcptPcs, AttemptPcs
  <2> QED
    BY <1>1, <2>1, Frame DEF FindCopy, TypeOK
<1>2. CASE CreateCopy
  <2>1. BoxTypeOK'
    BY <1>2 DEF CreateCopy, BoxTypeOK
  <2>2. ProcTypeOK'
    BY <1>2 DEF CreateCopy, ProcTypeOK, handVars, rcptVars, RcptPcs, AttemptPcs
  <2> QED
    BY <1>2, <2>1, <2>2, Frame DEF CreateCopy, TypeOK
<1>3. CASE FinishCopy
  <2>1. BoxTypeOK'
    <3>1. file \in Files /\ tgt.to \in Boxes
      BY <1>3 DEF FinishCopy, ProcTypeOK
    <3>2. /\ [inNew EXCEPT ![file][tgt.to] = "whole"] \in [Files -> [Boxes -> {"none", "torn", "whole"}]]
          /\ [inCur EXCEPT ![file][tgt.to] = "whole"] \in [Files -> [Boxes -> {"none", "torn", "whole"}]]
      BY <3>1 DEF BoxTypeOK
    <3> QED
      BY <1>3, <3>2 DEF FinishCopy, BoxTypeOK
  <2>2. ProcTypeOK'
    BY <1>3 DEF FinishCopy, ProcTypeOK, handVars, rcptVars, RcptPcs, AttemptPcs
  <2> QED
    BY <1>3, <2>1, <2>2, Frame DEF FinishCopy, TypeOK
<1>4. CASE CopyFails
  <2>1. ProcTypeOK'
    BY <1>4, MissType DEF CopyFails, ProcTypeOK, handVars, rcptVars, RcptPcs, AttemptPcs
  <2>2. HistTypeOK'
    BY <1>4 DEF CopyFails, Fault, HistTypeOK
  <2> QED
    BY <1>4, <2>1, <2>2, Frame DEF CopyFails, TypeOK
<1>5. CASE Ingest
  <2>1. BoxTypeOK'
    BY <1>5 DEF Ingest, BoxTypeOK, ProcTypeOK
  <2>2. ProcTypeOK'
    BY <1>5, ConsumeType DEF Ingest, ProcTypeOK, handVars, rcptVars, RcptPcs, AttemptPcs
  <2> QED
    BY <1>5, <2>1, <2>2, Frame DEF Ingest, TypeOK
<1> QED
  BY <1>1, <1>2, <1>3, <1>4, <1>5 DEF Copy

\* The end of an attempt, setting aside and dying.
LEMMA EndType ==
  ASSUME TypeOK, Close \/ Finish \/ SetAside \/ PoisonDies
  PROVE  TypeOK'
<1> SpoolTypeOK /\ BoxTypeOK /\ KevyTypeOK /\ ProcTypeOK /\ HistTypeOK
  BY DEF TypeOK
<1>1. CASE Close
  <2>1. SpoolTypeOK'
    BY <1>1 DEF Close, SpoolTypeOK
  <2>2. ProcTypeOK'
    BY <1>1 DEF Close, ProcTypeOK, handVars, rcptVars, RcptPcs, AttemptPcs
  <2>3. HistTypeOK'
    BY <1>1 DEF Close, Fault, HistTypeOK
  <2> QED
    BY <1>1, <2>1, <2>2, <2>3, Frame DEF Close, TypeOK
<1>2. CASE Finish
  <2>1. file \in Files /\ Rest \in Record
    BY <1>2, RestType DEF Finish, ProcTypeOK
  <2>2. rec' \in [Files -> Record] /\ durable' \in [Files -> SUBSET Steps]
    BY <1>2, <2>1, SaveType, NoRecordType DEF Finish, SpoolTypeOK, HistTypeOK
  <2>3. SpoolTypeOK'
    BY <1>2, <2>2, NoRecordType DEF Finish, SpoolTypeOK
  <2>4. ProcTypeOK'
    BY <1>2, LetGoType DEF Finish, ProcTypeOK
  <2>5. HistTypeOK'
    BY <1>2, <2>2 DEF Finish, HistTypeOK
  <2> QED
    BY <1>2, <2>3, <2>4, <2>5, Frame DEF Finish, TypeOK
<1>3. CASE AsideRecord
  <2>1. SpoolTypeOK'
    BY <1>3 DEF AsideRecord, SpoolTypeOK, ProcTypeOK
  <2>2. ProcTypeOK'
    BY <1>3 DEF AsideRecord, ProcTypeOK, handVars, rcptVars, RcptPcs, AttemptPcs
  <2> QED
    BY <1>3, <2>1, <2>2, Frame DEF AsideRecord, TypeOK
<1>4. CASE AsideMove
  <2>1. SpoolTypeOK'
    BY <1>4 DEF AsideMove, SpoolTypeOK
  <2>2. ProcTypeOK'
    BY <1>4 DEF AsideMove, ProcTypeOK, handVars, rcptVars, RcptPcs, AttemptPcs
  <2> QED
    BY <1>4, <2>1, <2>2, Frame DEF AsideMove, TypeOK
<1>5. CASE AsideFails
  <2>1. ProcTypeOK'
    BY <1>5, LetGoType DEF AsideFails, ProcTypeOK
  <2>2. HistTypeOK'
    BY <1>5 DEF AsideFails, Fault, HistTypeOK
  <2> QED
    BY <1>5, <2>1, <2>2, Frame DEF AsideFails, TypeOK
<1>6. CASE AsideForget
  <2>1. SpoolTypeOK'
    BY <1>6, NoRecordType DEF AsideForget, SpoolTypeOK
  <2>2. ProcTypeOK'
    BY <1>6 DEF AsideForget, ProcTypeOK, handVars, rcptVars, RcptPcs, AttemptPcs
  <2>3. HistTypeOK'
    BY <1>6 DEF AsideForget, Fault, HistTypeOK
  <2> QED
    BY <1>6, <2>1, <2>2, <2>3, Frame DEF AsideForget, TypeOK
<1>7. CASE Tell
  <2>1. SpoolTypeOK'
    BY <1>7 DEF Tell, SpoolTypeOK, ProcTypeOK
  <2>2. ProcTypeOK'
    BY <1>7, LetGoType DEF Tell, ProcTypeOK
  <2>3. HistTypeOK'
    BY <1>7 DEF Tell, Fault, HistTypeOK
  <2> QED
    BY <1>7, <2>1, <2>2, <2>3, Frame DEF Tell, TypeOK
<1>8. CASE PoisonDies
  <2>1. ProcTypeOK'
    BY <1>8, LetGoType DEF PoisonDies, Die
  <2>2. HistTypeOK'
    BY <1>8 DEF PoisonDies, Die, HistTypeOK, ProcTypeOK, Attempting, AttemptPcs, RcptPcs
  <2> QED
    BY <1>8, <2>1, <2>2, Frame DEF PoisonDies, Die, TypeOK
<1> QED
  BY <1>1, <1>2, <1>3, <1>4, <1>5, <1>6, <1>7, <1>8 DEF SetAside

\* What happens outside the drain.
LEMMA EnvironmentType ==
  ASSUME TypeOK, Environment
  PROVE  TypeOK'
<1> SpoolTypeOK /\ BoxTypeOK /\ KevyTypeOK /\ ProcTypeOK /\ HistTypeOK
  BY DEF TypeOK
<1>1. CASE Crash
  <2>1. ProcTypeOK'
    BY <1>1, LetGoType DEF Crash, Die
  <2>2. HistTypeOK'
    BY <1>1 DEF Crash, Die, HistTypeOK, ProcTypeOK
  <2> QED
    BY <1>1, <2>1, <2>2, Frame DEF Crash, Die, TypeOK
<1>2. ASSUME NEW f \in Files, Arrive(f) PROVE TypeOK'
  <2>1. SpoolTypeOK'
    BY <1>2 DEF Arrive, SpoolTypeOK
  <2> QED
    BY <1>2, <2>1, Frame DEF Arrive, TypeOK
<1>3. ASSUME NEW f \in Files, Reinject(f) PROVE TypeOK'
  <2>1. SpoolTypeOK'
    BY <1>3 DEF Reinject, SpoolTypeOK
  <2>2. HistTypeOK'
    BY <1>3 DEF Reinject, HistTypeOK
  <2> QED
    BY <1>3, <2>1, <2>2, Frame DEF Reinject, TypeOK
<1>4. ASSUME NEW f \in Files, Age(f) PROVE TypeOK'
  <2>1. HistTypeOK'
    BY <1>4 DEF Age, HistTypeOK
  <2> QED
    BY <1>4, <2>1, Frame DEF Age, TypeOK
<1>5. ASSUME NEW f \in Files, NEW b \in Boxes, ClientMoves(f, b) PROVE TypeOK'
  <2>1. BoxTypeOK'
    BY <1>5 DEF ClientMoves, BoxTypeOK
  <2> QED
    BY <1>5, <2>1, Frame DEF ClientMoves, TypeOK
<1>6. ASSUME NEW k \in Keys, ExpireMarker(k) PROVE TypeOK'
  <2>1. KevyTypeOK'
    BY <1>6 DEF ExpireMarker, KevyTypeOK
  <2> QED
    BY <1>6, <2>1, Frame DEF ExpireMarker, TypeOK
<1> QED
  BY <1>1, <1>2, <1>3, <1>4, <1>5, <1>6 DEF Environment

LEMMA InitType == ASSUME Init PROVE TypeOK
BY ConstantsAssumption, NoRecordType
   DEF Init, TypeOK, SpoolTypeOK, BoxTypeOK, KevyTypeOK, ProcTypeOK, HistTypeOK,
       AttemptPcs, RcptPcs

LEMMA NextType == ASSUME TypeOK, [Next]_vars PROVE TypeOK'
<1>1. CASE Walk
  BY <1>1, WalkType
<1>2. CASE SendersCopy
  BY <1>2, SenderType
<1>3. CASE EachRcpt
  BY <1>3, RcptType
<1>4. CASE \E t \in Target : Serve(t)
  BY <1>4, ServeType
<1>5. CASE Copy
  BY <1>5, CopyType
<1>6. CASE Close \/ Finish \/ SetAside \/ PoisonDies
  BY <1>6, EndType
<1>7. CASE Environment
  BY <1>7, EnvironmentType
<1>8. CASE UNCHANGED vars
  BY <1>8, Frame DEF vars, TypeOK
<1> QED
  BY <1>1, <1>2, <1>3, <1>4, <1>5, <1>6, <1>7, <1>8 DEF Next, Drain

(***************************************************************************)
(* Every reachable state of the drain is well typed: the file in hand is a *)
(* file of the spool, a recipient is in hand exactly while it is served,   *)
(* and what is written to disk is a record.                                *)
(***************************************************************************)
THEOREM TypeCorrect == Spec => []TypeOK
<1>1. Init => TypeOK
  BY InitType
<1>2. TypeOK /\ [Next]_vars => TypeOK'
  BY NextType
<1> QED
  BY <1>1, <1>2, PTL DEF Spec

-----------------------------------------------------------------------------
(* What is on disk is remembered. *)

Busy == AttemptPcs \ {"finish"}    \* an attempt is under way

\* What Remembers says of the disk alone, of one file.
LEMMA DiskStep ==
  ASSUME TypeOK, EarlierCovers, QuarantineRemembers, NEW f \in Files, NEW m \in Record,
         spool[f] = "incoming", m.kept, durable[f] \subseteq m.done,
         Save(f, m) \/ UNCHANGED <<rec, durable>>, UNCHANGED <<spool, beside>>
  PROVE  /\ EarlierCovers' /\ QuarantineRemembers'
         /\ durable'[f] \subseteq m.done
<1>0. /\ rec \in [Files -> Record] /\ beside \in [Files -> Record]
      /\ durable \in [Files -> SUBSET Steps]
  BY DEF TypeOK, SpoolTypeOK, HistTypeOK
<1>1. CASE UNCHANGED <<rec, durable>>
  BY <1>1 DEF EarlierCovers, QuarantineRemembers, Earlier
<1>2. CASE rec' = [rec EXCEPT ![f] = m] /\ durable' = [durable EXCEPT ![f] = @ \cup m.done]
  <2>1. /\ rec'[f] = m /\ durable'[f] = durable[f] \cup m.done
        /\ \A g \in Files \ {f} : rec'[g] = rec[g] /\ durable'[g] = durable[g]
    BY <1>0, <1>2
  <2>2. ASSUME NEW g \in Files, spool'[g] \in {"absent", "incoming", "quarantine"}
        PROVE  durable'[g] \subseteq Earlier(g)'.done
    <3>1. CASE g = f
      BY <2>1, <3>1 DEF Earlier
    <3>2. CASE g # f
      BY <2>1, <2>2, <3>2 DEF Earlier, EarlierCovers
    <3> QED
      BY <3>1, <3>2
  <2>3. QuarantineRemembers'
    BY <2>1 DEF QuarantineRemembers
  <2> QED
    BY <2>1, <2>2, <2>3 DEF EarlierCovers
<1> QED
  BY <1>1, <1>2 DEF Save

\* A step within an attempt keeps the record growing, and serves nobody in it.
LEMMA WithinAttempt ==
  ASSUME TypeOK, Remembers, pc \in Busy, pc' \in Busy,
         mem' \in Record, mem'.kept, mem.done \subseteq mem'.done,
         Save(file, mem') \/ UNCHANGED <<rec, durable>>,
         UNCHANGED <<spool, beside, walk, file>>,
         rcpt' # None => rcpt' \notin mem'.done
  PROVE  Remembers'
<1>1. file \in Files /\ pc # "idle"
  BY DEF TypeOK, ProcTypeOK, Busy, AttemptPcs, RcptPcs
<1>2. /\ spool[file] = "incoming" /\ durable[file] \subseteq mem'.done
      /\ \A f \in walk : spool[f] = "incoming" /\ f # file
  BY <1>1 DEF Remembers, InHand, HandCovers, Attempting, Busy
<1>3. EarlierCovers' /\ QuarantineRemembers' /\ durable'[file] \subseteq mem'.done
  BY <1>1, <1>2, DiskStep DEF Remembers
<1>4. pc' \notin {"idle", "aside", "move", "forget", "finish"}
  BY DEF Busy, AttemptPcs, RcptPcs
<1> QED
  BY <1>2, <1>3, <1>4 DEF Remembers, HandCovers, AsideCovers, InHand, RcptFresh

\* Nothing that is remembered is in the process alone: it may let go of it.
LEMMA LettingGo ==
  ASSUME Remembers, LetGo, UNCHANGED <<spool, rec, beside, durable>>,
         walk' \in {walk, {}}
  PROVE  Remembers'
<1>1. EarlierCovers' /\ QuarantineRemembers'
  BY DEF Remembers, EarlierCovers, QuarantineRemembers, Earlier
<1>2. HandCovers' /\ AsideCovers' /\ InHand' /\ RcptFresh'
  BY DEF LetGo, Remembers, HandCovers, AsideCovers, InHand, RcptFresh, Attempting, AttemptPcs,
         RcptPcs
<1> QED
  BY <1>1, <1>2 DEF Remembers

LEMMA SenderRemembers == ASSUME TypeOK, Remembers, SendersCopy PROVE Remembers'
<1>1. /\ pc \in {"sender", "sentCopy"} /\ pc' \in {"sentCopy", "rcpts"}
      /\ UNCHANGED <<spool, beside, walk, file, rcpt>>
  BY DEF SendersCopy, SkipSender, WriteSent, SentDone, SentFails, spoolVars, handVars, rcptVars
<1>2. pc \in Busy /\ pc' \in Busy /\ rcpt' = None /\ mem \in Record /\ mem.kept
  BY <1>1 DEF Busy, AttemptPcs, RcptPcs, TypeOK, ProcTypeOK, Remembers, HandCovers, Attempting
<1>3. mem' \in Record /\ mem'.kept /\ mem.done \subseteq mem'.done
  <2>1. CASE mem' = Done(Sent)
    BY <1>2, <2>1, DoneType DEF Steps
  <2>2. CASE mem' = mem
    BY <1>2, <2>2
  <2> QED
    BY <2>1, <2>2 DEF SendersCopy, SkipSender, WriteSent, SentDone, SentFails, handVars
<1>4. Save(file, mem') \/ UNCHANGED <<rec, durable>>
  <2>1. CASE SkipSender
    BY <2>1 DEF SkipSender, spoolVars, histVars
  <2>2. CASE WriteSent
    BY <2>2 DEF WriteSent, handVars
  <2>3. CASE SentDone
    BY <2>3 DEF SentDone
  <2>4. CASE SentFails
    BY <2>4 DEF SentFails, handVars
  <2> QED
    BY <2>1, <2>2, <2>3, <2>4 DEF SendersCopy
<1> QED
  BY <1>1, <1>2, <1>3, <1>4, WithinAttempt

LEMMA RcptRemembers == ASSUME TypeOK, Remembers, EachRcpt PROVE Remembers'
<1>0. mem \in Record
  BY DEF TypeOK, ProcTypeOK
<1>1. ASSUME NEW r \in Rcpts, SkipDone(r) PROVE Remembers'
  <2>1. pc \in Busy /\ mem.kept
    BY <1>1 DEF SkipDone, Busy, AttemptPcs, Remembers, HandCovers, Attempting
  <2> QED
    BY <1>0, <1>1, <2>1, WithinAttempt
       DEF SkipDone, spoolVars, handVars, rcptVars, histVars, Remembers, RcptFresh
<1>2. ASSUME NEW r \in Rcpts, LookupFails(r) PROVE Remembers'
  <2>1. pc \in Busy /\ mem.kept
    BY <1>2 DEF LookupFails, Busy, AttemptPcs, Remembers, HandCovers, Attempting
  <2> QED
    BY <1>0, <1>2, <2>1, WithinAttempt DEF LookupFails, handVars, Remembers, RcptFresh
<1>3. ASSUME NEW r \in Rcpts, StartRcpt(r) PROVE Remembers'
  <2>1. pc \in Busy /\ pc' \in Busy /\ mem.kept
    BY <1>3 DEF StartRcpt, Busy, AttemptPcs, RcptPcs, Remembers, HandCovers, Attempting
  <2> QED
    BY <1>0, <1>3, <2>1, WithinAttempt DEF StartRcpt, handVars
<1>4. CASE EndRcpt
  <2>1. pc \in Busy /\ pc' \in Busy /\ mem.kept /\ rcpt \in Steps
    BY <1>4 DEF EndRcpt, Busy, AttemptPcs, RcptPcs, Remembers, HandCovers, Attempting,
                TypeOK, ProcTypeOK, Steps
  <2>2. CASE took
    <3>1. mem' \in Record /\ mem'.kept /\ mem.done \subseteq mem'.done
      BY <1>0, <1>4, <2>1, <2>2, DoneType DEF EndRcpt
    <3> QED
      BY <1>4, <2>1, <2>2, <3>1, WithinAttempt DEF EndRcpt
  <2>3. CASE ~took
    BY <1>0, <1>4, <2>1, <2>3, WithinAttempt DEF EndRcpt
  <2> QED
    BY <2>2, <2>3
<1> QED
  BY <1>1, <1>2, <1>3, <1>4 DEF EachRcpt

\* Serving a target touches neither the record nor the spool.
LEMMA ServeRemembers ==
  ASSUME TypeOK, Remembers, (\E t \in Target : Serve(t)) \/ Copy
  PROVE  Remembers'
<1>1. /\ pc \in RcptPcs /\ pc' \in RcptPcs
      /\ UNCHANGED <<spool, rec, beside, durable, walk, file, mem, rcpt>>
  <2>1. ASSUME NEW t \in Target, Serve(t)
        PROVE  /\ pc \in RcptPcs /\ pc' \in RcptPcs
               /\ UNCHANGED <<spool, rec, beside, durable, walk, file, mem, rcpt>>
    BY <2>1 DEF Serve, TargetFails, Relay, RelayFails, Discard, Reject, Redirect, RedirectFails,
                Forward, Keep, Decided, Turn, StartWrite, RcptPcs, spoolVars, handVars, histVars
  <2>2. ASSUME Copy
        PROVE  /\ pc \in RcptPcs /\ pc' \in RcptPcs
               /\ UNCHANGED <<spool, rec, beside, durable, walk, file, mem, rcpt>>
    BY <2>2 DEF Copy, FindCopy, CreateCopy, FinishCopy, CopyFails, Ingest, RcptPcs, spoolVars,
                handVars, rcptVars, histVars
  <2> QED
    BY <2>1, <2>2
<1>2. /\ pc \in Busy /\ pc' \in Busy /\ mem \in Record /\ mem.kept
      /\ rcpt # None => rcpt \notin mem.done
  BY <1>1 DEF Busy, AttemptPcs, RcptPcs, TypeOK, ProcTypeOK, Remembers, HandCovers, Attempting,
              RcptFresh
<1> QED
  BY <1>1, <1>2, WithinAttempt

LEMMA WalkRemembers == ASSUME TypeOK, Remembers, Walk PROVE Remembers'
<1>1. CASE StartTick
  BY <1>1 DEF StartTick, Incoming, spoolVars, handVars, rcptVars, histVars, Remembers, EarlierCovers,
     QuarantineRemembers, Earlier, HandCovers, AsideCovers, InHand, RcptFresh, Attempting
<1>2. ASSUME NEW f \in Files, Begin(f) PROVE Remembers'
  <2>1. /\ spool[f] = "incoming" /\ durable[f] \subseteq Earlier(f).done
        /\ mem' = Started(f) /\ Save(f, mem')
    BY <1>2 DEF Begin, Remembers, InHand, EarlierCovers
  <2>2. mem' \in Record /\ mem'.kept /\ durable[f] \subseteq mem'.done
    BY <2>1, EarlierType DEF TypeOK
  <2>3. EarlierCovers' /\ QuarantineRemembers' /\ durable'[f] \subseteq mem'.done
    BY <1>2, <2>1, <2>2, DiskStep DEF Begin, Remembers
  <2>4. rcpt' = None
    BY <1>2 DEF Begin, TypeOK, ProcTypeOK, RcptPcs
  <2>5. HandCovers' /\ AsideCovers' /\ RcptFresh'
    BY <1>2, <2>2, <2>3, <2>4 DEF Begin, HandCovers, AsideCovers, RcptFresh
  <2>6. InHand'
    BY <1>2, <2>1 DEF Begin, Remembers, InHand, Attempting, AttemptPcs, RcptPcs
  <2> QED
    BY <2>3, <2>5, <2>6 DEF Remembers
<1>3. ASSUME NEW f \in Files, Refuse(f) PROVE Remembers'
  <2>1. Earlier(f).attempts # 0
    BY <1>3, EarlierType, RecordParts, ConstantsAssumption DEF Refuse, TypeOK
  <2>2. Earlier(f).kept
    BY <2>1, EarlierType DEF TypeOK
  <2>3. spool[f] = "incoming" /\ durable[f] \subseteq Earlier(f).done
    BY <1>3 DEF Refuse, Remembers, InHand, EarlierCovers
  <2>4. rcpt' = None
    BY <1>3 DEF Refuse, rcptVars, TypeOK, ProcTypeOK, RcptPcs
  <2>5. EarlierCovers' /\ QuarantineRemembers'
    BY <1>3 DEF Refuse, spoolVars, histVars, Remembers, EarlierCovers, QuarantineRemembers, Earlier
  <2>6. HandCovers' /\ AsideCovers' /\ RcptFresh'
    BY <1>3, <2>2, <2>3, <2>4
       DEF Refuse, histVars, HandCovers, AsideCovers, RcptFresh, Attempting, AttemptPcs, RcptPcs
  <2>7. InHand'
    BY <1>3, <2>3 DEF Refuse, spoolVars, Remembers, InHand, Attempting, AttemptPcs, RcptPcs
  <2> QED
    BY <2>5, <2>6, <2>7 DEF Remembers
<1> QED
  BY <1>1, <1>2, <1>3 DEF Walk

LEMMA EndRemembers ==
  ASSUME TypeOK, Remembers, Close \/ Finish \/ SetAside \/ PoisonDies \/ Crash
  PROVE  Remembers'
<1>0. /\ rec \in [Files -> Record] /\ beside \in [Files -> Record] /\ mem \in Record
      /\ DOMAIN spool = Files
  BY DEF TypeOK, SpoolTypeOK, ProcTypeOK
<1>1. CASE Close
  <2>1. /\ file \in Files /\ rcpt' = None /\ pc = "rcpts"
    BY <1>1 DEF Close, rcptVars, TypeOK, ProcTypeOK, AttemptPcs, RcptPcs
  <2>2. /\ spool'[file] \in {"incoming", "gone", "unresolved"}
        /\ \A f \in Files \ {file} : spool'[f] = spool[f]
    BY <1>0, <1>1, <2>1 DEF Close, Remembers, InHand, Attempting, AttemptPcs
  <2>3. \A f \in Files : spool'[f] = spool[f] \/ spool'[f] \in {"gone", "unresolved"}
    BY <1>1, <2>1 , <1>0 DEF Close
  <2>4. EarlierCovers' /\ QuarantineRemembers'
    BY <1>1, <2>3 DEF Close, Remembers, EarlierCovers, QuarantineRemembers, Earlier
  <2>5. HandCovers' /\ AsideCovers' /\ RcptFresh'
    BY <1>1, <2>1 DEF Close, handVars, Remembers, HandCovers, AsideCovers, RcptFresh, Attempting,
                      AttemptPcs
  <2>6. InHand'
    BY <1>1, <2>1, <2>2 DEF Close, handVars, Remembers, InHand, TypeOK, ProcTypeOK
  <2> QED
    BY <2>4, <2>5, <2>6 DEF Remembers
<1>2. CASE Finish
  <2>1. /\ file \in Files /\ mem.kept /\ durable[file] \subseteq mem.done
        /\ spool[file] \in {"incoming", "gone", "unresolved"}
    BY <1>2 DEF Finish, TypeOK, ProcTypeOK, Remembers, HandCovers, InHand, Attempting, AttemptPcs
  <2>2. EarlierCovers' /\ QuarantineRemembers'
    <3>1. CASE spool[file] = "incoming"
      BY <1>0, <1>2, <2>1, <3>1, RestType, DiskStep DEF Finish, Remembers
    <3>2. CASE spool[file] # "incoming"
      <4>1. \A f \in Files \ {file} : rec'[f] = rec[f] /\ beside'[f] = beside[f]
        BY <1>0, <1>2, <3>2 DEF Finish
      <4>2. durable' = durable /\ spool' = spool
        BY <1>2, <3>2 DEF Finish
      <4>3. spool[file] \in {"gone", "unresolved"}
        BY <2>1, <3>2
      <4> QED
        BY <4>1, <4>2, <4>3 DEF Remembers, EarlierCovers, QuarantineRemembers, Earlier
    <3> QED
      BY <3>1, <3>2
  <2>3. HandCovers' /\ AsideCovers' /\ InHand' /\ RcptFresh'
    BY <1>2 DEF Finish, LetGo, Remembers, HandCovers, AsideCovers, InHand, RcptFresh, Attempting,
                AttemptPcs, RcptPcs
  <2> QED
    BY <2>2, <2>3 DEF Remembers
<1>3. CASE AsideRecord
  <2>1. /\ file \in Files /\ mem.kept /\ durable[file] \subseteq mem.done /\ rcpt = None
        /\ spool[file] = "incoming"
    BY <1>3 DEF AsideRecord, TypeOK, ProcTypeOK, RcptPcs, Remembers, HandCovers, InHand
  <2>2. beside'[file] = mem /\ \A f \in Files \ {file} : beside'[f] = beside[f]
    BY <1>0, <1>3, <2>1 DEF AsideRecord
  <2>3. /\ UNCHANGED <<spool, rec, durable, file, mem, walk, rcpt>> /\ pc = "aside" /\ pc' = "move"
    BY <1>3 DEF AsideRecord, handVars, rcptVars, histVars
  <2>4. ASSUME NEW f \in Files, spool'[f] \in {"absent", "incoming", "quarantine"}
        PROVE  durable'[f] \subseteq Earlier(f)'.done
    <3>1. CASE f = file /\ ~rec[f].kept
      <4>1. Earlier(f)' = [mem EXCEPT !.attempts = 0]
        BY <2>2, <2>3, <3>1 DEF Earlier
      <4> QED
        BY <1>0, <2>1, <2>3, <3>1, <4>1, ForgetAttempts
    <3>2. CASE f # file \/ rec[f].kept
      BY <2>2, <2>3, <2>4, <3>2 DEF Earlier, Remembers, EarlierCovers
    <3> QED
      BY <3>1, <3>2
  <2>5. QuarantineRemembers'
    BY <2>1, <2>2, <2>3 DEF Remembers, QuarantineRemembers
  <2>6. HandCovers' /\ AsideCovers' /\ InHand' /\ RcptFresh'
    BY <2>1, <2>2, <2>3 DEF Remembers, HandCovers, AsideCovers, InHand, RcptFresh, Attempting,
                             AttemptPcs, RcptPcs
  <2> QED
    BY <2>4, <2>5, <2>6 DEF Remembers, EarlierCovers
<1>4. CASE AsideMove
  <2>1. /\ file \in Files /\ rcpt = None /\ spool[file] = "incoming"
        /\ beside[file].kept /\ durable[file] \subseteq beside[file].done
        /\ pc = "move" /\ pc' = "forget"
    BY <1>4 DEF AsideMove, TypeOK, ProcTypeOK, RcptPcs, Remembers, AsideCovers, InHand
  <2>2. spool'[file] = "quarantine" /\ \A f \in Files \ {file} : spool'[f] = spool[f]
    BY <1>0, <1>4, <2>1 DEF AsideMove
  <2>3. UNCHANGED <<rec, beside, durable, file, mem, walk, rcpt>>
    BY <1>4 DEF AsideMove, handVars, rcptVars, histVars
  <2>4. EarlierCovers' /\ QuarantineRemembers'
    BY <2>1, <2>2, <2>3 DEF Remembers, EarlierCovers, QuarantineRemembers, Earlier
  <2>5. HandCovers' /\ AsideCovers' /\ InHand' /\ RcptFresh'
    BY <2>1, <2>2, <2>3 DEF Remembers, HandCovers, AsideCovers, InHand, RcptFresh, Attempting,
                             AttemptPcs, RcptPcs, TypeOK, ProcTypeOK
  <2> QED
    BY <2>4, <2>5 DEF Remembers
<1>5. CASE AsideFails
  BY <1>5, LettingGo DEF AsideFails, spoolVars
<1>6. CASE AsideForget
  <2>1. /\ file \in Files /\ rcpt = None /\ pc = "forget" /\ pc' = "tell"
        /\ beside[file].kept /\ durable[file] \subseteq beside[file].done
    BY <1>6 DEF AsideForget, TypeOK, ProcTypeOK, RcptPcs, Remembers, AsideCovers
  <2>2. /\ rec'[file] = rec[file] \/ rec'[file] = NoRecord
        /\ \A f \in Files \ {file} : rec'[f] = rec[f]
    BY <1>0, <1>6, <2>1 DEF AsideForget
  <2>3. UNCHANGED <<spool, beside, durable, file, mem, walk, rcpt>>
    BY <1>6 DEF AsideForget, handVars, rcptVars
  <2>4. ASSUME NEW f \in Files, spool'[f] \in {"absent", "incoming", "quarantine"}
        PROVE  durable'[f] \subseteq Earlier(f)'.done
    <3>1. CASE f = file /\ rec'[file] = NoRecord
      <4>1. Earlier(f)' = [beside[f] EXCEPT !.attempts = 0]
        BY <2>3, <3>1, NoRecordType DEF Earlier
      <4> QED
        BY <1>0, <2>1, <2>3, <3>1, <4>1, ForgetAttempts
    <3>2. CASE f # file \/ rec'[file] = rec[file]
      BY <2>2, <2>3, <2>4, <3>2 DEF Earlier, Remembers, EarlierCovers
    <3> QED
      BY <2>2, <3>1, <3>2
  <2>5. QuarantineRemembers'
    BY <2>3 DEF Remembers, QuarantineRemembers
  <2>6. HandCovers' /\ AsideCovers' /\ InHand' /\ RcptFresh'
    BY <2>1, <2>3 DEF Remembers, HandCovers, AsideCovers, InHand, RcptFresh, Attempting,
                       AttemptPcs, RcptPcs
  <2> QED
    BY <2>4, <2>5, <2>6 DEF Remembers, EarlierCovers
<1>7. CASE Tell
  BY <1>7, LettingGo DEF Tell
<1>8. CASE PoisonDies \/ Crash
  BY <1>8, LettingGo DEF PoisonDies, Crash, Die, spoolVars
<1> QED
  BY <1>1, <1>2, <1>3, <1>4, <1>5, <1>6, <1>7, <1>8 DEF SetAside

LEMMA EnvironmentRemembers == ASSUME TypeOK, Remembers, Environment PROVE Remembers'
<1>1. CASE Crash
  BY <1>1, EndRemembers
<1>2. ASSUME NEW f \in Files, Arrive(f) \/ Reinject(f) PROVE Remembers'
  <2>1. /\ spool[f] \in {"absent", "quarantine"} /\ spool'[f] = "incoming"
        /\ \A g \in Files \ {f} : spool'[g] = spool[g]
        /\ UNCHANGED <<rec, beside, durable, pc, file, mem, walk, rcpt>>
    BY <1>2 DEF Arrive, Reinject, procVars, handVars, rcptVars, histVars, TypeOK, SpoolTypeOK
  <2>2. EarlierCovers' /\ QuarantineRemembers'
    BY <2>1 DEF Remembers, EarlierCovers, QuarantineRemembers, Earlier
  <2>3. InHand'
    BY <2>1 DEF Remembers, InHand, Attempting, TypeOK, ProcTypeOK, AttemptPcs, RcptPcs
  <2>4. HandCovers' /\ AsideCovers' /\ RcptFresh'
    BY <2>1 DEF Remembers, HandCovers, AsideCovers, RcptFresh, Attempting
  <2> QED
    BY <2>2, <2>3, <2>4 DEF Remembers
<1>3. ASSUME UNCHANGED <<spool, rec, beside, durable, pc, file, mem, walk, rcpt>>
      PROVE  Remembers'
  BY <1>3 DEF Remembers, EarlierCovers, QuarantineRemembers, Earlier, HandCovers, AsideCovers, InHand,
              RcptFresh, Attempting
<1>4. ASSUME NEW f \in Files, Age(f) PROVE Remembers'
  BY <1>3, <1>4 DEF Age, spoolVars, procVars, handVars, rcptVars
<1>5. ASSUME NEW f \in Files, NEW b \in Boxes, ClientMoves(f, b) PROVE Remembers'
  BY <1>3, <1>5 DEF ClientMoves, spoolVars, procVars, handVars, rcptVars, histVars
<1>6. ASSUME NEW k \in Keys, ExpireMarker(k) PROVE Remembers'
  BY <1>3, <1>6 DEF ExpireMarker, spoolVars, procVars, handVars, rcptVars, histVars
<1> QED
  BY <1>1, <1>2, <1>4, <1>5, <1>6 DEF Environment

LEMMA InitRemembers == ASSUME Init PROVE Remembers
BY DEF Init, Remembers, EarlierCovers, QuarantineRemembers, HandCovers, AsideCovers, InHand, RcptFresh,
       Attempting, AttemptPcs, RcptPcs

LEMMA NextRemembers == ASSUME TypeOK, Remembers, [Next]_vars PROVE Remembers'
<1>1. CASE UNCHANGED vars
  BY <1>1 DEF vars, spoolVars, procVars, handVars, rcptVars, histVars, Remembers, EarlierCovers,
     QuarantineRemembers, Earlier, HandCovers, AsideCovers, InHand, RcptFresh, Attempting
<1> QED
  BY <1>1, WalkRemembers, SenderRemembers, RcptRemembers, ServeRemembers, EndRemembers,
     EnvironmentRemembers DEF Next, Drain

(***************************************************************************)
(* Every state remembers on disk all the steps ever recorded as done: the  *)
(* inductive invariant of the drain.                                       *)
(***************************************************************************)
THEOREM AlwaysRemembers == Spec => []Remembers
<1>1. Init => TypeOK /\ Remembers
  BY InitType, InitRemembers
<1>2. TypeOK /\ Remembers /\ [Next]_vars => (TypeOK /\ Remembers)'
  BY NextType, NextRemembers
<1> QED
  BY <1>1, <1>2, PTL DEF Spec

(***************************************************************************)
(* A recipient whose service is recorded on disk is never served again,    *)
(* however often the process dies, a disk call fails, a file is set aside  *)
(* and moved back.                                                         *)
(***************************************************************************)
THEOREM ServedOnce == Spec => []DoneNotServedAgain
<1>1. TypeOK /\ Remembers => DoneNotServedAgain
  BY DEF TypeOK, ProcTypeOK, Remembers, HandCovers, RcptFresh, Attempting, AttemptPcs,
         DoneNotServedAgain
<1> QED
  BY <1>1, TypeCorrect, AlwaysRemembers, PTL

(***************************************************************************)
(* A file in quarantine has every step recorded as done in the record      *)
(* beside it.                                                              *)
(***************************************************************************)
THEOREM QuarantineForgetsNothing == Spec => []QuarantineRemembers
<1>1. Remembers => QuarantineRemembers
  BY DEF Remembers
<1> QED
  BY <1>1, AlwaysRemembers, PTL

===============================================================================
