------------------------------ MODULE AuditChain ------------------------------
(***************************************************************************)
(* The audit log and its hash chain (crates/core-sidestate, families/audit *)
(* and families/audit_chain).  Every process appends facts to one list of  *)
(* a network store and trims it; the thread of one process seals the rows  *)
(* in id order, checks them daily against the chain and the files of the   *)
(* replica, and drops what the log no longer holds.  An admin may ask for  *)
(* the same check from another thread.  Each call to the store is one      *)
(* step: between two of them anybody may act, or the caller may be gone.   *)
(***************************************************************************)
EXTENDS Naturals, Sequences, FiniteSetsExt

CONSTANTS
  Writers,   \* the threads that append
  Cap,       \* audit::CAP
  Slack,     \* SLACK
  None       \* no link, no file

CONSTANTS    \* bounds of the environment
  MaxId,     \* ids taken from the counter
  AskFrom,   \* ids taken before an admin asks for a check
  Events,    \* SUBSET of the events there may be
  MaxEvents  \* how many there are

\* Rows changed outside the writers, in four ways; deaths and failed store calls
\* of a writer or of the sealer; replica files that cannot be written; checks an
\* admin asks for.
Ways   == {"change", "remove", "insert", "rewrite"}
Kinds  == Ways \cup {"stop", "disk", "ask"}

ASSUME ConstantsAssumption ==
  /\ Cap \in Nat \ {0} /\ Slack \in Nat /\ MaxId \in Nat /\ AskFrom \in Nat
  /\ MaxEvents \in Nat /\ Events \subseteq Kinds

Rows   == [id : 1..MaxId, says : {"fact", "gap", "fake"}]
Hashes == Seq(Rows)
Links  == [id : 1..MaxId, hash : Hashes] \cup {None}
IsMap(m, S) == \E ids \in SUBSET (1..MaxId) : m \in [ids -> S]

\* No link and no checksum is a link or a checksum.
ASSUME NoneAssumption ==
  None \notin [id : 1..MaxId, hash : Hashes] /\ ~IsMap(None, Hashes)

VARIABLES
  counter,    \* AUDIT_LOG_COUNTER
  log,        \* AUDIT_LOG, the newest row first
  chain,      \* AUDIT_CHAIN: the sealed hash of each id
  head,       \* AUDIT_CHAIN_HEAD: the last sealed row and its hash
  anchor,     \* AUDIT_CHAIN_ANCHOR: the oldest sealed row kept, the hash before it
  through,    \* AUDIT_CHAIN_REPLICATED
  files,      \* the replica's files
  writer,     \* what each writer is doing
  sealer,     \* what the chain's thread is doing
  asked,      \* the check an admin asked for
  sealed,     \* history: what the sealer sealed, in order
  meddled,    \* history: how rows were changed outside the writers
  slips,      \* history: what a later alarm may be blamed on
  events      \* what is left of MaxEvents

logVars   == <<counter, log>>
chainVars == <<chain, head, anchor, sealed>>
diskVars  == <<through, files>>
tellVars  == <<meddled, events>>
vars == <<logVars, chainVars, diskVars, writer, sealer, asked, slips, tellVars>>

-----------------------------------------------------------------------------
(* Rows and hashes *)

\* What a row says: what its writer wrote, or something else.  An id without a
\* row is sealed as a gap.
Row(id)  == [id |-> id, says |-> "fact"]
Gap(id)  == [id |-> id, says |-> "gap"]
Fake(id) == [id |-> id, says |-> "fake"]

\* A hash of a hash and a row stands for all it was computed from: two are
\* equal only when these are (row_hash and gap_hash feed every field with its
\* length).
Hash(prev, row) == Append(prev, row)
Zero == <<>>

Link(id, hash) == [id |-> id, hash |-> hash]

Ids(rows) == {rows[k].id : k \in DOMAIN rows}
\* The rows by their ids, those past an id: of two rows with one id the map keeps
\* the one read last.
ById(rows, past) == [id \in {i \in Ids(rows) : i > past} |->
                       rows[Max({k \in DOMAIN rows : rows[k].id = id})]]
SealOf(byId, id) == IF id \in DOMAIN byId THEN byId[id] ELSE Gap(id)

HeadId   == IF head = None THEN 0 ELSE head.id
HeadHash == IF head = None THEN Zero ELSE head.hash

Newest(rows, n) == SubSeq(rows, 1, Min({n, Len(rows)}))

-----------------------------------------------------------------------------
(* State *)

WriterPcs == {"idle", "push", "count", "keep", "drop", "fill"}
SealerPcs == {"idle", "rows", "anchor", "seal", "head", "ticked",
              "file", "sum", "through", "prune", "forget"}
AskedPcs  == {"idle", "anchor", "rows", "chain", "files", "bad"}

AtRest  == [pc |-> "idle", id |-> 0, keep |-> <<>>]
NoWait  == [id |-> 0, over |-> FALSE]
NoCheck == [pc |-> "idle", head |-> None, anchor |-> None, rows |-> <<>>]

Init ==
  /\ counter = 0 /\ log = <<>>
  /\ chain = <<>> /\ head = None /\ anchor = None /\ sealed = <<>>
  /\ through = 0 /\ files = {}
  /\ writer = [w \in Writers |-> AtRest]
  /\ sealer = [pc |-> "idle", waiting |-> NoWait, counter |-> 0, byId |-> <<>>,
               verdict |-> "ok"]
  /\ asked = NoCheck
  /\ slips = {} /\ meddled = "none"
  /\ events = MaxEvents

Happens(kind) == events > 0 /\ kind \in Events /\ events' = events - 1

\* A writer between its LRANGE and the last of the rows it puts back.
Rewriting(w) == writer[w].pc \in {"drop", "fill"}
OthersRewrite(w) == \E v \in Writers \ {w} : Rewriting(v)
HalfWritten == \E w \in Writers : writer[w].pc = "fill"

Blame(slip, if) == IF if THEN {slip} ELSE {}

-----------------------------------------------------------------------------
(* Appending: audit::append, call by call *)

Goes(w, pc) == writer' = [writer EXCEPT ![w].pc = pc]

Incr(w) ==
  /\ writer[w].pc = "idle" /\ counter < MaxId
  /\ counter' = counter + 1
  /\ writer' = [writer EXCEPT ![w] = [pc |-> "push", id |-> counter + 1, keep |-> <<>>]]
  /\ UNCHANGED <<log, chainVars, diskVars, sealer, asked, slips, tellVars>>

\* The ids of the rows the sealer has read, or sealed, go up to here.
InTick   == sealer.pc \in {"anchor", "seal", "head"}
SealedTo == IF InTick THEN sealer.counter ELSE HeadId
KnownTo  == IF asked.head = None THEN HeadId ELSE asked.head.id
Started  == InTick \/ head # None

Push(w) ==
  LET row == Row(writer[w].id) IN
  /\ writer[w].pc = "push"
  /\ log' = <<row>> \o log
  /\ slips' = slips \cup Blame("race", row.id <= SealedTo)
                    \cup Blame("trim", OthersRewrite(w))
  /\ writer' = [writer EXCEPT ![w] = [AtRest EXCEPT !.pc = "count"]]
  /\ UNCHANGED <<counter, chainVars, diskVars, sealer, asked, tellVars>>

Full == Len(log) > Cap + (Cap \div 10)

Count(w) ==
  /\ writer[w].pc = "count"
  /\ IF Full THEN Goes(w, "keep")
             ELSE writer' = [writer EXCEPT ![w] = AtRest]
  /\ UNCHANGED <<logVars, chainVars, diskVars, sealer, asked, slips, tellVars>>

Keep(w) ==
  /\ writer[w].pc = "keep"
  /\ writer' = [writer EXCEPT ![w].pc = "drop", ![w].keep = Newest(log, Cap)]
  /\ slips' = slips \cup Blame("trim", HalfWritten)
  /\ UNCHANGED <<logVars, chainVars, diskVars, sealer, asked, tellVars>>

Drop(w) ==
  LET keep == writer[w].keep IN
  /\ writer[w].pc = "drop"
  /\ log' = <<>>
  /\ slips' = slips \cup Blame("trim", OthersRewrite(w))
                    \cup Blame("trim", \E id \in Ids(log) \ Ids(keep) :
                                           \E kept \in Ids(keep) : id > kept)
                    \cup Blame("trim", Started /\ \A kept \in Ids(keep) : kept > KnownTo + 1)
  /\ IF keep = <<>> THEN writer' = [writer EXCEPT ![w] = AtRest] ELSE Goes(w, "fill")
  /\ UNCHANGED <<counter, chainVars, diskVars, sealer, asked, tellVars>>

\* The rows go back one by one, the oldest first.
Fill(w) ==
  LET keep == writer[w].keep
      rest == SubSeq(keep, 1, Len(keep) - 1)
  IN
  /\ writer[w].pc = "fill"
  /\ log' = <<keep[Len(keep)]>> \o log
  /\ writer' = [writer EXCEPT ![w] = IF rest = <<>> THEN AtRest ELSE [@ EXCEPT !.keep = rest]]
  /\ UNCHANGED <<counter, chainVars, diskVars, sealer, asked, slips, tellVars>>

\* The process is gone, or a call fails and append returns its error.
StopWriter(w) ==
  /\ writer[w].pc # "idle" /\ Happens("stop")
  /\ writer' = [writer EXCEPT ![w] = AtRest]
  /\ slips' = slips \cup Blame("trim", writer[w].pc = "fill")
  /\ UNCHANGED <<logVars, chainVars, diskVars, sealer, asked, meddled>>

-----------------------------------------------------------------------------
(* Sealing: Sealer::tick *)

Sealer(pc) == sealer.pc = pc
Then(pc)   == sealer' = [sealer EXCEPT !.pc = pc]
Rests      == sealer' = [sealer EXCEPT !.pc = "idle", !.counter = 0]

TickStart ==
  /\ Sealer("idle")
  /\ IF head # None /\ counter <= HeadId
       THEN Then("ticked")
       ELSE sealer' = [sealer EXCEPT !.pc = "rows", !.counter = counter]
  /\ UNCHANGED <<logVars, chainVars, diskVars, writer, asked, slips, tellVars>>

WindowWithoutSlack == IF head = None THEN Len(log) ELSE sealer.counter - HeadId

\* The newest rows, as many as ids are expected and some to spare; all of them
\* when nothing was sealed yet.
Window == IF head = None THEN Len(log) ELSE sealer.counter - HeadId + Slack

\* A row the tick expects is beyond more of the others than it reads to spare:
\* they came after the counter was read, or out of order.
Expected(id) == id \in HeadId + 1 .. sealer.counter
CrowdedOut(id) == \E k \in DOMAIN log :
  /\ log[k].id = id
  /\ Cardinality({j \in 1..k - 1 : ~Expected(log[j].id)}) > Slack

TickRows ==
  LET byId == ById(Newest(log, Window), HeadId) IN
  /\ Sealer("rows")
  /\ sealer' = [sealer EXCEPT !.byId = byId,
                              !.pc = IF head # None THEN "seal"
                                     ELSE IF DOMAIN byId = {} THEN "ticked" ELSE "anchor"]
  /\ slips' = slips \cup Blame("race", HalfWritten /\ (sealer.waiting.id # 0 \/ head = None))
                    \cup Blame("race", head # None /\ CrowdedOut(sealer.waiting.id))
  /\ UNCHANGED <<logVars, chainVars, diskVars, writer, asked, tellVars>>

StartBeforeTheLog == IF head = None THEN 0 ELSE HeadId + 1

\* The first seal starts at the oldest row there is.
Start == IF head = None THEN Min(DOMAIN sealer.byId) ELSE HeadId + 1

SetAnchor ==
  /\ Sealer("anchor")
  /\ anchor' = Link(Start, Zero)
  /\ Then("seal")
  /\ UNCHANGED <<logVars, chain, head, sealed, diskVars, writer, asked, slips, tellVars>>

\* An id without a row, whose wait is over, is passed; the next one stops the tick.
Passed(id) == id \in DOMAIN sealer.byId \/ sealer.waiting = [id |-> id, over |-> TRUE]

LastSealed == Max({Start - 1} \cup
  {e \in Start..sealer.counter : \A id \in Start..e : Passed(id)})

Batch == [id \in Start..LastSealed |->
            HeadHash \o [k \in 1..(id - Start + 1) |-> SealOf(sealer.byId, Start + k - 1)]]

\* A missing id is waited for from the first tick that misses it.
NextWaiting ==
  IF LastSealed < sealer.counter
    THEN IF sealer.waiting.id = LastSealed + 1 THEN sealer.waiting
         ELSE [id |-> LastSealed + 1, over |-> FALSE]
    ELSE IF LastSealed >= Start /\ sealer.waiting.id <= LastSealed THEN NoWait
         ELSE sealer.waiting

Seal ==
  /\ Sealer("seal")
  /\ chain' = [id \in DOMAIN chain \cup DOMAIN Batch |->
                 IF id \in DOMAIN Batch THEN Batch[id] ELSE chain[id]]
  /\ sealer' = [sealer EXCEPT !.waiting = NextWaiting, !.byId = <<>>, !.counter = LastSealed,
                              !.pc = IF LastSealed < Start THEN "ticked" ELSE "head"]
  /\ UNCHANGED <<logVars, head, anchor, sealed, diskVars, writer, asked, slips, tellVars>>

SetHead ==
  /\ Sealer("head")
  /\ head' = Link(sealer.counter, chain[sealer.counter])
  /\ sealed' = sealed \o SubSeq(head'.hash, Len(sealed) + 1, Len(head'.hash))
  /\ Then("ticked")
  /\ UNCHANGED <<logVars, chain, anchor, diskVars, writer, asked, slips, tellVars>>

\* GAP_WAIT passes.
WaitIsOver ==
  /\ sealer.waiting.id # 0 /\ ~sealer.waiting.over
  /\ sealer' = [sealer EXCEPT !.waiting.over = TRUE]
  /\ UNCHANGED <<logVars, chainVars, diskVars, writer, asked, slips, tellVars>>

\* The thread sleeps until the next tick.
Sleep ==
  /\ Sealer("ticked") /\ Rests
  /\ UNCHANGED <<logVars, chainVars, diskVars, writer, asked, slips, tellVars>>

\* A call fails, and the loop starts over on a new connection with the wait it
\* had, or the process is gone and its successor waits for nothing.
StopSealer ==
  /\ sealer.pc \notin {"idle", "ticked"} /\ Happens("stop")
  /\ \E waiting \in {NoWait, IF Sealer("seal") THEN NextWaiting ELSE sealer.waiting} :
        sealer' = [sealer EXCEPT !.pc = "idle", !.waiting = waiting, !.byId = <<>>, !.counter = 0]
  /\ UNCHANGED <<logVars, chainVars, diskVars, writer, asked, slips, meddled>>

-----------------------------------------------------------------------------
(* The daily check: run::daily *)

VerifiedFromTheFirst(last, start, rows) ==
  \/ last = None
  \/ LET oldest  == Min(Ids(rows))
         trimmed == Len(rows) >= Cap /\ oldest > start.id
         first   == IF trimmed THEN oldest ELSE start.id
         before  == IF trimmed THEN chain[first - 1] ELSE start.hash
         prev(id) == IF id = first THEN before ELSE chain[id - 1]
         byId    == ById(rows, 0)
     IN
     /\ start # None
     /\ \A j, k \in DOMAIN rows : rows[j].id = rows[k].id => j = k
     /\ trimmed => first - 1 \in DOMAIN chain
     /\ first..last.id \subseteq DOMAIN chain
     /\ \A id \in first..last.id : chain[id] = Hash(prev(id), SealOf(byId, id))
     /\ last.hash = IF last.id < first THEN before ELSE chain[last.id]

\* Whether rows agree with the chain from the anchor, or from the oldest row of
\* a log that is full, to the head.
Verified(last, start, rows) ==
  \/ last = None
  \/ LET oldest  == Min(Ids(rows))
         trimmed == Len(rows) >= Cap /\ oldest > start.id
         first   == IF trimmed THEN oldest ELSE start.id
         before  == IF trimmed THEN chain[first - 1] ELSE start.hash
         prev(id) == IF id = first THEN before ELSE chain[id - 1]
         byId    == ById(rows, 0)
     IN
     /\ start # None
     /\ \A j, k \in DOMAIN rows : rows[j].id = rows[k].id => j = k
     /\ trimmed => first - 1 \in DOMAIN chain
     /\ \A id \in Ids(rows) : id >= first
     /\ first..last.id \subseteq DOMAIN chain
     /\ \A id \in first..last.id : chain[id] = Hash(prev(id), SealOf(byId, id))
     /\ last.hash = IF last.id < first THEN before ELSE chain[last.id]

\* compare: the files with a checksum, which must be theirs, against what the
\* store has.  Of two files with one id the one read last counts, and the order
\* is the file system's: both answers may be possible.
Finished  == {f \in files : f.sum # None}
Copied    == UNION {DOMAIN f.body : f \in Finished}
Copies(id) == {f.body[id] : f \in {g \in Finished : id \in DOMAIN g.body}}
Agreements ==
  LET sums == \A f \in Finished : f.sum = f.body
      both == Copied \cap DOMAIN chain
  IN {agrees \in BOOLEAN :
        IF agrees THEN sums /\ \A id \in both : chain[id] \in Copies(id)
                  ELSE ~sums \/ \E id \in both : Copies(id) # {chain[id]}}

\* Only this thread writes the chain and the files: all it reads but the rows
\* stays as it is while it reads.
Verify ==
  /\ Sealer("ticked")
  /\ \E agrees \in Agreements :
       LET ok == Verified(head, anchor, log) /\ agrees IN
       sealer' = [sealer EXCEPT !.verdict = IF ok THEN "ok" ELSE "bad",
                                !.pc = IF ~ok THEN "idle"
                                       ELSE IF HeadId > through THEN "file" ELSE "prune"]
  /\ slips' = slips \cup Blame("race", HalfWritten)
  /\ UNCHANGED <<logVars, chainVars, diskVars, writer, asked, tellVars>>

FileNameAfterTheAnchor ==
  <<IF anchor = None THEN through + 1 ELSE Max({anchor.id, through}) + 1, HeadId>>

\* replica::write: the rows sealed since the last file.
FileName == <<IF anchor = None THEN through + 1 ELSE Max({anchor.id, through + 1}), HeadId>>

\* A line for every hash of these ids; what it says of the row is left out.
Body == [id \in (FileName[1]..FileName[2]) \cap DOMAIN chain |-> chain[id]]

Named(name) == {f \in files : f.name = name}
SumOf(name) == IF Named(name) = {} THEN None ELSE (CHOOSE f \in Named(name) : TRUE).sum

WriteFile ==
  /\ Sealer("file")
  /\ files' = (files \ Named(FileName)) \cup
              {[name |-> FileName, body |-> Body, sum |-> SumOf(FileName)]}
  /\ Then("sum")
  /\ UNCHANGED <<logVars, chainVars, through, writer, asked, slips, tellVars>>

WriteSum ==
  /\ Sealer("sum")
  /\ files' = {IF f.name = FileName THEN [f EXCEPT !.sum = f.body] ELSE f : f \in files}
  /\ Then("through")
  /\ UNCHANGED <<logVars, chainVars, through, writer, asked, slips, tellVars>>

SetThrough ==
  /\ Sealer("through")
  /\ through' = HeadId
  /\ Then("prune")
  /\ UNCHANGED <<logVars, chainVars, files, writer, asked, slips, tellVars>>

\* The status says the replica failed; the check goes on.
ReplicaFails ==
  /\ sealer.pc \in {"file", "sum", "through"} /\ Happens("disk")
  /\ Then("prune") /\ slips' = slips \cup {"disk"}
  /\ UNCHANGED <<logVars, chainVars, diskVars, writer, asked, meddled>>

\* verify::prune: the anchor moves up to the oldest row of a full log...
Prune ==
  LET oldest == Min(Ids(log))
      moves == /\ anchor # None /\ Len(log) >= Cap /\ oldest > anchor.id
               /\ oldest - 1 \in DOMAIN chain
  IN
  /\ Sealer("prune")
  /\ IF moves THEN anchor' = Link(oldest, chain[oldest - 1]) /\ Then("forget")
              ELSE UNCHANGED anchor /\ Rests
  /\ slips' = slips \cup Blame("race", moves /\ asked.pc \in {"rows", "chain"})
  /\ UNCHANGED <<logVars, chain, head, sealed, diskVars, writer, asked, tellVars>>

ForgetTheOldest ==
  /\ Sealer("forget")
  /\ chain' = [id \in {i \in DOMAIN chain : i > anchor.id} |-> chain[id]]
  /\ Rests
  /\ slips' = slips \cup Blame("race", asked.pc \in {"rows", "chain"})
  /\ UNCHANGED <<logVars, head, anchor, sealed, diskVars, writer, asked, tellVars>>

\* ... and the hashes before it go.
Forget ==
  /\ Sealer("forget")
  /\ chain' = [id \in {i \in DOMAIN chain : i >= anchor.id} |-> chain[id]]
  /\ Rests
  /\ slips' = slips \cup Blame("race", asked.pc \in {"rows", "chain"})
  /\ UNCHANGED <<logVars, head, anchor, sealed, diskVars, writer, asked, tellVars>>

-----------------------------------------------------------------------------
(* The check an admin asks for: maintenance/audit_verify, on another thread *)

\* Nothing sealed yet, nothing to check.  (Two bounds: so many ids are taken by
\* then, and no slip yet, which would explain whatever the check finds.)
Ask ==
  /\ head # None /\ asked.pc \in {"idle", "bad"} /\ Happens("ask")
  /\ counter >= AskFrom /\ slips = {}
  /\ asked' = [NoCheck EXCEPT !.pc = "anchor", !.head = head]
  /\ UNCHANGED <<logVars, chainVars, diskVars, writer, sealer, slips, meddled>>

AskAnchor ==
  /\ asked.pc = "anchor"
  /\ asked' = [asked EXCEPT !.pc = "rows", !.anchor = anchor]
  /\ UNCHANGED <<logVars, chainVars, diskVars, writer, sealer, slips, tellVars>>

AskRows ==
  /\ asked.pc = "rows"
  /\ asked' = [asked EXCEPT !.pc = "chain", !.rows = log]
  /\ slips' = slips \cup Blame("race", HalfWritten)
  /\ UNCHANGED <<logVars, chainVars, diskVars, writer, sealer, tellVars>>

AskChain ==
  /\ asked.pc = "chain"
  /\ asked' = [NoCheck EXCEPT !.pc =
                 IF Verified(asked.head, asked.anchor, asked.rows) THEN "files" ELSE "bad"]
  /\ UNCHANGED <<logVars, chainVars, diskVars, writer, sealer, slips, tellVars>>

AskFiles ==
  /\ asked.pc = "files"
  /\ \E agrees \in Agreements : asked' = [asked EXCEPT !.pc = IF agrees THEN "idle" ELSE "bad"]
  /\ UNCHANGED <<logVars, chainVars, diskVars, writer, sealer, slips, tellVars>>

-----------------------------------------------------------------------------
(* Rows changed by somebody else than the writers, once *)

Meddle(way) ==
  /\ Happens(way) /\ \A w \in Writers : writer[w].pc = "idle"
  /\ meddled = "none" /\ meddled' = way
  /\ UNCHANGED <<counter, anchor, sealed, diskVars, writer, sealer, asked, slips>>

Change ==
  /\ Meddle("change") /\ UNCHANGED <<chain, head>>
  /\ \E k \in DOMAIN log : log' = [log EXCEPT ![k] = Fake(@.id)]

Remove ==
  /\ Meddle("remove") /\ UNCHANGED <<chain, head>>
  /\ \E k \in DOMAIN log : log' = SubSeq(log, 1, k - 1) \o SubSeq(log, k + 1, Len(log))

Insert ==
  /\ Meddle("insert") /\ UNCHANGED <<chain, head>>
  /\ \E id \in 1..HeadId : log' = Append(log, Fake(id))

\* A row changed and every hash from its own on computed anew.
Rewrite ==
  /\ Meddle("rewrite") /\ sealer.pc \in {"idle", "ticked"} /\ head # None
  /\ \E k \in DOMAIN log :
       LET id == log[k].id
           redo(hash) == [i \in DOMAIN hash |-> IF hash[i].id = id THEN Fake(id) ELSE hash[i]]
       IN
       /\ id \in DOMAIN chain /\ id <= HeadId
       /\ log' = [log EXCEPT ![k] = Fake(id)]
       /\ chain' = [i \in DOMAIN chain |-> redo(chain[i])]
       /\ head' = [head EXCEPT !.hash = redo(@)]

-----------------------------------------------------------------------------
WriterSteps(w) == Incr(w) \/ Push(w) \/ Count(w) \/ Keep(w) \/ Drop(w) \/ Fill(w)

TickSteps  == TickStart \/ TickRows \/ SetAnchor \/ Seal \/ SetHead \/ Sleep
DailySteps == Verify \/ WriteFile \/ WriteSum \/ SetThrough \/ ReplicaFails \/ Prune \/ Forget
AskSteps   == Ask \/ AskAnchor \/ AskRows \/ AskChain \/ AskFiles
MeddleSteps == Change \/ Remove \/ Insert \/ Rewrite

Next ==
  \/ \E w \in Writers : WriterSteps(w) \/ StopWriter(w)
  \/ TickSteps \/ DailySteps \/ WaitIsOver \/ StopSealer
  \/ AskSteps \/ MeddleSteps

Spec == Init /\ [][Next]_vars

-----------------------------------------------------------------------------
(* Properties *)

LogOK   == counter \in 0..MaxId /\ log \in Seq(Rows)
ChainOK == IsMap(chain, Hashes) /\ head \in Links /\ anchor \in Links /\ sealed \in Hashes
FileOK(f) == /\ f \in [name : Nat \X Nat, body : {f.body}, sum : {f.sum}]
             /\ IsMap(f.body, Hashes) /\ (f.sum = None \/ IsMap(f.sum, Hashes))
DiskOK  == through \in 0..MaxId /\ \A f \in files : FileOK(f)
WriterOK ==
  /\ writer \in [Writers -> [pc : WriterPcs, id : 0..MaxId, keep : Seq(Rows)]]
  /\ \A w \in Writers : writer[w].pc = "push" => writer[w].id # 0
SealerOK ==
  /\ sealer \in [pc : SealerPcs, waiting : [id : Nat, over : BOOLEAN], counter : 0..MaxId,
                 byId : {sealer.byId}, verdict : {"ok", "bad"}]
  /\ IsMap(sealer.byId, Rows)
AskedOK == asked \in [pc : AskedPcs, head : Links, anchor : Links, rows : Seq(Rows)]
TellOK  == /\ slips \subseteq {"trim", "race", "disk"}
           /\ meddled \in Ways \cup {"none"} /\ events \in 0..MaxEvents

TypeOK == LogOK /\ ChainOK /\ DiskOK /\ WriterOK /\ SealerOK /\ AskedOK /\ TellOK

\* What was sealed for an id stays sealed for it: from the anchor to the head
\* every hash the store keeps is that of all that was sealed up to it.
FirstSealed == sealed[1].id
OldestTrimmed == "trim" \notin slips /\ meddled # "remove"
PastUpTo(id) == SubSeq(sealed, 1, id - FirstSealed + 1)

SealedStays == meddled # "rewrite" /\ head # None =>
  /\ anchor # None /\ HeadHash = sealed /\ HeadId = FirstSealed + Len(sealed) - 1
  /\ OldestTrimmed => anchor.hash = PastUpTo(anchor.id - 1)
  /\ \A id \in anchor.id..HeadId : id \in DOMAIN chain /\ chain[id] = PastUpTo(id)

\* A check that finds the log wrong is right, unless a slip explains it.
AlarmsTrue ==
  sealer.verdict = "bad" \/ asked.pc = "bad" => meddled # "none" \/ slips # {}

\* A check that finds the log right is right: every row the log holds is what
\* was sealed, none is there twice, and none is missing but the oldest of a
\* full log.
CopiedInTime(id) == Copies(id) = {PastUpTo(id)}

Untouched == head # None =>
  /\ \A k \in DOMAIN log : log[k].id <= HeadId /\ (meddled = "rewrite" => CopiedInTime(log[k].id))
                              => \E i \in DOMAIN sealed : sealed[i] = log[k]
  /\ \A j, k \in DOMAIN log : log[j].id = log[k].id => j = k
  /\ \A i \in DOMAIN sealed : sealed[i].says # "gap" /\ sealed[i].id \notin Ids(log) =>
        \/ sealed[i].id < anchor.id
        \/ Len(log) >= Cap /\ sealed[i].id < Min(Ids(log))

ChangesFound == [][Sealer("ticked") /\ sealer'.pc \in {"file", "prune"} => Untouched]_vars

\* The replica has every id from the first sealed to the one it says it goes to,
\* unless a file could not be written.
ReplicaWhole ==
  OldestTrimmed /\ "disk" \notin slips /\ through > 0 => FirstSealed..through \subseteq Copied

\* The newest rows, as many as the log is to keep, do not leave it but in the
\* hand of a writer that puts them back.
NewestKept == [][\A k \in DOMAIN Newest(log, Cap) :
  log[k].id \in Ids(log') \/ \E w \in Writers : log[k].id \in Ids(writer'[w].keep)]_vars
===============================================================================
