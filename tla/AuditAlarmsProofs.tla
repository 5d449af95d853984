--------------------------- MODULE AuditAlarmsProofs ---------------------------
(***************************************************************************)
(* An alarm of the audit log's checks has a cause, for every set of        *)
(* writers, every cap and slack: as long as nobody changes the log and     *)
(* none of the known slips happens, the daily check, and the one an admin  *)
(* asks for while the sealer and the writers go on, find nothing wrong.    *)
(***************************************************************************)
EXTENDS AuditChainProofs, FiniteSetTheorems

-----------------------------------------------------------------------------
(* What holds as long as nothing is amiss *)

\* Nobody changed the log, and no alarm could be blamed on a slip.
Clean == meddled = "none" /\ slips = {}

\* The rows are facts their writers took an id for, each once; a writer that is
\* about to delete the list has its newest rows in hand, and puts back only what
\* is in no list.  Nobody appends in between.
Facts(rows)    == \A k \in DOMAIN rows : rows[k] = Row(rows[k].id)
Counted(rows)  == \A id \in Ids(rows) : id <= counter
Distinct(rows) == \A j, k \in DOMAIN rows : rows[j].id = rows[k].id => j = k
OnTheWay(w)    == writer[w].pc = "push"

LogOwn == Facts(log) /\ Counted(log) /\ Distinct(log)
NewestInHand == \A w \in Writers : writer[w].pc = "drop" =>
  writer[w].keep = Newest(log, Cap) /\ \A v \in Writers : ~Filling(v)
HandsOwn == \A w \in Writers : Filling(w) =>
  LET keep == writer[w].keep
  IN Facts(keep) /\ Counted(keep) /\ Distinct(keep) /\ Ids(keep) \cap Ids(log) = {}
IdsFresh == \A w \in Writers : OnTheWay(w) =>
  /\ writer[w].id <= counter /\ writer[w].id \notin Held
  /\ \A v \in Writers : OnTheWay(v) /\ writer[v].id = writer[w].id => v = w

OwnRows == LogOwn /\ NewestInHand /\ HandsOwn /\ IdsFresh

\* A row sealed for an id is the writer's, and is still there or was the oldest of
\* a full log; where a gap was sealed, no row is.
HeldFull == \/ Len(log) >= Cap
            \/ \E w \in Writers : Filling(w) /\ Len(log) + Len(writer[w].keep) >= Cap
Gone(id) == HeldFull /\ \A held \in Held : id < held
Right(id, row) == \/ row = Row(id) /\ (id \in Held \/ Gone(id))
                  \/ row = Gap(id) /\ id \notin Held

SealedRight == head # None =>
  /\ \A id \in FirstSealed..HeadId : Right(id, sealed[id - FirstSealed + 1])
  /\ \A held \in Held : held >= anchor.id

\* The same of the rows of a seal in progress.
SealRight ==
  /\ sealer.pc \in {"anchor", "seal"} =>
       /\ \A id \in HeadId + 1..sealer.counter :
            /\ id \in DOMAIN sealer.byId => Right(id, sealer.byId[id])
            /\ id \notin DOMAIN sealer.byId /\ (head = None \/ id = sealer.waiting.id) =>
                 id \notin Held
       /\ head = None /\ Start <= sealer.counter => \A held \in Held : held >= Start
  /\ sealer.pc = "head" =>
       /\ \A id \in First..sealer.counter : id > HeadId => Right(id, NewHash[id - First + 1])
       /\ \A held \in Held : held >= anchor.id

\* The files copy what was sealed, and so does what the chain has not forgotten.
TrueCopy(f) ==
  /\ DOMAIN f.body = f.name[1]..f.name[2] /\ f.sum \in {None, f.body}
  /\ \A id \in DOMAIN f.body : id \in FirstSealed..HeadId /\ f.body[id] = PastUpTo(id)

FilesRight ==
  /\ head = None => files = {}
  /\ \A f \in files : TrueCopy(f)
  /\ head # None => \A id \in DOMAIN chain \cap (FirstSealed..HeadId) : chain[id] = PastUpTo(id)

\* Rows that agree with what was sealed up to an id.
Agree(last, rows) ==
  /\ Facts(rows) /\ Distinct(rows)
  /\ \A id \in Ids(rows) : id >= anchor.id
  /\ \E id \in Ids(rows) : id <= last + 1
  /\ \A id \in FirstSealed..last :
       LET row == sealed[id - FirstSealed + 1] IN
       \/ row = Row(id) /\ (id \in Ids(rows) \/ (Len(rows) >= Cap /\ \A h \in Ids(rows) : id < h))
       \/ row = Gap(id) /\ id \notin Ids(rows)

\* What an admin's check has read is what was there.
AskRight ==
  /\ asked.head # None <=> asked.pc \in {"anchor", "rows", "chain"}
  /\ asked.head # None =>
       /\ FirstSealed <= asked.head.id /\ asked.head.hash = PastUpTo(asked.head.id)
       /\ anchor.id <= asked.head.id + 1
       /\ \E held \in Held : held <= asked.head.id + 1
  /\ asked.pc \in {"rows", "chain"} => asked.anchor = anchor
  /\ asked.pc = "chain" => Agree(asked.head.id, asked.rows)

NoAlarm == sealer.verdict = "ok" /\ asked.pc # "bad"

AllRight == Clean =>
  OwnRows /\ SealedRight /\ SealRight /\ FilesRight /\ AskRight /\ NoAlarm

-----------------------------------------------------------------------------
(* Steps without a slip *)

LEMMA CleanBefore ==
  ASSUME TypeOK, Next, Clean'
  PROVE  Clean /\ ~MeddleSteps
<1>1. ~MeddleSteps
  BY DEF Clean, MeddleSteps, Change, Remove, Insert, Rewrite, Meddle
<1>2. ASSUME NEW w \in Writers, WriterMoves(w) PROVE Clean
  BY <1>2, WriterMovesAs DEF Clean
<1>3. CASE TickSteps \/ DailySteps \/ WaitIsOver \/ StopSealer \/ AskSteps
  <2>1. meddled' = meddled /\ slips \subseteq slips'
    BY <1>3, OthersMoveAs
  <2> QED
    BY <1>1, <2>1 DEF Clean
<1> QED
  BY <1>1, <1>2, <1>3 DEF Next, WriterMoves

LEMMA HeldIds ==
  ASSUME TypeOK
  PROVE  /\ Held \subseteq 1..MaxId /\ Ids(log) \subseteq Held
         /\ \A w \in Writers : /\ Ids(writer[w].keep) \subseteq 1..MaxId
                               /\ Filling(w) => Ids(writer[w].keep) \subseteq Held
<1>1. Ids(log) \subseteq 1..MaxId
  BY IdsOf DEF TypeOK, LogOK
<1>2. \A w \in Writers : Ids(writer[w].keep) \subseteq 1..MaxId
  BY WriterParts, IdsOf DEF TypeOK
<1> QED
  BY <1>1, <1>2 DEF Held, InHand

\* Rows that are cut, or to which one is added, are each there once still.
LEMMA NewestOf ==
  ASSUME NEW rows \in Seq(Rows), NEW n \in Int
  PROVE  /\ \A k \in DOMAIN Newest(rows, n) : k \in DOMAIN rows /\ Newest(rows, n)[k] = rows[k]
         /\ \A k \in DOMAIN rows : k <= n => k \in DOMAIN Newest(rows, n)
         /\ n \in Nat => Len(Newest(rows, n)) = n \/ Newest(rows, n) = rows
<1> DEFINE m == Min({n, Len(rows)})
<1>0. Len(rows) \in Nat /\ Len(rows) \in Int /\ DOMAIN rows = 1..Len(rows)
  OBVIOUS
<1>a. m \in {n, Len(rows)} /\ m <= n /\ m <= Len(rows)
  BY <1>0, OfTwo, Zenon
<1>1. m \in Int /\ m <= n /\ m <= Len(rows)
  BY <1>0, <1>a
<1>b. m = n \/ m = Len(rows)
  BY <1>a
<1> HIDE DEF m
<1>c. SubSeq(rows, 1, m) \in Seq(Rows)
  BY <1>0, <1>1
<1>2. Newest(rows, n) = SubSeq(rows, 1, m)
  BY DEF Newest, m
<1>3. /\ Len(SubSeq(rows, 1, m)) = IF m < 1 THEN 0 ELSE m
      /\ DOMAIN SubSeq(rows, 1, m) = 1..Len(SubSeq(rows, 1, m))
      /\ \A k \in 1..Len(SubSeq(rows, 1, m)) : SubSeq(rows, 1, m)[k] = rows[k]
  BY <1>0, <1>1
<1>4. \A k \in DOMAIN Newest(rows, n) : k \in DOMAIN rows /\ Newest(rows, n)[k] = rows[k]
  BY <1>0, <1>1, <1>2, <1>3
<1>5. ASSUME NEW k \in DOMAIN rows, k <= n PROVE k \in DOMAIN Newest(rows, n)
  <2>1. k \in Nat /\ k >= 1 /\ k <= m
    BY <1>0, <1>b, <1>5
  <2>2. Len(SubSeq(rows, 1, m)) = m
    BY <1>1, <1>3, <2>1
  <2> QED
    BY <1>1, <1>2, <1>3, <2>1, <2>2
<1>6. ASSUME n \in Nat PROVE Len(Newest(rows, n)) = n \/ Newest(rows, n) = rows
  <2>1. CASE m = n
    BY <1>2, <1>3, <1>6, <2>1
  <2>2. CASE m = Len(rows)
    <3>1. SubSeq(rows, 1, Len(rows)) = rows
      BY <1>0, Beginning
    <3> QED
      BY <1>2, <2>2, <3>1
  <2> QED
    BY <1>b, <2>1, <2>2
<1> QED
  BY <1>4, <1>5, <1>6

LEMMA NewestGood ==
  ASSUME NEW rows \in Seq(Rows), NEW n \in Int, Facts(rows), Distinct(rows)
  PROVE  Facts(Newest(rows, n)) /\ Distinct(Newest(rows, n))
<1> DEFINE new == Newest(rows, n)
<1>1. \A k \in DOMAIN new : k \in DOMAIN rows /\ new[k] = rows[k]
  BY NewestOf
<1> HIDE DEF new
<1>2. Facts(new) /\ Distinct(new)
  BY <1>1 DEF Facts, Distinct
<1> QED
  BY <1>2 DEF new

LEMMA RowAdded ==
  ASSUME NEW rows \in Seq(Rows), NEW row \in Rows, Facts(rows), Distinct(rows),
         row = Row(row.id), row.id \notin Ids(rows)
  PROVE  Facts(<<row>> \o rows) /\ Distinct(<<row>> \o rows)
<1> DEFINE new == <<row>> \o rows
<1>1. /\ Len(rows) \in Nat /\ DOMAIN rows = 1..Len(rows) /\ DOMAIN new = 1..Len(rows) + 1
      /\ \A k \in 1..Len(rows) + 1 : new[k] = IF k = 1 THEN row ELSE rows[k - 1]
  OBVIOUS
<1> HIDE DEF new
<1>2. \A k \in DOMAIN new : \/ k = 1 /\ new[k] = row
                            \/ k # 1 /\ k - 1 \in DOMAIN rows /\ new[k] = rows[k - 1]
  BY <1>1
<1>3. Facts(new)
  BY <1>2 DEF Facts
<1>4. ASSUME NEW j \in DOMAIN new, NEW k \in DOMAIN new, new[j].id = new[k].id PROVE j = k
  <2>1. \A i \in DOMAIN new : i # 1 => new[i].id \in Ids(rows)
    BY <1>2 DEF Ids
  <2>2. j = 1 <=> k = 1
    BY <1>2, <1>4, <2>1
  <2>3. CASE j # 1 /\ k # 1
    <3>1. j - 1 = k - 1
      BY <1>2, <1>4, <2>3 DEF Distinct
    <3> QED
      BY <1>1, <3>1
  <2> QED
    BY <2>2, <2>3
<1>5. Distinct(new)
  BY <1>4 DEF Distinct
<1> QED
  BY <1>3, <1>5 DEF new

LEMMA RowTaken ==
  ASSUME NEW rows \in Seq(Rows), rows # <<>>, Facts(rows), Distinct(rows)
  PROVE  LET rest == SubSeq(rows, 1, Len(rows) - 1) IN
         /\ Facts(rest) /\ Distinct(rest)
         /\ rows[Len(rows)] = Row(rows[Len(rows)].id) /\ rows[Len(rows)].id \notin Ids(rest)
<1> DEFINE n    == Len(rows) - 1
           rest == SubSeq(rows, 1, n)
<1>1. n \in Nat /\ n <= Len(rows) /\ n + 1 = Len(rows) /\ DOMAIN rows = 1..Len(rows)
  OBVIOUS
<1> HIDE DEF n
<1>2. DOMAIN rest = 1..n /\ \A k \in 1..n : rest[k] = rows[k]
  BY <1>1
<1> HIDE DEF rest
<1>3. \A k \in DOMAIN rest : k \in DOMAIN rows /\ k # Len(rows) /\ rest[k] = rows[k]
  BY <1>1, <1>2
<1>4. Len(rows) \in DOMAIN rows
  BY <1>1
<1>5. Facts(rest) /\ Distinct(rest)
  BY <1>3 DEF Facts, Distinct
<1>6. rows[Len(rows)] = Row(rows[Len(rows)].id)
  BY <1>4 DEF Facts
<1>7. rows[Len(rows)].id \notin Ids(rest)
  BY <1>3, <1>4 DEF Distinct, Ids
<1> QED
  BY <1>5, <1>6, <1>7 DEF rest, n

-----------------------------------------------------------------------------
(* What the writers' steps do to the rows held *)

\* A step that is about nobody's rows to put back.
LEMMA HandsAlone ==
  ASSUME NEW w \in Writers, \A v \in Writers \ {w} : writer'[v] = writer[v],
         ~Filling(w), ~Filling(w)'
  PROVE  /\ InHand' = InHand
         /\ \A v \in Writers : Filling(v)' <=> Filling(v)
         /\ \A v \in Writers : Filling(v) => writer'[v].keep = writer[v].keep
<1>1. \A v \in Writers : Filling(v)' <=> Filling(v)
  BY DEF Filling
<1>2. \A v \in Writers : Filling(v) => writer'[v].keep = writer[v].keep
  OBVIOUS
<1>3. InHand' = InHand
  <2>1. \A id : id \in InHand <=> \E v \in Writers : Filling(v) /\ id \in Ids(writer[v].keep)
    BY DEF InHand
  <2>2. \A id : id \in InHand' <=> \E v \in Writers : Filling(v)' /\ id \in Ids(writer'[v].keep)
    BY DEF InHand, Filling
  <2> QED
    BY <1>1, <1>2, <2>1, <2>2
<1> QED
  BY <1>1, <1>2, <1>3

\* The steps that neither append nor delete.
LEMMA QuietSteps ==
  ASSUME TypeOK, OwnRows, Clean', NEW w \in Writers,
         Incr(w) \/ Count(w) \/ Keep(w) \/ StopWriter(w)
  PROVE  Held' = Held /\ (HeldFull => HeldFull') /\ OwnRows'
<1>0. /\ \A v \in Writers \ {w} : writer'[v] = writer[v]
      /\ WriterOK /\ counter \in Nat
  <2>1. WriterMoves(w)
    BY DEF WriterMoves, WriterSteps
  <2> QED
    BY <2>1, WriterMovesAs, Bounds DEF TypeOK, LogOK
<1>1. log' = log /\ ~Filling(w) /\ ~Filling(w)'
  <2>1. StopWriter(w) => writer[w].pc # "fill"
    BY DEF StopWriter, Blame, Clean
  <2> QED
    BY <1>0, <2>1, WriterNext DEF Filling
<1>2. /\ InHand' = InHand
      /\ \A v \in Writers : Filling(v)' <=> Filling(v)
      /\ \A v \in Writers : Filling(v) => writer'[v].keep = writer[v].keep
  BY <1>0, <1>1, HandsAlone
<1>3. Held' = Held
  BY <1>1, <1>2 DEF Held
<1>4. HeldFull => HeldFull'
  BY <1>1, <1>2 DEF HeldFull, Filling
<1>5. counter' = counter \/ (Incr(w) /\ counter' = counter + 1)
  BY DEF Incr, Count, Keep, StopWriter, logVars
<1>6. LogOwn'
  <2>1. Ids(log) \subseteq Nat
    BY HeldIds, Bounds
  <2> QED
    BY <1>0, <1>1, <1>5, <2>1 DEF OwnRows, LogOwn, Facts, Counted, Distinct
<1>7. NewestInHand'
  <2> SUFFICES ASSUME NEW v \in Writers, writer'[v].pc = "drop"
               PROVE  writer'[v].keep = Newest(log, Cap) /\ \A u \in Writers : ~Filling(u)
    BY <1>1, <1>2 DEF NewestInHand
  <2>1. CASE v # w
    BY <1>0, <2>1 DEF OwnRows, NewestInHand
  <2>2. CASE v = w
    <3>1. Keep(w) /\ writer'[w].keep = Newest(log, Cap)
      BY <1>0, <2>2, WriterNext
    <3>2. ~HalfWritten
      BY <3>1 DEF Keep, Blame, Clean
    <3> QED
      BY <2>2, <3>1, <3>2 DEF HalfWritten, Filling
  <2> QED
    BY <2>1, <2>2
<1>8. HandsOwn'
  <2> SUFFICES ASSUME NEW v \in Writers, Filling(v)'
               PROVE  LET keep == writer'[v].keep
                      IN /\ Facts(keep) /\ Distinct(keep) /\ Ids(keep) \cap Ids(log) = {}
                         /\ \A id \in Ids(keep) : id <= counter'
    BY <1>1 DEF HandsOwn, Facts, Distinct, Counted
  <2> DEFINE keep == writer[v].keep
  <2>1. /\ Filling(v) /\ writer'[v].keep = keep
        /\ Facts(keep) /\ Counted(keep) /\ Distinct(keep) /\ Ids(keep) \cap Ids(log) = {}
    BY <1>2 DEF OwnRows, HandsOwn
  <2>2. Ids(keep) \subseteq Nat
    BY HeldIds, Bounds
  <2> HIDE DEF keep
  <2>3. \A id \in Ids(keep) : id <= counter'
    BY <1>0, <1>5, <2>1, <2>2 DEF Counted
  <2> QED
    BY <2>1, <2>3 DEF Counted
<1>9. IdsFresh'
  <2>0. /\ \A v \in Writers : writer[v].id \in Nat
        /\ \A v \in Writers : OnTheWay(v) =>
             /\ writer[v].id <= counter /\ writer[v].id \notin Held
             /\ \A u \in Writers : OnTheWay(u) /\ writer[u].id = writer[v].id => u = v
    BY <1>0, WriterParts, Bounds DEF OwnRows, IdsFresh
  <2>1. CASE Incr(w)
    <3>1. writer'[w].id = counter + 1 /\ writer'[w].pc = "push" /\ counter' = counter + 1
      BY <1>0, <2>1 DEF Incr, WriterOK
    <3>2. counter + 1 \notin Held
      <4>1. \A id \in Held : id <= counter
        BY InHandOf DEF Held, OwnRows, LogOwn, HandsOwn, Counted
      <4> QED
        BY <1>0, <4>1
    <3>3. \A v \in Writers \ {w} : OnTheWay(v)' => OnTheWay(v) /\ writer'[v].id = writer[v].id
      BY <1>0 DEF OnTheWay
    <3>4. \A v \in Writers \ {w} : OnTheWay(v)' => writer'[v].id <= counter /\ writer'[v].id \in Nat
      BY <2>0, <3>3
    <3> SUFFICES ASSUME NEW v \in Writers, OnTheWay(v)'
                 PROVE  /\ writer'[v].id <= counter' /\ writer'[v].id \notin Held
                        /\ \A u \in Writers : OnTheWay(u)' /\ writer'[u].id = writer'[v].id => u = v
      BY <1>3 DEF IdsFresh, OnTheWay
    <3>5. CASE v = w
      BY <1>0, <3>1, <3>2, <3>4, <3>5
    <3>6. CASE v # w
      <4>1. writer'[v].id <= counter /\ writer'[v].id \in Nat /\ writer'[v].id \notin Held
        BY <2>0, <3>3, <3>4, <3>6
      <4>2. ASSUME NEW u \in Writers, OnTheWay(u)', writer'[u].id = writer'[v].id PROVE u = v
        <5>1. u # w
          BY <1>0, <3>1, <4>1, <4>2
        <5> QED
          BY <2>0, <3>3, <3>6, <4>2, <5>1
      <4> QED
        BY <1>0, <3>1, <4>1, <4>2
    <3> QED
      BY <3>5, <3>6
  <2>2. CASE ~Incr(w)
    <3>1. counter' = counter
      BY <1>5, <2>2
    <3>2. ~OnTheWay(w)'
      BY <1>0, <2>2, WriterNext DEF OnTheWay
    <3>3. \A v \in Writers : OnTheWay(v)' => OnTheWay(v) /\ writer'[v].id = writer[v].id
      BY <1>0, <3>2 DEF OnTheWay
    <3> QED
      BY <1>3, <2>0, <3>1, <3>3 DEF IdsFresh, OnTheWay
  <2> QED
    BY <2>1, <2>2
<1> QED
  BY <1>3, <1>4, <1>6, <1>7, <1>8, <1>9 DEF OwnRows

LEMMA PushStep ==
  ASSUME TypeOK, OwnRows, Clean', NEW w \in Writers, Push(w)
  PROVE  /\ Held' = Held \cup {writer[w].id} /\ writer[w].id > SealedTo
         /\ (HeldFull => HeldFull') /\ OwnRows'
<1> DEFINE id == writer[w].id
<1>0. /\ \A v \in Writers \ {w} : writer'[v] = writer[v]
      /\ counter' = counter /\ log \in Seq(Rows) /\ WriterOK /\ SealedTo \in Nat
  <2>1. WriterMoves(w)
    BY DEF WriterMoves, WriterSteps
  <2>2. SealedTo \in Nat
    BY SealerParts, HeadParts, Bounds DEF TypeOK, SealedTo
  <2> QED
    BY <2>1, <2>2, WriterMovesAs DEF Push, TypeOK, LogOK
<1>1. /\ log' = <<Row(id)>> \o log /\ OnTheWay(w) /\ writer'[w].pc = "count"
      /\ ~OthersRewrite(w) /\ ~(id <= SealedTo)
  <2>1. log' = <<Row(id)>> \o log /\ OnTheWay(w)
    BY DEF Push, OnTheWay
  <2>2. ~OthersRewrite(w) /\ ~(Row(id).id <= SealedTo)
    BY DEF Push, Blame, Clean
  <2> QED
    BY <1>0, <2>1, <2>2, WriterNext DEF Row
<1>2. id \in 1..MaxId /\ id > SealedTo /\ id <= counter /\ id \notin Held
  <2>1. id \in 0..MaxId /\ id # 0
    BY <1>0, <1>1, WriterParts DEF WriterOK, OnTheWay
  <2> QED
    BY <1>0, <1>1, <2>1, Bounds DEF OwnRows, IdsFresh
<1>3. (\A v \in Writers : ~Filling(v)) /\ \A v \in Writers : ~Rewriting(v)'
  BY <1>0, <1>1 DEF OthersRewrite, Rewriting, Filling, OnTheWay
<1>4. InHand = {} /\ InHand' = {}
  <2>1. \A v \in Writers : ~Filling(v)'
    BY <1>3 DEF Rewriting, Filling
  <2> QED
    BY <1>3, <2>1 DEF InHand, Filling
<1>5. Row(id) \in Rows /\ Row(id).id = id /\ Row(id) = Row(Row(id).id)
  BY <1>2 DEF Row, Rows
<1>6. Ids(log') = {id} \cup Ids(log) /\ Len(log') = Len(log) + 1
  BY <1>0, <1>1, <1>5, RowsAround
<1>7. Held' = Held \cup {id}
  BY <1>4, <1>6 DEF Held
<1>8. HeldFull => HeldFull'
  <2>1. HeldFull => Len(log) >= Cap
    BY <1>3 DEF HeldFull
  <2>2. HeldFull => Len(log') >= Cap
    <3>1. Len(log) \in Nat
      BY <1>0
    <3> QED
      BY <1>6, <2>1, <3>1, Bounds
  <2> QED
    BY <2>2 DEF HeldFull
<1>9. LogOwn'
  <2>1. Facts(log) /\ Distinct(log) /\ id \notin Ids(log)
    BY <1>2 DEF OwnRows, LogOwn, Held
  <2>2. Facts(<<Row(id)>> \o log) /\ Distinct(<<Row(id)>> \o log)
    BY <1>0, <1>5, <2>1, RowAdded
  <2>3. \A i \in Ids(log') : i <= counter
    BY <1>2, <1>6 DEF OwnRows, LogOwn, Counted
  <2> QED
    BY <1>0, <1>1, <2>2, <2>3 DEF LogOwn, Facts, Distinct, Counted
<1>10. NewestInHand' /\ HandsOwn'
  BY <1>3 DEF NewestInHand, HandsOwn, Rewriting, Filling
<1>11. IdsFresh'
  <2>1. \A v \in Writers : OnTheWay(v)' => v # w /\ OnTheWay(v) /\ writer'[v].id = writer[v].id
    BY <1>0, <1>1 DEF OnTheWay
  <2>2. \A v \in Writers : OnTheWay(v)' => writer[v].id # id
    BY <1>1, <2>1 DEF OwnRows, IdsFresh
  <2> QED
    BY <1>0, <1>7, <2>1, <2>2 DEF OwnRows, IdsFresh, OnTheWay
<1> QED
  BY <1>2, <1>7, <1>8, <1>9, <1>10, <1>11 DEF OwnRows

LEMMA DropStep ==
  ASSUME TypeOK, OwnRows, Clean', NEW w \in Writers, Drop(w)
  PROVE  /\ Held' = Ids(writer[w].keep) /\ Held' \subseteq Held
         /\ \A id \in Held \ Held' : HeldFull' /\ \A held \in Held' : id < held
         /\ (HeldFull => HeldFull') /\ OwnRows'
<1> DEFINE keep == writer[w].keep
<1>0. /\ \A v \in Writers \ {w} : writer'[v] = writer[v]
      /\ counter' = counter /\ log \in Seq(Rows) /\ WriterOK /\ keep \in Seq(Rows)
  <2>1. WriterMoves(w)
    BY DEF WriterMoves, WriterSteps
  <2> QED
    BY <2>1, WriterMovesAs, WriterParts DEF Drop, TypeOK, LogOK
<1>1. /\ writer[w].pc = "drop" /\ log' = <<>>
      /\ IF keep = <<>> THEN writer'[w].pc = "idle"
         ELSE writer'[w].pc = "fill" /\ writer'[w].keep = keep
      /\ ~OthersRewrite(w)
      /\ \A id \in Ids(log) \ Ids(keep) : \A kept \in Ids(keep) : ~(id > kept)
  BY <1>0, WriterNext DEF Drop, Blame, Clean
<1>2. keep = Newest(log, Cap) /\ \A v \in Writers : ~Filling(v)
  BY <1>1 DEF OwnRows, NewestInHand
<1> HIDE DEF keep
<1>3. \A v \in Writers \ {w} : ~Rewriting(v)'
  BY <1>0, <1>1 DEF OthersRewrite, Rewriting
<1>4. Len(keep) = Cap \/ keep = log
  BY <1>0, <1>2, NewestOf, Bounds
<1>5. Held = Ids(log)
  BY <1>2 DEF Held, InHand
<1>6. Ids(log') = {} /\ Ids(<<>>) = {} /\ Len(log') = 0
  BY <1>1 DEF Ids
<1>7. Held' = Ids(keep)
  <2>1. CASE keep = <<>>
    <3>1. \A v \in Writers : ~Filling(v)'
      BY <1>1, <1>3, <2>1 DEF Filling, Rewriting
    <3>2. InHand' = {}
      BY <3>1 DEF InHand, Filling
    <3> QED
      BY <1>6, <2>1, <3>2 DEF Held
  <2>2. CASE keep # <<>>
    <3>1. Filling(w)' /\ writer'[w].keep = keep /\ \A v \in Writers \ {w} : ~Filling(v)'
      BY <1>1, <1>3, <2>2 DEF Filling, Rewriting
    <3>2. InHand' = Ids(keep)
      BY <3>1 DEF InHand, Filling
    <3> QED
      BY <1>6, <3>2 DEF Held
  <2> QED
    BY <2>1, <2>2
<1>8. Ids(keep) \subseteq Ids(log)
  BY <1>0, <1>2, NewestOf, Bounds DEF Ids
<1>9. Ids(log) \subseteq Nat /\ Ids(keep) \subseteq Nat
  BY <1>8, HeldIds, Bounds
<1>10. Len(keep) >= Cap => HeldFull'
  <2> SUFFICES ASSUME Len(keep) >= Cap PROVE HeldFull'
    OBVIOUS
  <2>1. keep # <<>> /\ Len(keep) \in Nat
    BY <1>0, Bounds
  <2>2. Filling(w)' /\ writer'[w].keep = keep
    BY <1>1, <2>1 DEF Filling
  <2>3. Len(log') + Len(keep) >= Cap
    BY <1>6, <2>1
  <2> QED
    BY <2>2, <2>3 DEF HeldFull, Filling
<1>11. HeldFull => HeldFull'
  <2>1. HeldFull => Len(log) >= Cap
    BY <1>2 DEF HeldFull
  <2> QED
    BY <1>4, <1>10, <2>1, Bounds
<1>12. ASSUME NEW id \in Held \ Held' PROVE HeldFull' /\ \A held \in Held' : id < held
  <2>1. id \in Ids(log) \ Ids(keep)
    BY <1>5, <1>7, <1>12
  <2>2. Len(keep) >= Cap
    BY <1>4, <2>1, Bounds
  <2>3. \A held \in Ids(keep) : id # held /\ ~(id > held)
    BY <1>1, <2>1 DEF keep
  <2>4. \A held \in Ids(keep) : id < held
    BY <1>9, <2>1, <2>3
  <2> QED
    BY <1>7, <1>10, <2>2, <2>4
<1>13. LogOwn'
  BY <1>6, <1>1 DEF LogOwn, Facts, Distinct, Counted
<1>14. NewestInHand'
  BY <1>1, <1>3 DEF NewestInHand, Rewriting
<1>15. HandsOwn'
  <2> SUFFICES ASSUME NEW v \in Writers, Filling(v)'
               PROVE  LET rows == writer'[v].keep
                      IN /\ Facts(rows) /\ Distinct(rows) /\ Ids(rows) \cap Ids(log') = {}
                         /\ \A id \in Ids(rows) : id <= counter'
    BY DEF HandsOwn, Facts, Distinct, Counted
  <2>1. v = w /\ writer'[v].keep = keep
    BY <1>1, <1>3 DEF Filling, Rewriting
  <2>2. Facts(keep) /\ Distinct(keep)
    BY <1>0, <1>2, NewestGood, Bounds DEF OwnRows, LogOwn
  <2>3. \A id \in Ids(keep) : id <= counter
    BY <1>8 DEF OwnRows, LogOwn, Counted
  <2> QED
    BY <1>0, <1>6, <2>1, <2>2, <2>3 DEF Counted
<1>16. IdsFresh'
  <2>1. \A v \in Writers : OnTheWay(v)' => OnTheWay(v) /\ writer'[v].id = writer[v].id
    BY <1>0, <1>1 DEF OnTheWay
  <2> QED
    BY <1>0, <1>5, <1>7, <1>8, <2>1 DEF OwnRows, IdsFresh, OnTheWay
<1> QED
  BY <1>5, <1>7, <1>8, <1>11, <1>12, <1>13, <1>14, <1>15, <1>16 DEF OwnRows, keep

LEMMA FillStep ==
  ASSUME TypeOK, Trimming, OneFills, OwnRows, NEW w \in Writers, Fill(w)
  PROVE  Held' = Held /\ (HeldFull => HeldFull') /\ OwnRows'
<1> DEFINE keep == writer[w].keep
           rest == SubSeq(keep, 1, Len(keep) - 1)
           row  == keep[Len(keep)]
<1>0. /\ \A v \in Writers \ {w} : writer'[v] = writer[v]
      /\ counter' = counter /\ WriterOK
  <2>1. WriterMoves(w)
    BY DEF WriterMoves, WriterSteps
  <2> QED
    BY <2>1, WriterMovesAs DEF Fill, TypeOK
<1>1. /\ Filling(w) /\ keep # <<>> /\ keep \in Seq(Rows) /\ rest \in Seq(Rows)
      /\ row \in Rows /\ log \in Seq(Rows)
      /\ Len(rest) = Len(keep) - 1 /\ Ids(keep) = {row.id} \cup Ids(rest)
      /\ log' = <<row>> \o log
      /\ Ids(log') = {row.id} \cup Ids(log) /\ Len(log') = Len(log) + 1
      /\ \/ rest = <<>> /\ writer'[w] = AtRest
         \/ rest # <<>> /\ writer'[w].pc = "fill" /\ writer'[w].keep = rest
  BY FillAs
<1>2. /\ Facts(keep) /\ Distinct(keep) /\ Counted(keep) /\ Ids(keep) \cap Ids(log) = {}
      /\ Facts(log) /\ Distinct(log) /\ Counted(log)
  BY <1>1 DEF OwnRows, HandsOwn, LogOwn
<1>3. Facts(rest) /\ Distinct(rest) /\ row = Row(row.id) /\ row.id \notin Ids(rest)
  BY <1>1, <1>2, RowTaken
<1> HIDE DEF keep, rest, row
<1>4. \A v \in Writers \ {w} : ~Rewriting(v) /\ ~Rewriting(v)'
  BY <1>0, <1>1 DEF OneFills, OthersRewrite, Rewriting
<1>5. InHand = Ids(keep) /\ InHand' = Ids(rest)
  <2>1. InHand = Ids(keep)
    BY <1>1, <1>4 DEF InHand, Filling, Rewriting, keep
  <2>2. CASE rest = <<>>
    <3>1. \A v \in Writers : ~Filling(v)'
      BY <1>1, <1>4, <2>2 DEF Filling, Rewriting, AtRest
    <3>2. InHand' = {}
      BY <3>1 DEF InHand, Filling
    <3>3. Ids(rest) = {}
      BY <2>2 DEF Ids
    <3> QED
      BY <2>1, <3>2, <3>3
  <2>3. CASE rest # <<>>
    <3>1. Filling(w)' /\ writer'[w].keep = rest /\ \A v \in Writers \ {w} : ~Filling(v)'
      BY <1>1, <1>4, <2>3 DEF Filling, Rewriting
    <3> QED
      BY <2>1, <3>1 DEF InHand, Filling
  <2> QED
    BY <2>2, <2>3
<1>6. Held' = Held
  BY <1>1, <1>5 DEF Held
<1>7. HeldFull => HeldFull'
  <2>0. Len(log) \in Nat /\ Len(keep) \in Nat /\ (rest = <<>> => Len(rest) = 0)
    <3>1. rest = <<>> => Len(rest) = 0
      OBVIOUS
    <3> QED
      BY <1>1, <3>1
  <2>1. HeldFull => Len(log) >= Cap \/ Len(log) + Len(keep) >= Cap
    BY <1>4 DEF HeldFull, Filling, Rewriting, keep
  <2>2. HeldFull => Len(log') + Len(rest) >= Cap
    BY <1>1, <2>0, <2>1, Bounds
  <2>3. CASE rest = <<>>
    <3>1. HeldFull => Len(log') >= Cap
      <4>1. Len(log') \in Nat /\ Len(rest) = 0
        BY <1>1, <2>0, <2>3
      <4> QED
        BY <2>2, <4>1, Bounds
    <3> QED
      BY <3>1 DEF HeldFull
  <2>4. CASE rest # <<>>
    <3>1. Filling(w)' /\ writer'[w].keep = rest
      BY <1>1, <2>4 DEF Filling
    <3> QED
      BY <2>2, <3>1 DEF HeldFull, Filling
  <2> QED
    BY <2>3, <2>4
<1>8. LogOwn'
  <2>1. row.id \notin Ids(log) /\ row.id <= counter
    BY <1>1, <1>2 DEF Counted
  <2>2. Facts(<<row>> \o log) /\ Distinct(<<row>> \o log)
    BY <1>1, <1>2, <1>3, <2>1, RowAdded
  <2>3. \A i \in Ids(log') : i <= counter
    BY <1>1, <1>2, <2>1 DEF Counted
  <2> QED
    BY <1>0, <1>1, <2>2, <2>3 DEF LogOwn, Facts, Distinct, Counted
<1>9. NewestInHand'
  BY <1>1, <1>4 DEF NewestInHand, Rewriting, AtRest
<1>10. HandsOwn'
  <2> SUFFICES ASSUME NEW v \in Writers, Filling(v)'
               PROVE  LET rows == writer'[v].keep
                      IN /\ Facts(rows) /\ Distinct(rows) /\ Ids(rows) \cap Ids(log') = {}
                         /\ \A id \in Ids(rows) : id <= counter'
    BY DEF HandsOwn, Facts, Distinct, Counted
  <2>1. v = w /\ writer'[v].keep = rest
    BY <1>1, <1>4 DEF Filling, Rewriting, AtRest
  <2>2. Ids(rest) \cap Ids(log') = {}
    BY <1>1, <1>2, <1>3
  <2>3. \A id \in Ids(rest) : id <= counter
    BY <1>1, <1>2 DEF Counted
  <2> QED
    BY <1>0, <1>3, <2>1, <2>2, <2>3 DEF Counted
<1>11. IdsFresh'
  <2>1. \A v \in Writers : OnTheWay(v)' => OnTheWay(v) /\ writer'[v].id = writer[v].id
    BY <1>0, <1>1 DEF OnTheWay, AtRest
  <2> QED
    BY <1>0, <1>6, <2>1 DEF OwnRows, IdsFresh, OnTheWay
<1> QED
  BY <1>6, <1>7, <1>8, <1>9, <1>10, <1>11 DEF OwnRows

\* What a writer's step does to the rows held: those it adds are newer than what
\* is sealed, and those it drops were the oldest of a full log.
Keeps ==
  /\ HeldFull => HeldFull'
  /\ \A id \in Held' \ Held : id > SealedTo
  /\ \A id \in Held \ Held' : HeldFull' /\ \A held \in Held' : id < held

LEMMA WritersKeep ==
  ASSUME TypeOK, Trimming, OneFills, OwnRows, Clean', NEW w \in Writers, WriterMoves(w)
  PROVE  Keeps /\ OwnRows'
<1>1. CASE Incr(w) \/ Count(w) \/ Keep(w) \/ StopWriter(w)
  BY <1>1, QuietSteps DEF Keeps
<1>2. CASE Push(w)
  BY <1>2, PushStep DEF Keeps
<1>3. CASE Drop(w)
  BY <1>3, DropStep DEF Keeps
<1>4. CASE Fill(w)
  BY <1>4, FillStep DEF Keeps
<1> QED
  BY <1>1, <1>2, <1>3, <1>4 DEF WriterMoves, WriterSteps

-----------------------------------------------------------------------------
(* What was sealed stays right, whoever appends or trims *)

LEMMA NextHeldIds ==
  ASSUME TypeOK'
  PROVE  Held' \subseteq 1..MaxId
<1>1. Ids(log') \subseteq 1..MaxId
  <2>1. log' \in Seq(Rows)
    BY DEF TypeOK, LogOK
  <2> QED
    BY <2>1, IdsOf
<1>2. \A w \in Writers : Ids(writer'[w].keep) \subseteq 1..MaxId
  <2>1. \A w \in Writers : writer'[w].keep \in Seq(Rows)
    BY DEF TypeOK, WriterOK
  <2> QED
    BY <2>1, IdsOf
<1> QED
  BY <1>1, <1>2 DEF Held, InHand

\* A row is right after the step.
RightThen(id, row) ==
  \/ row = Row(id) /\ (id \in Held' \/ (HeldFull' /\ \A held \in Held' : id < held))
  \/ row = Gap(id) /\ id \notin Held'

LEMMA RightStays ==
  ASSUME TypeOK, TypeOK', Keeps, NEW id \in Int, id <= SealedTo, NEW row, Right(id, row)
  PROVE  RightThen(id, row)
<1>0. SealedTo \in Nat /\ \A held \in Held' : held \in Nat
  <2>1. SealedTo \in Nat
    BY SealerParts, HeadParts, Bounds DEF TypeOK, SealedTo
  <2> QED
    BY <2>1, NextHeldIds, Bounds
<1>1. CASE row = Row(id) /\ id \in Held
  BY <1>1 DEF RightThen, Keeps
<1>2. CASE row = Row(id) /\ Gone(id)
  <2>1. \A held \in Held' : id < held
    BY <1>0, <1>2 DEF Gone, Keeps
  <2> QED
    BY <1>2, <2>1 DEF Gone, Keeps, RightThen
<1>3. CASE row = Gap(id) /\ id \notin Held
  <2>1. id \notin Held'
    BY <1>0, <1>3 DEF Keeps
  <2> QED
    BY <1>3, <2>1 DEF RightThen
<1> QED
  BY <1>1, <1>2, <1>3 DEF Right

LEMMA SealedBelow ==
  ASSUME TypeOK, ChainInv
  PROVE  /\ HeadId \in Nat /\ SealedTo \in Nat /\ HeadId <= SealedTo
         /\ InTick => SealedTo = sealer.counter
         /\ head = None => HeadId = 0
         /\ head # None => FirstSealed \in Nat /\ anchor.id \in Nat /\ FirstSealed <= anchor.id
<1>1. HeadId \in Nat /\ sealer.counter \in Nat /\ (head = None => HeadId = 0)
  BY SealerParts, HeadParts, Bounds DEF TypeOK, HeadId
<1>2. HeadId <= SealedTo
  BY <1>1 DEF SealedTo, InTick, ChainInv, Sealing, NewSeal
<1>3. head # None => FirstSealed \in Nat /\ anchor.id \in Nat /\ FirstSealed <= anchor.id
  <2> SUFFICES ASSUME head # None PROVE FirstSealed \in Nat /\ anchor.id \in Nat /\ FirstSealed <= anchor.id
    OBVIOUS
  <2>1. sealed \in Seq(Rows) /\ sealed # <<>> /\ anchor # None /\ FirstSealed <= anchor.id /\ ChainOK
    BY DEF TypeOK, ChainOK, Hashes, ChainInv, Sealed
  <2>2. sealed[1] \in Rows
    BY <2>1
  <2> QED
    BY <2>1, <2>2, AnchorParts, Bounds DEF FirstSealed, Rows
<1> QED
  BY <1>1, <1>2, <1>3 DEF SealedTo

LEMMA FirstType ==
  ASSUME TypeOK, ChainInv, InTick \/ head # None, sealer.pc # "anchor"
  PROVE  First \in Nat
<1>1. CASE head # None
  BY <1>1, SealedBelow DEF First
<1>2. CASE head = None
  <2>1. ChainOK /\ SealerOK
    BY DEF TypeOK
  <2>2. CASE sealer.pc = "head"
    <3>1. anchor # None
      BY <2>2 DEF ChainInv, NewSeal
    <3> QED
      BY <1>2, <2>1, <3>1, AnchorParts, Bounds DEF First
  <2>3. CASE sealer.pc = "seal"
    <3>1. anchor = Link(Start, Zero) /\ DOMAIN sealer.byId # {}
      BY <1>2, <2>3 DEF ChainInv, Sealing
    <3>2. Start \in Nat
      BY <1>2, <2>1, <3>1, StartType, Bounds
    <3> QED
      BY <1>2, <3>1, <3>2 DEF First, Link
  <2> QED
    BY <1>2, <2>2, <2>3 DEF InTick
<1> QED
  BY <1>1, <1>2

LEMMA WritersSealRight ==
  ASSUME TypeOK, TypeOK', ChainInv, Anchored, Keeps, SealedRight, SealRight,
         UNCHANGED <<chain, head, anchor, sealed, sealer>>
  PROVE  SealedRight' /\ SealRight'
<1>0. /\ UNCHANGED <<HeadId, FirstSealed, SealedTo, First, NewHash>>
      /\ (head = None => Start' = Start)
  BY DEF HeadId, FirstSealed, SealedTo, InTick, First, NewHash, Start
<1>1. /\ HeadId \in Nat /\ SealedTo \in Nat /\ HeadId <= SealedTo
      /\ InTick => SealedTo = sealer.counter
      /\ head = None => HeadId = 0
      /\ head # None => FirstSealed \in Nat /\ anchor.id \in Nat /\ FirstSealed <= anchor.id
  BY SealedBelow
<1>2. \A id \in Int : \A row : id <= SealedTo /\ Right(id, row) => RightThen(id, row)
  BY RightStays
<1>3. \A held \in Held' \ Held : held > SealedTo /\ held \in Nat
  BY NextHeldIds, Bounds DEF Keeps
<1>4. SealedRight'
  <2> SUFFICES ASSUME head # None
               PROVE  /\ \A id \in FirstSealed..HeadId : RightThen(id, sealed[id - FirstSealed + 1])
                      /\ \A held \in Held' : held >= anchor.id
    BY <1>0 DEF SealedRight, Right, Gone, RightThen
  <2>1. \A id \in FirstSealed..HeadId : RightThen(id, sealed[id - FirstSealed + 1])
    <3> SUFFICES ASSUME NEW id \in FirstSealed..HeadId
                 PROVE  RightThen(id, sealed[id - FirstSealed + 1])
      OBVIOUS
    <3>1. id \in Int /\ id <= SealedTo
      BY <1>1
    <3>2. Right(id, sealed[id - FirstSealed + 1])
      BY DEF SealedRight
    <3> QED
      BY <1>2, <3>1, <3>2
  <2>2. \A held \in Held' : held >= anchor.id
    <3>1. anchor.id <= HeadId + 1
      BY DEF Anchored
    <3> QED
      BY <1>1, <1>3, <3>1 DEF SealedRight
  <2> QED
    BY <2>1, <2>2
<1>5. ASSUME sealer.pc \in {"anchor", "seal"}
      PROVE  /\ \A id \in HeadId + 1..sealer.counter :
                  /\ id \in DOMAIN sealer.byId => RightThen(id, sealer.byId[id])
                  /\ id \notin DOMAIN sealer.byId /\ (head = None \/ id = sealer.waiting.id) =>
                       id \notin Held'
             /\ head = None /\ Start <= sealer.counter => \A held \in Held' : held >= Start
  <2>1. SealedTo = sealer.counter
    BY <1>1, <1>5 DEF InTick
  <2>2. ASSUME NEW id \in HeadId + 1..sealer.counter
        PROVE  /\ id \in DOMAIN sealer.byId => RightThen(id, sealer.byId[id])
               /\ id \notin DOMAIN sealer.byId /\ (head = None \/ id = sealer.waiting.id) =>
                    id \notin Held'
    <3>1. id \in Int /\ id <= SealedTo
      BY <1>1, <2>1
    <3>2. /\ id \in DOMAIN sealer.byId => Right(id, sealer.byId[id])
          /\ id \notin DOMAIN sealer.byId /\ (head = None \/ id = sealer.waiting.id) => id \notin Held
      BY <1>5 DEF SealRight
    <3>3. id \notin Held => id \notin Held'
      BY <1>1, <1>3, <3>1
    <3> QED
      BY <1>2, <3>1, <3>2, <3>3
  <2>3. ASSUME head = None, Start <= sealer.counter PROVE \A held \in Held' : held >= Start
    <3>1. Start \in Nat
      <4>1. DOMAIN sealer.byId # {} /\ SealerOK /\ ChainOK
        BY <1>5, <2>3 DEF ChainInv, Sealing, TypeOK
      <4> QED
        BY <2>3, <4>1, StartType, Bounds
    <3>2. \A held \in Held : held >= Start
      BY <1>5, <2>3 DEF SealRight
    <3> QED
      BY <1>1, <1>3, <2>1, <2>3, <3>1, <3>2
  <2> QED
    BY <2>2, <2>3
<1>6. ASSUME sealer.pc = "head"
      PROVE  /\ \A id \in First..sealer.counter : id > HeadId => RightThen(id, NewHash[id - First + 1])
             /\ \A held \in Held' : held >= anchor.id
  <2>1. SealedTo = sealer.counter /\ First \in Nat
    BY <1>1, <1>6, FirstType DEF InTick
  <2>2. ASSUME NEW id \in First..sealer.counter, id > HeadId PROVE RightThen(id, NewHash[id - First + 1])
    <3>1. id \in Int /\ id <= SealedTo
      BY <1>1, <2>1
    <3>2. Right(id, NewHash[id - First + 1])
      BY <1>6, <2>2 DEF SealRight
    <3> QED
      BY <1>2, <3>1, <3>2
  <2>3. \A held \in Held' : held >= anchor.id
    <3>1. anchor.id \in Nat /\ anchor.id <= sealer.counter + 1
      <4>1. CASE head # None
        BY <1>1, <2>1, <4>1 DEF Anchored
      <4>2. CASE head = None
        BY <1>1, <1>6, <2>1, <4>2 DEF ChainInv, NewSeal, First
      <4> QED
        BY <4>1, <4>2
    <3>2. \A held \in Held : held >= anchor.id
      BY <1>6 DEF SealRight
    <3> QED
      BY <1>1, <1>3, <2>1, <3>1, <3>2
  <2> QED
    BY <2>2, <2>3
<1>7. SealRight'
  BY <1>0, <1>5, <1>6 DEF SealRight, Right, Gone, RightThen
<1> QED
  BY <1>4, <1>7

\* Nor does it matter to an admin's check.
LEMMA WritersAskRight ==
  ASSUME TypeOK, Trimming, OneFills, OwnRows, AskRight, Clean', NEW w \in Writers, WriterMoves(w)
  PROVE  AskRight'
<1>0. UNCHANGED <<asked, anchor, sealed, head>>
  BY WriterMovesAs DEF chainVars
<1>1. ASSUME asked.head # None PROVE \E held \in Held' : held <= asked.head.id + 1
  <2>0. PICK held \in Held : held <= asked.head.id + 1
    BY <1>1 DEF AskRight
  <2>1. CASE Drop(w)
    <3>1. Held' = Ids(writer[w].keep)
      BY <2>1, DropStep
    <3>2. Started /\ KnownTo = asked.head.id
      BY <1>1 DEF Started, KnownTo, Trimming
    <3>3. PICK kept \in Ids(writer[w].keep) : ~(kept > asked.head.id + 1)
      BY <2>1, <3>2 DEF Drop, Blame, Clean
    <3>4. kept \in 1..MaxId /\ asked.head.id \in 1..MaxId
      BY <1>1, HeldIds, LinkParts DEF TypeOK, AskedOK
    <3> QED
      BY <3>1, <3>3, <3>4, Bounds
  <2>2. CASE Incr(w) \/ Count(w) \/ Keep(w) \/ StopWriter(w)
    BY <2>0, <2>2, QuietSteps
  <2>3. CASE Push(w)
    BY <2>0, <2>3, PushStep
  <2>4. CASE Fill(w)
    BY <2>0, <2>4, FillStep
  <2> QED
    BY <2>1, <2>2, <2>3, <2>4 DEF WriterMoves, WriterSteps
<1> QED
  BY <1>0, <1>1 DEF AskRight, Agree, PastUpTo, FirstSealed

-----------------------------------------------------------------------------
(* What the chain's thread reads and seals is right *)

LEMMA OthersOwn ==
  ASSUME OwnRows, UNCHANGED <<log, counter, writer>>
  PROVE  /\ OwnRows' /\ Held' = Held /\ (HeldFull' <=> HeldFull)
         /\ \A id : \A row : Right(id, row) <=> RightThen(id, row)
<1>1. Held' = Held /\ (HeldFull' <=> HeldFull)
  BY DEF Held, InHand, Filling, HeldFull
<1>2. LogOwn' /\ NewestInHand' /\ HandsOwn'
  BY DEF OwnRows, LogOwn, NewestInHand, HandsOwn, Facts, Counted, Distinct, Filling
<1>3. IdsFresh'
  BY <1>1 DEF OwnRows, IdsFresh, OnTheWay
<1> QED
  BY <1>1, <1>2, <1>3 DEF OwnRows, Right, RightThen, Gone

\* Without a row half put back, all that is held is in the log.
LEMMA NobodyFills ==
  ASSUME ~HalfWritten
  PROVE  Held = Ids(log) /\ InHand = {} /\ (HeldFull <=> Len(log) >= Cap)
<1>1. \A w \in Writers : ~Filling(w)
  BY DEF HalfWritten, Filling
<1>2. InHand = {}
  BY <1>1, InHandOf
<1> QED
  BY <1>1, <1>2 DEF Held, HeldFull

LEMMA FullLogIsAll ==
  ASSUME TypeOK, Trimming, OneFills, Len(log) >= Cap
  PROVE  InHand = {}
<1> SUFFICES ASSUME NEW w \in Writers, Filling(w) PROVE FALSE
  BY InHandOf
<1>1. /\ Len(log) + Len(writer[w].keep) <= Cap
      /\ writer[w].keep # <<>> /\ writer[w].keep \in Seq(Rows)
  BY WriterParts DEF OneFills, Trimming, TypeOK
<1>2. Len(writer[w].keep) \in Nat /\ Len(writer[w].keep) >= 1 /\ Len(log) \in Nat
  BY <1>1 DEF TypeOK, LogOK
<1> QED
  BY <1>1, <1>2, Bounds

\* The tick reads as far as a row it expects, unless others crowd it out.
LEMMA InWindow ==
  ASSUME TypeOK, head # None, Distinct(log), NEW id \in HeadId + 1..sealer.counter,
         ~CrowdedOut(id), id \in Ids(log)
  PROVE  id \in Ids(Newest(log, Window))
<1>0. /\ log \in Seq(Rows) /\ HeadId \in Nat /\ sealer.counter \in Nat /\ Slack \in Nat
      /\ DOMAIN log = 1..Len(log) /\ Len(log) \in Nat
  BY HeadParts, SealerParts, Bounds DEF TypeOK, LogOK
<1>1. PICK k \in DOMAIN log : log[k].id = id
  BY DEF Ids
<1> DEFINE ahead  == 1..k - 1
           mine   == {j \in ahead : Expected(log[j].id)}
           others == {j \in ahead : ~Expected(log[j].id)}
           wanted == (HeadId + 1..sealer.counter) \ {id}
           idOf   == [j \in mine |-> log[j].id]
<1>2. k \in Nat /\ k >= 1 /\ ahead \subseteq DOMAIN log /\ k \notin ahead
  BY <1>0, <1>1
<1>3. IsFiniteSet(ahead) /\ Cardinality(ahead) = k - 1
  <2>1. 1 \in Int /\ k - 1 \in Int
    BY <1>2
  <2>2. IsFiniteSet(1..k - 1) /\ Cardinality(1..k - 1) = IF 1 > k - 1 THEN 0 ELSE k - 1 - 1 + 1
    BY <2>1, FS_Interval, Zenon
  <2> QED
    BY <1>2, <2>2
<1>4. IsFiniteSet(wanted) /\ Cardinality(wanted) = sealer.counter - HeadId - 1
  <2>1. HeadId + 1 \in Int /\ sealer.counter \in Int /\ ~(HeadId + 1 > sealer.counter)
    BY <1>0
  <2>2. /\ IsFiniteSet(HeadId + 1..sealer.counter)
        /\ Cardinality(HeadId + 1..sealer.counter) =
             IF HeadId + 1 > sealer.counter THEN 0 ELSE sealer.counter - (HeadId + 1) + 1
    BY <2>1, FS_Interval, Zenon
  <2>3. IsFiniteSet(wanted) /\ Cardinality(wanted) = Cardinality(HeadId + 1..sealer.counter) - 1
    BY <2>2, FS_RemoveElement
  <2> QED
    BY <1>0, <2>1, <2>2, <2>3
<1>5. idOf \in Injection(mine, wanted)
  <2>1. \A j \in mine : log[j].id \in wanted
    BY <1>1, <1>2 DEF Expected, Distinct
  <2>2. \A i, j \in mine : log[i].id = log[j].id => i = j
    BY <1>2 DEF Distinct
  <2>3. idOf \in [mine -> wanted] /\ \A i, j \in mine : idOf[i] = idOf[j] => i = j
    BY <2>1, <2>2
  <2> QED
    BY <2>3 DEF Injection, IsInjective
<1>6. IsFiniteSet(mine) /\ Cardinality(mine) <= sealer.counter - HeadId - 1
  <2> HIDE DEF mine, wanted, idOf
  <2> QED
    BY <1>4, <1>5, FS_Injection
<1>7. IsFiniteSet(others) /\ Cardinality(others) \in Nat /\ Cardinality(others) <= Slack
  <2>1. IsFiniteSet(others)
    <3>1. others \in SUBSET ahead
      OBVIOUS
    <3> QED
      BY <1>3, <3>1, FS_Subset
  <2>2. ~(Cardinality(others) > Slack)
    BY <1>1 DEF CrowdedOut
  <2>3. Cardinality(others) \in Nat
    BY <2>1, FS_CardinalityType
  <2> QED
    BY <1>0, <2>1, <2>2, <2>3
<1>8. k - 1 <= Cardinality(mine) + Cardinality(others)
  <2>1. mine \cup others = ahead
    OBVIOUS
  <2> HIDE DEF mine, others, ahead
  <2>2. Cardinality(mine \cup others)
          = Cardinality(mine) + Cardinality(others) - Cardinality(mine \cap others)
    BY <1>6, <1>7, FS_Union
  <2>3. IsFiniteSet(mine \cap others)
    BY <1>6, FS_Intersection
  <2>4. Cardinality(mine \cap others) \in Nat /\ Cardinality(mine) \in Nat
    BY <1>6, <2>3, FS_CardinalityType
  <2>5. k - 1 = Cardinality(mine) + Cardinality(others) - Cardinality(mine \cap others)
    BY <1>3, <2>1, <2>2
  <2>6. \A a, b, c \in Nat : a + b - c <= a + b
    OBVIOUS
  <2> QED
    BY <1>7, <2>4, <2>5, <2>6
<1>9. k <= Window /\ Window \in Int
  <2>1. Window = sealer.counter - HeadId + Slack
    BY DEF Window
  <2>2. Cardinality(mine) \in Nat
    BY <1>6, FS_CardinalityType
  <2> HIDE DEF mine, others
  <2> QED
    BY <1>0, <1>2, <1>6, <1>7, <1>8, <2>1, <2>2
<1>10. k \in DOMAIN Newest(log, Window) /\ Newest(log, Window)[k] = log[k]
  BY <1>0, <1>1, <1>9, NewestOf
<1> QED
  BY <1>1, <1>10 DEF Ids

\* What the tick reads of the log.
LEMMA ReadsRight ==
  ASSUME TypeOK, OwnRows, TickRows
  PROVE  LET rows == Newest(log, Window) IN
         /\ sealer'.byId = ById(rows, HeadId) /\ sealer'.counter = sealer.counter
         /\ sealer'.waiting = sealer.waiting
         /\ sealer'.pc = IF head # None THEN "seal"
                         ELSE IF DOMAIN ById(rows, HeadId) = {} THEN "ticked" ELSE "anchor"
         /\ DOMAIN sealer'.byId = {id \in Ids(rows) : id > HeadId}
         /\ DOMAIN sealer'.byId \subseteq Ids(log)
         /\ \A id \in DOMAIN sealer'.byId : sealer'.byId[id] = Row(id)
         /\ head = None => DOMAIN sealer'.byId = Ids(log)
<1> DEFINE rows == Newest(log, Window)
<1>0. /\ log \in Seq(Rows) /\ HeadId \in Nat /\ Window \in Int /\ SealerOK /\ Facts(log)
      /\ Len(log) \in Nat
  BY HeadParts, WindowType, Bounds DEF TypeOK, LogOK, OwnRows, LogOwn
<1>1. /\ sealer'.byId = ById(rows, HeadId) /\ sealer'.counter = sealer.counter
      /\ sealer'.waiting = sealer.waiting
      /\ sealer'.pc = IF head # None THEN "seal"
                      ELSE IF DOMAIN ById(rows, HeadId) = {} THEN "ticked" ELSE "anchor"
  BY <1>0 DEF TickRows, SealerOK
<1>2. /\ rows \in Seq(Rows) /\ Ids(rows) \subseteq Ids(log)
      /\ \A k \in DOMAIN rows : k \in DOMAIN log /\ rows[k] = log[k]
  BY <1>0, NewestRows, NewestOf
<1>3. \A k \in DOMAIN rows : rows[k] = Row(rows[k].id)
  BY <1>0, <1>2 DEF Facts
<1>4. head = None => Ids(rows) = Ids(log) /\ \A id \in Ids(log) : id > HeadId
  <2> SUFFICES ASSUME head = None PROVE Ids(rows) = Ids(log) /\ \A id \in Ids(log) : id > HeadId
    OBVIOUS
  <2>1. Window = Len(log) /\ HeadId = 0
    BY <1>0, HeadParts DEF TypeOK, Window
  <2>2. \A k \in DOMAIN log : k \in DOMAIN rows /\ rows[k] = log[k]
    <3>1. \A k \in DOMAIN log : k <= Window
      BY <1>0, <2>1
    <3> QED
      BY <1>0, <3>1, NewestOf
  <2>3. \A id \in Ids(log) : id > HeadId
    BY <1>0, <2>1, IdsOf, Bounds
  <2> QED
    BY <1>2, <2>2, <2>3 DEF Ids
<1> HIDE DEF rows
<1>5. /\ DOMAIN ById(rows, HeadId) = {id \in Ids(rows) : id > HeadId}
      /\ \A id \in DOMAIN ById(rows, HeadId) :
           \E k \in DOMAIN rows : ById(rows, HeadId)[id] = rows[k] /\ rows[k].id = id
  BY <1>0, <1>2, ByIdMap
<1>6. \A id \in DOMAIN ById(rows, HeadId) : ById(rows, HeadId)[id] = Row(id)
  BY <1>3, <1>5
<1> QED
  BY <1>1, <1>2, <1>4, <1>5, <1>6 DEF rows

\* Every id of a seal was passed.
LEMMA LastPassed ==
  ASSUME ChainOK, SealerOK, head = None => DOMAIN sealer.byId # {}
  PROVE  \A id \in Start..LastSealed : Passed(id)
<1> DEFINE ends == {e \in Start..sealer.counter : \A id \in Start..e : Passed(id)}
           upTo == {Start - 1} \cup ends
<1>1. Start \in Nat /\ Start >= 1 /\ sealer.counter \in Nat
  BY StartType, SealerParts, Bounds
<1>2. upTo \in SUBSET Nat /\ upTo # {} /\ \A e \in upTo : e <= Start + sealer.counter
  BY <1>1
<1>3. LastSealed = Max(upTo)
  BY DEF LastSealed
<1>4. Max(upTo) \in upTo
  <2> HIDE DEF upTo
  <2>1. Start + sealer.counter \in Nat
    BY <1>1
  <2> QED
    BY <1>2, <2>1, GreatestId
<1>5. CASE LastSealed = Start - 1
  BY <1>1, <1>5
<1>6. CASE LastSealed \in ends
  BY <1>6
<1> QED
  BY <1>3, <1>4, <1>5, <1>6

LEMMA TickRowsRight ==
  ASSUME TypeOK, ChainInv, OwnRows, Clean', TickRows
  PROVE  SealRight'
<1> DEFINE rows == Newest(log, Window)
           byId == sealer'.byId
<1>0. /\ UNCHANGED <<log, counter, writer, head, anchor, sealed, chain>>
      /\ HeadId' = HeadId /\ HeadId \in Nat
      /\ ~(HalfWritten /\ (sealer.waiting.id # 0 \/ head = None))
      /\ ~(head # None /\ CrowdedOut(sealer.waiting.id))
  <2>1. HeadId \in Nat
    BY HeadParts, Bounds DEF TypeOK
  <2> QED
    BY <2>1 DEF TickRows, logVars, chainVars, Blame, Clean, HeadId
<1>1. /\ Held' = Held /\ \A id : \A row : Right(id, row) <=> RightThen(id, row)
      /\ Facts(log) /\ Distinct(log)
  BY <1>0, OthersOwn DEF OwnRows, LogOwn
<1>2. /\ byId = ById(rows, HeadId) /\ sealer'.counter = sealer.counter
      /\ sealer'.waiting = sealer.waiting
      /\ sealer'.pc = IF head # None THEN "seal"
                      ELSE IF DOMAIN ById(rows, HeadId) = {} THEN "ticked" ELSE "anchor"
      /\ DOMAIN byId = {id \in Ids(rows) : id > HeadId}
      /\ DOMAIN byId \subseteq Ids(log)
      /\ \A id \in DOMAIN byId : byId[id] = Row(id)
      /\ head = None => DOMAIN byId = Ids(log)
  BY ReadsRight
<1> HIDE DEF rows, byId
<1>3. ASSUME NEW id \in HeadId + 1..sealer.counter, id \in DOMAIN byId PROVE RightThen(id, byId[id])
  <2>1. byId[id] = Row(id) /\ id \in Held
    BY <1>2, <1>3 DEF Held
  <2> QED
    BY <1>1, <2>1 DEF Right
<1>4. ASSUME NEW id \in HeadId + 1..sealer.counter, id \notin DOMAIN byId,
             head = None \/ id = sealer.waiting.id
      PROVE  id \notin Held
  <2>1. ~HalfWritten
    <3>1. head # None => sealer.waiting.id # 0
      BY <1>0, <1>4
    <3> QED
      BY <1>0, <3>1
  <2>2. Held = Ids(log)
    BY <2>1, NobodyFills
  <2>3. CASE head = None
    BY <1>2, <1>4, <2>2, <2>3
  <2>4. CASE head # None
    <3>1. ~CrowdedOut(id)
      BY <1>0, <1>4, <2>4
    <3>2. id \in Ids(log) => id \in Ids(rows)
      BY <1>1, <2>4, <3>1, InWindow DEF rows
    <3>3. id > HeadId
      BY <1>0, SealerParts, Bounds DEF TypeOK
    <3> QED
      BY <1>2, <1>4, <2>2, <3>2, <3>3
  <2> QED
    BY <2>3, <2>4
<1>5. ASSUME head = None, sealer'.pc # "ticked" PROVE \A held \in Held : held >= Start'
  <2>1. Held = Ids(log)
    BY <1>0, <1>5, NobodyFills
  <2>2. Start' = Min(Ids(log)) /\ Ids(log) # {}
    BY <1>0, <1>2, <1>5 DEF Start, byId
  <2>3. Ids(log) \in SUBSET Nat
    BY IdsOf, Bounds DEF TypeOK, LogOK
  <2> QED
    BY <2>1, <2>2, <2>3, LeastId
<1>6. sealer'.pc # "head"
  BY <1>2
<1> QED
  BY <1>0, <1>1, <1>2, <1>3, <1>4, <1>5, <1>6 DEF SealRight, Right, RightThen, Gone, byId

\* A row of a seal is the one read for its id, or a gap.
LEMMA BatchRow ==
  ASSUME ChainOK, SealerOK, head = None => DOMAIN sealer.byId # {},
         \A id \in DOMAIN sealer.byId : sealer.byId[id].id = id,
         NEW last \in Start..LastSealed, NEW id \in Start..last
  PROVE  Batch[last][Len(HeadHash) + (id - Start + 1)] = SealOf(sealer.byId, id)
<1> DEFINE n == last - Start + 1
           t == [k \in 1..n |-> SealOf(sealer.byId, Start + k - 1)]
           h == HeadHash
           k == id - Start + 1
<1>1. /\ Start \in Nat /\ Start >= 1 /\ LastSealed \in Nat /\ LastSealed <= MaxId
      /\ last \in Nat /\ last <= LastSealed /\ last >= Start /\ id \in Nat /\ id >= Start /\ id <= last
  BY StartType, LastSealedType, Bounds
<1>2. h \in Seq(Rows) /\ Batch[last] = h \o t
  BY HeadParts DEF Hashes, Batch
<1>3. n \in Nat /\ k \in 1..n /\ Start + k - 1 = id
  BY <1>1
<1>4. \A j \in 1..n : SealOf(sealer.byId, Start + j - 1) \in Rows
  <2> SUFFICES ASSUME NEW j \in 1..n PROVE SealOf(sealer.byId, Start + j - 1) \in Rows
    OBVIOUS
  <2>1. Start + j - 1 \in 1..MaxId
    BY <1>1, Bounds
  <2> QED
    BY <2>1, SealerParts, SealOfRow
<1>5. t[k] = SealOf(sealer.byId, id)
  BY <1>3
<1> HIDE DEF n, h
<1>6. t \in Seq(Rows) /\ Len(t) = n
  BY <1>3, <1>4
<1> HIDE DEF t
<1>7. (h \o t)[Len(h) + k] = t[k]
  BY <1>2, <1>3, <1>6
<1> QED
  BY <1>2, <1>5, <1>7 DEF h

LEMMA SealSealsRight ==
  ASSUME TypeOK, ChainInv, OwnRows, SealedRight, SealRight, Seal
  PROVE  SealRight'
<1>0. /\ ChainOK /\ SealerOK /\ sealer.pc = "seal"
      /\ UNCHANGED <<head, anchor, sealed, log, writer, counter>>
  BY DEF TypeOK, Seal, Sealer, logVars
<1>1. /\ head = None => DOMAIN sealer.byId # {}
      /\ anchor # None /\ First \in 1..MaxId /\ First <= anchor.id /\ First <= Start
      /\ Len(HeadHash) = Start - First
      /\ head = None => anchor.id = Start /\ First = Start
      /\ head # None => Start = HeadId + 1 /\ First = FirstSealed
  BY <1>0, BeforeSeal
<1>2. /\ Start \in Nat /\ LastSealed \in Nat /\ LastSealed >= Start - 1 /\ First \in Nat
      /\ HeadId \in Nat /\ sealer.counter \in Nat
      /\ LastSealed >= Start => LastSealed <= sealer.counter
      /\ head = None => HeadId = 0 /\ Start >= 1
  BY <1>0, <1>1, StartType, LastSealedType, HeadParts, SealerParts, Bounds
<1>3. /\ sealer'.byId = <<>> /\ sealer'.counter = LastSealed
      /\ sealer'.pc = IF LastSealed < Start THEN "ticked" ELSE "head"
  BY <1>0 DEF Seal, SealerOK
<1>4. UNCHANGED <<First, FirstSealed, HeadId>>
  BY <1>0 DEF First, FirstSealed, HeadId
<1>5. Held' = Held /\ \A id : \A row : Right(id, row) <=> RightThen(id, row)
  BY <1>0, OthersOwn
<1>6. CASE LastSealed < Start
  BY <1>3, <1>6 DEF SealRight
<1>7. CASE ~(LastSealed < Start)
  <2>1. LastSealed \in Start..LastSealed /\ LastSealed <= sealer.counter /\ sealer'.pc = "head"
    BY <1>2, <1>3, <1>7
  <2>2. NewHash' = Batch[LastSealed]
    BY <1>3, <2>1 DEF NewHash, Seal, Batch
  <2>3. ASSUME NEW id \in First..LastSealed, id > HeadId
        PROVE  RightThen(id, Batch[LastSealed][id - First + 1])
    <3>1. id \in Start..LastSealed /\ id \in HeadId + 1..sealer.counter
      BY <1>1, <1>2, <2>1, <2>3
    <3>2. Len(HeadHash) + (id - Start + 1) = id - First + 1
      BY <1>1, <1>2
    <3>3. Batch[LastSealed][id - First + 1] = SealOf(sealer.byId, id)
      <4>1. \A i \in DOMAIN sealer.byId : sealer.byId[i].id = i
        BY DEF ChainInv, Sealing
      <4>2. Batch[LastSealed][Len(HeadHash) + (id - Start + 1)] = SealOf(sealer.byId, id)
        BY <1>0, <1>1, <2>1, <3>1, <4>1, BatchRow
      <4> QED
        BY <3>2, <4>2
    <3>4. CASE id \in DOMAIN sealer.byId
      BY <1>0, <1>5, <3>1, <3>3, <3>4 DEF SealRight, SealOf
    <3>5. CASE id \notin DOMAIN sealer.byId
      <4>1. Passed(id)
        BY <1>0, <1>1, <3>1, LastPassed
      <4>2. id = sealer.waiting.id
        BY <3>5, <4>1 DEF Passed
      <4>3. id \notin Held
        BY <1>0, <3>1, <3>5, <4>2 DEF SealRight
      <4>4. Right(id, Gap(id))
        BY <4>3 DEF Right
      <4> QED
        BY <1>5, <3>3, <3>5, <4>4 DEF SealOf
    <3> QED
      BY <3>4, <3>5
  <2>4. \A held \in Held : held >= anchor.id
    <3>1. CASE head # None
      BY <3>1 DEF SealedRight
    <3>2. CASE head = None
      <4>1. Start <= sealer.counter
        BY <1>2, <2>1
      <4> QED
        BY <1>0, <1>1, <3>2, <4>1 DEF SealRight
    <3> QED
      BY <3>1, <3>2
  <2> QED
    BY <1>0, <1>3, <1>4, <1>5, <2>1, <2>2, <2>3, <2>4 DEF SealRight, Right, RightThen, Gone
<1> QED
  BY <1>6, <1>7

LEMMA SetHeadSealsRight ==
  ASSUME TypeOK, ChainInv, OwnRows, meddled = "none", SealedRight, SealRight, SetHead
  PROVE  SealedRight' /\ SealRight'
<1>0. sealer.pc = "head" /\ UNCHANGED <<log, writer, counter>>
  BY DEF SetHead, Sealer, logVars
<1>1. /\ First \in 1..MaxId /\ First <= sealer.counter /\ First <= anchor.id /\ anchor # None
      /\ sealer.counter \in 1..MaxId /\ sealer.counter > HeadId
      /\ head' # None /\ HeadId' = sealer.counter
      /\ NewHash \in Hashes /\ Len(NewHash) = sealer.counter - First + 1
      /\ FirstSealed' = First
      /\ \A k \in 1..Len(NewHash) : sealed'[k] = IF k <= Len(sealed) THEN sealed[k] ELSE NewHash[k]
      /\ sealer'.pc = "ticked" /\ UNCHANGED anchor
  BY NewHead
<1>2. Held' = Held /\ \A id : \A row : Right(id, row) <=> RightThen(id, row)
  BY <1>0, OthersOwn
<1>3. HeadId \in Nat /\ Len(sealed) \in Nat /\ sealer.counter \in Nat /\ First \in Nat
  BY <1>1, HeadParts, Bounds DEF TypeOK, ChainOK, Hashes
<1>4. /\ head = None => Len(sealed) = 0 /\ HeadId = 0
      /\ head # None => HeadId = First + Len(sealed) - 1 /\ First = FirstSealed
  BY HeadParts DEF TypeOK, ChainInv, Sealed, First
<1>5. ASSUME NEW id \in First..sealer.counter PROVE RightThen(id, sealed'[id - First + 1])
  <2>0. id \in Nat /\ id - First + 1 \in 1..Len(NewHash)
    BY <1>1, <1>3
  <2>1. CASE head # None /\ id <= HeadId
    <3>1. sealed'[id - First + 1] = sealed[id - First + 1]
      BY <1>1, <1>3, <1>4, <2>0, <2>1
    <3>2. id \in FirstSealed..HeadId
      BY <1>3, <1>4, <2>1
    <3> QED
      BY <1>2, <1>4, <2>1, <3>1, <3>2 DEF SealedRight
  <2>2. CASE id > HeadId
    <3>1. sealed'[id - First + 1] = NewHash[id - First + 1]
      BY <1>1, <1>3, <1>4, <2>0, <2>2
    <3> QED
      BY <1>0, <1>2, <2>2, <3>1 DEF SealRight
  <2>3. head = None => id > HeadId
    BY <1>1, <1>3, <1>4, <2>0
  <2> QED
    BY <1>3, <2>0, <2>1, <2>2, <2>3
<1>6. \A held \in Held' : held >= anchor.id
  BY <1>0, <1>2 DEF SealRight
<1>7. SealedRight'
  BY <1>1, <1>5, <1>6 DEF SealedRight, Right, RightThen, Gone
<1> QED
  BY <1>1, <1>7 DEF SealRight

\* The steps of the others that read and seal nothing.
LEMMA SealingStaysRight ==
  ASSUME SealedRight, SealRight, OwnRows, UNCHANGED <<log, counter, writer, head, sealed, chain>>,
         anchor' = anchor \/ head = None,
         \/ sealer'.pc \notin {"anchor", "seal", "head"}
         \/ /\ sealer.pc \in {"anchor", "seal"} /\ sealer'.pc \in {"anchor", "seal"}
            /\ sealer'.counter = sealer.counter /\ sealer'.byId = sealer.byId
            /\ sealer'.waiting.id = sealer.waiting.id
         \/ /\ anchor' = anchor /\ sealer'.counter = sealer.counter /\ sealer'.byId = sealer.byId
            /\ sealer'.waiting.id = sealer.waiting.id /\ sealer'.pc = sealer.pc
  PROVE  SealedRight' /\ SealRight'
<1>0. /\ Held' = Held /\ \A id : \A row : Right(id, row) <=> RightThen(id, row)
      /\ UNCHANGED <<HeadId, FirstSealed>>
  BY OthersOwn DEF HeadId, FirstSealed
<1>1. SealedRight'
  BY <1>0 DEF SealedRight, Right, RightThen, Gone
<1>2. CASE sealer'.pc \notin {"anchor", "seal", "head"}
  BY <1>1, <1>2 DEF SealRight
<1>3. CASE /\ sealer.pc \in {"anchor", "seal"} /\ sealer'.pc \in {"anchor", "seal"}
           /\ sealer'.counter = sealer.counter /\ sealer'.byId = sealer.byId
           /\ sealer'.waiting.id = sealer.waiting.id
  <2>1. head = None => Start' = Start
    BY <1>3 DEF Start
  <2> QED
    BY <1>0, <1>1, <1>3, <2>1 DEF SealRight, Right, RightThen, Gone
<1>4. CASE /\ anchor' = anchor /\ sealer'.counter = sealer.counter /\ sealer'.byId = sealer.byId
           /\ sealer'.waiting.id = sealer.waiting.id /\ sealer'.pc = sealer.pc
  <2>1. (head = None => Start' = Start) /\ First' = First /\ NewHash' = NewHash
    BY <1>0, <1>4 DEF Start, First, NewHash
  <2> QED
    BY <1>0, <1>1, <1>4, <2>1 DEF SealRight, Right, RightThen, Gone
<1> QED
  BY <1>1, <1>2, <1>3, <1>4

\* The anchor moves to the oldest row of a log that nobody is putting back.
LEMMA PruneSealsRight ==
  ASSUME TypeOK, Trimming, OneFills, OwnRows, SealedRight, SealRight, Prune
  PROVE  /\ SealedRight' /\ SealRight'
         /\ anchor' # anchor => PruneMoves /\ \A held \in Held : anchor'.id <= held
<1>0. /\ UNCHANGED <<log, counter, writer, head, sealed, chain>> /\ sealer.pc = "prune" /\ SealerOK
  BY DEF Prune, logVars, Sealer, TypeOK
<1>1. sealer'.pc \notin {"anchor", "seal", "head"}
  BY <1>0, PruneAs DEF SealerOK
<1>2. CASE anchor' = anchor
  BY <1>0, <1>1, <1>2, SealingStaysRight
<1>3. CASE anchor' # anchor
  <2>1. /\ PruneMoves /\ anchor' = Link(Min(Ids(log)), chain[Min(Ids(log)) - 1])
        /\ \A id \in Ids(log) : Min(Ids(log)) <= id
    BY <1>3, PruneAs
  <2>2. InHand = {}
    BY <2>1, FullLogIsAll DEF PruneMoves
  <2>3. \A held \in Held : anchor'.id <= held
    BY <2>1, <2>2 DEF Held, Link
  <2>4. /\ Held' = Held /\ \A id : \A row : Right(id, row) <=> RightThen(id, row)
        /\ UNCHANGED <<HeadId, FirstSealed>>
    BY <1>0, OthersOwn DEF HeadId, FirstSealed
  <2>5. \A held \in Held : held >= anchor'.id
    <3>1. /\ Held \subseteq 1..MaxId /\ anchor'.id \in 1..MaxId
      <4>1. Min(Ids(log)) \in 1..MaxId
        BY <1>3, PruneAs
      <4> QED
        BY <2>1, <4>1, HeldIds DEF Link
    <3> QED
      BY <2>3, <3>1, Bounds
  <2>6. SealedRight'
    BY <1>0, <2>4, <2>5 DEF SealedRight, Right, RightThen, Gone
  <2> QED
    BY <1>1, <2>1, <2>3, <2>6 DEF SealRight
<1> QED
  BY <1>2, <1>3

LEMMA OthersSealRight ==
  ASSUME TypeOK, ChainInv, Trimming, OneFills, OwnRows, SealedRight, SealRight, Clean, Clean',
         TickSteps \/ DailySteps \/ WaitIsOver \/ StopSealer \/ AskSteps
  PROVE  SealedRight' /\ SealRight'
<1>0. /\ UNCHANGED <<log, counter, writer>> /\ SealerOK /\ meddled = "none"
  BY OthersMoveAs DEF logVars, TypeOK, Clean
<1>1. CASE TickRows
  <2>1. SealRight'
    BY <1>1, TickRowsRight
  <2>2. UNCHANGED <<head, anchor, sealed, chain>>
    BY <1>1 DEF TickRows, chainVars
  <2>3. /\ Held' = Held /\ \A id : \A row : Right(id, row) <=> RightThen(id, row)
        /\ UNCHANGED <<HeadId, FirstSealed>>
    BY <1>0, <2>2, OthersOwn DEF HeadId, FirstSealed
  <2>4. SealedRight'
    BY <2>2, <2>3 DEF SealedRight, Right, RightThen, Gone
  <2> QED
    BY <2>1, <2>4
<1>2. CASE Seal
  <2>1. SealRight'
    BY <1>2, SealSealsRight
  <2>2. UNCHANGED <<head, anchor, sealed>>
    BY <1>2 DEF Seal
  <2>3. /\ Held' = Held /\ \A id : \A row : Right(id, row) <=> RightThen(id, row)
        /\ UNCHANGED <<HeadId, FirstSealed>>
    BY <1>0, <2>2, OthersOwn DEF HeadId, FirstSealed
  <2>4. SealedRight'
    BY <2>2, <2>3 DEF SealedRight, Right, RightThen, Gone
  <2> QED
    BY <2>1, <2>4
<1>3. CASE SetHead
  BY <1>0, <1>3, SetHeadSealsRight
<1>4. CASE Prune
  BY <1>4, PruneSealsRight
<1>5. CASE SetAnchor
  <2>1. UNCHANGED <<head, sealed, chain>> /\ head = None /\ sealer.pc = "anchor"
    BY <1>5 DEF SetAnchor, Sealer, ChainInv, Sealing
  <2>2. /\ sealer'.pc = "seal" /\ sealer'.counter = sealer.counter /\ sealer'.byId = sealer.byId
        /\ sealer'.waiting = sealer.waiting
    BY <1>0, <1>5 DEF SetAnchor, Then, SealerOK
  <2> QED
    BY <1>0, <2>1, <2>2, SealingStaysRight
<1>6. CASE WaitIsOver \/ AskSteps
  <2>1. UNCHANGED <<head, sealed, chain, anchor>>
    BY <1>6 DEF WaitIsOver, AskSteps, Ask, AskAnchor, AskRows, AskChain, AskFiles, chainVars
  <2>2. /\ sealer'.pc = sealer.pc /\ sealer'.counter = sealer.counter /\ sealer'.byId = sealer.byId
        /\ sealer'.waiting.id = sealer.waiting.id
    BY <1>0, <1>6 DEF WaitIsOver, AskSteps, Ask, AskAnchor, AskRows, AskChain, AskFiles, SealerOK
  <2> QED
    BY <1>0, <2>1, <2>2, SealingStaysRight
<1>7. CASE TickStart \/ Sleep \/ StopSealer \/ Verify \/ WriteFile \/ WriteSum \/ SetThrough \/ ReplicaFails
  <2>1. UNCHANGED <<head, sealed, chain, anchor>>
    BY <1>7 DEF TickStart, Sleep, StopSealer, Verify, WriteFile, WriteSum, SetThrough, ReplicaFails,
       chainVars
  <2>2. sealer'.pc \notin {"anchor", "seal", "head"}
    <3>1. CASE StopSealer \/ Verify
      BY <1>0, <3>1 DEF StopSealer, Verify, SealerOK
    <3>2. CASE TickStart \/ Sleep
      BY <1>0, <3>2 DEF TickStart, Sleep, Rests, Then, SealerOK
    <3>3. CASE WriteFile \/ WriteSum \/ SetThrough \/ ReplicaFails
      BY <1>0, <3>3 DEF WriteFile, WriteSum, SetThrough, ReplicaFails, Then, SealerOK
    <3> QED
      BY <1>7, <3>1, <3>2, <3>3
  <2> QED
    BY <1>0, <2>1, <2>2, SealingStaysRight
<1>8. CASE Forget
  <2>1. UNCHANGED <<head, sealed, anchor>> /\ sealer'.pc = "idle"
    BY <1>0, <1>8 DEF Forget, Rests, SealerOK
  <2>2. /\ Held' = Held /\ \A id : \A row : Right(id, row) <=> RightThen(id, row)
        /\ UNCHANGED <<HeadId, FirstSealed>>
    BY <1>0, <2>1, OthersOwn DEF HeadId, FirstSealed
  <2> QED
    BY <2>1, <2>2 DEF SealedRight, SealRight, Right, RightThen, Gone
<1> QED
  BY <1>1, <1>2, <1>3, <1>4, <1>5, <1>6, <1>7, <1>8 DEF TickSteps, DailySteps

-----------------------------------------------------------------------------
(* The files and the chain stay copies of what was sealed *)

\* What was sealed up to an id is not what a new head changes.
LEMMA PastStays ==
  ASSUME TypeOK, ChainInv, meddled = "none", head # None, SetHead
  PROVE  /\ FirstSealed' = FirstSealed /\ HeadId' > HeadId /\ HeadId' = sealer.counter
         /\ \A id \in FirstSealed - 1..HeadId : PastUpTo(id)' = PastUpTo(id)
         /\ \A id \in FirstSealed..HeadId :
              sealed'[id - FirstSealed + 1] = sealed[id - FirstSealed + 1]
<1>1. /\ HeadId' = sealer.counter /\ sealer.counter > HeadId /\ FirstSealed' = First
      /\ NewHash \in Hashes /\ Len(NewHash) = sealer.counter - First + 1
      /\ SubSeq(NewHash, 1, Len(sealed)) = sealed => sealed' = NewHash
      /\ \A k \in 1..Len(NewHash) : sealed'[k] = IF k <= Len(sealed) THEN sealed[k] ELSE NewHash[k]
  BY NewHead
<1>2. First = FirstSealed /\ HeadId = FirstSealed + Len(sealed) - 1
  BY DEF First, ChainInv, Sealed
<1>3. HeadId \in Nat /\ Len(sealed) \in Nat /\ sealer.counter \in Nat /\ FirstSealed \in Nat
  BY HeadParts, SealerParts, SealedBelow, Bounds DEF TypeOK, ChainOK, Hashes
<1>4. SubSeq(NewHash, 1, Len(sealed)) = sealed /\ sealed' = NewHash
  <2>1. sealer.pc = "head"
    BY DEF SetHead, Sealer
  <2> QED
    BY <1>1, <2>1 DEF ChainInv, Agreeing
<1>5. ASSUME NEW id \in FirstSealed - 1..HeadId PROVE PastUpTo(id)' = PastUpTo(id)
  <2>1. Len(sealed) \in 0..Len(NewHash) /\ id - FirstSealed + 1 \in 0..Len(sealed)
    BY <1>1, <1>2, <1>3
  <2>2. SubSeq(SubSeq(NewHash, 1, Len(sealed)), 1, id - FirstSealed + 1)
          = SubSeq(NewHash, 1, id - FirstSealed + 1)
    BY <1>1, <2>1, BeginningOfBeginning DEF Hashes
  <2> QED
    BY <1>1, <1>2, <1>4, <2>2 DEF PastUpTo
<1>6. ASSUME NEW id \in FirstSealed..HeadId
      PROVE  sealed'[id - FirstSealed + 1] = sealed[id - FirstSealed + 1]
  <2>1. id - FirstSealed + 1 \in 1..Len(NewHash) /\ id - FirstSealed + 1 <= Len(sealed)
    BY <1>1, <1>2, <1>3
  <2> QED
    BY <1>1, <2>1
<1> QED
  BY <1>1, <1>2, <1>5, <1>6

LEMMA SetHeadFiles ==
  ASSUME TypeOK, ChainInv, Anchored, meddled = "none", FilesRight, SetHead
  PROVE  FilesRight'
<1>0. /\ UNCHANGED <<files, chain, anchor, meddled>> /\ head' # None /\ anchor # None
      /\ HeadId' = sealer.counter /\ FirstSealed' = First
      /\ First <= anchor.id
  BY NewHead DEF SetHead, diskVars
<1>1. \A f \in files' : TrueCopy(f)'
  <2>1. CASE head = None
    BY <1>0, <2>1 DEF FilesRight
  <2>2. CASE head # None
    <3>1. /\ FirstSealed' = FirstSealed /\ HeadId' > HeadId
          /\ \A id \in FirstSealed - 1..HeadId : PastUpTo(id)' = PastUpTo(id)
          /\ FirstSealed \in Nat /\ HeadId \in Nat /\ HeadId' \in Nat
      BY <1>0, <2>2, PastStays, SealedBelow, SealerParts, Bounds DEF TypeOK
    <3> SUFFICES ASSUME NEW f \in files, NEW id \in DOMAIN f.body
                 PROVE  id \in FirstSealed'..HeadId' /\ f.body[id] = PastUpTo(id)'
      BY <1>0 DEF FilesRight, TrueCopy
    <3>2. id \in FirstSealed..HeadId /\ f.body[id] = PastUpTo(id)
      BY DEF FilesRight, TrueCopy
    <3> QED
      BY <3>1, <3>2
  <2> QED
    BY <2>1, <2>2
<1>2. ASSUME NEW id \in DOMAIN chain \cap (FirstSealed'..HeadId') PROVE chain[id] = PastUpTo(id)'
  <2>0. anchor.id \in Nat /\ HeadId \in Nat /\ id \in Int /\ id <= HeadId'
    BY <1>0, AnchorParts, HeadParts, Bounds DEF TypeOK, FirstSealed, ChainOK
  <2>1. CASE id >= anchor.id
    <3>1. ChainInv' /\ anchor' = anchor
      BY <1>0, ChainHolds DEF Next, TickSteps
    <3>2. id \in anchor.id..HeadId'
      BY <2>0, <2>1
    <3> QED
      BY <1>0, <3>1, <3>2 DEF ChainInv, Agreeing
  <2>2. CASE ~(id >= anchor.id)
    <3>1. head # None
      BY <1>0, <1>2, <2>0, <2>2 DEF First
    <3>2. anchor.id <= HeadId + 1
      BY <3>1 DEF Anchored
    <3>3. FirstSealed \in Nat /\ FirstSealed' = FirstSealed
      BY <3>1, SealedBelow, PastStays
    <3>4. id \in FirstSealed..HeadId /\ id \in FirstSealed - 1..HeadId
      BY <1>2, <2>0, <2>2, <3>2, <3>3
    <3> QED
      BY <1>2, <3>1, <3>4, PastStays DEF FilesRight
  <2> QED
    BY <2>1, <2>2
<1> QED
  BY <1>0, <1>1, <1>2 DEF FilesRight

LEMMA SealFiles ==
  ASSUME TypeOK, ChainInv, FilesRight, Seal
  PROVE  FilesRight'
<1>0. /\ UNCHANGED <<files, head, sealed>> /\ sealer.pc = "seal"
      /\ UNCHANGED <<HeadId, FirstSealed>> /\ \A id : PastUpTo(id)' = PastUpTo(id)
  BY DEF Seal, Sealer, diskVars, HeadId, FirstSealed, PastUpTo
<1>1. \A f \in files' : TrueCopy(f)'
  BY <1>0 DEF FilesRight, TrueCopy
<1>2. ASSUME head # None, NEW id \in DOMAIN chain' \cap (FirstSealed..HeadId)
      PROVE  chain'[id] = PastUpTo(id)
  <2>1. Start = HeadId + 1 /\ HeadId \in Nat
    BY <1>2, HeadParts, Bounds DEF Start, TypeOK
  <2>2. id \notin DOMAIN Batch
    <3>1. DOMAIN Batch = Start..LastSealed
      BY DEF Batch
    <3>2. \A e \in Start..LastSealed : e >= Start /\ e \in Int
      BY DEF TypeOK
    <3> QED
      BY <2>1, <3>1, <3>2
  <2>3. id \in DOMAIN chain /\ chain'[id] = chain[id]
    BY <1>2, <2>2 DEF Seal
  <2> QED
    BY <1>2, <2>3 DEF FilesRight
<1> QED
  BY <1>0, <1>1, <1>2 DEF FilesRight

LEMMA WriteFiles ==
  ASSUME TypeOK, ChainInv, Replicated, meddled = "none", FilesRight, WriteFile
  PROVE  FilesRight'
<1>0. /\ UNCHANGED <<chain, head, sealed, anchor>> /\ sealer.pc = "file"
      /\ UNCHANGED <<HeadId, FirstSealed>> /\ \A id : PastUpTo(id)' = PastUpTo(id)
      /\ ChainOK /\ DiskOK
  BY DEF WriteFile, Sealer, chainVars, HeadId, FirstSealed, PastUpTo, TypeOK
<1>1. head # None
  <2>1. through < HeadId /\ through \in Nat
    BY <1>0, Bounds DEF Replicated, DiskOK
  <2> QED
    BY <1>0, <2>1, HeadParts
<1>2. /\ anchor # None /\ anchor.id..HeadId \subseteq DOMAIN chain /\ FirstSealed <= anchor.id
      /\ \A id \in anchor.id..HeadId : chain[id] = PastUpTo(id)
  BY <1>1 DEF ChainInv, Sealed, Agreeing
<1>3. /\ anchor.id \in Nat /\ FirstSealed \in Nat /\ HeadId \in Nat
      /\ FileName[1] \in Nat /\ FileName[2] = HeadId /\ anchor.id <= FileName[1]
  BY <1>0, <1>1, <1>2, SealedBelow, FileNameType
<1>4. /\ DOMAIN Body = FileName[1]..FileName[2]
      /\ \A id \in DOMAIN Body : id \in FirstSealed..HeadId /\ Body[id] = PastUpTo(id)
  <2>1. \A id \in FileName[1]..FileName[2] : id \in anchor.id..HeadId /\ id \in FirstSealed..HeadId
    BY <1>2, <1>3
  <2>2. /\ DOMAIN Body = (FileName[1]..FileName[2]) \cap DOMAIN chain
        /\ \A id \in DOMAIN Body : Body[id] = chain[id]
    BY <1>0, BodyType
  <2> QED
    BY <1>2, <2>1, <2>2
<1>5. SumOf(FileName) \in {None, Body}
  <2>1. CASE Named(FileName) = {}
    BY <2>1 DEF SumOf
  <2>2. CASE Named(FileName) # {}
    <3>1. PICK f \in Named(FileName) : SumOf(FileName) = f.sum
      BY <2>2 DEF SumOf
    <3>2. f \in files /\ f.name = FileName /\ TrueCopy(f) /\ FileOK(f)
      BY <1>0, <3>1 DEF Named, FilesRight, DiskOK
    <3>3. DOMAIN f.body = DOMAIN Body /\ \A id \in DOMAIN Body : f.body[id] = Body[id]
      BY <1>4, <3>2 DEF TrueCopy
    <3>4. IsMap(f.body, Hashes) /\ IsMap(Body, Hashes)
      BY <1>0, <3>2, BodyType DEF FileOK
    <3>5. f.body = [id \in DOMAIN f.body |-> f.body[id]]
      BY <3>4, MapParts
    <3>6. Body = [id \in DOMAIN Body |-> Body[id]]
      BY <3>4, MapParts
    <3>7. f.body = Body
      BY <3>3, <3>5, <3>6
    <3> QED
      BY <3>1, <3>2, <3>7 DEF TrueCopy
  <2> QED
    BY <2>1, <2>2
<1> DEFINE new == [name |-> FileName, body |-> Body, sum |-> SumOf(FileName)]
<1>6. \A f \in files' : f \in files \/ f = new
  BY DEF WriteFile
<1>7. new.name = FileName /\ new.body = Body /\ new.sum = SumOf(FileName)
  OBVIOUS
<1> HIDE DEF new
<1>8. TrueCopy(new)
  BY <1>4, <1>5, <1>7 DEF TrueCopy
<1>9. \A f \in files' : TrueCopy(f)'
  <2>1. \A f \in files' : TrueCopy(f)
    BY <1>6, <1>8 DEF FilesRight
  <2> QED
    BY <1>0, <2>1 DEF TrueCopy
<1> QED
  BY <1>0, <1>1, <1>9 DEF FilesRight

LEMMA WriteSums ==
  ASSUME TypeOK, FilesRight, WriteSum
  PROVE  FilesRight'
<1>0. /\ UNCHANGED <<chain, head, sealed>>
      /\ UNCHANGED <<HeadId, FirstSealed>> /\ \A id : PastUpTo(id)' = PastUpTo(id)
  BY DEF WriteSum, chainVars, HeadId, FirstSealed, PastUpTo
<1>1. \A f \in files' : TrueCopy(f)
  <2> SUFFICES ASSUME NEW f \in files' PROVE TrueCopy(f)
    OBVIOUS
  <2>1. PICK old \in files : f = IF old.name = FileName THEN [old EXCEPT !.sum = old.body] ELSE old
    BY DEF WriteSum
  <2>2. TrueCopy(old) /\ FileOK(old)
    BY DEF FilesRight, TypeOK, DiskOK
  <2>3. f.name = old.name /\ f.body = old.body /\ f.sum \in {old.sum, old.body}
    BY <2>1, <2>2 DEF FileOK
  <2> QED
    BY <2>2, <2>3 DEF TrueCopy
<1> QED
  BY <1>0, <1>1 DEF FilesRight, TrueCopy, WriteSum

LEMMA OthersFiles ==
  ASSUME TypeOK, ChainInv, Anchored, Replicated, meddled = "none", FilesRight,
         TickSteps \/ DailySteps \/ WaitIsOver \/ StopSealer \/ AskSteps
  PROVE  FilesRight'
<1>1. CASE SetHead \/ Seal \/ WriteFile \/ WriteSum
  BY <1>1, SetHeadFiles, SealFiles, WriteFiles, WriteSums
<1>2. CASE Forget
  <2>1. /\ UNCHANGED <<files, head, sealed>> /\ DOMAIN chain' \subseteq DOMAIN chain
        /\ \A id \in DOMAIN chain' : chain'[id] = chain[id]
        /\ UNCHANGED <<HeadId, FirstSealed>> /\ \A id : PastUpTo(id)' = PastUpTo(id)
    BY <1>2 DEF Forget, diskVars, HeadId, FirstSealed, PastUpTo
  <2> QED
    BY <2>1 DEF FilesRight, TrueCopy
<1>3. CASE \/ TickStart \/ TickRows \/ SetAnchor \/ Sleep \/ Verify \/ SetThrough \/ ReplicaFails \/ Prune
           \/ WaitIsOver \/ StopSealer \/ AskSteps
  <2>1. UNCHANGED <<files, head, sealed, chain>>
    BY <1>3 DEF TickStart, TickRows, SetAnchor, Sleep, Verify, SetThrough, ReplicaFails, Prune,
       WaitIsOver, StopSealer, AskSteps, Ask, AskAnchor, AskRows, AskChain, AskFiles, chainVars, diskVars
  <2>2. UNCHANGED <<HeadId, FirstSealed>> /\ \A id : PastUpTo(id)' = PastUpTo(id)
    BY <2>1 DEF HeadId, FirstSealed, PastUpTo
  <2> QED
    BY <2>1, <2>2 DEF FilesRight, TrueCopy
<1> QED
  BY <1>1, <1>2, <1>3 DEF TickSteps, DailySteps

-----------------------------------------------------------------------------
(* A check of what is right finds nothing wrong *)

LEMMA AgreesNow ==
  ASSUME TypeOK, OwnRows, SealedRight, ~HalfWritten, head # None, NEW last \in Int,
         last <= HeadId, \E held \in Held : held <= last + 1
  PROVE  Agree(last, log)
<1>1. Held = Ids(log) /\ (HeldFull <=> Len(log) >= Cap)
  BY NobodyFills
<1>2. Facts(log) /\ Distinct(log) /\ \A id \in Ids(log) : id >= anchor.id
  BY <1>1 DEF OwnRows, LogOwn, SealedRight
<1>3. ASSUME NEW id \in FirstSealed..last
      PROVE  LET row == sealed[id - FirstSealed + 1] IN
             \/ row = Row(id) /\ (id \in Ids(log) \/ (Len(log) >= Cap /\ \A h \in Ids(log) : id < h))
             \/ row = Gap(id) /\ id \notin Ids(log)
  <2>1. HeadId \in Int
    BY HeadParts, Bounds DEF TypeOK
  <2>2. id \in FirstSealed..HeadId
    BY <2>1
  <2>3. Right(id, sealed[id - FirstSealed + 1])
    BY <2>2 DEF SealedRight
  <2> QED
    BY <1>1, <2>3 DEF Right, Gone
<1> QED
  BY <1>1, <1>2, <1>3 DEF Agree

\* The hash up to an id is that of the hash before and the row of the id.
LEMMA OneMore ==
  ASSUME NEW s \in Seq(Rows), NEW n \in 1..Len(s)
  PROVE  SubSeq(s, 1, n) = Append(SubSeq(s, 1, n - 1), s[n])
<1>1. n \in 0..Len(s) /\ n - 1 \in 0..Len(s) /\ n \in Nat /\ Len(s) \in Nat
  OBVIOUS
<1> DEFINE a == SubSeq(s, 1, n)
           b == SubSeq(s, 1, n - 1)
<1>2. /\ a \in Seq(Rows) /\ Len(a) = n /\ \A k \in 1..n : a[k] = s[k] /\ s[k] \in Rows
      /\ b \in Seq(Rows) /\ Len(b) = n - 1 /\ \A k \in 1..n - 1 : b[k] = s[k]
  BY <1>1, Beginning
<1> HIDE DEF a, b
<1> DEFINE c == Append(b, s[n])
<1>3. s[n] \in Rows
  BY <1>1, <1>2
<1>4. c \in Seq(Rows) /\ Len(c) = n /\ \A k \in 1..n : c[k] = IF k = n THEN s[n] ELSE b[k]
  BY <1>1, <1>2, <1>3
<1> HIDE DEF c
<1>5. \A k \in 1..Len(a) : a[k] = c[k]
  BY <1>1, <1>2, <1>4
<1>6. a = c
  BY <1>2, <1>4, <1>5, SameSeq
<1> QED
  BY <1>6 DEF a, b, c

LEMMA VerifiedHolds ==
  ASSUME TypeOK, ChainInv, Anchored, meddled = "none", head # None,
         NEW last \in Links, last # None, FirstSealed <= last.id, last.id <= HeadId,
         last.hash = PastUpTo(last.id), anchor.id <= last.id + 1,
         NEW rows \in Seq(Rows), Agree(last.id, rows)
  PROVE  Verified(last, anchor, rows)
<1> DEFINE oldest  == Min(Ids(rows))
           trimmed == Len(rows) >= Cap /\ oldest > anchor.id
           first   == IF trimmed THEN oldest ELSE anchor.id
           before  == IF trimmed THEN chain[first - 1] ELSE anchor.hash
           prev(id) == IF id = first THEN before ELSE chain[id - 1]
           byId    == ById(rows, 0)
<1>0. /\ anchor # None /\ anchor.id \in Nat /\ FirstSealed \in Nat /\ FirstSealed <= anchor.id
      /\ HeadId \in Nat /\ last.id \in Nat
      /\ HeadId = FirstSealed + Len(sealed) - 1 /\ sealed \in Seq(Rows) /\ Len(sealed) \in Nat
  BY SealedBelow, LinkParts, Bounds DEF ChainInv, Sealed, TypeOK, ChainOK, Hashes
<1>1. /\ anchor.id..HeadId \subseteq DOMAIN chain
      /\ \A id \in anchor.id..HeadId : chain[id] = PastUpTo(id)
      /\ anchor.hash = PastUpTo(anchor.id - 1)
  BY DEF ChainInv, Sealed, Agreeing, Anchored
<1>2. /\ Facts(rows) /\ Distinct(rows) /\ rows # <<>>
      /\ \A id \in Ids(rows) : id >= anchor.id
      /\ \E id \in Ids(rows) : id <= last.id + 1
  BY DEF Agree, Ids
<1>3. oldest \in Ids(rows) /\ oldest \in 1..MaxId /\ \A id \in Ids(rows) : oldest <= id /\ id \in Nat
  BY <1>2, OldestRow, IdsOf, Bounds
<1>4. oldest \in Nat /\ oldest >= anchor.id /\ oldest <= last.id + 1
  BY <1>0, <1>2, <1>3, Bounds
<1> HIDE DEF oldest
<1>5. /\ first \in Nat /\ first >= anchor.id /\ first <= last.id + 1
      /\ trimmed => first = oldest /\ first > anchor.id
      /\ ~trimmed => first = anchor.id
  BY <1>0, <1>4
<1>6. \A id \in Ids(rows) : id >= first
  BY <1>0, <1>2, <1>3, <1>5
<1> HIDE DEF first, trimmed
<1>7. before = PastUpTo(first - 1)
  <2>1. CASE trimmed
    <3>1. first - 1 \in anchor.id..HeadId
      BY <1>0, <1>5, <2>1
    <3> QED
      BY <1>1, <2>1, <3>1
  <2>2. CASE ~trimmed
    BY <1>1, <1>5, <2>2
  <2> QED
    BY <2>1, <2>2
<1>8. trimmed => first - 1 \in DOMAIN chain
  BY <1>0, <1>1, <1>5
<1>9. first..last.id \subseteq DOMAIN chain
  BY <1>0, <1>1, <1>5
<1>10. ASSUME NEW id \in first..last.id
       PROVE  chain[id] = Hash(prev(id), SealOf(byId, id))
  <2>0. id \in Nat /\ id >= first /\ id <= last.id /\ id \in anchor.id..HeadId /\ id \in FirstSealed..last.id
    BY <1>0, <1>5
  <2>1. prev(id) = PastUpTo(id - 1)
    <3>1. CASE id = first
      BY <1>7, <3>1
    <3>2. CASE id # first
      <4>1. id - 1 \in anchor.id..HeadId
        BY <1>0, <1>5, <2>0, <3>2
      <4> QED
        BY <1>1, <3>2, <4>1
    <3> QED
      BY <3>1, <3>2
  <2> HIDE DEF prev, before
  <2> DEFINE n == id - FirstSealed + 1
  <2>2. n \in 1..Len(sealed) /\ n - 1 = id - 1 - FirstSealed + 1
    BY <1>0, <2>0
  <2>3. PastUpTo(id) = Append(PastUpTo(id - 1), sealed[n])
    <3>1. SubSeq(sealed, 1, n) = Append(SubSeq(sealed, 1, n - 1), sealed[n])
      BY <1>0, <2>2, OneMore
    <3> QED
      BY <2>2, <3>1 DEF PastUpTo
  <2>4. sealed[n] = SealOf(byId, id)
    <3>0. /\ DOMAIN byId = {i \in Ids(rows) : i > 0}
          /\ \A i \in DOMAIN byId : \E k \in DOMAIN rows : byId[i] = rows[k] /\ rows[k].id = i
      <4>1. 0 \in Nat
        OBVIOUS
      <4> QED
        BY <4>1, ByIdMap, Zenon
    <3> HIDE DEF byId
    <3>1. CASE sealed[n] = Row(id) /\ id \in Ids(rows)
      <4>1. id > 0
        BY <3>1, IdsOf
      <4>2. byId[id] = Row(id) /\ id \in DOMAIN byId
        BY <1>2, <3>0, <3>1, <4>1 DEF Facts
      <4> QED
        BY <3>1, <4>2 DEF SealOf
    <3>2. CASE Len(rows) >= Cap /\ \A h \in Ids(rows) : id < h
      <4>1. id < oldest
        BY <1>3, <3>2
      <4>2. trimmed
        BY <1>0, <1>4, <1>5, <2>0, <3>2, <4>1 DEF trimmed
      <4> QED
        BY <1>4, <1>5, <2>0, <4>1, <4>2
    <3>3. CASE sealed[n] = Gap(id) /\ id \notin Ids(rows)
      BY <3>0, <3>3 DEF SealOf
    <3> QED
      BY <2>0, <3>1, <3>2, <3>3 DEF Agree
  <2> QED
    BY <1>1, <2>0, <2>1, <2>3, <2>4 DEF Hash
<1>11. last.hash = IF last.id < first THEN before ELSE chain[last.id]
  <2>1. CASE last.id < first
    <3>1. first - 1 = last.id
      BY <1>0, <1>5, <2>1
    <3> QED
      BY <1>7, <2>1, <3>1
  <2>2. CASE ~(last.id < first)
    <3>1. last.id \in anchor.id..HeadId
      BY <1>0, <1>5, <2>2
    <3> QED
      BY <1>1, <2>2, <3>1
  <2> QED
    BY <2>1, <2>2
<1>12. \A j, k \in DOMAIN rows : rows[j].id = rows[k].id => j = k
  BY <1>2 DEF Distinct
<1> QED
  BY <1>0, <1>6, <1>8, <1>9, <1>10, <1>11, <1>12 DEF Verified, oldest, trimmed, first

\* The files agree with the chain, whichever of two copies counts.
LEMMA FilesAgree ==
  ASSUME FilesRight, NEW agrees \in Agreements
  PROVE  agrees = TRUE
<1> DEFINE sums == \A f \in Finished : f.sum = f.body
           both == Copied \cap DOMAIN chain
<1>1. sums
  BY DEF FilesRight, TrueCopy, Finished
<1>2. ASSUME NEW id \in both PROVE Copies(id) = {chain[id]}
  <2>1. PICK f \in Finished : id \in DOMAIN f.body
    BY DEF Copied
  <2>2. head # None /\ id \in FirstSealed..HeadId
    BY <2>1 DEF Finished, FilesRight, TrueCopy
  <2>3. chain[id] = PastUpTo(id)
    BY <2>2 DEF FilesRight
  <2>4. \A g \in Finished : id \in DOMAIN g.body => g.body[id] = PastUpTo(id)
    BY DEF Finished, FilesRight, TrueCopy
  <2>5. Copies(id) = {PastUpTo(id)}
    BY <2>1, <2>4 DEF Copies
  <2> QED
    BY <2>3, <2>5
<1> QED
  BY <1>1, <1>2 DEF Agreements

\* The daily check passes.
LEMMA VerifyPasses ==
  ASSUME TypeOK, ChainInv, NextIsHeld, Anchored, meddled = "none", OwnRows, SealedRight, FilesRight,
         Verify, Clean'
  PROVE  sealer'.verdict = "ok"
<1>0. sealer.pc = "ticked" /\ ~HalfWritten /\ SealerOK /\ log \in Seq(Rows)
  BY DEF Verify, Sealer, Blame, Clean, TypeOK, LogOK
<1>1. Verified(head, anchor, log)
  <2>1. CASE head = None
    BY <2>1 DEF Verified
  <2>2. CASE head # None
    <3>1. /\ head \in Links /\ head.id = HeadId /\ HeadId \in Nat /\ HeadId = FirstSealed + Len(sealed) - 1
          /\ sealed # <<>> /\ sealed \in Seq(Rows) /\ head.hash = sealed
      BY <2>2, SealedBelow DEF TypeOK, ChainOK, HeadId, ChainInv, Sealed, Agreeing, Hashes
    <3>2. HeadId \in Nat /\ FirstSealed \in Nat /\ anchor.id \in Nat /\ Len(sealed) \in Nat
      BY <2>2, <3>1, SealedBelow
    <3>3. Len(sealed) >= 1
      BY <3>1
    <3>4. FirstSealed <= HeadId /\ HeadId - FirstSealed + 1 = Len(sealed)
      BY <3>1, <3>2, <3>3
    <3>5. head.hash = PastUpTo(head.id)
      BY <3>1, <3>2, <3>4, Beginning DEF PastUpTo
    <3>6. \E held \in Held : held <= HeadId + 1
      BY <1>0, <2>2 DEF NextIsHeld, Started, LowMark, Start, Held
    <3>7. Agree(HeadId, log)
      BY <1>0, <2>2, <3>2, <3>6, AgreesNow
    <3>8. anchor.id <= HeadId + 1
      BY <2>2 DEF Anchored
    <3> QED
      BY <1>0, <2>2, <3>1, <3>2, <3>4, <3>5, <3>7, <3>8, VerifiedHolds
  <2> QED
    BY <2>1, <2>2
<1>2. \A agrees \in Agreements : agrees = TRUE
  BY FilesAgree
<1> QED
  BY <1>0, <1>1, <1>2 DEF Verify, SealerOK

-----------------------------------------------------------------------------
(* What an admin's check has read stays what was there *)

LEMMA AskStays ==
  ASSUME AskRight, UNCHANGED <<log, writer, asked, anchor, sealed>>
  PROVE  AskRight'
<1>1. Held' = Held /\ FirstSealed' = FirstSealed /\ \A id : PastUpTo(id)' = PastUpTo(id)
  BY DEF Held, InHand, Filling, FirstSealed, PastUpTo
<1> QED
  BY <1>1 DEF AskRight, Agree, Facts, Distinct

LEMMA SetAnchorAsked ==
  ASSUME ChainInv, Trimming, AskRight, SetAnchor
  PROVE  AskRight'
<1>1. head = None /\ asked' = asked
  BY DEF SetAnchor, Sealer, ChainInv, Sealing
<1>2. asked.head = None /\ asked.pc \notin {"anchor", "rows", "chain"}
  BY <1>1 DEF Trimming, AskRight
<1> QED
  BY <1>1, <1>2 DEF AskRight

LEMMA SetHeadAsked ==
  ASSUME TypeOK, ChainInv, Trimming, meddled = "none", AskRight, SetHead
  PROVE  AskRight'
<1>0. UNCHANGED <<log, writer, asked, anchor>>
  BY DEF SetHead, logVars
<1>1. CASE asked.head = None
  <2>1. asked.pc \notin {"anchor", "rows", "chain"}
    BY <1>1 DEF AskRight
  <2> QED
    BY <1>0, <1>1, <2>1 DEF AskRight
<1>2. CASE asked.head # None
  <2>1. head # None /\ asked.head.id <= HeadId /\ FirstSealed <= asked.head.id /\ asked.head.id \in Nat
    BY <1>2, LinkParts, Bounds DEF Trimming, AskRight, TypeOK, AskedOK
  <2>2. /\ FirstSealed' = FirstSealed /\ FirstSealed \in Nat /\ HeadId \in Nat
        /\ \A id \in FirstSealed - 1..HeadId : PastUpTo(id)' = PastUpTo(id)
        /\ \A id \in FirstSealed..HeadId :
             sealed'[id - FirstSealed + 1] = sealed[id - FirstSealed + 1]
    BY <2>1, PastStays, SealedBelow
  <2>3. Held' = Held
    BY <1>0 DEF Held, InHand, Filling
  <2>4. PastUpTo(asked.head.id)' = PastUpTo(asked.head.id)
    <3>1. asked.head.id \in FirstSealed - 1..HeadId
      BY <2>1, <2>2
    <3> QED
      BY <1>0, <2>2, <3>1 DEF PastUpTo
  <2>5. Agree(asked.head.id, asked.rows) => Agree(asked.head.id, asked.rows)'
    <3>1. \A id \in FirstSealed..asked.head.id :
             sealed'[id - FirstSealed + 1] = sealed[id - FirstSealed + 1]
      BY <2>1, <2>2
    <3> QED
      BY <1>0, <2>2, <3>1 DEF Agree, Facts, Distinct
  <2> QED
    BY <1>0, <1>2, <2>2, <2>3, <2>4, <2>5 DEF AskRight
<1> QED
  BY <1>1, <1>2

LEMMA PruneAsked ==
  ASSUME TypeOK, Trimming, OneFills, OwnRows, SealedRight, SealRight, AskRight, Clean', Prune
  PROVE  AskRight'
<1>0. UNCHANGED <<log, writer, asked, sealed>>
  BY DEF Prune, logVars
<1>1. CASE anchor' = anchor
  BY <1>0, <1>1, AskStays
<1>2. CASE anchor' # anchor
  <2>1. PruneMoves /\ \A held \in Held : anchor'.id <= held
    BY <1>2, PruneSealsRight
  <2>2. asked.pc \notin {"rows", "chain"}
    BY <2>1 DEF PruneMoves, Prune, Blame, Clean
  <2>3. Held' = Held /\ FirstSealed' = FirstSealed /\ \A id : PastUpTo(id)' = PastUpTo(id)
    BY <1>0 DEF Held, InHand, Filling, FirstSealed, PastUpTo
  <2>4. ASSUME asked.head # None PROVE anchor'.id <= asked.head.id + 1
    <3>1. PICK held \in Held : held <= asked.head.id + 1
      BY <2>4 DEF AskRight
    <3>2. anchor' = Link(Min(Ids(log)), chain[Min(Ids(log)) - 1]) /\ Min(Ids(log)) \in 1..MaxId
      BY <1>2, PruneAs
    <3>3. anchor'.id \in Int /\ held \in Int /\ asked.head.id \in Int
      BY <2>4, <3>2, HeldIds, LinkParts, Bounds DEF Link, TypeOK, AskedOK
    <3> QED
      BY <2>1, <3>1, <3>3
  <2> QED
    BY <1>0, <2>2, <2>3, <2>4 DEF AskRight
<1> QED
  BY <1>1, <1>2

LEMMA AskAsked ==
  ASSUME TypeOK, ChainInv, NextIsHeld, Anchored, meddled = "none", NoAlarm, Ask
  PROVE  AskRight' /\ NoAlarm'
<1>0. /\ head # None /\ UNCHANGED <<log, writer, anchor, sealed, head, sealer>>
      /\ asked' = [NoCheck EXCEPT !.pc = "anchor", !.head = head]
  BY DEF Ask, logVars, chainVars
<1>1. asked'.pc = "anchor" /\ asked'.head = head
  BY <1>0 DEF NoCheck
<1>2. /\ head.id = HeadId /\ HeadId = FirstSealed + Len(sealed) - 1
      /\ sealed # <<>> /\ sealed \in Seq(Rows) /\ head.hash = sealed
  BY <1>0 DEF TypeOK, ChainOK, HeadId, ChainInv, Sealed, Agreeing, Hashes
<1>3. HeadId \in Nat /\ FirstSealed \in Nat /\ Len(sealed) \in Nat /\ Len(sealed) >= 1
  BY <1>0, <1>2, SealedBelow
<1>4. FirstSealed <= HeadId /\ HeadId - FirstSealed + 1 = Len(sealed)
  BY <1>2, <1>3
<1>5. head.hash = PastUpTo(head.id)
  BY <1>2, <1>3, <1>4, Beginning DEF PastUpTo
<1>6. \E held \in Held : held <= HeadId + 1
  BY <1>0 DEF NextIsHeld, Started, LowMark, Start, Held
<1>7. Held' = Held /\ FirstSealed' = FirstSealed /\ \A id : PastUpTo(id)' = PastUpTo(id)
  BY <1>0 DEF Held, InHand, Filling, FirstSealed, PastUpTo
<1> QED
  BY <1>0, <1>1, <1>2, <1>4, <1>5, <1>6, <1>7 DEF AskRight, Anchored, NoAlarm

LEMMA AskReads ==
  ASSUME TypeOK, Trimming, OwnRows, SealedRight, AskRight, NoAlarm, Clean', AskAnchor \/ AskRows
  PROVE  AskRight' /\ NoAlarm'
<1>0. UNCHANGED <<log, writer, anchor, sealed, head, sealer>> /\ AskedOK
  BY DEF AskAnchor, AskRows, logVars, chainVars, TypeOK
<1>1. /\ asked.pc \in {"anchor", "rows"} /\ asked.head # None /\ asked'.head = asked.head
      /\ AskAnchor => asked'.pc = "rows" /\ asked'.anchor = anchor
      /\ AskRows => asked'.pc = "chain" /\ asked'.anchor = anchor /\ asked'.rows = log
  BY <1>0 DEF AskAnchor, AskRows, AskedOK, AskRight
<1>2. AskRows => Agree(asked.head.id, log)
  <2>1. head # None /\ asked.head.id <= HeadId /\ asked.head.id \in Int
    BY <1>1, LinkParts, Bounds DEF Trimming, TypeOK, AskedOK
  <2>2. AskRows => ~HalfWritten
    BY DEF AskRows, Blame, Clean
  <2>3. \E held \in Held : held <= asked.head.id + 1
    BY <1>1 DEF AskRight
  <2> QED
    BY <2>1, <2>2, <2>3, AgreesNow
<1>3. Held' = Held /\ FirstSealed' = FirstSealed /\ \A id : PastUpTo(id)' = PastUpTo(id)
  BY <1>0 DEF Held, InHand, Filling, FirstSealed, PastUpTo
<1>4. AskRows => Agree(asked.head.id, log)'
  BY <1>0, <1>1, <1>2, <1>3 DEF Agree, Facts, Distinct, AskRows
<1> QED
  BY <1>0, <1>1, <1>3, <1>4 DEF AskRight, NoAlarm, Agree, Facts, Distinct

LEMMA AskAnswers ==
  ASSUME TypeOK, ChainInv, Trimming, Anchored, meddled = "none", AskRight, FilesRight, NoAlarm,
         AskChain \/ AskFiles
  PROVE  AskRight' /\ NoAlarm'
<1>0. UNCHANGED <<log, writer, anchor, sealed, head, sealer>> /\ AskedOK
  BY DEF AskChain, AskFiles, logVars, chainVars, TypeOK
<1>1. CASE AskChain
  <2>1. asked.pc = "chain" /\ asked.head # None /\ asked.anchor = anchor
    BY <1>1 DEF AskChain, AskRight
  <2>2. /\ asked.head \in Links /\ asked.rows \in Seq(Rows) /\ head # None /\ asked.head.id <= HeadId
        /\ FirstSealed <= asked.head.id /\ asked.head.hash = PastUpTo(asked.head.id)
        /\ anchor.id <= asked.head.id + 1 /\ Agree(asked.head.id, asked.rows)
    BY <1>0, <2>1 DEF AskedOK, Trimming, AskRight
  <2>3. Verified(asked.head, asked.anchor, asked.rows)
    BY <2>1, <2>2, VerifiedHolds
  <2>4. asked' = [NoCheck EXCEPT !.pc = "files"]
    BY <1>1, <2>3 DEF AskChain
  <2>5. asked'.pc = "files" /\ asked'.head = None
    BY <2>4 DEF NoCheck
  <2> QED
    BY <1>0, <2>5 DEF AskRight, NoAlarm
<1>2. CASE AskFiles
  <2>1. asked' = [asked EXCEPT !.pc = "idle"] /\ asked.pc = "files"
    BY <1>2, FilesAgree DEF AskFiles
  <2>2. asked'.pc = "idle" /\ asked'.head = None
    BY <1>0, <2>1 DEF AskedOK, AskRight
  <2> QED
    BY <1>0, <2>2 DEF AskRight, NoAlarm
<1> QED
  BY <1>1, <1>2

LEMMA OthersAsk ==
  ASSUME TypeOK, ChainInv, Trimming, OneFills, NextIsHeld, Anchored, OwnRows, SealedRight, SealRight,
         FilesRight, AskRight, NoAlarm, Clean, Clean',
         TickSteps \/ DailySteps \/ WaitIsOver \/ StopSealer \/ AskSteps
  PROVE  AskRight' /\ NoAlarm'
<1>0. UNCHANGED <<log, counter, writer>> /\ SealerOK /\ meddled = "none"
  BY OthersMoveAs DEF logVars, TypeOK, Clean
<1>1. CASE AskSteps
  BY <1>0, <1>1, AskAsked, AskReads, AskAnswers DEF AskSteps
<1>2. CASE ~AskSteps
  <2>1. asked' = asked
    BY <1>2 DEF TickSteps, TickStart, TickRows, SetAnchor, Seal, SetHead, Sleep, DailySteps, Verify,
       WriteFile, WriteSum, SetThrough, ReplicaFails, Prune, Forget, WaitIsOver, StopSealer
  <2>2. sealer'.verdict = "ok"
    <3>1. CASE Verify
      BY <1>0, <3>1, VerifyPasses
    <3>2. CASE Prune
      BY <1>0, <3>2, PruneAs DEF NoAlarm, SealerOK
    <3>3. CASE \/ TickStart \/ TickRows \/ SetAnchor \/ Seal \/ SetHead \/ Sleep
               \/ WriteFile \/ WriteSum \/ SetThrough \/ ReplicaFails \/ Forget \/ WaitIsOver \/ StopSealer
      BY <1>0, <3>3 DEF NoAlarm, SealerOK, TickStart, TickRows, SetAnchor, Seal, SetHead, Sleep, WriteFile,
         WriteSum, SetThrough, ReplicaFails, Forget, WaitIsOver, StopSealer, Then, Rests
    <3> QED
      BY <1>2, <3>1, <3>2, <3>3 DEF TickSteps, DailySteps
  <2>3. NoAlarm'
    BY <2>1, <2>2 DEF NoAlarm
  <2>4. CASE SetAnchor \/ SetHead \/ Prune
    BY <1>0, <2>3, <2>4, SetAnchorAsked, SetHeadAsked, PruneAsked
  <2>5. CASE ~(SetAnchor \/ SetHead \/ Prune)
    <3>1. UNCHANGED <<anchor, sealed>>
      BY <1>2, <2>5 DEF TickSteps, TickStart, TickRows, Seal, Sleep, DailySteps, Verify,
         WriteFile, WriteSum, SetThrough, ReplicaFails, Forget, WaitIsOver, StopSealer, chainVars
    <3> QED
      BY <1>0, <2>1, <2>3, <3>1, AskStays
  <2> QED
    BY <2>4, <2>5
<1> QED
  BY <1>1, <1>2

-----------------------------------------------------------------------------
(* An alarm has a cause *)

LEMMA AllRightStays ==
  ASSUME IInv, TypeOK', AllRight, Next
  PROVE  AllRight'
<1> SUFFICES ASSUME Clean'
             PROVE  (OwnRows /\ SealedRight /\ SealRight /\ FilesRight /\ AskRight /\ NoAlarm)'
  BY DEF AllRight
<1>0. TypeOK /\ ChainInv /\ Trimming /\ Oldest /\ Replicated
  BY DEF IInv, ChainInv
<1>1. Clean /\ ~MeddleSteps
  BY <1>0, CleanBefore
<1>2. /\ OwnRows /\ SealedRight /\ SealRight /\ FilesRight /\ AskRight /\ NoAlarm
      /\ OneFills /\ NextIsHeld /\ Anchored /\ meddled = "none"
  BY <1>0, <1>1 DEF AllRight, Oldest, OldestTrimmed, Clean
<1>3. ASSUME NEW w \in Writers, WriterMoves(w)
      PROVE  (OwnRows /\ SealedRight /\ SealRight /\ FilesRight /\ AskRight /\ NoAlarm)'
  <2>1. UNCHANGED <<chain, head, anchor, sealed, through, files, sealer, asked>>
    BY <1>0, <1>3, WriterMovesAs DEF chainVars, diskVars
  <2>2. Keeps /\ OwnRows'
    BY <1>0, <1>2, <1>3, WritersKeep
  <2>3. SealedRight' /\ SealRight'
    BY <1>0, <1>2, <2>1, <2>2, WritersSealRight
  <2>4. AskRight'
    BY <1>0, <1>2, <1>3, WritersAskRight
  <2>5. FilesRight' /\ NoAlarm'
    <3>1. UNCHANGED <<HeadId, FirstSealed>> /\ \A id : PastUpTo(id)' = PastUpTo(id)
      BY <2>1 DEF HeadId, FirstSealed, PastUpTo
    <3> QED
      BY <1>2, <2>1, <3>1 DEF FilesRight, TrueCopy, NoAlarm
  <2> QED
    BY <2>2, <2>3, <2>4, <2>5
<1>4. CASE TickSteps \/ DailySteps \/ WaitIsOver \/ StopSealer \/ AskSteps
  <2>1. OwnRows'
    BY <1>0, <1>2, <1>4, OthersMoveAs, OthersOwn DEF logVars
  <2>2. SealedRight' /\ SealRight'
    BY <1>0, <1>1, <1>2, <1>4, OthersSealRight
  <2>3. FilesRight'
    BY <1>0, <1>2, <1>4, OthersFiles
  <2>4. AskRight' /\ NoAlarm'
    BY <1>0, <1>1, <1>2, <1>4, OthersAsk
  <2> QED
    BY <2>1, <2>2, <2>3, <2>4
<1> QED
  BY <1>1, <1>3, <1>4 DEF Next, WriterMoves

LEMMA AllRightAtFirst == Init => AllRight
<1> SUFFICES ASSUME Init PROVE OwnRows /\ SealedRight /\ SealRight /\ FilesRight /\ AskRight /\ NoAlarm
  BY DEF AllRight
<1>1. /\ log = <<>> /\ head = None /\ files = {} /\ sealer.pc = "idle" /\ sealer.verdict = "ok"
      /\ asked.pc = "idle" /\ asked.head = None /\ \A w \in Writers : writer[w].pc = "idle"
  BY DEF Init, NoCheck, AtRest
<1>2. OwnRows
  BY <1>1 DEF OwnRows, LogOwn, Facts, Counted, Distinct, Ids, NewestInHand, HandsOwn, Filling, IdsFresh,
     OnTheWay
<1> QED
  BY <1>1, <1>2 DEF SealedRight, SealRight, FilesRight, AskRight, NoAlarm

\* No alarm is false: whenever the daily check, or the one an admin asks for, says
\* that the log is wrong, somebody changed it or one of the slips happened that the
\* model names: two writers trimmed at once, or one died with rows in hand, or
\* dropped a row newer than one it kept or the last the chain can go on from; a
\* tick or a check read a half-written list; a row came after its id was sealed, or
\* more rows than the slack were in front of one that was waited for; the anchor
\* moved under an admin's check; or a file of the replica could not be written.
\* Deaths between any other calls, and how writers and sealer interleave, raise none.
THEOREM AlarmsHaveACause == Spec => []AlarmsTrue
<1>1. IInv /\ IInv' /\ AllRight /\ [Next]_vars => AllRight'
  <2>1. ASSUME IInv, IInv', AllRight, Next PROVE AllRight'
    BY <2>1, AllRightStays DEF IInv
  <2>2. ASSUME AllRight, UNCHANGED vars PROVE AllRight'
    <3>1. UNCHANGED <<counter, log, chain, head, anchor, sealed, through, files, writer, sealer, asked,
                      slips, meddled, events>>
      BY <2>2 DEF vars, logVars, chainVars, diskVars, tellVars
    <3>2. UNCHANGED <<HeadId, FirstSealed, Held, HeldFull, First, NewHash>>
      BY <3>1 DEF HeadId, FirstSealed, Held, InHand, Filling, HeldFull, First, NewHash
    <3>3. (OwnRows => OwnRows') /\ (Clean' => Clean)
      BY <3>1, OthersOwn DEF Clean
    <3>4. (SealedRight => SealedRight') /\ (SealRight => SealRight')
      <4>1. Start' = Start
        BY <3>1, <3>2 DEF Start
      <4> QED
        BY <3>1, <3>2, <4>1 DEF SealedRight, SealRight, Right, Gone
    <3>5. (FilesRight => FilesRight') /\ (AskRight => AskRight') /\ (NoAlarm => NoAlarm')
      BY <3>1, <3>2, AskStays DEF FilesRight, TrueCopy, PastUpTo, NoAlarm
    <3> QED
      BY <2>2, <3>3, <3>4, <3>5 DEF AllRight
  <2> QED
    BY <2>1, <2>2
<1>2. AllRight => AlarmsTrue
  BY DEF AllRight, Clean, NoAlarm, AlarmsTrue
<1> QED
  BY <1>1, <1>2, Invariance, AllRightAtFirst, PTL DEF Spec
===============================================================================
