--------------------------- MODULE AuditChainProofs ---------------------------
(***************************************************************************)
(* What holds of the audit log's chain for every set of writers, every cap *)
(* and slack, and any number of deaths, failed calls and changes: what was *)
(* sealed stays sealed, the replica has all of it, and a check that passes *)
(* has found every row as it was sealed.                                   *)
(***************************************************************************)
EXTENDS AuditChain, WellFoundedInduction, TLAPS

-----------------------------------------------------------------------------
(* The inductive invariant *)

\* The oldest sealed id, known as soon as the first seal has its anchor.
First == IF head = None THEN anchor.id ELSE FirstSealed

\* What was sealed is as long as its ids, and the chain goes from the anchor to
\* the head; it goes on as far as a seal whose head is not written yet.
Sealing ==
  /\ sealer.pc \in {"rows", "anchor", "seal"} /\ head # None => sealer.counter > HeadId
  /\ sealer.pc = "anchor" => head = None
  /\ sealer.pc \in {"anchor", "seal"} /\ head = None => DOMAIN sealer.byId # {}
  /\ sealer.pc = "seal" /\ head = None => anchor = Link(Start, Zero)
  /\ \A id \in DOMAIN sealer.byId : sealer.byId[id].id = id

Sealed ==
  /\ head = None => sealed = <<>>
  /\ head # None =>
       /\ anchor # None /\ sealed # <<>> /\ FirstSealed <= anchor.id
       /\ Len(head.hash) = Len(sealed) /\ HeadId = FirstSealed + Len(sealed) - 1
       /\ anchor.id..HeadId \subseteq DOMAIN chain

NewHash == chain[sealer.counter]

NewSeal == sealer.pc = "head" =>
  /\ anchor # None /\ sealer.counter > HeadId /\ sealer.counter \in DOMAIN chain
  /\ head = None => anchor.id <= sealer.counter /\ anchor.hash = Zero /\ NewHash[1].id = anchor.id
  /\ First + Len(NewHash) - 1 = sealer.counter
  /\ anchor.id..sealer.counter \subseteq DOMAIN chain

\* Nobody rewrote the chain: it holds what was sealed.
Agreeing == meddled # "rewrite" =>
  /\ head # None =>
       /\ head.hash = sealed
       /\ \A id \in anchor.id..HeadId : chain[id] = PastUpTo(id)
  /\ sealer.pc = "head" =>
       /\ SubSeq(NewHash, 1, Len(sealed)) = sealed
       /\ \A id \in anchor.id..sealer.counter : chain[id] = SubSeq(NewHash, 1, id - First + 1)

\* Whoever rewrote it: every hash ends in what was sealed for its id, or in what
\* somebody put there instead, and the ids go up by one.
Genuine ==
  /\ head # None =>
       /\ \A i \in 1..Len(sealed) : sealed[i].id = FirstSealed + i - 1
       /\ \A i \in 1..Len(head.hash) : head.hash[i].id = FirstSealed + i - 1
       /\ \A id \in anchor.id..HeadId :
            LET n == id - FirstSealed + 1
            IN Len(chain[id]) = n /\ chain[id][n] \in {sealed[n], Fake(id)}
  /\ sealer.pc = "head" =>
       /\ \A i \in 1..Len(NewHash) : NewHash[i].id = First + i - 1
       /\ \A id \in anchor.id..sealer.counter :
            id > HeadId => chain[id] = SubSeq(NewHash, 1, id - First + 1)

\* The rows a writer has deleted and not put back.
Filling(w) == writer[w].pc = "fill"
InHand == UNION {Ids(writer[w].keep) : w \in {v \in Writers : Filling(v)}}

\* The next row to seal, or an older one, is in the log or is put back.
LowMark == IF head = None /\ sealer.pc = "head" THEN sealer.counter + 1 ELSE Start

Trimming ==
  /\ \A w \in Writers : Rewriting(w) => Len(writer[w].keep) <= Cap
  /\ \A w \in Writers : Filling(w) => writer[w].keep # <<>>
  /\ asked.head # None => head # None /\ asked.head.id <= HeadId

OneFills == \A w \in Writers : Filling(w) =>
  ~OthersRewrite(w) /\ Len(log) + Len(writer[w].keep) <= Cap
NextIsHeld == Started => \E id \in Ids(log) \cup InHand : id <= LowMark
Anchored == head # None =>
  /\ anchor.id <= HeadId + 1
  /\ meddled # "rewrite" => anchor.hash = PastUpTo(anchor.id - 1)

Oldest == OldestTrimmed => OneFills /\ NextIsHeld /\ Anchored

\* The files hold every id up to the one the replica goes to.
Whole ==
  /\ through > 0 => FirstSealed..through \subseteq Copied
  /\ sealer.pc = "prune" => through >= HeadId
  /\ head # None => anchor.id <= FirstSealed \/ anchor.id <= through + 1

NewFile(f) == f.name = FileName /\ FileName[1]..FileName[2] \subseteq DOMAIN f.body

Replicated ==
  /\ through <= HeadId
  /\ \A f \in files : DOMAIN f.body \subseteq f.name[1]..f.name[2]
  /\ sealer.pc \in {"file", "sum", "through"} => through < HeadId
  /\ sealer.pc = "sum" => \E f \in files : NewFile(f)
  /\ sealer.pc = "through" => \E f \in Finished : NewFile(f)
  /\ OldestTrimmed /\ "disk" \notin slips => Whole

IInv ==
  /\ TypeOK /\ Sealing /\ Sealed /\ NewSeal /\ Agreeing /\ Genuine
  /\ Trimming /\ Oldest /\ Replicated

-----------------------------------------------------------------------------
(* The least and the greatest of some ids *)

Below == {p \in Nat \X Nat : p[1] < p[2]}

LEMMA NoEndlessDescent == IsWellFoundedOn(Below, Nat)
BY Zenon, NatLessThanWellFounded DEF OpToRel, Below

LEMMA LeastId ==
  ASSUME NEW S \in SUBSET Nat, S # {}
  PROVE  Min(S) \in S /\ \A y \in S : Min(S) <= y
<1>1. \E x \in S : \A y \in S : ~ (<<y, x>> \in Below)
  BY NoEndlessDescent, WFMin, Zenon
<1>2. \E x \in S : \A y \in S : x <= y
  <2>1. PICK x \in S : \A y \in S : <<y, x>> \notin Below
    BY <1>1
  <2>2. ASSUME NEW y \in S PROVE x <= y
    <3>1. <<y, x>> \in Nat \X Nat /\ <<y, x>>[1] = y /\ <<y, x>>[2] = x
      OBVIOUS
    <3>2. ~(y < x)
      BY <2>1, <3>1 DEF Below
    <3> QED
      BY <3>2
  <2> QED
    BY <2>2
<1> QED
  BY <1>2 DEF Min
LEMMA GreatestId ==
  ASSUME NEW S \in SUBSET Nat, S # {}, NEW n \in Nat, \A s \in S : s <= n
  PROVE  Max(S) \in S /\ \A y \in S : y <= Max(S)
<1> DEFINE T == {k \in Nat : n - k \in S}
<1>1. T \in SUBSET Nat /\ T # {}
  <2>1. PICK s \in S : TRUE
    OBVIOUS
  <2>2. n - s \in Nat /\ n - (n - s) = s
    OBVIOUS
  <2> QED
    BY <2>1, <2>2
<1> HIDE DEF T
<1>2. Min(T) \in T /\ \A y \in T : Min(T) <= y
  BY <1>1, LeastId
<1>3. \E x \in S : \A y \in S : x >= y
  <2>1. Min(T) \in Nat /\ n - Min(T) \in S
    BY <1>2 DEF T
  <2>2. ASSUME NEW y \in S PROVE n - Min(T) >= y
    <3>1. n - y \in Nat /\ n - (n - y) = y
      OBVIOUS
    <3>2. Min(T) <= n - y
      BY <1>2, <3>1 DEF T
    <3> QED
      BY <2>1, <3>2
  <2> QED
    BY <2>1, <2>2
<1> QED
  BY <1>3 DEF Max

LEMMA OfTwo ==
  ASSUME NEW a \in Int, NEW b \in Int
  PROVE  /\ Min({a, b}) \in {a, b} /\ Min({a, b}) <= a /\ Min({a, b}) <= b
         /\ Max({a, b}) \in {a, b} /\ Max({a, b}) >= a /\ Max({a, b}) >= b
<1>1. (\E x \in {a, b} : \A y \in {a, b} : x <= y) /\ \E x \in {a, b} : \A y \in {a, b} : x >= y
  OBVIOUS
<1> QED
  BY <1>1 DEF Min, Max
-----------------------------------------------------------------------------
(* Rows, hashes and what is kept by id *)

LEMMA MapParts ==
  ASSUME NEW S, NEW m, IsMap(m, S)
  PROVE  /\ DOMAIN m \in SUBSET (1..MaxId) /\ m = [id \in DOMAIN m |-> m[id]]
         /\ \A id \in DOMAIN m : m[id] \in S /\ id \in 1..MaxId
BY DEF IsMap

LEMMA MapOf ==
  ASSUME NEW S, NEW ids \in SUBSET (1..MaxId), NEW m \in [ids -> S]
  PROVE  IsMap(m, S)
BY DEF IsMap

LEMMA LinkParts ==
  ASSUME NEW link \in Links, link # None
  PROVE  link.id \in 1..MaxId /\ link.hash \in Hashes /\ link = Link(link.id, link.hash)
BY DEF Links, Link

LEMMA LinkOf ==
  ASSUME NEW id \in 1..MaxId, NEW hash \in Hashes
  PROVE  /\ Link(id, hash) \in Links /\ Link(id, hash) # None
         /\ Link(id, hash).id = id /\ Link(id, hash).hash = hash
BY NoneAssumption DEF Links, Link

LEMMA HeadParts ==
  ASSUME ChainOK
  PROVE  /\ HeadId \in 0..MaxId /\ HeadHash \in Hashes
         /\ head # None => HeadId = head.id /\ HeadId >= 1 /\ HeadHash = head.hash
         /\ head = None => HeadId = 0 /\ HeadHash = <<>>
<1>1. MaxId \in Nat
  BY ConstantsAssumption
<1> QED
  BY <1>1, LinkParts DEF ChainOK, HeadId, HeadHash, Zero, Hashes

LEMMA IdsOf ==
  ASSUME NEW rows \in Seq(Rows)
  PROVE  /\ Ids(rows) \in SUBSET (1..MaxId)
         /\ \A id : id \in Ids(rows) <=> \E k \in 1..Len(rows) : rows[k].id = id
         /\ rows # <<>> => Ids(rows) # {}
<1>0. /\ DOMAIN rows = 1..Len(rows) /\ Len(rows) \in Nat
      /\ \A k \in 1..Len(rows) : rows[k] \in Rows
  OBVIOUS
<1>1. \A k \in 1..Len(rows) : rows[k].id \in 1..MaxId
  BY <1>0 DEF Rows
<1>2. rows # <<>> => 1 \in DOMAIN rows
  BY <1>0
<1> QED
  BY <1>0, <1>1, <1>2 DEF Ids

LEMMA ByIdMap ==
  ASSUME NEW rows \in Seq(Rows), NEW past \in Nat
  PROVE  /\ DOMAIN ById(rows, past) = {id \in Ids(rows) : id > past}
         /\ \A id \in DOMAIN ById(rows, past) :
              \E k \in DOMAIN rows : ById(rows, past)[id] = rows[k] /\ rows[k].id = id
         /\ IsMap(ById(rows, past), Rows)
<1> DEFINE at(id) == {k \in DOMAIN rows : rows[k].id = id}
           ids == {i \in Ids(rows) : i > past}
<1>1. ASSUME NEW id \in Ids(rows) PROVE Max(at(id)) \in at(id)
  <2>1. /\ at(id) \in SUBSET Nat /\ at(id) # {} /\ Len(rows) \in Nat
        /\ \A k \in at(id) : k <= Len(rows)
    BY DEF Ids
  <2> HIDE DEF at
  <2> QED
    BY <2>1, GreatestId
<1>2. ids \in SUBSET (1..MaxId) /\ ids \subseteq Ids(rows)
  BY IdsOf
<1>3. ById(rows, past) = [id \in ids |-> rows[Max(at(id))]]
  BY DEF ById
<1>4. \A id \in ids : /\ Max(at(id)) \in DOMAIN rows /\ rows[Max(at(id))].id = id
                      /\ rows[Max(at(id))] \in Rows
  BY <1>1, <1>2
<1> HIDE DEF at, ids
<1>5. ById(rows, past) \in [ids -> Rows]
  BY <1>3, <1>4
<1>6. IsMap(ById(rows, past), Rows)
  BY <1>2, <1>5, MapOf
<1>7. \A id \in ids : ById(rows, past)[id] = rows[Max(at(id))]
  BY <1>3
<1>8. DOMAIN ById(rows, past) = ids
  BY <1>3
<1> QED
  BY <1>4, <1>6, <1>7, <1>8 DEF ids

LEMMA ByIdIds ==
  ASSUME NEW rows \in Seq(Rows), NEW past \in Nat
  PROVE  \A id \in DOMAIN ById(rows, past) : ById(rows, past)[id].id = id
<1> DEFINE byId == ById(rows, past)
<1>1. \A id \in DOMAIN byId : \E k \in DOMAIN rows : byId[id] = rows[k] /\ rows[k].id = id
  BY ByIdMap, Zenon
<1> HIDE DEF byId
<1>2. \A id \in DOMAIN byId : byId[id].id = id
  BY <1>1
<1> QED
  BY <1>2 DEF byId

LEMMA NewestRows ==
  ASSUME NEW rows \in Seq(Rows), NEW n \in Int
  PROVE  /\ Newest(rows, n) \in Seq(Rows) /\ Ids(Newest(rows, n)) \subseteq Ids(rows)
         /\ n \in Nat => Len(Newest(rows, n)) <= n
<1> DEFINE m == Min({n, Len(rows)})
<1>0. Len(rows) \in Nat /\ Len(rows) \in Int
  OBVIOUS
<1>a. m \in {n, Len(rows)} /\ m <= n /\ m <= Len(rows)
  BY <1>0, OfTwo, Zenon
<1>1. m \in Int /\ m <= n /\ m <= Len(rows)
  BY <1>0, <1>a
<1> HIDE DEF m
<1>2. SubSeq(rows, 1, m) \in Seq(Rows)
  BY <1>0, <1>1
<1>3. /\ Len(SubSeq(rows, 1, m)) = IF m < 1 THEN 0 ELSE m
      /\ DOMAIN SubSeq(rows, 1, m) = 1..Len(SubSeq(rows, 1, m))
      /\ \A k \in 1..Len(SubSeq(rows, 1, m)) : SubSeq(rows, 1, m)[k] = rows[k]
  BY <1>0, <1>1
<1>4. Newest(rows, n) = SubSeq(rows, 1, m)
  BY DEF Newest, m
<1>5. \A k \in DOMAIN Newest(rows, n) : k \in DOMAIN rows /\ Newest(rows, n)[k] = rows[k]
  BY <1>0, <1>1, <1>3, <1>4
<1> QED
  BY <1>0, <1>1, <1>2, <1>3, <1>4, <1>5 DEF Ids

LEMMA SealOfRow ==
  ASSUME NEW byId, IsMap(byId, Rows), NEW id \in 1..MaxId,
         \A i \in DOMAIN byId : byId[i].id = i
  PROVE  SealOf(byId, id) \in Rows /\ SealOf(byId, id).id = id
<1>1. CASE id \in DOMAIN byId
  BY <1>1, MapParts DEF SealOf
<1>2. CASE id \notin DOMAIN byId
  BY <1>2 DEF SealOf, Gap, Rows
<1> QED
  BY <1>1, <1>2

\* Sequences of rows: what the writers and the ones who change the log do to it.
LEMMA RowsAround ==
  ASSUME NEW rows \in Seq(Rows), NEW row \in Rows
  PROVE  /\ <<row>> \o rows \in Seq(Rows) /\ Len(<<row>> \o rows) = Len(rows) + 1
         /\ Append(rows, row) \in Seq(Rows)
         /\ Ids(<<row>> \o rows) = {row.id} \cup Ids(rows)
         /\ Ids(Append(rows, row)) = {row.id} \cup Ids(rows)
<1>1. /\ <<row>> \o rows \in Seq(Rows) /\ Len(<<row>> \o rows) = Len(rows) + 1
      /\ Append(rows, row) \in Seq(Rows) /\ Len(Append(rows, row)) = Len(rows) + 1
      /\ Len(rows) \in Nat /\ DOMAIN rows = 1..Len(rows)
      /\ DOMAIN (<<row>> \o rows) = 1..Len(rows) + 1
      /\ DOMAIN Append(rows, row) = 1..Len(rows) + 1
      /\ \A k \in 1..Len(rows) + 1 : (<<row>> \o rows)[k] = IF k = 1 THEN row ELSE rows[k - 1]
      /\ \A k \in 1..Len(rows) + 1 : Append(rows, row)[k] = IF k = Len(rows) + 1 THEN row ELSE rows[k]
  OBVIOUS
<1>2. \A id : id \in Ids(<<row>> \o rows) <=> id = row.id \/ id \in Ids(rows)
  <2>1. (<<row>> \o rows)[1] = row
    BY <1>1
  <2>2. \A k \in 1..Len(rows) : (<<row>> \o rows)[k + 1] = rows[k] /\ k + 1 \in 1..Len(rows) + 1
    BY <1>1
  <2>3. \A k \in 1..Len(rows) + 1 : k = 1 \/ (k - 1 \in 1..Len(rows) /\ (<<row>> \o rows)[k] = rows[k - 1])
    BY <1>1
  <2> DEFINE new == <<row>> \o rows
  <2>4. DOMAIN new = 1..Len(rows) + 1 /\ DOMAIN rows = 1..Len(rows) /\ 1 \in DOMAIN new
    BY <1>1
  <2> HIDE DEF new
  <2>5. ASSUME NEW k \in DOMAIN new PROVE new[k].id = row.id \/ new[k].id \in Ids(rows)
    BY <2>1, <2>3, <2>4, <2>5 DEF Ids, new
  <2>6. ASSUME NEW k \in DOMAIN rows PROVE rows[k].id \in Ids(new)
    BY <2>2, <2>4, <2>6 DEF Ids, new
  <2>7. row.id \in Ids(new)
    BY <2>1, <2>4 DEF Ids, new
  <2> QED
    BY <2>5, <2>6, <2>7 DEF Ids, new
<1>3. \A id : id \in Ids(Append(rows, row)) <=> id = row.id \/ id \in Ids(rows)
  <2>1. \A k \in 1..Len(rows) + 1 : k = Len(rows) + 1 \/ k \in 1..Len(rows)
    BY <1>1
  <2>2. Len(rows) + 1 \in 1..Len(rows) + 1 /\ Append(rows, row)[Len(rows) + 1] = row
    BY <1>1
  <2>3. \A k \in 1..Len(rows) : k \in 1..Len(rows) + 1 /\ Append(rows, row)[k] = rows[k]
    BY <1>1
  <2> QED
    BY <1>1, <2>1, <2>2, <2>3 DEF Ids
<1> QED
  BY <1>1, <1>2, <1>3

LEMMA RowPutBack ==
  ASSUME NEW rows \in Seq(Rows), rows # <<>>
  PROVE  /\ rows[Len(rows)] \in Rows /\ SubSeq(rows, 1, Len(rows) - 1) \in Seq(Rows)
         /\ Len(SubSeq(rows, 1, Len(rows) - 1)) = Len(rows) - 1
         /\ Ids(rows) = {rows[Len(rows)].id} \cup Ids(SubSeq(rows, 1, Len(rows) - 1))
<1> DEFINE rest == SubSeq(rows, 1, Len(rows) - 1)
<1>1. Len(rows) \in Nat /\ Len(rows) >= 1 /\ \A k \in 1..Len(rows) : rows[k] \in Rows
      /\ DOMAIN rows = 1..Len(rows)
  OBVIOUS
<1>2. /\ rest \in Seq(Rows) /\ Len(rest) = Len(rows) - 1 /\ DOMAIN rest = 1..Len(rest)
      /\ \A k \in 1..Len(rows) - 1 : rest[k] = rows[k]
  <2> DEFINE n == Len(rows) - 1
  <2>1. n \in Nat /\ n <= Len(rows)
    BY <1>1
  <2> HIDE DEF n
  <2>2. /\ SubSeq(rows, 1, n) \in Seq(Rows) /\ Len(SubSeq(rows, 1, n)) = n
        /\ DOMAIN SubSeq(rows, 1, n) = 1..n /\ \A k \in 1..n : SubSeq(rows, 1, n)[k] = rows[k]
    BY <1>1, <2>1
  <2> QED
    BY <2>2 DEF n
<1> HIDE DEF rest
<1>3. \A k \in 1..Len(rows) : k = Len(rows) \/ (k \in 1..Len(rest) /\ rest[k] = rows[k])
  BY <1>1, <1>2
<1>4. \A k \in 1..Len(rest) : k \in 1..Len(rows) /\ rest[k] = rows[k]
  BY <1>1, <1>2
<1>5. \A id : id \in Ids(rows) <=> id = rows[Len(rows)].id \/ id \in Ids(rest)
  <2>1. Len(rows) \in 1..Len(rows)
    BY <1>1
  <2> QED
    BY <1>1, <1>2, <1>3, <1>4, <2>1 DEF Ids
<1> QED
  BY <1>1, <1>2, <1>5 DEF rest

LEMMA RowChanged ==
  ASSUME NEW rows \in Seq(Rows), NEW k \in DOMAIN rows
  PROVE  /\ [rows EXCEPT ![k] = Fake(@.id)] \in Seq(Rows)
         /\ Ids([rows EXCEPT ![k] = Fake(@.id)]) = Ids(rows)
         /\ Len([rows EXCEPT ![k] = Fake(@.id)]) = Len(rows)
<1> DEFINE new == [rows EXCEPT ![k] = Fake(@.id)]
<1>0. rows[k] \in Rows /\ DOMAIN rows = 1..Len(rows)
  OBVIOUS
<1>1. Fake(rows[k].id) \in Rows /\ Fake(rows[k].id).id = rows[k].id
  BY <1>0 DEF Rows, Fake
<1>2. /\ new \in Seq(Rows) /\ Len(new) = Len(rows) /\ DOMAIN new = DOMAIN rows
      /\ \A i \in DOMAIN rows : new[i] = IF i = k THEN Fake(rows[k].id) ELSE rows[i]
  BY <1>1
<1> HIDE DEF new
<1>3. \A i \in 1..Len(rows) : new[i].id = rows[i].id
  BY <1>1, <1>2
<1>4. Ids(new) = Ids(rows)
  BY <1>0, <1>2, <1>3 DEF Ids
<1> QED
  BY <1>2, <1>4 DEF new

LEMMA RowRemoved ==
  ASSUME NEW rows \in Seq(Rows), NEW k \in DOMAIN rows
  PROVE  SubSeq(rows, 1, k - 1) \o SubSeq(rows, k + 1, Len(rows)) \in Seq(Rows)
<1>1. k \in 1..Len(rows) /\ Len(rows) \in Nat
  OBVIOUS
<1>2. SubSeq(rows, 1, k - 1) \in Seq(Rows) /\ SubSeq(rows, k + 1, Len(rows)) \in Seq(Rows)
  BY <1>1
<1> QED
  BY <1>2

-----------------------------------------------------------------------------
(* Beginnings of a hash *)

LEMMA SameSeq ==
  ASSUME NEW s \in Seq(Rows), NEW t \in Seq(Rows), Len(s) = Len(t),
         \A k \in 1..Len(s) : s[k] = t[k]
  PROVE  s = t
OBVIOUS

LEMMA Beginning ==
  ASSUME NEW s \in Seq(Rows), NEW n \in 0..Len(s)
  PROVE  /\ SubSeq(s, 1, n) \in Seq(Rows) /\ Len(SubSeq(s, 1, n)) = n
         /\ \A k \in 1..n : SubSeq(s, 1, n)[k] = s[k] /\ s[k] \in Rows
         /\ n = Len(s) => SubSeq(s, 1, n) = s
         /\ n = 0 => SubSeq(s, 1, n) = <<>>
<1>1. Len(s) \in Nat /\ n \in Nat /\ n <= Len(s)
  OBVIOUS
<1>2. /\ SubSeq(s, 1, n) \in Seq(Rows) /\ Len(SubSeq(s, 1, n)) = n
      /\ \A k \in 1..n : SubSeq(s, 1, n)[k] = s[k] /\ s[k] \in Rows
  BY <1>1
<1>3. n = Len(s) => SubSeq(s, 1, n) = s
  BY <1>1, <1>2, SameSeq
<1> QED
  BY <1>1, <1>2, <1>3

LEMMA BeginningOfBeginning ==
  ASSUME NEW s \in Seq(Rows), NEW n \in 0..Len(s), NEW m \in 0..n
  PROVE  SubSeq(SubSeq(s, 1, n), 1, m) = SubSeq(s, 1, m)
<1>1. /\ SubSeq(s, 1, n) \in Seq(Rows) /\ Len(SubSeq(s, 1, n)) = n
      /\ \A k \in 1..n : SubSeq(s, 1, n)[k] = s[k]
  BY Beginning
<1>2. m \in 0..Len(s) /\ Len(s) \in Nat
  OBVIOUS
<1>3. /\ SubSeq(s, 1, m) \in Seq(Rows) /\ Len(SubSeq(s, 1, m)) = m
      /\ \A k \in 1..m : SubSeq(s, 1, m)[k] = s[k]
  BY <1>2, Beginning
<1> DEFINE t == SubSeq(s, 1, n)
<1>4. t \in Seq(Rows) /\ m \in 0..Len(t) /\ \A k \in 1..m : t[k] = s[k]
  BY <1>1
<1> HIDE DEF t
<1>5. /\ SubSeq(t, 1, m) \in Seq(Rows) /\ Len(SubSeq(t, 1, m)) = m
      /\ \A k \in 1..m : SubSeq(t, 1, m)[k] = t[k]
  BY <1>4, Beginning
<1>6. SubSeq(t, 1, m) = SubSeq(s, 1, m)
  BY <1>3, <1>4, <1>5, SameSeq
<1> QED
  BY <1>6 DEF t

LEMMA Continued ==
  ASSUME NEW h \in Seq(Rows), NEW t \in Seq(Rows), NEW r \in Seq(Rows),
         Len(r) <= Len(t), \A k \in 1..Len(r) : r[k] = t[k]
  PROVE  /\ h \o t \in Seq(Rows) /\ Len(h \o t) = Len(h) + Len(t)
         /\ SubSeq(h \o t, 1, Len(h)) = h
         /\ Len(t) > 0 => (h \o t)[Len(h) + 1] = t[1]
         /\ SubSeq(h \o t, 1, Len(h) + Len(r)) = h \o r
<1>1. Len(h) \in Nat /\ Len(t) \in Nat /\ Len(r) \in Nat
  OBVIOUS
<1> DEFINE s == h \o t
<1>2. /\ s \in Seq(Rows) /\ Len(s) = Len(h) + Len(t)
      /\ \A k \in 1..Len(h) + Len(t) : s[k] = IF k <= Len(h) THEN h[k] ELSE t[k - Len(h)]
  BY <1>1
<1>3. /\ h \o r \in Seq(Rows) /\ Len(h \o r) = Len(h) + Len(r)
      /\ \A k \in 1..Len(h) + Len(r) : (h \o r)[k] = IF k <= Len(h) THEN h[k] ELSE r[k - Len(h)]
  BY <1>1
<1>4. Len(h) + Len(r) \in 0..Len(s) /\ Len(h) \in 0..Len(s)
  BY <1>1, <1>2
<1> HIDE DEF s
<1>5. /\ SubSeq(s, 1, Len(h) + Len(r)) \in Seq(Rows)
      /\ Len(SubSeq(s, 1, Len(h) + Len(r))) = Len(h) + Len(r)
      /\ \A k \in 1..Len(h) + Len(r) : SubSeq(s, 1, Len(h) + Len(r))[k] = s[k]
      /\ SubSeq(s, 1, Len(h)) \in Seq(Rows) /\ Len(SubSeq(s, 1, Len(h))) = Len(h)
      /\ \A k \in 1..Len(h) : SubSeq(s, 1, Len(h))[k] = s[k]
  BY <1>2, <1>4, Beginning
<1>6. \A k \in 1..Len(h) : s[k] = h[k]
  BY <1>1, <1>2
<1>7. SubSeq(s, 1, Len(h)) = h
  BY <1>5, <1>6, SameSeq
<1>8. ASSUME NEW k \in 1..Len(h) + Len(r) PROVE s[k] = (h \o r)[k]
  <2>1. k \in 1..Len(h) + Len(t) /\ k \in Nat
    BY <1>1
  <2>2. CASE k <= Len(h)
    BY <1>2, <1>3, <2>1, <2>2
  <2>3. CASE k > Len(h)
    <3>1. k - Len(h) \in 1..Len(r)
      BY <1>1, <2>1, <2>3
    <3> QED
      BY <1>1, <1>2, <1>3, <2>1, <2>3, <3>1
  <2> QED
    BY <1>1, <2>1, <2>2, <2>3
<1>9. SubSeq(s, 1, Len(h) + Len(r)) = h \o r
  BY <1>3, <1>5, <1>8, SameSeq
<1>10. Len(t) > 0 => s[Len(h) + 1] = t[1]
  BY <1>1, <1>2
<1> QED
  BY <1>2, <1>7, <1>9, <1>10 DEF s

-----------------------------------------------------------------------------
(* A seal *)

LEMMA Bounds == MaxId \in Nat /\ Cap \in Nat /\ Cap >= 1 /\ Slack \in Nat /\ MaxEvents \in Nat
BY ConstantsAssumption

LEMMA SealerParts ==
  ASSUME SealerOK
  PROVE  /\ sealer.pc \in SealerPcs /\ sealer.counter \in 0..MaxId
         /\ sealer.waiting \in [id : Nat, over : BOOLEAN] /\ IsMap(sealer.byId, Rows)
         /\ sealer.verdict \in {"ok", "bad"}
BY DEF SealerOK

LEMMA StartType ==
  ASSUME ChainOK, SealerOK, head = None => DOMAIN sealer.byId # {}
  PROVE  /\ Start \in 1..MaxId + 1
         /\ head # None => Start = HeadId + 1
         /\ head = None => /\ Start \in DOMAIN sealer.byId
                           /\ \A id \in DOMAIN sealer.byId : Start <= id
<1>1. CASE head # None
  BY <1>1, HeadParts, Bounds DEF Start
<1>2. CASE head = None
  <2> DEFINE ids == DOMAIN sealer.byId
  <2>1. ids \in SUBSET (1..MaxId) /\ ids # {}
    BY <1>2, SealerParts, MapParts
  <2>2. ids \in SUBSET Nat /\ ids # {}
    BY <2>1, Bounds
  <2> HIDE DEF ids
  <2>3. Min(ids) \in ids /\ \A id \in ids : Min(ids) <= id
    BY <2>2, LeastId
  <2>4. Start = Min(ids)
    BY <1>2 DEF Start, ids
  <2> QED
    BY <1>2, <2>1, <2>3, <2>4, Bounds DEF ids
<1> QED
  BY <1>1, <1>2

LEMMA LastSealedType ==
  ASSUME ChainOK, SealerOK, head = None => DOMAIN sealer.byId # {}
  PROVE  /\ LastSealed \in 0..MaxId /\ LastSealed >= Start - 1
         /\ LastSealed >= Start => LastSealed <= sealer.counter
<1> DEFINE goes == {e \in Start..sealer.counter : \A id \in Start..e : Passed(id)}
           ends == {Start - 1} \cup goes
<1>1. Start \in 1..MaxId + 1 /\ sealer.counter \in 0..MaxId
  BY StartType, SealerParts
<1>2. goes \subseteq Start..sealer.counter
  OBVIOUS
<1> HIDE DEF goes
<1>3. /\ ends \in SUBSET Nat /\ ends # {} /\ Start - 1 \in ends
      /\ \A e \in ends : e <= MaxId
  BY <1>1, <1>2, Bounds
<1> HIDE DEF ends
<1>4. Max(ends) \in ends /\ \A e \in ends : e <= Max(ends)
  BY <1>3, Bounds, GreatestId
<1>5. LastSealed = Max(ends)
  BY DEF LastSealed, ends, goes
<1>6. Max(ends) = Start - 1 \/ Max(ends) \in Start..sealer.counter
  BY <1>2, <1>4 DEF ends
<1> QED
  BY <1>1, <1>3, <1>4, <1>5, <1>6, Bounds

\* The hash of the last id sealed goes on from the head's, row by row.
LEMMA BatchFacts ==
  ASSUME ChainOK, SealerOK, head = None => DOMAIN sealer.byId # {},
         \A id \in DOMAIN sealer.byId : sealer.byId[id].id = id,
         NEW id \in Start..LastSealed
  PROVE  /\ Batch[id] \in Hashes /\ Len(Batch[id]) = Len(HeadHash) + id - Start + 1
         /\ SubSeq(Batch[id], 1, Len(HeadHash)) = HeadHash
         /\ Batch[id][Len(HeadHash) + 1].id = Start
         /\ \A k \in 1..id - Start + 1 : Batch[id][Len(HeadHash) + k].id = Start + k - 1
         /\ \A i \in Start..id : Batch[i] = SubSeq(Batch[id], 1, Len(HeadHash) + i - Start + 1)
<1> DEFINE row(k) == SealOf(sealer.byId, Start + k - 1)
           tail(n) == [k \in 1..n |-> row(k)]
           h == HeadHash
<1>1. /\ Start \in Nat /\ Start >= 1 /\ LastSealed \in Nat /\ LastSealed <= MaxId /\ id \in Nat
      /\ id >= Start /\ id <= LastSealed
  BY StartType, LastSealedType, Bounds
<1>2. h \in Seq(Rows)
  BY HeadParts DEF Hashes
<1>3. ASSUME NEW k \in 1..id - Start + 1 PROVE row(k) \in Rows /\ row(k).id = Start + k - 1
  <2>1. Start + k - 1 \in 1..MaxId
    BY <1>1, <1>3, Bounds
  <2> QED
    BY <2>1, SealerParts, SealOfRow
<1>4. \A i \in Start..LastSealed : Batch[i] = h \o tail(i - Start + 1)
  BY DEF Batch
<1> HIDE DEF row, h
<1>5. id - Start + 1 \in Nat /\ id - Start + 1 > 0 /\ tail(id - Start + 1) \in [1..id - Start + 1 -> Rows]
  BY <1>1, <1>3
<1> DEFINE n == id - Start + 1
           t == tail(n)
<1>6. n \in Nat /\ t \in [1..n -> Rows] /\ Batch[id] = h \o t /\ \A k \in 1..n : t[k] = row(k)
  BY <1>1, <1>4, <1>5
<1>7. \A m \in 0..n : tail(m) = [k \in 1..m |-> t[k]]
  BY <1>6
<1>8. n > 0 /\ 1 \in 1..id - Start + 1
  BY <1>1
<1>9. t[1].id = Start
  BY <1>1, <1>3, <1>6, <1>8
<1> HIDE DEF n, t, tail
<1>10. /\ h \o t \in Seq(Rows) /\ Len(h \o t) = Len(h) + n
       /\ SubSeq(h \o t, 1, Len(h)) = h /\ (h \o t)[Len(h) + 1] = t[1]
       /\ \A m \in 0..n : SubSeq(h \o t, 1, Len(h) + m) = h \o tail(m)
  <2>1. ASSUME NEW m \in 0..n 
        PROVE  tail(m) \in Seq(Rows) /\ Len(tail(m)) = m /\ \A k \in 1..m : tail(m)[k] = t[k]
    <3>1. m \in Nat /\ m <= n /\ tail(m) = [k \in 1..m |-> t[k]]
      BY <1>6, <1>7
    <3>2. \A k \in 1..m : t[k] \in Rows
      BY <1>6, <3>1
    <3> QED
      BY <3>1, <3>2
  <2>2. n \in 0..n /\ t \in Seq(Rows) /\ Len(t) = n
    BY <1>6
  <2>3. ASSUME NEW m \in 0..n
        PROVE  /\ h \o t \in Seq(Rows) /\ Len(h \o t) = Len(h) + n
               /\ SubSeq(h \o t, 1, Len(h)) = h /\ (h \o t)[Len(h) + 1] = t[1]
               /\ SubSeq(h \o t, 1, Len(h) + m) = h \o tail(m)
    <3> DEFINE start == tail(m)
    <3>1. start \in Seq(Rows) /\ Len(start) = m /\ \A k \in 1..m : start[k] = t[k]
      BY <2>1, <2>3
    <3> HIDE DEF start
    <3>2. Len(start) <= Len(t) /\ \A k \in 1..Len(start) : start[k] = t[k]
      BY <1>6, <2>2, <2>3, <3>1
    <3>3. SubSeq(h \o t, 1, Len(h) + Len(start)) = h \o start
      BY <1>2, <2>2, <3>1, <3>2, Continued
    <3>4. /\ h \o t \in Seq(Rows) /\ Len(h \o t) = Len(h) + Len(t)
          /\ SubSeq(h \o t, 1, Len(h)) = h
          /\ Len(t) > 0 => (h \o t)[Len(h) + 1] = t[1]
      BY <1>2, <2>2, <3>1, <3>2, Continued
    <3> QED
      BY <1>8, <2>2, <3>1, <3>3, <3>4 DEF start
  <2> QED
    BY <2>2, <2>3
<1>11. ASSUME NEW i \in Start..id
       PROVE  Batch[i] = SubSeq(Batch[id], 1, Len(h) + i - Start + 1)
  <2>1. i \in Start..LastSealed /\ i - Start + 1 \in 0..n
    BY <1>1 DEF n
  <2>2. Len(h) + (i - Start + 1) = Len(h) + i - Start + 1
    BY <1>1, <1>2
  <2>3. SubSeq(h \o t, 1, Len(h) + (i - Start + 1)) = h \o tail(i - Start + 1)
    BY <1>10, <2>1
  <2> QED
    BY <1>4, <1>6, <2>1, <2>2, <2>3
<1>12. Len(h) + n = Len(h) + id - Start + 1
  BY <1>1, <1>2 DEF n
<1>13. ASSUME NEW k \in 1..id - Start + 1
       PROVE  (h \o t)[Len(h) + k].id = Start + k - 1
  <2>1. k \in 1..n /\ Len(h) \in Nat /\ t[k] = row(k)
    BY <1>2, <1>6, <1>13 DEF n
  <2>2. (h \o t)[Len(h) + k] = t[k]
    <3>1. t \in Seq(Rows) /\ Len(t) = n
      BY <1>6
    <3> QED
      BY <1>2, <2>1, <3>1
  <2> QED
    BY <1>3, <2>1, <2>2
<1> QED
  BY <1>6, <1>9, <1>10, <1>11, <1>12, <1>13 DEF h, Hashes

-----------------------------------------------------------------------------
(* Types *)

WriterRec == [pc : WriterPcs, id : 0..MaxId, keep : Seq(Rows)]

LEMMA WriterParts ==
  ASSUME WriterOK, NEW w \in Writers
  PROVE  /\ writer[w] \in WriterRec /\ writer[w].pc \in WriterPcs
         /\ writer[w].id \in 0..MaxId /\ writer[w].keep \in Seq(Rows)
BY DEF WriterOK, WriterRec

LEMMA WriterBecomes ==
  ASSUME WriterOK, NEW w \in Writers, NEW r \in WriterRec, r.pc = "push" => r.id # 0,
         writer' = [writer EXCEPT ![w] = r]
  PROVE  WriterOK' /\ writer'[w] = r /\ \A v \in Writers \ {w} : writer'[v] = writer[v]
BY DEF WriterOK, WriterRec

LEMMA AtRestType == AtRest \in WriterRec /\ AtRest.pc = "idle" /\ AtRest.keep = <<>>
<1>1. <<>> \in Seq(Rows)
  OBVIOUS
<1> QED
  BY <1>1, Bounds DEF AtRest, WriterRec, WriterPcs

LEMMA BlameType ==
  ASSUME NEW slip \in {"trim", "race", "disk"}, NEW if \in BOOLEAN
  PROVE  Blame(slip, if) \subseteq {"trim", "race", "disk"}
BY DEF Blame

LEMMA LogTypes ==
  ASSUME TypeOK, NEW w \in Writers, Incr(w) \/ Push(w) \/ Count(w)
  PROVE  TypeOK'
<1>1. CASE Incr(w)
  <2> DEFINE r == [pc |-> "push", id |-> counter + 1, keep |-> <<>>]
  <2>1. counter + 1 \in 1..MaxId /\ <<>> \in Seq(Rows)
    BY <1>1, Bounds DEF Incr, TypeOK, LogOK
  <2>2. r \in WriterRec /\ (r.pc = "push" => r.id # 0)
    BY <2>1 DEF WriterRec, WriterPcs
  <2>3. writer' = [writer EXCEPT ![w] = r]
    BY <1>1 DEF Incr
  <2> HIDE DEF r
  <2>4. WriterOK'
    BY <2>2, <2>3, WriterBecomes DEF TypeOK
  <2> QED
    BY <1>1, <2>1, <2>4, Bounds
    DEF Incr, TypeOK, LogOK, ChainOK, DiskOK, FileOK, SealerOK, AskedOK, TellOK, chainVars, diskVars, tellVars
<1>2. CASE Push(w)
  <2>1. writer[w].id \in 1..MaxId /\ Row(writer[w].id) \in Rows
    BY <1>2, WriterParts DEF Push, TypeOK, WriterOK, Row, Rows
  <2>2. LogOK'
    BY <1>2, <2>1, RowsAround DEF Push, TypeOK, LogOK
  <2> DEFINE r == [AtRest EXCEPT !.pc = "count"]
  <2>3. r \in WriterRec /\ r.pc # "push"
    BY AtRestType DEF WriterRec, WriterPcs
  <2>4. writer' = [writer EXCEPT ![w] = r]
    BY <1>2 DEF Push
  <2> HIDE DEF r
  <2>5. WriterOK'
    BY <2>3, <2>4, WriterBecomes DEF TypeOK
  <2>6. slips' \subseteq {"trim", "race", "disk"}
    BY <1>2 DEF Push, TypeOK, TellOK, Blame
  <2> QED
    BY <1>2, <2>2, <2>5, <2>6
    DEF Push, TypeOK, ChainOK, DiskOK, FileOK, SealerOK, AskedOK, TellOK, chainVars, diskVars, tellVars
<1>3. CASE Count(w)
  <2> DEFINE r == IF Full THEN [writer[w] EXCEPT !.pc = "keep"] ELSE AtRest
  <2>1. r \in WriterRec /\ r.pc # "push"
    BY AtRestType, WriterParts DEF WriterRec, WriterPcs, TypeOK
  <2>2. writer' = [writer EXCEPT ![w] = r]
    BY <1>3 DEF Count, Goes
  <2> HIDE DEF r
  <2>3. WriterOK'
    BY <2>1, <2>2, WriterBecomes DEF TypeOK
  <2> QED
    BY <1>3, <2>3
    DEF Count, TypeOK, LogOK, ChainOK, DiskOK, FileOK, SealerOK, AskedOK, TellOK, logVars, chainVars,
        diskVars, tellVars
<1> QED
  BY <1>1, <1>2, <1>3

LEMMA TrimTypes ==
  ASSUME TypeOK, NEW w \in Writers, Keep(w) \/ Drop(w) \/ StopWriter(w)
  PROVE  TypeOK'
<1>1. CASE Keep(w)
  <2> DEFINE r == [writer[w] EXCEPT !.pc = "drop", !.keep = Newest(log, Cap)]
  <2>1. r \in WriterRec /\ r.pc # "push"
    <3>1. Newest(log, Cap) \in Seq(Rows)
      BY NewestRows, Bounds DEF TypeOK, LogOK
    <3> QED
      BY <3>1, WriterParts DEF WriterRec, WriterPcs, TypeOK
  <2>2. writer' = [writer EXCEPT ![w] = r]
    BY <1>1 DEF Keep
  <2> HIDE DEF r
  <2>3. WriterOK'
    BY <2>1, <2>2, WriterBecomes DEF TypeOK
  <2>4. slips' \subseteq {"trim", "race", "disk"}
    BY <1>1 DEF Keep, TypeOK, TellOK, Blame
  <2> QED
    BY <1>1, <2>3, <2>4
    DEF Keep, TypeOK, LogOK, ChainOK, DiskOK, FileOK, SealerOK, AskedOK, TellOK, logVars, chainVars,
        diskVars, tellVars
<1>2. CASE Drop(w)
  <2> DEFINE r == IF writer[w].keep = <<>> THEN AtRest ELSE [writer[w] EXCEPT !.pc = "fill"]
  <2>1. r \in WriterRec /\ r.pc # "push"
    BY AtRestType, WriterParts DEF WriterRec, WriterPcs, TypeOK
  <2>2. writer' = [writer EXCEPT ![w] = r]
    BY <1>2 DEF Drop, Goes
  <2> HIDE DEF r
  <2>3. WriterOK'
    BY <2>1, <2>2, WriterBecomes DEF TypeOK
  <2>4. slips' \subseteq {"trim", "race", "disk"}
    BY <1>2 DEF Drop, TypeOK, TellOK, Blame
  <2>5. LogOK'
    BY <1>2 DEF Drop, TypeOK, LogOK
  <2> QED
    BY <1>2, <2>3, <2>4, <2>5
    DEF Drop, TypeOK, ChainOK, DiskOK, FileOK, SealerOK, AskedOK, TellOK, chainVars, diskVars, tellVars
<1>3. CASE StopWriter(w)
  <2>1. WriterOK'
    BY <1>3, AtRestType, WriterBecomes DEF TypeOK, StopWriter
  <2>2. slips' \subseteq {"trim", "race", "disk"} /\ events' \in 0..MaxEvents
    BY <1>3, Bounds DEF StopWriter, TypeOK, TellOK, Blame, Happens
  <2> QED
    BY <1>3, <2>1, <2>2
    DEF StopWriter, TypeOK, LogOK, ChainOK, DiskOK, FileOK, SealerOK, AskedOK, TellOK, logVars, chainVars,
        diskVars
<1> QED
  BY <1>1, <1>2, <1>3

LEMMA FillTypes ==
  ASSUME TypeOK, NEW w \in Writers, Fill(w), writer[w].keep # <<>>
  PROVE  TypeOK'
<1> DEFINE keep == writer[w].keep
           rest == SubSeq(keep, 1, Len(keep) - 1)
           r == IF rest = <<>> THEN AtRest ELSE [writer[w] EXCEPT !.keep = rest]
<1>1. keep[Len(keep)] \in Rows /\ rest \in Seq(Rows)
  BY WriterParts, RowPutBack DEF TypeOK
<1>2. r \in WriterRec /\ r.pc # "push"
  BY <1>1, AtRestType, WriterParts DEF WriterRec, WriterPcs, TypeOK, Fill
<1>3. writer' = [writer EXCEPT ![w] = r]
  BY DEF Fill
<1> HIDE DEF r, rest
<1>4. WriterOK'
  BY <1>2, <1>3, WriterBecomes DEF TypeOK
<1>5. LogOK'
  BY <1>1, RowsAround DEF Fill, TypeOK, LogOK
<1> QED
  BY <1>4, <1>5
  DEF Fill, TypeOK, ChainOK, DiskOK, FileOK, SealerOK, AskedOK, TellOK, chainVars, diskVars, tellVars

SealerRec(byId) == [pc : SealerPcs, waiting : [id : Nat, over : BOOLEAN], counter : 0..MaxId,
                    byId : {byId}, verdict : {"ok", "bad"}]

LEMMA SealerTyped ==
  ASSUME NEW byId, sealer' \in SealerRec(byId), IsMap(byId, Rows)
  PROVE  SealerOK'
BY DEF SealerRec, SealerOK

\* What the sealer has is of its type after each of the changes its steps make to it.
LEMMA SealerGoes ==
  ASSUME SealerOK, NEW pc \in SealerPcs, sealer' = [sealer EXCEPT !.pc = pc]
  PROVE  SealerOK'
BY DEF SealerOK

LEMMA SealerRests ==
  ASSUME SealerOK, sealer' = [sealer EXCEPT !.pc = "idle", !.counter = 0]
  PROVE  SealerOK'
<1>1. 0 \in 0..MaxId /\ "idle" \in SealerPcs
  BY Bounds DEF SealerPcs
<1> QED
  BY <1>1 DEF SealerOK

LEMMA SealerReads ==
  ASSUME SealerOK, NEW byId, IsMap(byId, Rows), NEW pc \in SealerPcs,
         sealer' = [sealer EXCEPT !.byId = byId, !.pc = pc]
  PROVE  SealerOK'
<1>1. sealer' \in SealerRec(byId)
  BY DEF SealerOK, SealerRec
<1> QED
  BY <1>1, SealerTyped

LEMMA NoRows == IsMap(<<>>, Rows) /\ IsMap(<<>>, Hashes)
<1>1. <<>> \in [{} -> Rows] /\ <<>> \in [{} -> Hashes]
  OBVIOUS
<1> QED
  BY <1>1 DEF IsMap

LEMMA NextWaitingType ==
  ASSUME ChainOK, SealerOK, head = None => DOMAIN sealer.byId # {}
  PROVE  NextWaiting \in [id : Nat, over : BOOLEAN]
<1>1. LastSealed \in Nat
  BY LastSealedType, Bounds
<1> QED
  BY <1>1, SealerParts DEF NextWaiting, NoWait

LEMMA WindowType ==
  ASSUME ChainOK, SealerOK, LogOK
  PROVE  Window \in Int
<1>1. /\ sealer.counter \in Int /\ HeadId \in Int /\ Len(log) \in Int /\ Slack \in Int
  BY HeadParts, SealerParts, Bounds DEF LogOK
<1> QED
  BY <1>1 DEF Window

LEMMA TickTypes ==
  ASSUME TypeOK, Sealing, TickStart \/ TickRows \/ SetAnchor \/ Sleep \/ WaitIsOver \/ StopSealer
  PROVE  TypeOK'
<1>0. ChainOK /\ SealerOK /\ LogOK /\ TellOK /\ IsMap(sealer.byId, Rows)
  BY DEF TypeOK, SealerOK
<1>1. CASE TickStart
  <2>1. SealerOK'
    <3>1. counter \in 0..MaxId
      BY <1>0 DEF LogOK
    <3>2. \/ sealer' = [sealer EXCEPT !.pc = "ticked"]
          \/ sealer' = [sealer EXCEPT !.pc = "rows", !.counter = counter]
      BY <1>1 DEF TickStart, Then
    <3> QED
      BY <1>0, <3>1, <3>2 DEF SealerOK, SealerPcs
  <2> QED
    BY <1>1, <2>1 DEF TickStart, TypeOK, LogOK, ChainOK, DiskOK, FileOK, WriterOK, AskedOK, TellOK,
       logVars, chainVars, diskVars, tellVars
<1>2. CASE TickRows
  <2> DEFINE byId == ById(Newest(log, Window), HeadId)
  <2>1. IsMap(byId, Rows)
    <3>1. Window \in Int
      BY <1>0, WindowType
    <3>2. Newest(log, Window) \in Seq(Rows)
      BY <1>0, <3>1, NewestRows DEF LogOK
    <3>3. HeadId \in Nat
      BY <1>0, HeadParts, Bounds
    <3> QED
      BY <3>2, <3>3, ByIdMap
  <2> DEFINE pc == IF head # None THEN "seal" ELSE IF DOMAIN byId = {} THEN "ticked" ELSE "anchor"
  <2>2. sealer' = [sealer EXCEPT !.byId = byId, !.pc = pc] /\ pc \in SealerPcs
    BY <1>2 DEF TickRows, SealerPcs
  <2> HIDE DEF byId, pc
  <2>3. SealerOK'
    BY <1>0, <2>1, <2>2, SealerReads
  <2>4. slips' \subseteq {"trim", "race", "disk"}
    BY <1>0, <1>2 DEF TickRows, TellOK, Blame
  <2> QED
    BY <1>2, <2>3, <2>4 DEF TickRows, TypeOK, LogOK, ChainOK, DiskOK, FileOK, WriterOK, AskedOK, TellOK,
       logVars, chainVars, diskVars, tellVars
<1>3. CASE SetAnchor
  <2>1. SealerOK'
    BY <1>0, <1>3, SealerGoes DEF SetAnchor, Then, SealerPcs
  <2>2. Start \in 1..MaxId /\ Zero \in Hashes
    <3>1. head = None /\ DOMAIN sealer.byId # {}
      BY <1>3 DEF Sealing, SetAnchor, Sealer
    <3>2. Start \in DOMAIN sealer.byId
      BY <1>0, <3>1, StartType
    <3> QED
      BY <1>0, <3>2, MapParts DEF Zero, Hashes
  <2>3. anchor' \in Links
    BY <1>3, <2>2, LinkOf DEF SetAnchor
  <2> QED
    BY <1>3, <2>1, <2>3 DEF SetAnchor, TypeOK, LogOK, ChainOK, DiskOK, FileOK, WriterOK, AskedOK, TellOK,
       logVars, diskVars, tellVars
<1>4. CASE Sleep
  <2>2. SealerOK'
    BY <1>0, <1>4, SealerRests DEF Sleep, Rests
  <2> QED
    BY <1>4, <2>2 DEF Sleep, TypeOK, LogOK, ChainOK, DiskOK, FileOK, WriterOK, AskedOK, TellOK,
       logVars, chainVars, diskVars, tellVars
<1>5. CASE WaitIsOver
  <2>1. SealerOK'
    BY <1>0, <1>5 DEF WaitIsOver, SealerOK
  <2> QED
    BY <1>5, <2>1 DEF WaitIsOver, TypeOK, LogOK, ChainOK, DiskOK, FileOK, WriterOK, AskedOK, TellOK,
       logVars, chainVars, diskVars, tellVars
<1>6. CASE StopSealer
  <2>1. PICK waiting \in {NoWait, IF Sealer("seal") THEN NextWaiting ELSE sealer.waiting} :
           sealer' = [sealer EXCEPT !.pc = "idle", !.waiting = waiting, !.byId = <<>>, !.counter = 0]
    BY <1>6 DEF StopSealer
  <2>2. waiting \in [id : Nat, over : BOOLEAN]
    <3>1. Sealer("seal") => NextWaiting \in [id : Nat, over : BOOLEAN]
      BY <1>0, NextWaitingType DEF Sealing, Sealer
    <3>2. NoWait \in [id : Nat, over : BOOLEAN] /\ sealer.waiting \in [id : Nat, over : BOOLEAN]
      BY <1>0, SealerParts DEF NoWait
    <3> QED
      BY <2>1, <3>1, <3>2
  <2>3. sealer' \in SealerRec(<<>>)
    <3>1. 0 \in 0..MaxId /\ "idle" \in SealerPcs
      BY Bounds DEF SealerPcs
    <3>2. ASSUME NEW byId
          PROVE  [sealer EXCEPT !.pc = "idle", !.waiting = waiting, !.byId = byId, !.counter = 0]
                   \in SealerRec(byId)
      BY <1>0, <2>2, <3>1 DEF SealerOK, SealerRec
    <3> QED
      BY <2>1, <3>2
  <2>4. SealerOK'
    BY <2>3, NoRows, SealerTyped
  <2>5. events' \in 0..MaxEvents
    BY <1>0, <1>6, Bounds DEF StopSealer, Happens, TellOK
  <2> QED
    BY <1>6, <2>4, <2>5 DEF StopSealer, TypeOK, LogOK, ChainOK, DiskOK, FileOK, WriterOK, AskedOK, TellOK,
       logVars, chainVars, diskVars, tellVars
<1> QED
  BY <1>1, <1>2, <1>3, <1>4, <1>5, <1>6

LEMMA SealTypes ==
  ASSUME TypeOK, Sealing, NewSeal, Seal \/ SetHead
  PROVE  TypeOK'
<1>0. ChainOK /\ SealerOK /\ IsMap(chain, Hashes) /\ IsMap(sealer.byId, Rows)
  BY DEF TypeOK, SealerOK, ChainOK
<1>1. CASE Seal
  <2>0. head = None => DOMAIN sealer.byId # {}
    BY <1>1 DEF Seal, Sealer, Sealing
  <2>1. /\ Start \in 1..MaxId + 1 /\ LastSealed \in 0..MaxId
        /\ NextWaiting \in [id : Nat, over : BOOLEAN]
    BY <1>0, <2>0, StartType, LastSealedType, NextWaitingType
  <2>2. SealerOK'
    <3> DEFINE pc == IF LastSealed < Start THEN "ticked" ELSE "head"
    <3>1. /\ sealer' = [sealer EXCEPT !.waiting = NextWaiting, !.byId = <<>>, !.counter = LastSealed,
                                      !.pc = pc]
          /\ pc \in SealerPcs
      BY <1>1 DEF Seal, SealerPcs
    <3> HIDE DEF pc
    <3>2. ASSUME NEW byId
          PROVE  [sealer EXCEPT !.waiting = NextWaiting, !.byId = byId, !.counter = LastSealed, !.pc = pc]
                   \in SealerRec(byId)
      BY <1>0, <2>1, <3>1 DEF SealerOK, SealerRec
    <3>3. sealer' \in SealerRec(<<>>)
      BY <3>1, <3>2
    <3> QED
      BY <3>3, NoRows, SealerTyped
  <2>3. IsMap(chain', Hashes)
    <3> DEFINE ids == DOMAIN chain \cup DOMAIN Batch
    <3>1. DOMAIN Batch = Start..LastSealed
      BY DEF Batch
    <3>2. ids \in SUBSET (1..MaxId)
      BY <1>0, <2>1, <3>1, MapParts, Bounds
    <3>3. \A id \in DOMAIN Batch : Batch[id] \in Hashes
      BY <1>0, <1>1, <2>0, <3>1, BatchFacts DEF Sealing
    <3>4. \A id \in DOMAIN chain : chain[id] \in Hashes
      BY <1>0, MapParts
    <3>5. chain' \in [ids -> Hashes]
      BY <1>1, <3>3, <3>4 DEF Seal
    <3> HIDE DEF ids
    <3> QED
      BY <3>2, <3>5, MapOf
  <2> QED
    BY <1>1, <2>2, <2>3 DEF Seal, TypeOK, LogOK, ChainOK, DiskOK, FileOK, WriterOK, AskedOK, TellOK,
       logVars, diskVars, tellVars
<1>2. CASE SetHead
  <2>1. /\ sealer.counter \in 1..MaxId /\ NewHash \in Hashes
    <3>1. sealer.counter \in DOMAIN chain
      BY <1>2 DEF NewSeal, SetHead, Sealer
    <3> QED
      BY <1>0, <3>1, MapParts DEF NewHash
  <2>2. head' = Link(sealer.counter, NewHash) /\ head' \in Links /\ head'.hash = NewHash
    BY <1>2, <2>1, LinkOf DEF SetHead, NewHash
  <2>3. sealed' \in Hashes
    <3> DEFINE more == SubSeq(head'.hash, Len(sealed) + 1, Len(head'.hash))
    <3>1. head'.hash \in Seq(Rows) /\ sealed \in Seq(Rows)
      BY <1>0, <2>1, <2>2 DEF ChainOK, Hashes
    <3>2. Len(sealed) + 1 \in 1..(Len(sealed) + 1) /\ Len(sealed) \in Nat /\ Len(head'.hash) \in Nat
      BY <3>1
    <3>3. more \in Seq(Rows)
      BY <3>1, <3>2
    <3>4. sealed' = sealed \o more
      BY <1>2 DEF SetHead
    <3> HIDE DEF more
    <3> QED
      BY <3>1, <3>3, <3>4 DEF Hashes
  <2>4. SealerOK'
    BY <1>0, <1>2, SealerGoes DEF SetHead, Then, SealerPcs
  <2> QED
    BY <1>2, <2>2, <2>3, <2>4 DEF SetHead, TypeOK, LogOK, ChainOK, DiskOK, FileOK, WriterOK, AskedOK,
       TellOK, logVars, diskVars, tellVars
<1> QED
  BY <1>1, <1>2

LEMMA AnchorParts ==
  ASSUME ChainOK, anchor # None
  PROVE  anchor.id \in 1..MaxId /\ anchor.hash \in Hashes
BY LinkParts DEF ChainOK

\* The name and the body of the file to write.
LEMMA FileNameType ==
  ASSUME ChainOK, DiskOK
  PROVE  /\ FileName \in Nat \X Nat /\ FileName[2] = HeadId /\ through + 1 <= FileName[1]
         /\ anchor # None => /\ anchor.id <= FileName[1]
                             /\ FileName[1] = anchor.id \/ FileName[1] = through + 1
         /\ anchor = None => FileName[1] = through + 1
<1>1. through \in Nat /\ through + 1 \in Int /\ HeadId \in Nat
  BY HeadParts, Bounds DEF DiskOK
<1>2. CASE anchor = None
  BY <1>1, <1>2 DEF FileName
<1>3. CASE anchor # None
  <2>1. anchor.id \in Nat /\ anchor.id \in Int
    BY <1>3, AnchorParts, Bounds
  <2> DEFINE first == Max({anchor.id, through + 1})
  <2>2. first \in {anchor.id, through + 1} /\ first >= anchor.id /\ first >= through + 1
    BY <1>1, <2>1, OfTwo, Zenon
  <2>3. FileName = <<first, HeadId>>
    BY <1>3 DEF FileName
  <2> HIDE DEF first
  <2> QED
    BY <1>1, <1>3, <2>1, <2>2, <2>3
<1> QED
  BY <1>2, <1>3

LEMMA BodyType ==
  ASSUME ChainOK
  PROVE  /\ IsMap(Body, Hashes) /\ DOMAIN Body = (FileName[1]..FileName[2]) \cap DOMAIN chain
         /\ \A id \in DOMAIN Body : Body[id] = chain[id]
<1> DEFINE ids == (FileName[1]..FileName[2]) \cap DOMAIN chain
<1>1. ids \in SUBSET (1..MaxId) /\ \A id \in ids : chain[id] \in Hashes
  BY MapParts DEF ChainOK
<1>2. Body = [id \in ids |-> chain[id]]
  BY DEF Body
<1> HIDE DEF ids
<1>3. Body \in [ids -> Hashes]
  BY <1>1, <1>2
<1>4. IsMap(Body, Hashes)
  BY <1>1, <1>3, MapOf
<1> QED
  BY <1>2, <1>4 DEF ids

LEMMA FileTypes ==
  ASSUME TypeOK, WriteFile \/ WriteSum \/ SetThrough \/ ReplicaFails
  PROVE  TypeOK'
<1>0. ChainOK /\ SealerOK /\ DiskOK /\ IsMap(sealer.byId, Rows)
  BY DEF TypeOK, SealerOK
<1>1. CASE WriteFile
  <2>1. SumOf(FileName) = None \/ IsMap(SumOf(FileName), Hashes)
    <3>1. CASE Named(FileName) = {}
      BY <3>1 DEF SumOf
    <3>2. CASE Named(FileName) # {}
      <4>1. (CHOOSE f \in Named(FileName) : TRUE) \in files
        BY <3>2 DEF Named
      <4> QED
        BY <1>0, <3>2, <4>1 DEF SumOf, DiskOK, FileOK
    <3> QED
      BY <3>1, <3>2
  <2> DEFINE new == [name |-> FileName, body |-> Body, sum |-> SumOf(FileName)]
  <2>2. FileOK(new)
    <3>1. new.body = Body /\ new.sum = SumOf(FileName)
      OBVIOUS
    <3>2. FileName \in Nat \X Nat
      BY <1>0, FileNameType
    <3>3. IsMap(Body, Hashes)
      BY <1>0, BodyType
    <3> QED
      BY <2>1, <3>1, <3>2, <3>3 DEF FileOK
  <2>3. \A f \in files' : f = new \/ f \in files
    BY <1>1 DEF WriteFile
  <2> HIDE DEF new
  <2>4. DiskOK'
    BY <1>0, <1>1, <2>2, <2>3 DEF DiskOK, WriteFile, FileOK
  <2>5. SealerOK'
    BY <1>0, <1>1, SealerGoes DEF WriteFile, Then, SealerPcs
  <2> QED
    BY <1>1, <2>4, <2>5 DEF WriteFile, TypeOK, LogOK, ChainOK, WriterOK, AskedOK, TellOK,
       logVars, chainVars, tellVars
<1>2. CASE WriteSum
  <2>1. ASSUME NEW f \in files PROVE FileOK([f EXCEPT !.sum = f.body])
    <3>1. f \in [name : Nat \X Nat, body : {f.body}, sum : {f.sum}] /\ IsMap(f.body, Hashes)
      BY <1>0 DEF DiskOK, FileOK
    <3> DEFINE g == [f EXCEPT !.sum = f.body]
    <3>2. g.sum = f.body /\ g.body = f.body /\ g \in [name : Nat \X Nat, body : {g.body}, sum : {g.sum}]
      BY <3>1
    <3> HIDE DEF g
    <3>3. FileOK(g)
      BY <3>1, <3>2 DEF FileOK
    <3> QED
      BY <3>3 DEF g
  <2>2. \A f \in files : FileOK(f)
    BY <1>0 DEF DiskOK
  <2>3. \A g \in files' : FileOK(g)
    BY <1>2, <2>1, <2>2 DEF WriteSum
  <2>4. DiskOK'
    BY <1>0, <1>2, <2>3 DEF DiskOK, WriteSum, FileOK
  <2>5. SealerOK'
    BY <1>0, <1>2, SealerGoes DEF WriteSum, Then, SealerPcs
  <2> QED
    BY <1>2, <2>4, <2>5 DEF WriteSum, TypeOK, LogOK, ChainOK, WriterOK, AskedOK, TellOK,
       logVars, chainVars, tellVars
<1>3. CASE SetThrough
  <2>1. through' \in 0..MaxId
    BY <1>0, <1>3, HeadParts DEF SetThrough
  <2>2. SealerOK'
    BY <1>0, <1>3, SealerGoes DEF SetThrough, Then, SealerPcs
  <2> QED
    BY <1>3, <2>1, <2>2 DEF SetThrough, TypeOK, LogOK, ChainOK, DiskOK, FileOK, WriterOK, AskedOK, TellOK,
       logVars, chainVars, tellVars
<1>4. CASE ReplicaFails
  <2>1. SealerOK'
    BY <1>0, <1>4, SealerGoes DEF ReplicaFails, Then, SealerPcs
  <2>2. events' \in 0..MaxEvents
    BY <1>4, Bounds DEF ReplicaFails, Happens, TypeOK, TellOK
  <2> QED
    BY <1>4, <2>1, <2>2 DEF ReplicaFails, TypeOK, LogOK, ChainOK, DiskOK, FileOK, WriterOK, AskedOK,
       TellOK, logVars, chainVars, diskVars
<1> QED
  BY <1>1, <1>2, <1>3, <1>4

\* The oldest row of a log that is not empty.
LEMMA OldestRow ==
  ASSUME NEW rows \in Seq(Rows), rows # <<>>
  PROVE  /\ Min(Ids(rows)) \in Ids(rows) /\ Min(Ids(rows)) \in 1..MaxId
         /\ \A id \in Ids(rows) : Min(Ids(rows)) <= id
<1> DEFINE ids == Ids(rows)
<1>1. ids \in SUBSET (1..MaxId) /\ ids # {}
  BY IdsOf
<1>2. ids \in SUBSET Nat /\ ids # {}
  BY <1>1, Bounds
<1> HIDE DEF ids
<1>3. Min(ids) \in ids /\ \A id \in ids : Min(ids) <= id
  BY <1>2, LeastId
<1> QED
  BY <1>1, <1>3 DEF ids

PruneMoves ==
  /\ anchor # None /\ Len(log) >= Cap /\ Min(Ids(log)) > anchor.id
  /\ Min(Ids(log)) - 1 \in DOMAIN chain

LEMMA PruneAs ==
  ASSUME TypeOK, Prune
  PROVE  \/ /\ PruneMoves /\ Min(Ids(log)) \in 1..MaxId /\ Min(Ids(log)) \in Ids(log)
            /\ \A id \in Ids(log) : Min(Ids(log)) <= id
            /\ anchor' = Link(Min(Ids(log)), chain[Min(Ids(log)) - 1])
            /\ chain[Min(Ids(log)) - 1] \in Hashes
            /\ anchor' \in Links /\ anchor' # None /\ sealer' = [sealer EXCEPT !.pc = "forget"]
         \/ UNCHANGED anchor /\ sealer' = [sealer EXCEPT !.pc = "idle", !.counter = 0]
<1>1. CASE PruneMoves
  <2>1. log \in Seq(Rows) /\ log # <<>>
    BY <1>1, Bounds DEF PruneMoves, TypeOK, LogOK
  <2>2. /\ Min(Ids(log)) \in 1..MaxId /\ Min(Ids(log)) \in Ids(log)
        /\ \A id \in Ids(log) : Min(Ids(log)) <= id
    BY <2>1, OldestRow
  <2>3. chain[Min(Ids(log)) - 1] \in Hashes
    BY <1>1, MapParts DEF PruneMoves, TypeOK, ChainOK
  <2>4. anchor' = Link(Min(Ids(log)), chain[Min(Ids(log)) - 1]) /\ sealer' = [sealer EXCEPT !.pc = "forget"]
    BY <1>1 DEF Prune, PruneMoves, Then
  <2>5. anchor' \in Links /\ anchor' # None
    BY <2>2, <2>3, <2>4, LinkOf
  <2> QED
    BY <1>1, <2>2, <2>3, <2>4, <2>5
<1>2. CASE ~PruneMoves
  BY <1>2 DEF Prune, PruneMoves, Rests
<1> QED
  BY <1>1, <1>2

LEMMA CheckTypes ==
  ASSUME TypeOK, Sealed, Verify \/ Prune \/ Forget
  PROVE  TypeOK'
<1>0. ChainOK /\ SealerOK /\ IsMap(sealer.byId, Rows) /\ IsMap(chain, Hashes) /\ TellOK
  BY DEF TypeOK, SealerOK, ChainOK
<1>1. CASE Verify
  <2>1. PICK agrees \in Agreements :
           LET ok == Verified(head, anchor, log) /\ agrees IN
           sealer' = [sealer EXCEPT !.verdict = IF ok THEN "ok" ELSE "bad",
                                    !.pc = IF ~ok THEN "idle"
                                           ELSE IF HeadId > through THEN "file" ELSE "prune"]
    BY <1>1 DEF Verify
  <2>2. \E verdict \in {"ok", "bad"}, pc \in SealerPcs :
          sealer' = [sealer EXCEPT !.verdict = verdict, !.pc = pc]
    BY <2>1 DEF SealerPcs
  <2>3. SealerOK'
    BY <1>0, <2>2 DEF SealerOK
  <2>4. slips' \subseteq {"trim", "race", "disk"}
    BY <1>0, <1>1 DEF Verify, TellOK, Blame
  <2> QED
    BY <1>1, <2>3, <2>4 DEF Verify, TypeOK, LogOK, ChainOK, DiskOK, FileOK, WriterOK, AskedOK, TellOK,
       logVars, chainVars, diskVars, tellVars
<1>2. CASE Prune
  <2>1. anchor' \in Links
    BY <1>0, <1>2, PruneAs DEF ChainOK
  <2>2. SealerOK'
    <3>1. "forget" \in SealerPcs
      BY DEF SealerPcs
    <3>2. sealer' = [sealer EXCEPT !.pc = "forget"] \/ sealer' = [sealer EXCEPT !.pc = "idle", !.counter = 0]
      BY <1>2, PruneAs
    <3> QED
      BY <1>0, <3>1, <3>2, SealerGoes, SealerRests
  <2>3. slips' \subseteq {"trim", "race", "disk"}
    BY <1>0, <1>2 DEF Prune, TellOK, Blame
  <2> QED
    BY <1>2, <2>1, <2>2, <2>3 DEF Prune, TypeOK, LogOK, ChainOK, DiskOK, FileOK, WriterOK, AskedOK, TellOK,
       logVars, diskVars, tellVars
<1>3. CASE Forget
  <2>1. IsMap(chain', Hashes)
    <3> DEFINE ids == {i \in DOMAIN chain : i >= anchor.id}
    <3>1. ids \in SUBSET (1..MaxId) /\ \A id \in ids : chain[id] \in Hashes
      BY <1>0, MapParts
    <3>2. chain' = [id \in ids |-> chain[id]]
      BY <1>3 DEF Forget
    <3> HIDE DEF ids
    <3>3. chain' \in [ids -> Hashes]
      BY <3>1, <3>2
    <3> QED
      BY <3>1, <3>3, MapOf
  <2>2. SealerOK'
    BY <1>0, <1>3, SealerRests DEF Forget, Rests
  <2>3. slips' \subseteq {"trim", "race", "disk"}
    BY <1>0, <1>3 DEF Forget, TellOK, Blame
  <2> QED
    BY <1>3, <2>1, <2>2, <2>3 DEF Forget, TypeOK, LogOK, ChainOK, DiskOK, FileOK, WriterOK, AskedOK,
       TellOK, logVars, diskVars, tellVars
<1> QED
  BY <1>1, <1>2, <1>3

LEMMA AskTypes ==
  ASSUME TypeOK, AskSteps
  PROVE  TypeOK'
<1>0. AskedOK /\ ChainOK /\ LogOK /\ TellOK /\ None \in Links /\ <<>> \in Seq(Rows)
  BY DEF TypeOK, Links
<1>1. NoCheck \in [pc : AskedPcs, head : Links, anchor : Links, rows : Seq(Rows)]
  BY <1>0 DEF NoCheck, AskedPcs
<1>2. AskedOK'
  <2>1. CASE Ask
    BY <1>0, <1>1, <2>1 DEF Ask, AskedOK, ChainOK, AskedPcs
  <2>2. CASE AskAnchor
    BY <1>0, <2>2 DEF AskAnchor, AskedOK, ChainOK, AskedPcs
  <2>3. CASE AskRows
    BY <1>0, <2>3 DEF AskRows, AskedOK, LogOK, AskedPcs
  <2>4. CASE AskChain
    BY <1>0, <1>1, <2>4 DEF AskChain, AskedOK, AskedPcs
  <2>5. CASE AskFiles
    BY <1>0, <2>5 DEF AskFiles, AskedOK, AskedPcs
  <2> QED
    BY <2>1, <2>2, <2>3, <2>4, <2>5 DEF AskSteps
<1>3. TellOK'
  BY <1>0, Bounds DEF AskSteps, Ask, AskAnchor, AskRows, AskChain, AskFiles, TellOK, Happens, Blame,
     tellVars
<1> QED
  BY <1>2, <1>3 DEF AskSteps, Ask, AskAnchor, AskRows, AskChain, AskFiles, TypeOK, LogOK, ChainOK,
     DiskOK, FileOK, WriterOK, SealerOK, logVars, chainVars, diskVars

\* A hash whose rows of one id were changed.
Redone(hash, id) == [i \in DOMAIN hash |-> IF hash[i].id = id THEN Fake(id) ELSE hash[i]]

LEMMA RedoneHash ==
  ASSUME NEW hash \in Hashes, NEW id \in 1..MaxId
  PROVE  /\ Redone(hash, id) \in Hashes /\ Len(Redone(hash, id)) = Len(hash)
         /\ \A i \in 1..Len(hash) : Redone(hash, id)[i] = IF hash[i].id = id THEN Fake(id) ELSE hash[i]
         /\ \A i \in 1..Len(hash) : Redone(hash, id)[i].id = hash[i].id
<1>1. /\ hash \in Seq(Rows) /\ DOMAIN hash = 1..Len(hash) /\ Len(hash) \in Nat
      /\ \A i \in 1..Len(hash) : hash[i] \in Rows
  BY DEF Hashes
<1>2. Fake(id) \in Rows /\ Fake(id).id = id
  BY DEF Fake, Rows
<1> QED
  BY <1>1, <1>2 DEF Redone, Hashes

\* What somebody who rewrites the chain does to it.
LEMMA RewriteAs ==
  ASSUME TypeOK, Rewrite
  PROVE  \E k \in DOMAIN log :
           /\ log[k].id \in 1..MaxId /\ log[k].id \in DOMAIN chain /\ log[k].id <= HeadId
           /\ log' = [log EXCEPT ![k] = Fake(@.id)]
           /\ DOMAIN chain' = DOMAIN chain
           /\ \A i \in DOMAIN chain : chain'[i] = Redone(chain[i], log[k].id)
           /\ IsMap(chain', Hashes)
           /\ head' = Link(head.id, Redone(head.hash, log[k].id)) /\ head' \in Links /\ head' # None
<1>1. PICK k \in DOMAIN log :
        /\ log[k].id \in DOMAIN chain /\ log[k].id <= HeadId
        /\ log' = [log EXCEPT ![k] = Fake(log[k].id)]
        /\ chain' = [i \in DOMAIN chain |-> Redone(chain[i], log[k].id)]
        /\ head' = [head EXCEPT !.hash = Redone(head.hash, log[k].id)]
  BY DEF Rewrite, Redone
<1>2. log[k].id \in 1..MaxId /\ IsMap(chain, Hashes) /\ head \in Links /\ head # None
  BY <1>1, MapParts DEF TypeOK, ChainOK, Rewrite
<1>3. \A i \in DOMAIN chain : Redone(chain[i], log[k].id) \in Hashes
  BY <1>2, MapParts, RedoneHash
<1> DEFINE id == log[k].id
<1>4. chain' \in [DOMAIN chain -> Hashes] /\ DOMAIN chain \in SUBSET (1..MaxId)
  BY <1>1, <1>2, <1>3, MapParts
<1>5. IsMap(chain', Hashes)
  BY <1>4, MapOf
<1>6. /\ head.id \in 1..MaxId /\ Redone(head.hash, id) \in Hashes
      /\ head' = Link(head.id, Redone(head.hash, id))
  BY <1>1, <1>2, LinkParts, RedoneHash DEF Link
<1>7. head' \in Links /\ head' # None
  BY <1>6, LinkOf
<1> QED
  BY <1>1, <1>2, <1>4, <1>5, <1>6, <1>7

LEMMA MeddleTypes ==
  ASSUME TypeOK, MeddleSteps
  PROVE  TypeOK'
<1>0. ChainOK /\ LogOK /\ TellOK /\ log \in Seq(Rows)
  BY DEF TypeOK, LogOK
<1>1. TellOK' /\ UNCHANGED <<counter, anchor, sealed, diskVars, writer, sealer, asked>>
  BY <1>0, Bounds DEF MeddleSteps, Change, Remove, Insert, Rewrite, Meddle, Happens, TellOK, Ways
<1>2. log' \in Seq(Rows) /\ IsMap(chain', Hashes) /\ head' \in Links
  <2>1. CASE Change
    BY <1>0, <2>1, RowChanged DEF Change, ChainOK
  <2>2. CASE Remove
    BY <1>0, <2>2, RowRemoved DEF Remove, ChainOK
  <2>3. CASE Insert
    <3>1. PICK id \in 1..HeadId : log' = Append(log, Fake(id))
      BY <2>3 DEF Insert
    <3>2. Fake(id) \in Rows
      BY <1>0, <3>1, HeadParts, Bounds DEF Fake, Rows
    <3> QED
      BY <1>0, <2>3, <3>1, <3>2, RowsAround DEF Insert, ChainOK
  <2>4. CASE Rewrite
    BY <1>0, <2>4, RewriteAs, RowChanged
  <2> QED
    BY <2>1, <2>2, <2>3, <2>4 DEF MeddleSteps
<1> QED
  BY <1>0, <1>1, <1>2 DEF TypeOK, LogOK, ChainOK, DiskOK, FileOK, WriterOK, SealerOK, AskedOK, diskVars

LEMMA InitTypes == Init => TypeOK
<1>1. ASSUME Init PROVE TypeOK
  <2>1. None \in Links /\ <<>> \in Seq(Rows) /\ 0 \in 0..MaxId /\ MaxEvents \in 0..MaxEvents
    BY Bounds DEF Links
  <2>2. LogOK /\ ChainOK /\ DiskOK /\ TellOK
    BY <1>1, <2>1, NoRows DEF Init, LogOK, ChainOK, DiskOK, TellOK, Hashes
  <2>3. WriterOK
    BY <1>1, AtRestType DEF Init, WriterOK, WriterRec
  <2>4. SealerOK
    BY <1>1, <2>1, NoRows DEF Init, SealerOK, NoWait, SealerPcs
  <2>5. AskedOK
    BY <1>1, <2>1 DEF Init, AskedOK, NoCheck, AskedPcs
  <2> QED
    BY <2>2, <2>3, <2>4, <2>5 DEF TypeOK
<1> QED
  BY <1>1

-----------------------------------------------------------------------------
(* The chain from the anchor to the head *)

ChainInv == Sealing /\ Sealed /\ NewSeal /\ Agreeing

\* Nothing of what the chain is judged by changes.
LEMMA ChainStays ==
  ASSUME ChainInv, UNCHANGED chainVars,
         sealer'.pc = sealer.pc, sealer'.counter = sealer.counter, sealer'.byId = sealer.byId,
         meddled' # "rewrite" => meddled # "rewrite"
  PROVE  ChainInv'
<1>1. /\ UNCHANGED <<First, Start, NewHash, HeadId, FirstSealed>>
      /\ \A id : PastUpTo(id)' = PastUpTo(id)
  BY DEF chainVars, First, Start, NewHash, HeadId, FirstSealed, PastUpTo
<1>2. Sealing' /\ Sealed'
  BY <1>1 DEF ChainInv, Sealing, Sealed, chainVars
<1>3. NewSeal' /\ Agreeing'
  BY <1>1 DEF ChainInv, NewSeal, Agreeing, chainVars
<1> QED
  BY <1>2, <1>3 DEF ChainInv

\* The sealer goes on without a new hash.
LEMMA ChainGoesOn ==
  ASSUME ChainInv, UNCHANGED chainVars, sealer'.pc # "head", Sealing',
         meddled' # "rewrite" => meddled # "rewrite"
  PROVE  ChainInv'
<1>1. UNCHANGED <<HeadId, FirstSealed>> /\ \A id : PastUpTo(id)' = PastUpTo(id)
  BY DEF chainVars, HeadId, FirstSealed, PastUpTo
<1>2. Sealed' /\ NewSeal'
  BY <1>1 DEF ChainInv, Sealed, NewSeal, chainVars
<1>3. Agreeing'
  BY <1>1 DEF ChainInv, Agreeing, chainVars
<1> QED
  BY <1>2, <1>3 DEF ChainInv

SealerMoves ==
  \/ TickStart \/ TickRows \/ Sleep \/ StopSealer
  \/ Verify \/ WriteFile \/ WriteSum \/ SetThrough \/ ReplicaFails

LEMMA MoveAs ==
  ASSUME TypeOK, Sealing, SealerMoves
  PROVE  UNCHANGED <<chainVars, meddled>> /\ sealer'.pc # "head" /\ Sealing'
<1>0. SealerOK /\ ChainOK /\ LogOK /\ HeadId \in 0..MaxId
  BY HeadParts DEF TypeOK
<1>1. CASE TickStart
  <2>1. UNCHANGED <<chainVars, meddled>> /\ sealer'.pc \in {"ticked", "rows"} /\ sealer'.byId = sealer.byId
    BY <1>0, <1>1 DEF TickStart, Then, SealerOK, tellVars
  <2>2. sealer'.pc = "rows" /\ head # None => sealer'.counter > HeadId
    <3>1. CASE head # None /\ counter <= HeadId
      BY <1>0, <1>1, <3>1 DEF TickStart, Then, SealerOK
    <3>2. CASE ~(head # None /\ counter <= HeadId)
      <4>1. sealer' = [sealer EXCEPT !.pc = "rows", !.counter = counter]
        BY <1>1, <3>2 DEF TickStart
      <4>2. sealer'.counter = counter
        BY <1>0, <4>1 DEF SealerOK
      <4>3. counter \in Nat /\ HeadId \in Nat
        BY <1>0, Bounds DEF LogOK
      <4> QED
        BY <3>2, <4>2, <4>3
    <3> QED
      BY <3>1, <3>2
  <2>3. HeadId' = HeadId /\ head' = head
    BY <2>1 DEF chainVars, HeadId
  <2> QED
    BY <2>1, <2>2, <2>3 DEF Sealing
<1>2. CASE TickRows
  <2> DEFINE byId == ById(Newest(log, Window), HeadId)
  <2>1. /\ UNCHANGED <<chainVars, meddled>> /\ sealer'.byId = byId /\ sealer'.counter = sealer.counter
        /\ sealer'.pc = IF head # None THEN "seal" ELSE IF DOMAIN byId = {} THEN "ticked" ELSE "anchor"
        /\ sealer.pc = "rows"
    BY <1>0, <1>2 DEF TickRows, SealerOK, tellVars, Sealer
  <2>2. \A id \in DOMAIN byId : byId[id].id = id
    <3>1. Window \in Int
      BY <1>0, WindowType
    <3>2. Newest(log, Window) \in Seq(Rows) /\ HeadId \in Nat
      BY <1>0, <3>1, NewestRows, Bounds DEF LogOK
    <3> QED
      BY <3>2, ByIdIds
  <2> HIDE DEF byId
  <2>3. HeadId' = HeadId /\ head' = head
    BY <2>1 DEF chainVars, HeadId
  <2> QED
    BY <2>1, <2>2, <2>3 DEF Sealing
<1>3. CASE Sleep \/ StopSealer
  <2>1. UNCHANGED <<chainVars, meddled>> /\ sealer'.pc = "idle"
    BY <1>0, <1>3 DEF Sleep, StopSealer, Rests, SealerOK, tellVars
  <2>2. sealer'.byId = sealer.byId \/ sealer'.byId = <<>>
    BY <1>0, <1>3 DEF Sleep, StopSealer, Rests, SealerOK
  <2> QED
    BY <2>1, <2>2 DEF Sealing
<1>4. CASE Verify
  <2>1. /\ UNCHANGED <<chainVars, meddled>> /\ sealer'.pc \in {"idle", "file", "prune"}
        /\ sealer'.byId = sealer.byId
    BY <1>0, <1>4 DEF Verify, SealerOK, tellVars
  <2> QED
    BY <2>1 DEF Sealing
<1>5. CASE WriteFile \/ WriteSum \/ SetThrough \/ ReplicaFails
  <2>1. /\ UNCHANGED <<chainVars, meddled>> /\ sealer'.pc \in {"sum", "through", "prune"}
        /\ sealer'.byId = sealer.byId
    BY <1>0, <1>5 DEF WriteFile, WriteSum, SetThrough, ReplicaFails, Then, SealerOK, tellVars
  <2> QED
    BY <2>1 DEF Sealing
<1> QED
  BY <1>1, <1>2, <1>3, <1>4, <1>5 DEF SealerMoves

LEMMA SetAnchorKeepsChain ==
  ASSUME TypeOK, ChainInv, SetAnchor
  PROVE  ChainInv'
<1>1. /\ sealer.pc = "anchor" /\ head = None /\ DOMAIN sealer.byId # {}
      /\ sealed = <<>> /\ anchor' = Link(Start, Zero) /\ UNCHANGED <<head, sealed, chain, meddled>>
      /\ sealer' = [sealer EXCEPT !.pc = "seal"]
  BY DEF ChainInv, Sealing, Sealed, SetAnchor, Sealer, Then, tellVars
<1>2. sealer'.pc = "seal" /\ sealer'.byId = sealer.byId
  BY <1>1 DEF TypeOK, SealerOK
<1>3. Start' = Start
  BY <1>1, <1>2 DEF Start
<1> QED
  BY <1>1, <1>2, <1>3 DEF ChainInv, Sealing, Sealed, NewSeal, Agreeing

\* What there is before a seal is as long as the ids before it.
LEMMA BeforeSeal ==
  ASSUME TypeOK, ChainInv, sealer.pc = "seal"
  PROVE  /\ head = None => DOMAIN sealer.byId # {}
         /\ anchor # None /\ First \in 1..MaxId /\ First <= anchor.id /\ First <= Start
         /\ Len(HeadHash) = Start - First /\ Len(HeadHash) = Len(sealed)
         /\ head = None => anchor.id = Start /\ First = Start /\ anchor.hash = Zero
         /\ head # None => Start = HeadId + 1 /\ First = FirstSealed
         /\ meddled # "rewrite" => HeadHash = sealed
<1>0. ChainOK /\ SealerOK
  BY DEF TypeOK
<1>1. CASE head = None
  <2>1. /\ DOMAIN sealer.byId # {} /\ anchor = Link(Start, Zero) /\ sealed = <<>> /\ HeadHash = <<>>
    BY <1>1 DEF ChainInv, Sealing, Sealed, HeadHash, Zero
  <2>2. Start \in 1..MaxId
    <3>1. Start \in DOMAIN sealer.byId
      BY <1>0, <1>1, <2>1, StartType
    <3> QED
      BY <1>0, <3>1, SealerParts, MapParts
  <2>3. anchor # None /\ anchor.id = Start /\ anchor.hash = Zero
    <3>1. Zero \in Hashes
      BY DEF Zero, Hashes
    <3> QED
      BY <2>1, <2>2, <3>1, LinkOf
  <2>4. First = Start
    BY <1>1, <2>3 DEF First
  <2>5. Len(HeadHash) = 0 /\ Len(sealed) = 0 /\ HeadHash = sealed
    BY <2>1
  <2> QED
    BY <1>1, <2>1, <2>2, <2>3, <2>4, <2>5
<1>2. CASE head # None
  <2>1. /\ anchor # None /\ sealed # <<>> /\ FirstSealed <= anchor.id
        /\ Len(head.hash) = Len(sealed) /\ HeadId = FirstSealed + Len(sealed) - 1
    BY <1>2 DEF ChainInv, Sealed
  <2>2. Start = HeadId + 1 /\ HeadHash = head.hash /\ First = FirstSealed
    BY <1>2, HeadParts, <1>0 DEF Start, First
  <2>3. FirstSealed \in 1..MaxId /\ Len(sealed) \in Nat /\ Len(sealed) >= 1
    <3>1. sealed \in Seq(Rows)
      BY <1>0 DEF ChainOK, Hashes
    <3>2. sealed[1] \in Rows /\ Len(sealed) \in Nat /\ Len(sealed) >= 1
      BY <2>1, <3>1
    <3> QED
      BY <3>2 DEF FirstSealed, Rows
  <2>4. meddled # "rewrite" => HeadHash = sealed
    BY <1>2, <2>2 DEF ChainInv, Agreeing
  <2>5. HeadId \in Nat
    BY <1>0, HeadParts, Bounds
  <2>6. First <= Start /\ Len(HeadHash) = Start - First
    BY <2>1, <2>2, <2>3, <2>5, Bounds
  <2> QED
    BY <1>2, <2>1, <2>2, <2>3, <2>4, <2>6
<1> QED
  BY <1>1, <1>2

LEMMA SealKeepsChain ==
  ASSUME TypeOK, ChainInv, Seal
  PROVE  ChainInv'
<1>0. ChainOK /\ SealerOK /\ sealer.pc = "seal" /\ UNCHANGED <<head, anchor, sealed, meddled>>
  BY DEF TypeOK, Seal, Sealer, tellVars
<1>1. /\ head = None => DOMAIN sealer.byId # {}
      /\ anchor # None /\ First \in 1..MaxId /\ First <= anchor.id /\ First <= Start
      /\ Len(HeadHash) = Start - First /\ Len(HeadHash) = Len(sealed)
      /\ head = None => anchor.id = Start /\ First = Start /\ anchor.hash = Zero
      /\ head # None => Start = HeadId + 1 /\ First = FirstSealed
      /\ meddled # "rewrite" => HeadHash = sealed
  BY <1>0, BeforeSeal
<1>2. /\ Start \in Nat /\ LastSealed \in Nat /\ LastSealed >= Start - 1 /\ First \in Nat
      /\ anchor.id \in Nat /\ HeadId \in Nat
  BY <1>0, <1>1, StartType, LastSealedType, HeadParts, AnchorParts, Bounds
<1>3. /\ sealer'.byId = <<>> /\ sealer'.counter = LastSealed
      /\ sealer'.pc = IF LastSealed < Start THEN "ticked" ELSE "head"
  BY <1>0 DEF Seal, SealerOK
<1>4. UNCHANGED <<First, FirstSealed, HeadId>> /\ \A id : PastUpTo(id)' = PastUpTo(id)
  BY <1>0 DEF First, FirstSealed, HeadId, PastUpTo
<1>5. DOMAIN Batch = Start..LastSealed
  BY DEF Batch
<1>6. /\ DOMAIN chain' = DOMAIN chain \cup (Start..LastSealed)
      /\ \A id \in DOMAIN chain : id < Start => chain'[id] = chain[id]
      /\ \A id \in Start..LastSealed : chain'[id] = Batch[id]
  <2>1. chain' = [id \in DOMAIN chain \cup DOMAIN Batch |->
                    IF id \in DOMAIN Batch THEN Batch[id] ELSE chain[id]]
    BY DEF Seal
  <2>2. \A id : id < Start => id \notin Start..LastSealed
    BY <1>2
  <2> QED
    BY <1>5, <2>1, <2>2
<1>7. Sealing'
  BY <1>3 DEF Sealing
<1>8. Sealed'
  BY <1>0, <1>4, <1>6 DEF ChainInv, Sealed
<1>9. head # None /\ meddled # "rewrite" =>
        head.hash = sealed /\ \A id \in anchor.id..HeadId : chain[id] = PastUpTo(id) /\ id \in DOMAIN chain
  BY DEF ChainInv, Agreeing, Sealed
<1>10. head # None /\ meddled # "rewrite" =>
         \A id \in anchor.id..HeadId : chain'[id] = PastUpTo(id)
  <2>1. head # None => \A id \in anchor.id..HeadId : id < Start
    BY <1>1, <1>2
  <2> QED
    BY <1>6, <1>9, <2>1
<1>11. CASE LastSealed < Start
  <2>1. sealer'.pc = "ticked"
    BY <1>3, <1>11
  <2>2. NewSeal' /\ Agreeing'
    BY <1>0, <1>4, <1>9, <1>10, <2>1 DEF NewSeal, Agreeing
  <2> QED
    BY <1>7, <1>8, <2>2 DEF ChainInv
<1>12. CASE ~(LastSealed < Start)
  <2> DEFINE last == Batch[LastSealed]
  <2>1. LastSealed \in Start..LastSealed /\ sealer'.pc = "head"
    BY <1>2, <1>3, <1>12
  <2>2. NewHash' = last
    BY <1>3, <1>6, <2>1 DEF NewHash
  <2>3. /\ last \in Hashes /\ Len(last) = Len(HeadHash) + LastSealed - Start + 1
        /\ SubSeq(last, 1, Len(HeadHash)) = HeadHash /\ last[Len(HeadHash) + 1].id = Start
        /\ \A i \in Start..LastSealed : Batch[i] = SubSeq(last, 1, Len(HeadHash) + i - Start + 1)
    <3>1. \A id \in DOMAIN sealer.byId : sealer.byId[id].id = id
      BY DEF ChainInv, Sealing
    <3> QED
      BY <1>0, <1>1, <2>1, <3>1, BatchFacts
  <2> HIDE DEF last
  <2>4. Len(last) = LastSealed - First + 1 /\ Len(last) \in Nat
    <3>1. Len(HeadHash) = Start - First /\ Len(last) = Len(HeadHash) + LastSealed - Start + 1
      BY <1>1, <2>3
    <3>2. First <= Start
      BY <1>1
    <3> QED
      BY <1>2, <1>12, <3>1, <3>2
  <2>5. NewSeal'
    <3>1. head = None => /\ anchor.id <= LastSealed /\ last[1].id = anchor.id
      <4>1. CASE head = None
        <5>1. Len(HeadHash) = 0 /\ 0 + 1 = 1
          <6>1. First = Start /\ Len(HeadHash) = Start - First
            BY <1>1, <4>1
          <6> QED
            BY <1>2, <6>1
        <5>2. anchor.id = Start /\ last[1].id = Start
          BY <1>1, <2>3, <4>1, <5>1
        <5> QED
          BY <1>2, <1>12, <5>2
      <4> QED
        BY <4>1
    <3>2. LastSealed > HeadId /\ LastSealed \in DOMAIN chain'
      <4>1. head = None => HeadId = 0 /\ Start >= 1
        BY <1>0, <1>1, HeadParts, Bounds
      <4> QED
        BY <1>1, <1>2, <1>6, <1>12, <2>1, <4>1
    <3>3. anchor.id..LastSealed \subseteq DOMAIN chain'
      <4>1. ASSUME NEW id \in anchor.id..LastSealed, id < Start PROVE id \in DOMAIN chain
        <5>1. head # None /\ id \in anchor.id..HeadId
          BY <1>1, <1>2, <4>1
        <5> QED
          BY <5>1 DEF ChainInv, Sealed
      <4>2. \A id \in anchor.id..LastSealed : id < Start \/ id \in Start..LastSealed
        BY <1>2
      <4> QED
        BY <1>6, <4>1, <4>2
    <3>4. First + Len(last) - 1 = LastSealed
      BY <1>2, <2>4
    <3> QED
      BY <1>0, <1>1, <1>3, <1>4, <2>2, <3>1, <3>2, <3>3, <3>4 DEF NewSeal
  <2>6. Agreeing'
    <3> SUFFICES ASSUME meddled # "rewrite"
                 PROVE  /\ SubSeq(last, 1, Len(sealed)) = sealed
                        /\ \A id \in anchor.id..LastSealed : chain'[id] = SubSeq(last, 1, id - First + 1)
      BY <1>0, <1>3, <1>4, <1>9, <1>10, <2>2 DEF Agreeing
    <3>1. SubSeq(last, 1, Len(sealed)) = sealed
      BY <1>1, <2>3
    <3>2. ASSUME NEW id \in anchor.id..LastSealed PROVE chain'[id] = SubSeq(last, 1, id - First + 1)
      <4>1. CASE id < Start
        <5>1. head # None /\ id \in anchor.id..HeadId
          BY <1>1, <1>2, <4>1
        <5>2. chain'[id] = SubSeq(sealed, 1, id - First + 1)
          BY <1>1, <1>10, <5>1 DEF PastUpTo
        <5>3. Len(sealed) \in 0..Len(last) /\ id - First + 1 \in 0..Len(sealed)
          BY <1>1, <1>2, <1>12, <2>4, <4>1
        <5>4. SubSeq(SubSeq(last, 1, Len(sealed)), 1, id - First + 1) = SubSeq(last, 1, id - First + 1)
          BY <2>3, <5>3, BeginningOfBeginning DEF Hashes
        <5> QED
          BY <3>1, <5>2, <5>4
      <4>2. CASE ~(id < Start)
        <5>1. id \in Start..LastSealed
          BY <1>2, <4>2
        <5>2. Len(HeadHash) + id - Start + 1 = id - First + 1
          BY <1>1, <1>2
        <5> QED
          BY <1>6, <2>3, <5>1, <5>2
      <4> QED
        BY <4>1, <4>2
    <3> QED
      BY <3>1, <3>2
  <2> QED
    BY <1>7, <1>8, <2>5, <2>6 DEF ChainInv
<1> QED
  BY <1>11, <1>12

\* What was sealed, and the rest of a longer hash.
LEMMA RestOfHash ==
  ASSUME NEW s \in Seq(Rows), NEW h \in Seq(Rows), Len(s) <= Len(h)
  PROVE  LET t == s \o SubSeq(h, Len(s) + 1, Len(h)) IN
         /\ t \in Seq(Rows) /\ Len(t) = Len(h)
         /\ Len(s) >= 1 => t[1] = s[1]
         /\ Len(s) = 0 /\ Len(h) >= 1 => t[1] = h[1]
         /\ SubSeq(h, 1, Len(s)) = s => t = h
         /\ \A k \in 1..Len(h) : t[k] = IF k <= Len(s) THEN s[k] ELSE h[k]
<1> DEFINE n == Len(s)
           more == SubSeq(h, n + 1, Len(h))
           t == s \o more
<1>1. n \in Nat /\ Len(h) \in Nat /\ n <= Len(h)
  OBVIOUS
<1> HIDE DEF n
<1>2. /\ more \in Seq(Rows) /\ Len(more) = Len(h) - n
      /\ \A k \in 1..Len(h) - n : more[k] = h[k + n]
  BY <1>1
<1> HIDE DEF more
<1>3. n = Len(s)
  BY DEF n
<1>4. /\ t \in Seq(Rows) /\ Len(t) = Len(h)
      /\ \A k \in 1..Len(h) : t[k] = IF k <= n THEN s[k] ELSE more[k - n]
  BY <1>1, <1>2, <1>3
<1> HIDE DEF t
<1>5. ASSUME NEW k \in 1..Len(h), k > n PROVE t[k] = h[k]
  <2>1. k - n \in 1..Len(h) - n /\ (k - n) + n = k /\ ~(k <= n)
    BY <1>1, <1>5
  <2> QED
    BY <1>2, <1>4, <2>1
<1>6. ASSUME SubSeq(h, 1, n) = s PROVE t = h
  <2>1. \A k \in 1..n : h[k] = s[k]
    BY <1>1, <1>6, Beginning
  <2>2. \A k \in 1..Len(h) : t[k] = h[k]
    <3>1. ASSUME NEW k \in 1..Len(h) PROVE t[k] = h[k]
      <4>1. CASE k > n
        BY <1>5, <4>1
      <4>2. CASE ~(k > n)
        BY <1>1, <1>4, <2>1, <4>2
      <4> QED
        BY <4>1, <4>2
    <3> QED
      BY <3>1
  <2> QED
    BY <1>4, <2>2, SameSeq
<1>7. (n >= 1 => t[1] = s[1]) /\ (n = 0 /\ Len(h) >= 1 => t[1] = h[1])
  <2>1. n >= 1 => 1 \in 1..Len(h) /\ 1 <= n
    BY <1>1
  <2>2. n = 0 /\ Len(h) >= 1 => 1 \in 1..Len(h) /\ 1 > n
    BY <1>1
  <2> QED
    BY <1>4, <1>5, <2>1, <2>2
<1>8. t = s \o SubSeq(h, Len(s) + 1, Len(h))
  BY DEF t, more, n
<1>9. /\ t \in Seq(Rows) /\ Len(t) = Len(h)
      /\ Len(s) >= 1 => t[1] = s[1]
      /\ Len(s) = 0 /\ Len(h) >= 1 => t[1] = h[1]
      /\ SubSeq(h, 1, Len(s)) = s => t = h
  BY <1>3, <1>4, <1>6, <1>7
<1>10. \A k \in 1..Len(h) : t[k] = IF k <= Len(s) THEN s[k] ELSE h[k]
  BY <1>1, <1>3, <1>4, <1>5
<1> QED
  BY <1>8, <1>9, <1>10

\* What a new head makes of what was sealed.
LEMMA NewHead ==
  ASSUME TypeOK, ChainInv, SetHead
  PROVE  /\ First \in 1..MaxId /\ First <= sealer.counter /\ First <= anchor.id /\ anchor # None
         /\ sealer.counter \in 1..MaxId /\ sealer.counter > HeadId
         /\ head' # None /\ head'.id = sealer.counter /\ HeadId' = sealer.counter
         /\ head'.hash = NewHash /\ NewHash \in Hashes /\ Len(NewHash) = sealer.counter - First + 1
         /\ sealed' # <<>> /\ Len(sealed') = Len(NewHash) /\ FirstSealed' = First
         /\ SubSeq(NewHash, 1, Len(sealed)) = sealed => sealed' = NewHash
         /\ \A k \in 1..Len(NewHash) :
              sealed'[k] = IF k <= Len(sealed) THEN sealed[k] ELSE NewHash[k]
         /\ head = None => anchor.id = First /\ anchor.hash = Zero
         /\ anchor.id..sealer.counter \subseteq DOMAIN chain
         /\ sealer'.pc = "ticked" /\ sealer'.byId = sealer.byId
         /\ UNCHANGED <<chain, anchor, meddled>>
<1>0. ChainOK /\ SealerOK /\ sealer.pc = "head" /\ sealed \in Seq(Rows)
  BY DEF TypeOK, ChainOK, SetHead, Sealer, Hashes
<1>1. /\ anchor # None /\ sealer.counter > HeadId /\ sealer.counter \in DOMAIN chain
      /\ head = None => anchor.id <= sealer.counter /\ anchor.hash = Zero /\ NewHash[1].id = anchor.id
      /\ First + Len(NewHash) - 1 = sealer.counter /\ anchor.id..sealer.counter \subseteq DOMAIN chain
  BY <1>0 DEF ChainInv, NewSeal
<1>2. sealer.counter \in 1..MaxId /\ NewHash \in Hashes /\ NewHash \in Seq(Rows)
  BY <1>0, <1>1, MapParts DEF ChainOK, NewHash, Hashes
<1>3. head' = Link(sealer.counter, NewHash)
  BY DEF SetHead, NewHash
<1>4. head' # None /\ head'.id = sealer.counter /\ head'.hash = NewHash
  BY <1>2, <1>3, LinkOf
<1>5. HeadId' = sealer.counter
  BY <1>4 DEF HeadId
<1>6. anchor.id \in 1..MaxId
  BY <1>0, <1>1, AnchorParts
<1>7. /\ First \in 1..MaxId /\ First <= sealer.counter /\ First <= anchor.id
      /\ head = None => First = anchor.id /\ Len(sealed) = 0
      /\ head # None => First = FirstSealed /\ Len(sealed) = HeadId - First + 1 /\ Len(sealed) >= 1
  <2>1. CASE head = None
    BY <1>1, <1>6, <2>1, Bounds DEF First, ChainInv, Sealed
  <2>2. CASE head # None
    <3>1. /\ sealed # <<>> /\ FirstSealed <= anchor.id /\ HeadId = FirstSealed + Len(sealed) - 1
      BY <2>2 DEF ChainInv, Sealed
    <3>2. sealed[1] \in Rows /\ Len(sealed) \in Nat /\ Len(sealed) >= 1
      BY <1>0, <3>1
    <3>3. First = FirstSealed /\ FirstSealed \in 1..MaxId
      BY <2>2, <3>2 DEF First, FirstSealed, Rows
    <3>4. HeadId \in Nat /\ sealer.counter \in Nat /\ FirstSealed \in Nat
      BY <1>0, <1>2, <3>3, HeadParts, Bounds
    <3> QED
      BY <1>1, <2>2, <3>1, <3>2, <3>3, <3>4
  <2> QED
    BY <2>1, <2>2
<1>8. Len(NewHash) \in Nat /\ Len(NewHash) = sealer.counter - First + 1
  BY <1>1, <1>2, <1>7, Bounds
<1>9. Len(sealed) \in Nat /\ Len(sealed) <= Len(NewHash) /\ Len(NewHash) >= 1
  <2>1. HeadId \in Nat
    BY <1>0, HeadParts, Bounds
  <2> QED
    BY <1>0, <1>1, <1>2, <1>7, <1>8, <2>1, Bounds
<1>10. sealed' = sealed \o SubSeq(NewHash, Len(sealed) + 1, Len(NewHash))
  BY <1>4 DEF SetHead
<1>11. /\ sealed' \in Seq(Rows) /\ Len(sealed') = Len(NewHash)
       /\ Len(sealed) >= 1 => sealed'[1] = sealed[1]
       /\ Len(sealed) = 0 /\ Len(NewHash) >= 1 => sealed'[1] = NewHash[1]
       /\ SubSeq(NewHash, 1, Len(sealed)) = sealed => sealed' = NewHash
       /\ \A k \in 1..Len(NewHash) :
            sealed'[k] = IF k <= Len(sealed) THEN sealed[k] ELSE NewHash[k]
  BY <1>0, <1>2, <1>9, <1>10, RestOfHash
<1>12. FirstSealed' = First
  <2>1. CASE head = None
    BY <1>1, <1>7, <1>9, <1>11, <2>1 DEF FirstSealed
  <2>2. CASE head # None
    BY <1>7, <1>11, <2>2 DEF FirstSealed
  <2> QED
    BY <2>1, <2>2
<1>13. sealed' # <<>>
  BY <1>9, <1>11
<1>14. /\ sealer'.pc = "ticked" /\ sealer'.byId = sealer.byId /\ UNCHANGED <<chain, anchor, meddled>>
  BY <1>0 DEF SetHead, Then, SealerOK, tellVars
<1> QED
  BY <1>1, <1>2, <1>4, <1>5, <1>7, <1>8, <1>11, <1>12, <1>13, <1>14

LEMMA SetHeadKeepsChain ==
  ASSUME TypeOK, ChainInv, SetHead
  PROVE  ChainInv'
<1>1. /\ First \in 1..MaxId /\ First <= anchor.id /\ anchor # None
      /\ sealer.counter \in 1..MaxId
      /\ head' # None /\ head'.id = sealer.counter /\ HeadId' = sealer.counter
      /\ head'.hash = NewHash /\ Len(NewHash) = sealer.counter - First + 1
      /\ sealed' # <<>> /\ Len(sealed') = Len(NewHash) /\ FirstSealed' = First
      /\ SubSeq(NewHash, 1, Len(sealed)) = sealed => sealed' = NewHash
      /\ anchor.id..sealer.counter \subseteq DOMAIN chain
      /\ sealer'.pc = "ticked" /\ sealer'.byId = sealer.byId
      /\ UNCHANGED <<chain, anchor, meddled>>
  BY NewHead
<1>2. Sealing' /\ NewSeal'
  BY <1>1 DEF ChainInv, Sealing, NewSeal
<1>3. Sealed'
  <2>1. sealer.counter = First + Len(NewHash) - 1
    BY <1>1, Bounds
  <2> QED
    BY <1>1, <2>1 DEF Sealed
<1>4. Agreeing'
  <2> SUFFICES ASSUME meddled # "rewrite"
               PROVE  /\ sealed' = NewHash
                      /\ \A id \in anchor.id..sealer.counter : chain[id] = PastUpTo(id)'
    BY <1>1 DEF Agreeing
  <2>1. /\ SubSeq(NewHash, 1, Len(sealed)) = sealed
        /\ \A id \in anchor.id..sealer.counter : chain[id] = SubSeq(NewHash, 1, id - First + 1)
    BY DEF ChainInv, Agreeing, SetHead, Sealer
  <2> QED
    BY <1>1, <2>1 DEF PastUpTo
<1> QED
  BY <1>2, <1>3, <1>4 DEF ChainInv

LEMMA PruneKeepsChain ==
  ASSUME TypeOK, ChainInv, Prune \/ Forget
  PROVE  ChainInv'
<1>0. ChainOK /\ SealerOK /\ LogOK
  BY DEF TypeOK
<1>1. CASE Prune
  <2>1. /\ UNCHANGED <<chain, head, sealed, meddled>> /\ sealer'.pc \in {"idle", "forget"}
        /\ sealer'.byId = sealer.byId
    BY <1>0, <1>1, PruneAs DEF Prune, SealerOK, tellVars
  <2>2. UNCHANGED <<FirstSealed, HeadId>> /\ \A id : PastUpTo(id)' = PastUpTo(id)
    BY <2>1 DEF FirstSealed, HeadId, PastUpTo
  <2>3. head # None => /\ anchor' # None /\ FirstSealed <= anchor'.id
                       /\ anchor'.id..HeadId \subseteq anchor.id..HeadId
    <3> SUFFICES ASSUME head # None
                 PROVE  /\ anchor' # None /\ FirstSealed <= anchor'.id
                        /\ anchor'.id..HeadId \subseteq anchor.id..HeadId
      OBVIOUS
    <3>1. anchor # None /\ FirstSealed <= anchor.id /\ sealed # <<>>
      BY DEF ChainInv, Sealed
    <3>2. CASE UNCHANGED anchor
      BY <3>1, <3>2
    <3>3. CASE anchor' # None /\ anchor'.id \in 1..MaxId /\ anchor'.id > anchor.id
      <4>1. anchor.id \in 1..MaxId /\ HeadId \in 0..MaxId
        BY <1>0, <3>1, AnchorParts, HeadParts
      <4>2. FirstSealed \in 1..MaxId
        <5>1. sealed[1] \in Rows
          BY <1>0, <3>1 DEF ChainOK, Hashes
        <5> QED
          BY <5>1 DEF FirstSealed, Rows
      <4> QED
        BY <3>1, <3>3, <4>1, <4>2, Bounds
    <3>4. CASE PruneMoves /\ Min(Ids(log)) \in 1..MaxId
               /\ anchor' = Link(Min(Ids(log)), chain[Min(Ids(log)) - 1])
               /\ chain[Min(Ids(log)) - 1] \in Hashes
      <4>1. anchor' # None /\ anchor'.id = Min(Ids(log))
        BY <3>4, LinkOf
      <4> QED
        BY <3>3, <3>4, <4>1 DEF PruneMoves
    <3> QED
      BY <1>1, <3>2, <3>4, PruneAs
  <2>4. Sealing' /\ NewSeal'
    BY <2>1 DEF ChainInv, Sealing, NewSeal
  <2>5. Sealed'
    BY <2>1, <2>2, <2>3 DEF ChainInv, Sealed
  <2>6. Agreeing'
    BY <2>1, <2>2, <2>3 DEF ChainInv, Agreeing
  <2> QED
    BY <2>4, <2>5, <2>6 DEF ChainInv
<1>2. CASE Forget
  <2>1. /\ UNCHANGED <<anchor, head, sealed, meddled>> /\ sealer'.pc = "idle"
        /\ sealer'.byId = sealer.byId
    BY <1>0, <1>2 DEF Forget, Rests, SealerOK, tellVars
  <2>2. UNCHANGED <<FirstSealed, HeadId>> /\ \A id : PastUpTo(id)' = PastUpTo(id)
    BY <2>1 DEF FirstSealed, HeadId, PastUpTo
  <2>3. head # None =>
          /\ anchor.id..HeadId \subseteq DOMAIN chain'
          /\ \A id \in anchor.id..HeadId : chain'[id] = chain[id]
    <3> SUFFICES ASSUME head # None, NEW id \in anchor.id..HeadId
                 PROVE  id \in DOMAIN chain' /\ chain'[id] = chain[id]
      OBVIOUS
    <3>1. anchor # None /\ id \in DOMAIN chain
      BY DEF ChainInv, Sealed
    <3>2. anchor.id \in Nat /\ id >= anchor.id
      BY <1>0, <3>1, AnchorParts, HeadParts, Bounds
    <3> QED
      BY <1>2, <3>1, <3>2 DEF Forget
  <2>4. Sealing' /\ NewSeal'
    BY <2>1 DEF ChainInv, Sealing, NewSeal
  <2>5. Sealed'
    BY <2>1, <2>2, <2>3 DEF ChainInv, Sealed
  <2>6. Agreeing'
    BY <2>1, <2>2, <2>3 DEF ChainInv, Agreeing
  <2> QED
    BY <2>4, <2>5, <2>6 DEF ChainInv
<1> QED
  BY <1>1, <1>2

LEMMA MeddleKeepsChain ==
  ASSUME TypeOK, ChainInv, MeddleSteps
  PROVE  ChainInv'
<1>0. ChainOK /\ SealerOK
  BY DEF TypeOK
<1>1. CASE Change \/ Remove \/ Insert
  <2>1. /\ UNCHANGED <<chainVars, sealer>> /\ meddled = "none"
    BY <1>1 DEF Change, Remove, Insert, Meddle, chainVars
  <2> QED
    BY <2>1, ChainStays
<1>2. CASE Rewrite
  <2>1. PICK k \in DOMAIN log :
           /\ log[k].id \in 1..MaxId /\ DOMAIN chain' = DOMAIN chain
           /\ head' = Link(head.id, Redone(head.hash, log[k].id)) /\ head' # None
    BY <1>2, RewriteAs
  <2>2. /\ UNCHANGED <<anchor, sealed, sealer>> /\ sealer.pc \in {"idle", "ticked"}
        /\ head # None /\ meddled' = "rewrite"
    BY <1>2 DEF Rewrite, Meddle
  <2>3. head'.id = head.id /\ head'.hash = Redone(head.hash, log[k].id)
    BY <2>1 DEF Link
  <2>4. Len(head'.hash) = Len(head.hash)
    <3>1. head.hash \in Hashes
      BY <1>0, <2>2, HeadParts
    <3> QED
      BY <2>1, <2>3, <3>1, RedoneHash
  <2>5. UNCHANGED <<FirstSealed, HeadId>>
    BY <2>1, <2>2, <2>3 DEF FirstSealed, HeadId
  <2>6. Sealing' /\ NewSeal' /\ Agreeing'
    BY <2>2 DEF ChainInv, Sealing, NewSeal, Agreeing
  <2>7. Sealed'
    BY <2>1, <2>2, <2>4, <2>5 DEF ChainInv, Sealed
  <2> QED
    BY <2>6, <2>7 DEF ChainInv
<1> QED
  BY <1>1, <1>2 DEF MeddleSteps


-----------------------------------------------------------------------------
(* Trimming the log *)

WriterMoves(w) == WriterSteps(w) \/ StopWriter(w)

\* What no step of a writer touches, and what it does to its own record.
LEMMA WriterMovesAs ==
  ASSUME TypeOK, NEW w \in Writers, WriterMoves(w)
  PROVE  /\ UNCHANGED <<chainVars, diskVars, sealer, asked, meddled>> /\ slips \subseteq slips'
         /\ \A v \in Writers \ {w} : writer'[v] = writer[v]
<1>1. UNCHANGED <<chainVars, diskVars, sealer, asked, meddled>> /\ slips \subseteq slips'
  BY DEF WriterMoves, WriterSteps, Incr, Push, Count, Keep, Drop, Fill, StopWriter, tellVars, Blame
<1>2. \A v \in Writers \ {w} : writer'[v] = writer[v]
  BY DEF WriterMoves, WriterSteps, Incr, Push, Count, Keep, Drop, Fill, StopWriter, Goes, TypeOK, WriterOK
<1> QED
  BY <1>1, <1>2

LEMMA WriterNext ==
  ASSUME WriterOK, NEW w \in Writers
  PROVE  /\ Incr(w) => writer[w].pc = "idle" /\ writer'[w].pc = "push" /\ log' = log
         /\ Push(w) => writer[w].pc = "push" /\ writer'[w].pc = "count"
         /\ Count(w) => writer[w].pc = "count" /\ writer'[w].pc \in {"idle", "keep"} /\ log' = log
         /\ Keep(w) => /\ writer[w].pc = "keep" /\ writer'[w].pc = "drop" /\ log' = log
                       /\ writer'[w].keep = Newest(log, Cap)
         /\ Drop(w) => /\ writer[w].pc = "drop" /\ log' = <<>>
                       /\ IF writer[w].keep = <<>> THEN writer'[w].pc = "idle"
                          ELSE writer'[w].pc = "fill" /\ writer'[w].keep = writer[w].keep
         /\ StopWriter(w) => writer[w].pc # "idle" /\ writer'[w].pc = "idle" /\ log' = log
<1>1. /\ \A r : [writer EXCEPT ![w] = r][w] = r /\ AtRest.pc = "idle"
      /\ \A pc : [writer EXCEPT ![w].pc = pc][w].pc = pc
      /\ \A pc : [writer EXCEPT ![w].pc = pc][w].keep = writer[w].keep
      /\ \A pc, keep : [writer EXCEPT ![w].pc = pc, ![w].keep = keep][w].pc = pc
      /\ \A pc, keep : [writer EXCEPT ![w].pc = pc, ![w].keep = keep][w].keep = keep
  BY DEF WriterOK, AtRest
<1>a. Incr(w) => writer[w].pc = "idle" /\ writer'[w].pc = "push" /\ log' = log
  BY DEF Incr, WriterOK
<1>b. Push(w) => writer[w].pc = "push" /\ writer'[w].pc = "count"
  BY DEF Push, WriterOK, AtRest
<1>2. StopWriter(w) => writer[w].pc # "idle" /\ writer'[w].pc = "idle" /\ log' = log
  BY <1>1 DEF StopWriter, logVars
<1>3. Count(w) => writer[w].pc = "count" /\ writer'[w].pc \in {"idle", "keep"} /\ log' = log
  BY <1>1 DEF Count, Goes, logVars
<1>4. Keep(w) => /\ writer[w].pc = "keep" /\ writer'[w].pc = "drop" /\ log' = log
                 /\ writer'[w].keep = Newest(log, Cap)
  BY <1>1 DEF Keep, logVars
<1>5. Drop(w) => /\ writer[w].pc = "drop" /\ log' = <<>>
                 /\ IF writer[w].keep = <<>> THEN writer'[w].pc = "idle"
                    ELSE writer'[w].pc = "fill" /\ writer'[w].keep = writer[w].keep
  <2>1. Drop(w) => writer[w].pc = "drop" /\ log' = <<>>
    BY DEF Drop
  <2>2. Drop(w) /\ writer[w].keep = <<>> => writer'[w].pc = "idle"
    BY <1>1 DEF Drop
  <2>3. Drop(w) /\ writer[w].keep # <<>> => writer' = [writer EXCEPT ![w].pc = "fill"]
    BY DEF Drop, Goes
  <2>4. Drop(w) /\ writer[w].keep # <<>> => writer'[w].pc = "fill" /\ writer'[w].keep = writer[w].keep
    BY <2>3 DEF WriterOK
  <2> QED
    BY <2>1, <2>2, <2>4
<1> QED
  BY <1>a, <1>b, <1>2, <1>3, <1>4, <1>5

LEMMA FillAs ==
  ASSUME TypeOK, Trimming, NEW w \in Writers, Fill(w)
  PROVE  LET keep == writer[w].keep
             rest == SubSeq(keep, 1, Len(keep) - 1)
         IN /\ Filling(w) /\ keep # <<>> /\ keep \in Seq(Rows) /\ rest \in Seq(Rows)
            /\ keep[Len(keep)] \in Rows /\ log \in Seq(Rows)
            /\ Len(rest) = Len(keep) - 1 /\ Ids(keep) = {keep[Len(keep)].id} \cup Ids(rest)
            /\ log' = <<keep[Len(keep)]>> \o log
            /\ Ids(log') = {keep[Len(keep)].id} \cup Ids(log) /\ Len(log') = Len(log) + 1
            /\ \/ rest = <<>> /\ writer'[w] = AtRest
               \/ rest # <<>> /\ writer'[w].pc = "fill" /\ writer'[w].keep = rest
<1> DEFINE keep == writer[w].keep
           rest == SubSeq(keep, 1, Len(keep) - 1)
<1>1. Filling(w) /\ keep # <<>> /\ keep \in Seq(Rows) /\ log \in Seq(Rows)
  BY WriterParts DEF Trimming, Fill, Filling, TypeOK, LogOK
<1>2. /\ rest \in Seq(Rows) /\ keep[Len(keep)] \in Rows /\ Len(rest) = Len(keep) - 1
      /\ Ids(keep) = {keep[Len(keep)].id} \cup Ids(rest)
  BY <1>1, RowPutBack
<1>3. log' = <<keep[Len(keep)]>> \o log
  BY DEF Fill
<1>4. Ids(log') = {keep[Len(keep)].id} \cup Ids(log) /\ Len(log') = Len(log) + 1
  BY <1>1, <1>2, <1>3, RowsAround
<1>5. \/ rest = <<>> /\ writer'[w] = AtRest
      \/ rest # <<>> /\ writer'[w].pc = "fill" /\ writer'[w].keep = rest
  BY DEF Fill, TypeOK, WriterOK
<1> QED
  BY <1>1, <1>2, <1>3, <1>4, <1>5

\* The steps of the sealer and of an admin's check leave the log and the writers alone.
LEMMA OthersMoveAs ==
  ASSUME TypeOK, TickSteps \/ DailySteps \/ WaitIsOver \/ StopSealer \/ AskSteps
  PROVE  UNCHANGED <<logVars, writer, meddled>> /\ slips \subseteq slips'
BY DEF TickSteps, TickStart, TickRows, SetAnchor, Seal, SetHead, Sleep, DailySteps, Verify, WriteFile,
   WriteSum, SetThrough, ReplicaFails, Prune, Forget, WaitIsOver, StopSealer, AskSteps, Ask, AskAnchor,
   AskRows, AskChain, AskFiles, tellVars, Blame

LEMMA WritersTrim ==
  ASSUME TypeOK, Trimming, NEW w \in Writers, WriterMoves(w)
  PROVE  Trimming'
<1>1. UNCHANGED <<head, asked, HeadId>> /\ \A v \in Writers \ {w} : writer'[v] = writer[v]
  BY WriterMovesAs DEF chainVars, HeadId
<1>2. /\ Rewriting(w)' => Len(writer'[w].keep) <= Cap
      /\ Filling(w)' => writer'[w].keep # <<>>
  <2>0. WriterOK
    BY DEF TypeOK
  <2>1. CASE Incr(w) \/ Push(w) \/ Count(w) \/ StopWriter(w)
    BY <2>0, <2>1, WriterNext DEF Rewriting, Filling
  <2>2. CASE Keep(w)
    <3>1. Len(Newest(log, Cap)) <= Cap
      BY NewestRows, Bounds DEF TypeOK, LogOK
    <3> QED
      BY <2>0, <2>2, <3>1, WriterNext DEF Rewriting, Filling
  <2>3. CASE Drop(w)
    BY <2>0, <2>3, WriterNext DEF Rewriting, Filling, Trimming
  <2>4. CASE Fill(w)
    <3> DEFINE rest == SubSeq(writer[w].keep, 1, Len(writer[w].keep) - 1)
    <3>1. /\ Filling(w) /\ writer[w].keep \in Seq(Rows) /\ Len(rest) = Len(writer[w].keep) - 1
          /\ \/ rest = <<>> /\ writer'[w] = AtRest
             \/ rest # <<>> /\ writer'[w].pc = "fill" /\ writer'[w].keep = rest
      BY <2>4, FillAs
    <3> HIDE DEF rest
    <3>2. Len(writer[w].keep) <= Cap /\ Len(writer[w].keep) \in Nat /\ AtRest.pc = "idle"
      BY <3>1 DEF Trimming, Filling, Rewriting, AtRest
    <3> QED
      BY <3>1, <3>2, Bounds DEF Rewriting, Filling
  <2> QED
    BY <2>1, <2>2, <2>3, <2>4 DEF WriterMoves, WriterSteps
<1> QED
  BY <1>1, <1>2 DEF Trimming, Rewriting, Filling

LEMMA OthersTrim ==
  ASSUME TypeOK, ChainInv, Trimming,
         TickSteps \/ DailySteps \/ WaitIsOver \/ StopSealer \/ AskSteps \/ MeddleSteps
  PROVE  Trimming'
<1>1. UNCHANGED writer
  BY OthersMoveAs DEF MeddleSteps, Change, Remove, Insert, Rewrite, Meddle
<1>2. asked'.head # None => head' # None /\ asked'.head.id <= HeadId'
  <2>0. ChainOK /\ HeadId \in Nat
    BY HeadParts, Bounds DEF TypeOK
  <2>1. CASE SetHead
    <3>1. /\ head' # None /\ HeadId' = sealer.counter /\ sealer.counter > HeadId
          /\ sealer.counter \in 1..MaxId
      BY <2>1, NewHead
    <3>2. asked' = asked
      BY <2>1 DEF SetHead
    <3>3. asked.head # None => asked.head.id \in Nat
      BY LinkParts, Bounds DEF TypeOK, AskedOK
    <3> QED
      BY <2>0, <3>1, <3>2, <3>3, Bounds DEF Trimming
  <2>2. CASE Rewrite
    <3>1. PICK k \in DOMAIN log :
             head' = Link(head.id, Redone(head.hash, log[k].id)) /\ head' # None
      BY <2>2, RewriteAs
    <3>2. HeadId' = HeadId /\ asked' = asked
      BY <2>2, <3>1 DEF HeadId, Link, Rewrite, Meddle
    <3> QED
      BY <3>1, <3>2 DEF Trimming
  <2>3. CASE Ask
    <3>1. asked'.head = head /\ head' = head
      BY <2>3 DEF Ask, NoCheck, chainVars
    <3>2. HeadId' = HeadId
      BY <3>1 DEF HeadId
    <3> QED
      BY <2>0, <3>1, <3>2, HeadParts
  <2>4. CASE AskAnchor \/ AskRows \/ AskChain \/ AskFiles
    <3>1. (asked'.head = asked.head \/ asked'.head = None) /\ head' = head
      BY <2>4 DEF AskAnchor, AskRows, AskChain, AskFiles, NoCheck, chainVars, TypeOK, AskedOK
    <3> QED
      BY <3>1 DEF Trimming, HeadId
  <2>5. CASE \/ TickStart \/ TickRows \/ SetAnchor \/ Seal \/ Sleep \/ DailySteps \/ WaitIsOver \/ StopSealer
             \/ Change \/ Remove \/ Insert
    <3>1. UNCHANGED <<head, asked>>
      BY <2>5 DEF TickStart, TickRows, SetAnchor, Seal, Sleep, DailySteps, Verify, WriteFile,
         WriteSum, SetThrough, ReplicaFails, Prune, Forget, WaitIsOver, StopSealer, Change, Remove,
         Insert, Meddle, chainVars
    <3> QED
      BY <3>1 DEF Trimming, HeadId
  <2> QED
    BY <2>1, <2>2, <2>3, <2>4, <2>5 DEF TickSteps, AskSteps, MeddleSteps
<1> QED
  BY <1>1, <1>2 DEF Trimming, Rewriting, Filling

\* A slip is not forgotten, nor that a row was removed.
LEMMA SlipsStay ==
  ASSUME slips \subseteq slips', meddled' = meddled, OldestTrimmed'
  PROVE  OldestTrimmed
BY DEF OldestTrimmed

\* A writer that neither deletes nor puts back leaves the others' rows alone.
LEMMA QuietWriter ==
  ASSUME NEW w \in Writers, ~Filling(w), ~Rewriting(w)', OneFills, log' = log,
         \A v \in Writers \ {w} : writer'[v] = writer[v]
  PROVE  OneFills'
<1> SUFFICES ASSUME NEW v \in Writers, Filling(v)'
             PROVE  ~OthersRewrite(v)' /\ Len(log') + Len(writer'[v].keep) <= Cap
  BY DEF OneFills
<1>1. v # w /\ writer'[v] = writer[v] /\ Filling(v)
  BY DEF Filling, Rewriting
<1>2. ~OthersRewrite(v) /\ Len(log) + Len(writer[v].keep) <= Cap
  BY <1>1 DEF OneFills
<1>3. ~OthersRewrite(v)'
  BY <1>2 DEF OthersRewrite, Rewriting
<1> QED
  BY <1>1, <1>2, <1>3

LEMMA WritersFill ==
  ASSUME TypeOK, Trimming, Oldest, NEW w \in Writers, WriterMoves(w), OldestTrimmed'
  PROVE  OldestTrimmed /\ OneFills'
<1>0. /\ \A v \in Writers \ {w} : writer'[v] = writer[v]
      /\ OldestTrimmed /\ OneFills /\ WriterOK
  BY WriterMovesAs, SlipsStay DEF Oldest, TypeOK
<1>1. CASE Incr(w) \/ Count(w) \/ StopWriter(w)
  <2>1. ~Filling(w)
    <3>1. StopWriter(w) => writer[w].pc # "fill"
      BY DEF StopWriter, Blame, OldestTrimmed
    <3> QED
      BY <1>0, <1>1, <3>1, WriterNext DEF Filling
  <2>2. log' = log /\ ~Rewriting(w)'
    BY <1>0, <1>1, WriterNext DEF Rewriting
  <2> QED
    BY <1>0, <2>1, <2>2, QuietWriter
<1>2. CASE Push(w) \/ Keep(w)
  <2>1. /\ ~Filling(w)'
        /\ \A v \in Writers \ {w} : ~Filling(v)
    <3>1. CASE Push(w)
      <4>1. ~OthersRewrite(w)
        BY <3>1 DEF Push, Blame, OldestTrimmed
      <4> QED
        BY <1>0, <3>1, <4>1, WriterNext DEF OthersRewrite, Rewriting, Filling
    <3>2. CASE Keep(w)
      <4>1. ~HalfWritten
        BY <3>2 DEF Keep, Blame, OldestTrimmed
      <4> QED
        BY <1>0, <3>2, <4>1, WriterNext DEF HalfWritten, Filling
    <3> QED
      BY <1>2, <3>1, <3>2
  <2> QED
    BY <1>0, <2>1 DEF OneFills, Filling
<1>3. CASE Drop(w)
  <2>1. ~OthersRewrite(w) /\ Rewriting(w)
    BY <1>3 DEF Drop, Blame, OldestTrimmed, Rewriting
  <2>2. \A v \in Writers \ {w} : ~Rewriting(v)'
    BY <1>0, <2>1 DEF OthersRewrite, Rewriting
  <2>3. Filling(w)' => Len(log') + Len(writer'[w].keep) <= Cap
    <3>1. Len(writer[w].keep) <= Cap /\ writer[w].keep \in Seq(Rows)
      BY <1>0, <2>1, WriterParts DEF Trimming
    <3>2. Filling(w)' => log' = <<>> /\ writer'[w].keep = writer[w].keep
      BY <1>0, <1>3, WriterNext DEF Filling
    <3> QED
      BY <3>1, <3>2, Bounds
  <2>4. \A v \in Writers : Filling(v)' => v = w /\ ~OthersRewrite(v)'
    BY <2>2 DEF Filling, Rewriting, OthersRewrite
  <2> QED
    BY <1>0, <2>3, <2>4 DEF OneFills
<1>4. CASE Fill(w)
  <2> DEFINE keep == writer[w].keep
             rest == SubSeq(keep, 1, Len(keep) - 1)
  <2>1. /\ Filling(w) /\ Len(rest) = Len(keep) - 1 /\ Len(log') = Len(log) + 1
        /\ keep \in Seq(Rows) /\ log \in Seq(Rows)
        /\ \/ rest = <<>> /\ writer'[w] = AtRest
           \/ rest # <<>> /\ writer'[w].pc = "fill" /\ writer'[w].keep = rest
    BY <1>4, FillAs
  <2> HIDE DEF rest
  <2>2. ~OthersRewrite(w) /\ Len(log) + Len(keep) <= Cap
    BY <1>0, <2>1 DEF OneFills
  <2>3. \A v \in Writers : Filling(v)' => v = w /\ ~OthersRewrite(v)'
    BY <1>0, <2>2 DEF Filling, Rewriting, OthersRewrite
  <2>4. Filling(w)' => Len(log') + Len(writer'[w].keep) <= Cap
    <3>1. Filling(w)' => writer'[w].keep = rest
      BY <2>1 DEF Filling, AtRest
    <3>2. Len(log) \in Nat /\ Len(keep) \in Nat
      <4>1. log \in Seq(Rows) /\ keep \in Seq(Rows)
        BY <2>1
      <4> QED
        BY <4>1
    <3>3. Len(rest) = Len(keep) - 1 /\ Len(log') = Len(log) + 1
      BY <2>1
    <3> HIDE DEF keep
    <3>4. Len(log') + Len(rest) = Len(log) + Len(keep)
      BY <3>3, <3>2
    <3> QED
      BY <2>2, <3>1, <3>4
  <2> QED
    BY <1>0, <2>3, <2>4 DEF OneFills
<1> QED
  BY <1>1, <1>2, <1>3, <1>4 DEF WriterMoves, WriterSteps

Held == Ids(log) \cup InHand

LEMMA InHandOf ==
  /\ \A w \in Writers : Filling(w) => Ids(writer[w].keep) \subseteq InHand
  /\ \A id \in InHand : \E w \in Writers : Filling(w) /\ id \in Ids(writer[w].keep)
BY DEF InHand

\* A step of a writer that deletes nothing leaves every id in the log or in hand.
LEMMA NothingLost ==
  ASSUME NEW w \in Writers, \A v \in Writers \ {w} : writer'[v] = writer[v],
         Ids(log) \subseteq Ids(log'),
         Filling(w) => Ids(writer[w].keep) \subseteq Ids(log') \cup InHand'
  PROVE  Held \subseteq Held'
<1> SUFFICES ASSUME NEW id \in Held PROVE id \in Held'
  OBVIOUS
<1>1. CASE id \in Ids(log)
  BY <1>1 DEF Held
<1>2. CASE id \in InHand
  <2>1. PICK v \in Writers : Filling(v) /\ id \in Ids(writer[v].keep)
    BY <1>2, InHandOf
  <2>2. CASE v = w
    BY <2>1, <2>2 DEF Held
  <2>3. CASE v # w
    <3>1. Filling(v)' /\ id \in Ids(writer'[v].keep)
      BY <2>1, <2>3 DEF Filling
    <3>2. id \in InHand'
      BY <3>1 DEF InHand, Filling
    <3> QED
      BY <3>2 DEF Held
  <2> QED
    BY <2>2, <2>3
<1> QED
  BY <1>1, <1>2 DEF Held

LEMMA MarkAboveHead ==
  ASSUME TypeOK, ChainInv, Started
  PROVE  LowMark \in Nat /\ LowMark >= HeadId + 1
<1>0. ChainOK /\ SealerOK /\ HeadId \in Nat /\ sealer.counter \in Nat
  BY HeadParts, SealerParts, Bounds DEF TypeOK
<1>1. CASE head = None /\ sealer.pc = "head"
  BY <1>0, <1>1 DEF LowMark, HeadId
<1>2. CASE head = None /\ sealer.pc # "head"
  <2>1. DOMAIN sealer.byId # {}
    BY <1>2 DEF Started, InTick, ChainInv, Sealing
  <2>2. Start \in 1..MaxId + 1 /\ LowMark = Start /\ HeadId = 0
    BY <1>0, <1>2, <2>1, StartType DEF LowMark, HeadId
  <2> QED
    BY <2>2, Bounds
<1>3. CASE head # None
  BY <1>0, <1>3, StartType DEF LowMark
<1> QED
  BY <1>1, <1>2, <1>3

LEMMA WritersHold ==
  ASSUME TypeOK, ChainInv, Trimming, Oldest, NEW w \in Writers, WriterMoves(w), OldestTrimmed'
  PROVE  NextIsHeld'
<1>0. /\ \A v \in Writers \ {w} : writer'[v] = writer[v]
      /\ UNCHANGED <<chainVars, sealer, asked>>
      /\ OldestTrimmed /\ OneFills /\ NextIsHeld /\ WriterOK
  BY WriterMovesAs, SlipsStay DEF Oldest, TypeOK
<1>a. UNCHANGED <<Started, LowMark>>
  BY <1>0 DEF chainVars, Started, InTick, LowMark, Start, HeadId
<1>b. log \in Seq(Rows) /\ writer[w].id \in 0..MaxId
  BY <1>0, WriterParts DEF TypeOK, LogOK
<1> SUFFICES ASSUME Started PROVE \E id \in Held' : id <= LowMark
  BY <1>a DEF NextIsHeld, Held
<1>c. \E id \in Held : id <= LowMark
  BY <1>0 DEF NextIsHeld, Held
<1>1. CASE ~Drop(w)
  <2>1. Ids(log) \subseteq Ids(log') /\ (Filling(w) => Fill(w))
    <3>1. CASE Push(w)
      <4>1. Row(writer[w].id) \in Rows
        BY <1>b, <3>1 DEF Row, Rows, Push, TypeOK, WriterOK
      <4>2. log' = <<Row(writer[w].id)>> \o log
        BY <3>1 DEF Push
      <4>3. Ids(log) \subseteq Ids(log')
        BY <1>b, <4>1, <4>2, RowsAround
      <4> QED
        BY <1>0, <3>1, <4>3, WriterNext DEF Filling
    <3>2. CASE Incr(w) \/ Count(w) \/ Keep(w)
      BY <1>0, <3>2, WriterNext DEF Filling
    <3>3. CASE StopWriter(w)
      <4>1. writer[w].pc # "fill"
        BY <3>3 DEF StopWriter, Blame, OldestTrimmed
      <4> QED
        BY <1>0, <3>3, <4>1, WriterNext DEF Filling
    <3>4. CASE Fill(w)
      BY <3>4, FillAs
    <3> QED
      BY <1>1, <3>1, <3>2, <3>3, <3>4 DEF WriterMoves, WriterSteps
  <2>2. ASSUME Fill(w) PROVE Ids(writer[w].keep) \subseteq Ids(log') \cup InHand'
    <3> DEFINE keep == writer[w].keep
               rest == SubSeq(keep, 1, Len(keep) - 1)
    <3>1. /\ Ids(keep) = {keep[Len(keep)].id} \cup Ids(rest)
          /\ Ids(log') = {keep[Len(keep)].id} \cup Ids(log)
          /\ \/ rest = <<>> /\ writer'[w] = AtRest
             \/ rest # <<>> /\ writer'[w].pc = "fill" /\ writer'[w].keep = rest
      BY <2>2, FillAs
    <3> HIDE DEF rest
    <3>2. rest = <<>> => Ids(rest) = {}
      BY DEF Ids
    <3>3. rest # <<>> => Ids(rest) \subseteq InHand'
      BY <3>1 DEF InHand, Filling
    <3> QED
      BY <3>1, <3>2, <3>3
  <2>3. Held \subseteq Held'
    BY <1>0, <2>1, <2>2, NothingLost
  <2> QED
    BY <1>c, <2>3
<1>2. CASE Drop(w)
  <2>1. PICK kept \in Ids(writer[w].keep) : ~(kept > KnownTo + 1)
    BY <1>2 DEF Drop, Blame, OldestTrimmed
  <2>2. KnownTo \in Nat /\ KnownTo <= HeadId
    <3>1. HeadId \in Nat /\ (asked.head # None => asked.head.id \in 1..MaxId)
      BY HeadParts, LinkParts, Bounds DEF TypeOK, AskedOK
    <3> QED
      BY <3>1, Bounds DEF KnownTo, Trimming
  <2>3. kept <= LowMark
    <3>1. kept \in 1..MaxId
      BY <1>0, <2>1, WriterParts, IdsOf
    <3>2. LowMark \in Nat /\ LowMark >= HeadId + 1 /\ HeadId \in Nat
      BY MarkAboveHead, HeadParts, Bounds DEF TypeOK
    <3> QED
      BY <2>1, <2>2, <3>1, <3>2, Bounds
  <2>4. kept \in Held'
    <3>1. writer[w].keep # <<>>
      BY <2>1 DEF Ids
    <3>2. writer'[w].pc = "fill" /\ writer'[w].keep = writer[w].keep
      BY <1>0, <1>2, <3>1, WriterNext
    <3>3. kept \in InHand'
      BY <2>1, <3>2 DEF InHand, Filling
    <3> QED
      BY <3>3 DEF Held
  <2> QED
    BY <2>3, <2>4
<1> QED
  BY <1>1, <1>2

\* The steps of everybody but the writers.
LEMMA OthersFill ==
  ASSUME OneFills, UNCHANGED <<log, writer>>
  PROVE  OneFills'
BY DEF OneFills, Filling, OthersRewrite, Rewriting

\* The chain's thread, and what an admin asks for, know no older row to seal.
LEMMA OthersHold ==
  ASSUME TypeOK, ChainInv, NextIsHeld, UNCHANGED <<log, writer>>,
         TickSteps \/ DailySteps \/ WaitIsOver \/ StopSealer \/ AskSteps
  PROVE  NextIsHeld'
<1>0. /\ Held' = Held /\ SealerOK /\ ChainOK /\ LogOK
      /\ Started => \E id \in Held : id <= LowMark
  BY DEF TypeOK, Held, InHand, Filling, NextIsHeld
<1> SUFFICES ASSUME Started' PROVE \E id \in Held : id <= LowMark'
  BY <1>0 DEF NextIsHeld, Held
<1>1. CASE SetHead
  <2>1. /\ head' # None /\ HeadId' = sealer.counter /\ sealer.counter > HeadId
        /\ sealer.counter \in 1..MaxId
    BY <1>1, NewHead
  <2>2. Started /\ sealer.pc = "head"
    BY <1>1 DEF SetHead, Sealer, Started, InTick
  <2>3. LowMark' = sealer.counter + 1
    BY <2>1 DEF LowMark, Start
  <2>4. HeadId \in Nat /\ LowMark = IF head = None THEN sealer.counter + 1 ELSE HeadId + 1
    BY <1>0, <2>2, HeadParts, Bounds DEF LowMark, Start
  <2>5. LowMark <= LowMark' /\ LowMark \in Nat /\ LowMark' \in Nat
    BY <2>1, <2>3, <2>4, Bounds
  <2>6. PICK id \in Held : id <= LowMark
    BY <1>0, <2>2
  <2>7. id \in Int
    <3>1. Held \subseteq Int
      <4>1. Ids(log) \subseteq Int
        BY <1>0, IdsOf, Bounds DEF LogOK
      <4>2. \A w \in Writers : Ids(writer[w].keep) \subseteq Int
        BY WriterParts, IdsOf, Bounds DEF TypeOK
      <4> QED
        BY <4>1, <4>2 DEF Held, InHand
    <3> QED
      BY <3>1
  <2> QED
    BY <2>5, <2>6, <2>7
<1>2. CASE ~SetHead /\ head # None
  <2>1. head' = head
    BY <1>2 DEF TickSteps, TickStart, TickRows, SetAnchor, Seal, Sleep, DailySteps, Verify, WriteFile,
       WriteSum, SetThrough, ReplicaFails, Prune, Forget, WaitIsOver, StopSealer, AskSteps, Ask, AskAnchor,
       AskRows, AskChain, AskFiles, chainVars
  <2>2. Started /\ LowMark = HeadId + 1 /\ LowMark' = HeadId + 1
    BY <1>2, <2>1 DEF Started, LowMark, Start, HeadId
  <2> QED
    BY <1>0, <2>2
<1>3. CASE ~SetHead /\ head = None
  <2>0. head' = None
    BY <1>3 DEF TickSteps, TickStart, TickRows, SetAnchor, Seal, Sleep, DailySteps, Verify, WriteFile,
       WriteSum, SetThrough, ReplicaFails, Prune, Forget, WaitIsOver, StopSealer, AskSteps, Ask, AskAnchor,
       AskRows, AskChain, AskFiles, chainVars
  <2>1. sealer'.pc \in {"anchor", "seal", "head"}
    BY <2>0 DEF Started, InTick
  <2>2. CASE TickRows
    <3> DEFINE byId == ById(Newest(log, Window), HeadId)
    <3>1. /\ sealer' = [sealer EXCEPT !.byId = byId,
                          !.pc = IF DOMAIN byId = {} THEN "ticked" ELSE "anchor"]
      BY <1>3, <2>2 DEF TickRows
    <3>2. sealer'.byId = byId /\ DOMAIN byId # {} /\ sealer'.pc = "anchor"
      BY <1>0, <2>1, <3>1 DEF SealerOK
    <3>3. Window \in Int /\ HeadId \in Nat
      BY <1>0, WindowType, HeadParts, Bounds
    <3>4. DOMAIN byId \subseteq Ids(log) /\ DOMAIN byId \in SUBSET Nat
      <4>1. Newest(log, Window) \in Seq(Rows) /\ Ids(Newest(log, Window)) \subseteq Ids(log)
        BY <1>0, <3>3, NewestRows DEF LogOK
      <4>2. Ids(log) \in SUBSET (1..MaxId)
        BY <1>0, IdsOf DEF LogOK
      <4>3. DOMAIN byId \subseteq Ids(Newest(log, Window))
        BY <3>3, <4>1, ByIdMap
      <4> QED
        BY <4>1, <4>2, <4>3, Bounds
    <3> HIDE DEF byId
    <3>5. Min(DOMAIN byId) \in DOMAIN byId
      BY <3>2, <3>4, LeastId
    <3>6. LowMark' = Min(DOMAIN byId)
      BY <2>0, <3>2 DEF LowMark, Start
    <3>7. Min(DOMAIN byId) \in Held /\ Min(DOMAIN byId) \in Nat
      BY <3>4, <3>5 DEF Held
    <3> QED
      BY <3>6, <3>7
  <2>3. CASE Seal
    <3>1. DOMAIN sealer.byId # {} /\ sealer.pc = "seal" /\ Started
      BY <1>3, <2>3 DEF Seal, Sealer, ChainInv, Sealing, Started, InTick
    <3>2. /\ sealer'.counter = LastSealed
          /\ sealer'.pc = IF LastSealed < Start THEN "ticked" ELSE "head"
      BY <1>0, <2>3 DEF Seal, SealerOK
    <3>3. Start \in Nat /\ LastSealed \in Nat /\ LowMark = Start
      BY <1>0, <3>1, StartType, LastSealedType, Bounds DEF LowMark
    <3>4. LowMark' = LastSealed + 1 /\ LastSealed >= Start
      <4>1. sealer'.pc = "head" /\ ~(LastSealed < Start)
        BY <2>1, <3>2
      <4> QED
        BY <2>0, <3>2, <3>3, <4>1 DEF LowMark
    <3>5. PICK id \in Held : id <= LowMark
      BY <1>0, <3>1
    <3>6. id \in Int
      <4>1. Ids(log) \subseteq Int
        BY <1>0, IdsOf, Bounds DEF LogOK
      <4>2. \A w \in Writers : Ids(writer[w].keep) \subseteq Int
        BY WriterParts, IdsOf, Bounds DEF TypeOK
      <4> QED
        BY <4>1, <4>2 DEF Held, InHand
    <3> QED
      BY <3>3, <3>4, <3>5, <3>6
  <2>4. CASE SetAnchor \/ WaitIsOver \/ AskSteps
    <3>1. sealer'.byId = sealer.byId /\ sealer'.counter = sealer.counter
      BY <1>0, <2>4 DEF SetAnchor, Then, WaitIsOver, AskSteps, Ask, AskAnchor, AskRows, AskChain, AskFiles,
         SealerOK
    <3>2. Started /\ (sealer'.pc = "head" <=> sealer.pc = "head")
      BY <1>0, <2>1, <2>4 DEF SetAnchor, Then, WaitIsOver, AskSteps, Ask, AskAnchor, AskRows, AskChain,
         AskFiles, SealerOK, Started, InTick, Sealer
    <3>3. LowMark' = LowMark
      BY <1>3, <2>0, <3>1, <3>2 DEF LowMark, Start
    <3> QED
      BY <1>0, <3>2, <3>3
  <2>5. CASE TickStart \/ Sleep \/ DailySteps \/ StopSealer
    <3>1. sealer'.pc \notin {"anchor", "seal", "head"}
      <4>1. CASE Prune
        BY <1>0, <4>1, PruneAs DEF SealerOK
      <4>2. CASE Forget \/ Sleep
        BY <1>0, <4>2 DEF Forget, Sleep, Rests, SealerOK
      <4>3. CASE StopSealer \/ Verify
        BY <1>0, <4>3 DEF StopSealer, Verify, SealerOK
      <4>4. CASE TickStart
        BY <1>0, <4>4 DEF TickStart, Then, SealerOK
      <4>5. CASE WriteFile \/ WriteSum \/ SetThrough \/ ReplicaFails
        BY <1>0, <4>5 DEF WriteFile, WriteSum, SetThrough, ReplicaFails, Then, SealerOK
      <4> QED
        BY <2>5, <4>1, <4>2, <4>3, <4>4, <4>5 DEF DailySteps
    <3> QED
      BY <2>1, <3>1
  <2> QED
    BY <1>3, <2>2, <2>3, <2>4, <2>5 DEF TickSteps
<1> QED
  BY <1>1, <1>2, <1>3

\* The anchor's hash is that of what was sealed before it, for ever.
LEMMA AnchorStays ==
  ASSUME Anchored, UNCHANGED <<head, anchor, sealed>>, meddled' # "rewrite" => meddled # "rewrite"
  PROVE  Anchored'
BY DEF Anchored, HeadId, PastUpTo, FirstSealed

LEMMA SetHeadKeepsAnchor ==
  ASSUME TypeOK, ChainInv, Anchored, SetHead
  PROVE  Anchored'
<1>1. /\ First \in 1..MaxId /\ First <= sealer.counter /\ First <= anchor.id /\ anchor # None
      /\ sealer.counter \in 1..MaxId /\ sealer.counter > HeadId
      /\ HeadId' = sealer.counter /\ NewHash \in Hashes
      /\ Len(NewHash) = sealer.counter - First + 1 /\ FirstSealed' = First
      /\ SubSeq(NewHash, 1, Len(sealed)) = sealed => sealed' = NewHash
      /\ head = None => anchor.id = First /\ anchor.hash = Zero
      /\ UNCHANGED <<anchor, meddled>>
  BY NewHead
<1>2. anchor.id \in 1..MaxId /\ HeadId \in 0..MaxId
  BY <1>1, AnchorParts, HeadParts DEF TypeOK
<1>3. anchor.id <= sealer.counter + 1
  BY <1>1, <1>2, Bounds DEF Anchored
<1>4. ASSUME meddled # "rewrite" PROVE anchor.hash = PastUpTo(anchor.id - 1)'
  <2>1. SubSeq(NewHash, 1, Len(sealed)) = sealed /\ sealed' = NewHash
    BY <1>1, <1>4 DEF ChainInv, Agreeing, SetHead, Sealer
  <2>2. PastUpTo(anchor.id - 1)' = SubSeq(NewHash, 1, anchor.id - 1 - First + 1)
    BY <1>1, <2>1 DEF PastUpTo
  <2>3. NewHash \in Seq(Rows) /\ sealed \in Seq(Rows) /\ Len(sealed) \in Nat
    BY <1>1 DEF Hashes, TypeOK, ChainOK
  <2>4. CASE head = None
    <3>1. anchor.id - 1 - First + 1 = 0 /\ 0 \in 0..Len(NewHash)
      BY <1>1, <1>2, <2>3, <2>4, Bounds
    <3> QED
      BY <1>1, <2>2, <2>3, <2>4, <3>1, Beginning DEF Zero
  <2>5. CASE head # None
    <3> DEFINE n == anchor.id - 1 - First + 1
    <3>1. /\ First = FirstSealed /\ HeadId = FirstSealed + Len(sealed) - 1
          /\ anchor.id <= HeadId + 1 /\ anchor.hash = SubSeq(sealed, 1, n)
      BY <1>4, <2>5 DEF First, ChainInv, Sealed, Anchored, PastUpTo
    <3>2. n \in 0..Len(sealed) /\ Len(sealed) \in 0..Len(NewHash)
      <4>1. HeadId = First + Len(sealed) - 1 /\ anchor.id <= HeadId + 1
        BY <3>1
      <4>2. n = anchor.id - First /\ n \in Nat
        BY <1>1, <1>2, Bounds
      <4>3. n <= Len(sealed)
        BY <1>1, <1>2, <2>3, <4>1, <4>2, Bounds
      <4>4. Len(NewHash) \in Nat /\ Len(sealed) <= Len(NewHash)
        BY <1>1, <1>2, <2>3, <4>1, Bounds
      <4> QED
        BY <2>3, <4>2, <4>3, <4>4
    <3> HIDE DEF n
    <3>3. SubSeq(SubSeq(NewHash, 1, Len(sealed)), 1, n) = SubSeq(NewHash, 1, n)
      BY <2>3, <3>2, BeginningOfBeginning
    <3> QED
      BY <2>1, <2>2, <3>1, <3>3 DEF n
  <2> QED
    BY <2>4, <2>5
<1> QED
  BY <1>1, <1>3, <1>4 DEF Anchored

\* A full log that nobody is putting back has the next row to seal, or an older one.
LEMMA FullLogIsOld ==
  ASSUME TypeOK, ChainInv, Trimming, OneFills, NextIsHeld, PruneMoves, head # None,
         Min(Ids(log)) \in 1..MaxId, \A id \in Ids(log) : Min(Ids(log)) <= id
  PROVE  Min(Ids(log)) <= HeadId + 1
<1>1. InHand = {}
  <2> SUFFICES ASSUME NEW w \in Writers, Filling(w) PROVE FALSE
    BY InHandOf
  <2>1. Len(log) + Len(writer[w].keep) <= Cap /\ writer[w].keep # <<>> /\ writer[w].keep \in Seq(Rows)
    BY WriterParts DEF OneFills, Trimming, TypeOK
  <2>2. Len(writer[w].keep) \in Nat /\ Len(writer[w].keep) >= 1
    BY <2>1
  <2>3. Len(log) >= Cap /\ Len(log) \in Nat
    BY DEF PruneMoves, TypeOK, LogOK
  <2> QED
    BY <2>1, <2>2, <2>3, Bounds
<1>2. PICK id \in Ids(log) : id <= LowMark
  BY <1>1 DEF NextIsHeld, Started
<1>3. LowMark = HeadId + 1 /\ HeadId \in 0..MaxId
  BY HeadParts DEF LowMark, Start, TypeOK
<1>4. id \in 1..MaxId
  BY <1>2, IdsOf DEF TypeOK, LogOK
<1> QED
  BY <1>2, <1>3, <1>4, Bounds

LEMMA PruneKeepsAnchor ==
  ASSUME TypeOK, ChainInv, Trimming, OneFills, NextIsHeld, Anchored, Prune
  PROVE  Anchored'
<1>1. UNCHANGED <<head, sealed, meddled>>
  BY DEF Prune, tellVars
<1>2. CASE UNCHANGED anchor
  BY <1>1, <1>2, AnchorStays
<1>3. CASE PruneMoves /\ head # None /\ ~UNCHANGED anchor
  <2> DEFINE oldest == Min(Ids(log))
  <2>1. /\ oldest \in 1..MaxId /\ \A id \in Ids(log) : oldest <= id
        /\ anchor' = Link(oldest, chain[oldest - 1]) /\ chain[oldest - 1] \in Hashes
    BY <1>3, PruneAs
  <2>2. anchor'.id = oldest /\ anchor'.hash = chain[oldest - 1]
    BY <2>1 DEF Link
  <2>3. oldest <= HeadId + 1
    BY <1>3, <2>1, FullLogIsOld
  <2>4. meddled # "rewrite" => chain[oldest - 1] = PastUpTo(oldest - 1)
    <3>1. anchor # None /\ oldest > anchor.id /\ HeadId \in 0..MaxId
      BY <1>3, HeadParts DEF PruneMoves, TypeOK
    <3>2. anchor.id \in 1..MaxId
      BY <3>1, AnchorParts DEF TypeOK
    <3>3. oldest - 1 \in anchor.id..HeadId
      BY <2>1, <2>3, <3>1, <3>2, Bounds
    <3> QED
      BY <1>3, <3>3 DEF ChainInv, Agreeing
  <2>5. UNCHANGED <<HeadId, FirstSealed>>
    BY <1>1 DEF HeadId, FirstSealed
  <2>6. meddled # "rewrite" => anchor'.hash = SubSeq(sealed, 1, anchor'.id - 1 - FirstSealed + 1)
    BY <2>2, <2>4 DEF PastUpTo
  <2> QED
    BY <1>1, <2>2, <2>3, <2>5, <2>6 DEF Anchored, PastUpTo
<1>4. CASE head = None
  BY <1>1, <1>4 DEF Anchored
<1> QED
  BY <1>2, <1>3, <1>4, PruneAs

LEMMA OthersKeepAnchor ==
  ASSUME TypeOK, ChainInv, Trimming, OneFills, NextIsHeld, Anchored,
         TickSteps \/ DailySteps \/ WaitIsOver \/ StopSealer \/ AskSteps
  PROVE  Anchored'
<1>1. CASE SetHead
  BY <1>1, SetHeadKeepsAnchor
<1>2. CASE Prune
  BY <1>2, PruneKeepsAnchor
<1>3. CASE SetAnchor
  <2>1. head = None /\ head' = None
    BY <1>3 DEF SetAnchor, Sealer, ChainInv, Sealing
  <2> QED
    BY <2>1 DEF Anchored
<1>4. CASE ~(SetHead \/ Prune \/ SetAnchor)
  <2>1. UNCHANGED <<head, anchor, sealed, meddled>>
    BY <1>4 DEF TickSteps, TickStart, TickRows, Seal, Sleep, DailySteps, Verify, WriteFile,
       WriteSum, SetThrough, ReplicaFails, Forget, WaitIsOver, StopSealer, AskSteps, Ask, AskAnchor,
       AskRows, AskChain, AskFiles, chainVars, tellVars
  <2> QED
    BY <2>1, AnchorStays
<1> QED
  BY <1>1, <1>2, <1>3, <1>4

LEMMA MeddlingKeepsOldest ==
  ASSUME TypeOK, ChainInv, Oldest, MeddleSteps
  PROVE  Oldest'
<1> SUFFICES ASSUME OldestTrimmed' PROVE OneFills' /\ NextIsHeld' /\ Anchored'
  BY DEF Oldest
<1>1. /\ UNCHANGED <<writer, sealer, asked, anchor, sealed, slips>>
      /\ \A w \in Writers : writer[w].pc = "idle"
      /\ meddled = "none" /\ meddled' # "remove"
  BY DEF MeddleSteps, Change, Remove, Insert, Rewrite, Meddle, OldestTrimmed
<1>2. OldestTrimmed /\ NextIsHeld /\ Anchored
  BY <1>1 DEF OldestTrimmed, Oldest
<1>3. OneFills'
  BY <1>1 DEF OneFills, Filling
<1>4. ~Remove
  BY <1>1 DEF Remove, Meddle
<1>5. /\ Ids(log) \subseteq Ids(log') /\ HeadId' = HeadId /\ (head' = None <=> head = None)
      /\ ~Rewrite => head' = head
  <2>0. log \in Seq(Rows) /\ HeadId \in 0..MaxId
    BY HeadParts DEF TypeOK, LogOK
  <2>1. CASE Change
    BY <2>0, <2>1, RowChanged DEF Change, HeadId
  <2>2. CASE Insert
    <3>1. PICK id \in 1..HeadId : log' = Append(log, Fake(id))
      BY <2>2 DEF Insert
    <3>2. Fake(id) \in Rows
      BY <2>0, <3>1, Bounds DEF Fake, Rows
    <3> QED
      BY <2>0, <2>2, <3>1, <3>2, RowsAround DEF Insert, HeadId
  <2>3. CASE Rewrite
    <3>1. PICK k \in DOMAIN log :
             /\ log' = [log EXCEPT ![k] = Fake(@.id)]
             /\ head' = Link(head.id, Redone(head.hash, log[k].id)) /\ head' # None
      BY <2>3, RewriteAs
    <3> QED
      BY <2>0, <2>3, <3>1, RowChanged DEF Rewrite, HeadId, Link
  <2> QED
    BY <1>4, <2>1, <2>2, <2>3 DEF MeddleSteps
<1>6. NextIsHeld'
  <2>1. UNCHANGED <<Started, LowMark, InHand>>
    BY <1>1, <1>5 DEF Started, InTick, LowMark, Start, InHand, Filling
  <2> QED
    BY <1>2, <1>5, <2>1 DEF NextIsHeld
<1>7. Anchored'
  <2>1. CASE Rewrite
    <3>1. meddled' = "rewrite"
      BY <2>1 DEF Rewrite, Meddle
    <3> QED
      BY <1>1, <1>2, <1>5, <3>1 DEF Anchored
  <2>2. CASE ~Rewrite
    BY <1>1, <1>2, <1>5, <2>2, AnchorStays
  <2> QED
    BY <2>1, <2>2
<1> QED
  BY <1>3, <1>6, <1>7

\* Together: no step of anybody leaves the oldest row unknown.
LEMMA OldestStays ==
  ASSUME TypeOK, ChainInv, Trimming, Oldest, Next
  PROVE  Oldest'
<1>1. ASSUME NEW w \in Writers, WriterMoves(w) PROVE Oldest'
  <2> SUFFICES ASSUME OldestTrimmed' PROVE OneFills' /\ NextIsHeld' /\ Anchored'
    BY DEF Oldest
  <2>1. OldestTrimmed /\ OneFills'
    BY <1>1, WritersFill
  <2>2. NextIsHeld'
    BY <1>1, WritersHold
  <2>3. Anchored'
    BY <1>1, <2>1, WriterMovesAs, AnchorStays DEF Oldest, chainVars
  <2> QED
    BY <2>1, <2>2, <2>3
<1>2. ASSUME TickSteps \/ DailySteps \/ WaitIsOver \/ StopSealer \/ AskSteps PROVE Oldest'
  <2> SUFFICES ASSUME OldestTrimmed' PROVE OneFills' /\ NextIsHeld' /\ Anchored'
    BY DEF Oldest
  <2>1. UNCHANGED <<log, writer>> /\ OneFills /\ NextIsHeld /\ Anchored
    BY <1>2, OthersMoveAs, SlipsStay DEF Oldest, logVars
  <2> QED
    BY <1>2, <2>1, OthersFill, OthersHold, OthersKeepAnchor
<1> QED
  BY <1>1, <1>2, MeddlingKeepsOldest DEF Next, WriterMoves

-----------------------------------------------------------------------------
(* The replica *)

\* What was not left to chance before.
LEMMA GoodSoFar ==
  ASSUME slips \subseteq slips', meddled' # "remove" => meddled # "remove",
         OldestTrimmed', "disk" \notin slips', Oldest, Replicated
  PROVE  OldestTrimmed /\ Whole /\ OneFills /\ NextIsHeld /\ Anchored
BY DEF OldestTrimmed, Oldest, Replicated

\* A step that leaves the files, the head and the anchor alone, and starts no file.
LEMMA ReplicaStays ==
  ASSUME Oldest, Replicated, slips \subseteq slips', meddled' # "remove" => meddled # "remove",
         UNCHANGED <<diskVars, head, anchor, sealed>>,
         \/ sealer'.pc = sealer.pc
         \/ sealer'.pc \notin {"file", "sum", "through", "prune"}
  PROVE  Replicated'
<1>1. /\ UNCHANGED <<through, files, HeadId, FileName, Copied, Finished, FirstSealed>>
      /\ \A f : NewFile(f)' <=> NewFile(f)
  BY DEF diskVars, HeadId, FileName, Copied, Finished, FirstSealed, NewFile
<1>2. OldestTrimmed' /\ "disk" \notin slips' => Whole'
  BY <1>1, GoodSoFar DEF Whole
<1> QED
  BY <1>1, <1>2 DEF Replicated

\* The head goes up.
LEMMA SetHeadKeepsReplica ==
  ASSUME TypeOK, ChainInv, Oldest, Replicated, SetHead
  PROVE  Replicated'
<1>1. /\ First \in 1..MaxId /\ HeadId' = sealer.counter /\ sealer.counter > HeadId
      /\ sealer.counter \in 1..MaxId /\ FirstSealed' = First /\ head' # None
      /\ head = None => anchor.id = First
      /\ sealer'.pc = "ticked" /\ UNCHANGED <<chain, anchor, meddled, diskVars, slips>>
  BY NewHead DEF SetHead
<1>2. UNCHANGED <<through, files, Copied>>
  BY <1>1 DEF diskVars, Copied, Finished
<1>3. HeadId \in Nat /\ through \in Nat /\ sealer.counter \in Nat /\ through <= HeadId
  BY <1>1, HeadParts, Bounds DEF TypeOK, DiskOK, Replicated
<1>4. head # None => First = FirstSealed
  BY DEF First
<1>5. head = None => through = 0
  BY <1>3 DEF HeadId
<1>6. OldestTrimmed' /\ "disk" \notin slips' => Whole'
  <2> SUFFICES ASSUME OldestTrimmed', "disk" \notin slips' PROVE Whole'
    OBVIOUS
  <2>1. Whole
    BY <1>1, GoodSoFar
  <2>2. CASE head = None
    BY <1>1, <1>2, <1>5, <2>2, Bounds DEF Whole
  <2>3. CASE head # None
    BY <1>1, <1>2, <1>4, <2>1, <2>3 DEF Whole
  <2> QED
    BY <2>2, <2>3
<1>7. through <= sealer.counter
  BY <1>1, <1>3
<1> QED
  BY <1>1, <1>2, <1>6, <1>7 DEF Replicated

LEMMA VerifyKeepsReplica ==
  ASSUME TypeOK, Oldest, Replicated, Verify
  PROVE  Replicated'
<1>1. /\ UNCHANGED <<diskVars, head, anchor, sealed, meddled>> /\ slips \subseteq slips'
      /\ sealer'.pc \in {"idle", "file", "prune"}
      /\ sealer'.pc = "file" => HeadId > through
      /\ sealer'.pc = "prune" => ~(HeadId > through)
  BY DEF Verify, chainVars, tellVars, TypeOK, SealerOK
<1>2. /\ UNCHANGED <<through, files, HeadId, Copied, FirstSealed>>
  BY <1>1 DEF diskVars, HeadId, Copied, Finished, FirstSealed
<1>3. HeadId \in Nat /\ through \in Nat
  BY HeadParts, Bounds DEF TypeOK, DiskOK
<1>4. OldestTrimmed' /\ "disk" \notin slips' => Whole'
  BY <1>1, <1>2, <1>3, GoodSoFar DEF Whole
<1> QED
  BY <1>1, <1>2, <1>3, <1>4 DEF Replicated

\* The new file has every id from its name's first to its last, and takes the
\* place of none that the replica needs.
LEMMA WriteFileKeepsReplica ==
  ASSUME TypeOK, ChainInv, Oldest, Replicated, WriteFile
  PROVE  Replicated'
<1> DEFINE new == [name |-> FileName, body |-> Body, sum |-> SumOf(FileName)]
<1>0. ChainOK /\ DiskOK /\ HeadId \in Nat /\ through \in Nat /\ sealer.pc = "file"
  BY HeadParts, Bounds DEF TypeOK, DiskOK, WriteFile, Sealer
<1>1. /\ UNCHANGED <<through, head, anchor, sealed, meddled, slips>> /\ sealer'.pc = "sum"
      /\ files' = (files \ Named(FileName)) \cup {new}
  BY DEF WriteFile, chainVars, tellVars, Then, TypeOK, SealerOK
<1>2. UNCHANGED <<HeadId, FileName, FirstSealed>>
  BY <1>1 DEF HeadId, FileName, FirstSealed
<1>3. through < HeadId /\ head # None
  BY <1>0 DEF Replicated, HeadId
<1>4. /\ FileName[2] = HeadId /\ FileName[1] \in Nat /\ through + 1 <= FileName[1]
      /\ anchor # None => anchor.id <= FileName[1]
  BY <1>0, FileNameType
<1>5. FileName[1]..FileName[2] \subseteq DOMAIN chain
  <2>1. anchor # None /\ anchor.id..HeadId \subseteq DOMAIN chain
    BY <1>3 DEF ChainInv, Sealed
  <2>2. anchor.id \in Nat
    BY <1>0, <2>1, AnchorParts, Bounds
  <2> QED
    BY <1>0, <1>4, <2>1, <2>2
<1>6. new.name = FileName /\ new.body = Body /\ DOMAIN Body = FileName[1]..FileName[2]
  BY <1>0, <1>5, BodyType
<1> HIDE DEF new
<1>7. \A f \in files' : DOMAIN f.body \subseteq f.name[1]..f.name[2]
  BY <1>1, <1>6 DEF Replicated
<1>8. \E f \in files' : NewFile(f)'
  BY <1>1, <1>2, <1>6 DEF NewFile
<1>9. OldestTrimmed' /\ "disk" \notin slips' => Whole'
  <2> SUFFICES ASSUME OldestTrimmed', "disk" \notin slips' PROVE Whole'
    OBVIOUS
  <2>1. Whole
    BY <1>1, GoodSoFar
  <2>2. through > 0 => FirstSealed..through \subseteq Copied'
    <3> SUFFICES ASSUME through > 0, NEW id \in FirstSealed..through PROVE id \in Copied'
      OBVIOUS
    <3>1. PICK f \in Finished : id \in DOMAIN f.body
      BY <2>1 DEF Whole, Copied
    <3>2. f \in files /\ id \in f.name[1]..f.name[2]
      BY <3>1 DEF Finished, Replicated
    <3>3. f.name # FileName
      BY <1>0, <1>4, <3>2
    <3>4. f \in Finished'
      BY <1>1, <3>1, <3>2, <3>3 DEF Finished, Named
    <3> QED
      BY <3>1, <3>4 DEF Copied
  <2> QED
    BY <1>1, <1>2, <2>1, <2>2 DEF Whole
<1> QED
  BY <1>1, <1>2, <1>3, <1>7, <1>8, <1>9 DEF Replicated

\* A file becomes one with a checksum, and none stops being one.
LEMMA WriteSumKeepsReplica ==
  ASSUME TypeOK, Oldest, Replicated, WriteSum
  PROVE  Replicated'
<1> DEFINE summed(f) == IF f.name = FileName THEN [f EXCEPT !.sum = f.body] ELSE f
<1>1. /\ UNCHANGED <<through, head, anchor, sealed, meddled, slips>>
      /\ sealer.pc = "sum" /\ sealer'.pc = "through" /\ files' = {summed(f) : f \in files}
  BY DEF WriteSum, chainVars, tellVars, Then, TypeOK, SealerOK, Sealer
<1>2. UNCHANGED <<HeadId, FileName, FirstSealed>>
  BY <1>1 DEF HeadId, FileName, FirstSealed
<1>3. ASSUME NEW f \in files
      PROVE  /\ summed(f) \in files' /\ summed(f).name = f.name /\ summed(f).body = f.body
             /\ f.sum # None => summed(f).sum # None
             /\ f.name = FileName => summed(f).sum # None
  <2>1. f \in [name : Nat \X Nat, body : {f.body}, sum : {f.sum}] /\ IsMap(f.body, Hashes)
    BY DEF TypeOK, DiskOK, FileOK
  <2>2. f.body # None
    BY <2>1, NoneAssumption
  <2>3. summed(f).name = f.name /\ summed(f).body = f.body
    BY <2>1
  <2>4. summed(f).sum = IF f.name = FileName THEN f.body ELSE f.sum
    BY <2>1
  <2> QED
    BY <1>1, <2>2, <2>3, <2>4
<1>4. \A g \in files' : \E f \in files : g = summed(f)
  BY <1>1
<1> HIDE DEF summed
<1>5. \A g \in files' : DOMAIN g.body \subseteq g.name[1]..g.name[2]
  BY <1>3, <1>4 DEF Replicated
<1>6. \E f \in Finished' : NewFile(f)'
  <2>1. PICK f \in files : NewFile(f)
    BY <1>1 DEF Replicated
  <2>2. summed(f) \in Finished' /\ NewFile(summed(f))
    BY <1>3, <2>1 DEF Finished, NewFile
  <2> QED
    BY <1>2, <2>2 DEF NewFile
<1>7. Copied \subseteq Copied'
  <2> SUFFICES ASSUME NEW f \in Finished PROVE DOMAIN f.body \subseteq Copied'
    BY DEF Copied
  <2>1. summed(f) \in Finished' /\ summed(f).body = f.body
    BY <1>3 DEF Finished
  <2> QED
    BY <2>1 DEF Copied
<1>8. OldestTrimmed' /\ "disk" \notin slips' => Whole'
  BY <1>1, <1>2, <1>7, GoodSoFar DEF Whole
<1> QED
  BY <1>1, <1>2, <1>5, <1>6, <1>8 DEF Replicated

\* The replica says it goes to the head: the new file is the last piece.
LEMMA SetThroughKeepsReplica ==
  ASSUME TypeOK, ChainInv, Oldest, Replicated, SetThrough
  PROVE  Replicated'
<1>0. ChainOK /\ DiskOK /\ HeadId \in Nat /\ through \in Nat /\ sealer.pc = "through"
  BY HeadParts, Bounds DEF TypeOK, DiskOK, SetThrough, Sealer
<1>1. /\ UNCHANGED <<files, head, anchor, sealed, meddled, slips>>
      /\ sealer'.pc = "prune" /\ through' = HeadId
  BY DEF SetThrough, chainVars, tellVars, Then, TypeOK, SealerOK
<1>2. UNCHANGED <<HeadId, FirstSealed, Copied>>
  BY <1>1 DEF HeadId, FirstSealed, Copied, Finished
<1>3. through < HeadId /\ head # None /\ anchor # None /\ sealed # <<>>
  BY <1>0 DEF Replicated, HeadId, ChainInv, Sealed
<1>4. anchor.id \in Nat /\ FirstSealed \in Nat /\ FirstSealed >= 1
  <2>1. sealed[1] \in Rows
    BY <1>0, <1>3 DEF ChainOK, Hashes
  <2> QED
    BY <1>0, <1>3, <2>1, AnchorParts, Bounds DEF FirstSealed, Rows
<1>5. OldestTrimmed' /\ "disk" \notin slips' => Whole'
  <2> SUFFICES ASSUME OldestTrimmed', "disk" \notin slips' PROVE Whole'
    OBVIOUS
  <2>1. Whole
    BY <1>1, GoodSoFar
  <2>2. PICK f \in Finished : NewFile(f)
    BY <1>0 DEF Replicated
  <2>3. /\ FileName[2] = HeadId /\ FileName[1] \in Nat
        /\ FileName[1] = anchor.id \/ FileName[1] = through + 1
    BY <1>0, <1>3, FileNameType
  <2>4. FileName[1]..HeadId \subseteq Copied
    BY <2>2, <2>3 DEF NewFile, Copied
  <2>5. ASSUME NEW id \in FirstSealed..HeadId, id < FileName[1] PROVE id \in Copied
    <3>1. id <= through
      BY <1>0, <1>3, <1>4, <2>1, <2>3, <2>5 DEF Whole
    <3> QED
      BY <1>0, <1>4, <2>1, <2>5, <3>1 DEF Whole
  <2>6. FirstSealed..HeadId \subseteq Copied
    BY <1>0, <1>4, <2>3, <2>4, <2>5
  <2>7. anchor.id <= FirstSealed \/ anchor.id <= HeadId + 1
    BY <1>0, <1>3, <1>4, <2>1 DEF Whole
  <2> QED
    BY <1>0, <1>1, <1>2, <2>6, <2>7 DEF Whole
<1>6. through' <= HeadId'
  BY <1>0, <1>1, <1>2
<1> QED
  BY <1>1, <1>5, <1>6 DEF Replicated

LEMMA ReplicaFailsKeepsReplica ==
  ASSUME TypeOK, Replicated, ReplicaFails
  PROVE  Replicated'
<1>1. /\ UNCHANGED <<diskVars, head>> /\ sealer'.pc = "prune" /\ "disk" \in slips'
  BY DEF ReplicaFails, chainVars, Then, TypeOK, SealerOK
<1>2. UNCHANGED <<through, files, HeadId>>
  BY <1>1 DEF diskVars, HeadId
<1> QED
  BY <1>1, <1>2 DEF Replicated

\* The anchor does not leave behind what the replica lacks.
LEMMA PruneKeepsReplica ==
  ASSUME TypeOK, ChainInv, Trimming, Oldest, Replicated, Prune
  PROVE  Replicated'
<1>0. HeadId \in Nat /\ through \in Nat
  BY HeadParts, Bounds DEF TypeOK, DiskOK
<1>1. /\ UNCHANGED <<diskVars, head, sealed, meddled>> /\ slips \subseteq slips'
      /\ sealer.pc = "prune" /\ sealer'.pc \in {"idle", "forget"}
  BY PruneAs DEF Prune, tellVars, Sealer, TypeOK, SealerOK
<1>2. UNCHANGED <<through, files, HeadId, FirstSealed, Copied>>
  BY <1>1 DEF diskVars, HeadId, FirstSealed, Copied, Finished
<1>3. OldestTrimmed' /\ "disk" \notin slips' => Whole'
  <2> SUFFICES ASSUME OldestTrimmed', "disk" \notin slips' PROVE Whole'
    OBVIOUS
  <2>1. Whole /\ OneFills /\ NextIsHeld
    BY <1>1, GoodSoFar
  <2>2. head # None => anchor'.id <= FirstSealed \/ anchor'.id <= through + 1
    <3>1. CASE UNCHANGED anchor
      BY <2>1, <3>1 DEF Whole
    <3>2. CASE head # None /\ ~UNCHANGED anchor
      <4> DEFINE oldest == Min(Ids(log))
      <4>1. /\ PruneMoves /\ oldest \in 1..MaxId /\ \A id \in Ids(log) : oldest <= id
            /\ anchor' = Link(oldest, chain[oldest - 1])
        BY <3>2, PruneAs
      <4>2. oldest <= HeadId + 1 /\ anchor'.id = oldest
        BY <2>1, <3>2, <4>1, FullLogIsOld DEF Link
      <4>3. through >= HeadId
        BY <1>1, <2>1 DEF Whole
      <4> HIDE DEF oldest
      <4> QED
        BY <1>0, <4>1, <4>2, <4>3, Bounds
    <3> QED
      BY <3>1, <3>2
  <2> QED
    BY <1>1, <1>2, <2>1, <2>2 DEF Whole
<1> QED
  BY <1>1, <1>2, <1>3 DEF Replicated

\* Somebody changes the log or rewrites the chain, or the first seal gets its anchor.
LEMMA RestKeepsReplica ==
  ASSUME TypeOK, ChainInv, Oldest, Replicated, SetAnchor \/ MeddleSteps
  PROVE  Replicated'
<1>1. CASE SetAnchor
  <2>1. /\ head = None /\ head' = None /\ UNCHANGED <<diskVars, sealed, slips, meddled>>
        /\ sealer'.pc = "seal"
    BY <1>1 DEF SetAnchor, Sealer, Then, ChainInv, Sealing, TypeOK, SealerOK, tellVars
  <2>2. UNCHANGED <<through, files, HeadId, Copied, FirstSealed>>
    BY <2>1 DEF diskVars, HeadId, Copied, Finished, FirstSealed
  <2>3. OldestTrimmed' /\ "disk" \notin slips' => Whole'
    BY <2>1, <2>2, GoodSoFar DEF Whole
  <2> QED
    BY <2>1, <2>2, <2>3 DEF Replicated
<1>2. CASE Change \/ Remove \/ Insert
  <2>1. /\ UNCHANGED <<diskVars, head, anchor, sealed, sealer, slips>> /\ meddled = "none"
    BY <1>2 DEF Change, Remove, Insert, Meddle
  <2> QED
    BY <2>1, ReplicaStays
<1>3. CASE Rewrite
  <2>1. /\ UNCHANGED <<diskVars, anchor, sealed, sealer, slips>> /\ meddled = "none"
        /\ sealer.pc \in {"idle", "ticked"} /\ head # None
    BY <1>3 DEF Rewrite, Meddle
  <2>2. head' # None /\ HeadId' = HeadId
    <3>1. PICK k \in DOMAIN log :
             head' = Link(head.id, Redone(head.hash, log[k].id)) /\ head' # None
      BY <1>3, RewriteAs
    <3> QED
      BY <2>1, <3>1 DEF HeadId, Link
  <2>3. UNCHANGED <<through, files, Copied, FirstSealed>>
    BY <2>1 DEF diskVars, Copied, Finished, FirstSealed
  <2>4. OldestTrimmed' /\ "disk" \notin slips' => Whole'
    BY <2>1, <2>2, <2>3, GoodSoFar DEF Whole
  <2> QED
    BY <2>1, <2>2, <2>3, <2>4 DEF Replicated
<1> QED
  BY <1>1, <1>2, <1>3 DEF MeddleSteps

LEMMA ReplicatedStays ==
  ASSUME TypeOK, ChainInv, Trimming, Oldest, Replicated, Next
  PROVE  Replicated'
<1>0. SealerOK /\ ChainOK
  BY DEF TypeOK
<1>1. ASSUME NEW w \in Writers, WriterMoves(w) PROVE Replicated'
  BY <1>1, WriterMovesAs, ReplicaStays DEF chainVars
<1>2. CASE TickStart \/ TickRows \/ Seal \/ Sleep \/ WaitIsOver \/ StopSealer
  <2>1. UNCHANGED <<diskVars, head, anchor, sealed, meddled>> /\ slips \subseteq slips'
    BY <1>2 DEF TickStart, TickRows, Seal, Sleep, WaitIsOver, StopSealer, chainVars, tellVars, Blame
  <2>2. sealer'.pc = sealer.pc \/ sealer'.pc \notin {"file", "sum", "through", "prune"}
    BY <1>0, <1>2 DEF TickStart, TickRows, Seal, Sleep, WaitIsOver, StopSealer, Then, Rests, SealerOK
  <2> QED
    BY <2>1, <2>2, ReplicaStays
<1>3. CASE Forget \/ AskSteps
  <2>1. UNCHANGED <<diskVars, head, anchor, sealed, meddled>> /\ slips \subseteq slips'
    BY <1>3 DEF Forget, AskSteps, Ask, AskAnchor, AskRows, AskChain, AskFiles, chainVars, tellVars, Blame
  <2>2. sealer'.pc = sealer.pc \/ sealer'.pc = "idle"
    BY <1>0, <1>3 DEF Forget, AskSteps, Ask, AskAnchor, AskRows, AskChain, AskFiles, Rests, SealerOK
  <2> QED
    BY <2>1, <2>2, ReplicaStays
<1>4. CASE DailySteps /\ ~Forget
  BY <1>4, VerifyKeepsReplica, WriteFileKeepsReplica, WriteSumKeepsReplica, SetThroughKeepsReplica,
     ReplicaFailsKeepsReplica, PruneKeepsReplica DEF DailySteps
<1> QED
  BY <1>1, <1>2, <1>3, <1>4, SetHeadKeepsReplica, RestKeepsReplica DEF Next, WriterMoves, TickSteps

-----------------------------------------------------------------------------
(* The invariant holds *)

LEMMA TypesStay ==
  ASSUME TypeOK, ChainInv, Trimming, Next
  PROVE  TypeOK'
<1>1. ASSUME NEW w \in Writers, WriterMoves(w) PROVE TypeOK'
  <2>1. Fill(w) => writer[w].keep # <<>>
    BY DEF Trimming, Fill, Filling
  <2> QED
    BY <1>1, <2>1, LogTypes, TrimTypes, FillTypes DEF WriterMoves, WriterSteps
<1>2. CASE TickSteps \/ WaitIsOver \/ StopSealer
  BY <1>2, TickTypes, SealTypes DEF TickSteps, ChainInv
<1>3. CASE DailySteps
  BY <1>3, FileTypes, CheckTypes DEF DailySteps, ChainInv
<1> QED
  BY <1>1, <1>2, <1>3, AskTypes, MeddleTypes DEF Next, WriterMoves

LEMMA ChainHolds ==
  ASSUME TypeOK, ChainInv, Next
  PROVE  ChainInv'
<1>0. SealerOK
  BY DEF TypeOK
<1>1. ASSUME NEW w \in Writers, WriterMoves(w) PROVE ChainInv'
  BY <1>1, WriterMovesAs, ChainStays
<1>2. CASE WaitIsOver \/ AskSteps
  <2>1. /\ UNCHANGED <<chainVars, meddled>> /\ sealer'.pc = sealer.pc
        /\ sealer'.counter = sealer.counter /\ sealer'.byId = sealer.byId
    BY <1>0, <1>2 DEF WaitIsOver, AskSteps, Ask, AskAnchor, AskRows, AskChain, AskFiles, tellVars, SealerOK
  <2> QED
    BY <2>1, ChainStays
<1>3. CASE SealerMoves
  BY <1>3, MoveAs, ChainGoesOn DEF ChainInv
<1>4. CASE SetAnchor \/ Seal \/ SetHead \/ Prune \/ Forget \/ MeddleSteps
  BY <1>4, SetAnchorKeepsChain, SealKeepsChain, SetHeadKeepsChain, PruneKeepsChain, MeddleKeepsChain
<1> QED
  BY <1>1, <1>2, <1>3, <1>4 DEF Next, WriterMoves, SealerMoves, TickSteps, DailySteps

LEMMA TrimmingStays ==
  ASSUME TypeOK, ChainInv, Trimming, Next
  PROVE  Trimming'
BY WritersTrim, OthersTrim DEF Next, WriterMoves

-----------------------------------------------------------------------------
(* What the chain ends in, though somebody rewrote it *)

\* Neither the chain nor a seal whose head is still to be written changes.
LEMMA GenuineStays ==
  ASSUME Genuine, UNCHANGED chainVars,
         sealer'.pc = "head" => sealer.pc = "head" /\ sealer'.counter = sealer.counter
  PROVE  Genuine'
<1>1. /\ UNCHANGED <<First, HeadId, FirstSealed>>
      /\ sealer'.pc = "head" => NewHash' = NewHash
  BY DEF chainVars, First, NewHash, HeadId, FirstSealed
<1> QED
  BY <1>1 DEF Genuine, chainVars

LEMMA SealIsGenuine ==
  ASSUME TypeOK, ChainInv, Genuine, Seal
  PROVE  Genuine'
<1>0. ChainOK /\ SealerOK /\ sealer.pc = "seal" /\ UNCHANGED <<head, anchor, sealed>>
  BY DEF TypeOK, Seal, Sealer
<1>1. /\ head = None => DOMAIN sealer.byId # {}
      /\ anchor # None /\ First \in 1..MaxId /\ First <= anchor.id /\ First <= Start
      /\ Len(HeadHash) = Start - First
      /\ head = None => anchor.id = Start /\ First = Start
      /\ head # None => Start = HeadId + 1 /\ First = FirstSealed
  BY <1>0, BeforeSeal
<1>2. /\ Start \in Nat /\ LastSealed \in Nat /\ LastSealed >= Start - 1 /\ First \in Nat
      /\ anchor.id \in Nat /\ HeadId \in Nat
  BY <1>0, <1>1, StartType, LastSealedType, HeadParts, AnchorParts, Bounds
<1>3. /\ sealer'.counter = LastSealed
      /\ sealer'.pc = IF LastSealed < Start THEN "ticked" ELSE "head"
  BY <1>0 DEF Seal, SealerOK
<1>4. UNCHANGED <<First, FirstSealed, HeadId>>
  BY <1>0 DEF First, FirstSealed, HeadId
<1>5. /\ \A id \in DOMAIN chain : id < Start => chain'[id] = chain[id]
      /\ \A id \in Start..LastSealed : chain'[id] = Batch[id]
  <2>1. DOMAIN Batch = Start..LastSealed
    BY DEF Batch
  <2>2. chain' = [id \in DOMAIN chain \cup DOMAIN Batch |->
                    IF id \in DOMAIN Batch THEN Batch[id] ELSE chain[id]]
    BY DEF Seal
  <2>3. \A id : id < Start => id \notin Start..LastSealed
    BY <1>2
  <2> QED
    BY <2>1, <2>2, <2>3
<1>6. head # None =>
        /\ \A i \in 1..Len(sealed) : sealed[i].id = FirstSealed + i - 1
        /\ \A i \in 1..Len(head.hash) : head.hash[i].id = FirstSealed + i - 1
        /\ \A id \in anchor.id..HeadId :
             LET n == id - FirstSealed + 1
             IN Len(chain'[id]) = n /\ chain'[id][n] \in {sealed[n], Fake(id)}
  <2>1. head # None => \A id \in anchor.id..HeadId : chain'[id] = chain[id]
    <3>1. head # None => \A id \in anchor.id..HeadId : id < Start /\ id \in DOMAIN chain
      BY <1>1, <1>2 DEF ChainInv, Sealed
    <3> QED
      BY <1>5, <3>1
  <2> QED
    BY <2>1 DEF Genuine
<1>7. CASE LastSealed < Start
  BY <1>0, <1>3, <1>4, <1>6, <1>7 DEF Genuine
<1>8. CASE ~(LastSealed < Start)
  <2> DEFINE last == Batch[LastSealed]
             h == HeadHash
  <2>1. LastSealed \in Start..LastSealed
    BY <1>2, <1>8
  <2>2. NewHash' = last
    BY <1>3, <1>5, <2>1 DEF NewHash
  <2>3. /\ last \in Hashes /\ Len(last) = Len(h) + LastSealed - Start + 1
        /\ SubSeq(last, 1, Len(h)) = h
        /\ \A k \in 1..LastSealed - Start + 1 : last[Len(h) + k].id = Start + k - 1
        /\ \A i \in Start..LastSealed : Batch[i] = SubSeq(last, 1, Len(h) + i - Start + 1)
    <3>1. \A id \in DOMAIN sealer.byId : sealer.byId[id].id = id
      BY DEF ChainInv, Sealing
    <3> QED
      BY <1>0, <1>1, <2>1, <3>1, BatchFacts
  <2>4. \A i \in 1..Len(h) : h[i].id = First + i - 1
    <3>1. head = None => Len(h) = 0
      BY <1>1, <1>2
    <3>2. head # None => h = head.hash
      BY <1>0, HeadParts
    <3>3. head # None => \A i \in 1..Len(head.hash) : head.hash[i].id = First + i - 1
      BY <1>1 DEF Genuine
    <3>4. head = None => 1..Len(h) = {}
      BY <3>1
    <3> HIDE DEF h
    <3> QED
      BY <3>2, <3>3, <3>4
  <2>5. Len(h) = Start - First /\ Len(h) \in Nat
    BY <1>1, <1>2
  <2> HIDE DEF last, h
  <2>6. ASSUME NEW i \in 1..Len(last) PROVE last[i].id = First + i - 1
    <3>1. CASE i <= Len(h)
      <4>1. i \in 1..Len(h) /\ Len(h) \in 0..Len(last) /\ last \in Seq(Rows)
        BY <1>2, <2>1, <2>3, <2>5, <3>1 DEF Hashes
      <4>2. last[i] = h[i]
        BY <2>3, <4>1, Beginning
      <4> QED
        BY <2>4, <4>1, <4>2
    <3>2. CASE ~(i <= Len(h))
      <4>1. i - Len(h) \in 1..LastSealed - Start + 1 /\ Len(h) + (i - Len(h)) = i
        BY <1>2, <2>3, <2>5, <2>6, <3>2
      <4>2. last[i].id = Start + (i - Len(h)) - 1
        BY <2>3, <4>1
      <4> QED
        BY <1>2, <2>5, <2>6, <4>2
    <3> QED
      BY <3>1, <3>2
  <2>7. ASSUME NEW id \in anchor.id..LastSealed, id > HeadId
        PROVE  chain'[id] = SubSeq(last, 1, id - First + 1)
    <3>1. id \in Start..LastSealed
      BY <1>1, <1>2, <2>7
    <3>2. Len(h) + id - Start + 1 = id - First + 1
      BY <1>2, <2>5
    <3> QED
      BY <1>5, <2>3, <3>1, <3>2
  <2> QED
    BY <1>0, <1>3, <1>4, <1>6, <2>2, <2>6, <2>7 DEF Genuine
<1> QED
  BY <1>7, <1>8

LEMMA SetHeadIsGenuine ==
  ASSUME TypeOK, ChainInv, Genuine, SetHead
  PROVE  Genuine'
<1>0. ChainOK /\ SealerOK /\ sealer.pc = "head"
  BY DEF TypeOK, SetHead, Sealer
<1>1. /\ First \in 1..MaxId /\ First <= anchor.id /\ anchor # None
      /\ sealer.counter \in 1..MaxId /\ sealer.counter > HeadId
      /\ head' # None /\ HeadId' = sealer.counter /\ head'.hash = NewHash
      /\ NewHash \in Hashes /\ Len(NewHash) = sealer.counter - First + 1
      /\ Len(sealed') = Len(NewHash) /\ FirstSealed' = First
      /\ \A k \in 1..Len(NewHash) :
           sealed'[k] = IF k <= Len(sealed) THEN sealed[k] ELSE NewHash[k]
      /\ sealer'.pc = "ticked" /\ UNCHANGED <<chain, anchor>>
  BY NewHead
<1>2. /\ \A i \in 1..Len(NewHash) : NewHash[i].id = First + i - 1
      /\ \A id \in anchor.id..sealer.counter :
           id > HeadId => chain[id] = SubSeq(NewHash, 1, id - First + 1)
  BY <1>0 DEF Genuine
<1>3. /\ HeadId \in Nat /\ anchor.id \in Nat /\ First \in Nat /\ sealer.counter \in Nat
      /\ Len(sealed) \in Nat
  BY <1>0, <1>1, HeadParts, AnchorParts, Bounds DEF ChainOK, Hashes
<1>4. /\ head = None => Len(sealed) = 0 /\ HeadId = 0
      /\ head # None => First = FirstSealed /\ Len(sealed) = HeadId - First + 1
  <2>1. head = None => Len(sealed) = 0 /\ HeadId = 0
    BY DEF ChainInv, Sealed, HeadId
  <2>2. head # None => First = FirstSealed /\ HeadId = First + Len(sealed) - 1
    BY DEF First, ChainInv, Sealed
  <2> QED
    BY <1>3, <2>1, <2>2
<1>5. \A i \in 1..Len(sealed') : sealed'[i].id = First + i - 1
  <2>1. \A i \in 1..Len(sealed) : sealed[i].id = First + i - 1
    BY <1>4 DEF Genuine
  <2>2. ASSUME NEW i \in 1..Len(NewHash) PROVE sealed'[i].id = First + i - 1
    <3>1. CASE i <= Len(sealed)
      <4>1. i \in 1..Len(sealed)
        BY <1>3, <3>1
      <4> QED
        BY <1>1, <2>1, <3>1, <4>1
    <3>2. CASE ~(i <= Len(sealed))
      BY <1>1, <1>2, <3>2
    <3> QED
      BY <3>1, <3>2
  <2> QED
    BY <1>1, <2>2
<1>6. ASSUME NEW id \in anchor.id..sealer.counter
      PROVE  /\ Len(chain[id]) = id - First + 1
             /\ chain[id][id - First + 1] \in {sealed'[id - First + 1], Fake(id)}
  <2> DEFINE n == id - First + 1
  <2>1. n \in 1..Len(NewHash) /\ id \in Nat
    BY <1>1, <1>3, <1>6
  <2>2. CASE id > HeadId
    <3>1. chain[id] = SubSeq(NewHash, 1, n)
      BY <1>2, <1>6, <2>2
    <3>2. n \in 0..Len(NewHash) /\ n \in 1..n /\ NewHash \in Seq(Rows)
      BY <1>1, <2>1 DEF Hashes
    <3>3. Len(chain[id]) = n /\ chain[id][n] = NewHash[n]
      <4> HIDE DEF n
      <4> QED
        BY <3>1, <3>2, Beginning
    <3>4. ~(n <= Len(sealed))
      BY <1>3, <1>4, <1>1, <2>1, <2>2
    <3> QED
      BY <1>1, <2>1, <3>3, <3>4
  <2>3. CASE ~(id > HeadId)
    <3>1. head # None /\ id \in anchor.id..HeadId
      BY <1>1, <1>3, <1>4, <2>3
    <3>2. Len(chain[id]) = n /\ chain[id][n] \in {sealed[n], Fake(id)}
      BY <1>4, <3>1 DEF Genuine
    <3>3. n <= Len(sealed)
      BY <1>3, <1>4, <2>1, <3>1, <2>3
    <3> QED
      BY <1>1, <2>1, <3>2, <3>3
  <2> QED
    BY <2>2, <2>3
<1> QED
  BY <1>1, <1>2, <1>5, <1>6 DEF Genuine

LEMMA PruneIsGenuine ==
  ASSUME TypeOK, ChainInv, Genuine, Prune \/ Forget
  PROVE  Genuine'
<1>0. ChainOK /\ SealerOK /\ head' = head /\ sealed' = sealed
  BY DEF TypeOK, Prune, Forget
<1>1. UNCHANGED <<FirstSealed, HeadId>>
  BY <1>0 DEF FirstSealed, HeadId
<1>2. sealer'.pc \in {"idle", "forget"}
  BY <1>0, PruneAs DEF Forget, Rests, SealerOK
<1>3. head # None => \A id \in anchor'.id..HeadId : id \in anchor.id..HeadId /\ chain'[id] = chain[id]
  <2> SUFFICES ASSUME head # None, NEW id \in anchor'.id..HeadId
               PROVE  id \in anchor.id..HeadId /\ chain'[id] = chain[id]
    OBVIOUS
  <2>1. anchor # None /\ anchor.id..HeadId \subseteq DOMAIN chain
    BY DEF ChainInv, Sealed
  <2>2. anchor.id \in Nat /\ HeadId \in Nat
    BY <1>0, <2>1, AnchorParts, HeadParts, Bounds
  <2>3. CASE Forget
    <3>1. id \in anchor.id..HeadId /\ id >= anchor.id
      BY <2>2, <2>3 DEF Forget
    <3> QED
      BY <2>1, <2>3, <3>1 DEF Forget
  <2>4. CASE Prune
    <3>1. chain' = chain
      BY <2>4 DEF Prune
    <3>2. anchor' = anchor \/ (anchor'.id \in Nat /\ anchor'.id > anchor.id)
      <4>1. CASE PruneMoves /\ Min(Ids(log)) \in 1..MaxId
                 /\ anchor' = Link(Min(Ids(log)), chain[Min(Ids(log)) - 1])
                 /\ chain[Min(Ids(log)) - 1] \in Hashes
        <5>1. anchor'.id = Min(Ids(log))
          BY <4>1, LinkOf
        <5> QED
          BY <4>1, <5>1, Bounds DEF PruneMoves
      <4> QED
        BY <2>4, <4>1, PruneAs
    <3> QED
      BY <2>2, <3>1, <3>2
  <2> QED
    BY <2>3, <2>4
<1> QED
  BY <1>0, <1>1, <1>2, <1>3 DEF Genuine

LEMMA RewriteIsGenuine ==
  ASSUME TypeOK, ChainInv, Genuine, Rewrite
  PROVE  Genuine'
<1>0. /\ ChainOK /\ head # None /\ sealer'.pc # "head"
      /\ UNCHANGED <<anchor, sealed>>
  BY DEF TypeOK, Rewrite, Meddle
<1>1. PICK k \in DOMAIN log :
         /\ log[k].id \in 1..MaxId
         /\ \A i \in DOMAIN chain : chain'[i] = Redone(chain[i], log[k].id)
         /\ head' = Link(head.id, Redone(head.hash, log[k].id)) /\ head' # None
  BY RewriteAs
<1>2. head'.id = head.id /\ head'.hash = Redone(head.hash, log[k].id)
  BY <1>1 DEF Link
<1>3. UNCHANGED <<FirstSealed, HeadId>>
  BY <1>0, <1>1, <1>2 DEF FirstSealed, HeadId
<1>4. /\ anchor # None /\ anchor.id..HeadId \subseteq DOMAIN chain /\ sealed # <<>>
      /\ FirstSealed <= anchor.id
  BY <1>0 DEF ChainInv, Sealed
<1>5. /\ anchor.id \in Nat /\ HeadId \in Nat /\ FirstSealed \in Nat
      /\ head.hash \in Hashes /\ IsMap(chain, Hashes)
  <2>1. sealed[1] \in Rows
    BY <1>0, <1>4 DEF ChainOK, Hashes
  <2> QED
    BY <1>0, <1>4, <2>1, AnchorParts, HeadParts, Bounds DEF ChainOK, FirstSealed, Rows
<1>6. \A i \in 1..Len(head'.hash) : head'.hash[i].id = FirstSealed + i - 1
  <2>1. \A i \in 1..Len(head.hash) : head.hash[i].id = FirstSealed + i - 1
    BY <1>0 DEF Genuine
  <2> QED
    BY <1>1, <1>2, <1>5, <2>1, RedoneHash
<1>7. ASSUME NEW id \in anchor.id..HeadId
      PROVE  /\ Len(chain'[id]) = id - FirstSealed + 1
             /\ chain'[id][id - FirstSealed + 1] \in {sealed[id - FirstSealed + 1], Fake(id)}
  <2> DEFINE n == id - FirstSealed + 1
             old == chain[id]
  <2>1. old \in Hashes /\ chain'[id] = Redone(old, log[k].id)
    BY <1>1, <1>4, <1>5, MapParts
  <2>2. Len(old) = n /\ old[n] \in {sealed[n], Fake(id)}
    BY <1>0 DEF Genuine
  <2>3. n \in 1..Len(old)
    BY <1>4, <1>5, <2>2
  <2>4. n \in 1..Len(sealed) /\ sealed[n].id = id
    <3>1. HeadId = FirstSealed + Len(sealed) - 1 /\ Len(sealed) \in Nat
      BY <1>0 DEF ChainInv, Sealed, ChainOK, Hashes
    <3>2. n \in 1..Len(sealed)
      BY <1>4, <1>5, <3>1
    <3>3. sealed[n].id = FirstSealed + n - 1
      BY <1>0, <3>2 DEF Genuine
    <3> QED
      BY <1>5, <3>2, <3>3
  <2>5. old[n].id = id
    BY <2>2, <2>4 DEF Fake
  <2> HIDE DEF n, old
  <2>6. /\ Len(Redone(old, log[k].id)) = Len(old)
        /\ Redone(old, log[k].id)[n] = IF old[n].id = log[k].id THEN Fake(log[k].id) ELSE old[n]
    BY <1>1, <2>1, <2>3, RedoneHash
  <2>7. Redone(old, log[k].id)[n] \in {sealed[n], Fake(id)}
    BY <2>2, <2>5, <2>6
  <2> QED
    BY <2>1, <2>2, <2>6, <2>7 DEF n
<1> QED
  BY <1>0, <1>1, <1>3, <1>6, <1>7 DEF Genuine

LEMMA GenuineHolds ==
  ASSUME TypeOK, ChainInv, Genuine, Next
  PROVE  Genuine'
<1>0. SealerOK
  BY DEF TypeOK
<1>1. ASSUME NEW w \in Writers, WriterMoves(w) PROVE Genuine'
  BY <1>1, WriterMovesAs, GenuineStays
<1>2. CASE WaitIsOver \/ AskSteps \/ Change \/ Remove \/ Insert
  <2>1. /\ UNCHANGED chainVars /\ sealer'.pc = sealer.pc /\ sealer'.counter = sealer.counter
    BY <1>0, <1>2 DEF WaitIsOver, AskSteps, Ask, AskAnchor, AskRows, AskChain, AskFiles, SealerOK,
       Change, Remove, Insert, Meddle, chainVars
  <2> QED
    BY <2>1, GenuineStays
<1>3. CASE SealerMoves
  BY <1>3, MoveAs, GenuineStays DEF ChainInv
<1>4. CASE SetAnchor
  <2>1. head' = None /\ sealer'.pc # "head"
    BY <1>0, <1>4 DEF SetAnchor, Sealer, Then, ChainInv, Sealing, SealerOK
  <2> QED
    BY <2>1 DEF Genuine
<1>5. CASE Seal \/ SetHead \/ Prune \/ Forget \/ Rewrite
  BY <1>5, SealIsGenuine, SetHeadIsGenuine, PruneIsGenuine, RewriteIsGenuine
<1> QED
  BY <1>1, <1>2, <1>3, <1>4, <1>5
  DEF Next, WriterMoves, SealerMoves, TickSteps, DailySteps, MeddleSteps

LEMMA InitHolds == Init => IInv
<1> SUFFICES ASSUME Init PROVE IInv
  OBVIOUS
<1>1. TypeOK
  BY InitTypes
<1>2. /\ sealer.pc = "idle" /\ sealer.byId = <<>> /\ head = None /\ sealed = <<>> /\ asked.head = None
      /\ through = 0 /\ files = {} /\ \A w \in Writers : writer[w].pc = "idle"
  BY DEF Init, NoCheck, AtRest
<1>3. Sealing /\ Sealed /\ NewSeal /\ Agreeing /\ Genuine
  BY <1>2 DEF Sealing, Sealed, NewSeal, Agreeing, Genuine
<1>4. Trimming /\ Oldest
  BY <1>2 DEF Trimming, Oldest, OneFills, NextIsHeld, Anchored, Started, InTick, Rewriting, Filling
<1>5. Replicated
  BY <1>2 DEF Replicated, Whole, HeadId
<1> QED
  BY <1>1, <1>3, <1>4, <1>5 DEF IInv

LEMMA Invariance == Spec => []IInv
<1>1. ASSUME IInv, Next PROVE IInv'
  <2>1. TypeOK /\ ChainInv /\ Genuine /\ Trimming /\ Oldest /\ Replicated
    BY <1>1 DEF IInv, ChainInv
  <2>2. TypeOK' /\ ChainInv' /\ Genuine' /\ Trimming' /\ Oldest' /\ Replicated'
    BY <1>1, <2>1, TypesStay, ChainHolds, GenuineHolds, TrimmingStays, OldestStays, ReplicatedStays
  <2> QED
    BY <2>2 DEF IInv, ChainInv
<1>2. IInv /\ UNCHANGED vars => IInv'
  <2> SUFFICES ASSUME IInv, UNCHANGED vars PROVE IInv'
    OBVIOUS
  <2>1. UNCHANGED <<counter, log, chain, head, anchor, sealed, through, files, writer, sealer, asked,
                    slips, meddled, events>>
    BY DEF vars, logVars, chainVars, diskVars, tellVars
  <2>2. TypeOK'
    BY <2>1 DEF IInv, TypeOK, LogOK, ChainOK, DiskOK, FileOK, WriterOK, SealerOK, AskedOK, TellOK
  <2>3. ChainInv' /\ Genuine'
    BY <2>1, ChainStays, GenuineStays DEF IInv, ChainInv, chainVars
  <2>4. Trimming' /\ Oldest'
    BY <2>1 DEF IInv, Trimming, Oldest, OneFills, NextIsHeld, Anchored, Started, InTick, Rewriting,
       Filling, HeadId, LowMark, Start, InHand, OthersRewrite, OldestTrimmed, PastUpTo, FirstSealed
  <2>5. Replicated'
    BY <2>1, ReplicaStays DEF IInv, diskVars
  <2> QED
    BY <2>2, <2>3, <2>4, <2>5 DEF IInv, ChainInv
<1> QED
  BY <1>1, <1>2, InitHolds, PTL DEF Spec

\* Every variable keeps its type, whatever dies, fails or is changed by others.
THEOREM TypeCorrect == Spec => []TypeOK
<1>1. IInv => TypeOK
  BY DEF IInv
<1> QED
  BY <1>1, Invariance, PTL

\* What was sealed for an id stays sealed for it: unless somebody rewrites the
\* chain itself, the head is the hash of all that was ever sealed, and so is the
\* hash the store keeps of every id from the anchor on, through any deaths of the
\* sealer between its calls and any trims.  The anchor's own hash is that of what
\* is before it as long as rows leave the log at its old end only.
THEOREM SealedForGood == Spec => []SealedStays
<1>1. IInv => SealedStays
  <2> SUFFICES ASSUME IInv, meddled # "rewrite", head # None
               PROVE  /\ anchor # None /\ HeadHash = sealed /\ HeadId = FirstSealed + Len(sealed) - 1
                      /\ OldestTrimmed => anchor.hash = PastUpTo(anchor.id - 1)
                      /\ \A id \in anchor.id..HeadId : id \in DOMAIN chain /\ chain[id] = PastUpTo(id)
    BY DEF SealedStays
  <2>1. /\ anchor # None /\ HeadId = FirstSealed + Len(sealed) - 1
        /\ anchor.id..HeadId \subseteq DOMAIN chain
    BY DEF IInv, Sealed
  <2>2. head.hash = sealed /\ \A id \in anchor.id..HeadId : chain[id] = PastUpTo(id)
    BY DEF IInv, Agreeing
  <2>3. OldestTrimmed => anchor.hash = PastUpTo(anchor.id - 1)
    BY DEF IInv, Oldest, Anchored
  <2> QED
    BY <2>1, <2>2, <2>3 DEF HeadHash
<1> QED
  BY <1>1, Invariance, PTL

\* The replica has the hash of every id from the first sealed to the one it says
\* it goes to, however often the sealer dies between a file, its checksum and the
\* note of how far they go, as long as no file failed to be written and rows leave
\* the log at its old end only.
THEOREM ReplicaIsWhole == Spec => []ReplicaWhole
<1>1. IInv => ReplicaWhole
  BY DEF IInv, Replicated, Whole, ReplicaWhole
<1> QED
  BY <1>1, Invariance, PTL

-----------------------------------------------------------------------------
(* What a check that passes has seen *)

\* The hash of an id is that of some hash and what the log has of the id.
EndsIn(id, row) == \E before \in Hashes : chain[id] = Hash(before, row)

Seen(first) ==
  /\ first \in Nat /\ anchor.id <= first
  /\ first = anchor.id \/ (Len(log) >= Cap /\ first = Min(Ids(log)))
  /\ \A j, k \in DOMAIN log : log[j].id = log[k].id => j = k
  /\ \A id \in Ids(log) : id >= first
  /\ \A id \in first..HeadId : id \in DOMAIN chain /\ EndsIn(id, SealOf(ById(log, 0), id))

LEMMA VerifiedSees ==
  ASSUME TypeOK, ChainInv, head # None, Verified(head, anchor, log)
  PROVE  \E first \in Nat : Seen(first)
<1> DEFINE oldest   == Min(Ids(log))
           trimmed  == Len(log) >= Cap /\ oldest > anchor.id
           first    == IF trimmed THEN oldest ELSE anchor.id
           before   == IF trimmed THEN chain[first - 1] ELSE anchor.hash
           prev(id) == IF id = first THEN before ELSE chain[id - 1]
<1>0. /\ ChainOK /\ LogOK /\ anchor # None /\ HeadId = head.id /\ HeadId \in Nat
      /\ anchor.id \in Nat /\ anchor.hash \in Hashes
  BY HeadParts, AnchorParts, Bounds DEF TypeOK, ChainInv, Sealed
<1>1. /\ \A j, k \in DOMAIN log : log[j].id = log[k].id => j = k
      /\ trimmed => first - 1 \in DOMAIN chain
      /\ \A id \in Ids(log) : id >= first
      /\ first..HeadId \subseteq DOMAIN chain
      /\ \A id \in first..HeadId : chain[id] = Hash(prev(id), SealOf(ById(log, 0), id))
  BY <1>0, Zenon DEF Verified
<1>2. trimmed => oldest \in Nat
  <2>1. trimmed => log \in Seq(Rows) /\ log # <<>>
    BY <1>0, Bounds DEF LogOK
  <2> HIDE DEF oldest
  <2> QED
    BY <2>1, OldestRow, Bounds DEF oldest
<1>3. first \in Nat /\ anchor.id <= first /\ (first = anchor.id \/ (Len(log) >= Cap /\ first = oldest))
  BY <1>0, <1>2
<1>4. before \in Hashes
  BY <1>0, <1>1, MapParts DEF ChainOK
<1> HIDE DEF first, before
<1>5. ASSUME NEW id \in first..HeadId PROVE prev(id) \in Hashes
  <2>1. CASE id = first
    BY <1>4, <2>1
  <2>2. CASE id # first
    <3>1. id - 1 \in first..HeadId
      BY <1>0, <1>3, <2>2
    <3> QED
      BY <1>0, <1>1, <2>2, <3>1, MapParts DEF ChainOK
  <2> QED
    BY <2>1, <2>2
<1> HIDE DEF prev
<1>6. Seen(first)
  BY <1>1, <1>3, <1>5 DEF Seen, EndsIn
<1> QED
  BY <1>3, <1>6

\* The end of the hash of an id that the check went through.
LEMMA SeenEnd ==
  ASSUME TypeOK, ChainInv, Genuine, head # None, NEW first \in Nat, Seen(first),
         NEW id \in first..HeadId
  PROVE  LET n == id - FirstSealed + 1 IN
         /\ n \in 1..Len(sealed) /\ sealed[n].id = id /\ Len(chain[id]) = n
         /\ chain[id][n] = SealOf(ById(log, 0), id)
         /\ chain[id][n] \in {sealed[n], Fake(id)}
<1> DEFINE n == id - FirstSealed + 1
           row == SealOf(ById(log, 0), id)
<1>0. /\ ChainOK /\ log \in Seq(Rows) /\ HeadId \in 0..MaxId /\ sealed \in Seq(Rows)
      /\ anchor.id \in Nat /\ FirstSealed \in 1..MaxId /\ FirstSealed <= anchor.id
      /\ HeadId = FirstSealed + Len(sealed) - 1
  <2>1. /\ ChainOK /\ anchor # None /\ sealed # <<>> /\ FirstSealed <= anchor.id
        /\ HeadId = FirstSealed + Len(sealed) - 1
    BY DEF TypeOK, ChainInv, Sealed
  <2>2. sealed \in Seq(Rows) /\ sealed[1] \in Rows
    BY <2>1 DEF ChainOK, Hashes
  <2> QED
    BY <2>1, <2>2, HeadParts, AnchorParts, Bounds DEF TypeOK, LogOK, FirstSealed, Rows
<1>1. id \in anchor.id..HeadId /\ id \in 1..MaxId
  BY <1>0, Bounds DEF Seen
<1>2. n \in 1..Len(sealed) /\ FirstSealed + n - 1 = id
  BY <1>0, <1>1, Bounds
<1>3. sealed[n].id = id /\ Len(chain[id]) = n /\ chain[id][n] \in {sealed[n], Fake(id)}
  BY <1>1, <1>2 DEF Genuine
<1>4. row \in Rows
  <2>1. IsMap(ById(log, 0), Rows) /\ \A i \in DOMAIN ById(log, 0) : ById(log, 0)[i].id = i
    BY <1>0, ByIdMap, ByIdIds
  <2> QED
    BY <1>1, <2>1, SealOfRow
<1>5. PICK before \in Hashes : chain[id] = Append(before, row)
  BY DEF Seen, EndsIn, Hash
<1> HIDE DEF row
<1>6. Append(before, row)[Len(Append(before, row))] = row
  BY <1>4, <1>5 DEF Hashes
<1>7. chain[id][n] = row
  BY <1>3, <1>5, <1>6
<1> QED
  BY <1>2, <1>3, <1>7 DEF row

\* The check passes: the rows agree with the chain, and the files may have.
LEMMA CheckPassed ==
  ASSUME TypeOK, ChainInv, head # None, Verify, sealer'.pc \in {"file", "prune"}
  PROVE  /\ \E first \in Nat : Seen(first)
         /\ \A id \in Copied \cap DOMAIN chain : chain[id] \in Copies(id)
<1>1. PICK agrees \in Agreements :
         LET ok == Verified(head, anchor, log) /\ agrees IN
         sealer' = [sealer EXCEPT !.verdict = IF ok THEN "ok" ELSE "bad",
                                  !.pc = IF ~ok THEN "idle"
                                         ELSE IF HeadId > through THEN "file" ELSE "prune"]
  BY DEF Verify
<1> DEFINE ok == Verified(head, anchor, log) /\ agrees
<1>2. sealer'.pc = IF ~ok THEN "idle" ELSE IF HeadId > through THEN "file" ELSE "prune"
  BY <1>1 DEF TypeOK, SealerOK
<1>3. Verified(head, anchor, log) /\ agrees
  <2> HIDE DEF ok
  <2>1. ok
    BY <1>2
  <2> QED
    BY <2>1 DEF ok
<1>4. \A id \in Copied \cap DOMAIN chain : chain[id] \in Copies(id)
  BY <1>3 DEF Agreements
<1> QED
  BY <1>3, <1>4, VerifiedSees

\* Every row the log has that is sealed is what was sealed for its id.
LEMMA SeenRowsAreSealed ==
  ASSUME TypeOK, ChainInv, Genuine, head # None, NEW first \in Nat, Seen(first),
         \A id \in Copied \cap DOMAIN chain : chain[id] \in Copies(id),
         NEW k \in DOMAIN log, log[k].id <= HeadId,
         meddled = "rewrite" => CopiedInTime(log[k].id)
  PROVE  \E i \in DOMAIN sealed : sealed[i] = log[k]
<1> DEFINE id == log[k].id
           n  == id - FirstSealed + 1
<1>1. log \in Seq(Rows) /\ k \in 1..Len(log) /\ id \in Ids(log) /\ id \in 1..MaxId
  <2>1. log \in Seq(Rows)
    BY DEF TypeOK, LogOK
  <2> QED
    BY <2>1, IdsOf DEF Ids
<1>2. id \in first..HeadId /\ id > 0
  BY <1>1, HeadParts, Bounds DEF Seen, TypeOK
<1>3. SealOf(ById(log, 0), id) = log[k]
  <2>1. id \in DOMAIN ById(log, 0)
    BY <1>1, <1>2, ByIdMap
  <2>a. \A i \in DOMAIN ById(log, 0) :
          \E j \in DOMAIN log : ById(log, 0)[i] = log[j] /\ log[j].id = i
    <3>1. 0 \in Nat
      OBVIOUS
    <3> QED
      BY <1>1, <3>1, ByIdMap, Zenon
  <2>2. PICK j \in DOMAIN log : ById(log, 0)[id] = log[j] /\ log[j].id = id
    BY <2>1, <2>a
  <2>3. j = k
    BY <2>2 DEF Seen
  <2> QED
    BY <2>1, <2>2, <2>3 DEF SealOf
<1>4. /\ n \in 1..Len(sealed) /\ Len(chain[id]) = n /\ chain[id][n] = log[k]
      /\ id \in DOMAIN chain
  BY <1>2, <1>3, SeenEnd DEF Seen
<1>5. sealed \in Seq(Rows) /\ anchor.id <= id /\ anchor.id \in Nat
  BY <1>2, AnchorParts, Bounds DEF TypeOK, ChainOK, Hashes, ChainInv, Sealed, Seen
<1>6. chain[id] = PastUpTo(id)
  <2>1. CASE meddled # "rewrite"
    BY <1>2, <1>5, <2>1 DEF ChainInv, Agreeing
  <2>2. CASE meddled = "rewrite"
    <3>1. Copies(id) = {PastUpTo(id)}
      BY <2>2 DEF CopiedInTime
    <3>2. id \in Copied
      <4>1. PICK f \in {g \in Finished : id \in DOMAIN g.body} : TRUE
        BY <3>1 DEF Copies
      <4> QED
        BY <4>1 DEF Copied
    <3> QED
      BY <1>4, <3>1, <3>2
  <2> QED
    BY <2>1, <2>2
<1> HIDE DEF n
<1>7. SubSeq(sealed, 1, n)[n] = sealed[n] /\ PastUpTo(id) = SubSeq(sealed, 1, n)
  <2>1. n \in 0..Len(sealed) /\ n \in 1..n
    BY <1>4
  <2> QED
    BY <1>5, <2>1, Beginning DEF PastUpTo, n
<1>8. sealed[n] = log[k] /\ n \in DOMAIN sealed
  BY <1>4, <1>5, <1>6, <1>7
<1> QED
  BY <1>8

\* What was sealed for an id is in the log, unless it is the oldest of a full log.
LEMMA SealedRowsAreSeen ==
  ASSUME TypeOK, ChainInv, Genuine, head # None, NEW first \in Nat, Seen(first),
         NEW i \in DOMAIN sealed, sealed[i].says # "gap", sealed[i].id \notin Ids(log)
  PROVE  \/ sealed[i].id < anchor.id
         \/ Len(log) >= Cap /\ sealed[i].id < Min(Ids(log))
<1> DEFINE id == sealed[i].id
<1>0. /\ sealed \in Seq(Rows) /\ log \in Seq(Rows) /\ HeadId \in Nat /\ anchor.id \in Nat
      /\ HeadId = FirstSealed + Len(sealed) - 1 /\ FirstSealed \in Nat
  <2>1. sealed \in Seq(Rows) /\ sealed # <<>> /\ ChainOK /\ anchor # None
    BY DEF TypeOK, ChainOK, Hashes, ChainInv, Sealed
  <2>2. sealed[1] \in Rows
    BY <2>1
  <2> QED
    BY <2>1, <2>2, HeadParts, AnchorParts, Bounds
    DEF TypeOK, LogOK, ChainInv, Sealed, FirstSealed, Rows
<1>1. i \in 1..Len(sealed)
  BY <1>0
<1>2. id = FirstSealed + i - 1
  BY <1>1 DEF Genuine
<1>3. id \in Nat /\ id <= HeadId /\ id - FirstSealed + 1 = i
  BY <1>0, <1>1, <1>2
<1>4. id < first
  <2> SUFFICES ASSUME ~(id < first) PROVE FALSE
    OBVIOUS
  <2>1. id \in first..HeadId
    BY <1>0, <1>3
  <2>2. SealOf(ById(log, 0), id) = Gap(id)
    <3>1. id \notin DOMAIN ById(log, 0)
      BY <1>0, ByIdMap
    <3> QED
      BY <3>1 DEF SealOf
  <2>3. Gap(id) \in {sealed[i], Fake(id)}
    BY <1>3, <2>1, <2>2, SeenEnd
  <2> QED
    BY <2>3 DEF Gap, Fake
<1>5. CASE first = anchor.id
  BY <1>4, <1>5
<1>6. CASE Len(log) >= Cap /\ first = Min(Ids(log))
  BY <1>4, <1>6
<1> QED
  BY <1>5, <1>6 DEF Seen

\* A daily check that passes is right, whoever changed, removed or inserted a row
\* since, or rewrote the chain: every sealed row the log holds is what was sealed
\* for its id (after a rewrite, if the replica had the id before), none is there
\* twice, and none is missing but the oldest of a full log.
THEOREM ChangesAreFound == Spec => ChangesFound
<1>1. ASSUME IInv, Next, Sealer("ticked"), sealer'.pc \in {"file", "prune"}
      PROVE  Untouched
  <2> SUFFICES ASSUME head # None PROVE Untouched
    BY DEF Untouched
  <2>0. TypeOK /\ SealerOK /\ ChainInv /\ Genuine
    BY <1>1 DEF IInv, ChainInv, TypeOK
  <2>1. Verify
    <3>1. ~(\E w \in Writers : WriterMoves(w))
      BY <1>1, <2>0, WriterMovesAs DEF Sealer
    <3>2. ~(TickSteps \/ WaitIsOver \/ StopSealer)
      BY <1>1, <2>0 DEF TickSteps, TickStart, TickRows, SetAnchor, Seal, SetHead, Sleep, WaitIsOver,
         StopSealer, Sealer, Then, Rests, SealerOK
    <3>3. ~(AskSteps \/ MeddleSteps)
      BY <1>1, <2>0 DEF AskSteps, Ask, AskAnchor, AskRows, AskChain, AskFiles, MeddleSteps, Change,
         Remove, Insert, Rewrite, Meddle, Sealer
    <3>4. DailySteps
      BY <1>1, <3>1, <3>2, <3>3 DEF Next, WriterMoves
    <3> QED
      BY <1>1, <3>4 DEF DailySteps, WriteFile, WriteSum, SetThrough, ReplicaFails, Prune, Forget, Sealer
  <2>2. /\ \E first \in Nat : Seen(first)
        /\ \A id \in Copied \cap DOMAIN chain : chain[id] \in Copies(id)
    BY <1>1, <2>0, <2>1, CheckPassed
  <2>3. PICK first \in Nat : Seen(first)
    BY <2>2
  <2>4. \A k \in DOMAIN log :
          log[k].id <= HeadId /\ (meddled = "rewrite" => CopiedInTime(log[k].id))
            => \E i \in DOMAIN sealed : sealed[i] = log[k]
    BY <2>0, <2>2, <2>3, SeenRowsAreSealed
  <2>5. \A j, k \in DOMAIN log : log[j].id = log[k].id => j = k
    BY <2>3 DEF Seen
  <2>6. \A i \in DOMAIN sealed : sealed[i].says # "gap" /\ sealed[i].id \notin Ids(log) =>
          \/ sealed[i].id < anchor.id
          \/ Len(log) >= Cap /\ sealed[i].id < Min(Ids(log))
    BY <2>0, <2>3, SealedRowsAreSeen
  <2> QED
    BY <2>4, <2>5, <2>6 DEF Untouched
<1>2. IInv /\ [Next]_vars =>
        [Sealer("ticked") /\ sealer'.pc \in {"file", "prune"} => Untouched]_vars
  BY <1>1
<1> QED
  BY <1>2, Invariance, PTL DEF Spec, ChangesFound
====
