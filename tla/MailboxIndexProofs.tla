-------------------------- MODULE MailboxIndexProofs --------------------------
(***************************************************************************)
(* The safety of MailboxIndex for any number of sessions, files, messages  *)
(* and mailboxes.  A uid means what it was first given to; that every      *)
(* place a uid is kept in, on disk or in the hands of an actor, agrees     *)
(* with this is the inductive part, and the properties follow from it.     *)
(***************************************************************************)
EXTENDS MailboxIndex, TLAPS

USE ConstantsAssumption

-----------------------------------------------------------------------------
(* The inductive invariant *)

Exists(f) == f \in Names /\ mid[f] \in Mids

\* The uid was given to the message of the file, or to the file by its name.
Stands(uid, f) == /\ uid \in Uids /\ Exists(f)
                  /\ issued[uid] = mid[f] \/ issued[uid] = f

\* What a client may have been told a uid means.
Means(uid, m) == issued[uid] = m \/ (Exists(issued[uid]) /\ mid[issued[uid]] = m)

\* The index, the hash, the list and what was told agree with what was given.
UidsAgree ==
  /\ \A u \in Uids : issued[u] # None => u <= counter
  /\ \A k \in Keys : rev[k] # 0 => issued[rev[k]] = k

StoresAgree ==
  /\ UidsAgree
  /\ \A f \in Names : cache[f] # 0 => Stands(cache[f], f)
  /\ \A f \in Names : list[f] # 0 => Exists(f) /\ issued[list[f]] = mid[f]
  /\ \A f \in Names : OnDisk(f) => Exists(f)
  /\ spool # None => Exists(spool)
  /\ \A t \in shown : Means(t.uid, t.message)

Arriving == {"look", "alloc", "row", "uid"}
Copying  == Arriving \cup {"copy"}
OfAFile  == Copying \cup {"remove", "forget", "repoint", "decide", "dropone", "dropall", "empty"}

\* So does what actor p has in hand.
HoldsNew(w)    == w.pc \in Arriving => Exists(w.new)
HoldsBox(p, w) == p \in Sessions /\ (w.pc # "idle" \/ \E f \in Names : w.got[f] # 0)
                    => w.box \in Folders
HoldsTo(p, w)  == p \in Sessions /\ w.pc \in Copying => w.to \in Folders
HoldsSrc(p, w) == p \in Sessions /\ w.pc \in OfAFile => Exists(w.src)
HoldsTodo(w)   == \A f \in w.todo : Exists(f) /\ w.got[f] = 0
HoldsSnap(p, w) == \A f \in Names : w.snap[f] # 0 =>
                     /\ Stands(w.snap[f], f)
                     /\ p = Sweep => issued[w.snap[f]] = mid[f]
HoldsGot(w)    == \A f \in Names : w.got[f] # 0 =>
                    /\ Stands(w.got[f], f)
                    /\ \A g \in Names : w.got[g] = w.got[f] => g = f
                    /\ w.next # 0 => w.got[f] < w.next
HoldsNext(w)   == w.next # 0 => w.pc = "idle"

Agrees(p, w) == /\ HoldsNew(w) /\ HoldsBox(p, w) /\ HoldsTo(p, w) /\ HoldsSrc(p, w)
                /\ HoldsTodo(w) /\ HoldsSnap(p, w) /\ HoldsGot(w) /\ HoldsNext(w)

\* Of every message nobody expunged there is a file that nobody has copied to remove
\* it (a COPY counts until it is done).
Leaving(w, g) == w.op # "expunge" /\ w.src = g /\ w.pc \in Arriving \cup {"remove"}

Kept(g) == OnDisk(g) /\ \A s \in Sessions : ~Leaving(act[s], g)

Safe == \A f \in Names : Exists(f) /\ mid[f] \notin taken =>
          \E g \in Names : mid[g] = mid[f] /\ Kept(g)

IInv == /\ TypeOK /\ StoresAgree /\ Safe
        /\ \A p \in Actors : Agrees(p, act[p])

-----------------------------------------------------------------------------
(* What a step of one actor leaves of this *)

\* What a file was written with and what a uid was given to stay.
Grows == /\ \A f \in Names : mid[f] \in Mids => mid'[f] = mid[f]
         /\ \A u \in Uids : issued[u] # None => issued'[u] = issued[u]

LEMMA ActorMoves ==
  ASSUME act \in [Actors -> Works], NEW p \in Actors, NEW w \in Works, Now(p, w)
  PROVE  /\ act' \in [Actors -> Works] /\ act'[p] = w
         /\ \A q \in Actors \ {p} : act'[q] = act[q]
BY DEF Now

LEMMA ExistsStays ==
  ASSUME TypeOK, Grows, NEW f, Exists(f)
  PROVE  Exists(f)' /\ mid'[f] = mid[f]
BY DEF Exists, Grows

LEMMA StandsStays ==
  ASSUME TypeOK, Grows, NEW u, NEW f, Stands(u, f)
  PROVE  Stands(u, f)' /\ issued'[u] = issued[u]
<1>1. issued[u] # None
  BY DEF Stands, Exists
<1> QED
  BY <1>1, ExistsStays DEF Stands, Exists, Grows

LEMMA MeansStays ==
  ASSUME TypeOK, Grows, NEW u \in Uids, NEW m \in Mids, Means(u, m)
  PROVE  Means(u, m)'
<1>1. issued[u] # None
  BY DEF Means, Exists
<1> QED
  BY <1>1, ExistsStays DEF Means, Exists, Grows

LEMMA OthersAgree ==
  ASSUME TypeOK, Grows, NEW p \in Actors, Agrees(p, act[p]), act'[p] = act[p]
  PROVE  Agrees(p, act[p])'
<1>1. HoldsNew(act[p])' /\ HoldsSrc(p, act[p])' /\ HoldsTodo(act[p])'
  BY ExistsStays DEF Agrees, HoldsNew, HoldsSrc, HoldsTodo
<1>2. HoldsSnap(p, act[p])' /\ HoldsGot(act[p])'
  BY StandsStays, ExistsStays DEF Agrees, HoldsSnap, HoldsGot, Stands
<1>3. HoldsBox(p, act[p])' /\ HoldsTo(p, act[p])' /\ HoldsNext(act[p])'
  BY DEF Agrees, HoldsBox, HoldsTo, HoldsNext
<1> QED
  BY <1>1, <1>2, <1>3 DEF Agrees

LEMMA AllAgree ==
  ASSUME IInv, Grows, NEW p \in Actors, Agrees(p, act[p])',
         \A q \in Actors \ {p} : act'[q] = act[q]
  PROVE  \A q \in Actors : Agrees(q, act[q])'
BY OthersAgree DEF IInv

\* A file that stays is kept unless the actor is about to remove it now.
LEMMA SafeStays ==
  ASSUME IInv, NEW p \in Actors, \A q \in Actors \ {p} : act'[q] = act[q],
         UNCHANGED <<mid, taken>>, \A g \in Names : OnDisk(g) => OnDisk(g)',
         p \in Sessions => \A g \in Names : Leaving(act'[p], g) => Leaving(act[p], g)
  PROVE  Safe'
<1>1. ASSUME NEW g \in Names, Kept(g) PROVE Kept(g)'
  BY <1>1 DEF Kept, Actors
<1> QED
  BY <1>1 DEF IInv, Safe, Exists

-----------------------------------------------------------------------------
(* A step that writes nothing *)

LEMMA ActOnly ==
  ASSUME IInv, NEW p \in Actors, NEW w \in Works, Now(p, w), events' \in 0..MaxEvents,
         UNCHANGED <<maildir, uids, cache, list, index, spool, shown, taken>>,
         Agrees(p, w), \A g \in Names : Leaving(w, g) => Leaving(act[p], g)
  PROVE  IInv'
<1> USE DEF maildir, uids, index
<1>1. /\ act' \in [Actors -> Works] /\ act'[p] = w
      /\ \A q \in Actors \ {p} : act'[q] = act[q]
  BY ActorMoves DEF IInv, TypeOK
<1>2. TypeOK'
  BY <1>1 DEF IInv, TypeOK
<1>3. Grows
  BY DEF Grows
<1>4. StoresAgree'
  BY DEF IInv, StoresAgree, UidsAgree, Means, Exists, Stands, OnDisk
<1>5. Agrees(p, act[p])'
  BY <1>1 DEF Agrees, HoldsNew, HoldsBox, HoldsTo, HoldsSrc, HoldsTodo, HoldsSnap, HoldsGot,
              HoldsNext, Exists, Stands
<1>6. Safe'
  BY <1>1, SafeStays DEF OnDisk
<1> QED
  BY <1>1, <1>2, <1>3, <1>4, <1>5, <1>6, AllAgree DEF IInv

LEMMA Typed ==
  ASSUME IInv, NEW p \in Actors
  PROVE  /\ act[p] \in Works /\ Agrees(p, act[p])
         /\ AtRest \in Works /\ events \in 0..MaxEvents
         /\ Counted => events' \in 0..MaxEvents
BY DEF IInv, TypeOK, AtRest, Works, Pcs, NoUids, Counted

LEMMA LookKeeps ==
  ASSUME IInv, NEW p \in Actors, Look(p)
  PROVE  IInv'
<1> DEFINE m == mid[act[p].new]
           a == [act[p] EXCEPT !.pc = "row", !.uid = row[m].uid]
           b == [act[p] EXCEPT !.pc = "alloc"]
<1>1. act[p] \in Works /\ Agrees(p, act[p]) /\ act[p].pc = "look" /\ events \in 0..MaxEvents
  BY Typed DEF Look, At
<1>2. m \in Mids /\ row[m].uid \in 0..MaxUid
  BY <1>1 DEF Agrees, HoldsNew, Exists, Arriving, IInv, TypeOK
<1>3. a \in Works /\ b \in Works
  BY <1>1, <1>2 DEF Works, Pcs
<1>4. Agrees(p, a) /\ Agrees(p, b)
  BY <1>1 DEF Works, Agrees, HoldsNew, HoldsBox, HoldsTo, HoldsSrc, HoldsTodo, HoldsSnap,
              HoldsGot, HoldsNext, Arriving, Copying, OfAFile
<1>5. \A g \in Names : (Leaving(a, g) => Leaving(act[p], g)) /\ (Leaving(b, g) => Leaving(act[p], g))
  BY <1>1 DEF Works, Leaving, Arriving
<1>6. Now(p, a) \/ Now(p, b)
  BY DEF Look
<1>7. UNCHANGED <<maildir, uids, cache, list, index, spool, events, shown, taken>>
  BY DEF Look
<1> HIDE DEF a, b
<1> QED
  BY <1>1, <1>3, <1>4, <1>5, <1>6, <1>7, ActOnly

LEMMA SelectKeeps ==
  ASSUME IInv, NEW s \in Sessions, Select(s)
  PROVE  IInv'
<1>1. PICK box \in Folders : Now(s, [AtRest EXCEPT !.pc = "scan", !.op = "select", !.box = box])
  BY DEF Select
<1> DEFINE w == [AtRest EXCEPT !.pc = "scan", !.op = "select", !.box = box]
<1>2. s \in Actors /\ events' \in 0..MaxEvents
  BY Typed DEF Select, Actors
<1>3. w \in Works
  BY <1>2, Typed, ZenonT(40) DEF Works, Pcs
<1>4. Agrees(s, w) /\ \A g \in Names : ~Leaving(w, g)
  <2>1. /\ w.pc = "scan" /\ w.box = box /\ w.todo = {} /\ w.next = 0
        /\ \A f \in Names : w.snap[f] = 0 /\ w.got[f] = 0
    BY DEF AtRest, NoUids
  <2> HIDE DEF w
  <2> QED
    BY <2>1 DEF Agrees, HoldsNew, HoldsBox, HoldsTo, HoldsSrc, HoldsTodo, HoldsSnap,
                HoldsGot, HoldsNext, Arriving, Copying, OfAFile, Leaving
<1>5. UNCHANGED <<maildir, uids, cache, list, index, spool, shown, taken>>
  BY DEF Select
<1> HIDE DEF w
<1> QED
  BY <1>1, <1>2, <1>3, <1>4, <1>5, ActOnly DEF w

LEMMA ScanKeeps ==
  ASSUME IInv, NEW s \in Sessions, Scan(s)
  PROVE  IInv'
<1> DEFINE found == {f \in Names : home[f] = act[s].box}
           w == [AtRest EXCEPT !.pc = "resolve", !.snap = cache, !.op = act[s].op,
                               !.box = act[s].box, !.todo = found]
<1>1. /\ s \in Actors /\ s # Sweep /\ act[s] \in Works /\ Agrees(s, act[s])
      /\ act[s].pc = "scan" /\ events \in 0..MaxEvents
  BY Typed DEF Scan, At, Actors
<1>2. act[s].box \in Folders
  BY <1>1 DEF Agrees, HoldsBox
<1>3. cache \in [Names -> 0..MaxUid] /\ \A f \in found : Exists(f)
  BY <1>2 DEF IInv, TypeOK, StoresAgree, OnDisk
<1>4. w \in Works
  BY <1>1, <1>3, Typed, ZenonT(40) DEF Works, Pcs
<1>5. Agrees(s, w) /\ \A g \in Names : ~Leaving(w, g)
  <2>1. /\ w.pc = "resolve" /\ w.box = act[s].box /\ w.todo = found /\ w.next = 0
        /\ w.snap = cache /\ \A f \in Names : w.got[f] = 0
    BY DEF AtRest, NoUids
  <2>2. \A f \in Names : cache[f] # 0 => Stands(cache[f], f)
    BY DEF IInv, StoresAgree
  <2> HIDE DEF w
  <2> QED
    BY <1>1, <1>2, <1>3, <2>1, <2>2
       DEF Agrees, HoldsNew, HoldsBox, HoldsTo, HoldsSrc, HoldsTodo, HoldsSnap,
           HoldsGot, HoldsNext, Arriving, Copying, OfAFile, Leaving
<1>6. /\ UNCHANGED <<maildir, uids, cache, list, index, spool, events, shown, taken>>
      /\ Now(s, w)
  BY DEF Scan
<1> HIDE DEF w
<1> QED
  BY <1>1, <1>4, <1>5, <1>6, ActOnly

LEMMA ResolveHitKeeps ==
  ASSUME IInv, NEW s \in Sessions, ResolveHit(s)
  PROVE  IInv'
<1>1. PICK f \in Names :
        /\ IsNext(s, f) /\ act[s].snap[f] # 0 /\ act[s].snap[f] \notin Seen(s)
        /\ Now(s, [act[s] EXCEPT !.todo = @ \ {f}, !.got[f] = act[s].snap[f]])
  BY DEF ResolveHit
<1> DEFINE w == [act[s] EXCEPT !.todo = @ \ {f}, !.got[f] = act[s].snap[f]]
<1>2. /\ s \in Actors /\ act[s] \in Works /\ Agrees(s, act[s])
      /\ act[s].pc = "resolve" /\ events \in 0..MaxEvents
  BY Typed DEF ResolveHit, At, Actors
<1>3. /\ w \in Works /\ w.pc = "resolve" /\ w.op = act[s].op /\ w.src = act[s].src
      /\ w.box = act[s].box /\ w.next = act[s].next /\ w.snap = act[s].snap
      /\ w.todo = act[s].todo \ {f} /\ w.got = [act[s].got EXCEPT ![f] = act[s].snap[f]]
  BY <1>2 DEF Works
<1>4. \A g \in Names : act[s].got[g] # 0 => act[s].got[g] # act[s].snap[f]
  BY <1>1 DEF Seen, Listed
<1>5. HoldsGot(w)
  BY <1>1, <1>2, <1>3, <1>4 DEF Works, Agrees, HoldsGot, HoldsSnap, HoldsNext
<1>6. HoldsTodo(w)
  BY <1>1, <1>2, <1>3 DEF Works, Agrees, HoldsTodo
<1>7. Agrees(s, w) /\ \A g \in Names : ~Leaving(w, g)
  BY <1>2, <1>3, <1>5, <1>6
     DEF Agrees, HoldsNew, HoldsBox, HoldsTo, HoldsSrc, HoldsSnap, HoldsNext, Arriving, Copying, OfAFile, Leaving
<1>8. /\ UNCHANGED <<maildir, uids, cache, list, index, spool, events, shown, taken>>
      /\ Now(s, w)
  BY <1>1 DEF ResolveHit
<1> HIDE DEF w
<1> QED
  BY <1>2, <1>3, <1>7, <1>8, ActOnly

LEMMA UidNextKeeps ==
  ASSUME IInv, NEW s \in Sessions, UidNext(s)
  PROVE  IInv'
<1> DEFINE w == [act[s] EXCEPT !.pc = "idle", !.next = counter + 1]
<1>1. /\ s \in Actors /\ act[s] \in Works /\ Agrees(s, act[s])
      /\ act[s].pc = "next" /\ events \in 0..MaxEvents /\ counter \in 0..MaxUid
  BY Typed DEF UidNext, At, Actors, IInv, TypeOK
<1>2. \A f \in Names : act[s].got[f] # 0 => act[s].got[f] <= counter
  BY <1>1 DEF Agrees, HoldsGot, Stands, Exists, IInv, StoresAgree, UidsAgree
<1>3. w \in Works
  <2>1. counter + 1 \in 0..(MaxUid + 1)
    BY <1>1
  <2> QED
    BY <1>1, <2>1 DEF Works, Pcs
<1>4. Agrees(s, w) /\ \A g \in Names : ~Leaving(w, g)
  <2>1. /\ w.pc = "idle" /\ w.box = act[s].box /\ w.todo = act[s].todo /\ w.next = counter + 1
        /\ w.snap = act[s].snap /\ w.got = act[s].got /\ act[s].got \in [Names -> 0..MaxUid]
    BY <1>1 DEF Works
  <2>2. HoldsGot(w)
    BY <1>1, <1>2, <2>1 DEF Agrees, HoldsGot
  <2> HIDE DEF w
  <2> QED
    BY <1>1, <2>1, <2>2
       DEF Agrees, HoldsNew, HoldsBox, HoldsTo, HoldsSrc, HoldsTodo, HoldsSnap,
           HoldsNext, Arriving, Copying, OfAFile, Leaving
<1>5. /\ UNCHANGED <<maildir, uids, cache, list, index, spool, events, shown, taken>>
      /\ Now(s, w)
  BY DEF UidNext
<1> HIDE DEF w
<1> QED
  BY <1>1, <1>3, <1>4, <1>5, ActOnly

LEMMA CommandKeeps ==
  ASSUME IInv, NEW s \in Sessions, NEW op \in {"copy", "move", "expunge"},
         NEW to \in Folders \cup {None}, op # "expunge" => to \in Folders, Command(s, op, to)
  PROVE  IInv'
<1> DEFINE pc == IF op = "expunge" THEN "remove" ELSE "copy"
           w(f) == [act[s] EXCEPT !.pc = pc, !.op = op, !.src = f, !.to = to, !.next = 0]
<1>1. PICK f \in Names : act[s].got[f] # 0 /\ Now(s, w(f))
  BY DEF Command, Listed
<1>2. /\ s \in Actors /\ act[s] \in Works /\ Agrees(s, act[s])
      /\ act[s].pc = "idle" /\ events' \in 0..MaxEvents
  BY Typed DEF Command, At, Actors
<1>3. w(f) \in Works
  <2>1. 0 \in 0..(MaxUid + 1) /\ pc \in Pcs
    BY DEF Pcs
  <2> QED
    BY <1>2, <2>1, ZenonT(40) DEF Works
<1>4. Exists(f) /\ act[s].box \in Folders
  BY <1>1, <1>2 DEF Agrees, HoldsGot, HoldsBox, Stands
<1>5. Agrees(s, w(f)) /\ \A g \in Names : ~Leaving(w(f), g)
  <2>1. /\ w(f).pc = pc /\ w(f).src = f /\ w(f).to = to /\ w(f).box = act[s].box
        /\ w(f).todo = act[s].todo /\ w(f).next = 0 /\ w(f).op = op
        /\ w(f).snap = act[s].snap /\ w(f).got = act[s].got
    BY <1>2 DEF Works
  <2>2. pc \in {"remove", "copy"} /\ (pc = "remove" <=> op = "expunge")
    OBVIOUS
  <2> HIDE DEF w, pc
  <2> QED
    BY <1>2, <1>4, <2>1, <2>2
       DEF Agrees, HoldsNew, HoldsBox, HoldsTo, HoldsSrc, HoldsTodo, HoldsSnap,
           HoldsGot, HoldsNext, Arriving, Copying, OfAFile, Leaving
<1>6. UNCHANGED <<maildir, uids, cache, list, index, spool, shown, taken>>
  BY DEF Command
<1> HIDE DEF w
<1> QED
  BY <1>1, <1>2, <1>3, <1>5, <1>6, ActOnly

LEMMA ForgetKeeps ==
  ASSUME IInv, NEW s \in Sessions, Forget(s)
  PROVE  IInv'
<1> DEFINE known == row[Doomed(s)]
           a == [act[s] EXCEPT !.pc = "scan"]
           b(keep) == [act[s] EXCEPT !.pc = "repoint", !.new = keep]
           c == [act[s] EXCEPT !.pc = "decide"]
<1>1. /\ s \in Actors /\ act[s] \in Works /\ Agrees(s, act[s])
      /\ act[s].pc = "forget" /\ events \in 0..MaxEvents
  BY Typed DEF Forget, At, Actors
<1>2. /\ Doomed(s) \in Mids /\ known.file \in Names \cup {None}
      /\ files[Doomed(s)] \subseteq Names
  BY <1>1 DEF Agrees, HoldsSrc, OfAFile, Exists, Doomed, IInv, TypeOK
<1>3. Now(s, a) \/ (\E keep \in Names \cup {None} : Now(s, b(keep))) \/ Now(s, c)
  BY <1>2 DEF Forget, Then
<1>4. a \in Works /\ c \in Works /\ \A keep \in Names \cup {None} : b(keep) \in Works
  BY <1>1, <1>2, ZenonT(40) DEF Works, Pcs
<1>5. Agrees(s, a) /\ Agrees(s, c) /\ \A keep \in Names \cup {None} : Agrees(s, b(keep))
  BY <1>1 DEF Works, Agrees, HoldsNew, HoldsBox, HoldsTo, HoldsSrc, HoldsTodo, HoldsSnap,
              HoldsGot, HoldsNext, Arriving, Copying, OfAFile
<1>6. \A g \in Names : /\ ~Leaving(a, g) /\ ~Leaving(c, g)
                       /\ \A keep \in Names \cup {None} : ~Leaving(b(keep), g)
  BY <1>1 DEF Works, Leaving, Arriving
<1>7. UNCHANGED <<maildir, uids, cache, list, index, spool, events, shown, taken>>
  BY DEF Forget
<1> HIDE DEF a, b, c
<1> QED
  BY <1>1, <1>3, <1>4, <1>5, <1>6, <1>7, ActOnly

LEMMA DecideKeeps ==
  ASSUME IInv, NEW s \in Sessions, Decide(s)
  PROVE  IInv'
<1> DEFINE w(pc) == [act[s] EXCEPT !.pc = pc]
<1>1. /\ s \in Actors /\ act[s] \in Works /\ Agrees(s, act[s])
      /\ act[s].pc = "decide" /\ events \in 0..MaxEvents
  BY Typed DEF Decide, At, Actors
<1>2. PICK pc \in {"dropall", "dropone"} : Now(s, w(pc))
  BY DEF Decide, Then
<1>3. w(pc) \in Works
  BY <1>1 DEF Works, Pcs
<1>4. Agrees(s, w(pc)) /\ \A g \in Names : ~Leaving(w(pc), g)
  BY <1>1 DEF Works, Agrees, HoldsNew, HoldsBox, HoldsTo, HoldsSrc, HoldsTodo, HoldsSnap,
              HoldsGot, HoldsNext, Arriving, Copying, OfAFile, Leaving
<1>5. UNCHANGED <<maildir, uids, cache, list, index, spool, events, shown, taken>>
  BY DEF Decide
<1> HIDE DEF w
<1> QED
  BY <1>1, <1>2, <1>3, <1>4, <1>5, ActOnly

LEMMA SweepScanKeeps ==
  ASSUME IInv, SweepScan
  PROVE  IInv'
<1> DEFINE found == {f \in Names : OnDisk(f)}
           w == [AtRest EXCEPT !.pc = "diff", !.todo = found]
<1>1. Sweep \in Actors /\ Sweep \notin Sessions /\ AtRest \in Works
  BY Typed DEF Actors
<1>2. events' \in 0..MaxEvents
  BY <1>1, Typed DEF SweepScan
<1>3. w \in Works
  BY <1>1 DEF Works, Pcs
<1>4. /\ w.pc = "diff" /\ w.todo = found /\ w.next = 0 /\ w.op = "none"
      /\ \A f \in Names : w.snap[f] = 0 /\ w.got[f] = 0
  BY DEF AtRest, NoUids
<1>5. \A f \in found : Exists(f)
  BY DEF IInv, StoresAgree
<1>6. UNCHANGED <<maildir, uids, cache, list, index, spool, shown, taken>> /\ Now(Sweep, w)
  BY DEF SweepScan
<1> HIDE DEF w
<1>7. Agrees(Sweep, w) /\ \A g \in Names : ~Leaving(w, g)
  BY <1>1, <1>4, <1>5
     DEF Agrees, HoldsNew, HoldsBox, HoldsTo, HoldsSrc, HoldsTodo, HoldsSnap,
         HoldsGot, HoldsNext, Arriving, Leaving
<1> QED
  BY <1>1, <1>2, <1>3, <1>6, <1>7, ActOnly

LEMMA SweepDiffKeeps ==
  ASSUME IInv, SweepDiff
  PROVE  IInv'
<1> DEFINE w(some) == [AtRest EXCEPT !.pc = "heal", !.todo = some, !.snap = list]
<1>1. /\ Sweep \in Actors /\ Sweep \notin Sessions /\ AtRest \in Works /\ act[Sweep] \in Works
      /\ Agrees(Sweep, act[Sweep]) /\ events \in 0..MaxEvents
      /\ list \in [Names -> 0..MaxUid] /\ act[Sweep].todo \in SUBSET Names
  BY Typed DEF Actors, IInv, TypeOK, Works
<1>2. PICK some \in SUBSET act[Sweep].todo : Now(Sweep, w(some))
  BY DEF SweepDiff, Missing
<1>3. w(some) \in Works
  BY <1>1 DEF Works, Pcs
<1>4. /\ w(some).pc = "heal" /\ w(some).todo = some /\ w(some).next = 0 /\ w(some).op = "none"
      /\ w(some).snap = list /\ \A f \in Names : w(some).got[f] = 0
  BY DEF AtRest, NoUids
<1>5. \A f \in some : Exists(f)
  BY <1>1 DEF Agrees, HoldsTodo
<1>6. \A f \in Names : list[f] # 0 => Stands(list[f], f) /\ issued[list[f]] = mid[f]
  BY <1>1 DEF IInv, StoresAgree, Stands, Uids
<1>7. UNCHANGED <<maildir, uids, cache, list, index, spool, events, shown, taken>>
  BY DEF SweepDiff
<1> HIDE DEF w
<1>8. Agrees(Sweep, w(some)) /\ \A g \in Names : ~Leaving(w(some), g)
  BY <1>1, <1>4, <1>5, <1>6
     DEF Agrees, HoldsNew, HoldsBox, HoldsTo, HoldsSrc, HoldsTodo, HoldsSnap,
         HoldsGot, HoldsNext, Arriving, Leaving
<1> QED
  BY <1>1, <1>2, <1>3, <1>7, <1>8, ActOnly

LEMMA SweepDoneKeeps ==
  ASSUME IInv, SweepDone
  PROVE  IInv'
<1>1. Sweep \in Actors /\ AtRest \in Works /\ events \in 0..MaxEvents
  BY Typed DEF Actors
<1>2. /\ AtRest.pc = "idle" /\ AtRest.todo = {} /\ AtRest.next = 0 /\ AtRest.op = "none"
      /\ \A f \in Names : AtRest.snap[f] = 0 /\ AtRest.got[f] = 0
  BY DEF AtRest, NoUids
<1>3. Agrees(Sweep, AtRest) /\ \A g \in Names : ~Leaving(AtRest, g)
  BY <1>2 DEF Agrees, HoldsNew, HoldsBox, HoldsTo, HoldsSrc, HoldsTodo, HoldsSnap,
              HoldsGot, HoldsNext, Arriving, Copying, OfAFile, Leaving
<1>4. /\ UNCHANGED <<maildir, uids, cache, list, index, spool, events, shown, taken>>
      /\ Now(Sweep, AtRest)
  BY DEF SweepDone
<1> QED
  BY <1>1, <1>3, <1>4, ActOnly

-----------------------------------------------------------------------------
(* Giving a uid *)

\* What a uid in hand is the uid of, after the step that gave it.
LEMMA AllocateGives ==
  ASSUME IInv, NEW key \in Keys, Allocate(key)
  PROVE  /\ UidFor(key) \in Uids /\ issued'[UidFor(key)] = key
         /\ counter' \in 0..MaxUid /\ rev' \in [Keys -> 0..MaxUid]
         /\ issued' \in [Uids -> Keys \cup {None}]
         /\ \A u \in Uids : issued[u] # None => issued'[u] = issued[u]
         /\ UidsAgree'
<1>1. /\ counter \in 0..MaxUid /\ rev \in [Keys -> 0..MaxUid]
      /\ issued \in [Uids -> Keys \cup {None}]
      /\ \A u \in Uids : issued[u] # None => u <= counter
      /\ \A k \in Keys : rev[k] # 0 => issued[rev[k]] = k
  BY DEF IInv, TypeOK, StoresAgree, UidsAgree
<1>2. CASE rev[key] # 0
  BY <1>1, <1>2 DEF Allocate, UidFor, uids, UidsAgree, Uids
<1>3. CASE rev[key] = 0
  <2>1. /\ counter < MaxUid /\ counter' = counter + 1
        /\ rev' = [rev EXCEPT ![key] = counter + 1]
        /\ issued' = [issued EXCEPT ![counter + 1] = key] /\ UidFor(key) = counter + 1
    BY <1>3 DEF Allocate, UidFor, NewUid
  <2>2. counter + 1 \in Uids /\ counter + 1 \in 0..MaxUid /\ issued[counter + 1] = None
    BY <1>1, <2>1 DEF Uids
  <2>3. UidsAgree'
    <3>1. ASSUME NEW u \in Uids, issued'[u] # None PROVE u <= counter'
      BY <1>1, <2>1, <2>2, <3>1 DEF Uids
    <3>2. ASSUME NEW k \in Keys, rev'[k] # 0 PROVE issued'[rev'[k]] = k
      <4>1. CASE k = key
        BY <1>1, <2>1, <2>2, <4>1
      <4>2. CASE k # key
        <5>1. rev'[k] = rev[k] /\ issued[rev[k]] = k /\ rev[k] # counter + 1
          BY <1>1, <2>1, <2>2, <3>2, <4>2 DEF Keys
        <5> QED
          BY <1>1, <2>1, <5>1 DEF Uids
      <4> QED
        BY <4>1, <4>2
    <3> QED
      BY <3>1, <3>2 DEF UidsAgree
  <2> QED
    BY <1>1, <2>1, <2>2, <2>3
<1> QED
  BY <1>2, <1>3

LEMMA RegisterGives ==
  ASSUME IInv, NEW key \in Keys, NEW u \in Uids, issued[u] = key, Register(u, key)
  PROVE  /\ counter' \in 0..MaxUid /\ rev' \in [Keys -> 0..MaxUid]
         /\ issued' = issued
         /\ UidsAgree'
<1>1. /\ counter \in 0..MaxUid /\ rev \in [Keys -> 0..MaxUid]
      /\ issued \in [Uids -> Keys \cup {None}]
      /\ \A v \in Uids : issued[v] # None => v <= counter
      /\ \A k \in Keys : rev[k] # 0 => issued[rev[k]] = k
  BY DEF IInv, TypeOK, StoresAgree, UidsAgree
<1>2. /\ rev' = [rev EXCEPT ![key] = u]
      /\ counter' = (IF counter < u THEN u ELSE counter) /\ issued' = issued
  BY DEF Register
<1>3. u \in 0..MaxUid /\ u \in Nat
  BY DEF Uids
<1>4. UidsAgree'
  BY <1>1, <1>2, <1>3 DEF UidsAgree, Uids
<1> QED
  BY <1>1, <1>2, <1>3, <1>4

-----------------------------------------------------------------------------
(* What the stores and an actor still agree on after a step that writes *)

LEMMA StoresStillAgree ==
  ASSUME IInv, Grows, UidsAgree',
         \A f \in Names : cache'[f] = cache[f] \/ Stands(cache[f], f)',
         \A f \in Names : list'[f] = list[f] \/ (Exists(f) /\ issued[list[f]] = mid[f])',
         \A f \in Names : OnDisk(f)' => OnDisk(f) \/ Exists(f)',
         spool' # None => spool' = spool \/ Exists(spool)',
         \A t \in shown' : t \in shown \/ Means(t.uid, t.message)'
  PROVE  StoresAgree'
<1> USE DEF IInv, StoresAgree
<1>1. ASSUME NEW f \in Names, cache'[f] # 0 PROVE Stands(cache[f], f)'
  <2>1. CASE cache'[f] = cache[f]
    BY <1>1, <2>1, StandsStays DEF Stands
  <2> QED
    BY <2>1
<1>2. ASSUME NEW f \in Names, list'[f] # 0 PROVE (Exists(f) /\ issued[list[f]] = mid[f])'
  <2>1. CASE list'[f] = list[f]
    <3>1. Stands(list[f], f)
      BY <1>2, <2>1 DEF Stands, TypeOK, Uids
    <3> QED
      BY <1>2, <2>1, <3>1, StandsStays, ExistsStays
  <2> QED
    BY <1>2, <2>1
<1>3. ASSUME NEW f \in Names, OnDisk(f)' PROVE Exists(f)'
  BY <1>3, ExistsStays
<1>4. spool' # None => Exists(spool)'
  BY ExistsStays DEF Exists
<1>5. ASSUME NEW t \in shown' PROVE Means(t.uid, t.message)'
  <2>1. CASE t \in shown
    <3>1. t.uid \in Uids /\ t.message \in Mids /\ Means(t.uid, t.message)
      BY <2>1 DEF TypeOK
    <3> QED
      BY <3>1, MeansStays
  <2> QED
    BY <2>1
<1> QED
  BY <1>1, <1>2, <1>3, <1>4, <1>5

LEMMA StillAgrees ==
  ASSUME TypeOK, Grows, NEW p \in Actors, Agrees(p, act[p]), act[p].pc # "idle",
         act'[p].box = act[p].box, act'[p].to = act[p].to, act'[p].src = act[p].src,
         act'[p].todo = act[p].todo, act'[p].snap = act[p].snap, act'[p].got = act[p].got,
         act'[p].next = act[p].next,
         act'[p].pc \in Arriving => Exists(act[p].new)',
         act'[p].pc \in Copying => act[p].pc \in Copying,
         act'[p].pc \in OfAFile => act[p].pc \in OfAFile
  PROVE  Agrees(p, act[p])'
<1>1. HoldsNew(act[p])' /\ HoldsSrc(p, act[p])' /\ HoldsTodo(act[p])'
  BY ExistsStays DEF Agrees, HoldsNew, HoldsSrc, HoldsTodo
<1>2. HoldsSnap(p, act[p])' /\ HoldsGot(act[p])'
  BY StandsStays, ExistsStays DEF Agrees, HoldsSnap, HoldsGot, Stands
<1>3. HoldsBox(p, act[p])' /\ HoldsTo(p, act[p])' /\ HoldsNext(act[p])'
  BY DEF Agrees, HoldsBox, HoldsTo, HoldsNext
<1> QED
  BY <1>1, <1>2, <1>3 DEF Agrees

LEMMA AgreesAfresh ==
  ASSUME NEW p \in Actors, act'[p].todo = {}, act'[p].next = 0,
         \A f \in Names : act'[p].snap[f] = 0 /\ act'[p].got[f] = 0,
         act'[p].pc \in Arriving => Exists(act[p].new)',
         p \in Sessions => act'[p].pc = "idle"
  PROVE  Agrees(p, act[p])'
BY DEF Agrees, HoldsNew, HoldsBox, HoldsTo, HoldsSrc, HoldsTodo, HoldsSnap, HoldsGot,
       HoldsNext, Arriving, Copying, OfAFile

-----------------------------------------------------------------------------
(* The steps that write *)

LEMMA ArriveKeeps ==
  ASSUME IInv, Arrive
  PROVE  IInv'
<1>1. PICK f \in Names, m \in Mids :
        /\ mid[f] = None /\ mid' = [mid EXCEPT ![f] = m] /\ home' = [home EXCEPT ![f] = Inbox]
        /\ spool' = f /\ Now(Drain, [AtRest EXCEPT !.pc = "look", !.new = f])
  BY DEF Arrive, Fresh
<1> DEFINE w == [AtRest EXCEPT !.pc = "look", !.new = f]
<1>2. /\ Drain \in Actors /\ Drain \notin Sessions /\ f \in Names /\ mid[f] = None
      /\ UNCHANGED <<uids, cache, list, index, events, shown, taken>>
  BY <1>1 DEF Arrive, Actors
<1>3. w \in Works
  <2>1. AtRest \in Works /\ f \in Names \cup {None} /\ "look" \in Pcs
    BY <1>2, Typed DEF Pcs
  <2> QED
    BY <2>1 DEF Works
<1>4. /\ w.pc = "look" /\ w.new = f /\ w.todo = {} /\ w.next = 0
      /\ \A g \in Names : w.snap[g] = 0 /\ w.got[g] = 0
  BY DEF AtRest, NoUids
<1> HIDE DEF w
<1>5. /\ act' \in [Actors -> Works] /\ act'[Drain] = w
      /\ \A q \in Actors \ {Drain} : act'[q] = act[q]
  BY <1>1, <1>2, <1>3, ActorMoves DEF IInv, TypeOK, w
<1>6. TypeOK'
  BY <1>1, <1>2, <1>5 DEF IInv, TypeOK, uids, index
<1>7. Grows /\ mid'[f] \in Mids /\ \A g \in Names \ {f} : mid'[g] = mid[g] /\ home'[g] = home[g]
  BY <1>1, <1>2 DEF Grows, uids, IInv, TypeOK
<1>8. Exists(f)'
  BY <1>2, <1>7 DEF Exists
<1>9. StoresAgree'
  <2>1. UidsAgree'
    BY <1>2 DEF IInv, StoresAgree, UidsAgree, uids
  <2>2. \A g \in Names : OnDisk(g)' => OnDisk(g) \/ Exists(g)'
    BY <1>7, <1>8 DEF OnDisk
  <2> QED
    BY <1>1, <1>2, <1>7, <1>8, <2>1, <2>2, StoresStillAgree
<1>10. \A q \in Actors : Agrees(q, act[q])'
  <2>1. Agrees(Drain, act[Drain])'
    BY <1>2, <1>4, <1>5, <1>8, AgreesAfresh
  <2> QED
    BY <1>2, <1>5, <1>7, <2>1, AllAgree
<1>11. Safe'
  <2>1. ASSUME NEW g \in Names, Kept(g) PROVE Kept(g)' /\ mid'[g] = mid[g]
    BY <1>1, <1>2, <1>5, <1>7, <2>1 DEF Kept, OnDisk, Actors, IInv, StoresAgree, Exists
  <2>2. Kept(f)'
    <3>1. OnDisk(f)'
      BY <1>1, <1>2 DEF OnDisk, IInv, TypeOK
    <3>2. ASSUME NEW s \in Sessions PROVE ~Leaving(act[s], f)'
      <4>1. act'[s] = act[s] /\ Agrees(s, act[s])
        BY <1>2, <1>5 DEF Actors, IInv
      <4> QED
        BY <1>2, <4>1 DEF Leaving, Agrees, HoldsSrc, OfAFile, Copying, Exists
    <3> QED
      BY <3>1, <3>2 DEF Kept
  <2> QED
    BY <1>2, <1>7, <2>1, <2>2 DEF IInv, Safe, Exists
<1> QED
  BY <1>6, <1>9, <1>10, <1>11 DEF IInv

LEMMA RedeliverKeeps ==
  ASSUME IInv, Redeliver
  PROVE  IInv'
<1> DEFINE w == [AtRest EXCEPT !.pc = "look", !.new = spool]
<1>1. /\ Drain \in Actors /\ Drain \notin Sessions /\ spool \in Names /\ Exists(spool)
      /\ home' = [home EXCEPT ![spool] = Inbox] /\ Now(Drain, w)
      /\ UNCHANGED <<mid, uids, cache, list, index, spool, events, shown, taken>>
  BY DEF Redeliver, Actors, IInv, TypeOK, StoresAgree
<1>2. w \in Works
  BY <1>1, Typed, ZenonT(40) DEF Works, Pcs
<1>3. /\ w.pc = "look" /\ w.new = spool /\ w.todo = {} /\ w.next = 0
      /\ \A g \in Names : w.snap[g] = 0 /\ w.got[g] = 0
  BY DEF AtRest, NoUids
<1> HIDE DEF w
<1>4. /\ act' \in [Actors -> Works] /\ act'[Drain] = w
      /\ \A q \in Actors \ {Drain} : act'[q] = act[q]
  BY <1>1, <1>2, ActorMoves DEF IInv, TypeOK
<1>5. TypeOK'
  BY <1>1, <1>4 DEF IInv, TypeOK, uids, index
<1>6. Grows
  BY <1>1 DEF Grows, uids
<1>7. Exists(spool)' /\ \A g \in Names : OnDisk(g)' => OnDisk(g) \/ Exists(g)'
  BY <1>1, <1>5 DEF Exists, OnDisk, IInv, TypeOK
<1>8. StoresAgree'
  <2>1. UidsAgree'
    BY <1>1 DEF IInv, StoresAgree, UidsAgree, uids
  <2> QED
    BY <1>1, <1>6, <1>7, <2>1, StoresStillAgree
<1>9. \A q \in Actors : Agrees(q, act[q])'
  <2>1. Agrees(Drain, act[Drain])'
    BY <1>1, <1>3, <1>4, <1>7, AgreesAfresh DEF Exists
  <2> QED
    BY <1>1, <1>4, <1>6, <2>1, AllAgree
<1>10. Safe'
  <2>1. \A g \in Names : OnDisk(g) => OnDisk(g)'
    BY <1>1 DEF OnDisk, IInv, TypeOK
  <2> QED
    BY <1>1, <1>4, <2>1, SafeStays
<1> QED
  BY <1>5, <1>8, <1>9, <1>10 DEF IInv

LEMMA AssignUidKeeps ==
  ASSUME IInv, NEW p \in Actors, AssignUid(p)
  PROVE  IInv'
<1> DEFINE f == act[p].new
           uid == UidFor(mid[f])
           w == [act[p] EXCEPT !.pc = "row", !.uid = uid]
<1>1. /\ act[p] \in Works /\ Agrees(p, act[p]) /\ act[p].pc = "alloc"
      /\ Allocate(mid[f]) /\ list' = [list EXCEPT ![f] = uid] /\ Now(p, w)
      /\ UNCHANGED <<maildir, cache, index, spool, events, shown, taken>>
  BY Typed DEF AssignUid, At, GiveAndNote
<1>2. Exists(f) /\ f \in Names /\ mid[f] \in Mids /\ mid[f] \in Keys
  BY <1>1 DEF Agrees, HoldsNew, Arriving, Exists, Keys
<1>3. /\ uid \in Uids /\ issued'[uid] = mid[f]
      /\ counter' \in 0..MaxUid /\ rev' \in [Keys -> 0..MaxUid]
      /\ issued' \in [Uids -> Keys \cup {None}]
      /\ \A u \in Uids : issued[u] # None => issued'[u] = issued[u]
      /\ UidsAgree'
  BY <1>1, <1>2, AllocateGives
<1> HIDE DEF uid
<1>4. uid \in 0..MaxUid
  BY <1>3 DEF Uids
<1>5. w \in Works
  BY <1>1, <1>4 DEF Works, Pcs
<1>6. /\ w.pc = "row" /\ w.new = f /\ w.box = act[p].box /\ w.to = act[p].to
      /\ w.src = act[p].src /\ w.todo = act[p].todo /\ w.snap = act[p].snap
      /\ w.got = act[p].got /\ w.next = act[p].next /\ w.op = act[p].op
  BY <1>1 DEF Works
<1> HIDE DEF w
<1>7. /\ act' \in [Actors -> Works] /\ act'[p] = w
      /\ \A q \in Actors \ {p} : act'[q] = act[q]
  BY <1>1, <1>5, ActorMoves DEF IInv, TypeOK
<1>8. TypeOK'
  BY <1>1, <1>2, <1>3, <1>4, <1>7 DEF IInv, TypeOK, maildir, index
<1>9. Grows
  BY <1>1, <1>3 DEF Grows, maildir
<1>10. StoresAgree'
  <2>1. \A g \in Names : list'[g] = list[g] \/ (Exists(g) /\ issued[list[g]] = mid[g])'
    BY <1>1, <1>2, <1>3 DEF IInv, TypeOK, Exists, maildir
  <2>2. \A g \in Names : OnDisk(g)' => OnDisk(g)
    BY <1>1 DEF OnDisk, maildir
  <2> QED
    BY <1>1, <1>3, <1>9, <2>1, <2>2, StoresStillAgree
<1>11. Agrees(p, act[p])'
  <2>1. Exists(act[p].new)'
    BY <1>1, <1>2, <1>6, <1>7 DEF Exists, maildir
  <2> QED
    BY <1>1, <1>6, <1>7, <1>9, <2>1, StillAgrees DEF IInv, Arriving, Copying, OfAFile
<1>12. Safe'
  BY <1>1, <1>6, <1>7, SafeStays DEF OnDisk, maildir, Leaving, Arriving
<1> QED
  BY <1>7, <1>8, <1>9, <1>10, <1>11, <1>12, AllAgree DEF IInv

LEMMA WriteRowKeeps ==
  ASSUME IInv, NEW p \in Actors, WriteRow(p)
  PROVE  IInv'
<1> DEFINE f == act[p].new
           a == [act[p] EXCEPT !.pc = "heal", !.new = None, !.uid = 0]
           b == [act[p] EXCEPT !.pc = "uid", !.uid = 0]
<1>1. /\ act[p] \in Works /\ Agrees(p, act[p]) /\ act[p].pc = "row" /\ AtRest \in Works
      /\ Upsert(mid[f], f, act[p].uid)
      /\ spool' \in {spool, None}
      /\ UNCHANGED <<maildir, uids, cache, list, events, shown, taken>>
  BY Typed DEF WriteRow, At
<1>2. \/ p = Drain /\ Now(p, AtRest)
      \/ p = Sweep /\ Now(p, a)
      \/ p \in Sessions /\ Now(p, b)
  BY DEF WriteRow, Actors
<1>3. f \in Names /\ mid[f] \in Mids /\ Exists(f)
  BY <1>1 DEF Agrees, HoldsNew, Arriving, Exists
<1>4. a \in Works /\ b \in Works
  <2>1. "heal" \in Pcs /\ "uid" \in Pcs /\ 0 \in 0..MaxUid
    BY DEF Pcs
  <2> QED
    BY <1>1, <2>1 DEF Works
<1>5. /\ a.pc = "heal" /\ b.pc = "uid" /\ b.new = f /\ b.op = act[p].op
      /\ \A v \in {a, b} : /\ v.box = act[p].box /\ v.to = act[p].to
           /\ v.src = act[p].src /\ v.todo = act[p].todo /\ v.snap = act[p].snap
           /\ v.got = act[p].got /\ v.next = act[p].next
  BY <1>1 DEF Works
<1>6. /\ AtRest.pc = "idle" /\ AtRest.todo = {} /\ AtRest.next = 0
      /\ \A g \in Names : AtRest.snap[g] = 0 /\ AtRest.got[g] = 0
  BY DEF AtRest, NoUids
<1> HIDE DEF a, b
<1>7. /\ act' \in [Actors -> Works]
      /\ \A q \in Actors \ {p} : act'[q] = act[q]
      /\ \/ p = Drain /\ act'[p] = AtRest
         \/ p = Sweep /\ act'[p] = a
         \/ p \in Sessions /\ act'[p] = b
  BY <1>1, <1>2, <1>4, ActorMoves DEF IInv, TypeOK
<1>8. TypeOK'
  <2>1. act[p].uid \in 0..MaxUid
    BY <1>1 DEF Works
  <2>2. /\ row' \in [Mids -> [file : Names \cup {None}, uid : 0..MaxUid]]
        /\ files' \in [Mids -> SUBSET Names] /\ conv' \subseteq Mids
    BY <1>1, <1>3, <2>1 DEF Upsert, IInv, TypeOK
  <2> QED
    BY <1>1, <1>7, <2>2 DEF IInv, TypeOK, maildir, uids
<1>9. Grows
  BY <1>1 DEF Grows, maildir, uids
<1>10. StoresAgree'
  <2>1. UidsAgree'
    BY <1>1 DEF IInv, StoresAgree, UidsAgree, uids
  <2>2. \A g \in Names : OnDisk(g)' => OnDisk(g)
    BY <1>1 DEF OnDisk, maildir
  <2> QED
    BY <1>1, <1>9, <2>1, <2>2, StoresStillAgree
<1>11. Agrees(p, act[p])'
  <2>1. CASE p = Drain
    <3>1. p \notin Sessions /\ p # Sweep
      BY <2>1
    <3> QED
      BY <1>6, <1>7, <3>1, AgreesAfresh DEF Arriving
  <2>2. CASE p # Drain
    <3>1. act'[p].pc \in Arriving => Exists(act[p].new)'
      BY <1>3, <1>5, <1>7, <1>9, <2>2, ExistsStays DEF IInv, Arriving
    <3> QED
      BY <1>1, <1>5, <1>7, <1>9, <2>2, <3>1, StillAgrees DEF IInv, Arriving, Copying, OfAFile
  <2> QED
    BY <2>1, <2>2
<1>12. Safe'
  <2>1. p \in Sessions => \A g \in Names : Leaving(act'[p], g) => Leaving(act[p], g)
    BY <1>1, <1>5, <1>7 DEF Leaving, Arriving
  <2> QED
    BY <1>1, <1>7, <2>1, SafeStays DEF OnDisk, maildir
<1> QED
  BY <1>7, <1>8, <1>9, <1>10, <1>11, <1>12, AllAgree DEF IInv

LEMMA ResolveMissKeeps ==
  ASSUME IInv, NEW s \in Sessions, ResolveMiss(s)
  PROVE  IInv'
<1>0. PICK own \in Keys : \E f \in Names :
        LET key == IF UidFor(own) \in Seen(s) THEN f ELSE own IN
        /\ own \in KeysOf(f) /\ IsNext(s, f) /\ Allocate(key)
        /\ cache' = [cache EXCEPT ![f] = UidFor(key)]
        /\ Now(s, [act[s] EXCEPT !.todo = @ \ {f}, !.got[f] = UidFor(key)])
  BY DEF ResolveMiss
<1> DEFINE key(f) == IF UidFor(own) \in Seen(s) THEN f ELSE own
           w(f) == [act[s] EXCEPT !.todo = @ \ {f}, !.got[f] = UidFor(key(f))]
<1>1. PICK f \in Names :
        /\ own \in KeysOf(f) /\ IsNext(s, f) /\ Allocate(key(f)) /\ cache' = [cache EXCEPT ![f] = UidFor(key(f))]
        /\ Now(s, w(f))
  BY <1>0
<1> DEFINE uid == UidFor(key(f))
<1>2. /\ s \in Actors /\ s # Sweep /\ act[s] \in Works /\ Agrees(s, act[s])
      /\ act[s].pc = "resolve" /\ f \in act[s].todo
      /\ UNCHANGED <<maildir, list, index, spool, events, shown, taken>>
  BY <1>1, Typed DEF ResolveMiss, At, Actors, IsNext
<1>3. Exists(f) /\ act[s].got[f] = 0 /\ key(f) \in {f, mid[f]} /\ key(f) \in Keys
  BY <1>1, <1>2 DEF Agrees, HoldsTodo, KeysOf, Keys, Exists
<1>4. /\ uid \in Uids /\ issued'[uid] = key(f)
      /\ counter' \in 0..MaxUid /\ rev' \in [Keys -> 0..MaxUid]
      /\ issued' \in [Uids -> Keys \cup {None}]
      /\ \A u \in Uids : issued[u] # None => issued'[u] = issued[u]
      /\ UidsAgree'
  BY <1>1, <1>3, AllocateGives
<1>5. \A g \in Names : act[s].got[g] # uid
  <2>1. SUFFICES ASSUME NEW g \in Names, act[s].got[g] = uid PROVE FALSE
    OBVIOUS
  <2>2. uid # 0 /\ uid \in Seen(s)
    BY <1>4, <2>1 DEF Uids, Seen, Listed
  <2>3. key(f) = f
    BY <2>2
  <2>4. Stands(uid, g)
    BY <1>2, <2>1, <2>2 DEF Agrees, HoldsGot
  <2>5. issued[uid] \in {mid[g], g} /\ issued[uid] = f /\ mid[g] \in Mids
    BY <1>4, <2>3, <2>4 DEF Stands, Exists
  <2> QED
    BY <1>3, <2>1, <2>2, <2>5
<1> HIDE DEF uid, key
<1>6. uid \in 0..MaxUid /\ uid # 0
  BY <1>4 DEF Uids
<1>7. /\ w(f) \in Works /\ w(f).pc = "resolve" /\ w(f).box = act[s].box
      /\ w(f).to = act[s].to /\ w(f).src = act[s].src /\ w(f).todo = act[s].todo \ {f}
      /\ w(f).snap = act[s].snap /\ w(f).got = [act[s].got EXCEPT ![f] = uid]
      /\ w(f).next = act[s].next /\ act[s].got \in [Names -> 0..MaxUid]
  BY <1>2, <1>6 DEF Works, uid
<1> HIDE DEF w
<1>8. /\ act' \in [Actors -> Works] /\ act'[s] = w(f)
      /\ \A q \in Actors \ {s} : act'[q] = act[q]
  BY <1>1, <1>2, <1>7, ActorMoves DEF IInv, TypeOK
<1>9. TypeOK'
  BY <1>1, <1>2, <1>4, <1>6, <1>8 DEF IInv, TypeOK, maildir, index, uid
<1>10. Grows
  BY <1>2, <1>4 DEF Grows, maildir
<1>11. uid \in Uids /\ Exists(f)' /\ (issued'[uid] = mid'[f] \/ issued'[uid] = f)
  BY <1>2, <1>3, <1>4 DEF Exists, maildir
<1>12. StoresAgree'
  <2>1. \A g \in Names : cache'[g] = cache[g] \/ Stands(cache[g], g)'
    <3>1. cache'[f] = uid /\ \A g \in Names \ {f} : cache'[g] = cache[g]
      BY <1>1 DEF IInv, TypeOK, uid
    <3> QED
      BY <1>11, <3>1 DEF Stands
  <2>2. \A g \in Names : OnDisk(g)' => OnDisk(g)
    BY <1>2 DEF OnDisk, maildir
  <2> QED
    BY <1>2, <1>4, <1>10, <2>1, <2>2, StoresStillAgree
<1>13. Agrees(s, act[s])'
  <2>1. HoldsGot(act[s])'
    <3>1. act[s].next = 0
      BY <1>2 DEF Agrees, HoldsNext
    <3>2. ASSUME NEW g \in Names, g # f, act[s].got[g] # 0
          PROVE  Stands(act[s].got[g], g)' /\ act'[s].got[g] = act[s].got[g]
      BY <1>2, <1>7, <1>8, <1>10, <3>2, StandsStays DEF Agrees, HoldsGot, IInv, Stands
    <3>3. Stands(act[s].got[f], f)' /\ act'[s].got[f] = uid
      BY <1>7, <1>8, <1>11 DEF Stands
    <3>4. \A g \in Names : g # f => act'[s].got[g] = act[s].got[g]
      BY <1>7, <1>8
    <3>5. ASSUME NEW g \in Names, act'[s].got[g] # 0 PROVE Stands(act[s].got[g], g)'
      <4>1. CASE g = f
        BY <3>3, <4>1
      <4>2. CASE g # f
        BY <3>2, <3>4, <3>5, <4>2 DEF Stands
      <4> QED
        BY <4>1, <4>2
    <3>6. ASSUME NEW g \in Names, NEW h \in Names, act'[s].got[g] # 0,
                 act'[s].got[h] = act'[s].got[g]
          PROVE  h = g
      BY <1>2, <1>5, <3>3, <3>4, <3>6 DEF Agrees, HoldsGot
    <3> QED
      BY <1>7, <1>8, <3>1, <3>5, <3>6 DEF HoldsGot
  <2>2. HoldsTodo(act[s])'
    BY <1>2, <1>7, <1>8, <1>10, ExistsStays DEF Agrees, HoldsTodo, IInv, Works
  <2>3. HoldsSnap(s, act[s])'
    BY <1>2, <1>7, <1>8, <1>10, StandsStays DEF Agrees, HoldsSnap, IInv, Stands
  <2>4. /\ HoldsNew(act[s])' /\ HoldsBox(s, act[s])' /\ HoldsTo(s, act[s])'
        /\ HoldsSrc(s, act[s])' /\ HoldsNext(act[s])'
    BY <1>2, <1>7, <1>8 DEF Agrees, HoldsNew, HoldsBox, HoldsTo, HoldsSrc, HoldsNext,
                            Arriving, Copying, OfAFile
  <2> QED
    BY <2>1, <2>2, <2>3, <2>4 DEF Agrees
<1>14. Safe'
  BY <1>2, <1>7, <1>8, SafeStays DEF OnDisk, maildir, Leaving, Arriving
<1> QED
  BY <1>2, <1>8, <1>9, <1>10, <1>12, <1>13, <1>14, AllAgree DEF IInv

LEMMA ListingDoneKeeps ==
  ASSUME IInv, NEW s \in Sessions, ListingDone(s)
  PROVE  IInv'
<1> DEFINE w(pc) == [act[s] EXCEPT !.pc = pc, !.op = "none", !.snap = NoUids]
           told == {Saying(act[s].box, act[s].got[f], f) : f \in Listed(s)}
<1>1. PICK pc \in {"next", "idle"} : Now(s, w(pc))
  BY DEF ListingDone
<1>2. /\ s \in Actors /\ s # Sweep /\ act[s] \in Works /\ Agrees(s, act[s])
      /\ act[s].pc = "resolve" /\ shown' = shown \cup told
      /\ UNCHANGED <<maildir, uids, cache, list, index, spool, events, taken>>
  BY Typed DEF ListingDone, At, Actors
<1>3. NoUids \in [Names -> 0..MaxUid] /\ pc \in Pcs /\ \A f \in Names : NoUids[f] = 0
  BY DEF NoUids, Pcs
<1>4. /\ w(pc) \in Works /\ w(pc).pc = pc /\ w(pc).box = act[s].box /\ w(pc).op = "none"
      /\ w(pc).todo = act[s].todo /\ w(pc).snap = NoUids /\ w(pc).got = act[s].got
      /\ w(pc).next = act[s].next
  BY <1>2, <1>3 DEF Works
<1> HIDE DEF w
<1>5. /\ act' \in [Actors -> Works] /\ act'[s] = w(pc)
      /\ \A q \in Actors \ {s} : act'[q] = act[q]
  BY <1>1, <1>2, <1>4, ActorMoves DEF IInv, TypeOK
<1>6. Grows
  BY <1>2 DEF Grows, maildir, uids
<1>7. ASSUME NEW t \in told
      PROVE  t \in [box : Folders, uid : Uids, message : Mids] /\ Means(t.uid, t.message)'
  <2>1. PICK f \in Names : /\ act[s].got[f] # 0
                           /\ t = [box |-> act[s].box, uid |-> act[s].got[f], message |-> mid[f]]
    BY <1>7 DEF Listed, Saying
  <2>2. Stands(act[s].got[f], f) /\ act[s].box \in Folders
    BY <1>2, <2>1 DEF Agrees, HoldsGot, HoldsBox
  <2> QED
    BY <1>2, <2>1, <2>2 DEF Stands, Means, Exists, maildir, uids
<1>8. TypeOK'
  BY <1>2, <1>5, <1>7 DEF IInv, TypeOK, maildir, uids, index
<1>9. StoresAgree'
  <2>1. UidsAgree'
    BY <1>2 DEF IInv, StoresAgree, UidsAgree, uids
  <2>2. \A g \in Names : OnDisk(g)' => OnDisk(g)
    BY <1>2 DEF OnDisk, maildir
  <2> QED
    BY <1>2, <1>6, <1>7, <2>1, <2>2, StoresStillAgree
<1>10. Agrees(s, act[s])'
  <2>1. HoldsGot(act[s])' /\ HoldsTodo(act[s])'
    BY <1>2, <1>4, <1>5, <1>6, StandsStays, ExistsStays
       DEF Agrees, HoldsGot, HoldsTodo, HoldsNext, IInv, Stands
  <2> QED
    BY <1>2, <1>3, <1>4, <1>5, <2>1
       DEF Agrees, HoldsNew, HoldsBox, HoldsTo, HoldsSrc, HoldsSnap, HoldsNext,
           Arriving, Copying, OfAFile
<1>11. Safe'
  BY <1>2, <1>4, <1>5, SafeStays DEF OnDisk, maildir, Leaving, Arriving
<1> QED
  BY <1>2, <1>5, <1>6, <1>8, <1>9, <1>10, <1>11, AllAgree DEF IInv

LEMMA WriteCopyKeeps ==
  ASSUME IInv, NEW s \in Sessions, WriteCopy(s)
  PROVE  IInv'
<1> DEFINE w(g) == [act[s] EXCEPT !.pc = "look", !.new = g]
           src == act[s].src
<1>1. PICK g \in Names :
        /\ mid[g] = None /\ mid' = [mid EXCEPT ![g] = mid[src]]
        /\ home' = [home EXCEPT ![g] = act[s].to] /\ Now(s, w(g))
  BY DEF WriteCopy, Fresh
<1>2. /\ s \in Actors /\ act[s] \in Works /\ Agrees(s, act[s]) /\ act[s].pc = "copy"
      /\ UNCHANGED <<uids, cache, list, index, spool, events, shown, taken>>
  BY Typed DEF WriteCopy, At, Actors
<1>3. Exists(src) /\ src # g /\ act[s].to \in Folders
  BY <1>1, <1>2 DEF Agrees, HoldsSrc, HoldsTo, OfAFile, Copying, Exists
<1>4. /\ w(g) \in Works /\ w(g).pc = "look" /\ w(g).new = g /\ w(g).box = act[s].box
      /\ w(g).to = act[s].to /\ w(g).src = src /\ w(g).todo = act[s].todo
      /\ w(g).snap = act[s].snap /\ w(g).got = act[s].got /\ w(g).next = act[s].next
      /\ w(g).op = act[s].op
  BY <1>2 DEF Works, Pcs
<1> HIDE DEF w
<1>5. /\ act' \in [Actors -> Works] /\ act'[s] = w(g)
      /\ \A q \in Actors \ {s} : act'[q] = act[q]
  BY <1>1, <1>2, <1>4, ActorMoves DEF IInv, TypeOK
<1>6. mid[src] \in Mids
  BY <1>3 DEF Exists
<1>7. TypeOK'
  BY <1>1, <1>2, <1>3, <1>5, <1>6 DEF IInv, TypeOK, uids, index
<1>8. /\ Grows /\ mid'[g] = mid[src] /\ home'[g] = act[s].to
      /\ \A h \in Names \ {g} : mid'[h] = mid[h] /\ home'[h] = home[h]
  BY <1>1, <1>2 DEF Grows, uids, IInv, TypeOK
<1>9. Exists(g)'
  BY <1>6, <1>8 DEF Exists
<1>10. StoresAgree'
  <2>1. UidsAgree'
    BY <1>2 DEF IInv, StoresAgree, UidsAgree, uids
  <2>2. \A h \in Names : OnDisk(h)' => OnDisk(h) \/ Exists(h)'
    BY <1>8, <1>9 DEF OnDisk
  <2> QED
    BY <1>2, <1>8, <2>1, <2>2, StoresStillAgree
<1>11. Agrees(s, act[s])'
  <2>1. Exists(act[s].new)'
    BY <1>4, <1>5, <1>9 DEF Exists
  <2> QED
    BY <1>2, <1>4, <1>5, <1>8, <2>1, StillAgrees DEF IInv, Arriving, Copying, OfAFile
<1>12. Safe'
  <2>1. ASSUME NEW h \in Names, Kept(h), h # src PROVE Kept(h)' /\ mid'[h] = mid[h]
    BY <1>3, <1>4, <1>5, <1>8, <1>1, <2>1 DEF Kept, OnDisk, Actors, IInv, StoresAgree, Exists, Leaving
  <2>2. Kept(g)'
    <3>1. OnDisk(g)'
      BY <1>3, <1>8 DEF OnDisk
    <3>2. ASSUME NEW q \in Sessions PROVE ~Leaving(act[q], g)'
      <4>1. CASE q = s
        BY <1>3, <1>4, <1>5, <4>1 DEF Leaving
      <4>2. CASE q # s
        <5>1. act'[q] = act[q] /\ Agrees(q, act[q])
          BY <1>5, <4>2 DEF Actors, IInv
        <5> QED
          BY <1>1, <5>1 DEF Leaving, Agrees, HoldsSrc, OfAFile, Copying, Exists
      <4> QED
        BY <4>1, <4>2
    <3> QED
      BY <3>1, <3>2 DEF Kept
  <2>3. ASSUME NEW f \in Names, Exists(f)', mid'[f] \notin taken'
        PROVE  \E h \in Names : mid'[h] = mid'[f] /\ Kept(h)'
    <3>1. CASE mid'[f] = mid[src]
      BY <1>8, <2>2, <3>1
    <3>2. CASE mid'[f] # mid[src]
      <4>1. f # g /\ mid'[f] = mid[f] /\ Exists(f)
        BY <1>8, <2>3, <3>2 DEF Exists
      <4>2. PICK h \in Names : mid[h] = mid[f] /\ Kept(h)
        BY <1>2, <2>3, <4>1 DEF IInv, Safe
      <4> QED
        BY <2>1, <3>2, <4>1, <4>2
    <3> QED
      BY <3>1, <3>2
  <2> QED
    BY <2>3 DEF Safe
<1> QED
  BY <1>2, <1>5, <1>7, <1>8, <1>10, <1>11, <1>12, AllAgree DEF IInv

LEMMA NewFileUidKeeps ==
  ASSUME IInv, NEW s \in Sessions, NewFileUid(s)
  PROVE  IInv'
<1> DEFINE g == act[s].new
<1>0. PICK key \in KeysOf(g) :
        /\ Allocate(key) /\ cache' = [cache EXCEPT ![g] = UidFor(key)]
        /\ shown' = shown \cup {Saying(act[s].to, UidFor(key), g)}
  BY DEF NewFileUid
<1> DEFINE uid == UidFor(key)
           w(pc) == [act[s] EXCEPT !.pc = pc]
           told == Saying(act[s].to, uid, g)
<1>1. PICK pc \in {"remove", "scan"} : Now(s, w(pc)) /\ (pc = "remove" <=> act[s].op = "move")
  BY DEF NewFileUid, Then
<1>2. /\ s \in Actors /\ s # Sweep /\ act[s] \in Works /\ Agrees(s, act[s]) /\ act[s].pc = "uid"
      /\ Allocate(key) /\ cache' = [cache EXCEPT ![g] = uid] /\ shown' = shown \cup {told}
      /\ UNCHANGED <<maildir, list, index, spool, events, taken>>
  BY <1>0, Typed DEF NewFileUid, At, Actors
<1>3. Exists(g) /\ key \in {g, mid[g]} /\ key \in Keys /\ act[s].to \in Folders
  BY <1>0, <1>2 DEF Agrees, HoldsNew, HoldsTo, Arriving, Copying, KeysOf, Keys, Exists
<1>4. /\ uid \in Uids /\ issued'[uid] = key
      /\ counter' \in 0..MaxUid /\ rev' \in [Keys -> 0..MaxUid]
      /\ issued' \in [Uids -> Keys \cup {None}]
      /\ \A u \in Uids : issued[u] # None => issued'[u] = issued[u]
      /\ UidsAgree'
  BY <1>2, <1>3, AllocateGives
<1> HIDE DEF uid
<1>5. uid \in 0..MaxUid
  BY <1>4 DEF Uids
<1>6. /\ w(pc) \in Works /\ w(pc).pc = pc /\ w(pc).box = act[s].box /\ w(pc).op = act[s].op
      /\ w(pc).to = act[s].to /\ w(pc).src = act[s].src /\ w(pc).todo = act[s].todo
      /\ w(pc).snap = act[s].snap /\ w(pc).got = act[s].got /\ w(pc).next = act[s].next
  BY <1>2 DEF Works, Pcs
<1> HIDE DEF w
<1>7. /\ act' \in [Actors -> Works] /\ act'[s] = w(pc)
      /\ \A q \in Actors \ {s} : act'[q] = act[q]
  BY <1>1, <1>2, <1>6, ActorMoves DEF IInv, TypeOK
<1>8. Grows
  BY <1>2, <1>4 DEF Grows, maildir
<1>9. /\ g \in Names /\ mid[g] \in Mids /\ mid' = mid
      /\ issued'[uid] = mid[g] \/ issued'[uid] = g
  BY <1>2, <1>3, <1>4 DEF Exists, maildir
<1>10. /\ told \in [box : Folders, uid : Uids, message : Mids]
       /\ told.uid = uid /\ told.message = mid[g]
  BY <1>3, <1>4, <1>9 DEF Saying
<1> HIDE DEF told
<1>11. TypeOK'
  BY <1>2, <1>4, <1>5, <1>7, <1>9, <1>10 DEF IInv, TypeOK, maildir, index
<1>12. StoresAgree'
  <2>1. \A f \in Names : cache'[f] = cache[f] \/ Stands(cache[f], f)'
    <3>1. cache'[g] = uid /\ \A f \in Names \ {g} : cache'[f] = cache[f]
      BY <1>2, <1>9 DEF IInv, TypeOK
    <3> QED
      BY <1>4, <1>9, <3>1 DEF Stands, Exists
  <2>2. \A f \in Names : OnDisk(f)' => OnDisk(f)
    BY <1>2 DEF OnDisk, maildir
  <2>3. ASSUME NEW t \in shown', t \notin shown PROVE Means(t.uid, t.message)'
    BY <1>2, <1>9, <1>10, <2>3 DEF Means, Exists
  <2> QED
    BY <1>2, <1>4, <1>8, <2>1, <2>2, <2>3, StoresStillAgree
<1>13. Agrees(s, act[s])'
  BY <1>2, <1>6, <1>7, <1>8, StillAgrees DEF IInv, Arriving, Copying, OfAFile
<1>14. Safe'
  BY <1>1, <1>2, <1>6, <1>7, SafeStays DEF OnDisk, maildir, Leaving, Arriving
<1> QED
  BY <1>2, <1>7, <1>8, <1>11, <1>12, <1>13, <1>14, AllAgree DEF IInv

LEMMA RemoveKeeps ==
  ASSUME IInv, NEW s \in Sessions, Remove(s)
  PROVE  IInv'
<1> DEFINE src == act[s].src
           expunges == act[s].op = "expunge" /\ OnDisk(src)
           w(pc) == [act[s] EXCEPT !.pc = pc]
<1>1. PICK pc \in {"forget", "scan"} : Now(s, w(pc))
  BY DEF Remove, Then
<1>2. /\ s \in Actors /\ act[s] \in Works /\ Agrees(s, act[s]) /\ act[s].pc = "remove"
      /\ home' = [home EXCEPT ![src] = None]
      /\ taken' = (IF expunges THEN taken \cup {mid[src]} ELSE taken)
      /\ UNCHANGED <<mid, uids, cache, list, index, spool, events, shown>>
  BY Typed DEF Remove, At, Actors
<1>3. Exists(src) /\ src \in Names /\ mid[src] \in Mids
  BY <1>2 DEF Agrees, HoldsSrc, OfAFile, Exists
<1>4. /\ w(pc) \in Works /\ w(pc).pc = pc /\ w(pc).box = act[s].box
      /\ w(pc).to = act[s].to /\ w(pc).src = src /\ w(pc).todo = act[s].todo
      /\ w(pc).snap = act[s].snap /\ w(pc).got = act[s].got /\ w(pc).next = act[s].next
  BY <1>2 DEF Works, Pcs
<1> HIDE DEF w
<1>5. /\ act' \in [Actors -> Works] /\ act'[s] = w(pc)
      /\ \A q \in Actors \ {s} : act'[q] = act[q]
  BY <1>1, <1>2, <1>4, ActorMoves DEF IInv, TypeOK
<1>6. TypeOK'
  BY <1>2, <1>3, <1>5 DEF IInv, TypeOK, uids, index
<1>7. Grows
  BY <1>2 DEF Grows, uids
<1>8. home'[src] = None /\ \A g \in Names \ {src} : home'[g] = home[g]
  BY <1>2, <1>3 DEF IInv, TypeOK
<1>9. StoresAgree'
  <2>1. UidsAgree'
    BY <1>2 DEF IInv, StoresAgree, UidsAgree, uids
  <2>2. \A g \in Names : OnDisk(g)' => OnDisk(g)
    BY <1>8 DEF OnDisk
  <2> QED
    BY <1>2, <1>7, <2>1, <2>2, StoresStillAgree
<1>10. Agrees(s, act[s])'
  BY <1>2, <1>4, <1>5, <1>7, StillAgrees DEF IInv, Arriving, Copying, OfAFile
<1>11. Safe'
  <2>1. ASSUME NEW g \in Names, Kept(g), g # src PROVE Kept(g)'
    BY <1>4, <1>5, <1>8, <2>1 DEF Kept, OnDisk, Actors, Leaving, Arriving
  <2>2. ASSUME NEW f \in Names, Exists(f)', mid'[f] \notin taken'
        PROVE  \E g \in Names : mid'[g] = mid'[f] /\ Kept(g)'
    <3>1. Exists(f) /\ mid[f] \notin taken /\ mid' = mid
      BY <1>2, <2>2 DEF Exists
    <3>2. PICK g \in Names : mid[g] = mid[f] /\ Kept(g)
      BY <3>1 DEF IInv, Safe
    <3>3. g # src
      <4>1. CASE act[s].op # "expunge"
        BY <1>2, <3>2, <4>1 DEF Kept, Leaving
      <4>2. CASE act[s].op = "expunge"
        BY <1>2, <2>2, <3>1, <3>2, <4>2 DEF Kept
      <4> QED
        BY <4>1, <4>2
    <3> QED
      BY <2>1, <3>1, <3>2, <3>3
  <2> QED
    BY <2>2 DEF Safe
<1> QED
  BY <1>2, <1>5, <1>6, <1>7, <1>9, <1>10, <1>11, AllAgree DEF IInv

\* What Repoint and the two drops leave: the files, what was given and told.
LEMMA ForgettingKeeps ==
  ASSUME IInv, NEW s \in Sessions, NEW pc \in {"scan"}, Then(s, pc),
         act[s].pc \in {"repoint", "dropone", "empty"},
         UNCHANGED <<maildir, counter, issued, cache, list, spool, events, shown, taken>>,
         rev' \in [Keys -> 0..MaxUid], \A k \in Keys : rev'[k] \in {0, rev[k]},
         row' \in [Mids -> [file : Names \cup {None}, uid : 0..MaxUid]],
         files' \in [Mids -> SUBSET Names], conv' \subseteq Mids
  PROVE  IInv'
<1> DEFINE w == [act[s] EXCEPT !.pc = pc]
<1>1. s \in Actors /\ act[s] \in Works /\ Agrees(s, act[s]) /\ Now(s, w)
  BY Typed DEF Actors, Then
<1>2. /\ w \in Works /\ w.pc = "scan" /\ w.box = act[s].box
      /\ w.to = act[s].to /\ w.src = act[s].src /\ w.todo = act[s].todo
      /\ w.snap = act[s].snap /\ w.got = act[s].got /\ w.next = act[s].next
  BY <1>1 DEF Works, Pcs
<1> HIDE DEF w
<1>3. /\ act' \in [Actors -> Works] /\ act'[s] = w
      /\ \A q \in Actors \ {s} : act'[q] = act[q]
  BY <1>1, <1>2, ActorMoves DEF IInv, TypeOK
<1>4. TypeOK'
  BY <1>3 DEF IInv, TypeOK, maildir
<1>5. Grows
  BY DEF Grows, maildir
<1>6. StoresAgree'
  <2>1. UidsAgree'
    BY DEF IInv, StoresAgree, UidsAgree
  <2>2. \A g \in Names : OnDisk(g)' => OnDisk(g)
    BY DEF OnDisk, maildir
  <2> QED
    BY <1>5, <2>1, <2>2, StoresStillAgree
<1>7. Agrees(s, act[s])'
  BY <1>1, <1>2, <1>3, <1>5, StillAgrees DEF IInv, Arriving, Copying, OfAFile
<1>8. Safe'
  BY <1>1, <1>2, <1>3, SafeStays DEF OnDisk, maildir, Leaving, Arriving
<1> QED
  BY <1>1, <1>3, <1>4, <1>5, <1>6, <1>7, <1>8, AllAgree DEF IInv

LEMMA DoomedIsMessage ==
  ASSUME IInv, NEW s \in Sessions, act[s].pc \in {"repoint", "dropone"}
  PROVE  Doomed(s) \in Mids /\ act[s].new \in Names \cup {None}
BY Typed DEF Doomed, Agrees, HoldsSrc, OfAFile, Exists, Actors, Works

LEMMA RepointKeeps ==
  ASSUME IInv, NEW s \in Sessions, Repoint(s)
  PROVE  IInv'
<1>1. /\ act[s].pc = "repoint" /\ Then(s, "scan")
      /\ UNCHANGED <<maildir, counter, issued, cache, list, spool, events, shown, taken>>
      /\ rev' = rev /\ conv' = conv
  BY DEF Repoint, At, uids
<1>2. Doomed(s) \in Mids /\ act[s].new \in Names \cup {None}
  BY <1>1, DoomedIsMessage
<1>3. files' = [files EXCEPT ![Doomed(s)] = @ \ {act[s].src}]
  BY DEF Repoint
<1>4. files' \in [Mids -> SUBSET Names]
  BY <1>2, <1>3 DEF IInv, TypeOK
<1>5. row' \in [Mids -> [file : Names \cup {None}, uid : 0..MaxUid]]
  BY <1>2 DEF Repoint, IInv, TypeOK
<1>6. rev \in [Keys -> 0..MaxUid] /\ conv \subseteq Mids
  BY DEF IInv, TypeOK
<1> QED
  BY <1>1, <1>4, <1>5, <1>6, ForgettingKeeps

LEMMA DropLeaves ==
  ASSUME IInv, NEW gone, NEW left, left \subseteq Mids, Drop(gone, left)
  PROVE  /\ rev' \in [Keys -> 0..MaxUid] /\ \A k \in Keys : rev'[k] \in {0, rev[k]}
         /\ row' \in [Mids -> [file : Names \cup {None}, uid : 0..MaxUid]]
         /\ files' \in [Mids -> SUBSET Names] /\ conv' \subseteq Mids
         /\ UNCHANGED <<counter, issued>>
<1>1. /\ rev \in [Keys -> 0..MaxUid]
      /\ row \in [Mids -> [file : Names \cup {None}, uid : 0..MaxUid]]
      /\ files \in [Mids -> SUBSET Names]
  BY DEF IInv, TypeOK
<1>2. NoRow \in [file : Names \cup {None}, uid : 0..MaxUid] /\ 0 \in 0..MaxUid
  BY DEF NoRow
<1> QED
  BY <1>1, <1>2 DEF Drop

LEMMA DropOneKeeps ==
  ASSUME IInv, NEW s \in Sessions, DropOne(s)
  PROVE  IInv'
<1>1. /\ act[s].pc = "dropone" /\ Then(s, "scan")
      /\ Drop({Doomed(s)}, conv \ {Doomed(s)})
      /\ UNCHANGED <<maildir, cache, list, spool, events, shown, taken>>
  BY DEF DropOne, At
<1>2. conv \ {Doomed(s)} \subseteq Mids
  BY DEF IInv, TypeOK
<1> QED
  BY <1>1, <1>2, DropLeaves, ForgettingKeeps

LEMMA DropAllKeeps ==
  ASSUME IInv, NEW s \in Sessions, DropAll(s)
  PROVE  IInv'
<1> DEFINE w(pc) == [act[s] EXCEPT !.pc = pc, !.gone = conv]
<1>1. /\ s \in Actors /\ act[s] \in Works /\ Agrees(s, act[s])
      /\ act[s].pc = "dropall" /\ events \in 0..MaxEvents /\ conv \subseteq Mids
  BY Typed DEF DropAll, At, Actors, IInv, TypeOK
<1>2. PICK pc \in {"scan", "empty"} : Now(s, w(pc))
  BY DEF DropAll
<1>3. w(pc) \in Works
  BY <1>1 DEF Works, Pcs
<1>4. Agrees(s, w(pc)) /\ \A g \in Names : ~Leaving(w(pc), g)
  BY <1>1 DEF Works, Agrees, HoldsNew, HoldsBox, HoldsTo, HoldsSrc, HoldsTodo, HoldsSnap,
              HoldsGot, HoldsNext, Arriving, Copying, OfAFile, Leaving
<1>5. UNCHANGED <<maildir, uids, cache, list, index, spool, events, shown, taken>>
  BY DEF DropAll
<1> HIDE DEF w
<1> QED
  BY <1>1, <1>2, <1>3, <1>4, <1>5, ActOnly

LEMMA EmptyKeeps ==
  ASSUME IInv, NEW s \in Sessions, Empty(s)
  PROVE  IInv'
<1>1. /\ act[s].pc = "empty" /\ Then(s, "scan")
      /\ UNCHANGED <<uids, index>> \/ Drop(act[s].gone, {})
      /\ UNCHANGED <<maildir, cache, list, spool, events, shown, taken>>
  BY DEF Empty, At
<1>2. CASE UNCHANGED <<uids, index>>
  <2>1. /\ rev' \in [Keys -> 0..MaxUid] /\ \A k \in Keys : rev'[k] \in {0, rev[k]}
        /\ row' \in [Mids -> [file : Names \cup {None}, uid : 0..MaxUid]]
        /\ files' \in [Mids -> SUBSET Names] /\ conv' \subseteq Mids
        /\ UNCHANGED <<counter, issued>>
    BY <1>2 DEF uids, index, IInv, TypeOK
  <2> QED
    BY <1>1, <2>1, ForgettingKeeps
<1>3. CASE Drop(act[s].gone, {})
  BY <1>1, <1>3, DropLeaves, ForgettingKeeps
<1> QED
  BY <1>1, <1>2, <1>3

LEMMA SweepHealKeeps ==
  ASSUME IInv, SweepHeal
  PROVE  IInv'
<1> DEFINE uid(f) == IF act[Sweep].snap[f] # 0 THEN act[Sweep].snap[f] ELSE UidFor(mid[f])
           w(f) == [act[Sweep] EXCEPT !.pc = "row", !.todo = @ \ {f}, !.new = f, !.uid = uid(f)]
<1>1. PICK f \in act[Sweep].todo :
        /\ IF act[Sweep].snap[f] # 0
           THEN Register(act[Sweep].snap[f], mid[f]) /\ UNCHANGED list
           ELSE GiveAndNote(f)
        /\ Now(Sweep, w(f))
  BY DEF SweepHeal
<1>2. /\ Sweep \in Actors /\ Sweep \notin Sessions /\ act[Sweep] \in Works
      /\ Agrees(Sweep, act[Sweep]) /\ act[Sweep].pc = "heal"
      /\ UNCHANGED <<maildir, cache, index, spool, events, shown, taken>>
  BY Typed DEF SweepHeal, At, Actors
<1>3. Exists(f) /\ f \in Names /\ mid[f] \in Mids /\ mid[f] \in Keys
  BY <1>2 DEF Agrees, HoldsTodo, Exists, Keys
<1>4. /\ uid(f) \in Uids /\ issued'[uid(f)] = mid[f]
      /\ counter' \in 0..MaxUid /\ rev' \in [Keys -> 0..MaxUid]
      /\ issued' \in [Uids -> Keys \cup {None}]
      /\ \A u \in Uids : issued[u] # None => issued'[u] = issued[u]
      /\ UidsAgree'
      /\ list' = list \/ list' = [list EXCEPT ![f] = uid(f)]
  <2>1. CASE act[Sweep].snap[f] # 0
    <3>1. act[Sweep].snap[f] \in Uids /\ issued[act[Sweep].snap[f]] = mid[f]
      BY <1>2, <1>3, <2>1 DEF Agrees, HoldsSnap, Stands
    <3>2. issued \in [Uids -> Keys \cup {None}]
      BY DEF IInv, TypeOK
    <3> QED
      BY <1>1, <1>3, <2>1, <3>1, <3>2, RegisterGives
  <2>2. CASE act[Sweep].snap[f] = 0
    BY <1>1, <1>3, <2>2, AllocateGives DEF GiveAndNote
  <2> QED
    BY <2>1, <2>2
<1> HIDE DEF uid
<1>5. uid(f) \in 0..MaxUid
  BY <1>4 DEF Uids
<1>6. /\ w(f) \in Works /\ w(f).pc = "row" /\ w(f).new = f /\ w(f).box = act[Sweep].box
      /\ w(f).todo = act[Sweep].todo \ {f} /\ w(f).snap = act[Sweep].snap
      /\ w(f).got = act[Sweep].got /\ w(f).next = act[Sweep].next
  BY <1>2, <1>3, <1>5 DEF Works, Pcs
<1> HIDE DEF w
<1>7. /\ act' \in [Actors -> Works] /\ act'[Sweep] = w(f)
      /\ \A q \in Actors \ {Sweep} : act'[q] = act[q]
  BY <1>1, <1>2, <1>6, ActorMoves DEF IInv, TypeOK
<1>8. TypeOK'
  BY <1>2, <1>3, <1>4, <1>5, <1>7 DEF IInv, TypeOK, maildir, index
<1>9. Grows /\ Exists(f)' /\ mid'[f] = mid[f]
  BY <1>2, <1>3, <1>4 DEF Grows, maildir, Exists
<1>10. StoresAgree'
  <2>1. \A g \in Names : list'[g] = list[g] \/ (Exists(g) /\ issued[list[g]] = mid[g])'
    BY <1>3, <1>4, <1>9 DEF IInv, TypeOK
  <2>2. \A g \in Names : OnDisk(g)' => OnDisk(g)
    BY <1>2 DEF OnDisk, maildir
  <2> QED
    BY <1>2, <1>4, <1>9, <2>1, <2>2, StoresStillAgree
<1>11. Agrees(Sweep, act[Sweep])'
  <2>1. HoldsTodo(act[Sweep])' /\ HoldsNew(act[Sweep])'
    BY <1>2, <1>6, <1>7, <1>9, ExistsStays DEF Agrees, HoldsTodo, HoldsNew, IInv, Exists, Works
  <2>2. HoldsSnap(Sweep, act[Sweep])' /\ HoldsGot(act[Sweep])'
    BY <1>2, <1>6, <1>7, <1>9, StandsStays, ExistsStays
       DEF Agrees, HoldsSnap, HoldsGot, IInv, Stands
  <2>3. act'[Sweep].next = 0
    BY <1>2, <1>6, <1>7 DEF Agrees, HoldsNext
  <2> QED
    BY <1>2, <2>1, <2>2, <2>3 DEF Agrees, HoldsBox, HoldsTo, HoldsSrc, HoldsNext
<1>12. Safe'
  BY <1>2, <1>7, SafeStays DEF OnDisk, maildir
<1> QED
  BY <1>2, <1>7, <1>8, <1>9, <1>10, <1>11, <1>12, AllAgree DEF IInv

LEMMA DieKeeps ==
  ASSUME IInv, Die
  PROVE  IInv'
<1> DEFINE resting == [p \in Actors |-> AtRest]
<1>1. /\ act' = resting /\ events' \in 0..MaxEvents /\ AtRest \in Works
      /\ UNCHANGED <<maildir, uids, cache, list, index, spool, shown, taken>>
  <2>1. Drain \in Actors
    BY DEF Actors
  <2> QED
    BY <2>1, Typed DEF Die
<1>2. /\ AtRest.pc = "idle" /\ AtRest.todo = {} /\ AtRest.next = 0
      /\ \A f \in Names : AtRest.snap[f] = 0 /\ AtRest.got[f] = 0
  BY DEF AtRest, NoUids
<1>3. act' \in [Actors -> Works] /\ \A p \in Actors : act'[p] = AtRest
  BY <1>1
<1>4. TypeOK'
  BY <1>1, <1>3 DEF IInv, TypeOK, maildir, uids, index
<1>5. StoresAgree'
  <2>1. UidsAgree' /\ Grows
    BY <1>1 DEF IInv, StoresAgree, UidsAgree, uids, Grows, maildir
  <2>2. \A g \in Names : OnDisk(g)' => OnDisk(g)
    BY <1>1 DEF OnDisk, maildir
  <2> QED
    BY <1>1, <2>1, <2>2, StoresStillAgree
<1>6. ASSUME NEW p \in Actors PROVE Agrees(p, act[p])'
  BY <1>2, <1>3, AgreesAfresh DEF Arriving
<1>7. Safe'
  <2>1. ASSUME NEW g \in Names, Kept(g) PROVE Kept(g)'
    BY <1>1, <1>2, <1>3, <2>1 DEF Kept, OnDisk, maildir, Leaving, Arriving, Actors
  <2> QED
    BY <1>1, <2>1 DEF IInv, Safe, Exists, maildir
<1> QED
  BY <1>4, <1>5, <1>6, <1>7 DEF IInv

-----------------------------------------------------------------------------
(* The theorems *)

LEMMA Start ==
  ASSUME Init
  PROVE  IInv
<1>1. /\ home = [f \in Names |-> None] /\ mid = [f \in Names |-> None]
      /\ counter = 0 /\ rev = [k \in Keys |-> 0]
      /\ issued = [u \in Uids |-> None] /\ cache = NoUids /\ list = NoUids
      /\ row = [m \in Mids |-> NoRow] /\ files = [m \in Mids |-> {}] /\ conv = {}
      /\ spool = None /\ act = [p \in Actors |-> AtRest] /\ events = 0
      /\ shown = {} /\ taken = {}
  BY DEF Init
<1>2. /\ AtRest \in Works /\ AtRest.pc = "idle" /\ AtRest.todo = {} /\ AtRest.next = 0
      /\ \A f \in Names : AtRest.snap[f] = 0 /\ AtRest.got[f] = 0
  BY DEF AtRest, NoUids, Works, Pcs
<1>3. NoRow \in [file : Names \cup {None}, uid : 0..MaxUid] /\ NoUids \in [Names -> 0..MaxUid]
  BY DEF NoRow, NoUids
<1>4. TypeOK
  BY <1>1, <1>2, <1>3 DEF TypeOK
<1>5. StoresAgree
  BY <1>1 DEF StoresAgree, UidsAgree, OnDisk, NoUids
<1>6. ASSUME NEW p \in Actors PROVE Agrees(p, act[p])
  <2>1. act[p] = AtRest
    BY <1>1
  <2> QED
    BY <1>2, <2>1 DEF Agrees, HoldsNew, HoldsBox, HoldsTo, HoldsSrc, HoldsTodo, HoldsSnap, HoldsGot,
                      HoldsNext, Arriving, Copying, OfAFile
<1>7. Safe
  BY <1>1 DEF Safe, Exists
<1> QED
  BY <1>4, <1>5, <1>6, <1>7 DEF IInv

LEMMA StepKeeps ==
  ASSUME IInv, [Next]_vars
  PROVE  IInv'
<1>1. CASE Arrive \/ DrainStep
  <2>1. Drain \in Actors
    BY DEF Actors
  <2> QED
    BY <1>1, <2>1, ArriveKeeps, RedeliverKeeps, LookKeeps, AssignUidKeeps, WriteRowKeeps
       DEF DrainStep, Ingest
<1>2. CASE SweepStep
  <2>1. Sweep \in Actors
    BY DEF Actors
  <2> QED
    BY <1>2, <2>1, SweepScanKeeps, SweepDiffKeeps, SweepHealKeeps, SweepDoneKeeps, LookKeeps,
       AssignUidKeeps, WriteRowKeeps
       DEF SweepStep, Ingest
<1>3. CASE Die
  BY <1>3, DieKeeps
<1>4. ASSUME NEW s \in Sessions, Ask(s) PROVE IInv'
  <2>1. CASE Select(s)
    BY <2>1, SelectKeeps
  <2>2. CASE Copy(s)
    <3>1. PICK to \in Folders : Command(s, "copy", to)
      BY <2>2 DEF Copy
    <3> QED
      BY <3>1, CommandKeeps
  <2>3. CASE Move(s)
    <3>1. PICK to \in Folders : Command(s, "move", to)
      BY <2>3 DEF Move
    <3> QED
      BY <3>1, CommandKeeps
  <2>4. CASE Expunge(s)
    BY <2>4, CommandKeeps DEF Expunge
  <2> QED
    BY <1>4, <2>1, <2>2, <2>3, <2>4 DEF Ask
<1>5. ASSUME NEW s \in Sessions, Serve(s) PROVE IInv'
  <2>1. s \in Actors
    BY DEF Actors
  <2>2. CASE Ingest(s)
    BY <2>1, <2>2, LookKeeps, AssignUidKeeps, WriteRowKeeps DEF Ingest
  <2>3. CASE Listing(s)
    BY <2>3, ScanKeeps, ResolveHitKeeps, ResolveMissKeeps, ListingDoneKeeps, UidNextKeeps DEF Listing
  <2>4. CASE Filing(s)
    BY <2>4, WriteCopyKeeps, NewFileUidKeeps, RemoveKeeps DEF Filing
  <2>5. CASE Forgetting(s)
    BY <2>5, ForgetKeeps, RepointKeeps, DecideKeeps, DropOneKeeps, DropAllKeeps,
       EmptyKeeps DEF Forgetting
  <2> QED
    BY <1>5, <2>2, <2>3, <2>4, <2>5 DEF Serve
<1>6. CASE UNCHANGED vars
  <2>1. /\ UNCHANGED <<home, mid, counter, rev, issued, cache, list, row, files, conv,
                       spool, act, events, shown, taken>>
    BY <1>6 DEF vars, maildir, uids, index
  <2>2. TypeOK' /\ Grows
    BY <2>1 DEF IInv, TypeOK, Grows
  <2>3. StoresAgree' /\ Safe'
    BY <2>1 DEF IInv, StoresAgree, UidsAgree, Means, Exists, Stands, OnDisk, Safe, Kept
  <2>4. \A p \in Actors : Agrees(p, act[p])'
    BY <2>1, <2>2, OthersAgree DEF IInv
  <2> QED
    BY <2>2, <2>3, <2>4 DEF IInv
<1> QED
  BY <1>1, <1>2, <1>3, <1>4, <1>5, <1>6 DEF Next

\* Uids, stores and actors agree in every reachable state.
THEOREM Invariance == Spec => []IInv
<1>1. Init => IInv
  BY Start
<1>2. IInv /\ [Next]_vars => IInv'
  BY StepKeeps
<1> QED
  BY <1>1, <1>2, PTL DEF Spec

\* Every reachable state of the mailbox is well typed.
THEOREM TypeCorrect == Spec => []TypeOK
<1>1. IInv => TypeOK
  BY DEF IInv
<1> QED
  BY <1>1, Invariance, PTL

\* However many sessions list, copy, move and expunge: two messages are never told to
\* clients under one uid.
THEOREM UidsKeepTheirMeaning == Spec => []OneMeaning
<1>1. IInv => OneMeaning
  <2>1. SUFFICES ASSUME IInv, NEW a \in shown, NEW b \in shown, a.uid = b.uid
                 PROVE  a.message = b.message
    BY DEF OneMeaning
  <2>2. Means(a.uid, a.message) /\ Means(b.uid, b.message)
    BY <2>1 DEF IInv, StoresAgree
  <2>3. a.message \in Mids /\ b.message \in Mids
    BY <2>1 DEF IInv, TypeOK
  <2> QED
    BY <2>1, <2>2, <2>3 DEF Means, Exists
<1> QED
  BY <1>1, Invariance, PTL

\* Whoever takes uids meanwhile: no two files of a listing share one, and UIDNEXT is
\* above them all.
THEOREM ListingsSound == Spec => []ListingSound
<1>1. IInv => ListingSound
  BY DEF IInv, ListingSound, Listed, Agrees, HoldsGot, Actors
<1> QED
  BY <1>1, Invariance, PTL

\* However many sessions move one message at once, and wherever one of them stops: what
\* nobody expunged has a file.
THEOREM NoMessageLost == Spec => []NothingLost
<1>1. IInv => NothingLost
  BY DEF IInv, NothingLost, Safe, Kept, Exists, TypeOK
<1> QED
  BY <1>1, Invariance, PTL
===============================================================================
