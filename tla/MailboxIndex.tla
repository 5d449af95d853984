---------------------------- MODULE MailboxIndex ----------------------------
(***************************************************************************)
(* One user's maildir, the index over it and the IMAP uids                 *)
(* (crates/fastcore, ingest, maildir_scan, uidlist, imap/backend and       *)
(* protocols; crates/mailbox-kevy, messages/uid, messages/projection,      *)
(* forget_message and delete_thread).  The drain delivers, IMAP sessions   *)
(* list, copy, move and expunge, the sweep writes the rows that are        *)
(* missing, and the process may die; each call to the store or the disk is *)
(* one step.  The user's messages are one conversation.                    *)
(***************************************************************************)
EXTENDS Naturals

CONSTANTS
  Names,     \* names of maildir files, in the order a scan sorts them
  Incoming,  \* those the drain may write; a copy has any
  Mids,      \* Message-IDs
  Folders,   \* the user's mailboxes
  Inbox,     \* the one the drain delivers to
  Sessions,  \* IMAP connections
  Drain, Sweep,
  MayDie,    \* whether the process dies
  None

CONSTANTS    \* bounds
  MaxUid,    \* uids there are to give
  MaxEvents  \* commands of clients, deaths, and sweeps begun while no row is missing

Actors == Sessions \cup {Drain, Sweep}

\* What allocate_uid gives a uid to: a Message-ID, or file:<name>.
Keys == Mids \cup Names
Uids == 1..MaxUid

ASSUME ConstantsAssumption ==
  /\ Names \subseteq Nat /\ Incoming \subseteq Names /\ MaxUid \in Nat /\ MaxEvents \in Nat
  /\ Inbox \in Folders /\ MayDie \in BOOLEAN
  /\ Mids \cap Names = {} /\ Drain # Sweep /\ {Drain, Sweep} \cap Sessions = {}
  /\ None \notin Mids \cup Names \cup Folders

VARIABLES
  home,     \* the folder a file is in, or None
  mid,      \* the Message-ID a file was written with; None: no such file yet
  counter,  \* user_next_uid
  rev,      \* user_uid_by_mid; 0: no uid
  cache,    \* imap:uid_by_file
  list,     \* mailrs-uidlist
  row,      \* user_message: blob_ref and uid; no file: no row
  files,    \* user_message_files
  conv,     \* the messages the conversation lists
  spool,    \* the name of the file being drained
  act,      \* what each actor is doing
  events,   \* how many of MaxEvents there were
  issued,   \* history: what a uid was first given to
  shown,    \* history: what clients were told of a file
  taken     \* history: messages a client expunged a file of

maildir == <<home, mid>>
uids    == <<counter, rev, issued>>
index   == <<row, files, conv>>
vars == <<maildir, uids, cache, list, index, spool, act, events, shown, taken>>

-----------------------------------------------------------------------------
(* State *)

Pcs == {"idle", "look", "alloc", "row",                      \* an arrival
        "copy", "uid", "remove",                             \* COPY and MOVE
        "forget", "decide", "repoint", "dropone", "dropall", "empty", \* after EXPUNGE
        "scan", "resolve", "next",                           \* a listing
        "diff", "heal"}                                      \* the sweep

Works == [pc : Pcs,
          op : {"none", "select", "copy", "move", "expunge"},
          box : Folders \cup {None},         \* the mailbox selected
          to : Folders \cup {None},          \* where a copy goes
          src : Names \cup {None},           \* the file of the command
          new : Names \cup {None},           \* the file being indexed, or kept
          uid : 0..MaxUid,                   \* the uid in hand
          todo : SUBSET Names,               \* files still to go through
          snap : [Names -> 0..MaxUid],       \* the hash or the list as read
          got : [Names -> 0..MaxUid],        \* the listing; 0: not in it
          gone : SUBSET Mids,                \* the messages that go with a conversation
          next : 0..(MaxUid + 1)]            \* UIDNEXT of a SELECT; 0: none

NoUids == [f \in Names |-> 0]
NoRow == [file |-> None, uid |-> 0]
AtRest == [pc |-> "idle", op |-> "none", box |-> None, to |-> None, src |-> None,
           new |-> None, uid |-> 0, todo |-> {}, snap |-> NoUids, got |-> NoUids,
           gone |-> {}, next |-> 0]

Init ==
  /\ home = [f \in Names |-> None] /\ mid = [f \in Names |-> None]
  /\ counter = 0 /\ rev = [k \in Keys |-> 0]
  /\ issued = [u \in Uids |-> None]
  /\ cache = NoUids /\ list = NoUids
  /\ row = [m \in Mids |-> NoRow] /\ files = [m \in Mids |-> {}] /\ conv = {}
  /\ spool = None /\ act = [p \in Actors |-> AtRest]
  /\ events = 0
  /\ shown = {} /\ taken = {}

At(p, pc) == act[p].pc = pc
Now(p, work) == act' = [act EXCEPT ![p] = work]
Then(p, pc) == Now(p, [act[p] EXCEPT !.pc = pc])

Counted == events < MaxEvents /\ events' = events + 1

Fresh == {f \in Names : mid[f] = None}
OnDisk(f) == home[f] # None

\* The key of a file as it is read: one that is gone has no Message-ID, unless it was
\* read before it went.
KeysOf(f) == IF OnDisk(f) THEN {mid[f]} ELSE {mid[f], f}

-----------------------------------------------------------------------------
(* Giving uids: allocate_uid and register_uid, each one transaction *)

\* A fault: the uid after the highest one in use, given again after an expunge.
HighestPlusOne ==
  CHOOSE u \in 1..(MaxUid + 1) : /\ \A k \in Keys : rev[k] < u
                                /\ (u = 1 \/ \E k \in Keys : rev[k] = u - 1)

NewUid == counter + 1

UidFor(key) == IF rev[key] # 0 THEN rev[key] ELSE NewUid

Allocate(key) ==
  IF rev[key] # 0 THEN UNCHANGED uids
  ELSE /\ counter < MaxUid
       /\ counter' = NewUid
       /\ rev' = [rev EXCEPT ![key] = NewUid]
       /\ issued' = [issued EXCEPT ![NewUid] = key]

Register(uid, key) ==
  /\ rev' = [rev EXCEPT ![key] = uid]
  /\ counter' = IF counter < uid THEN uid ELSE counter
  /\ UNCHANGED issued

\* A uid for the message of a file, and the line in the maildir's own list, which only
\* the sweep reads: one step.  The last line of a file is the one that counts.
GiveAndNote(f) ==
  /\ Allocate(mid[f])
  /\ list' = [list EXCEPT ![f] = UidFor(mid[f])]

-----------------------------------------------------------------------------
(* An arrival: store_arrival and the file it indexes, act[p].new *)

\* This very file indexed already keeps its uid.
Look(p) ==
  LET known == row[mid[act[p].new]] IN
  /\ At(p, "look")
  /\ Now(p, IF known.file = act[p].new
            THEN [act[p] EXCEPT !.pc = "row", !.uid = known.uid]
            ELSE [act[p] EXCEPT !.pc = "alloc"])
  /\ UNCHANGED <<maildir, uids, cache, list, index, spool, events, shown, taken>>

AssignUid(p) ==
  LET f == act[p].new IN
  /\ At(p, "alloc")
  /\ GiveAndNote(f)
  /\ Now(p, [act[p] EXCEPT !.pc = "row", !.uid = UidFor(mid[f])])
  /\ UNCHANGED <<maildir, cache, index, spool, events, shown, taken>>

\* upsert_user_message: a uid of 0 is "not known" and leaves the one there is.
Upsert(m, file, uid) ==
  /\ row' = [row EXCEPT ![m] = [file |-> file, uid |-> IF uid = 0 THEN @.uid ELSE uid]]
  /\ files' = [files EXCEPT ![m] = @ \cup {file}]
  /\ conv' = conv \cup {m}

WriteRow(p) ==
  /\ At(p, "row")
  /\ Upsert(mid[act[p].new], act[p].new, act[p].uid)
  /\ Now(p, CASE p = Drain -> AtRest
              [] p = Sweep -> [act[p] EXCEPT !.pc = "heal", !.new = None, !.uid = 0]
              [] OTHER -> [act[p] EXCEPT !.pc = "uid", !.uid = 0])
  /\ spool' = IF p = Drain THEN None ELSE spool
  /\ UNCHANGED <<maildir, uids, cache, list, events, shown, taken>>

-----------------------------------------------------------------------------
(* The drain *)

\* A spool file, and its copy in the mailbox.
Arrive ==
  /\ At(Drain, "idle") /\ spool = None
  /\ \E f \in Fresh \cap Incoming, m \in Mids :
       /\ mid' = [mid EXCEPT ![f] = m] /\ home' = [home EXCEPT ![f] = Inbox]
       /\ spool' = f
       /\ Now(Drain, [AtRest EXCEPT !.pc = "look", !.new = f])
  /\ UNCHANGED <<uids, cache, list, index, events, shown, taken>>

\* After a death: the copy is in the mailbox still, or it is written again when a
\* client moved or expunged it.
Redeliver ==
  /\ At(Drain, "idle") /\ spool # None
  /\ home' = [home EXCEPT ![spool] = Inbox]
  /\ Now(Drain, [AtRest EXCEPT !.pc = "look", !.new = spool])
  /\ UNCHANGED <<mid, uids, cache, list, index, spool, events, shown, taken>>

-----------------------------------------------------------------------------
(* Listing a mailbox: list_messages; SELECT reads UIDNEXT after it *)

\* What a client is told of a file.
Saying(box, uid, f) == [box |-> box, uid |-> uid, message |-> mid[f]]

\* A fault: a listing is what is in the mailbox when it ends.
ListedNow(p) == {f \in Names : home[f] = act[p].box}

Listed(p) == {f \in Names : act[p].got[f] # 0}

\* A fault: no uid is taken by another file.
SeenNone(p) == {}

Seen(p) == {act[p].got[f] : f \in Listed(p)}

Select(s) ==
  /\ At(s, "idle") /\ Counted
  /\ \E box \in Folders :
       Now(s, [AtRest EXCEPT !.pc = "scan", !.op = "select", !.box = box])
  /\ UNCHANGED <<maildir, uids, cache, list, index, spool, shown, taken>>

\* The files, then the hash of the uids they had: one step, since the hash only saves
\* asking the allocator for the same uid again.
Scan(s) ==
  /\ At(s, "scan")
  /\ Now(s, [AtRest EXCEPT !.pc = "resolve", !.snap = cache, !.op = act[s].op, !.box = act[s].box,
                           !.todo = {f \in Names : home[f] = act[s].box}])
  /\ UNCHANGED <<maildir, uids, cache, list, index, spool, events, shown, taken>>

IsNext(s, f) == f \in act[s].todo /\ \A g \in act[s].todo : f <= g

\* resolve_uid, of the first file left: the hash as it was read, unless another file
\* of this listing has the uid.
ResolveHit(s) ==
  /\ At(s, "resolve")
  /\ \E f \in Names :
       LET uid == act[s].snap[f] IN
       /\ IsNext(s, f)
       /\ uid # 0 /\ uid \notin Seen(s)
       /\ Now(s, [act[s] EXCEPT !.todo = @ \ {f}, !.got[f] = uid])
  /\ UNCHANGED <<maildir, uids, cache, list, index, spool, events, shown, taken>>

\* Otherwise the allocator's: by the Message-ID, or for a second file of one message in
\* the mailbox by the name.  It is put into the hash in the same step: asked again, the
\* allocator gives the same.
ResolveMiss(s) ==
  /\ At(s, "resolve")
  /\ \E f \in Names, own \in Keys :
       LET key == IF UidFor(own) \in Seen(s) THEN f ELSE own IN
       /\ own \in KeysOf(f)
       /\ IsNext(s, f)
       /\ act[s].snap[f] = 0 \/ act[s].snap[f] \in Seen(s)
       /\ Allocate(key)
       /\ cache' = [cache EXCEPT ![f] = UidFor(key)]
       /\ Now(s, [act[s] EXCEPT !.todo = @ \ {f}, !.got[f] = UidFor(key)])
  /\ UNCHANGED <<maildir, list, index, spool, events, shown, taken>>

ListingDone(s) ==
  /\ At(s, "resolve") /\ act[s].todo = {}
  /\ Now(s, [act[s] EXCEPT !.pc = IF act[s].op = "select" THEN "next" ELSE "idle",
                           !.op = "none", !.snap = NoUids])
  /\ shown' = shown \cup {Saying(act[s].box, act[s].got[f], f) : f \in Listed(s)}
  /\ UNCHANGED <<maildir, uids, cache, list, index, spool, events, taken>>

UidNext(s) ==
  /\ At(s, "next")
  /\ Now(s, [act[s] EXCEPT !.pc = "idle", !.next = counter + 1])
  /\ UNCHANGED <<maildir, uids, cache, list, index, spool, events, shown, taken>>

-----------------------------------------------------------------------------
(* COPY and MOVE: copy_to, new_file_uid, remove_message *)

\* A fault: a MOVE reads the file, removes it, and writes the copy after.
RemoveFirst(s, op, to) ==
  /\ At(s, "idle") /\ Counted
  /\ \E f \in Listed(s) :
       /\ OnDisk(f)
       /\ home' = IF op = "move" THEN [home EXCEPT ![f] = None] ELSE home
       /\ Now(s, [act[s] EXCEPT !.pc = IF op = "expunge" THEN "remove" ELSE "copy",
                                !.op = op, !.src = f, !.to = to, !.next = 0])
  /\ UNCHANGED <<mid, uids, cache, list, index, spool, shown, taken>>

\* The command names a file of the listing the session holds, and reads it; a file
\* that is gone is answered NO.
Command(s, op, to) ==
  /\ At(s, "idle") /\ Counted
  /\ \E f \in Listed(s) :
       /\ OnDisk(f)
       /\ Now(s, [act[s] EXCEPT !.pc = IF op = "expunge" THEN "remove" ELSE "copy",
                                !.op = op, !.src = f, !.to = to, !.next = 0])
  /\ UNCHANGED <<maildir, uids, cache, list, index, spool, shown, taken>>

Copy(s) == \E to \in Folders : Command(s, "copy", to)
Move(s) == \E to \in Folders \ {act[s].box} : Command(s, "move", to)
Expunge(s) == Command(s, "expunge", None)

WriteCopy(s) ==
  /\ At(s, "copy")
  /\ \E g \in Fresh :
       /\ mid' = [mid EXCEPT ![g] = mid[act[s].src]]
       /\ home' = [home EXCEPT ![g] = act[s].to]
       /\ Now(s, [act[s] EXCEPT !.pc = "look", !.new = g])
  /\ UNCHANGED <<uids, cache, list, index, spool, events, shown, taken>>

\* The uid that COPYUID answers.
NewFileUid(s) ==
  /\ At(s, "uid")
  /\ \E key \in KeysOf(act[s].new) :
       /\ Allocate(key)
       /\ cache' = [cache EXCEPT ![act[s].new] = UidFor(key)]
       /\ shown' = shown \cup {Saying(act[s].to, UidFor(key), act[s].new)}
  /\ Then(s, IF act[s].op = "move" THEN "remove" ELSE "scan")
  /\ UNCHANGED <<maildir, list, index, spool, events, taken>>

\* The source of a MOVE, or the file of an EXPUNGE.  One that somebody else removed
\* is gone all the same, and nothing of it is forgotten here.
Remove(s) ==
  LET f == act[s].src expunges == act[s].op = "expunge" /\ OnDisk(f) IN
  /\ At(s, "remove")
  /\ home' = [home EXCEPT ![f] = None]
  /\ taken' = IF expunges THEN taken \cup {mid[f]} ELSE taken
  /\ Then(s, IF expunges THEN "forget" ELSE "scan")
  /\ UNCHANGED <<mid, uids, cache, list, index, spool, events, shown>>

-----------------------------------------------------------------------------
(* After EXPUNGE: forget_message_file *)

Doomed(s) == mid[act[s].src]

\* What on_disk answers: locate makes a path of any name and opens nothing.
Locates(f) == TRUE

\* The row and the names of its files, read; the first other name that is "on disk"
\* is kept.
Forget(s) ==
  LET m == Doomed(s) known == row[m]
      names == IF files[m] = {} THEN {known.file} ELSE files[m]
      left == {f \in names \ {act[s].src} : Locates(f)}
  IN
  /\ At(s, "forget")
  /\ \/ known.file = None /\ Then(s, "scan")
     \/ /\ known.file # None /\ left # {}
        /\ \E keep \in left :
             Now(s, [act[s] EXCEPT !.pc = "repoint",
                       !.new = IF known.file = act[s].src THEN keep ELSE None])
     \/ /\ known.file # None /\ left = {}
        /\ Then(s, "decide")
  /\ UNCHANGED <<maildir, uids, cache, list, index, spool, events, shown, taken>>

Repoint(s) ==
  LET m == Doomed(s) IN
  /\ At(s, "repoint")
  /\ files' = [files EXCEPT ![m] = @ \ {act[s].src}]
  /\ row' = IF act[s].new = None THEN row ELSE [row EXCEPT ![m].file = act[s].new]
  /\ Then(s, "scan")
  /\ UNCHANGED <<maildir, uids, cache, list, conv, spool, events, shown, taken>>

\* forget_user_message: the last message takes the conversation with it.
Decide(s) ==
  /\ At(s, "decide")
  /\ Then(s, IF conv \subseteq {Doomed(s)} THEN "dropall" ELSE "dropone")
  /\ UNCHANGED <<maildir, uids, cache, list, index, spool, events, shown, taken>>

\* The rows of gone and their uids; left is what the conversation still lists.
Drop(gone, left) ==
  /\ row' = [m \in Mids |-> IF m \in gone THEN NoRow ELSE row[m]]
  /\ files' = [m \in Mids |-> IF m \in gone THEN {} ELSE files[m]]
  /\ conv' = left
  /\ rev' = [k \in Keys |-> IF k \in gone THEN 0 ELSE rev[k]]
  /\ UNCHANGED <<counter, issued>>

DropOne(s) ==
  /\ At(s, "dropone")
  /\ Drop({Doomed(s)}, conv \ {Doomed(s)})
  /\ Then(s, "scan")
  /\ UNCHANGED <<maildir, cache, list, spool, events, shown, taken>>

\* delete_thread reads what the conversation holds by now, if it is there still.
DropAll(s) ==
  /\ At(s, "dropall")
  /\ Now(s, [act[s] EXCEPT !.pc = IF conv = {} THEN "scan" ELSE "empty", !.gone = conv])
  /\ UNCHANGED <<maildir, uids, cache, list, index, spool, events, shown, taken>>

\* And its transaction: the rows that were read go, and the conversation with whatever
\* it lists.  The files it names are the caller's to remove, and this caller does not.
Empty(s) ==
  /\ At(s, "empty")
  /\ IF conv = {} THEN UNCHANGED <<uids, index>> ELSE Drop(act[s].gone, {})
  /\ Then(s, "scan")
  /\ UNCHANGED <<maildir, cache, list, spool, events, shown, taken>>

-----------------------------------------------------------------------------
(* The sweep: scan_maildir, heal_missing_messages, create_thread *)

SweepScan ==
  /\ At(Sweep, "idle")
  /\ \E f \in Names : OnDisk(f)
  /\ IF \E f \in Names : OnDisk(f) /\ mid[f] \notin conv THEN UNCHANGED events
     ELSE Counted
  /\ Now(Sweep, [AtRest EXCEPT !.pc = "diff", !.todo = {f \in Names : OnDisk(f)}])
  /\ UNCHANGED <<maildir, uids, cache, list, index, spool, shown, taken>>

\* A fault: a conversation that is there is left alone.
NoneMissing(found) == {{}}

\* One file for each message the conversation misses, or every file when there is
\* no conversation.
Missing(found) ==
  {some \in SUBSET {f \in found : mid[f] \notin conv} :
     \A m \in {mid[f] : f \in found} \ conv : \E f \in some : mid[f] = m /\
       \A g \in some : mid[g] = m => g = f}

SweepDiff ==
  /\ At(Sweep, "diff")
  /\ \E some \in Missing(act[Sweep].todo)
                   \cup (IF conv = {} THEN {act[Sweep].todo} ELSE {}) :
       Now(Sweep, [AtRest EXCEPT !.pc = "heal", !.todo = some, !.snap = list])
  /\ UNCHANGED <<maildir, uids, cache, list, index, spool, events, shown, taken>>

\* uid_for: the uid the list names, adopted; or one of the allocator's, noted.
SweepHeal ==
  /\ At(Sweep, "heal")
  /\ \E f \in act[Sweep].todo :
       LET promised == act[Sweep].snap[f] IN
       /\ IF promised # 0 THEN Register(promised, mid[f]) /\ UNCHANGED list
          ELSE GiveAndNote(f)
       /\ Now(Sweep, [act[Sweep] EXCEPT !.pc = "row", !.todo = @ \ {f}, !.new = f,
                        !.uid = IF promised # 0 THEN promised ELSE UidFor(mid[f])])
  /\ UNCHANGED <<maildir, cache, index, spool, events, shown, taken>>

SweepDone ==
  /\ At(Sweep, "heal") /\ act[Sweep].todo = {}
  /\ Now(Sweep, AtRest)
  /\ UNCHANGED <<maildir, uids, cache, list, index, spool, events, shown, taken>>

-----------------------------------------------------------------------------
(* The process dies: connections, the drain and the sweep with it *)

Die ==
  /\ MayDie /\ Counted
  /\ act' = [p \in Actors |-> AtRest]
  /\ UNCHANGED <<maildir, uids, cache, list, index, spool, shown, taken>>

Ingest(p) == Look(p) \/ AssignUid(p) \/ WriteRow(p)

Listing(s) ==
  Scan(s) \/ ResolveHit(s) \/ ResolveMiss(s) \/ ListingDone(s) \/ UidNext(s)

Filing(s) == WriteCopy(s) \/ NewFileUid(s) \/ Remove(s)

Forgetting(s) ==
  Forget(s) \/ Repoint(s) \/ Decide(s) \/ DropOne(s) \/ DropAll(s) \/ Empty(s)

\* What a session does without being asked.
Serve(s) == Ingest(s) \/ Listing(s) \/ Filing(s) \/ Forgetting(s)

Ask(s) == Select(s) \/ Copy(s) \/ Move(s) \/ Expunge(s)

DrainStep == Redeliver \/ Ingest(Drain)

SweepStep == SweepScan \/ SweepDiff \/ SweepHeal \/ SweepDone \/ Ingest(Sweep)

Next ==
  \/ Arrive \/ DrainStep \/ SweepStep \/ Die
  \/ \E s \in Sessions : Ask(s) \/ Serve(s)

Spec == Init /\ [][Next]_vars

\* The drain and the sweep come round by their timers, and a command that began is
\* carried on by the runtime; nobody has to ask for one.
FairSpec ==
  /\ Spec /\ WF_vars(DrainStep) /\ WF_vars(SweepStep)
  /\ \A s \in Sessions : WF_vars(Serve(s))

-----------------------------------------------------------------------------
(* Properties *)

\* Every variable has its type.
TypeOK ==
  /\ home \in [Names -> Folders \cup {None}] /\ mid \in [Names -> Mids \cup {None}]
  /\ counter \in 0..MaxUid /\ rev \in [Keys -> 0..MaxUid]
  /\ issued \in [Uids -> Keys \cup {None}]
  /\ cache \in [Names -> 0..MaxUid] /\ list \in [Names -> 0..MaxUid]
  /\ row \in [Mids -> [file : Names \cup {None}, uid : 0..MaxUid]]
  /\ files \in [Mids -> SUBSET Names] /\ conv \subseteq Mids
  /\ spool \in Names \cup {None} /\ act \in [Actors -> Works]
  /\ events \in 0..MaxEvents
  /\ shown \subseteq [box : Folders, uid : Uids, message : Mids]
  /\ taken \subseteq Mids

\* A uid a client was ever told of, in a listing or in a COPYUID, means the same
\* message for ever: whatever was expunged, delivered again, moved, indexed by two
\* sessions at once or cut by a death in between (imap/backend/mod.rs, "never reused
\* after expunge"; modseq.rs, resolve_uid).
OneMeaning ==
  \A a, b \in shown : a.box = b.box /\ a.uid = b.uid => a.message = b.message

\* No two files of one listing share a uid, and the UIDNEXT announced with it is
\* above them all, though other sessions take uids meanwhile (modseq.rs, uid_next:
\* "strictly greater than every uid in every mailbox").
ListingSound ==
  \A s \in Sessions :
    /\ \A f, g \in Listed(s) : act[s].got[f] = act[s].got[g] => f = g
    /\ act[s].next # 0 => \A f \in Listed(s) : act[s].got[f] < act[s].next

\* A message that was delivered and that no client expunged has a file in some
\* mailbox, through moves of one file by two sessions and a death at any step
\* (flags.rs, move_to: the copy first).
NothingLost ==
  \A f \in Names : mid[f] # None /\ mid[f] \notin taken =>
    \E g \in Names : mid[g] = mid[f] /\ OnDisk(g)

\* A message with a file on disk is in the index in the end, or its files are gone:
\* after a death between the file and the row, and after an expunge that took the
\* row of a message that came in meanwhile (ingest_loop.rs, the sweep "must run").
Visible ==
  \A m \in Mids :
    (\E f \in Names : mid[f] = m /\ OnDisk(f))
      ~> (m \in conv \/ \A f \in Names : mid[f] = m => ~OnDisk(f))

\* The file a row is pointed at when its own was expunged is on disk: "otherwise the
\* row is pointed at one that is" (forget_message.rs:31-34).
KeptIsThere ==
  \A s \in Sessions : At(s, "repoint") /\ act[s].new # None => OnDisk(act[s].new)
=============================================================================
