----------------------------- MODULE NotesBoard -----------------------------
(***************************************************************************)
(* The notes board (notes/rpi_pod_notes): request threads posting notes    *)
(* through the rate limit into one SQLite connection and on to the mesh    *)
(* daemon, the owner deleting and wiping, a clock that moves on between    *)
(* any two steps, and a daemon that systemd restarts on an empty tmpfs.    *)
(*                                                                         *)
(* A step of a post ends where the thread lets go: at each SQL statement,  *)
(* at each reading of the clock, inside the INSERT between its execution   *)
(* and the reading of the connection's last rowid, and at the call to the  *)
(* mesh.  Nothing keeps a client from posting twice at once.  A note       *)
(* refused by validation changes nothing and is left out; text and name    *)
(* are told apart only by which post they belong to.                       *)
(***************************************************************************)
EXTENDS Integers, Sequences, FiniteSets

CONSTANTS
  Workers,      \* request threads
  Clients,      \* IP addresses notes are posted from
  ShortWindow, LongWindow,  \* WINDOW_SHORT_S, WINDOW_LONG_S, in ticks
  LimitShort, LimitLong,    \* LIMIT_SHORT, LIMIT_LONG
  MaxTime,      \* bound: the clock
  MaxPosts,     \* bound: notes stored in one life of the daemon
  None          \* no post in hand

Places == {"short", "long", "stamp", "insert", "rowid", "mesh"}
Calls  == [at : Places, ip : Clients, now : Nat, seen : Nat, post : Nat, id : Nat]

ASSUME NotesBoardAssumption ==
  /\ IsFiniteSet(Workers)
  /\ ShortWindow \in Nat /\ LongWindow \in Nat
  /\ LimitShort \in Nat \ {0} /\ LimitLong \in Nat \ {0}
  /\ MaxTime \in Nat /\ MaxPosts \in Nat
  /\ None \notin Calls

VARIABLES
  clock,        \* time.time()
  rows,         \* the notes table: which posts it holds
  next_id,      \* the id AUTOINCREMENT gives next
  last_rowid,   \* the connection's last_insert_rowid
  call,         \* call[w]: the post thread w is serving, or None
  posts,        \* history: every note of this life, whether or not it still is
                \* there, and how many had been stored when its request came in
  handed,       \* history: how often the mesh daemon took each post
  replies       \* history: the 201 answers, post and id

vars == <<clock, rows, next_id, last_rowid, call, posts, handed, replies>>

Times == 0..MaxTime
Ids   == 1..MaxPosts

Init ==
  /\ clock = 0
  /\ rows = {} /\ next_id = 1 /\ last_rowid = 0
  /\ call = [w \in Workers |-> None]
  /\ posts = <<>> /\ handed = [p \in Ids |-> 0] /\ replies = {}

database == <<rows, next_id, last_rowid>>
history  == <<posts, handed, replies>>

At(w, place) == call[w] # None /\ call[w].at = place
GoTo(w, place) == call' = [call EXCEPT ![w].at = place]

\* count_by_ip_since.  Variant: it counts what lies after the instant only.
CountAfter(c, since) == Cardinality({p \in rows : posts[p].ip = c /\ posts[p].ts > since})
Count(c, since)      == Cardinality({p \in rows : posts[p].ip = c /\ posts[p].ts >= since})

-----------------------------------------------------------------------------
(* post_note.                                                              *)

\* A valid note arrives; rate_limit.check reads the clock.
BeginPost(w, c) ==
  /\ call[w] = None
  /\ Len(posts) < MaxPosts
  /\ call' = [call EXCEPT ![w] = [at |-> "short", ip |-> c, now |-> clock, seen |-> Len(posts),
                                  post |-> 0, id |-> 0]]
  /\ UNCHANGED <<clock, database, history>>

\* One window of the check: 429, or on to the next step.
Check(w, window, limit, next) ==
  /\ IF Count(call[w].ip, call[w].now - window) >= limit
       THEN call' = [call EXCEPT ![w] = None]
       ELSE GoTo(w, next)
  /\ UNCHANGED <<clock, database, history>>

\* Variant: a post within the short limit is stored without the long count.
CheckShortOnly(w) == At(w, "short") /\ Check(w, ShortWindow, LimitShort, "stamp")
CheckShort(w)     == At(w, "short") /\ Check(w, ShortWindow, LimitShort, "long")

\* Variant: the ceiling lets one more through.
CheckLongLate(w) == At(w, "long") /\ Check(w, LongWindow, LimitLong + 1, "stamp")
CheckLong(w)     == At(w, "long") /\ Check(w, LongWindow, LimitLong, "stamp")

\* storage.insert reads the clock again ...
Stamp(w) ==
  /\ At(w, "stamp")
  /\ call' = [call EXCEPT ![w].at = "insert", ![w].now = clock]
  /\ UNCHANGED <<clock, database, history>>

\* Variants: the id given last; ids without AUTOINCREMENT, one above the
\* largest in the table.
LastId == next_id - 1
IdAfterLargest ==
  IF rows = {} THEN 1
  ELSE (CHOOSE n \in {posts[p].id : p \in rows} : \A p \in rows : posts[p].id <= n) + 1
NextId == next_id

\* ... and the row goes in.
Insert(w) ==
  /\ At(w, "insert")
  /\ Len(posts) < MaxPosts
  /\ posts' = Append(posts, [ip |-> call[w].ip, ts |-> call[w].now, id |-> NextId,
                             seen |-> call[w].seen])
  /\ rows' = rows \cup {Len(posts')}
  /\ last_rowid' = NextId
  /\ next_id' = NextId + 1
  /\ call' = [call EXCEPT ![w] = [at |-> "rowid", ip |-> call[w].ip, now |-> 0, seen |-> 0,
                                  post |-> Len(posts'), id |-> 0]]
  /\ UNCHANGED <<clock, handed, replies>>

\* execute() runs the statement and then asks the connection for its last rowid,
\* letting other threads run at both: the answer is that of whoever inserted last.
ReadRowid(w) ==
  /\ At(w, "rowid")
  /\ call' = [call EXCEPT ![w].at = "mesh", ![w].id = last_rowid]
  /\ UNCHANGED <<clock, database, history>>

Deliver(w, taken) ==
  handed' = IF taken THEN [handed EXCEPT ![call[w].post] = @ + 1] ELSE handed

Reply(w) ==
  /\ replies' = replies \cup {[post |-> call[w].post, id |-> call[w].id]}
  /\ call' = [call EXCEPT ![w] = None]

\* Variant: a handover that times out is tried again.
HandOverRetrying(w, taken, answered) ==
  /\ At(w, "mesh")
  /\ Deliver(w, taken)
  /\ IF answered THEN Reply(w) ELSE UNCHANGED <<call, replies>>
  /\ UNCHANGED <<clock, database, posts>>

\* mesh_client.publish: the mesh daemon takes the note or not, and answers
\* within 0.5 s or not; either way the client gets its 201.
HandOver(w, taken, answered) ==
  /\ At(w, "mesh")
  /\ Deliver(w, taken)
  /\ Reply(w)
  /\ UNCHANGED <<clock, database, posts>>

-----------------------------------------------------------------------------
(* The owner, past the token check; an id not in the table is a 404.       *)

DeleteNote(p) ==
  /\ rows' = rows \ {p}
  /\ UNCHANGED <<clock, next_id, last_rowid, call, history>>

Wipe ==
  /\ rows # {}
  /\ rows' = {}
  /\ UNCHANGED <<clock, next_id, last_rowid, call, history>>

-----------------------------------------------------------------------------

Tick ==
  /\ clock < MaxTime
  /\ clock' = clock + 1
  /\ UNCHANGED <<database, call, history>>

\* The daemon dies; Restart=on-failure starts it on a fresh RuntimeDirectory.  No
\* note, id or request outlives it, so the history starts afresh with it.
Restart ==
  /\ rows' = {} /\ next_id' = 1 /\ last_rowid' = 0
  /\ call' = [w \in Workers |-> None]
  /\ posts' = <<>> /\ handed' = [p \in Ids |-> 0] /\ replies' = {}
  /\ UNCHANGED clock

PostStep(w) ==
  \/ CheckShort(w) \/ CheckLong(w) \/ Stamp(w) \/ Insert(w) \/ ReadRowid(w)
  \/ \E taken, answered \in BOOLEAN : HandOver(w, taken, answered)

Next ==
  \/ \E w \in Workers : PostStep(w) \/ \E c \in Clients : BeginPost(w, c)
  \/ \E p \in rows : DeleteNote(p)
  \/ Wipe \/ Tick \/ Restart

Spec == Init /\ [][Next]_vars

-----------------------------------------------------------------------------
(* Properties.                                                             *)

\* Every variable holds values of its kind.
TypeOK ==
  /\ clock \in Times
  /\ posts \in Seq([ip : Clients, ts : Times, id : Ids, seen : 0..MaxPosts])
  /\ rows \subseteq DOMAIN posts
  /\ next_id \in 1..(MaxPosts + 1) /\ last_rowid \in 0..MaxPosts
  /\ call \in [Workers -> Calls \cup {None}]
  /\ handed \in [Ids -> Nat]
  /\ replies \subseteq [post : DOMAIN posts, id : Ids]

\* With LIMIT_SHORT 1, two notes of one client that the board shows less than a
\* short window apart were posted at the same time: the second's request came in
\* before the first was stored.  A client that awaits its answer is held to the
\* limit, whatever the two readings of the clock and the two counts of a post
\* see of other clients, the owner and the clock (rate_limit.check).
VisibleSpacing ==
  \A p, q \in rows :
     p < q /\ posts[p].ip = posts[q].ip /\ posts[q].ts - posts[p].ts <= ShortWindow
       => posts[q].seen < p

\* Within one long window the board shows at most the ceiling of one client's
\* notes and one more for each further request thread: posts that are counted
\* at the same time pass together, and there are only so many.
VisibleCeiling ==
  \A q \in rows :
     Cardinality({p \in rows : /\ posts[p].ip = posts[q].ip
                               /\ posts[p].ts \in (posts[q].ts - LongWindow)..posts[q].ts})
       <= LimitLong + Cardinality(Workers) - 1

\* While the daemon lives an id belongs to one note for good: a page that still
\* shows a deleted note cannot make the owner delete a later one (AUTOINCREMENT).
IdsNeverReused ==
  \A p, q \in DOMAIN posts :
     p # q => posts[p].id # posts[q].id

\* A note reaches the mesh at most once, also when the mesh took it and its
\* answer came too late.
HandedOnce ==
  \A p \in Ids : handed[p] <= 1

\* The ceiling as rate_limit.py states it, with deleted notes counted for as long
\* as an older one is there to show that the table has not been emptied.
PostsCeiling ==
  \A p \in rows :
     Cardinality({q \in p..Len(posts) : /\ posts[q].ip = posts[p].ip
                                        /\ posts[q].ts \in posts[p].ts..(posts[p].ts + LongWindow)})
       <= LimitLong

-----------------------------------------------------------------------------
(* Refinement of the one-step board.                                       *)

OnMesh == {p \in DOMAIN posts : handed[p] > 0}

Board == INSTANCE SharedBoard WITH
  AtOnce <- Cardinality(Workers),
  time <- clock, posted <- posts, shown <- rows, onMesh <- OnMesh, answers <- replies

\* A post with its two counts, its two readings of the clock and its INSERT is
\* one step of the board, which may not have looked at what was stored since its
\* request came in; a hand-over with its answer is another, which may name a
\* later note.  What other clients, the owner and a restart do in between cannot
\* be seen in the notes, nor that several posts of one client overlap.
ImplementsBoard == Board!Spec

=============================================================================
