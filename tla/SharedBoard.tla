---------------------------- MODULE SharedBoard ------------------------------
(***************************************************************************)
(* What the notes board promises in a life of the daemon, with every      *)
(* operation in one step: a note is counted, against what there was when   *)
(* its request came in, and stored after the notes it was counted with,    *)
(* under an id above all those given before; it reaches the mesh once, or  *)
(* never, and is answered once, by its own id or that of a later note.     *)
(* NotesBoard is the code, cut where its threads can interleave.           *)
(***************************************************************************)
EXTENDS Integers, Sequences, FiniteSets

CONSTANTS
  Clients,                  \* addresses notes are posted from
  AtOnce,                   \* how many notes can be posted at the same time
  ShortWindow, LongWindow,  \* the windows of the rate limit
  LimitShort, LimitLong     \* and what fits into them

VARIABLES
  time,
  posted,     \* every note there has been, in the order they were stored
  shown,      \* the places in posted of those on the board
  onMesh,     \* the places of those the mesh has
  answers     \* what clients were told: the place of a note and an id

vars == <<time, posted, shown, onMesh, answers>>

Empty == posted = <<>> /\ shown = {} /\ onMesh = {} /\ answers = {}

Init == time = 0 /\ Empty

\* The notes of this client on the board among the first n.
Before(c, n) == {p \in shown : p <= n /\ posted[p].ip = c}

\* How many of them are no older than that.
Recent(c, n, since) == Cardinality({p \in Before(c, n) : posted[p].ts >= since})

\* The notes stored after the first n that were not counted against more than n.
Across(n) == {p \in DOMAIN posted : n < p /\ posted[p].seen <= n}

\* A note is counted against the first n there are, of the later ones having
\* missed no more than can be posted at once, and stored under a new id, with a
\* time that is past and not before those it was counted with.
Post(c) ==
  /\ shown' = shown \cup {Len(posted) + 1}
  /\ \E ts \in 0..time, id \in 1..(Len(posted) + 1), n \in 0..Len(posted) :
       /\ posted' = Append(posted, [ip |-> c, ts |-> ts, id |-> id, seen |-> n])
       /\ \A p \in DOMAIN posted : posted[p].id < id
       /\ \A m \in n..Len(posted) : Cardinality(Across(m)) < AtOnce
       /\ \A p \in Before(c, n) : posted[p].ts <= ts
       /\ Recent(c, n, ts - ShortWindow) < LimitShort
       /\ Recent(c, n, ts - LongWindow) < LimitLong
  /\ UNCHANGED <<time, onMesh, answers>>

\* A note, whether or not it is still shown, is offered to the mesh, which takes
\* it or not, and is answered.
Answer(p, taken) ==
  /\ p \notin onMesh /\ \A a \in answers : a.post # p
  /\ onMesh' = IF taken THEN onMesh \cup {p} ELSE onMesh
  /\ \E n \in p..Len(posted) : answers' = answers \cup {[post |-> p, id |-> posted[n].id]}
  /\ UNCHANGED <<time, posted, shown>>

\* The owner takes a note down, or all of them.
TakeDown(gone) ==
  /\ shown' = shown \ gone
  /\ UNCHANGED <<time, posted, onMesh, answers>>

Pass ==
  /\ time' = time + 1
  /\ UNCHANGED <<posted, shown, onMesh, answers>>

\* The daemon dies and comes back with an empty board.
ComeBack == Empty' /\ UNCHANGED time

Next ==
  \/ \E c \in Clients : Post(c)
  \/ \E p \in DOMAIN posted, taken \in BOOLEAN : Answer(p, taken)
  \/ \E p \in shown : TakeDown({p})
  \/ TakeDown(shown)
  \/ Pass \/ ComeBack

Spec == Init /\ [][Next]_vars
=============================================================================
