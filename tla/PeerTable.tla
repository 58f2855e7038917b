----------------------------- MODULE PeerTable ------------------------------
(***************************************************************************)
(* The mesh daemon's in-memory peer table (mesh/rpi_pod_mesh/peers.py) and *)
(* everything that touches it in one life of the process: the LoRa read    *)
(* threads (_on_lora_frame), the Wi-Fi poll threads (_on_wifi_peer) and    *)
(* the request threads of /peers and /peers/{fp}/{trust,block}.  There may *)
(* be several threads of a radio, for two calls of _ensure_bridges can     *)
(* each attach one, and a LoRa envelope may name any sender, a "BAT:"      *)
(* fingerprint included.                                                   *)
(*                                                                         *)
(* The table has no lock.  CPython may switch threads at a call, so a step *)
(* here ends at each dict lookup and each Peer() construction; straight    *)
(* attribute code between two calls is one step.  An entry is an object:   *)
(* a thread that finds none builds its own and stores it over whatever is  *)
(* there by then, so heap[f][t] is the Peer of f that thread t built and   *)
(* table[f] names the thread whose object the dict holds.  What is written *)
(* to an object that is then stored over is gone; an entry is Settled once *)
(* no thread that found none is still to store its own.                    *)
(*                                                                         *)
(* Left out: display_name, radio, last_rssi and last_seen_ts, which no     *)
(* step reads back.                                                        *)
(***************************************************************************)
EXTENDS Naturals, Sequences

CONSTANTS
  Fingerprints, \* senders a LoRa envelope may name
  WifiPeers,    \* of those, the "BAT:" fingerprints of BATMAN originators
  LoraThreads,  \* LoRa read threads alive in the process
  WifiThreads,  \* Wi-Fi poll threads alive in the process
  Workers,      \* request threads serving the owner
  MaxSeq,       \* bound: sequence numbers a frame may carry
  MaxAccepts,   \* bound: frames of one sender noted in the history
  None          \* no entry, no work in hand, no decision

Threads    == LoraThreads \cup WifiThreads
Decisions  == {"trusted", "blocked"}
TrustState == {"unverified"} \cup Decisions

\* A radio thread inside its callback, and a request that found its peer;
\* firm notes whether the entry was settled when it was looked up.
Jobs == [at : {"check", "upsert", "create"}, fp : Fingerprints, seq : 0..MaxSeq,
         ref : Threads \cup {None}, firm : BOOLEAN]

Requests == [fp : Fingerprints, verdict : Decisions, ref : Threads, firm : BOOLEAN]

Upserting(f) == [at |-> "upsert", fp |-> f, seq |-> 0, ref |-> None, firm |-> FALSE]

ASSUME PeerTableAssumption ==
  /\ WifiPeers \subseteq Fingerprints
  /\ LoraThreads \cap WifiThreads = {}
  /\ MaxSeq \in Nat /\ MaxAccepts \in Nat
  /\ None \notin Threads \cup TrustState
  /\ None \notin Jobs /\ None \notin Requests

Peer    == [trust : TrustState, last_seq : 0..MaxSeq]

\* Variant: an entry whose trust is left unset.
UnsetPeer == [trust |-> None, last_seq |-> 0]
NewPeer   == [trust |-> "unverified", last_seq |-> 0]

\* The replay rule: a frame counts when its number beats the entry's.
\* Variants: the boundary admitted, and any difference taken for news.
NewerOrSame(n, seen) == n >= seen
Different(n, seen)   == n # seen
Newer(n, seen)       == n > seen

VARIABLES
  table,      \* PeerTable._by_fp
  heap,       \* the Peer objects
  job,        \* job[t]: where radio thread t is in its callback, or None
  request,    \* request[w]: the peer object worker w looked up, or None
  accepted,   \* history: numbers taken at each sender's settled entry, in order
  decision    \* history: the owner's last acknowledged decision per peer, or
              \* None when its lookup came before the entry was settled

vars == <<table, heap, job, request, accepted, decision>>

Known(f) == table[f] # None
Entry(f) == heap[f][table[f]]

At(t, place) == job[t] # None /\ job[t].at = place

\* The object the dict holds for f is the last one it will hold.
Settled(f) == Known(f) /\ \A t \in Threads : At(t, "create") => job[t].fp # f

Init ==
  /\ table = [f \in Fingerprints |-> None]
  /\ heap = [f \in Fingerprints |-> [t \in Threads |-> NewPeer]]
  /\ job = [t \in Threads |-> None]
  /\ request = [w \in Workers |-> None]
  /\ accepted = [s \in Fingerprints |-> <<>>]
  /\ decision = [f \in Fingerprints |-> None]

-----------------------------------------------------------------------------
(* _on_lora_frame.  A frame that is no envelope, names no sender or has no *)
(* integer seq changes nothing and is left out.                            *)

\* accept_sequence finds no entry and lets the frame through.
FirstContact(t, s) ==
  /\ job[t] = None
  /\ ~Known(s)
  /\ job' = [job EXCEPT ![t] = Upserting(s)]
  /\ UNCHANGED <<table, heap, request, accepted, decision>>

\* accept_sequence finds the entry; the comparison is still to come.
LookUpSender(t, s, n) ==
  /\ job[t] = None
  /\ Known(s)
  /\ Len(accepted[s]) < MaxAccepts
  /\ job' = [job EXCEPT ![t] = [at |-> "check", fp |-> s, seq |-> n, ref |-> table[s],
                                firm |-> Settled(s)]]
  /\ UNCHANGED <<table, heap, request, accepted, decision>>

\* seq <= last_seq: a replay, dropped.
DropFrame(t) ==
  /\ At(t, "check")
  /\ ~Newer(job[t].seq, heap[job[t].fp][job[t].ref].last_seq)
  /\ job' = [job EXCEPT ![t] = None]
  /\ UNCHANGED <<table, heap, request, accepted, decision>>

\* seq > last_seq: remembered and let through.
AcceptFrame(t) ==
  /\ At(t, "check")
  /\ Newer(job[t].seq, heap[job[t].fp][job[t].ref].last_seq)
  /\ heap' = [heap EXCEPT ![job[t].fp][job[t].ref].last_seq = job[t].seq]
  /\ accepted' = IF job[t].firm
                  THEN [accepted EXCEPT ![job[t].fp] = Append(@, job[t].seq)]
                  ELSE accepted
  /\ job' = [job EXCEPT ![t] = Upserting(job[t].fp)]
  /\ UNCHANGED <<table, request, decision>>

\* _on_wifi_peer: one line of `batctl o`.
OriginatorSeen(t, f) ==
  /\ job[t] = None
  /\ job' = [job EXCEPT ![t] = Upserting(f)]
  /\ UNCHANGED <<table, heap, request, accepted, decision>>

-----------------------------------------------------------------------------
(* PeerTable.upsert, reached from both radios.                             *)

\* Variant: a peer seen again is written afresh.
Rewrite(t) ==
  /\ At(t, "upsert")
  /\ Known(job[t].fp)
  /\ heap' = [heap EXCEPT ![job[t].fp][table[job[t].fp]].trust = "unverified"]
  /\ job' = [job EXCEPT ![t] = None]
  /\ UNCHANGED <<table, request, accepted, decision>>

\* The entry is there: its radio, rssi and last_seen_ts are refreshed.
Refresh(t) ==
  /\ At(t, "upsert")
  /\ Known(job[t].fp)
  /\ job' = [job EXCEPT ![t] = None]
  /\ UNCHANGED <<table, heap, request, accepted, decision>>

\* The entry is not there when the dict is read ...
FindNone(t) ==
  /\ At(t, "upsert")
  /\ ~Known(job[t].fp)
  /\ job' = [job EXCEPT ![t].at = "create"]
  /\ UNCHANGED <<table, heap, request, accepted, decision>>

\* ... so a new Peer is stored, whatever the dict holds by now.
Create(t) ==
  /\ At(t, "create")
  /\ heap' = [heap EXCEPT ![job[t].fp][t] = NewPeer]
  /\ table' = [table EXCEPT ![job[t].fp] = t]
  /\ job' = [job EXCEPT ![t] = None]
  /\ UNCHANGED <<request, accepted, decision>>

-----------------------------------------------------------------------------
(* The owner, past the token check.  An unknown fingerprint is a 404.      *)

OwnerLookUp(w, f, d) ==
  /\ request[w] = None
  /\ Known(f)
  /\ request' = [request EXCEPT ![w] = [fp |-> f, verdict |-> d, ref |-> table[f],
                                        firm |-> Settled(f)]]
  /\ UNCHANGED <<table, heap, job, accepted, decision>>

\* mark_trusted / mark_blocked write the object and the request is a 200.
OwnerMark(w) ==
  /\ request[w] # None
  /\ LET r == request[w] IN
       /\ heap' = [heap EXCEPT ![r.fp][r.ref].trust = r.verdict]
       /\ decision' = [decision EXCEPT ![r.fp] = IF r.firm THEN r.verdict ELSE None]
  /\ request' = [request EXCEPT ![w] = None]
  /\ UNCHANGED <<table, job, accepted>>

-----------------------------------------------------------------------------

LoraStep(t) ==
  \/ \E s \in Fingerprints : FirstContact(t, s) \/ \E n \in 0..MaxSeq : LookUpSender(t, s, n)
  \/ DropFrame(t)
  \/ AcceptFrame(t)

WifiStep(t) == \E f \in WifiPeers : OriginatorSeen(t, f)

UpsertStep(t) == Refresh(t) \/ FindNone(t) \/ Create(t)

OwnerStep(w) ==
  \/ \E f \in Fingerprints, d \in Decisions : OwnerLookUp(w, f, d)
  \/ OwnerMark(w)

Next ==
  \/ \E t \in LoraThreads : LoraStep(t)
  \/ \E t \in WifiThreads : WifiStep(t)
  \/ \E t \in Threads : UpsertStep(t)
  \/ \E w \in Workers : OwnerStep(w)

Spec == Init /\ [][Next]_vars

-----------------------------------------------------------------------------
(* Properties.                                                             *)

\* Every variable holds values of its kind (the Peer fields of peers.py:30-38).
TypeOK ==
  /\ table \in [Fingerprints -> Threads \cup {None}]
  /\ heap \in [Fingerprints -> [Threads -> Peer]]
  /\ job \in [Threads -> Jobs \cup {None}]
  /\ request \in [Workers -> Requests \cup {None}]
  /\ accepted \in [Fingerprints -> Seq(0..MaxSeq)]
  /\ decision \in [Fingerprints -> Decisions \cup {None}]

\* Replay protection at a settled entry: of the frames whose lookup came once
\* every thread that had found no entry had stored its own, each is newer than
\* all of them let through before it, whichever thread reads it and however
\* many lookups are in flight (accept_sequence).  Frames of the first contact,
\* of which each thread may let one through, are not covered.
AcceptsIncrease ==
  \A s \in Fingerprints : \A i, j \in DOMAIN accepted[s] :
     i < j => accepted[s][i] < accepted[s][j]

\* A trust or block acknowledged with 200 whose lookup came once the entry was
\* settled is what the table holds until the owner's next answer about this
\* peer: no frame, poll or upsert of any thread, begun before or after it,
\* loses it (mark_trusted, mark_blocked against upsert).  One that was looked
\* up while a thread was still to store its own object may be lost.
DecisionsStick ==
  \A f \in Fingerprints :
     decision[f] # None => Known(f) /\ Entry(f).trust = decision[f]

\* The table implements the one-step registry: several threads that find no
\* entry and each store one, lookups in flight, and a comparison or a mark made
\* on an object that is no longer the table's still add up to meeting (again,
\* until the entry is settled), advancing and deciding.
TrustOf == [f \in Fingerprints |-> IF Known(f) THEN Entry(f).trust ELSE None]
MarkOf  == [f \in Fingerprints |-> IF Known(f) THEN Entry(f).last_seq ELSE 0]

MetOf   == [f \in Fingerprints |-> Settled(f)]

Registry == INSTANCE PeerRegistry WITH
  Peers <- Fingerprints, Numbers <- 0..MaxSeq, Unknown <- None,
  trust <- TrustOf, mark <- MarkOf, met <- MetOf

ImplementsRegistry == Registry!Spec

=============================================================================
