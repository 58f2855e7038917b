--------------------------- MODULE PeerTableProofs --------------------------
(***************************************************************************)
(* Theorems about PeerTable, for any sets of senders, radio threads and     *)
(* request threads and any bounds.                                         *)
(***************************************************************************)
EXTENDS PeerTable, TLAPS

\* What a lookup at a settled entry found still holds when it is used.
JobsCurrent ==
  \A t \in Threads : job[t] # None /\ job[t].firm =>
     Settled(job[t].fp) /\ job[t].ref = table[job[t].fp]

RequestsCurrent ==
  \A w \in Workers : request[w] # None /\ request[w].firm =>
     Settled(request[w].fp) /\ request[w].ref = table[request[w].fp]

\* Numbers are noted at settled entries only, and last_seq bounds them.
SeqBounds ==
  \A s \in Fingerprints : \A i \in DOMAIN accepted[s] :
     Settled(s) /\ accepted[s][i] <= Entry(s).last_seq

\* So are decisions.
DecisionsSettled == \A f \in Fingerprints : decision[f] # None => Settled(f)

IInv ==
  /\ TypeOK
  /\ JobsCurrent
  /\ RequestsCurrent
  /\ SeqBounds
  /\ AcceptsIncrease
  /\ DecisionsSettled
  /\ DecisionsStick

-----------------------------------------------------------------------------

USE PeerTableAssumption

\* Writing one field of one object leaves the heap a heap of peers.
LEMMA WriteSeq ==
  ASSUME NEW h \in [Fingerprints -> [Threads -> Peer]], NEW f \in Fingerprints,
         NEW r, NEW n \in 0..MaxSeq
  PROVE  [h EXCEPT ![f][r].last_seq = n] \in [Fingerprints -> [Threads -> Peer]]
<1>1. ASSUME r \in Threads
      PROVE  [h[f][r] EXCEPT !.last_seq = n] \in Peer
  BY <1>1 DEF Peer
<1>2. [h[f] EXCEPT ![r] = [h[f][r] EXCEPT !.last_seq = n]] \in [Threads -> Peer]
  BY <1>1
<1> QED
  BY <1>2

\* The same of a trust mark.
LEMMA WriteTrust ==
  ASSUME NEW h \in [Fingerprints -> [Threads -> Peer]], NEW f \in Fingerprints,
         NEW r, NEW d \in TrustState
  PROVE  [h EXCEPT ![f][r].trust = d] \in [Fingerprints -> [Threads -> Peer]]
<1>1. ASSUME r \in Threads
      PROVE  [h[f][r] EXCEPT !.trust = d] \in Peer
  BY <1>1 DEF Peer
<1>2. [h[f] EXCEPT ![r] = [h[f][r] EXCEPT !.trust = d]] \in [Threads -> Peer]
  BY <1>1
<1> QED
  BY <1>2

\* A thread about to upsert is in a callback.
LEMMA UpsertingType == \A f \in Fingerprints : Upserting(f) \in Jobs
BY DEF Upserting, Jobs

\* Every step of every thread keeps the values in their kinds.
LEMMA TypeStep == TypeOK /\ [Next]_vars => TypeOK'
<1> SUFFICES ASSUME TypeOK, [Next]_vars PROVE TypeOK'
  OBVIOUS
<1>1. ASSUME NEW t \in LoraThreads, NEW s \in Fingerprints, FirstContact(t, s)
      PROVE  TypeOK'
  BY <1>1, UpsertingType DEF TypeOK, FirstContact
<1>2. ASSUME NEW t \in LoraThreads, NEW s \in Fingerprints, NEW n \in 0..MaxSeq,
             LookUpSender(t, s, n)
      PROVE  TypeOK'
  <2>1. Settled(s) \in BOOLEAN
    BY DEF Settled, Known
  <2>2. [at |-> "check", fp |-> s, seq |-> n, ref |-> table[s], firm |-> Settled(s)] \in Jobs
    BY <1>2, <2>1 DEF TypeOK, Jobs
  <2> QED
    BY <1>2, <2>2 DEF TypeOK, LookUpSender
<1>3. ASSUME NEW t \in LoraThreads, DropFrame(t)
      PROVE  TypeOK'
  BY <1>3 DEF TypeOK, DropFrame
<1>4. ASSUME NEW t \in LoraThreads, AcceptFrame(t)
      PROVE  TypeOK'
  <2>1. /\ job[t] \in Jobs
        /\ job[t].fp \in Fingerprints
        /\ job[t].seq \in 0..MaxSeq
    BY <1>4 DEF TypeOK, At, Jobs, AcceptFrame, Threads
  <2>2. heap' \in [Fingerprints -> [Threads -> Peer]]
    BY <1>4, <2>1, WriteSeq DEF TypeOK, AcceptFrame, Jobs
  <2>3. job' \in [Threads -> Jobs \cup {None}]
    BY <1>4, <2>1, UpsertingType DEF TypeOK, AcceptFrame
  <2>4. ASSUME NEW s \in Fingerprints
        PROVE  Append(accepted[s], job[t].seq) \in Seq(0..MaxSeq)
    BY <2>1 DEF TypeOK
  <2>5. accepted' \in [Fingerprints -> Seq(0..MaxSeq)]
    BY <1>4, <2>4 DEF TypeOK, AcceptFrame
  <2> QED
    BY <1>4, <2>2, <2>3, <2>5 DEF TypeOK, AcceptFrame
<1>5. ASSUME NEW t \in WifiThreads, NEW f \in WifiPeers, OriginatorSeen(t, f)
      PROVE  TypeOK'
  BY <1>5, UpsertingType, PeerTableAssumption DEF TypeOK, OriginatorSeen
<1>6. ASSUME NEW t \in Threads, Refresh(t)
      PROVE  TypeOK'
  BY <1>6 DEF TypeOK, Refresh
<1>7. ASSUME NEW t \in Threads, FindNone(t)
      PROVE  TypeOK'
  <2>1. job[t] \in Jobs
    BY <1>7 DEF TypeOK, At, FindNone
  <2>2. [job[t] EXCEPT !.at = "create"] \in Jobs
    BY <2>1 DEF Jobs
  <2> QED
    BY <1>7, <2>2 DEF TypeOK, FindNone
<1>8. ASSUME NEW t \in Threads, Create(t)
      PROVE  TypeOK'
  BY <1>8 DEF TypeOK, At, Jobs, Peer, TrustState, Create, NewPeer
<1>9. ASSUME NEW w \in Workers, NEW f \in Fingerprints, NEW d \in Decisions, OwnerLookUp(w, f, d)
      PROVE  TypeOK'
  <2>1. Settled(f) \in BOOLEAN
    BY DEF Settled, Known
  <2>2. [fp |-> f, verdict |-> d, ref |-> table[f], firm |-> Settled(f)] \in Requests
    BY <1>9, <2>1 DEF TypeOK, Known, Requests, OwnerLookUp
  <2> QED
    BY <1>9, <2>2 DEF TypeOK, OwnerLookUp
<1>10. ASSUME NEW w \in Workers, OwnerMark(w)
       PROVE  TypeOK'
  <2>1. /\ request[w] \in Requests
        /\ request[w].fp \in Fingerprints
        /\ request[w].ref \in Threads
        /\ request[w].verdict \in Decisions
    BY <1>10 DEF TypeOK, Requests, OwnerMark
  <2>2. heap' \in [Fingerprints -> [Threads -> Peer]]
    BY <1>10, <2>1, WriteTrust DEF TypeOK, TrustState, OwnerMark
  <2> QED
    BY <1>10, <2>1, <2>2 DEF TypeOK, OwnerMark
<1>11. CASE UNCHANGED vars
  BY <1>11 DEF TypeOK, vars
<1>12. CASE \E t \in LoraThreads : LoraStep(t)
  BY <1>12, <1>1, <1>2, <1>3, <1>4 DEF LoraStep
<1>13. CASE \E t \in WifiThreads : WifiStep(t)
  BY <1>13, <1>5 DEF WifiStep
<1>14. CASE \E t \in Threads : UpsertStep(t)
  BY <1>14, <1>6, <1>7, <1>8 DEF UpsertStep
<1>15. CASE \E w \in Workers : OwnerStep(w)
  BY <1>15, <1>9, <1>10 DEF OwnerStep
<1> QED
  BY <1>11, <1>12, <1>13, <1>14, <1>15 DEF Next

\* The table, the callbacks and the requests stay well-typed in every run.
THEOREM TypeCorrect == Spec => []TypeOK
<1>1. Init => TypeOK
  BY DEF Init, TypeOK, Peer, NewPeer, TrustState, Decisions
<1> QED
  BY <1>1, TypeStep, PTL DEF Spec

-----------------------------------------------------------------------------
(* An entry once settled stays so: no thread that finds an entry stores    *)
(* one, and none is left that found nothing.                               *)

\* A step that moves no thread to its create and touches no table.
LEMMA SameSettled ==
  ASSUME UNCHANGED table,
         \A u \in Threads : At(u, "create")' <=> At(u, "create"),
         \A u \in Threads : At(u, "create") => job'[u].fp = job[u].fp
  PROVE  \A f \in Fingerprints : Settled(f)' <=> Settled(f)
BY DEF Settled, Known, At

\* A thread that goes from a place other than its create to another such.
LEMMA MovedSettled ==
  ASSUME TypeOK, UNCHANGED table, NEW t \in Threads, ~At(t, "create"), NEW j,
         j = None \/ j.at # "create", job' = [job EXCEPT ![t] = j]
  PROVE  \A f \in Fingerprints : Settled(f)' <=> Settled(f)
<1>1. \A u \in Threads : u # t => job'[u] = job[u]
  BY DEF TypeOK
<1>2. job'[t] = j
  BY DEF TypeOK
<1>3. \A u \in Threads : At(u, "create")' <=> At(u, "create")
  BY <1>1, <1>2 DEF At
<1>4. \A u \in Threads : At(u, "create") => job'[u].fp = job[u].fp
  BY <1>1
<1> QED
  BY <1>3, <1>4, SameSettled

\* Every step of a thread other than Create leaves what is settled as it was.
LEMMA SettledSame ==
  ASSUME TypeOK, [Next]_vars, \A t \in Threads : ~Create(t)
  PROVE  UNCHANGED table /\ \A f \in Fingerprints : Settled(f)' <=> Settled(f)
<1>1. ASSUME NEW t \in LoraThreads, NEW s \in Fingerprints,
             FirstContact(t, s) \/ \E n \in 0..MaxSeq : LookUpSender(t, s, n)
      PROVE  UNCHANGED table /\ \A f \in Fingerprints : Settled(f)' <=> Settled(f)
  <2>1. t \in Threads /\ ~At(t, "create")
    BY <1>1 DEF Threads, FirstContact, LookUpSender, At
  <2>2. CASE FirstContact(t, s)
    <3>1. Upserting(s).at # "create"
      BY DEF Upserting
    <3> QED
      BY <2>1, <2>2, <3>1, MovedSettled DEF FirstContact
  <2>3. ASSUME NEW n \in 0..MaxSeq, LookUpSender(t, s, n)
        PROVE  UNCHANGED table /\ \A f \in Fingerprints : Settled(f)' <=> Settled(f)
    <3> DEFINE j == [at |-> "check", fp |-> s, seq |-> n, ref |-> table[s], firm |-> Settled(s)]
    <3>1. j.at # "create"
      OBVIOUS
    <3>2. job' = [job EXCEPT ![t] = j] /\ UNCHANGED table
      BY <2>3 DEF LookUpSender
    <3> HIDE DEF j
    <3> QED
      BY <2>1, <3>1, <3>2, MovedSettled
  <2> QED
    BY <1>1, <2>2, <2>3
<1>2. ASSUME NEW t \in Threads, DropFrame(t) \/ Refresh(t)
      PROVE  UNCHANGED table /\ \A f \in Fingerprints : Settled(f)' <=> Settled(f)
  <2>1. ~At(t, "create") /\ job' = [job EXCEPT ![t] = None] /\ UNCHANGED table
    BY <1>2 DEF DropFrame, Refresh, At
  <2> QED
    BY <2>1, MovedSettled
<1>3. ASSUME NEW t \in Threads, AcceptFrame(t)
      PROVE  UNCHANGED table /\ \A f \in Fingerprints : Settled(f)' <=> Settled(f)
  <2>1. ~At(t, "create") /\ job' = [job EXCEPT ![t] = Upserting(job[t].fp)] /\ UNCHANGED table
    BY <1>3 DEF AcceptFrame, At
  <2>2. Upserting(job[t].fp).at # "create"
    BY DEF Upserting
  <2> QED
    BY <2>1, <2>2, MovedSettled
<1>4. ASSUME NEW t \in WifiThreads, NEW f \in WifiPeers, OriginatorSeen(t, f)
      PROVE  UNCHANGED table /\ \A g \in Fingerprints : Settled(g)' <=> Settled(g)
  <2>1. t \in Threads /\ ~At(t, "create") /\ job' = [job EXCEPT ![t] = Upserting(f)]
        /\ UNCHANGED table
    BY <1>4 DEF Threads, OriginatorSeen, At
  <2>2. Upserting(f).at # "create"
    BY DEF Upserting
  <2> QED
    BY <2>1, <2>2, MovedSettled
<1>5. ASSUME NEW t \in Threads, FindNone(t)
      PROVE  UNCHANGED table /\ \A f \in Fingerprints : Settled(f)' <=> Settled(f)
  <2>1. UNCHANGED table /\ ~Known(job[t].fp) /\ job[t] \in Jobs
    BY <1>5 DEF FindNone, At, TypeOK
  <2>2. job'[t].fp = job[t].fp /\ \A u \in Threads : u # t => job'[u] = job[u]
    BY <1>5, <2>1 DEF FindNone, TypeOK, Jobs
  <2>3. ~At(t, "create")
    BY <1>5 DEF FindNone, At
  <2>4. ASSUME NEW f \in Fingerprints, Known(f)
        PROVE  Settled(f)' <=> Settled(f)
    BY <2>1, <2>2, <2>3, <2>4 DEF Settled, Known, At
  <2>5. ASSUME NEW f \in Fingerprints, ~Known(f)
        PROVE  Settled(f)' <=> Settled(f)
    BY <2>1, <2>5 DEF Settled, Known
  <2> QED
    BY <2>1, <2>4, <2>5
<1>6. ASSUME UNCHANGED <<table, job>>
      PROVE  UNCHANGED table /\ \A f \in Fingerprints : Settled(f)' <=> Settled(f)
  BY <1>6 DEF Settled, Known, At
<1>7. CASE \E t \in LoraThreads : LoraStep(t)
  BY <1>7, <1>1, <1>2, <1>3 DEF LoraStep, Threads
<1>8. CASE \E t \in WifiThreads : WifiStep(t)
  BY <1>8, <1>4 DEF WifiStep
<1>9. CASE \E t \in Threads : UpsertStep(t)
  BY <1>9, <1>2, <1>5 DEF UpsertStep
<1>10. CASE \E w \in Workers : OwnerStep(w)
  BY <1>10, <1>6 DEF OwnerStep, OwnerLookUp, OwnerMark
<1>11. CASE UNCHANGED vars
  BY <1>11, <1>6 DEF vars
<1> QED
  BY <1>7, <1>8, <1>9, <1>10, <1>11 DEF Next

\* A thread that stores its object does so at an entry that was not settled.
LEMMA CreateFacts ==
  ASSUME TypeOK, NEW t \in Threads, Create(t)
  PROVE  /\ job[t].fp \in Fingerprints /\ ~Settled(job[t].fp)
         /\ heap'[job[t].fp][t] = NewPeer /\ table'[job[t].fp] = t
         /\ \A g \in Fingerprints : g # job[t].fp =>
               heap'[g] = heap[g] /\ table'[g] = table[g] /\ (Settled(g)' <=> Settled(g))
         /\ job'[t] = None /\ \A u \in Threads : u # t => job'[u] = job[u]
<1>1. job[t] # None /\ job[t] \in Jobs /\ job[t].fp \in Fingerprints /\ job[t].at = "create"
  BY DEF Create, At, TypeOK, Jobs
<1>2. /\ heap'[job[t].fp][t] = NewPeer /\ table'[job[t].fp] = t
      /\ \A g \in Fingerprints : g # job[t].fp => heap'[g] = heap[g] /\ table'[g] = table[g]
      /\ job'[t] = None /\ \A u \in Threads : u # t => job'[u] = job[u]
  BY <1>1 DEF Create, TypeOK
<1>3. ~Settled(job[t].fp)
  BY <1>1 DEF Settled, At
<1>4. ASSUME NEW g \in Fingerprints, g # job[t].fp
      PROVE  Settled(g)' <=> Settled(g)
  BY <1>1, <1>2, <1>4 DEF Settled, Known, At
<1> QED
  BY <1>1, <1>2, <1>3, <1>4

-----------------------------------------------------------------------------
(* The inductive invariant.  Steps that write no entry leave SeqBounds and *)
(* what follows it alone; the four that do, or that note a lookup, have a  *)
(* lemma each.                                                             *)

Rest == JobsCurrent /\ RequestsCurrent /\ SeqBounds /\ AcceptsIncrease
        /\ DecisionsSettled /\ DecisionsStick

\* A step that leaves entries, requests and histories alone and starts no firm
\* work.
LEMMA Quiet ==
  ASSUME IInv, UNCHANGED <<table, heap, request, accepted, decision>>,
         \A f \in Fingerprints : Settled(f)' <=> Settled(f),
         NEW t \in Threads,
         \A u \in Threads : u # t => job'[u] = job[u],
         job'[t] # None => ~job'[t].firm
  PROVE  Rest'
<1>1. JobsCurrent'
  BY DEF IInv, JobsCurrent, TypeOK, Jobs
<1>2. RequestsCurrent'
  BY DEF IInv, RequestsCurrent, TypeOK, Requests
<1>3. SeqBounds' /\ AcceptsIncrease' /\ DecisionsSettled' /\ DecisionsStick'
  BY DEF IInv, SeqBounds, AcceptsIncrease, DecisionsSettled, DecisionsStick, Entry, Known
<1> QED
  BY <1>1, <1>2, <1>3 DEF Rest

\* A lookup is noted as firm when the entry is settled, and then so it is.
LEMMA LookUpSenderStep ==
  ASSUME IInv, \A f \in Fingerprints : Settled(f)' <=> Settled(f),
         NEW t \in LoraThreads, NEW s \in Fingerprints, NEW n \in 0..MaxSeq, LookUpSender(t, s, n)
  PROVE  Rest'
<1>1. /\ job'[t].fp = s /\ job'[t].ref = table[s] /\ job'[t].firm = Settled(s)
      /\ \A u \in Threads : u # t => job'[u] = job[u]
  BY DEF IInv, TypeOK, LookUpSender, Threads
<1>2. JobsCurrent'
  BY <1>1 DEF IInv, JobsCurrent, TypeOK, Jobs, LookUpSender
<1>3. RequestsCurrent'
  BY DEF IInv, RequestsCurrent, TypeOK, Requests, LookUpSender
<1>4. SeqBounds' /\ AcceptsIncrease' /\ DecisionsSettled' /\ DecisionsStick'
  BY DEF IInv, SeqBounds, AcceptsIncrease, DecisionsSettled, DecisionsStick, Entry, Known,
         LookUpSender
<1> QED
  BY <1>2, <1>3, <1>4 DEF Rest

\* What writing last_seq to one object does to the entries.
LEMMA AcceptWrites ==
  ASSUME TypeOK, NEW t \in LoraThreads, AcceptFrame(t)
  PROVE  /\ job[t] # None /\ job[t] \in Jobs /\ job[t].fp \in Fingerprints /\ job[t].seq \in 0..MaxSeq
         /\ table' = table
         /\ \A g \in Fingerprints, u \in Threads :
               /\ heap'[g][u].trust = heap[g][u].trust
               /\ heap'[g][u].last_seq \in Nat /\ heap[g][u].last_seq \in Nat
               /\ ~(g = job[t].fp /\ u = job[t].ref) => heap'[g][u] = heap[g][u]
               /\ g = job[t].fp /\ u = job[t].ref =>
                     heap'[g][u].last_seq = job[t].seq /\ job[t].seq > heap[g][u].last_seq
<1> DEFINE f == job[t].fp
           r == job[t].ref
<1>1. job[t] # None /\ job[t] \in Jobs /\ f \in Fingerprints /\ job[t].seq \in 0..MaxSeq
  BY DEF AcceptFrame, At, TypeOK, Jobs, Threads
<1>2. /\ heap' = [heap EXCEPT ![f] = [heap[f] EXCEPT ![r] = [heap[f][r] EXCEPT !.last_seq = job[t].seq]]]
      /\ table' = table /\ job[t].seq > heap[f][r].last_seq
  BY DEF AcceptFrame, Newer
<1>3. heap \in [Fingerprints -> [Threads -> Peer]]
  BY DEF TypeOK
<1> HIDE DEF f, r
<1>4. ASSUME NEW g \in Fingerprints, NEW u \in Threads
      PROVE  /\ heap'[g][u].trust = heap[g][u].trust
             /\ heap'[g][u].last_seq \in Nat /\ heap[g][u].last_seq \in Nat
             /\ ~(g = f /\ u = r) => heap'[g][u] = heap[g][u]
             /\ g = f /\ u = r => heap'[g][u].last_seq = job[t].seq /\ job[t].seq > heap[g][u].last_seq
  <2>1. heap[g][u] \in Peer
    BY <1>3
  <2>2. CASE g = f /\ u = r
    <3>1. heap'[g][u] = [heap[g][u] EXCEPT !.last_seq = job[t].seq]
      BY <1>1, <1>2, <1>3, <2>2
    <3> QED
      BY <2>1, <2>2, <3>1, <1>1, <1>2 DEF Peer
  <2>3. CASE ~(g = f /\ u = r)
    <3>1. heap'[g][u] = heap[g][u]
      BY <1>1, <1>2, <1>3, <2>3
    <3> QED
      BY <2>1, <2>3, <3>1 DEF Peer
  <2> QED
    BY <2>2, <2>3
<1> QED
  BY <1>1, <1>2, <1>4 DEF f, r

\* The one step that notes a number: a firm lookup's object is the table's,
\* so the number beats last_seq and with it all the numbers noted before.
LEMMA AcceptFrameStep ==
  ASSUME IInv, TypeOK', \A f \in Fingerprints : Settled(f)' <=> Settled(f),
         NEW t \in LoraThreads, AcceptFrame(t)
  PROVE  Rest'
<1> SUFFICES ASSUME NEW f, f = job[t].fp, NEW n, n = job[t].seq
             PROVE  Rest'
  OBVIOUS
<1>1. /\ job[t] # None /\ job[t] \in Jobs /\ f \in Fingerprints /\ n \in 0..MaxSeq
      /\ t \in Threads /\ table' = table
      /\ \A g \in Fingerprints, u \in Threads :
            /\ heap'[g][u].trust = heap[g][u].trust
            /\ heap'[g][u].last_seq \in Nat /\ heap[g][u].last_seq \in Nat
            /\ heap'[g][u].last_seq >= heap[g][u].last_seq
            /\ g = f /\ u = job[t].ref =>
                  heap'[g][u].last_seq = n /\ n > heap[g][u].last_seq
  BY AcceptWrites DEF IInv, Threads
<1>2. /\ request' = request /\ decision' = decision
      /\ job'[t] = Upserting(f) /\ \A u \in Threads : u # t => job'[u] = job[u]
  BY <1>1 DEF IInv, TypeOK, AcceptFrame
<1>3. JobsCurrent'
  <2>1. ASSUME NEW u \in Threads, job'[u] # None, job'[u].firm
        PROVE  (Settled(job[u].fp) /\ job[u].ref = table[job[u].fp])'
    <3>1. u # t
      BY <2>1, <1>2 DEF Upserting
    <3>2. job'[u] = job[u] /\ job[u] \in Jobs /\ job[u].fp \in Fingerprints
      BY <2>1, <3>1, <1>2 DEF IInv, TypeOK, Jobs
    <3>3. Settled(job[u].fp) /\ job[u].ref = table[job[u].fp]
      BY <2>1, <3>2 DEF IInv, JobsCurrent
    <3> QED
      BY <3>2, <3>3, <1>1
  <2> QED
    BY <2>1 DEF JobsCurrent
<1>4. RequestsCurrent'
  BY <1>1, <1>2 DEF IInv, RequestsCurrent, TypeOK, Requests
<1>5. DecisionsSettled' /\ DecisionsStick'
  <2>1. DecisionsSettled'
    BY <1>2 DEF IInv, DecisionsSettled
  <2>2. ASSUME NEW g \in Fingerprints, decision[g] # None
        PROVE  Known(g)' /\ Entry(g)'.trust = decision[g]
    <3>1. Known(g) /\ Entry(g).trust = decision[g] /\ table[g] \in Threads
      BY <2>2 DEF IInv, TypeOK, DecisionsStick, Known
    <3> QED
      BY <3>1, <1>1 DEF Known, Entry
  <2> QED
    BY <2>1, <2>2, <1>2 DEF DecisionsStick
<1>6. ASSUME NEW s \in Fingerprints, Settled(s)
      PROVE  /\ Entry(s).last_seq \in Nat /\ Entry(s)'.last_seq \in Nat
             /\ Entry(s)'.last_seq >= Entry(s).last_seq
  BY <1>1, <1>6 DEF IInv, TypeOK, Settled, Known, Entry
<1>7. ASSUME NEW s \in Fingerprints, NEW i \in DOMAIN accepted[s]
      PROVE  /\ Settled(s) /\ accepted[s][i] \in Nat
             /\ accepted[s][i] <= Entry(s).last_seq /\ accepted[s][i] <= Entry(s)'.last_seq
  <2>1. Settled(s) /\ accepted[s][i] <= Entry(s).last_seq
    BY <1>7 DEF IInv, SeqBounds
  <2>2. accepted[s][i] \in 0..MaxSeq
    <3>1. accepted[s] \in Seq(0..MaxSeq)
      BY <1>7 DEF IInv, TypeOK
    <3> QED
      BY <1>7, <3>1
  <2> QED
    BY <2>1, <2>2, <1>6
<1>8. CASE ~job[t].firm
  <2>1. accepted' = accepted
    BY <1>8 DEF AcceptFrame
  <2>2. SeqBounds' /\ AcceptsIncrease'
    BY <2>1, <1>7 DEF IInv, SeqBounds, AcceptsIncrease
  <2> QED
    BY <2>2, <1>3, <1>4, <1>5 DEF Rest
<1>9. CASE job[t].firm
  <2>1. Settled(f) /\ job[t].ref = table[f] /\ table[f] \in Threads
    BY <1>1, <1>9 DEF IInv, JobsCurrent, TypeOK, Settled, Known
  <2>2. Entry(f)'.last_seq = n /\ n > Entry(f).last_seq
    BY <1>1, <2>1 DEF Entry
  <2>3. /\ accepted'[f] = Append(accepted[f], n)
        /\ \A q \in Fingerprints : q # f => accepted'[q] = accepted[q]
    BY <1>1, <1>9 DEF IInv, TypeOK, AcceptFrame
  <2>4. accepted[f] \in Seq(0..MaxSeq)
    BY <1>1 DEF IInv, TypeOK
  <2>5. /\ Len(accepted[f]) \in Nat /\ DOMAIN accepted[f] = 1..Len(accepted[f])
        /\ DOMAIN accepted'[f] = 1..(Len(accepted[f]) + 1)
        /\ accepted'[f][Len(accepted[f]) + 1] = n
        /\ \A i \in DOMAIN accepted[f] : accepted'[f][i] = accepted[f][i]
    BY <1>1, <2>3, <2>4
  <2>6. \A i \in DOMAIN accepted[f] : accepted[f][i] < n
    <3>1. Entry(f).last_seq \in Nat
      BY <1>6, <1>1, <2>1
    <3>2. n \in Nat
      BY <1>1
    <3> QED
      BY <1>1, <1>7, <2>2, <3>1, <3>2
  <2>7. AcceptsIncrease'
    <3>1. ASSUME NEW q \in Fingerprints, NEW i \in DOMAIN accepted'[q],
                 NEW j \in DOMAIN accepted'[q], i < j
          PROVE  accepted'[q][i] < accepted'[q][j]
      <4>1. CASE q # f
        BY <3>1, <4>1, <2>3 DEF IInv, AcceptsIncrease
      <4>2. CASE q = f /\ j = Len(accepted[f]) + 1
        BY <3>1, <4>2, <2>5, <2>6
      <4>3. CASE q = f /\ j # Len(accepted[f]) + 1
        <5>1. i \in DOMAIN accepted[f] /\ j \in DOMAIN accepted[f]
          <6>1. i \in Nat /\ j \in Nat /\ i >= 1 /\ j <= Len(accepted[f])
            <7>1. DOMAIN accepted'[q] = 1..(Len(accepted[f]) + 1)
              BY <2>5, <4>3
            <7>2. i \in 1..(Len(accepted[f]) + 1) /\ j \in 1..(Len(accepted[f]) + 1)
              BY <3>1, <7>1
            <7>3. Len(accepted[f]) \in Nat
              BY <2>5
            <7> QED
              BY <7>2, <7>3, <4>3
          <6> QED
            <7>1. i < j /\ Len(accepted[f]) \in Nat /\ DOMAIN accepted[f] = 1..Len(accepted[f])
              BY <2>5, <3>1
            <7> QED
              BY <6>1, <7>1
        <5>2. accepted[f][i] < accepted[f][j]
          BY <5>1, <3>1, <1>1 DEF IInv, AcceptsIncrease
        <5> QED
          BY <5>1, <5>2, <4>3, <2>5
      <4> QED
        BY <4>1, <4>2, <4>3
    <3> QED
      BY <3>1 DEF AcceptsIncrease
  <2>8. SeqBounds'
    <3>1. ASSUME NEW q \in Fingerprints, NEW i \in DOMAIN accepted'[q]
          PROVE  Settled(q)' /\ accepted'[q][i] <= Entry(q)'.last_seq
      <4>1. CASE q # f
        BY <3>1, <4>1, <2>3, <1>7
      <4>2. CASE q = f /\ i = Len(accepted[f]) + 1
        BY <4>2, <2>1, <2>2, <2>5, <1>1
      <4>3. CASE q = f /\ i # Len(accepted[f]) + 1
        <5>1. i \in DOMAIN accepted[f]
          BY <2>5, <3>1, <4>3
        <5> QED
          BY <5>1, <4>3, <2>1, <2>5, <1>7, <1>1
      <4> QED
        BY <4>1, <4>2, <4>3
    <3> QED
      BY <3>1 DEF SeqBounds
  <2> QED
    BY <2>7, <2>8, <1>3, <1>4, <1>5 DEF Rest
<1> QED
  BY <1>8, <1>9

\* A thread stores its object at an entry nothing firm is known of.
LEMMA CreateStep ==
  ASSUME IInv, NEW t \in Threads, Create(t)
  PROVE  Rest'
<1> SUFFICES ASSUME NEW f, f = job[t].fp
             PROVE  Rest'
  OBVIOUS
<1>1. /\ f \in Fingerprints /\ ~Settled(f)
      /\ \A g \in Fingerprints : g # f =>
            heap'[g] = heap[g] /\ table'[g] = table[g] /\ (Settled(g)' <=> Settled(g))
      /\ job'[t] = None /\ \A u \in Threads : u # t => job'[u] = job[u]
  BY CreateFacts DEF IInv
<1>2. accepted' = accepted /\ request' = request /\ decision' = decision
  BY DEF Create
<1>3. \A g \in Fingerprints : Settled(g) =>
         Settled(g)' /\ table'[g] = table[g] /\ Entry(g)' = Entry(g)
  BY <1>1 DEF Entry
<1>4. JobsCurrent'
  BY <1>1, <1>3 DEF IInv, JobsCurrent, TypeOK, Jobs
<1>5. RequestsCurrent'
  BY <1>2, <1>3 DEF IInv, RequestsCurrent, TypeOK, Requests
<1>6. SeqBounds' /\ AcceptsIncrease'
  BY <1>2, <1>3 DEF IInv, SeqBounds, AcceptsIncrease
<1>7. DecisionsSettled' /\ DecisionsStick'
  BY <1>2, <1>3 DEF IInv, DecisionsSettled, DecisionsStick, Settled
<1> QED
  BY <1>4, <1>5, <1>6, <1>7 DEF Rest

\* So is the owner's request.
LEMMA OwnerLookUpStep ==
  ASSUME IInv, \A g \in Fingerprints : Settled(g)' <=> Settled(g),
         NEW w \in Workers, NEW f \in Fingerprints, NEW d \in Decisions, OwnerLookUp(w, f, d)
  PROVE  Rest'
<1>1. /\ request'[w].fp = f /\ request'[w].ref = table[f] /\ request'[w].firm = Settled(f)
      /\ \A v \in Workers : v # w => request'[v] = request[v]
  BY DEF IInv, TypeOK, OwnerLookUp
<1>2. RequestsCurrent'
  BY <1>1 DEF IInv, RequestsCurrent, TypeOK, Requests, OwnerLookUp
<1>3. JobsCurrent'
  BY DEF IInv, JobsCurrent, TypeOK, Jobs, OwnerLookUp
<1>4. SeqBounds' /\ AcceptsIncrease' /\ DecisionsSettled' /\ DecisionsStick'
  BY DEF IInv, SeqBounds, AcceptsIncrease, DecisionsSettled, DecisionsStick, Entry, Known,
         OwnerLookUp
<1> QED
  BY <1>2, <1>3, <1>4 DEF Rest

\* What writing a verdict to one object does to the entries.
LEMMA MarkWrites ==
  ASSUME TypeOK, NEW w \in Workers, OwnerMark(w)
  PROVE  /\ request[w] # None /\ request[w] \in Requests
         /\ table' = table /\ job' = job /\ accepted' = accepted
         /\ \A g \in Fingerprints, u \in Threads :
               /\ heap'[g][u].last_seq = heap[g][u].last_seq
               /\ ~(g = request[w].fp /\ u = request[w].ref) => heap'[g][u] = heap[g][u]
               /\ g = request[w].fp /\ u = request[w].ref =>
                     heap'[g][u].trust = request[w].verdict
<1> DEFINE f == request[w].fp
           r == request[w].ref
<1>1. request[w] # None /\ request[w] \in Requests /\ f \in Fingerprints /\ r \in Threads
  BY DEF OwnerMark, TypeOK, Requests
<1>2. /\ heap' = [heap EXCEPT ![f] = [heap[f] EXCEPT ![r] = [heap[f][r] EXCEPT !.trust = request[w].verdict]]]
      /\ table' = table /\ job' = job /\ accepted' = accepted
  BY DEF OwnerMark
<1>3. heap \in [Fingerprints -> [Threads -> Peer]]
  BY DEF TypeOK
<1> HIDE DEF f, r
<1>4. ASSUME NEW g \in Fingerprints, NEW u \in Threads
      PROVE  /\ heap'[g][u].last_seq = heap[g][u].last_seq
             /\ ~(g = f /\ u = r) => heap'[g][u] = heap[g][u]
             /\ g = f /\ u = r => heap'[g][u].trust = request[w].verdict
  <2>1. heap[g][u] \in Peer
    BY <1>3
  <2>2. CASE g = f /\ u = r
    <3>1. heap'[g][u] = [heap[g][u] EXCEPT !.trust = request[w].verdict]
      BY <1>1, <1>2, <1>3, <2>2
    <3> QED
      BY <2>1, <2>2, <3>1 DEF Peer
  <2>3. CASE ~(g = f /\ u = r)
    <3>1. heap'[g][u] = heap[g][u]
      BY <1>1, <1>2, <1>3, <2>3
    <3> QED
      BY <2>3, <3>1
  <2> QED
    BY <2>2, <2>3
<1> QED
  BY <1>1, <1>2, <1>4 DEF f, r

\* The owner's mark reaches the object the table holds, or is not noted.
LEMMA OwnerMarkStep ==
  ASSUME IInv, \A f \in Fingerprints : Settled(f)' <=> Settled(f),
         NEW w \in Workers, OwnerMark(w)
  PROVE  Rest'
<1> SUFFICES ASSUME NEW f, f = request[w].fp, NEW d, d = request[w].verdict
             PROVE  Rest'
  OBVIOUS
<1>1. /\ request[w] # None /\ request[w] \in Requests /\ f \in Fingerprints /\ d \in Decisions
      /\ table' = table /\ job' = job /\ accepted' = accepted
      /\ \A g \in Fingerprints, u \in Threads :
            /\ heap'[g][u].last_seq = heap[g][u].last_seq
            /\ g # f => heap'[g][u] = heap[g][u]
            /\ g = f /\ u = request[w].ref => heap'[g][u].trust = d
  BY MarkWrites DEF IInv, Requests
<1>2. /\ decision' = [decision EXCEPT ![f] = IF request[w].firm THEN d ELSE None]
      /\ request'[w] = None /\ \A v \in Workers : v # w => request'[v] = request[v]
  BY DEF OwnerMark, IInv, TypeOK
<1>3. JobsCurrent'
  <2>1. ASSUME NEW u \in Threads, job[u] # None, job[u].firm
        PROVE  (Settled(job[u].fp) /\ job[u].ref = table[job[u].fp])'
    <3>1. job[u].fp \in Fingerprints
      BY <2>1 DEF IInv, TypeOK, Jobs
    <3> QED
      BY <2>1, <3>1, <1>1 DEF IInv, JobsCurrent
  <2> QED
    BY <2>1, <1>1 DEF JobsCurrent
<1>4. RequestsCurrent'
  <2>1. ASSUME NEW v \in Workers, request'[v] # None, request'[v].firm
        PROVE  (Settled(request[v].fp) /\ request[v].ref = table[request[v].fp])'
    <3>1. request'[v] = request[v]
      BY <2>1, <1>2
    <3>2. request[v].fp \in Fingerprints
      BY <2>1, <3>1 DEF IInv, TypeOK, Requests
    <3>3. Settled(request[v].fp) /\ request[v].ref = table[request[v].fp]
      BY <2>1, <3>1 DEF IInv, RequestsCurrent
    <3> QED
      BY <3>1, <3>2, <3>3, <1>1
  <2> QED
    BY <2>1 DEF RequestsCurrent
<1>5. AcceptsIncrease'
  BY <1>1 DEF IInv, AcceptsIncrease
<1>6. SeqBounds'
  <2>1. ASSUME NEW s \in Fingerprints, Settled(s)
        PROVE  Entry(s)'.last_seq = Entry(s).last_seq
    <3>1. table[s] \in Threads
      BY <2>1 DEF IInv, TypeOK, Settled, Known
    <3> QED
      BY <3>1, <1>1 DEF Entry
  <2> QED
    BY <2>1, <1>1 DEF IInv, SeqBounds
<1>7. /\ decision'[f] = IF request[w].firm THEN d ELSE None
      /\ \A g \in Fingerprints : g # f => decision'[g] = decision[g]
  BY <1>1, <1>2 DEF IInv, TypeOK
<1>8. DecisionsSettled'
  BY <1>1, <1>7 DEF IInv, DecisionsSettled, RequestsCurrent
<1>9. DecisionsStick'
  <2>1. ASSUME NEW g \in Fingerprints, g # f, decision'[g] # None
        PROVE  Known(g)' /\ Entry(g)'.trust = decision'[g]
    BY <2>1, <1>1, <1>7 DEF IInv, TypeOK, DecisionsStick, Known, Entry
  <2>2. ASSUME decision'[f] # None
        PROVE  Known(f)' /\ Entry(f)'.trust = decision'[f]
    <3>1. request[w].firm /\ decision'[f] = d
      BY <2>2, <1>7
    <3>2. request[w].ref = table[f] /\ table[f] \in Threads /\ Known(f)
      BY <3>1, <1>1 DEF IInv, RequestsCurrent, TypeOK, Settled, Known
    <3> QED
      BY <3>1, <3>2, <1>1 DEF Known, Entry
  <2> QED
    BY <2>1, <2>2 DEF DecisionsStick
<1> QED
  BY <1>3, <1>4, <1>5, <1>6, <1>8, <1>9 DEF Rest

\* An empty table satisfies the invariant.
LEMMA InitIInv == Init => IInv
BY DEF Init, IInv, TypeOK, Peer, NewPeer, TrustState, Decisions, JobsCurrent, RequestsCurrent,
       SeqBounds, AcceptsIncrease, DecisionsSettled, DecisionsStick

\* Every step keeps the invariant.
LEMMA NextIInv ==
  ASSUME IInv, [Next]_vars
  PROVE  IInv'
<1>1. TypeOK'
  BY TypeStep DEF IInv
<1>2. CASE \E t \in Threads : Create(t)
  BY <1>1, <1>2, CreateStep DEF IInv, Rest
<1>3. CASE \A t \in Threads : ~Create(t)
  <2>1. UNCHANGED table /\ \A f \in Fingerprints : Settled(f)' <=> Settled(f)
    BY <1>3, SettledSame DEF IInv
  <2>2. ASSUME NEW t \in Threads, NEW j, j = None \/ ~j.firm, job' = [job EXCEPT ![t] = j],
               UNCHANGED <<table, heap, request, accepted, decision>>
        PROVE  Rest'
    <3>1. job'[t] = j /\ \A u \in Threads : u # t => job'[u] = job[u]
      BY <2>2 DEF IInv, TypeOK
    <3> QED
      BY <2>1, <2>2, <3>1, Quiet
  <2>3. \A f : ~Upserting(f).firm
    BY DEF Upserting
  <2>4. CASE \E t \in LoraThreads : LoraStep(t)
    <3>1. ASSUME NEW t \in LoraThreads, NEW s \in Fingerprints, FirstContact(t, s)
          PROVE  Rest'
      BY <3>1, <2>2, <2>3 DEF FirstContact, Threads
    <3>2. ASSUME NEW t \in LoraThreads, DropFrame(t)
          PROVE  Rest'
      BY <3>2, <2>2 DEF DropFrame, Threads
    <3> QED
      BY <1>1, <2>1, <2>4, <3>1, <3>2, LookUpSenderStep, AcceptFrameStep DEF LoraStep, IInv, Rest
  <2>5. CASE \E t \in WifiThreads : WifiStep(t)
    <3>1. ASSUME NEW t \in WifiThreads, NEW f \in WifiPeers, OriginatorSeen(t, f)
          PROVE  Rest'
      BY <3>1, <2>2, <2>3 DEF OriginatorSeen, Threads
    <3> QED
      BY <1>1, <2>5, <3>1 DEF WifiStep, IInv, Rest
  <2>6. CASE \E t \in Threads : UpsertStep(t)
    <3>1. ASSUME NEW t \in Threads, Refresh(t)
          PROVE  Rest'
      BY <3>1, <2>2 DEF Refresh
    <3>2. ASSUME NEW t \in Threads, FindNone(t)
          PROVE  Rest'
      <4>1. /\ job[t] # None /\ job[t] \in Jobs
            /\ job'[t].fp = job[t].fp /\ job'[t].firm = job[t].firm /\ job'[t].ref = job[t].ref
            /\ \A u \in Threads : u # t => job'[u] = job[u]
        BY <3>2 DEF FindNone, At, IInv, TypeOK, Jobs
      <4>2. ~job[t].firm
        BY <3>2, <4>1 DEF FindNone, IInv, JobsCurrent, Settled
      <4>3. ~job'[t].firm
        BY <4>1, <4>2
      <4> QED
        BY <3>2, <2>1, <4>1, <4>3, Quiet DEF FindNone
    <3> QED
      BY <1>1, <1>3, <2>6, <3>1, <3>2 DEF UpsertStep, IInv, Rest
  <2>7. CASE \E w \in Workers : OwnerStep(w)
    BY <1>1, <2>1, <2>7, OwnerLookUpStep, OwnerMarkStep DEF OwnerStep, IInv, Rest
  <2>8. CASE UNCHANGED vars
    <3>1. JobsCurrent' /\ RequestsCurrent'
      BY <2>8, <2>1 DEF vars, IInv, JobsCurrent, RequestsCurrent, TypeOK, Jobs, Requests
    <3>2. SeqBounds' /\ AcceptsIncrease' /\ DecisionsSettled' /\ DecisionsStick'
      BY <2>8, <2>1 DEF vars, IInv, SeqBounds, AcceptsIncrease, DecisionsSettled, DecisionsStick,
                        Known, Entry
    <3> QED
      BY <1>1, <3>1, <3>2 DEF IInv
  <2> QED
    BY <2>4, <2>5, <2>6, <2>7, <2>8 DEF Next
<1> QED
  BY <1>2, <1>3

\* The strengthened invariant holds in every reachable state.
THEOREM Invariance == Spec => []IInv
<1>1. IInv /\ [Next]_vars => IInv'
  BY NextIInv
<1> QED
  BY InitIInv, <1>1, PTL DEF Spec

\* At a settled entry no frame is let through that is not newer than all let
\* through before it, with any number of read threads (accept_sequence).
THEOREM ReplayProtection == Spec => []AcceptsIncrease
<1>1. IInv => AcceptsIncrease
  BY DEF IInv
<1> QED
  BY Invariance, <1>1, PTL

\* A trust or block acknowledged at a settled entry is never lost, with any
\* number of threads of either radio (mark_trusted, mark_blocked, upsert).
THEOREM DecisionsKept == Spec => []DecisionsStick
<1>1. IInv => DecisionsStick
  BY DEF IInv
<1> QED
  BY Invariance, <1>1, PTL

-----------------------------------------------------------------------------
(* The refinement: a comparison that admits a frame at the table's object  *)
(* is the registry's Advance, storing a new object its Meet, writing a     *)
(* verdict its Decide; every other step, and one that writes an object the *)
(* table has replaced, leaves what the registry shows as it was.           *)

\* The registry's met is a function of what is settled.
LEMMA MetSame ==
  ASSUME \A f \in Fingerprints : Settled(f)' <=> Settled(f)
  PROVE  MetOf' = MetOf
<1>1. \A f \in Fingerprints : Settled(f)' = Settled(f)
  <2>1. \A f \in Fingerprints : Settled(f) \in BOOLEAN /\ Settled(f)' \in BOOLEAN
    BY DEF Settled, Known
  <2> QED
    BY <2>1
<1>2. MetOf' = [f \in Fingerprints |-> Settled(f)']
  BY DEF MetOf
<1>3. MetOf = [f \in Fingerprints |-> Settled(f)]
  BY DEF MetOf
<1> QED
  BY <1>1, <1>2, <1>3

\* What is shown of entries of which neither object nor settling changed.
LEMMA Stutter ==
  ASSUME UNCHANGED table, \A f \in Fingerprints : Settled(f)' <=> Settled(f),
         \A f \in Fingerprints : Known(f) => Entry(f)' = Entry(f)
  PROVE  UNCHANGED Registry!vars
<1>1. TrustOf' = TrustOf /\ MarkOf' = MarkOf
  BY DEF TrustOf, MarkOf, Known
<1>2. MetOf' = MetOf
  BY MetSame
<1> QED
  BY <1>1, <1>2 DEF Registry!vars

\* Accepting a frame advances the registry's mark, or marks an object the
\* table no longer holds.
LEMMA AcceptIsAdvance ==
  ASSUME IInv, \A f \in Fingerprints : Settled(f)' <=> Settled(f),
         NEW t \in LoraThreads, AcceptFrame(t)
  PROVE  [Registry!Next]_(Registry!vars)
<1> SUFFICES ASSUME NEW f, f = job[t].fp, NEW n, n = job[t].seq
             PROVE  [Registry!Next]_(Registry!vars)
  OBVIOUS
<1>1. /\ f \in Fingerprints /\ n \in 0..MaxSeq /\ table' = table
      /\ \A g \in Fingerprints, u \in Threads :
            /\ heap'[g][u].trust = heap[g][u].trust
            /\ ~(g = f /\ u = job[t].ref) => heap'[g][u] = heap[g][u]
            /\ g = f /\ u = job[t].ref => heap'[g][u].last_seq = n /\ n > heap[g][u].last_seq
  BY AcceptWrites DEF IInv
<1>2. \A g \in Fingerprints : Known(g) => table[g] \in Threads
  BY DEF IInv, TypeOK, Known
<1>3. CASE Known(f) /\ job[t].ref = table[f]
  <2>1. Entry(f)'.last_seq = n /\ n > Entry(f).last_seq /\ Entry(f)'.trust = Entry(f).trust
    BY <1>1, <1>2, <1>3 DEF Entry
  <2>2. \A g \in Fingerprints : g # f /\ Known(g) => Entry(g)' = Entry(g)
    BY <1>1, <1>2 DEF Entry
  <2>3. TrustOf' = TrustOf
    BY <1>1, <2>1, <2>2 DEF TrustOf, Known
  <2>4. MarkOf' = [MarkOf EXCEPT ![f] = n]
    BY <1>1, <1>3, <2>1, <2>2 DEF MarkOf, Known
  <2>5. MetOf' = MetOf
    BY MetSame
  <2>6. TrustOf[f] # None /\ n > MarkOf[f]
    BY <1>1, <1>2, <1>3, <2>1 DEF TrustOf, MarkOf, Entry, IInv, TypeOK, Peer
  <2>7. Registry!Advance(f, n)
    BY <2>3, <2>4, <2>5, <2>6 DEF Registry!Advance
  <2> QED
    BY <1>1, <2>7 DEF Registry!Next
<1>4. CASE ~(Known(f) /\ job[t].ref = table[f])
  <2>1. \A g \in Fingerprints : Known(g) => Entry(g)' = Entry(g)
    BY <1>1, <1>2, <1>4 DEF Entry
  <2> QED
    BY <1>1, <2>1, Stutter
<1> QED
  BY <1>3, <1>4

\* Storing a new entry is the registry meeting its peer, once or once more.
LEMMA CreateIsMeet ==
  ASSUME IInv, NEW t \in Threads, Create(t)
  PROVE  Registry!Next
<1> SUFFICES ASSUME NEW f, f = job[t].fp
             PROVE  Registry!Next
  OBVIOUS
<1>1. /\ f \in Fingerprints /\ ~Settled(f)
      /\ heap'[f][t] = NewPeer /\ table'[f] = t
      /\ \A g \in Fingerprints : g # f =>
            heap'[g] = heap[g] /\ table'[g] = table[g] /\ (Settled(g)' <=> Settled(g))
  BY CreateFacts DEF IInv
<1>2. Known(f)' /\ Entry(f)'.trust = "unverified" /\ Entry(f)'.last_seq = 0
  BY <1>1 DEF Known, Entry, NewPeer
<1>3. \A g \in Fingerprints : g # f => Known(g)' = Known(g) /\ Entry(g)' = Entry(g)
  BY <1>1 DEF Known, Entry
<1>4. TrustOf' = [TrustOf EXCEPT ![f] = "unverified"]
  BY <1>2, <1>3 DEF TrustOf
<1>5. MarkOf' = [MarkOf EXCEPT ![f] = 0]
  BY <1>2, <1>3 DEF MarkOf
<1>6. MetOf' = [MetOf EXCEPT ![f] = Settled(f)'] /\ Settled(f)' \in BOOLEAN /\ ~MetOf[f]
  <2>1. Settled(f)' \in BOOLEAN /\ \A g \in Fingerprints : Settled(g) \in BOOLEAN /\ Settled(g)' \in BOOLEAN
    BY DEF Settled, Known
  <2>2. \A g \in Fingerprints : g # f => Settled(g)' = Settled(g)
    BY <1>1, <2>1
  <2>3. MetOf' = [g \in Fingerprints |-> Settled(g)']
    BY DEF MetOf
  <2>4. MetOf = [g \in Fingerprints |-> Settled(g)]
    BY DEF MetOf
  <2> QED
    BY <1>1, <2>1, <2>2, <2>3, <2>4
<1>7. Registry!Meet(f)
  BY <1>4, <1>5, <1>6 DEF Registry!Meet
<1> QED
  BY <1>1, <1>7 DEF Registry!Next

\* The owner's mark is the registry's decision, or marks an object the table
\* no longer holds.
LEMMA MarkIsDecide ==
  ASSUME IInv, \A f \in Fingerprints : Settled(f)' <=> Settled(f),
         NEW w \in Workers, OwnerMark(w)
  PROVE  [Registry!Next]_(Registry!vars)
<1> SUFFICES ASSUME NEW f, f = request[w].fp, NEW d, d = request[w].verdict
             PROVE  [Registry!Next]_(Registry!vars)
  OBVIOUS
<1>1. /\ f \in Fingerprints /\ d \in Decisions /\ request[w].ref \in Threads /\ table' = table
      /\ \A g \in Fingerprints, u \in Threads :
            /\ heap'[g][u].last_seq = heap[g][u].last_seq
            /\ ~(g = f /\ u = request[w].ref) => heap'[g][u] = heap[g][u]
            /\ g = f /\ u = request[w].ref => heap'[g][u].trust = d
  BY MarkWrites DEF IInv, Requests
<1>2. \A g \in Fingerprints : Known(g) => table[g] \in Threads
  BY DEF IInv, TypeOK, Known
<1>3. CASE request[w].ref = table[f]
  <2>1. Known(f) /\ Entry(f)'.trust = d /\ Entry(f)'.last_seq = Entry(f).last_seq
    BY <1>1, <1>3 DEF Known, Entry
  <2>2. \A g \in Fingerprints : g # f /\ Known(g) => Entry(g)' = Entry(g)
    BY <1>1, <1>2 DEF Entry
  <2>3. TrustOf' = [TrustOf EXCEPT ![f] = d]
    BY <1>1, <2>1, <2>2 DEF TrustOf, Known
  <2>4. MarkOf' = MarkOf
    BY <1>1, <2>1, <2>2 DEF MarkOf, Known
  <2>5. MetOf' = MetOf
    BY MetSame
  <2>6. TrustOf[f] # None
    BY <1>1, <1>2, <2>1 DEF TrustOf, Entry, IInv, TypeOK, Peer
  <2>7. Registry!Decide(f, d)
    BY <2>3, <2>4, <2>5, <2>6 DEF Registry!Decide
  <2> QED
    BY <1>1, <2>7 DEF Registry!Next, Registry!Decisions, Decisions
<1>4. CASE request[w].ref # table[f]
  <2>1. \A g \in Fingerprints : Known(g) => Entry(g)' = Entry(g)
    BY <1>1, <1>2, <1>4 DEF Entry
  <2> QED
    BY <1>1, <2>1, Stutter
<1> QED
  BY <1>3, <1>4

\* Every step of the table is a step of the registry or a stutter.
LEMMA NextRefines ==
  ASSUME IInv, [Next]_vars
  PROVE  [Registry!Next]_(Registry!vars)
<1>1. CASE \E t \in Threads : Create(t)
  BY <1>1, CreateIsMeet
<1>2. CASE \A t \in Threads : ~Create(t)
  <2>1. UNCHANGED table /\ \A f \in Fingerprints : Settled(f)' <=> Settled(f)
    BY <1>2, SettledSame DEF IInv
  <2>2. ASSUME UNCHANGED heap
        PROVE  UNCHANGED Registry!vars
    BY <2>1, <2>2, Stutter DEF Entry
  <2>3. CASE \E t \in LoraThreads : LoraStep(t)
    BY <2>1, <2>2, <2>3, AcceptIsAdvance DEF LoraStep, FirstContact, LookUpSender, DropFrame
  <2>4. CASE \E t \in WifiThreads : WifiStep(t)
    BY <2>2, <2>4 DEF WifiStep, OriginatorSeen
  <2>5. CASE \E t \in Threads : UpsertStep(t)
    BY <1>2, <2>2, <2>5 DEF UpsertStep, Refresh, FindNone
  <2>6. CASE \E w \in Workers : OwnerStep(w)
    BY <2>1, <2>2, <2>6, MarkIsDecide DEF OwnerStep, OwnerLookUp
  <2>7. CASE UNCHANGED vars
    BY <2>2, <2>7 DEF vars
  <2> QED
    BY <2>3, <2>4, <2>5, <2>6, <2>7 DEF Next
<1> QED
  BY <1>1, <1>2

\* The unlocked table is the one-step registry, with any number of threads of
\* either radio meeting the same sender at once.
THEOREM Refinement == Spec => ImplementsRegistry
<1>1. Init => Registry!Init
  BY DEF Init, Registry!Init, TrustOf, MarkOf, MetOf, Known, Settled
<1>2. IInv /\ [Next]_vars => [Registry!Next]_(Registry!vars)
  BY NextRefines
<1> QED
  BY Invariance, <1>1, <1>2, PTL DEF Spec, ImplementsRegistry, Registry!Spec

=============================================================================
