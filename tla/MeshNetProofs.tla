---------------------------- MODULE MeshNetProofs ---------------------------
(***************************************************************************)
(* A note of a hub whose daemon stays up is never dropped by a receiver    *)
(* that has taken nothing newer of its: for any set of hubs, any number of *)
(* notes and restarts, and whatever the medium does.  The invariant says   *)
(* why: such a hub's numbers count its notes, and a receiver's mark never  *)
(* runs ahead of what it has taken.                                        *)
(***************************************************************************)
EXTENDS MeshNet, TLAPS

\* Of a hub that stays up, the number of a note tells which note it is.
NumbersCount ==
  \A s \in Hubs \ Restarting :
     /\ outbound_seq[s] = published[s]
     /\ \A e \in air : e.sender = s => e.seq = e.nth

\* A mark is the number of some note taken, and those are no later than newest.
MarksFollow ==
  \A h \in Hubs, s \in Hubs \ Restarting :
     last_seq[h][s] # None => last_seq[h][s] <= newest[h][s]

\* The table holds marks and the air envelopes, whatever the bounds.
Kinds ==
  /\ outbound_seq \in [Hubs -> Nat]
  /\ published \in [Hubs -> Nat]
  /\ newest \in [Hubs -> [Hubs -> Nat]]
  /\ last_seq \in [Hubs -> [Hubs -> Nat \cup {None}]]
  /\ air \subseteq [sender : Hubs, seq : Nat, nth : Nat]

IInv == Kinds /\ NumbersCount /\ MarksFollow

-----------------------------------------------------------------------------

USE MeshNetAssumption

\* Publishing keeps numbers and notes in step.
LEMMA PublishKeeps ==
  ASSUME IInv, NEW h \in Hubs, Publish(h) PROVE IInv'
<1> DEFINE e == [sender |-> h, seq |-> outbound_seq[h] + 1, nth |-> published[h] + 1]
<1>1. /\ outbound_seq[h] \in Nat /\ published[h] \in Nat
      /\ outbound_seq' = [outbound_seq EXCEPT ![h] = outbound_seq[h] + 1]
      /\ published' = [published EXCEPT ![h] = published[h] + 1]
  BY DEF IInv, Kinds, Publish
<1>2. air' = air \cup {e}
  BY <1>1 DEF IInv, Kinds, Publish
<1>3. Kinds'
  <2>1. e \in [sender : Hubs, seq : Nat, nth : Nat]
    BY <1>1
  <2> QED
    BY <1>1, <1>2, <2>1 DEF IInv, Kinds, Publish
<1>4. NumbersCount'
  <2> SUFFICES ASSUME NEW s \in Hubs \ Restarting
               PROVE  /\ outbound_seq'[s] = published'[s]
                      /\ \A x \in air' : x.sender = s => x.seq = x.nth
    BY DEF NumbersCount
  <2>1. outbound_seq[s] = published[s]
    BY DEF IInv, NumbersCount
  <2>2. outbound_seq'[s] = published'[s]
    BY <1>1, <2>1 DEF IInv, Kinds
  <2>3. e.sender = s => e.seq = e.nth
    BY <2>1
  <2> QED
    BY <1>2, <2>2, <2>3 DEF IInv, NumbersCount
<1>5. MarksFollow'
  BY DEF IInv, MarksFollow, Publish
<1> QED
  BY <1>3, <1>4, <1>5 DEF IInv

\* Taking a note moves the mark to its number and newest at least as far.
LEMMA ReceiveKeeps ==
  ASSUME IInv, NEW h \in Hubs, NEW e \in air, Receive(h, e) PROVE IInv'
<1>1. /\ e.sender \in Hubs /\ e.seq \in Nat /\ e.nth \in Nat
      /\ e.sender \notin Restarting => e.seq = e.nth
  BY DEF IInv, Kinds, NumbersCount
<1> DEFINE m == Mark(h, e)
           new == IF e.nth > newest[h][e.sender] THEN e.nth ELSE newest[h][e.sender]
<1>2. newest[h][e.sender] \in Nat
  BY <1>1 DEF IInv, Kinds
<1>3. m \in Nat /\ new \in Nat
  BY <1>1, <1>2 DEF Mark
<1>4. /\ last_seq' = [last_seq EXCEPT ![h][e.sender] = m]
      /\ newest' = [newest EXCEPT ![h][e.sender] = new]
  BY DEF Receive
<1>5. e.sender \notin Restarting => m <= new
  BY <1>1, <1>2 DEF Mark
<1> HIDE DEF m, new
<1>6. Kinds'
  <2>1. [last_seq[h] EXCEPT ![e.sender] = m] \in [Hubs -> Nat \cup {None}]
    BY <1>1, <1>3 DEF IInv, Kinds
  <2>2. [newest[h] EXCEPT ![e.sender] = new] \in [Hubs -> Nat]
    BY <1>1, <1>3 DEF IInv, Kinds
  <2> QED
    BY <1>4, <2>1, <2>2 DEF IInv, Kinds, Receive
<1>7. MarksFollow'
  BY <1>1, <1>4, <1>5 DEF IInv, Kinds, MarksFollow
<1>8. NumbersCount'
  BY DEF IInv, NumbersCount, Receive
<1> QED
  BY <1>6, <1>7, <1>8 DEF IInv

\* A restart empties what it forgets, of a hub the numbers do not vouch for.
LEMMA RestartKeeps ==
  ASSUME IInv, NEW h \in Hubs, Restart(h) PROVE IInv'
BY DEF IInv, Kinds, NumbersCount, MarksFollow, Restart

\* Every reachable state satisfies the invariant.
THEOREM Invariance == Spec => []IInv
<1>1. Init => IInv
  BY DEF Init, IInv, Kinds, NumbersCount, MarksFollow
<1>2. IInv /\ [Next]_vars => IInv'
  <2> SUFFICES ASSUME IInv, [Next]_vars PROVE IInv'
    OBVIOUS
  <2>1. CASE Next
    BY <2>1, PublishKeeps, ReceiveKeeps, RestartKeeps DEF Next
  <2>2. CASE UNCHANGED vars
    BY <2>2 DEF vars, IInv, Kinds, NumbersCount, MarksFollow
  <2> QED
    BY <2>1, <2>2
<1> QED
  BY <1>1, <1>2, PTL DEF Spec

\* A hub that stays up is heard: a note newer than all a receiver has taken of
\* it passes the receiver's replay check.
THEOREM FreshHeard == Spec => []FreshAcceptedWhileUp
<1>1. IInv => FreshAcceptedWhileUp
  <2> SUFFICES ASSUME IInv, NEW h \in Hubs, NEW e \in air,
                      e.sender \notin Restarting, e.nth > newest[h][e.sender]
               PROVE  Accepts(h, e)
    BY DEF FreshAcceptedWhileUp
  <2>1. /\ e.sender \in Hubs /\ e.seq \in Nat /\ e.seq = e.nth
        /\ newest[h][e.sender] \in Nat
        /\ last_seq[h][e.sender] \in Nat \cup {None}
    BY DEF IInv, Kinds, NumbersCount
  <2>2. CASE last_seq[h][e.sender] = None
    BY <2>2 DEF Accepts
  <2>3. CASE last_seq[h][e.sender] # None
    BY <2>1, <2>3 DEF Accepts, IInv, MarksFollow
  <2> QED
    BY <2>2, <2>3
<1> QED
  BY <1>1, Invariance, PTL

-----------------------------------------------------------------------------
(* The bounds of every number.                                             *)

\* A process numbers only notes it publishes, in this life or before.
Bounded == TypeOK /\ \A h \in Hubs : outbound_seq[h] <= published[h]

\* Publishing adds one to both counts while there is room.
LEMMA PublishBounded ==
  ASSUME Bounded, NEW h \in Hubs, Publish(h) PROVE Bounded'
<1> DEFINE n == outbound_seq[h] + 1
           k == published[h] + 1
           e == [sender |-> h, seq |-> n, nth |-> k]
<1>1. /\ outbound_seq \in [Hubs -> 0..MaxNotes] /\ published \in [Hubs -> 0..MaxNotes]
      /\ air \subseteq Envelopes /\ outbound_seq[h] <= published[h] /\ published[h] < MaxNotes
  BY DEF Bounded, TypeOK, Publish
<1>2. n \in 1..MaxNotes /\ k \in 1..MaxNotes /\ n <= k
  BY <1>1
<1>3. outbound_seq' = [outbound_seq EXCEPT ![h] = n] /\ published' = [published EXCEPT ![h] = k]
  BY DEF Publish
<1>4. air' = air \cup {e}
  BY <1>1, <1>3 DEF Publish
<1>5. e \in Envelopes
  BY <1>2 DEF Envelopes
<1> HIDE DEF n, k, e
<1>6. outbound_seq' \in [Hubs -> 0..MaxNotes] /\ published' \in [Hubs -> 0..MaxNotes]
  BY <1>1, <1>2, <1>3
<1>7. TypeOK'
  BY <1>1, <1>4, <1>5, <1>6 DEF Bounded, TypeOK, Publish
<1>8. ASSUME NEW x \in Hubs PROVE outbound_seq'[x] <= published'[x]
  BY <1>1, <1>2, <1>3 DEF Bounded
<1> QED
  BY <1>7, <1>8 DEF Bounded

\* What a receiver notes down it read from an envelope.
LEMMA ReceiveBounded ==
  ASSUME Bounded, NEW h \in Hubs, NEW e \in air, Receive(h, e) PROVE Bounded'
<1> DEFINE s == e.sender
           m == Mark(h, e)
           new == IF e.nth > newest[h][s] THEN e.nth ELSE newest[h][s]
<1>1. s \in Hubs /\ e.seq \in 1..MaxNotes /\ e.nth \in 1..MaxNotes
  BY DEF Bounded, TypeOK, Envelopes
<1>2. /\ last_seq[h] \in [Hubs -> 0..MaxNotes \cup {None}] /\ newest[h] \in [Hubs -> 0..MaxNotes]
  BY DEF Bounded, TypeOK
<1>3. m \in 0..MaxNotes /\ new \in 0..MaxNotes
  BY <1>1, <1>2 DEF Mark
<1>4. /\ last_seq' = [last_seq EXCEPT ![h][s] = m] /\ newest' = [newest EXCEPT ![h][s] = new]
      /\ UNCHANGED <<outbound_seq, air, published, restarts>>
  BY DEF Receive
<1> HIDE DEF s, m, new
<1>5. /\ [last_seq[h] EXCEPT ![s] = m] \in [Hubs -> 0..MaxNotes \cup {None}]
      /\ [newest[h] EXCEPT ![s] = new] \in [Hubs -> 0..MaxNotes]
  BY <1>1, <1>2, <1>3
<1>6. /\ last_seq' \in [Hubs -> [Hubs -> 0..MaxNotes \cup {None}]]
      /\ newest' \in [Hubs -> [Hubs -> 0..MaxNotes]]
  BY <1>4, <1>5 DEF Bounded, TypeOK
<1> QED
  BY <1>4, <1>6 DEF Bounded, TypeOK

\* A restart sets the number back, not the history.
LEMMA RestartBounded ==
  ASSUME Bounded, NEW h \in Hubs, Restart(h) PROVE Bounded'
<1>1. /\ restarts[h] \in 0..MaxRestarts /\ restarts[h] < MaxRestarts
      /\ restarts' = [restarts EXCEPT ![h] = restarts[h] + 1]
      /\ restarts \in [Hubs -> 0..MaxRestarts]
  BY DEF Bounded, TypeOK, Restart
<1>2. restarts[h] + 1 \in 0..MaxRestarts
  BY <1>1
<1>3. restarts' \in [Hubs -> 0..MaxRestarts]
  BY <1>1, <1>2
<1>4. [s \in Hubs |-> None] \in [Hubs -> 0..MaxNotes \cup {None}]
      /\ [s \in Hubs |-> 0] \in [Hubs -> 0..MaxNotes]
  OBVIOUS
<1>5. TypeOK'
  BY <1>3, <1>4 DEF Bounded, TypeOK, Restart
<1>6. \A x \in Hubs : outbound_seq'[x] <= published'[x]
  BY DEF Bounded, TypeOK, Restart
<1> QED
  BY <1>5, <1>6 DEF Bounded

\* Every number stays in its range; that a mark does is what the table owes to
\* the envelopes, and an envelope to the process that numbered it.
THEOREM TypeCorrect == Spec => []TypeOK
<1>1. Init => Bounded
  BY DEF Init, Bounded, TypeOK
<1>2. Bounded /\ [Next]_vars => Bounded'
  <2> SUFFICES ASSUME Bounded, [Next]_vars PROVE Bounded'
    OBVIOUS
  <2>1. CASE Next
    BY <2>1, PublishBounded, ReceiveBounded, RestartBounded DEF Next
  <2>2. CASE UNCHANGED vars
    BY <2>2 DEF vars, Bounded, TypeOK
  <2> QED
    BY <2>1, <2>2
<1>3. Bounded => TypeOK
  BY DEF Bounded
<1> QED
  BY <1>1, <1>2, <1>3, PTL DEF Spec

=============================================================================
