------------------------------ MODULE MeshNet -------------------------------
(***************************************************************************)
(* Hubs exchanging signed notes: the sender's numbering (_next_seq inside  *)
(* publish_note) against the receiver's replay rule (_on_lora_frame with   *)
(* accept_sequence and upsert), over a medium that loses, duplicates and   *)
(* reorders frames, and hubs whose daemon dies and is restarted.           *)
(*                                                                         *)
(* PeerTable and MeshDaemon cut these operations where threads of one      *)
(* process interleave; here each of them is one step.  The medium (alfred, *)
(* the Reticulum daemon and what forwards between them) is external: all   *)
(* that is assumed of it is that it delivers envelopes some hub published. *)
(***************************************************************************)
EXTENDS Naturals

CONSTANTS
  Hubs,         \* nodes of the mesh
  Restarting,   \* the hubs whose daemon may die and be restarted
  MaxNotes,     \* bound: notes one hub publishes
  MaxRestarts,  \* bound: restarts of one hub
  None          \* no entry for this sender

ASSUME MeshNetAssumption ==
  /\ Restarting \subseteq Hubs
  /\ MaxNotes \in Nat /\ MaxRestarts \in Nat
  /\ None \notin Nat

VARIABLES
  outbound_seq, \* outbound_seq[h]: _OUTBOUND_SEQ of the running process
  last_seq,     \* last_seq[h][s]: h's replay mark for s, or None
  air,          \* envelopes the medium may deliver, again and again
  published,    \* history: notes h has published, in all its lives
  newest,       \* history: newest[h][s]: latest of s's notes h has taken
  restarts      \* restarts of h so far

vars == <<outbound_seq, last_seq, air, published, newest, restarts>>

\* nth: which of its sender's notes it is.  The receiver does not see it.
Envelopes == [sender : Hubs, seq : 1..MaxNotes, nth : 1..MaxNotes]

Init ==
  /\ outbound_seq = [h \in Hubs |-> 0]
  /\ last_seq = [h \in Hubs |-> [s \in Hubs |-> None]]
  /\ air = {}
  /\ published = [h \in Hubs |-> 0]
  /\ newest = [h \in Hubs |-> [s \in Hubs |-> 0]]
  /\ restarts = [h \in Hubs |-> 0]

\* publish_note: the next number, signed into an envelope, handed to alfred.
Publish(h) ==
  /\ published[h] < MaxNotes
  /\ outbound_seq' = [outbound_seq EXCEPT ![h] = @ + 1]
  /\ published' = [published EXCEPT ![h] = @ + 1]
  /\ air' = air \cup {[sender |-> h, seq |-> outbound_seq'[h], nth |-> published'[h]]}
  /\ UNCHANGED <<last_seq, newest, restarts>>

\* accept_sequence.  Variant: the number after the last one, and no other.
AcceptsNextOnly(h, e) == last_seq[h][e.sender] \in {None, e.seq - 1}
Accepts(h, e)         == last_seq[h][e.sender] \in {None} \cup 0..(e.seq - 1)

\* The mark left behind: upsert creates the entry of a sender met for the
\* first time, with last_seq 0.  Variant: marks run one ahead.
MarkAhead(h, e) == IF last_seq[h][e.sender] = None THEN 0 ELSE e.seq + 1
Mark(h, e) == IF last_seq[h][e.sender] = None THEN 0 ELSE e.seq

\* _on_lora_frame, for an envelope the replay rule lets through.  One it drops
\* changes nothing.
Receive(h, e) ==
  /\ Accepts(h, e)
  /\ last_seq' = [last_seq EXCEPT ![h][e.sender] = Mark(h, e)]
  /\ newest' = [newest EXCEPT ![h][e.sender] = IF e.nth > @ THEN e.nth ELSE @]
  /\ UNCHANGED <<outbound_seq, air, published, restarts>>

\* The daemon dies and systemd restarts it: count and table were in memory.
Restart(h) ==
  /\ h \in Restarting
  /\ restarts[h] < MaxRestarts
  /\ restarts' = [restarts EXCEPT ![h] = @ + 1]
  /\ outbound_seq' = [outbound_seq EXCEPT ![h] = 0]
  /\ last_seq' = [last_seq EXCEPT ![h] = [s \in Hubs |-> None]]
  /\ newest' = [newest EXCEPT ![h] = [s \in Hubs |-> 0]]
  /\ UNCHANGED <<air, published>>

Next ==
  \E h \in Hubs :
     \/ Publish(h)
     \/ Restart(h)
     \/ \E e \in air : e.sender # h /\ Receive(h, e)

Spec == Init /\ [][Next]_vars

-----------------------------------------------------------------------------
(* Properties.                                                             *)

\* Every variable holds values of its kind.
TypeOK ==
  /\ outbound_seq \in [Hubs -> 0..MaxNotes]
  /\ last_seq \in [Hubs -> [Hubs -> 0..MaxNotes \cup {None}]]
  /\ air \subseteq Envelopes
  /\ published \in [Hubs -> 0..MaxNotes]
  /\ newest \in [Hubs -> [Hubs -> 0..MaxNotes]]
  /\ restarts \in [Hubs -> 0..MaxRestarts]

\* accept_sequence drops what is "likely a replay or stale rebroadcast": a note
\* published after everything a hub has taken from its sender is not dropped,
\* whatever was lost, repeated or overtaken on the way.
FreshAccepted ==
  \A h \in Hubs : \A e \in air :
     e.sender # h /\ e.nth > newest[h][e.sender] => Accepts(h, e)

\* The same, of the senders whose daemon stays up: a receiver that restarts
\* costs them nothing.
FreshAcceptedWhileUp ==
  \A h \in Hubs : \A e \in air :
     e.sender # h /\ e.sender \notin Restarting /\ e.nth > newest[h][e.sender]
       => Accepts(h, e)

=============================================================================
