---------------------------- MODULE PeerRegistry ----------------------------
(***************************************************************************)
(* What the mesh daemon's peer table promises, with every operation in one *)
(* step.  Until a peer has been met for good a further meeting starts its  *)
(* entry afresh; from then on the peer stays known, its replay mark only   *)
(* rises, and a decision of the owner is replaced by another or kept.      *)
(* PeerTable is the code, cut where its threads can interleave.            *)
(***************************************************************************)
EXTENDS Naturals

CONSTANTS
  Peers,      \* fingerprints the radios may surface
  Numbers,    \* sequence numbers, a set of naturals
  Unknown     \* the trust of a fingerprint the table has no entry for

Decisions  == {"trusted", "blocked"}
TrustState == {"unverified"} \cup Decisions

VARIABLES
  trust,      \* trust[p]: Unknown, or the entry's trust state
  mark,       \* mark[p]: the highest sequence number taken from p
  met         \* met[p]: this entry of p is the one that stays

vars == <<trust, mark, met>>

Init ==
  /\ trust = [p \in Peers |-> Unknown]
  /\ mark = [p \in Peers |-> 0]
  /\ met = [p \in Peers |-> FALSE]

\* A frame or a routing entry of a fingerprint that no thread, or not every
\* thread, has seen yet: a fresh entry, which may be the last.
Meet(p) ==
  /\ ~met[p]
  /\ trust' = [trust EXCEPT ![p] = "unverified"]
  /\ mark' = [mark EXCEPT ![p] = 0]
  /\ \E last \in BOOLEAN : met' = [met EXCEPT ![p] = last]

\* A frame that is newer than everything taken from this peer.
Advance(p, n) ==
  /\ trust[p] # Unknown
  /\ n > mark[p]
  /\ mark' = [mark EXCEPT ![p] = n]
  /\ UNCHANGED <<trust, met>>

\* The owner trusts or blocks a known peer.
Decide(p, d) ==
  /\ trust[p] # Unknown
  /\ trust' = [trust EXCEPT ![p] = d]
  /\ UNCHANGED <<mark, met>>

Next ==
  \E p \in Peers :
     \/ Meet(p)
     \/ \E n \in Numbers : Advance(p, n)
     \/ \E d \in Decisions : Decide(p, d)

Spec == Init /\ [][Next]_vars

=============================================================================
