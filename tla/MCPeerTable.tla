---------------------------- MODULE MCPeerTable -----------------------------
(* PeerTable for TLC. *)
EXTENDS PeerTable, TLC

\* The LoRa threads are alike, and so are the request threads: no definition
\* of PeerTable or PeerRegistry tells one from another.
Alike == Permutations(LoraThreads) \cup Permutations(Workers)

=============================================================================
