---------------------------- MODULE IndexRollout ----------------------------
(***************************************************************************)
(* The life of a search index: built on a workstation                      *)
(* (indexer/build_index.py), copied to the hub by rsync while the          *)
(* retrieval service runs, and loaded by that service when the first query *)
(* with an embedding arrives (rpi_pod_retrieve/index_handle.py), then kept *)
(* until it is restarted.                                                  *)
(*                                                                         *)
(* A file is the build it was written by and how many chunks it covers.    *)
(* rsync replaces one file at a time, in the order of their names; the     *)
(* manifest, which nothing reads, is left out.                             *)
(***************************************************************************)
EXTENDS Retrieval

CONSTANTS
  Corpus,  \* Corpus[b]: the articles of the chunks build b reads, in order
  Batch    \* EMBED_BATCH

Builds == DOMAIN Corpus

ASSUME RolloutAssumption ==
  /\ Corpus \in Seq(Seq(Articles))
  /\ Batch \in Nat \ {0}

VARIABLES
  build,  \* the indexer: which build, where it stands, embeddings in hand
  ws,     \* the output directory on the workstation
  pi,     \* /var/lib/rpi-pod/index on the hub
  sync,   \* the files rsync has still to copy
  up,     \* the retrieval service runs
  handle  \* index_handle: where its import stands, HNSW and ID_MAP

rolloutVars == <<build, ws, pi, sync, up, handle>>

BuildPlaces == {"rows", "hnsw", "ids", "done", "failed"}
HandlePlaces == {"unread", "ids", "loaded"}

Names == {"db", "hnsw", "ids"}   \* chunks.sqlite, vectors.hnsw, vectors.ids
InOrder == <<"db", "hnsw", "ids">>
File(b, n) == [build |-> b, n |-> n]
NoFile == File(0, 0)
NoDir == [name \in Names |-> NoFile]
NoHandle == [at |-> "unread", hnsw |-> NoFile, ids |-> NoFile]

\* The rows of a database and the id map of vectors.ids, from what they cover.
Rows(file) == IF file = NoFile THEN <<>> ELSE SubSeq(Corpus[file.build], 1, file.n)
\* Variant: ids counted from 0.
IdsFromZero(file) == [i \in 1..file.n |-> i - 1]
IdMap(file) == [i \in 1..file.n |-> i]

RolloutInit ==
  /\ build = [nr |-> 0, at |-> "done", pending |-> 0, embedded |-> 0]
  /\ ws = NoDir /\ pi = NoDir
  /\ sync = <<>>
  /\ up = FALSE
  /\ handle = NoHandle

-----------------------------------------------------------------------------
(* The workstation.                                                        *)

Stand(at, pending, embedded) == [nr |-> build.nr, at |-> at, pending |-> pending, embedded |-> embedded]

\* _open_db: the old database goes first, the old vectors stay.  Nobody builds
\* into a directory that is being copied.
StartBuild ==
  /\ build.at \in {"done", "failed"} /\ sync = <<>>
  /\ build.nr + 1 \in Builds
  /\ build' = [nr |-> build.nr + 1, at |-> "rows", pending |-> 0, embedded |-> 0]
  /\ ws' = [ws EXCEPT !["db"] = File(build.nr + 1, 0)]
  /\ UNCHANGED <<pi, sync, up, handle>>

\* One chunk: its row, and its text for the encoder; a full batch is encoded.
\* Variant: and stays in hand.
AddChunkTwice ==
  /\ build.at = "rows" /\ ws["db"].n < Len(Corpus[build.nr])
  /\ ws' = [ws EXCEPT !["db"] = File(build.nr, @.n + 1)]
  /\ build' = Stand("rows", build.pending + 1,
                    build.embedded + IF build.pending + 1 >= Batch THEN build.pending + 1 ELSE 0)
  /\ UNCHANGED <<pi, sync, up, handle>>
AddChunk ==
  /\ build.at = "rows" /\ ws["db"].n < Len(Corpus[build.nr])
  /\ ws' = [ws EXCEPT !["db"] = File(build.nr, @.n + 1)]
  /\ build' = IF build.pending + 1 >= Batch
                THEN Stand("rows", 0, build.embedded + build.pending + 1)
                ELSE Stand("rows", build.pending + 1, build.embedded)
  /\ UNCHANGED <<pi, sync, up, handle>>

\* The last batch.  Variant: the texts that do not fill one are forgotten.
DropRest ==
  /\ build.at = "rows" /\ ws["db"].n = Len(Corpus[build.nr])
  /\ build' = Stand("hnsw", 0, build.embedded)
  /\ UNCHANGED <<ws, pi, sync, up, handle>>
FlushRest ==
  /\ build.at = "rows" /\ ws["db"].n = Len(Corpus[build.nr])
  /\ build' = Stand("hnsw", 0, build.embedded + build.pending)
  /\ UNCHANGED <<ws, pi, sync, up, handle>>

SaveHnsw ==
  /\ build.at = "hnsw" /\ build.embedded > 0
  /\ ws' = [ws EXCEPT !["hnsw"] = File(build.nr, build.embedded)]
  /\ build' = [build EXCEPT !.at = "ids"]
  /\ UNCHANGED <<pi, sync, up, handle>>

SaveIds ==
  /\ build.at = "ids"
  /\ ws' = [ws EXCEPT !["ids"] = File(build.nr, build.embedded)]
  /\ build' = [build EXCEPT !.at = "done"]
  /\ UNCHANGED <<pi, sync, up, handle>>

\* No hnswlib, or no text at all: the build succeeds without vectors.
SkipVectors ==
  /\ build.at = "hnsw"
  /\ build' = [build EXCEPT !.at = "done"]
  /\ UNCHANGED <<ws, pi, sync, up, handle>>

\* The encoder or the machine gives out; what is written stays.
AbortBuild ==
  /\ build.at \in {"rows", "hnsw", "ids"}
  /\ build' = [build EXCEPT !.at = "failed"]
  /\ UNCHANGED <<ws, pi, sync, up, handle>>

-----------------------------------------------------------------------------
(* rsync, of a finished build; it may be cut, and be run again.            *)

StartSync ==
  /\ build.at = "done" /\ build.nr > 0 /\ sync = <<>>
  /\ ws # pi
  /\ sync' = InOrder
  /\ UNCHANGED <<build, ws, pi, up, handle>>

CopyFile ==
  /\ sync # <<>>
  /\ pi' = [pi EXCEPT ![Head(sync)] = ws[Head(sync)]]
  /\ sync' = Tail(sync)
  /\ UNCHANGED <<build, ws, up, handle>>

CutSync ==
  /\ sync # <<>>
  /\ sync' = <<>>
  /\ UNCHANGED <<build, ws, pi, up, handle>>

-----------------------------------------------------------------------------
(* The retrieval service.                                                  *)

\* ConditionPathExists=chunks.sqlite.
StartService ==
  /\ ~up /\ pi["db"] # NoFile
  /\ up' = TRUE
  /\ UNCHANGED <<build, ws, pi, sync, handle>>

\* index_handle is imported: the id map is read, then the graph.
ReadIds ==
  /\ handle.at = "unread"
  /\ handle' = [handle EXCEPT !.at = "ids", !.ids = pi["ids"]]
  /\ UNCHANGED <<build, ws, pi, sync, up>>

ReadHnsw ==
  /\ handle.at = "ids"
  /\ handle' = [handle EXCEPT !.at = "loaded", !.hnsw = IF handle.ids.n = 0 THEN NoFile ELSE pi["hnsw"]]
  /\ UNCHANGED <<build, ws, pi, sync, up>>

Workstation == StartBuild \/ AddChunk \/ FlushRest \/ SaveHnsw \/ SaveIds \/ SkipVectors \/ AbortBuild
Copying == StartSync \/ CopyFile \/ CutSync

=============================================================================
