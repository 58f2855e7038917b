----------------------------- MODULE Retrieval ------------------------------
(***************************************************************************)
(* The pure part of hybrid search (assistant/rpi_pod_retrieve): the vector *)
(* lane's labels to chunk ids, reciprocal rank fusion, the diversity cap   *)
(* and the lookup of the ranked rows.  A lane is a sequence of chunk ids,  *)
(* best first; a database is the sequence of its chunks' articles, chunk   *)
(* id i being row i (build_index numbers them so).                         *)
(***************************************************************************)
EXTENDS Naturals, Sequences, FiniteSets, SequencesExt

CONSTANTS
  Articles,    \* article titles
  RrfK,        \* RRF_K
  PerArticle,  \* per_article of diversity_filter
  MaxRank      \* bound: chunks in one lane

ASSUME RetrievalAssumption ==
  /\ "" \notin Articles
  /\ RrfK \in Nat /\ MaxRank \in Nat /\ PerArticle \in Nat \ {0}

\* The elements of a sequence that a set holds, in their order.
Among(seq, S) ==
  LET kept[i \in 0..Len(seq)] ==
        IF i = 0 THEN <<>>
        ELSE IF seq[i] \in S THEN Append(kept[i - 1], seq[i]) ELSE kept[i - 1]
  IN kept[Len(seq)]

\* vector_search: labels past the id map are dropped, the others looked up.
VectorIds(labels, id_map) ==
  LET known == Among(labels, 0..(Len(id_map) - 1))
  IN [i \in DOMAIN known |-> id_map[known[i] + 1]]

\* A multiple of every RrfK + rank, so that scores compare as integers.
Scale ==
  LET product[rank \in 0..MaxRank] ==
        IF rank = 0 THEN 1 ELSE product[rank - 1] * (RrfK + rank)
  IN product[MaxRank]

\* The place of an id in a lane, from 1, or 0.
PlaceIn(lane, id) == SelectInSeq(lane, LAMBDA x : x = id)

\* The sum over the lanes of 1 / (k + rank), times Scale.  Variant: of the ranks.
LaneScoreByRank(lane, id) == PlaceIn(lane, id)
LaneScore(lane, id) == IF Contains(lane, id) THEN Scale \div (RrfK + PlaceIn(lane, id)) ELSE 0
Score(lanes, id) ==
  LET sum[i \in 0..Len(lanes)] == IF i = 0 THEN 0 ELSE sum[i - 1] + LaneScore(lanes[i], id)
  IN sum[Len(lanes)]

\* sorted(): by score; equal scores stay in the order in which the lanes, one
\* after the other, first name them.
Before(lanes, x, y) ==
  \/ Score(lanes, x) > Score(lanes, y)
  \/ /\ Score(lanes, x) = Score(lanes, y)
     /\ PlaceIn(FlattenSeq(lanes), x) < PlaceIn(FlattenSeq(lanes), y)

\* reciprocal_rank_fusion: each id at the place the ids before it leave it.
Fuse(lanes) ==
  LET ids == ToSet(FlattenSeq(lanes))
  IN [i \in 1..Cardinality(ids) |->
        CHOOSE id \in ids : Cardinality({x \in ids : Before(lanes, x, id)}) = i - 1]

\* chunk_articles.get(id, ""): an id the database does not hold has no article.
ArticleOf(db, id) == IF id \in DOMAIN db THEN db[id] ELSE ""

\* diversity_filter.  Variant: the cap admits one more.
Kept(out, db, article) == Cardinality({i \in DOMAIN out : ArticleOf(db, out[i]) = article})
DiverseLate(ranked, db) ==
  LET out[i \in 0..Len(ranked)] ==
        IF i = 0 THEN <<>>
        ELSE IF Kept(out[i - 1], db, ArticleOf(db, ranked[i])) > PerArticle
               THEN out[i - 1] ELSE Append(out[i - 1], ranked[i])
  IN out[Len(ranked)]
Diverse(ranked, db) ==
  LET out[i \in 0..Len(ranked)] ==
        IF i = 0 THEN <<>>
        ELSE IF Kept(out[i - 1], db, ArticleOf(db, ranked[i])) >= PerArticle
               THEN out[i - 1] ELSE Append(out[i - 1], ranked[i])
  IN out[Len(ranked)]

\* _hybrid_search, given its two lanes: the k best.
Hybrid(lanes, db, k) ==
  LET ranked == Diverse(Fuse(lanes), db) IN SubSeq(ranked, 1, IF Len(ranked) < k THEN Len(ranked) ELSE k)

\* fetch_chunks: the ranked ids the database holds, in their order.
FetchChunks(db, ids) == Among(ids, DOMAIN db)

=============================================================================
