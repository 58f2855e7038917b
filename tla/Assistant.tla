------------------------------ MODULE Assistant -----------------------------
(***************************************************************************)
(* One question to POST /ask (assistant/rpi_pod_assist) on its way through *)
(* the retrieval service and the language model, while the index under     *)
(* that service is being replaced and the services come and go.            *)
(*                                                                         *)
(* A passage is its chunk's id.  A sentence of the model is the set of the *)
(* numbers it cites.  The lexical lane, the nearest neighbours and the     *)
(* model's words are any the tables and graphs allow.  The confidence of   *)
(* an answer depends on its top score, which is at least 1/61 whenever     *)
(* anything was ranked: 0.28, above the floor of 0.20, so that only an     *)
(* empty ranking falls below.                                              *)
(***************************************************************************)
EXTENDS IndexRollout

CONSTANTS
  Candidates,    \* length of a lane (DEFAULT_CANDIDATES)
  MaxPassages,   \* MAX_PASSAGES
  Sentences,     \* what the model may say: sets of citation numbers
  MaxSentences   \* bound: sentences in one completion

ASSUME AssistantAssumption ==
  /\ Candidates \in 1..MaxRank /\ MaxPassages \in Nat \ {0} /\ MaxSentences \in Nat
  /\ \A s \in Sentences : s \subseteq Nat

VARIABLES
  ask,    \* the question: where it stands and what it has in hand
  reply   \* the answer to the last question

vars == <<build, ws, pi, sync, up, handle, ask, reply>>

NoAsk == [at |-> "idle", danger |-> FALSE, db |-> NoFile, lanes |-> <<>>, results |-> <<>>]
Reply(status, mode, banner, text, citations) ==
  [status |-> status, mode |-> mode, banner |-> banner, text |-> text, citations |-> citations]
NoReply == Reply(0, "", FALSE, <<>>, {})

Init == RolloutInit /\ ask = NoAsk /\ reply = NoReply

\* The question is in the hands of the retrieval service.
Serving == ask.at \in {"embed", "vectors", "ranked"}

Answer(r) == reply' = r /\ ask' = [ask EXCEPT !.at = "idle"]
\* _empty_noanswer; _defer with what it found; an exception nobody catches.
NoAnswer == Answer(Reply(200, "noanswer", FALSE, <<>>, {}))
Defer(found) ==
  LET top == IF found = <<>> THEN <<>> ELSE <<Head(found)>>
  IN Answer(Reply(200, "defer", TRUE, top, DOMAIN top))
Fail == Answer(Reply(500, "", FALSE, <<>>, {}))

\* RetrieveUnavailable, to ask() or to _defer().  Variant: to ask() alone.
NothingFound == NoAnswer
Unavailable == IF ask.danger THEN Defer(<<>>) ELSE NoAnswer

-----------------------------------------------------------------------------
(* Safety and retrieval.                                                   *)

\* A question arrives; the classifier finds it dangerous or not.
Ask(danger) ==
  /\ ask.at = "idle"
  /\ ask' = [NoAsk EXCEPT !.at = "fetch", !.danger = danger]
  /\ reply' = NoReply
  /\ UNCHANGED rolloutVars

Refused ==
  /\ ask.at = "fetch" /\ ~up
  /\ Unavailable
  /\ UNCHANGED rolloutVars

\* open_chunks_ro holds the file of this moment; FTS5 finds rows of it, or
\* none, or rejects the question.
Lanes(ids, length) == {lane \in BoundedSeq(ids, length) : IsInjective(lane)}
OpenDb ==
  /\ ask.at = "fetch" /\ up
  /\ \E bm25 \in Lanes(DOMAIN Rows(pi["db"]), Candidates) :
       ask' = [ask EXCEPT !.at = "embed", !.db = pi["db"], !.lanes = <<bm25>>]
  /\ UNCHANGED <<rolloutVars, reply>>

\* The embedding server answers or not; without it there is one lane.
Embed ==
  /\ ask.at = "embed"
  /\ \/ ask' = [ask EXCEPT !.at = "vectors"]
     \/ ask' = [ask EXCEPT !.at = "ranked", !.lanes = Append(@, <<>>)]
  /\ UNCHANGED <<rolloutVars, reply>>

\* The first question with an embedding imports index_handle; an import goes on
\* when its client has given up.
Import ==
  /\ \/ ask.at = "vectors" /\ ReadIds
     \/ ReadHnsw
  /\ UNCHANGED <<ask, reply>>

\* vector_search: nothing without a graph, else the nearest Candidates labels.
Neighbours(graph) == {l \in Lanes(0..(graph.n - 1), Candidates) : Len(l) = Candidates}
Search ==
  /\ ask.at = "vectors" /\ handle.at = "loaded"
  /\ \E labels \in IF handle.hnsw = NoFile THEN {<<>>} ELSE Neighbours(handle.hnsw) :
       ask' = [ask EXCEPT !.at = "ranked", !.lanes = Append(@, VectorIds(labels, IdMap(handle.ids)))]
  /\ UNCHANGED <<rolloutVars, reply>>

\* knn_query raises when the graph holds fewer: a 500 of /retrieve.
TooFew ==
  /\ ask.at = "vectors" /\ handle.at = "loaded"
  /\ handle.hnsw.n \in 1..(Candidates - 1)
  /\ Unavailable
  /\ UNCHANGED rolloutVars

Ranked == Hybrid(ask.lanes, Rows(ask.db), IF ask.danger THEN 1 ELSE MaxPassages)

\* The response of /retrieve: the verbatim passage for a dangerous question,
\* passages for the model, or nothing to say.
Body ==
  /\ ask.at = "ranked"
  /\ LET found == FetchChunks(Rows(ask.db), Ranked) IN
     \/ ask.danger /\ Defer(found)
     \/ ~ask.danger /\ found = <<>> /\ NoAnswer
     \/ /\ ~ask.danger /\ found # <<>>
        /\ ask' = [ask EXCEPT !.at = "model", !.lanes = <<>>, !.results = found]
        /\ UNCHANGED reply
  /\ UNCHANGED rolloutVars

\* Five seconds have passed.  Variant: the client tries once more.
RetryFetch ==
  /\ ask.at = "fetch" \/ Serving
  /\ ask' = [NoAsk EXCEPT !.at = "fetch", !.danger = ask.danger]
  /\ UNCHANGED <<rolloutVars, reply>>
FetchTimeout ==
  /\ ask.at = "fetch" \/ Serving
  /\ Unavailable
  /\ UNCHANGED rolloutVars

\* The retrieval service dies (MemoryMax, or killed at the end of a stop): the
\* connection of a question it was serving closes without a response, which is
\* neither a URLError nor a TimeoutError.
Die ==
  /\ up
  /\ up' = FALSE /\ handle' = NoHandle
  /\ IF Serving THEN Fail ELSE UNCHANGED <<ask, reply>>
  /\ UNCHANGED <<build, ws, pi, sync>>

-----------------------------------------------------------------------------
(* The model.                                                              *)

\* postprocess.process: sentences that cite a passage that was sent are kept;
\* fewer than six in ten of them, and the answer is dropped.
\* Variant: any citation will do.
Citing(raw, valid) == Among(raw, {s \in Sentences : s # {}})
Grounded(raw, valid) == Among(raw, {s \in Sentences : s \cap valid # {}})
Rejected(raw, kept) == kept = <<>> \/ 10 * Len(kept) < 6 * Len(raw)

ModelAnswers ==
  /\ ask.at = "model"
  /\ \E raw \in BoundedSeq(Sentences, MaxSentences) :
       LET valid == DOMAIN ask.results
           kept == Grounded(raw, valid)
       IN IF Rejected(raw, kept) THEN NoAnswer
            ELSE Answer(Reply(200, "answer", FALSE, kept, valid \cap UNION ToSet(kept)))
  /\ UNCHANGED rolloutVars

\* Not reachable, out of time or not a completion: LlamaUnavailable.
ModelUnavailable ==
  /\ ask.at = "model"
  /\ NoAnswer
  /\ UNCHANGED rolloutVars

\* It dies over the question: as in Die.
ModelDies ==
  /\ ask.at = "model"
  /\ Fail
  /\ UNCHANGED rolloutVars

-----------------------------------------------------------------------------

Next ==
  \/ (Workstation \/ Copying \/ StartService) /\ UNCHANGED <<ask, reply>>
  \/ \E danger \in BOOLEAN : Ask(danger)
  \/ Refused \/ OpenDb \/ Embed \/ Import \/ Search \/ TooFew \/ Body
  \/ FetchTimeout \/ Die
  \/ ModelAnswers \/ ModelUnavailable \/ ModelDies

\* The two clients' timeouts run out; nothing else is certain to happen.
Spec == Init /\ [][Next]_vars /\ WF_vars(FetchTimeout) /\ WF_vars(ModelUnavailable)
-----------------------------------------------------------------------------
(* Properties.                                                             *)

Dirs == [Names -> [build : 0..Len(Corpus), n : Nat]]

\* Every variable holds values of its kind.
TypeOK ==
  /\ build.nr \in 0..Len(Corpus) /\ build.at \in BuildPlaces
  /\ build.pending \in 0..(Batch - 1) /\ build.embedded \in 0..ws["db"].n
  /\ ws \in Dirs /\ pi \in Dirs
  /\ \E n \in 0..3 : sync = SubSeq(InOrder, n + 1, 3)
  /\ up \in BOOLEAN
  /\ handle.at \in HandlePlaces /\ (handle.at # "unread" => up)
  /\ ask.at \in {"idle", "fetch", "embed", "vectors", "ranked", "model"}
  /\ reply.status \in {0, 200, 500} /\ reply.mode \in {"", "defer", "noanswer", "answer"}

\* Two files of one build, wherever they are, in memory too, cover the same
\* chunks: the batches of the encoder lose no row, whatever build was aborted
\* and whatever copy was cut.
SameBuildSameChunks ==
  LET files == {dir[name] : dir \in {ws, pi}, name \in Names} \cup {handle.hnsw, handle.ids, ask.db}
  IN \A f, g \in files : f.build = g.build => f.n = g.n

\* retrieval.py: "The indexer guarantees chunk_articles covers every id we'll
\* see here": what is ranked are rows of the database the request has open.
ArticleMapCovers ==
  ask.at = "ranked" => ToSet(FlattenSeq(ask.lanes)) \subseteq DOMAIN Rows(ask.db)

\* It does where the graph, the id map and that database are of one build.
ArticleMapCoversOneBuild ==
  {handle.hnsw.build, handle.ids.build} = {ask.db.build} => ArticleMapCovers

\* reciprocal_rank_fusion: what no lane ranks below another chunk, and some lane
\* above it, is not behind it in the fused order.
RankIn(lane, id) == IF Contains(lane, id) THEN PlaceIn(lane, id) ELSE Candidates + 1
FusionRespectsLanes ==
  ask.at = "ranked" =>
    LET fused == Fuse(ask.lanes) IN
    \A i, j \in DOMAIN fused :
      ( /\ \A lane \in ToSet(ask.lanes) : RankIn(lane, fused[i]) <= RankIn(lane, fused[j])
        /\ \E lane \in ToSet(ask.lanes) : RankIn(lane, fused[i]) < RankIn(lane, fused[j]) ) => i < j

\* The model is sent different rows of one database, few of each article,
\* however stale the graph that ranked them.
PassagesFit ==
  ask.at = "model" =>
    LET rows == Rows(ask.db) IN
    /\ IsInjective(ask.results) /\ ToSet(ask.results) \subseteq DOMAIN rows
    /\ Len(ask.results) <= MaxPassages
    /\ \A article \in Articles :
         Cardinality({i \in DOMAIN ask.results : rows[ask.results[i]] = article}) <= PerArticle

\* An answer is made of sentences, each of which cites a listed citation, and
\* every listed citation is a passage that was sent.
AnswerGrounded ==
  reply.mode = "answer" =>
    /\ reply.text # <<>>
    /\ \A s \in ToSet(reply.text) : s \cap reply.citations # {}
    /\ reply.citations \subseteq DOMAIN ask.results

\* _defer: "If retrieval is also down we serve the banner alone; that's better
\* than silence on a dangerous query."
BannerAlways ==
  reply.status # 0 /\ ask.danger => reply.banner

\* Every answer to a dangerous question has the banner and none has a word of
\* the model, whether retrieval refuses, times out, fails or answers; where the
\* retrieval service does not die over the question.
BannerInAnswers ==
  reply.status = 200 /\ ask.danger =>
    reply.banner /\ reply.mode = "defer" /\ ToSet(reply.text) \subseteq DOMAIN Rows(ask.db)

\* Whatever is down, slow or being replaced, a question is answered.
AskAnswered == ask.at # "idle" ~> ask.at = "idle"

=============================================================================
