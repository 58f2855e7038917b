------------------------------- MODULE Chunker -------------------------------
(***************************************************************************)
(* How the indexer cuts an article into chunks (indexer/chunk.py).  An     *)
(* article is a sequence of lines; a line is a heading, or that many       *)
(* words.  Words are numbered through the article, headings aside, and a   *)
(* section or a chunk is the title it stands under (the number of its      *)
(* heading, 0 for "Lead") and the interval of its words.                   *)
(***************************************************************************)
EXTENDS Integers, Sequences, FiniteSets

CONSTANTS
  Heading,                              \* a line that is a heading
  MaxTokens, OverlapTokens, MinTokens   \* MAX_TOKENS, OVERLAP_TOKENS, and the 20 of chunk_article

ASSUME ChunkerAssumption ==
  /\ MaxTokens \in Nat \ {0} /\ OverlapTokens \in Nat /\ MinTokens \in Nat
  /\ Heading \notin Nat

\* The sizes the code uses (800, 100 and 20): the windows move on, and no
\* window of a section worth indexing is trivially short.
ASSUME SizesAssumption ==
  1 <= MinTokens /\ MinTokens <= OverlapTokens + 1 /\ OverlapTokens < MaxTokens

VARIABLE chunked   \* the last call of chunk_article, and its result

\* What _split_into_sections has in hand: the sections found, and the title and
\* the words since the last heading.
Start == [out |-> <<>>, title |-> 0, from |-> 1, to |-> 0]

\* The words in hand are a section, unless there are none.
Closed(c) ==
  IF c.from <= c.to THEN Append(c.out, [title |-> c.title, from |-> c.from, to |-> c.to]) ELSE c.out

ReadLine(c, line) ==
  IF line = Heading
    THEN [out |-> Closed(c), title |-> c.title + 1, from |-> c.to + 1, to |-> c.to]
    ELSE [c EXCEPT !.to = @ + line]

\* _split_into_sections.
Sections(article) ==
  LET cut[k \in 0 .. Len(article)] == IF k = 0 THEN Start ELSE ReadLine(cut[k - 1], article[k])
  IN  Closed(cut[Len(article)])

\* Variant: the window that reaches the end is taken for one too many.
WindowsShort(size, max, overlap) ==
  IF size <= max THEN <<[from |-> 1, to |-> size]>>
  ELSE LET step == IF max - overlap <= 0 THEN max ELSE max - overlap
       IN  [i \in 1 .. (size - max) \div step + 1 |->
              [from |-> (i - 1) * step + 1, to |-> (i - 1) * step + max]]

\* _window: the body as it is, or windows of max tokens that start step apart,
\* up to the first that reaches the end.
Windows(size, max, overlap) ==
  IF size <= max THEN <<[from |-> 1, to |-> size]>>
  ELSE LET step  == IF max - overlap <= 0 THEN max ELSE max - overlap
           count == (size - max + step - 1) \div step + 1
       IN  [i \in 1 .. count |-> [from |-> (i - 1) * step + 1,
                                  to   |-> IF i = count THEN size ELSE (i - 1) * step + max]]

\* The windows of a section, as chunks.
Cut(s) ==
  LET w == Windows(s.to - s.from + 1, MaxTokens, OverlapTokens)
  IN  [i \in DOMAIN w |-> [title |-> s.title, from |-> s.from + w[i].from - 1, to |-> s.from + w[i].to - 1]]

\* The trivially short ones dropped.
LongEnough(chunks) ==
  LET kept[i \in 0 .. Len(chunks)] ==
        IF i = 0 THEN <<>>
        ELSE IF chunks[i].to - chunks[i].from + 1 >= MinTokens THEN Append(kept[i - 1], chunks[i])
        ELSE kept[i - 1]
  IN  kept[Len(chunks)]

\* chunk_article: section by section.
Chunks(article) ==
  LET sections == Sections(article)
      all[k \in 0 .. Len(sections)] ==
        IF k = 0 THEN <<>> ELSE all[k - 1] \o LongEnough(Cut(sections[k]))
  IN  all[Len(sections)]

ChunkerInit == chunked = [of |-> "nothing"]

CallChunkArticle(article) == chunked' = [of |-> "chunk_article", in |-> article, out |-> Chunks(article)]

\* Calls with any article.
ChunkerSpec == ChunkerInit /\ [][\E article \in Seq(Nat \cup {Heading}) : CallChunkArticle(article)]_chunked

-----------------------------------------------------------------------------
\* The words under each heading, said without the loop.
WordsUpTo(article) ==
  LET sum[k \in 0 .. Len(article)] ==
        IF k = 0 THEN 0 ELSE sum[k - 1] + IF article[k] = Heading THEN 0 ELSE article[k]
  IN  sum

HeadingsUpTo(article, k) == Cardinality({j \in 1 .. k : article[j] = Heading})

Titles(article) == 0 .. HeadingsUpTo(article, Len(article))

WordsUnder(article, t) ==
  UNION {WordsUpTo(article)[k - 1] + 1 .. WordsUpTo(article)[k] :
           k \in {k \in DOMAIN article : HeadingsUpTo(article, k) = t}}

\* What retrieval relies on: no word of a section worth indexing is lost, a
\* chunk stands under the heading its words do and fits the embedder's cap, and
\* a sentence cut by a window edge is whole in the next window, if it is no
\* longer than the overlap.
Covers(article, chunks) ==
  /\ \A t \in Titles(article) :
       LET mine == {i \in DOMAIN chunks : chunks[i].title = t}
           said == UNION {chunks[i].from .. chunks[i].to : i \in mine}
       IN  said = IF \E j \in WordsUnder(article, t) : j + MinTokens - 1 \in WordsUnder(article, t)
                  THEN WordsUnder(article, t) ELSE {}
  /\ \A i \in DOMAIN chunks :
       chunks[i].title \in Titles(article) /\ chunks[i].to - chunks[i].from + 1 \in MinTokens .. MaxTokens
  /\ \A i \in 1 .. Len(chunks) - 1 :
       chunks[i].title = chunks[i + 1].title => chunks[i].to - chunks[i + 1].from + 1 >= OverlapTokens

\* chunk_article loses no word of a section worth indexing, whatever its windows.
ChunksCover == chunked.of = "chunk_article" => Covers(chunked.in, chunked.out)
=============================================================================
