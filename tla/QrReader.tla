------------------------------ MODULE QrReader ------------------------------
(***************************************************************************)
(* A reader of QR symbols of version 1 to 3 at level M, what the phone of  *)
(* the second owner does with the drawing.  It is the reference the        *)
(* encoder is checked against and shares no table with it: words and field *)
(* elements are the sets of the exponents of their bits, function modules  *)
(* are told by distance, the path by a sort key, and the mask conditions   *)
(* and penalties are put in other words.                                   *)
(***************************************************************************)
EXTENDS Integers, Sequences, FiniteSets

LOCAL INSTANCE FiniteSetsExt

Abs(x) == IF x < 0 THEN -x ELSE x

Cells(n) == (0 .. n - 1) \X (0 .. n - 1)

\* The dark modules of a drawing of rectangles.
Shown(rects) == UNION {{q.row} \X (q.from .. q.from + q.width - 1) : q \in rects}

DrawnOnce(rects, n) ==
  /\ Shown(rects) \subseteq Cells(n)
  /\ \A p, q \in rects : p # q /\ p.row = q.row => p.from + p.width <= q.from \/ q.from + q.width <= p.from

\* Rings around the centre of a finder: dark at distance 0, 1 and 3, light at 2 and 4.
FindersSeen(dark, n) ==
  \A p \in Cells(n), centre \in {<<3, 3>>, <<3, n - 4>>, <<n - 4, 3>>} :
    LET d == Max({Abs(p[1] - centre[1]), Abs(p[2] - centre[2])})
    IN  d <= 4 => (p \in dark <=> d \in {0, 1, 3})

TimingSeen(dark, n) ==
  \A k \in 8 .. n - 9 : /\ <<6, k>> \in dark <=> k % 2 = 0
                        /\ <<k, 6>> \in dark <=> k % 2 = 0

AlignmentSeen(dark, n) ==
  n > 21 => \A i, j \in -2 .. 2 :
              <<n - 7 + i, n - 7 + j>> \in dark <=> Max({Abs(i), Abs(j)}) # 1

\* ------------------------------------------------------------- format info
\* Exponents with odd multiplicity: the sum of polynomials over GF(2).
Plus(a, b) == (a \ b) \cup (b \ a)

\* Format bits, least significant first, around the upper left finder and at the two far edges.
FormatSpot(i, n, copy) ==
  IF copy = "far" THEN IF i < 8 THEN <<8, n - 1 - i>> ELSE <<n - 15 + i, 8>>
  ELSE IF i < 8 THEN <<IF i < 6 THEN i ELSE i + 1, 8>> ELSE <<8, IF i = 8 THEN 7 ELSE 14 - i>>

\* The mask of the format, 101010000010010, taken off.
FormatRead(dark, n, copy) ==
  Plus({i \in 0 .. 14 : FormatSpot(i, n, copy) \in dark}, {14, 12, 10, 4, 1})

\* Divisible by the generator of BCH(15,5), 10100110111.
InFormatCode(w) ==
  LET rest[i \in 10 .. 15] == IF i = 15 THEN w
                              ELSE LET r == rest[i + 1]
                                   IN  IF i \in r THEN Plus(r, {i - 10 + e : e \in {10, 8, 5, 4, 2, 1, 0}}) ELSE r
  IN  rest[10] = {}

MaskRead(w) == (IF 12 \in w THEN 4 ELSE 0) + (IF 11 \in w THEN 2 ELSE 0) + (IF 10 \in w THEN 1 ELSE 0)

\* The condition of each mask, in other words than the source's.
Flipped(mask, r, c) ==
  CASE mask = 0 -> (r % 2) = (c % 2)
    [] mask = 1 -> r \in {2 * k : k \in 0 .. 14}
    [] mask = 2 -> c \in {3 * k : k \in 0 .. 9}
    [] mask = 3 -> (r % 3) + (c % 3) \in {0, 3}
    [] mask = 4 -> ((r \div 2) % 2) = ((c \div 3) % 2)
    [] mask = 5 -> (r * c) % 6 = 0
    [] mask = 6 -> (r * c) % 6 \in {0, 1, 2}
    [] mask = 7 -> ((r % 2) = (c % 2)) <=> (r * c) % 3 # 1

\* -------------------------------------------------------------------- data
IsData(p, n) ==
  LET r == p[1] c == p[2] IN
  ~ \/ r = 6 \/ c = 6
    \/ r < 9 /\ (c < 9 \/ c >= n - 8)
    \/ r >= n - 8 /\ c < 9
    \/ n > 21 /\ Abs(r - (n - 7)) <= 2 /\ Abs(c - (n - 7)) <= 2

\* Order of reading: column pairs from the right, up and down in turn, right before left.
ReadKey(p, n) ==
  LET c    == IF p[2] > 6 THEN p[2] ELSE p[2] + 1
      pair == (n - 1 - c) \div 2
  IN  pair * 2 * n + 2 * (IF pair % 2 = 0 THEN n - 1 - p[1] ELSE p[1]) + ((n - 1 - c) % 2)

ReadRank == [n \in {21, 25, 29} |->
  LET data == {p \in Cells(n) : IsData(p, n)}
      keys == {ReadKey(p, n) : p \in data}
  IN  [p \in data |-> LET key == ReadKey(p, n) IN Cardinality({k \in keys : k < key})]]

\* The places of the ones in the stream of bits, from 0, the mask taken off.
OnesRead(dark, n, mask) ==
  LET rank == ReadRank[n]
  IN  {rank[p] : p \in {q \in DOMAIN rank : (q \in dark) # Flipped(mask, q[1], q[2])}}

\* Powers of x modulo 100011101, by squaring.
TimesX(a) == LET up == {e + 1 : e \in a} IN IF 8 \in up THEN Plus(up \ {8}, {0, 2, 3, 4}) ELSE up

Low == LET p[e \in 0 .. 14] == IF e < 8 THEN {e} ELSE TimesX(p[e - 1])
       IN  [e \in 0 .. 14 |-> p[e]]

PowerOfX ==
  LET p[m \in 0 .. 254] ==
        IF m = 0 THEN {0}
        ELSE LET half   == p[m \div 2]
                 square == {c \in 0 .. 7 : Cardinality({e \in half : c \in Low[2 * e]}) % 2 = 1}
             IN  IF m % 2 = 0 THEN square ELSE TimesX(square)
  IN  [m \in 0 .. 254 |-> p[m]]

EccWords(n) == CASE n = 21 -> 10 [] n = 25 -> 16 [] n = 29 -> 26

AllWords(n) == CASE n = 21 -> 26 [] n = 25 -> 44 [] n = 29 -> 70

\* A word of the Reed-Solomon code vanishes at the first powers of x.
InCode(ones, n) ==
  \A i \in 0 .. EccWords(n) - 1, c \in 0 .. 7 :
    Cardinality({j \in ones : c \in PowerOfX[(7 - (j % 8) + i * (AllWords(n) - 1 - j \div 8)) % 255]}) % 2 = 0

BitSet(x) == {b \in 0 .. 7 : (x \div 2^b) % 2 = 1}

\* Byte mode, the length, the text and as much of the terminator as there is room for.
Says(ones, n, text) ==
  LET end == 12 + 8 * Len(text)
  IN  {j \in ones : j < end + 4 /\ j < 8 * (AllWords(n) - EccWords(n))}
        = {1} \cup {11 - b : b \in BitSet(Len(text))}
              \cup UNION {{11 + 8 * k - b : b \in BitSet(text[k])} : k \in DOMAIN text}

\* The drawing can be located and read, without an error to correct, and says the text.
Reads(rects, n, text) ==
  LET dark == Shown(rects)
      word == FormatRead(dark, n, "near")
      ones == {j \in OnesRead(dark, n, MaskRead(word)) : j < 8 * AllWords(n)}
  IN  /\ DrawnOnce(rects, n)
      /\ FindersSeen(dark, n) /\ TimingSeen(dark, n) /\ AlignmentSeen(dark, n)
      /\ <<n - 8, 8>> \in dark
      /\ word = FormatRead(dark, n, "far") /\ InFormatCode(word) /\ word \cap {13, 14} = {}
      /\ InCode(ones, n)
      /\ Says(ones, n, text)

\* ----------------------------------------------------------------- penalty
\* Features of the standard, counted over sets: windows, not runs.
PenaltyOf(dark, n) ==
  LET Same(p, q) == (p \in dark) = (q \in dark)
      Step(p, d, k) == <<p[1] + k * d[1], p[2] + k * d[2]>>
      ways   == {<<0, 1>>, <<1, 0>>}
      Flat5(p, d) == Step(p, d, 4) \in Cells(n) /\ \A k \in 1 .. 4 : Same(p, Step(p, d, k))
      Starts(p, d) == Step(p, d, -1) \notin Cells(n) \/ ~ Same(p, Step(p, d, -1))
      flat   == {<<p, d>> \in Cells(n) \X ways : Flat5(p, d)}
      begun  == {x \in flat : Starts(x[1], x[2])}
      blocks == {p \in (0 .. n - 2) \X (0 .. n - 2) :
                   \A q \in {<<0, 1>>, <<1, 0>>, <<1, 1>>} : Same(p, <<p[1] + q[1], p[2] + q[2]>>)}
      Like(p, d) == Step(p, d, 10) \in Cells(n)
                    /\ \/ \A k \in 0 .. 10 : Step(p, d, k) \in dark <=> k \in {0, 2, 3, 4, 6}
                       \/ \A k \in 0 .. 10 : Step(p, d, k) \in dark <=> k \in {4, 6, 7, 8, 10}
      likes  == {<<p, d>> \in Cells(n) \X ways : Like(p, d)}
      off    == Abs((100 * Cardinality(dark)) \div (n * n) - 50)
  IN  Cardinality(flat) + 2 * Cardinality(begun) + 3 * Cardinality(blocks)
        + 40 * Cardinality(likes) + 10 * (off \div 5)

\* The symbol under another mask: data modules flipped, format bits of that mask.
Remasked(dark, n, old, new) ==
  LET code == CHOOSE w \in {Plus({10 + b : b \in BitSet(new)}, low) : low \in SUBSET (0 .. 9)} : InFormatCode(w)
      bits == Plus(code, {14, 12, 10, 4, 1})
      spot == [i \in 0 .. 14 |-> {FormatSpot(i, n, "near"), FormatSpot(i, n, "far")}]
  IN  ({p \in dark : ~ IsData(p, n)} \ UNION {spot[i] : i \in 0 .. 14})
        \cup UNION {spot[i] : i \in bits}
        \cup {p \in Cells(n) : IsData(p, n)
                 /\ ((p \in dark) # (Flipped(old, p[1], p[2]) # Flipped(new, p[1], p[2])))}

\* No other mask has a lower penalty, and no earlier one the same.
MaskIsFirstLeast(rects, n) ==
  LET dark == Shown(rects)
      mask == MaskRead(FormatRead(dark, n, "near"))
      cost == [k \in 0 .. 7 |-> PenaltyOf(Remasked(dark, n, mask, k), n)]
      mine == cost[mask]
  IN  \A k \in 0 .. 7 : cost[k] > mine \/ (cost[k] = mine /\ k >= mask)
=============================================================================
