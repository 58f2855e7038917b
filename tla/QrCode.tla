------------------------------- MODULE QrCode -------------------------------
(***************************************************************************)
(* The QR encoder of the trust workflow (mesh/rpi_pod_mesh/qrcode.py): the *)
(* bytes of a fingerprint become the modules of a symbol of version 1 to 3 *)
(* at level M, and the symbol the rectangles of a drawing.  One action per *)
(* stage of encode and to_svg, two per turn of the loop over the masks.  A *)
(* matrix is indexed as in the source, matrix[row][column] from 0, with 0  *)
(* for light and 1 for dark; sequences are indexed from 1.                 *)
(***************************************************************************)
EXTENDS Integers, Sequences

LOCAL INSTANCE SequencesExt
LOCAL INSTANCE FiniteSetsExt
LOCAL INSTANCE FiniteSets

CONSTANT Texts    \* what callers encode: sequences of bytes

VARIABLES exp, log,   \* the tables of the field, filled when the module is imported
          stage,      \* "idle", "data", "place", "mask", "score", "draw", "drawn" or "refused"
          text, version,
          words,      \* data and error correction codewords
          base,       \* the matrix before masking
          mask,       \* the mask being tried
          candidate,  \* base under that mask, with its format information
          best,       \* [score, matrix] of the best candidate so far, or none
          rects       \* the dark rectangles of the drawing

qrVars == <<exp, log, stage, text, version, words, base, mask, candidate, best, rects>>

none == [none |-> TRUE]

\* Exclusive or of words of at most 16 bits, by a table of four bits at a time.
XorNibble ==
  LET Odd(a, b, p) == (a \div p + b \div p) % 2
  IN  [a \in 0 .. 15 |-> [b \in 0 .. 15 |->
         Odd(a, b, 1) + 2 * Odd(a, b, 2) + 4 * Odd(a, b, 4) + 8 * Odd(a, b, 8)]]

a ^^ b == XorNibble[a % 16][b % 16] + 16 * XorNibble[(a \div 16) % 16][(b \div 16) % 16]
             + 256 * XorNibble[(a \div 256) % 16][(b \div 256) % 16]
             + 4096 * XorNibble[a \div 4096][b \div 4096]

BlockInfo == <<[data |-> 16, ecc |-> 10], [data |-> 28, ecc |-> 16], [data |-> 44, ecc |-> 26]>>

AlignCentres == <<{}, {18}, {22}>>

Size(v) == 21 + 4 * (v - 1)

\* ---------------------------------------------------------------- GF(256)
\* x <<= 1, reduced by the primitive polynomial 0x11d.
Double(x) == IF 2 * x >= 256 THEN (2 * x) ^^ 285 ELSE 2 * x

\* _gf_tables: the powers of 2, fifteen at a time, and their inverse.
ExpTable ==
  LET Fifteen(x) == LET p[i \in 1 .. 15] == IF i = 1 THEN <<x>>
                                            ELSE LET q == p[i - 1] IN Append(q, Double(q[i - 1]))
                    IN  p[15]
      powers[k \in 1 .. 17] == IF k = 1 THEN Fifteen(1)
                               ELSE LET q == powers[k - 1] IN q \o Fifteen(Double(q[15 * (k - 1)]))
  IN  powers[17]

Exp(i) == exp[(i % 255) + 1]

Mul(a, b) == IF a = 0 \/ b = 0 THEN 0 ELSE Exp(log[a] + log[b])

\* The product of (x + 2^i) for i below degree, highest power first.
Generator(degree) ==
  LET poly[i \in 0 .. degree] ==
        IF i = 0 THEN <<1>>
        ELSE LET p == poly[i - 1]
             IN  Append([j \in 1 .. i |-> p[j] ^^ (IF j = 1 THEN 0 ELSE Mul(p[j - 1], Exp(i - 1)))],
                        Mul(p[i], Exp(i - 1)))
  IN  poly[degree]

\* The remainder of data * x^ecc by the generator; each division step cancels the first codeword.
Ecc(data, v) ==
  LET gen == Generator(BlockInfo[v].ecc)
      rem[i \in 0 .. Len(data)] ==
        IF i = 0 THEN data \o [k \in 1 .. BlockInfo[v].ecc |-> 0]
        ELSE LET r == rem[i - 1]
             IN  Tail([j \in DOMAIN r |-> IF j <= Len(gen) THEN r[j] ^^ Mul(gen[j], r[1]) ELSE r[j]])
  IN  rem[Len(data)]

\* Variant: the terminator is not counted, nor the length.
PickVersionTight(len) ==
  LET fits == {v \in 1 .. 3 : BlockInfo[v].data >= len}
  IN  IF fits = {} THEN 0 ELSE Min(fits)

\* ----------------------------------------------------------- data encoding
\* The smallest version whose data codewords hold mode, length, terminator and text; 0: ValueError.
PickVersion(len) ==
  LET fits == {v \in 1 .. 3 : BlockInfo[v].data * 8 >= 16 + 8 * len}
  IN  IF fits = {} THEN 0 ELSE Min(fits)

Bits(byte) == <<byte \div 128, (byte \div 64) % 2, (byte \div 32) % 2, (byte \div 16) % 2,
                (byte \div 8) % 2, (byte \div 4) % 2, (byte \div 2) % 2, byte % 2>>

BitsOf(bytes) == [k \in 1 .. 8 * Len(bytes) |-> Bits(bytes[(k + 7) \div 8])[((k - 1) % 8) + 1]]

Byte(bits, k) == MapThenSumSet(LAMBDA i : bits[8 * k - i] * 2^i, 0 .. 7)

\* Mode 0100, length, text and terminator, cut into bytes and padded with EC and 11 in turn.
Codewords(t, v) ==
  LET count == BlockInfo[v].data
      body  == <<0, 1, 0, 0>> \o Bits(Len(t)) \o BitsOf(t)
      ended == body \o [i \in 1 .. Max({0, Min({4, count * 8 - Len(body)})}) |-> 0]
      bits  == ended \o [i \in 1 .. (-Len(ended)) % 8 |-> 0]
      used  == Len(bits) \div 8
  IN  [k \in 1 .. Max({count, used}) |->
         IF k <= used THEN Byte(bits, k) ELSE IF (k - used) % 2 = 1 THEN 236 ELSE 17]

\* -------------------------------------------------------- matrix placement
Square(top, left, size) == (top .. top + size - 1) \X (left .. left + size - 1)

Modules(v) == Square(0, 0, Size(v))

Corners(v) == {<<0, 0>>, <<0, Size(v) - 7>>, <<Size(v) - 7, 0>>}

\* Finders with their separators, timing rows, dark module and format strips, alignment.
Reserved(v) ==
  LET n == Size(v) IN
  Modules(v) \cap (UNION {Square(p[1] - 1, p[2] - 1, 9) : p \in Corners(v)}
                   \cup {<<6, k>> : k \in 8 .. n - 9} \cup {<<k, 6>> : k \in 8 .. n - 9}
                   \cup {<<8, k>> : k \in 0 .. 8 \cup n - 8 .. n - 1}
                   \cup {<<k, 8>> : k \in 0 .. 8 \cup n - 7 .. n - 1} \cup {<<4 * v + 9, 8>>}
                   \cup UNION {Square(y - 2, x - 2, 5) : x, y \in AlignCentres[v]})

FunctionDark(v) ==
  LET n == Size(v) IN
  UNION {(Square(p[1], p[2], 7) \ Square(p[1] + 1, p[2] + 1, 5)) \cup Square(p[1] + 2, p[2] + 2, 3)
           : p \in Corners(v)}
    \cup {<<6, k>> : k \in {i \in 8 .. n - 9 : i % 2 = 0}}
    \cup {<<k, 6>> : k \in {i \in 8 .. n - 9 : i % 2 = 0}}
    \cup {<<4 * v + 9, 8>>}
    \cup UNION {(Square(y - 2, x - 2, 5) \ Square(y - 1, x - 1, 3)) \cup {<<y, x>>}
                  : x, y \in AlignCentres[v]}

\* Variant: the vertical timing column is not skipped.
ColumnPairsUnskipped(v) == [k \in 1 .. (Size(v) - 1) \div 2 |-> Size(v) + 1 - 2 * k]

\* The right column of each pair, from the right; column 6 is skipped.
ColumnPairs(v) == [k \in 1 .. (Size(v) - 1) \div 2 |->
                     LET col == Size(v) + 1 - 2 * k IN IF col > 6 THEN col ELSE col - 1]

\* The unreserved modules in the order bits are laid, up and down in turn.
ZigZag(v) ==
  LET n     == Size(v)
      pairs == ColumnPairs(v)
      taken == Reserved(v)
      At(i) == LET k == i \div (2 * n) + 1   step == (i % (2 * n)) \div 2
               IN  <<IF k % 2 = 1 THEN n - 1 - step ELSE step, pairs[k] - (i % 2)>>
      laid  == {i \in 0 .. 2 * n * Len(pairs) - 1 : At(i) \notin taken}
  IN  {[at |-> At(i), bit |-> Cardinality({j \in laid : j <= i})] : i \in laid}

\* Which bit each module takes, 0 for the reserved ones, for each version.
BitOf == [v \in 1 .. 3 |->
  LET path == ZigZag(v) IN
  [r \in 0 .. Size(v) - 1 |->
    LET row == {q \in path : q.at[1] = r} IN
    [c \in 0 .. Size(v) - 1 |-> LET here == {q.bit : q \in {x \in row : x.at[2] = c}}
                                IN  IF here = {} THEN 0 ELSE Max(here)]]]

\* Function patterns and data; modules beyond the last bit stay light.
BaseMatrix(allWords, v) ==
  LET dark == FunctionDark(v)
      Laid(k) == IF k <= 8 * Len(allWords) THEN Bits(allWords[(k + 7) \div 8])[((k - 1) % 8) + 1] ELSE 0
  IN  [r \in 0 .. Size(v) - 1 |-> [c \in 0 .. Size(v) - 1 |->
         IF BitOf[v][r][c] > 0 THEN Laid(BitOf[v][r][c]) ELSE IF <<r, c>> \in dark THEN 1 ELSE 0]]

\* ----------------------------------------------------------------- masking
Masks(k, r, c) ==
  CASE k = 0 -> (r + c) % 2 = 0
    [] k = 1 -> r % 2 = 0
    [] k = 2 -> c % 3 = 0
    [] k = 3 -> (r + c) % 3 = 0
    [] k = 4 -> (r \div 2 + c \div 3) % 2 = 0
    [] k = 5 -> ((r * c) % 2) + ((r * c) % 3) = 0
    [] k = 6 -> (((r * c) % 2) + ((r * c) % 3)) % 2 = 0
    [] k = 7 -> (((r + c) % 2) + ((r * c) % 3)) % 2 = 0

ApplyMask(m, v, k) ==
  [r \in DOMAIN m |-> [c \in DOMAIN m |->
     IF BitOf[v][r][c] > 0 /\ Masks(k, r, c) THEN 1 - m[r][c] ELSE m[r][c]]]

\* Runs of five and more cost their length less two, where they end.
RunPenalty(line) ==
  LET Charge(run) == IF run >= 5 THEN run - 2 ELSE 0
      seen[k \in 1 .. Len(line)] ==
        IF k = 1 THEN [run |-> 1, p |-> 0]
        ELSE LET s == seen[k - 1]
             IN  IF line[k] = line[k - 1] THEN [run |-> s.run + 1, p |-> s.p]
                 ELSE [run |-> 1, p |-> s.p + Charge(s.run)]
      end == seen[Len(line)]
  IN  end.p + Charge(end.run)

FinderLike == <<1, 0, 1, 1, 1, 0, 1, 0, 0, 0, 0>>

\* Variant: the quiet zone is looked for on one side only.
PatternPenaltyOneSide(line) ==
  40 * Cardinality({k \in 1 .. Len(line) - 10 : SubSeq(line, k, k + 10) = FinderLike})

PatternPenalty(line) ==
  40 * Cardinality({k \in 1 .. Len(line) - 10 :
                      SubSeq(line, k, k + 10) \in {FinderLike, Reverse(FinderLike)}})

BlockPenalty(m, n) ==
  3 * Cardinality({p \in Square(0, 0, n - 1) :
                     Cardinality({m[p[1]][p[2]], m[p[1]][p[2] + 1],
                                  m[p[1] + 1][p[2]], m[p[1] + 1][p[2] + 1]}) = 1})

RatioPenalty(m, n) ==
  LET pct == (Cardinality({p \in Square(0, 0, n) : m[p[1]][p[2]] = 1}) * 100) \div (n * n)
  IN  ((IF pct >= 50 THEN pct - 50 ELSE 50 - pct) \div 5) * 10

Penalty(m, n) ==
  LET Row(i) == [k \in 1 .. n |-> m[i][k - 1]]
      Column(i) == [k \in 1 .. n |-> m[k - 1][i]]
      lines[i \in 0 .. n] ==
        IF i = n THEN 0
        ELSE lines[i + 1] + RunPenalty(Row(i)) + PatternPenalty(Row(i))
               + RunPenalty(Column(i)) + PatternPenalty(Column(i))
  IN  lines[0] + BlockPenalty(m, n) + RatioPenalty(m, n)

\* ------------------------------------------------------------- format info
\* BCH(15,5) of level M and mask, under the mask of the standard.
FormatWord(k) ==
  LET rem[i \in 0 .. 5] ==
        IF i = 5 THEN k * 1024
        ELSE LET r == rem[i + 1] IN IF (r \div 2^(i + 10)) % 2 = 1 THEN r ^^ (1335 * 2^i) ELSE r
  IN  (k * 1024 + (rem[0] % 1024)) ^^ 21522

FormatA == <<<<8, 0>>, <<8, 1>>, <<8, 2>>, <<8, 3>>, <<8, 4>>, <<8, 5>>, <<8, 7>>, <<8, 8>>,
             <<7, 8>>, <<5, 8>>, <<4, 8>>, <<3, 8>>, <<2, 8>>, <<1, 8>>, <<0, 8>>>>

FormatB(n) == [i \in 1 .. 15 |-> IF i <= 7 THEN <<n - i, 8>> ELSE <<8, n - 16 + i>>]

\* Most significant bit first, twice.
PlaceFormat(m, n, k) ==
  LET word == FormatWord(k)
      Spots(i) == {FormatA[i], FormatB(n)[i]}
  IN  [r \in DOMAIN m |-> [c \in DOMAIN m |->
         IF r # 8 /\ c # 8 THEN m[r][c]
         ELSE LET here == {i \in 1 .. 15 : <<r, c>> \in Spots(i)}
              IN  IF here = {} THEN m[r][c] ELSE (word \div 2^(15 - Max(here))) % 2]]

\* -------------------------------------------------------------- public API
\* The rectangles of the drawing: one per run of dark modules in a row.
Rects(m, n) ==
  {[row |-> p[1], from |-> p[2],
    width |-> Min({w \in 1 .. n - p[2] : IF p[2] + w = n THEN TRUE ELSE m[p[1]][p[2] + w] = 0})] :
     p \in {q \in Square(0, 0, n) : /\ m[q[1]][q[2]] = 1
                                    /\ IF q[2] = 0 THEN TRUE ELSE m[q[1]][q[2] - 1] = 0}}

QrInit == /\ exp = ExpTable
          /\ log = [a \in 1 .. 255 |-> (CHOOSE i \in 1 .. 255 : exp[i] = a) - 1]
          /\ stage = "idle" /\ text = <<>> /\ version = 0 /\ words = <<>> /\ base = none
          /\ mask = 0 /\ candidate = none /\ best = none /\ rects = {}

\* encode: data.encode, _pick_version; a longer text raises ValueError.
Begin(t) ==
  /\ stage = "idle"
  /\ text' = t
  /\ version' = PickVersion(Len(t))
  /\ stage' = IF version' = 0 THEN "refused" ELSE "data"
  /\ UNCHANGED <<exp, log, words, base, mask, candidate, best, rects>>

\* _data_plus_ecc_bits.
EncodeData ==
  /\ stage = "data"
  /\ LET data == Codewords(text, version) IN words' = data \o Ecc(data, version)
  /\ stage' = "place"
  /\ UNCHANGED <<exp, log, text, version, base, mask, candidate, best, rects>>

\* _place_function_patterns and _place_data_bits.
Place ==
  /\ stage = "place"
  /\ base' = BaseMatrix(words, version)
  /\ stage' = "mask"
  /\ UNCHANGED <<exp, log, text, version, words, mask, candidate, best, rects>>

\* _apply_mask and _place_format on a copy of the base.
TryMask ==
  /\ stage = "mask"
  /\ candidate' = PlaceFormat(ApplyMask(base, version, mask), Size(version), mask)
  /\ stage' = "score"
  /\ UNCHANGED <<exp, log, text, version, words, base, mask, best, rects>>

\* The first candidate with the lowest penalty is kept.
Keep ==
  /\ stage = "score"
  /\ LET score == Penalty(candidate, Size(version))
     IN  best' = IF best = none \/ score < best.score THEN [score |-> score, matrix |-> candidate]
                 ELSE best
  /\ mask' = mask + 1
  /\ candidate' = none
  /\ stage' = IF mask = 7 THEN "draw" ELSE "mask"
  /\ UNCHANGED <<exp, log, text, version, words, base, rects>>

\* to_svg.
Draw ==
  /\ stage = "draw"
  /\ rects' = Rects(best.matrix, Size(version))
  /\ stage' = "drawn"
  /\ UNCHANGED <<exp, log, text, version, words, base, mask, candidate, best>>

QrNext == (\E t \in Texts : Begin(t)) \/ EncodeData \/ Place \/ TryMask \/ Keep \/ Draw
=============================================================================
