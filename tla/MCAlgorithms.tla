---------------------------- MODULE MCAlgorithms ----------------------------
(***************************************************************************)
(* The algorithms on bounded inputs, one of them in a behaviour: the QR    *)
(* encoder and the alert ring a step at a time, the chunker and the        *)
(* cleaning of notes a call at a time.                                     *)
(***************************************************************************)
EXTENDS QrCode, Chunker, NoteText, SameAlerts

CONSTANTS
  Lines, LineWords, Chars   \* bounds: lines of an article, words of a line, characters of a note

Reader == INSTANCE QrReader

vars == <<qrVars, alertVars, chunked, cleaned>>

MCTexts == {[i \in 1 .. n |-> (37 * i + n) % 128] : n \in {0, 2, 14, 15, 26, 27, 29, 42, 43}}

Articles == UNION {[1 .. n -> (0 .. LineWords) \cup {Heading}] : n \in 0 .. Lines}

Raws == UNION {[1 .. n -> CharKinds \ {"composed"}] : n \in 0 .. Chars}

\* A long alert of the county, a short one of a part of it, one that is over at
\* once and of another county.
MCAlertKinds ==
  {[name |-> "tornado", tttt |-> 100, codes |-> <<<<0, 4, 8, 1, 1, 3>>>>],
   [name |-> "flood",   tttt |-> 45,  codes |-> <<<<0, 4, 8, 2, 0, 1>>, <<5, 4, 8, 1, 1, 3>>>>],
   [name |-> "test",    tttt |-> 0,   codes |-> <<<<0, 4, 8, 2, 0, 1>>>>]}

MCFilters == {<<>>, <<0, 4, 8, 1, 1, 3>>}

\* The last minute of each alert, and the one after it.
MCMinutes == <<0, 15, 60, 61>>

\* The alerts in plain words.
MCPlain ==
  [kind \in MCAlertKinds |->
     [hours    |-> IF kind.name = "tornado" THEN 1 ELSE 0,
      minutes  |-> IF kind.name = "flood" THEN 45 ELSE 0,
      counties |-> IF kind.name = "tornado" THEN {<<4, 8, 1, 1, 3>>}
                   ELSE IF kind.name = "flood" THEN {<<4, 8, 1, 1, 3>>, <<4, 8, 2, 0, 1>>}
                   ELSE {<<4, 8, 2, 0, 1>>}]]

Init == QrInit /\ AlertsInit /\ ChunkerInit /\ CleaningInit

QrUntouched == stage = "idle"
AlertsUntouched == reading = 1 /\ posting.at = "idle" /\ listing.at = "idle" /\ bursts = <<>>
NothingCalled == chunked.of = "nothing" /\ cleaned.of = "nothing"

Call ==
  \/ \E a \in Articles : CallChunkArticle(a) /\ UNCHANGED cleaned
  \/ \E r \in Raws : (CallCleanText(r) \/ CallCleanName(r)) /\ UNCHANGED chunked

Next ==
  \/ QrUntouched /\ AlertsUntouched /\ NothingCalled /\ Call /\ UNCHANGED <<qrVars, alertVars>>
  \/ AlertsUntouched /\ NothingCalled /\ QrNext /\ UNCHANGED <<alertVars, chunked, cleaned>>
  \/ QrUntouched /\ NothingCalled /\ AlertsNext /\ UNCHANGED <<qrVars, chunked, cleaned>>

Spec == Init /\ [][Next]_vars

\* The drawing of to_svg can be located and read, without an error to correct,
\* and says the text that was encoded (qrcode.py, "Return the QR matrix for text").
ReadsBack == stage = "drawn" => Reader!Reads(rects, Size(version), text)

\* The symbol drawn is under the first of the masks with the lowest penalty
\* (qrcode.py, "the lowest-penalty mask wins").
LeastPenaltyWins == stage = "drawn" => Reader!MaskIsFirstLeast(rects, Size(version))
=============================================================================
