------------------------------ MODULE NoteText ------------------------------
(***************************************************************************)
(* Input cleaning of the notes board (notes/rpi_pod_notes/validation.py).  *)
(* A character is one of the kinds the cleaning tells apart: letters, a    *)
(* letter with a combining accent (which NFC composes), controls, blank,   *)
(* tab, newline, and a space that only strip() knows (U+00A0).             *)
(***************************************************************************)
EXTENDS Integers, Sequences

CONSTANTS TextMax, NameMax    \* TEXT_MAX, NAME_MAX

ASSUME NoteTextAssumption == TextMax \in Nat \ {0} /\ NameMax \in Nat \ {0}

VARIABLE cleaned   \* the last call of clean_text or clean_name, and its result

NoText == <<"none">>   \* None, of clean_text

CharKinds == {"a", "e", "accent", "composed", "control", "blank", "tab", "newline", "nbsp"}
Whitespace == {"blank", "tab", "newline", "nbsp"}
Letters == {"a", "e", "accent", "composed"}

\* The characters of s at some of its places, in their order.
Only(s, at) ==
  LET upTo[i \in 0 .. Len(s)] ==
        IF i = 0 THEN <<>>
        ELSE IF i \in at THEN Append(upTo[i - 1], s[i])
        ELSE upTo[i - 1]
  IN  upTo[Len(s)]

\* A character of these kinds stands at place i of s.
Stands(s, i, kinds) == i \in DOMAIN s /\ s[i] \in kinds

\* unicodedata.normalize("NFC", raw).
Nfc(s) ==
  Only([i \in DOMAIN s |-> IF s[i] = "e" /\ Stands(s, i + 1, {"accent"}) THEN "composed" ELSE s[i]],
       {i \in DOMAIN s : ~ (s[i] = "accent" /\ Stands(s, i - 1, {"e"}))})

DropControls(s) == Only(s, {i \in DOMAIN s : s[i] # "control"})

\* A run of blanks and tabs becomes one blank.
SquashBlanks(s) ==
  Only([i \in DOMAIN s |-> IF s[i] = "tab" THEN "blank" ELSE s[i]],
       {i \in DOMAIN s : ~ \A j \in {i - 1, i} : Stands(s, j, {"blank", "tab"})})

\* Three newlines and more become two.
SquashLines(s) ==
  Only(s, {i \in DOMAIN s : ~ \A j \in {i - 2, i - 1, i} : Stands(s, j, {"newline"})})

Ink(s) == {i \in DOMAIN s : s[i] \notin Whitespace}

RStrip(s) == Only(s, {i \in DOMAIN s : \E j \in Ink(s) : i <= j})

Strip(s) == Only(s, {i \in DOMAIN s : (\E j \in Ink(s) : j <= i) /\ (\E j \in Ink(s) : i <= j)})

Cap(s, max) == IF Len(s) > max THEN RStrip(Only(s, 1 .. max)) ELSE s

\* Variant: controls are dropped after the runs they break were looked for.
CleanTextLate(raw) ==
  LET s == Strip(DropControls(SquashLines(SquashBlanks(Nfc(raw)))))
  IN  IF s = <<>> THEN NoText ELSE Cap(s, TextMax)

\* clean_text; NoText for a text nothing is left of.
CleanText(raw) ==
  LET s == Strip(SquashLines(SquashBlanks(DropControls(Nfc(raw)))))
  IN  IF s = <<>> THEN NoText ELSE Cap(s, TextMax)

\* The newlines of a name are blanks.
OneLine(s) == [i \in DOMAIN s |-> IF s[i] = "newline" THEN "blank" ELSE s[i]]

\* clean_name: on one line; the empty name for an absent one.
CleanName(raw) == Cap(Strip(SquashBlanks(OneLine(DropControls(Nfc(raw))))), NameMax)

CleaningInit == cleaned = [of |-> "nothing"]

CallCleanText(raw) == cleaned' = [of |-> "clean_text", in |-> raw, out |-> CleanText(raw)]
CallCleanName(raw) == cleaned' = [of |-> "clean_name", in |-> raw, out |-> CleanName(raw)]

\* Calls with any text.
CleaningSpec ==
  CleaningInit /\ [][\E raw \in Seq(CharKinds) : CallCleanText(raw) \/ CallCleanName(raw)]_cleaned

-----------------------------------------------------------------------------
LettersOf(s) == Only(s, {i \in DOMAIN s : s[i] \in Letters})

\* Fit for the board: no control, no padding, no run of blanks or of lines the
\* interface would show, within the cap.
Presentable(s, max) ==
  /\ Len(s) \in 1 .. max
  /\ s[1] \notin Whitespace /\ s[Len(s)] \notin Whitespace
  /\ \A i \in DOMAIN s : s[i] \notin {"control", "tab"}
  /\ \A i \in 1 .. Len(s) - 1 : ~ (s[i] = "blank" /\ s[i + 1] = "blank")
  /\ \A i \in 1 .. Len(s) - 2 : ~ (s[i] = "newline" /\ s[i + 1] = "newline" /\ s[i + 2] = "newline")

\* The letters of the input in their order, all of them unless the cap cut the text.
Faithful(raw, s, max) ==
  \/ LettersOf(s) = LettersOf(Nfc(raw))
  \/ Len(raw) > max /\ LettersOf(s) = Only(LettersOf(Nfc(raw)), 1 .. Len(LettersOf(s)))

TextCleaned(raw, s) ==
  IF LettersOf(raw) = <<>> THEN s = NoText ELSE Presentable(s, TextMax) /\ Faithful(raw, s, TextMax)

NameCleaned(raw, s) ==
  IF LettersOf(raw) = <<>> THEN s = <<>>
  ELSE Presentable(s, NameMax) /\ Faithful(raw, s, NameMax) /\ \A i \in DOMAIN s : s[i] # "newline"

\* clean_text and clean_name leave what the board can show and lose no letter below the cap.
NotesCleaned ==
  /\ cleaned.of = "clean_text" => TextCleaned(cleaned.in, cleaned.out)
  /\ cleaned.of = "clean_name" => NameCleaned(cleaned.in, cleaned.out)
=============================================================================
