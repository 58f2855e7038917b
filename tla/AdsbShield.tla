----------------------------- MODULE AdsbShield -----------------------------
(***************************************************************************)
(* The opt-in rounding of aircraft positions: scripts/adsb_shield.py,      *)
(* which a systemd timer runs once a second while the owner's precision    *)
(* file is there, against the decoder that rewrites aircraft.json and      *)
(* nginx, which serves the rounded copy when there is one.  Of nginx only  *)
(* location = /adsb/aircraft.json is modelled; location /adsb/ serves the  *)
(* rest of the decoder's directory as it is, and nothing is claimed of it. *)
(*                                                                         *)
(* A document is the version of the decoder's picture and the decimal      *)
(* places of its positions.  /run is empty after a boot; the precision     *)
(* file, under /etc, stays.  systemd tests the timer's condition when the  *)
(* timer is started, the service's at every tick, and never runs two       *)
(* instances of the service at once.                                       *)
(***************************************************************************)
EXTENDS Integers

CONSTANTS
  Contents,      \* what the owner may write into the precision file: integers, Blank, Junk
  Blank, Junk,   \* nothing but white space; not an integer
  Exact,         \* places of a document nobody rounded
  None,          \* no file, no script running, no request
  MaxVersion,    \* bound: pictures the decoder writes in one boot
  MaxKills,      \* bound: ticks killed in one boot
  MaxBoots       \* bound: boots

DEFAULT_PRECISION == 1
MAX_PRECISION == 4

Docs == [version : Nat, places : Int \cup {Exact}, whole : BOOLEAN]

ASSUME AdsbShieldAssumption ==
  /\ Contents \subseteq Int \cup {Blank, Junk}
  /\ {Blank, Junk, Exact, None} \cap Int = {} /\ Exact # None /\ Blank # Junk
  /\ None \notin Contents \cup Docs
  /\ MaxVersion \in Nat /\ MaxKills \in Nat /\ MaxBoots \in Nat \ {0}

VARIABLES
  raw,        \* aircraft.json
  shielded,   \* aircraft.shielded.json
  tmp,        \* aircraft.shielded.json.tmp
  precision,  \* what /etc/rpi-pod/adsb-precision says
  timer,      \* rpi-pod-adsb-shield.timer is active
  tick,       \* the running script: where it is and what it has read
  request,    \* nginx's request in hand: did it come to an owner who asks for rounding and
              \* to a rounded copy, and what file is chosen
  reply,      \* the last request answered, with its document
  version, kills, boots   \* the bounds' counters

files == <<raw, shielded, tmp>>
vars == <<files, precision, timer, tick, request, reply, version, kills, boots>>

Doc(v, p) == [version |-> v, places |-> p, whole |-> TRUE]
Torn(v)   == [version |-> v, places |-> Exact, whole |-> FALSE]

Init ==
  /\ raw = None /\ shielded = None /\ tmp = None
  /\ precision \in Contents \cup {None} /\ timer = (precision # None)
  /\ tick = None /\ request = None /\ reply = None
  /\ version = 0 /\ kills = 0 /\ boots = 1

-----------------------------------------------------------------------------
(* The decoder, the owner and the machine.                                 *)

\* The decoder replaces its file; what it writes may not be a JSON object.
Decode(ok) ==
  /\ version < MaxVersion
  /\ version' = version + 1
  /\ raw' = IF ok THEN Doc(version', Exact) ELSE Torn(version')
  /\ UNCHANGED <<shielded, tmp, precision, timer, tick, request, reply, kills, boots>>

OptIn(c) ==
  /\ precision' = c
  /\ UNCHANGED <<files, timer, tick, request, reply, version, kills, boots>>

OptOut ==
  /\ precision # None /\ precision' = None
  /\ UNCHANGED <<files, timer, tick, request, reply, version, kills, boots>>

\* install.sh again: enable --now starts the timer if its condition holds.
StartTimer ==
  /\ precision # None /\ timer' = TRUE
  /\ UNCHANGED <<files, precision, tick, request, reply, version, kills, boots>>

Boot ==
  /\ boots < MaxBoots
  /\ boots' = boots + 1
  /\ raw' = None /\ shielded' = None /\ tmp' = None
  /\ timer' = (precision # None)
  /\ tick' = None /\ request' = None /\ reply' = None
  /\ version' = 0 /\ kills' = 0
  /\ UNCHANGED precision

-----------------------------------------------------------------------------
(* The script.                                                             *)

\* The timer elapses; a service whose condition fails is skipped.
Tick ==
  /\ timer /\ tick = None /\ precision # None
  /\ tick' = [at |-> "start", doc |-> None]
  /\ UNCHANGED <<files, precision, timer, request, reply, version, kills, boots>>

\* main reads the source; nothing there or nothing to shield ends it.
ReadSource ==
  /\ tick # None /\ tick.at = "start"
  /\ tick' = IF raw # None /\ raw.whole THEN [at |-> "round", doc |-> raw] ELSE None
  /\ UNCHANGED <<files, precision, timer, request, reply, version, kills, boots>>

\* read_precision.
Places(c) ==
  IF c \in {None, Blank, Junk} THEN DEFAULT_PRECISION
  ELSE IF c < 0 THEN 0
  ELSE IF c > MAX_PRECISION THEN MAX_PRECISION ELSE c

\* The precision file may be gone by now: the default.
Round ==
  /\ tick # None /\ tick.at = "round"
  /\ tick' = [at |-> "write", doc |-> Doc(tick.doc.version, Places(precision))]
  /\ UNCHANGED <<files, precision, timer, request, reply, version, kills, boots>>

\* Variant: the temporary file must not exist yet.
WriteTmpNew ==
  /\ tick # None /\ tick.at = "write" /\ tmp = None
  /\ tmp' = Torn(tick.doc.version)
  /\ tick' = [tick EXCEPT !.at = "flush"]
  /\ UNCHANGED <<raw, shielded, precision, timer, request, reply, version, kills, boots>>

\* write_atomic: write_bytes truncates, then writes ...
WriteTmp ==
  /\ tick # None /\ tick.at = "write"
  /\ tmp' = Torn(tick.doc.version)
  /\ tick' = [tick EXCEPT !.at = "flush"]
  /\ UNCHANGED <<raw, shielded, precision, timer, request, reply, version, kills, boots>>

Flush ==
  /\ tick # None /\ tick.at = "flush"
  /\ tmp' = tick.doc
  /\ tick' = [tick EXCEPT !.at = "replace"]
  /\ UNCHANGED <<raw, shielded, precision, timer, request, reply, version, kills, boots>>

\* Variant: the old copy is removed for the new one to be renamed to its name.
Remove ==
  /\ tick # None /\ tick.at = "replace"
  /\ IF shielded = None THEN shielded' = tmp /\ tmp' = None /\ tick' = None
                        ELSE shielded' = None /\ UNCHANGED <<tmp, tick>>
  /\ UNCHANGED <<raw, precision, timer, request, reply, version, kills, boots>>

\* ... and os.replace puts the whole copy in the old one's place.
Replace ==
  /\ tick # None /\ tick.at = "replace"
  /\ shielded' = tmp /\ tmp' = None /\ tick' = None
  /\ UNCHANGED <<raw, precision, timer, request, reply, version, kills, boots>>

\* The script is killed (MemoryMax=, a stop of the service) wherever it is.
Kill ==
  /\ tick # None /\ kills < MaxKills
  /\ tick' = None /\ kills' = kills + 1
  /\ UNCHANGED <<files, precision, timer, request, reply, version, boots>>

Script == Tick \/ ReadSource \/ Round \/ WriteTmp \/ Flush \/ Replace

-----------------------------------------------------------------------------
(* nginx, location = /adsb/aircraft.json.                                  *)

Ask ==
  /\ request = None
  /\ request' = [rounded |-> precision # None /\ shielded # None, file |-> "untested"]
  /\ UNCHANGED <<files, precision, timer, tick, reply, version, kills, boots>>

\* if (-f ...shielded.json) rewrite.
Choose ==
  /\ request # None /\ request.file = "untested"
  /\ request' = [request EXCEPT !.file = IF shielded # None THEN "shielded" ELSE "raw"]
  /\ UNCHANGED <<files, precision, timer, tick, reply, version, kills, boots>>

\* The file is opened after it was chosen; one that is not there is a 404.
Serve ==
  /\ request # None /\ request.file # "untested"
  /\ reply' = [rounded |-> request.rounded,
               doc     |-> IF request.file = "raw" THEN raw ELSE shielded]
  /\ request' = None
  /\ UNCHANGED <<files, precision, timer, tick, version, kills, boots>>

Next ==
  \/ \E ok \in BOOLEAN : Decode(ok)
  \/ \E c \in Contents : OptIn(c)
  \/ OptOut \/ StartTimer \/ Boot
  \/ Script \/ Kill
  \/ Ask \/ Choose \/ Serve

\* The timer elapses, and a script that is not killed runs to its end.
Spec == Init /\ [][Next]_vars /\ WF_vars(Script)

-----------------------------------------------------------------------------
(* Properties.                                                             *)

\* A request for /adsb/aircraft.json that comes while the owner's precision file
\* is there and a rounded copy exists is never answered with exact positions,
\* half a document or a 404, whatever the owner writes or removes meanwhile and
\* wherever a tick is killed (write_atomic, and nginx's choice).  Of a request
\* that comes after an opt-out nothing is said: OVERVIEW.md promises it the raw
\* file, and the code goes on serving it the last rounded copy until a boot.
RoundedOnceShielded ==
  (reply # None /\ reply.rounded) =>
    /\ reply.doc # None
    /\ reply.doc.whole /\ reply.doc.places \in 0 .. MAX_PRECISION

\* While the timer runs and the owner stays with one precision, the rounded copy
\* catches up with that precision and with a decoder that goes on writing whole
\* pictures, whatever killed ticks left behind ("stays within ~1s of the raw").
ShieldKeepsUp ==
  \A c \in Contents :
    <>[](timer /\ precision = c /\ raw # None /\ raw.whole)
      => <>[](shielded # None /\ shielded = Doc(raw.version, Places(c)))
=============================================================================
