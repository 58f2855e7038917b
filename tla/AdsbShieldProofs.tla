--------------------------- MODULE AdsbShieldProofs -------------------------
(***************************************************************************)
(* While the owner asks for rounding and there is a rounded copy, nginx    *)
(* answers /adsb/aircraft.json with nothing else, for any precisions the   *)
(* owner may write and any number of pictures, kills and boots.  The       *)
(* invariant follows a document through the script: what is rounded, what  *)
(* lies whole under the temporary name, and that the name nginx tests,     *)
(* once there, always has a whole copy.                                    *)
(***************************************************************************)
EXTENDS AdsbShield, TLAPS

RoundedDocs == [version : Nat, places : 0..MAX_PRECISION, whole : {TRUE}]

Ticks ==
  [at : {"start"}, doc : {None}]
    \cup [at : {"round"}, doc : Docs]
    \cup [at : {"write", "flush", "replace"}, doc : RoundedDocs]

Requests == [rounded : BOOLEAN, file : {"untested", "shielded", "raw"}]

\* The part of the types the argument needs, whatever the bounds.
Kinds ==
  /\ raw \in Docs \cup {None} /\ version \in Nat
  /\ precision \in Contents \cup {None}
  /\ tick \in Ticks \cup {None}
  /\ request \in Requests \cup {None}

\* What is about to be renamed is the script's document, and so whole.
TmpReady == tick # None /\ tick.at = "replace" => tmp = tick.doc

\* The copy under nginx's name is a rounded one.
CopyRounded == shielded # None => shielded \in RoundedDocs

\* A copy a request is owed is there still, and the request goes to it.
CopyStays ==
  request # None /\ request.rounded => shielded # None /\ request.file # "raw"

IInv == Kinds /\ TmpReady /\ CopyRounded /\ CopyStays /\ RoundedOnceShielded

-----------------------------------------------------------------------------

USE AdsbShieldAssumption

\* A rounded document is a document, and there.
LEMMA RoundedIsThere ==
  /\ RoundedDocs \subseteq Docs
  /\ \A d \in RoundedDocs : d # None /\ d.whole /\ d.places \in 0..MAX_PRECISION
<1>1. RoundedDocs \subseteq Docs
  <2> SUFFICES ASSUME NEW d \in RoundedDocs PROVE d \in Docs
    OBVIOUS
  <2>1. d.version \in Nat /\ d.places \in Int \cup {Exact} /\ d.whole \in BOOLEAN
    <3>1. d.version \in Nat /\ d.places \in 0..MAX_PRECISION /\ d.whole \in {TRUE}
      BY DEF RoundedDocs
    <3>2. \A p \in 0..MAX_PRECISION : p \in Int
      OBVIOUS
    <3> QED
      BY <3>1, <3>2
  <2>2. d = [version |-> d.version, places |-> d.places, whole |-> d.whole]
    BY DEF RoundedDocs
  <2> QED
    BY <2>1, <2>2 DEF Docs
<1>2. \A d \in RoundedDocs : d.whole /\ d.places \in 0..MAX_PRECISION
  BY DEF RoundedDocs
<1> QED
  BY <1>1, <1>2

\* read_precision gives a number of places within bounds, whatever it reads.
LEMMA PlacesInRange ==
  ASSUME NEW c \in Contents \cup {None} PROVE Places(c) \in 0..MAX_PRECISION
<1>1. CASE c \in {None, Blank, Junk}
  BY <1>1 DEF Places, MAX_PRECISION, DEFAULT_PRECISION
<1>2. CASE c \notin {None, Blank, Junk}
  <2>1. c \in Int
    BY <1>2
  <2> QED
    BY <1>2, <2>1 DEF Places, MAX_PRECISION
<1> QED
  BY <1>1, <1>2

\* A running script's document, by the place the script is at.
LEMMA TickDocs ==
  ASSUME Kinds, tick # None
  PROVE  /\ tick.at \in {"start", "round", "write", "flush", "replace"}
         /\ tick.at = "round" => tick.doc \in Docs
         /\ tick.at \in {"write", "flush", "replace"} => tick.doc \in RoundedDocs
BY DEF Kinds, Ticks

\* The decoder's new picture is not the copy.
LEMMA DecodeKeeps ==
  ASSUME IInv, NEW ok \in BOOLEAN, Decode(ok) PROVE IInv'
<1>1. raw' \in Docs /\ version' \in Nat
  BY DEF Decode, IInv, Kinds, Doc, Torn, Docs
<1> QED
  BY <1>1 DEF Decode, IInv, Kinds, TmpReady, CopyRounded, CopyStays, RoundedOnceShielded

\* The owner's file is read by the script alone.
LEMMA OwnerKeeps ==
  ASSUME IInv, (\E c \in Contents : OptIn(c)) \/ OptOut \/ StartTimer PROVE IInv'
BY DEF OptIn, OptOut, StartTimer, files, IInv, Kinds, TmpReady, CopyRounded, CopyStays,
       RoundedOnceShielded

\* A boot leaves no copy, no script and no request.
LEMMA BootKeeps == ASSUME IInv, Boot PROVE IInv'
BY DEF Boot, IInv, Kinds, TmpReady, CopyRounded, CopyStays, RoundedOnceShielded

\* The script before it writes: it holds a document of its own.
LEMMA ReadKeeps ==
  ASSUME IInv, Tick \/ ReadSource \/ Round PROVE IInv'
<1>1. tick' \in Ticks \cup {None} /\ (tick' # None => tick'.at # "replace")
  <2>1. CASE Tick
    BY <2>1 DEF Tick, Ticks
  <2>2. CASE ReadSource
    BY <2>2 DEF ReadSource, Ticks, IInv, Kinds
  <2>3. CASE Round
    <3> DEFINE d == Doc(tick.doc.version, Places(precision))
    <3>1. tick.doc.version \in Nat
      BY <2>3, TickDocs DEF Round, IInv, Docs
    <3>2. Places(precision) \in 0..MAX_PRECISION
      BY PlacesInRange DEF IInv, Kinds
    <3>3. d \in RoundedDocs
      BY <3>1, <3>2 DEF Doc, RoundedDocs
    <3>4. tick' = [at |-> "write", doc |-> d]
      BY <2>3 DEF Round
    <3> QED
      BY <3>3, <3>4 DEF Ticks
  <2> QED
    BY <2>1, <2>2, <2>3
<1>2. UNCHANGED <<files, precision, request, reply, version>>
  BY DEF Tick, ReadSource, Round
<1> QED
  BY <1>1, <1>2 DEF files, IInv, Kinds, TmpReady, CopyRounded, CopyStays, RoundedOnceShielded

\* write_atomic: the temporary name takes the whole document last.
LEMMA WriteKeeps ==
  ASSUME IInv, WriteTmp \/ Flush PROVE IInv'
<1>1. tick # None /\ tick.doc \in RoundedDocs /\ tick.at \in {"write", "flush"}
  BY TickDocs DEF WriteTmp, Flush, IInv
<1>2. PICK place \in {"flush", "replace"} : tick' = [tick EXCEPT !.at = place]
  BY DEF WriteTmp, Flush
<1>3. tick \in [at : {"write", "flush", "replace"}, doc : RoundedDocs]
  BY <1>1 DEF IInv, Kinds, Ticks
<1>4. tick' \in Ticks /\ tick'.at = place /\ tick'.doc = tick.doc
  BY <1>2, <1>3 DEF Ticks
<1>5. place = "replace" => tmp' = tick.doc
  BY <1>1, <1>2, <1>3 DEF WriteTmp, Flush
<1>6. UNCHANGED <<raw, shielded, precision, request, reply, version>>
  BY DEF WriteTmp, Flush
<1> QED
  BY <1>4, <1>5, <1>6
     DEF IInv, Kinds, TmpReady, CopyRounded, CopyStays, RoundedOnceShielded

\* os.replace: one whole copy takes the other's place.
LEMMA ReplaceKeeps == ASSUME IInv, Replace PROVE IInv'
<1>1. shielded' \in RoundedDocs /\ shielded' # None
  BY TickDocs, RoundedIsThere DEF Replace, IInv, TmpReady
<1> QED
  BY <1>1 DEF Replace, IInv, Kinds, TmpReady, CopyRounded, CopyStays, RoundedOnceShielded

\* A killed script leaves its temporary file and the copy as they are.
LEMMA KillKeeps == ASSUME IInv, Kill PROVE IInv'
BY DEF Kill, files, IInv, Kinds, TmpReady, CopyRounded, CopyStays, RoundedOnceShielded

\* nginx tests for the copy twice, and what it found the first time it finds.
LEMMA ServeKeeps == ASSUME IInv, Ask \/ Choose \/ Serve PROVE IInv'
<1>1. CASE Ask
  BY <1>1 DEF Ask, files, IInv, Kinds, Requests, TmpReady, CopyRounded, CopyStays,
              RoundedOnceShielded
<1>2. CASE Choose
  <2>1. request \in Requests
    BY <1>2 DEF Choose, IInv, Kinds
  <2>2. request' = [request EXCEPT !.file = IF shielded # None THEN "shielded" ELSE "raw"]
    BY <1>2 DEF Choose
  <2>3. /\ request' \in Requests /\ request'.rounded = request.rounded
        /\ request'.file = IF shielded # None THEN "shielded" ELSE "raw"
    BY <2>1, <2>2 DEF Requests
  <2> QED
    BY <1>2, <2>3 DEF Choose, files, IInv, Kinds, TmpReady, CopyRounded, CopyStays,
                      RoundedOnceShielded
<1>3. CASE Serve
  <2>1. request # None /\ request' = None /\ reply'.rounded = request.rounded
    BY <1>3 DEF Serve
  <2>2. request.rounded => reply'.doc = shielded /\ shielded \in RoundedDocs
    BY <1>3 DEF Serve, IInv, CopyStays, CopyRounded
  <2>3. RoundedOnceShielded'
    BY <2>1, <2>2, RoundedIsThere DEF RoundedOnceShielded
  <2> QED
    BY <1>3, <2>1, <2>3 DEF Serve, files, IInv, Kinds, TmpReady, CopyRounded, CopyStays
<1> QED
  BY <1>1, <1>2, <1>3

\* Every step of decoder, owner, script and nginx keeps the invariant.
LEMMA NextKeeps == ASSUME IInv, [Next]_vars PROVE IInv'
<1>1. CASE UNCHANGED vars
  BY <1>1 DEF vars, files, IInv, Kinds, TmpReady, CopyRounded, CopyStays, RoundedOnceShielded
<1> QED
  BY <1>1, DecodeKeeps, OwnerKeeps, BootKeeps, ReadKeeps, WriteKeeps, ReplaceKeeps, KillKeeps,
     ServeKeeps DEF Next, Script

\* A hub boots with nothing in /run.
LEMMA InitIInv == Init => IInv
BY DEF Init, IInv, Kinds, TmpReady, CopyRounded, CopyStays, RoundedOnceShielded

\* A request for /adsb/aircraft.json that comes while the precision file is there
\* and a rounded copy exists is not answered with exact positions, half a
\* document or a 404 (write_atomic and nginx's rewrite), for every precision the
\* owner may write and wherever a tick is killed.
THEOREM ShieldHolds == Spec => []RoundedOnceShielded
<1>1. IInv /\ [Next]_vars => IInv'
  BY NextKeeps
<1>2. IInv => RoundedOnceShielded
  BY DEF IInv
<1> QED
  BY InitIInv, <1>1, <1>2, PTL DEF Spec

=============================================================================
