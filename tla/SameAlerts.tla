----------------------------- MODULE SameAlerts -----------------------------
(***************************************************************************)
(* The alerts of rpi-pod-listen (listen/rpi_pod_listen/alerts.py, same.py):*)
(* a ring of the bursts the SAME pipeline posts, each with the minutes its *)
(* header states, and GET /alerts, which walks the ring while the pipeline *)
(* may be posting: a deque has no lock, and an iterator of it gives up     *)
(* when it finds the deque changed.                                        *)
(*                                                                         *)
(* The pipeline posts one line at a time, and one listing is looked at; a  *)
(* line that does not parse changes nothing.  A county code is the         *)
(* sequence of its digits, the rest of a header a name for the alert.      *)
(***************************************************************************)
EXTENDS Integers, Sequences

CONSTANTS
  Capacity,     \* RING_CAPACITY
  AlertKinds,   \* what the station may send: name, tttt (the duration) and codes
  Filters,      \* what RPI_POD_LISTEN_FIPS may be
  Minutes,      \* bound: the readings of the clock, in increasing order
  MaxBursts,    \* bound: bursts posted
  Plain         \* reference: Plain[kind], the alert in plain words: hours, minutes, counties

ASSUME SameAlertsAssumption ==
  /\ Capacity \in Nat \ {0} /\ MaxBursts \in Nat
  /\ Minutes \in Seq(Nat) /\ Minutes # <<>>
  /\ \A i, j \in DOMAIN Minutes : i < j => Minutes[i] <= Minutes[j]

Codes == [1..6 -> 0..9]   \* a part of the county, the state, the county

\* What a header says of an alert, by the grammar of SAME: the duration is two
\* digits of hours and two of minutes.  A name stands for one alert.
ASSUME HeaderAssumption ==
  /\ \A kind \in AlertKinds :
       /\ Plain[kind].hours \in 0..99 /\ Plain[kind].minutes \in 0..99
       /\ kind.tttt = 100 * Plain[kind].hours + Plain[kind].minutes
       /\ kind.codes \in Seq(Codes) /\ kind.codes # <<>>
       /\ Plain[kind].counties = {Tail(kind.codes[i]) : i \in DOMAIN kind.codes}
  /\ \A kind, other \in AlertKinds : kind.name = other.name => kind = other
  /\ Filters \subseteq Codes \cup {<<>>}

VARIABLES
  ring,      \* _dq, the oldest first
  changes,   \* the deque's count of changes
  reading,   \* the clock shows Minutes[reading]
  posting,   \* the POST in hand: where it is and what it stores
  listing,   \* the GET in hand, or answered
  bursts     \* history: what was stored, the dropped ones included

alertVars == <<ring, changes, reading, posting, listing, bursts>>

AlertsInit ==
  /\ ring = <<>> /\ changes = 0 /\ reading = 1
  /\ posting = [at |-> "idle"] /\ listing = [at |-> "idle"] /\ bursts = <<>>

Now == Minutes[reading]

Tick ==
  /\ reading < Len(Minutes) /\ reading' = reading + 1
  /\ UNCHANGED <<ring, changes, posting, listing, bursts>>

-----------------------------------------------------------------------------
(* POST /alerts/internal.                                                  *)

\* The TTTT of a header is HHMM.
Duration(tttt) == ((tttt \div 100) * 60) + (tttt % 100)

\* A line that parses becomes a StoredAlert, which reads the clock.
ParseLine(kind) ==
  /\ posting.at = "idle" /\ Len(bursts) < MaxBursts
  /\ posting' = [at |-> "push", stored |-> [alert |-> kind, received |-> Now]]
  /\ UNCHANGED <<ring, changes, reading, listing, bursts>>

\* push: a full deque drops its oldest.
Push ==
  /\ posting.at = "push"
  /\ ring' = Append(IF Len(ring) = Capacity THEN Tail(ring) ELSE ring, posting.stored)
  /\ changes' = changes + 1
  /\ bursts' = Append(bursts, posting.stored)
  /\ posting' = [at |-> "idle"]
  /\ UNCHANGED <<reading, listing>>

-----------------------------------------------------------------------------
(* GET /alerts.                                                            *)

\* recent takes the time once ...
StartListing ==
  /\ listing.at = "idle"
  /\ listing' = [at |-> "began", now |-> Now]
  /\ UNCHANGED <<ring, changes, reading, posting, bursts>>

\* ... and then makes the iterator, the newest first.  heard is history.
StartWalk ==
  /\ listing.at = "began"
  /\ listing' = [at |-> "walk", now |-> listing.now, left |-> Len(ring), since |-> changes,
                 found |-> <<>>, heard |-> bursts]
  /\ UNCHANGED <<ring, changes, reading, posting, bursts>>

Expires(stored) == stored.received + Duration(stored.alert.tttt)

Walked(stored) ==
  [listing EXCEPT !.left = @ - 1,
                  !.found = IF listing.now <= Expires(stored) THEN Append(@, stored) ELSE @]

\* Variant: the loop runs over indices, which say nothing of a change.
TakeByIndex ==
  /\ listing.at = "walk" /\ listing.left > 0
  /\ listing' = Walked(ring[listing.left])
  /\ UNCHANGED <<ring, changes, reading, posting, bursts>>

\* The next stored alert, kept if it is active.
Take ==
  /\ listing.at = "walk" /\ listing.left > 0 /\ changes = listing.since
  /\ listing' = Walked(ring[listing.left])
  /\ UNCHANGED <<ring, changes, reading, posting, bursts>>

\* The deque changed under the iterator: RuntimeError, a 500.
WalkFails ==
  /\ listing.at = "walk" /\ listing.left > 0 /\ changes # listing.since
  /\ listing' = [at |-> "failed"]
  /\ UNCHANGED <<ring, changes, reading, posting, bursts>>

LastFive(code) == IF Len(code) >= 5 THEN SubSeq(code, Len(code) - 4, Len(code)) ELSE code

\* affects_fips; the empty filter takes every alert for its own.
Affects(codes, filter) ==
  filter = <<>> \/ \E i \in DOMAIN codes : LastFive(codes[i]) = LastFive(filter)

\* _serialise_alert for every alert found, on a hub of the county filter.
Serialise(filter) ==
  /\ listing.at = "walk" /\ listing.left = 0
  /\ listing' = [at |-> "answered", now |-> listing.now, heard |-> listing.heard, filter |-> filter,
                 alerts |-> [i \in DOMAIN listing.found |->
                               [name    |-> listing.found[i].alert.name,
                                until   |-> Expires(listing.found[i]),
                                promote |-> Affects(listing.found[i].alert.codes, filter)]]]
  /\ UNCHANGED <<ring, changes, reading, posting, bursts>>

AlertsNext ==
  \/ Tick
  \/ \E kind \in AlertKinds : ParseLine(kind)
  \/ Push
  \/ StartListing \/ StartWalk \/ Take \/ WalkFails
  \/ \E filter \in Filters : Serialise(filter)

AlertsSpec == AlertsInit /\ [][AlertsNext]_alertVars

-----------------------------------------------------------------------------
(* Properties.                                                             *)

\* A listing of these bursts: an alert stays up for the hours and minutes of its
\* last burst, however many other alerts begin and end in between, until
\* Capacity bursts came after it; nothing else is up, and the banner is for the
\* alerts of the configured county or of a part of it.
Pinned(heard, alerts, now, filter) ==
  LET End(b)  == b.received + 60 * Plain[b.alert].hours + Plain[b.alert].minutes
      up      == {i \in DOMAIN heard : now <= End(heard[i]) /\ Len(heard) - i < Capacity}
      Ours(b) == \E c \in Plain[b.alert].counties : filter = <<>> \/ c = Tail(filter)
  IN  /\ {alerts[i].name : i \in DOMAIN alerts} = {heard[i].alert.name : i \in up}
      /\ \A i, j \in DOMAIN alerts :
           (i < j /\ alerts[i].name = alerts[j].name) => alerts[i].until >= alerts[j].until
      /\ \A i \in DOMAIN alerts :
           /\ \E b \in up : /\ alerts[i].until = End(heard[b])
                            /\ alerts[i].name = heard[b].alert.name
           /\ \A b \in up : heard[b].alert.name = alerts[i].name
                              => alerts[i].promote = Ours(heard[b])

\* GET /alerts, when it answers, pins an alert for as long as its last burst said
\* and no longer, whatever the pipeline posts while the ring is walked.
AlertsPinned ==
  listing.at = "answered" => Pinned(listing.heard, listing.alerts, listing.now, listing.filter)
=============================================================================
