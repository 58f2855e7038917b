---------------------------- MODULE ListenProofs ----------------------------
(***************************************************************************)
(* The arbiter never loses a running child, for any number of request      *)
(* threads, modes and children, alone and with the SAME pipeline and the   *)
(* ADS-B decoder beside it.  OwnedChild alone is not inductive: that a new *)
(* child replaces none rests on what the lock protects (Exclusive) and on  *)
(* how the state and the handle go together (ModeNamesChild).              *)
(*                                                                         *)
(* A listing of the alerts pins what was announced, for any ring.  The     *)
(* invariant (AInv) says that the ring holds the newest bursts and that a  *)
(* walk has found, of those it has passed, the active ones in their order. *)
(***************************************************************************)
EXTENDS Listen, SameAlerts, SequenceTheorems, TLAPS

\* The places a thread reaches with the lock in hand.
Holding(w) == \E place \in {"stop", "wait", "spawned"} : At(w, place)

\* Who is between the two ends of a locked section is who the lock names.
Exclusive == \A w \in Workers : Holding(w) <=> lock = w

\* The state is idle exactly when there is no child to name, except between
\* Popen and the assignment of the new state.
ModeNamesChild ==
  /\ mode # "idle" => proc # None
  /\ mode = "idle" => proc = None \/ \E w \in Workers : At(w, "spawned")
  /\ \A w \in Workers : At(w, "spawned") => mode = "idle" /\ proc # None
  /\ \A w \in Workers : At(w, "wait") => proc # None
  /\ \A w \in Workers : At(w, "spawned") => call[w].wants \in Modes
  /\ \A w \in Workers : At(w, "start") => call[w].wants \in Modes

IInv == TypeOK /\ Exclusive /\ ModeNamesChild /\ OwnedChild

-----------------------------------------------------------------------------

USE TunerAssumption

\* A thread that moves on is where it went; the others stay where they were.
LEMMA GoToMoves ==
  \A w \in Workers, place \in Places :
     TypeOK /\ call[w] # None /\ GoTo(w, place) =>
       /\ call' \in [Workers -> Calls \cup {None}]
       /\ call'[w] # None /\ call'[w].wants = call[w].wants
       /\ call'[w].at = place
       /\ \A v \in Workers : v # w => call'[v] = call[v]
<1> SUFFICES ASSUME NEW w \in Workers, NEW place \in Places,
                    TypeOK, call[w] # None, GoTo(w, place)
             PROVE  /\ call' \in [Workers -> Calls \cup {None}]
                    /\ call'[w] # None /\ call'[w].wants = call[w].wants
                    /\ call'[w].at = place
                    /\ \A v \in Workers : v # w => call'[v] = call[v]
  OBVIOUS
<1>1. call[w] \in Calls
  BY DEF TypeOK
<1>2. call'[w] = [call[w] EXCEPT !.at = place]
  BY DEF TypeOK, GoTo
<1>3. call'[w] \in Calls /\ call'[w].wants = call[w].wants /\ call'[w].at = place
  BY <1>1, <1>2 DEF Calls
<1>4. call' = [call EXCEPT ![w] = call'[w]]
  BY <1>2 DEF TypeOK, GoTo
<1> QED
  BY <1>3, <1>4 DEF TypeOK

\* A new request is at the door; the others stay where they were.
LEMMA RequestMoves ==
  \A w \in Workers, wants \in Modes \cup {None} :
     TypeOK /\ Request(w, wants) =>
       /\ call' \in [Workers -> Calls \cup {None}]
       /\ call'[w] # None /\ call'[w].at = "enter"
       /\ \A v \in Workers : v # w => call'[v] = call[v]
<1> SUFFICES ASSUME NEW w \in Workers, NEW wants \in Modes \cup {None},
                    TypeOK, Request(w, wants)
             PROVE  /\ call' \in [Workers -> Calls \cup {None}]
                    /\ call'[w] # None /\ call'[w].at = "enter"
                    /\ \A v \in Workers : v # w => call'[v] = call[v]
  OBVIOUS
<1>1. [at |-> "enter", wants |-> wants] \in Calls
  BY DEF Calls, Places
<1> QED
  BY <1>1 DEF TypeOK, Request

\* Every step keeps the values in their kinds.
LEMMA TypeStep == TypeOK /\ ModeNamesChild /\ [Next]_vars => TypeOK'
<1> SUFFICES ASSUME TypeOK, ModeNamesChild, [Next]_vars PROVE TypeOK'
  OBVIOUS
<1> USE DEF TypeOK
<1>1. ASSUME NEW w \in Workers, NEW wants \in Modes \cup {None}, Request(w, wants)
      PROVE  TypeOK'
  BY <1>1, RequestMoves DEF Request
<1>2. ASSUME NEW w \in Workers, Inside(w)
      PROVE  TypeOK'
  <2> USE GoToMoves DEF At, Places, Idle
  <2>1. CASE NothingToKill(w)
    BY <2>1 DEF NothingToKill
  <2>2. CASE Terminate(w)
    BY <2>2 DEF Terminate, ChildStates
  <2>3. CASE ChildGone(w)
    BY <2>3 DEF ChildGone
  <2>4. CASE Kill(w)
    BY <2>4 DEF Kill, ChildStates
  <2>5. CASE SetMode(w)
    BY <2>5 DEF SetMode, ModeNamesChild
  <2> QED
    BY <1>2, <2>1, <2>2, <2>3, <2>4, <2>5 DEF Inside
<1>3. ASSUME NEW w \in Workers, Outside(w)
      PROVE  TypeOK'
  <2> USE GoToMoves DEF At, Places, Answer
  <2>1. CASE EnterStop(w)
    BY <2>1 DEF EnterStop
  <2>2. CASE AfterStop(w)
    BY <2>2 DEF AfterStop
  <2>3. CASE Busy(w) \/ SpawnFails(w)
    BY <2>3 DEF Busy, SpawnFails
  <2>4. CASE Spawn(w)
    <3>1. Newborn \in Children
      BY <2>4 DEF Spawn, Newborn, Unborn
    <3> QED
      BY <2>4, <3>1 DEF Spawn, ChildStates
  <2>5. CASE Payload(w)
    BY <2>5 DEF Payload
  <2> QED
    BY <1>3, <2>1, <2>2, <2>3, <2>4, <2>5 DEF Outside
<1>4. ASSUME NEW c \in Children, Exit(c)
      PROVE  TypeOK'
  BY <1>4 DEF Exit, ChildStates
<1>5. CASE UNCHANGED vars
  BY <1>5 DEF vars
<1> QED
  BY <1>1, <1>2, <1>3, <1>4, <1>5 DEF Next

\* The lock and the places it guards change hands together.
LEMMA ExclusiveStep == IInv /\ [Next]_vars => Exclusive'
<1> SUFFICES ASSUME IInv, [Next]_vars PROVE Exclusive'
  OBVIOUS
<1> USE DEF IInv, Exclusive, Holding
<1>1. ASSUME NEW w \in Workers, NEW wants \in Modes \cup {None}, Request(w, wants)
      PROVE  Exclusive'
  BY <1>1, RequestMoves DEF Request, At
<1>2. ASSUME NEW w \in Workers, Inside(w)
      PROVE  Exclusive'
  <2> USE GoToMoves DEF At, Places, Idle
  <2>1. CASE NothingToKill(w)
    BY <2>1 DEF NothingToKill
  <2>2. CASE Terminate(w)
    BY <2>2 DEF Terminate
  <2>3. CASE ChildGone(w)
    BY <2>3 DEF ChildGone
  <2>4. CASE Kill(w)
    BY <2>4 DEF Kill
  <2>5. CASE SetMode(w)
    BY <2>5 DEF SetMode
  <2> QED
    BY <1>2, <2>1, <2>2, <2>3, <2>4, <2>5 DEF Inside
<1>3. ASSUME NEW w \in Workers, Outside(w)
      PROVE  Exclusive'
  <2> USE GoToMoves DEF At, Places, TypeOK, Answer
  <2>1. CASE EnterStop(w)
    BY <2>1 DEF EnterStop
  <2>2. CASE AfterStop(w)
    BY <2>2 DEF AfterStop
  <2>3. CASE Busy(w) \/ SpawnFails(w)
    BY <2>3 DEF Busy, SpawnFails
  <2>4. CASE Spawn(w)
    BY <2>4 DEF Spawn
  <2>5. CASE Payload(w)
    BY <2>5 DEF Payload
  <2> QED
    BY <1>3, <2>1, <2>2, <2>3, <2>4, <2>5 DEF Outside
<1>4. ASSUME NEW c \in Children, Exit(c)
      PROVE  Exclusive'
  BY <1>4 DEF Exit, At
<1>5. CASE UNCHANGED vars
  BY <1>5 DEF vars, At
<1> QED
  BY <1>1, <1>2, <1>3, <1>4, <1>5 DEF Next

\* State and handle keep going together.
LEMMA ModeStep == IInv /\ [Next]_vars => ModeNamesChild'
<1> SUFFICES ASSUME IInv, [Next]_vars PROVE ModeNamesChild'
  OBVIOUS
<1> USE DEF IInv, ModeNamesChild
<1>1. ASSUME NEW w \in Workers, NEW wants \in Modes \cup {None}, Request(w, wants)
      PROVE  ModeNamesChild'
  BY <1>1, RequestMoves DEF Request, At
<1>2. ASSUME NEW w \in Workers, Inside(w)
      PROVE  ModeNamesChild'
  <2> USE GoToMoves DEF At, Places, TypeOK, Idle, Exclusive, Holding
  <2>1. CASE NothingToKill(w)
    BY <2>1 DEF NothingToKill
  <2>2. CASE Terminate(w)
    BY <2>2 DEF Terminate
  <2>3. CASE ChildGone(w)
    BY <2>3 DEF ChildGone
  <2>4. CASE Kill(w)
    BY <2>4 DEF Kill
  <2>5. CASE SetMode(w)
    BY <2>5 DEF SetMode
  <2> QED
    BY <1>2, <2>1, <2>2, <2>3, <2>4, <2>5 DEF Inside
<1>3. ASSUME NEW w \in Workers, Outside(w)
      PROVE  ModeNamesChild'
  <2> USE GoToMoves DEF At, Places, TypeOK, Answer
  <2>1. CASE EnterStop(w)
    BY <2>1 DEF EnterStop
  <2>2. CASE AfterStop(w)
    BY <2>2 DEF AfterStop
  <2>3. CASE Busy(w) \/ SpawnFails(w)
    BY <2>3 DEF Busy, SpawnFails
  <2>4. CASE Spawn(w)
    <3>1. Newborn \in Children
      BY <2>4 DEF Spawn, Newborn, Unborn
    <3> QED
      BY <2>4, <3>1 DEF Spawn, Children, Exclusive, Holding
  <2>5. CASE Payload(w)
    BY <2>5 DEF Payload
  <2> QED
    BY <1>3, <2>1, <2>2, <2>3, <2>4, <2>5 DEF Outside
<1>4. ASSUME NEW c \in Children, Exit(c)
      PROVE  ModeNamesChild'
  BY <1>4 DEF Exit, At
<1>5. CASE UNCHANGED vars
  BY <1>5 DEF vars, At
<1> QED
  BY <1>1, <1>2, <1>3, <1>4, <1>5 DEF Next

\* No step leaves a running child without its handle.
LEMMA OwnedStep == IInv /\ [Next]_vars => OwnedChild'
<1> SUFFICES ASSUME IInv, [Next]_vars PROVE OwnedChild'
  OBVIOUS
<1> USE DEF IInv, OwnedChild
<1>1. ASSUME NEW w \in Workers, NEW wants \in Modes \cup {None}, Request(w, wants)
      PROVE  OwnedChild'
  BY <1>1 DEF Request
<1>2. ASSUME NEW w \in Workers, Inside(w)
      PROVE  OwnedChild'
  <2> USE DEF TypeOK, Idle
  <2>1. CASE NothingToKill(w)
    BY <2>1 DEF NothingToKill, Alive
  <2>2. CASE Terminate(w)
    BY <2>2 DEF Terminate
  <2>3. CASE ChildGone(w)
    BY <2>3 DEF ChildGone, Alive
  <2>4. CASE Kill(w)
    BY <2>4 DEF Kill
  <2>5. CASE SetMode(w)
    BY <2>5 DEF SetMode
  <2> QED
    BY <1>2, <2>1, <2>2, <2>3, <2>4, <2>5 DEF Inside
<1>3. ASSUME NEW w \in Workers, Outside(w)
      PROVE  OwnedChild'
  <2>1. CASE EnterStop(w)
    BY <2>1 DEF EnterStop
  <2>2. CASE AfterStop(w)
    BY <2>2 DEF AfterStop
  <2>3. CASE Busy(w) \/ SpawnFails(w)
    BY <2>3 DEF Busy, SpawnFails
  <2>4. CASE Spawn(w)
    <3>1. \A v \in Workers : ~At(v, "spawned")
      BY <2>4 DEF Spawn, Exclusive, Holding
    <3>2. proc = None
      BY <2>4, <3>1 DEF Spawn, ModeNamesChild
    <3>3. \A c \in Children : child[c] # "running"
      BY <3>2 DEF Children
    <3> QED
      BY <2>4, <3>3 DEF Spawn, TypeOK
  <2>5. CASE Payload(w)
    BY <2>5 DEF Payload
  <2> QED
    BY <1>3, <2>1, <2>2, <2>3, <2>4, <2>5 DEF Outside
<1>4. ASSUME NEW c \in Children, Exit(c)
      PROVE  OwnedChild'
  BY <1>4 DEF Exit, TypeOK
<1>5. CASE UNCHANGED vars
  BY <1>5 DEF vars
<1> QED
  BY <1>1, <1>2, <1>3, <1>4, <1>5 DEF Next

\* The daemon starts with the invariant: no child, no lock, nobody inside.
LEMMA InitIInv == Init => IInv
<1> SUFFICES ASSUME Init PROVE IInv
  OBVIOUS
<1>1. TypeOK
  BY DEF Init, TypeOK, ChildStates
<1>2. Exclusive
  BY DEF Init, Exclusive, Holding, At
<1>3. ModeNamesChild /\ OwnedChild
  BY DEF Init, ModeNamesChild, OwnedChild, At
<1> QED
  BY <1>1, <1>2, <1>3 DEF IInv

\* The strengthened invariant holds in every reachable state.
THEOREM Invariance == Spec => []IInv
<1>1. IInv /\ [Next]_vars => IInv'
  BY TypeStep, ExclusiveStep, ModeStep, OwnedStep DEF IInv
<1> QED
  BY InitIInv, <1>1, PTL DEF Spec

\* The arbiter's state, lock and children keep their kinds.
THEOREM TypeCorrect == Spec => []TypeOK
<1>1. IInv => TypeOK
  BY DEF IInv
<1> QED
  BY <1>1, Invariance, PTL

\* A running child nobody told to go is the one the next stop() reaches.
THEOREM ChildOwned == Spec => []OwnedChild
<1>1. IInv => OwnedChild
  BY DEF IInv
<1> QED
  BY <1>1, Invariance, PTL

\* With the lock free, idle means that no child runs unasked.
THEOREM QuietWhenIdle == Spec => []IdleMeansQuiet
<1>1. IInv => IdleMeansQuiet
  <2> SUFFICES ASSUME IInv, lock = None
               PROVE  /\ mode = "idle" => \A c \in Children : child[c] # "running"
                      /\ mode # "idle" => proc # None
    BY DEF IdleMeansQuiet
  <2>1. \A w \in Workers : ~At(w, "spawned")
    BY DEF IInv, Exclusive, Holding
  <2>2. mode = "idle" => proc = None
    BY <2>1 DEF IInv, ModeNamesChild
  <2> QED
    BY <2>2 DEF IInv, ModeNamesChild, OwnedChild, Children
<1> QED
  BY <1>1, Invariance, PTL

-----------------------------------------------------------------------------
(* With the SAME pipeline and the ADS-B decoder beside it.                 *)

\* Each step of the composition is a step of the arbiter or leaves it alone
\* (the two services and the arbiter share nothing but the device).
LEMMA ListenStep == [ListenNext]_listenVars => [Next]_vars
<1> SUFFICES ASSUME [ListenNext]_listenVars PROVE [Next]_vars
  OBVIOUS
<1>1. CASE Serve
  BY <1>1 DEF Serve, Next
<1>2. ASSUME NEW c \in Children, Leave(c) PROVE Next
  BY <1>2 DEF Leave, Next
<1>3. ASSUME NEW c \in Children, Open(c) PROVE UNCHANGED vars
  BY <1>3 DEF Open
<1>4. CASE StartPipeline \/ FailPipeline
  BY <1>4 DEF StartPipeline, FailPipeline
<1>5. CASE StartDecoder \/ EndDecoder
  BY <1>5 DEF StartDecoder, EndDecoder
<1>6. CASE UNCHANGED listenVars
  BY <1>6 DEF listenVars
<1> QED
  BY <1>1, <1>2, <1>3, <1>4, <1>5, <1>6 DEF ListenNext

\* The arbiter beside the two services implements the arbiter by itself, with its
\* fairness: whatever holds of Tuner holds of Listen.
THEOREM ArbiterAmongServices == ListenSpec => Spec
<1>1. ListenInit => Init
  BY DEF ListenInit
<1> QED
  BY <1>1, ListenStep, PTL DEF ListenSpec, Spec

\* With pipeline and decoder coming and going, a child nobody told to go is
\* still the one the arbiter's handle names.
THEOREM ChildOwnedAmongServices == ListenSpec => []OwnedChild
  BY ArbiterAmongServices, ChildOwned, PTL

\* With pipeline and decoder coming and going, an idle arbiter has still left no
\* rtl_fm running unasked.
THEOREM QuietAmongServices == ListenSpec => []IdleMeansQuiet
  BY ArbiterAmongServices, QuietWhenIdle, PTL

-----------------------------------------------------------------------------
(* The alerts.                                                             *)

\* What the ring holds, and how many of a number of bursts it holds.
Stored == [alert : AlertKinds, received : Nat]
Held(n) == IF n < Capacity THEN n ELSE Capacity

\* A listing in the middle of its walk.
Walks == [at : {"walk"}, now : Nat, left : Nat, since : Nat, found : Seq(Stored), heard : Seq(Stored)]

AlertKindsOk ==
  /\ ring \in Seq(Stored) /\ bursts \in Seq(Stored)
  /\ changes \in Nat /\ reading \in 1..Len(Minutes)
  /\ posting.at = "push" => posting.stored \in Stored
  /\ listing.at = "began" => listing.now \in Nat
  /\ listing.at = "walk" => listing \in Walks

\* The ring holds the newest bursts.
NewestHeld ==
  /\ Len(ring) = Held(Len(bursts))
  /\ \A i \in 1..Len(ring) : ring[i] = bursts[Len(bursts) - Len(ring) + i]

\* Bursts are stored in the order in which they were received.
Rising(s) == \A i, j \in 1..Len(s) : i <= j => s[i].received <= s[j].received
Timely ==
  /\ Rising(bursts)
  /\ posting.at = "push" => posting.stored.received <= Now
  /\ \A i \in 1..Len(bursts) :
       /\ bursts[i].received <= Now
       /\ posting.at = "push" => bursts[i].received <= posting.stored.received

\* Of the newest bursts heard, all but the oldest left of them are walked; the
\* active ones among those are found, the newest first.
Due(heard, now, left, p) == p > Len(heard) - Held(Len(heard)) + left /\ now <= Expires(heard[p])
FindsAt(e, found, heard, now, left) ==
  /\ e \in [1..Len(found) -> 1..Len(heard)]
  /\ \A i, j \in 1..Len(found) : i < j => e[i] > e[j]
  /\ \A i \in 1..Len(found) : found[i] = heard[e[i]] /\ Due(heard, now, left, e[i])
  /\ \A p \in 1..Len(heard) : Due(heard, now, left, p) => \E i \in 1..Len(found) : e[i] = p
Finds(found, heard, now, left) ==
  \E e \in [1..Len(found) -> 1..Len(heard)] : FindsAt(e, found, heard, now, left)

\* While nothing was pushed since the walk began, it walks what it heard of.
WalkFollows ==
  listing.at = "walk" =>
    /\ Rising(listing.heard)
    /\ listing.left <= Held(Len(listing.heard))
    /\ listing.since <= changes
    /\ listing.since = changes => listing.heard = bursts
    /\ Finds(listing.found, listing.heard, listing.now, listing.left)

AInv == AlertKindsOk /\ NewestHeld /\ Timely /\ WalkFollows /\ AlertsPinned

-----------------------------------------------------------------------------

\* The bounds, the clock and the kinds of alerts.
LEMMA AlertBounds ==
  /\ Capacity \in Nat /\ Capacity > 0 /\ MaxBursts \in Nat
  /\ Len(Minutes) \in Nat /\ Len(Minutes) >= 1
  /\ \A i \in 1..Len(Minutes) : Minutes[i] \in Nat
  /\ \A i, j \in 1..Len(Minutes) : i < j => Minutes[i] <= Minutes[j]
<1>1. Capacity \in Nat \ {0} /\ MaxBursts \in Nat
  BY SameAlertsAssumption DEF SameAlertsAssumption
<1>2. Minutes \in Seq(Nat) /\ Minutes # <<>> /\ \A i, j \in DOMAIN Minutes : i < j => Minutes[i] <= Minutes[j]
  BY SameAlertsAssumption DEF SameAlertsAssumption
<1>3. Len(Minutes) \in Nat /\ Len(Minutes) >= 1 /\ DOMAIN Minutes = 1..Len(Minutes)
  BY <1>2
<1>4. \A i \in 1..Len(Minutes) : Minutes[i] \in Nat
  BY <1>2, ElementOfSeq
<1>5. \A i, j \in 1..Len(Minutes) : i < j => Minutes[i] <= Minutes[j]
  BY <1>2, <1>3
<1> QED
  BY <1>1, <1>3, <1>4, <1>5

\* An alert is over when the hours and minutes of its header have passed.
LEMMA Ends ==
  ASSUME NEW b \in Stored
  PROVE  /\ b.alert \in AlertKinds /\ b.received \in Nat
         /\ Plain[b.alert].hours \in Nat /\ Plain[b.alert].minutes \in Nat
         /\ Duration(b.alert.tttt) = 60 * Plain[b.alert].hours + Plain[b.alert].minutes
         /\ Expires(b) = b.received + 60 * Plain[b.alert].hours + Plain[b.alert].minutes
         /\ Expires(b) \in Nat /\ Duration(b.alert.tttt) \in Nat
<1> DEFINE h == Plain[b.alert].hours
           m == Plain[b.alert].minutes
           d == Duration(b.alert.tttt)
<1>1. b.alert \in AlertKinds /\ b.received \in Nat
  BY DEF Stored
<1>2. h \in 0..99 /\ m \in 0..99 /\ b.alert.tttt = 100 * h + m
  BY <1>1, HeaderAssumption DEF HeaderAssumption
<1>3. d = ((100 * h + m) \div 100) * 60 + ((100 * h + m) % 100)
  BY <1>2 DEF Duration
<1> HIDE DEF h, m, d
<1>4. h \in Nat /\ m \in Nat /\ m < 100
  BY <1>2
<1>5. (100 * h + m) \div 100 = h /\ (100 * h + m) % 100 = m
  BY <1>4
<1>6. d = 60 * h + m
  BY <1>3, <1>4, <1>5
<1>7. Expires(b) = b.received + d
  BY DEF Expires, d
<1> QED
  BY <1>1, <1>4, <1>6, <1>7 DEF h, m, d

\* A function on 1..m is a sequence of length m.
LEMMA SequenceOf ==
  ASSUME NEW S, NEW m \in Nat, NEW f \in [1..m -> S]
  PROVE  f \in Seq(S) /\ Len(f) = m
  OBVIOUS

\* What a sequence is with one more, and without its first.
LEMMA OneMore ==
  ASSUME NEW S, NEW s \in Seq(S), NEW x \in S
  PROVE  /\ Append(s, x) \in Seq(S) /\ Len(Append(s, x)) = Len(s) + 1 /\ Len(s) \in Nat
         /\ \A i \in 1..Len(s) : Append(s, x)[i] = s[i]
         /\ Append(s, x)[Len(s) + 1] = x
  OBVIOUS

LEMMA OneLess ==
  ASSUME NEW S, NEW s \in Seq(S), s # <<>>
  PROVE  /\ Tail(s) \in Seq(S) /\ Len(Tail(s)) = Len(s) - 1 /\ Len(s) \in Nat
         /\ \A i \in 1..Len(s) - 1 : Tail(s)[i] = s[i + 1]
  OBVIOUS

\* affects_fips looks at the state and the county.
LEMMA LastFiveIs ==
  ASSUME NEW code \in Codes
  PROVE  LastFive(code) = Tail(code)
<1> DEFINE Digits == 0..9
<1>0. code \in [1..6 -> Digits]
  BY DEF Codes
<1> HIDE DEF Digits
<1>1. code \in Seq(Digits) /\ Len(code) = 6
  BY <1>0, SequenceOf
<1>2. LastFive(code) = SubSeq(code, 2, 6)
  BY <1>1 DEF LastFive
<1> DEFINE s == SubSeq(code, 2, 6)
           t == Tail(code)
<1>3. t \in Seq(Digits) /\ Len(t) = 5 /\ \A i \in 1..5 : t[i] = code[i + 1]
  <2>1. code # <<>>
    BY <1>1
  <2>2. t \in Seq(Digits) /\ Len(t) = Len(code) - 1 /\ \A i \in 1..Len(code) - 1 : t[i] = code[i + 1]
    BY <1>1, <2>1, OneLess
  <2> HIDE DEF t, s
  <2>3. Len(code) - 1 = 5
    BY <1>1
  <2> QED
    BY <2>2, <2>3
<1>4. s \in Seq(Digits) /\ Len(s) = 5 /\ \A i \in 1..5 : s[i] = code[2 + i - 1]
  <2>1. \A i \in 2..6 : code[i] \in Digits
    BY <1>0
  <2>2. /\ SubSeq(code, 2, 6) \in Seq(Digits)
        /\ Len(SubSeq(code, 2, 6)) = IF 2 <= 6 THEN 6 - 2 + 1 ELSE 0
        /\ \A i \in 1..(6 - 2 + 1) : SubSeq(code, 2, 6)[i] = code[2 + i - 1]
    BY <2>1, SubSeqProperties
  <2> HIDE DEF t
  <2>3. 6 - 2 + 1 = 5 /\ 2 <= 6
    OBVIOUS
  <2> QED
    BY <2>2, <2>3
<1> HIDE DEF s, t
<1>5. \A i \in 1..5 : s[i] = t[i]
  <2> SUFFICES ASSUME NEW i \in 1..5 PROVE s[i] = t[i]
    OBVIOUS
  <2>1. 2 + i - 1 = i + 1
    OBVIOUS
  <2> QED
    BY <1>3, <1>4, <2>1
<1>6. s = t
  BY <1>3, <1>4, <1>5, SeqEqual
<1> QED
  BY <1>2, <1>6 DEF s, t

\* The banner is for alerts of the configured county.
LEMMA OursAre ==
  ASSUME NEW kind \in AlertKinds, NEW filter \in Filters
  PROVE  Affects(kind.codes, filter)
           <=> \E c \in Plain[kind].counties : filter = <<>> \/ c = Tail(filter)
<1>1. /\ kind.codes \in Seq(Codes)
      /\ Plain[kind].counties = {Tail(kind.codes[i]) : i \in DOMAIN kind.codes}
      /\ filter \in Codes \cup {<<>>}
  BY HeaderAssumption DEF HeaderAssumption
<1>2. \A i \in DOMAIN kind.codes : kind.codes[i] \in Codes
  <2>1. DOMAIN kind.codes = 1..Len(kind.codes)
    BY <1>1
  <2> QED
    BY <1>1, <2>1, ElementOfSeq
<1>3. \A i \in DOMAIN kind.codes : LastFive(kind.codes[i]) = Tail(kind.codes[i])
  BY <1>2, LastFiveIs
<1>4. CASE filter = <<>>
  <2>1. kind.codes # <<>>
    BY HeaderAssumption DEF HeaderAssumption
  <2>2. 1 \in DOMAIN kind.codes
    BY <1>1, <2>1
  <2> QED
    BY <1>1, <1>4, <2>2 DEF Affects
<1>5. CASE filter # <<>>
  <2>1. LastFive(filter) = Tail(filter)
    BY <1>1, <1>5, LastFiveIs
  <2>2. Affects(kind.codes, filter) <=> \E i \in DOMAIN kind.codes : Tail(kind.codes[i]) = Tail(filter)
    BY <1>3, <1>5, <2>1 DEF Affects
  <2>3. (\E c \in Plain[kind].counties : c = Tail(filter))
          <=> \E i \in DOMAIN kind.codes : Tail(kind.codes[i]) = Tail(filter)
    BY <1>1
  <2> QED
    BY <1>5, <2>2, <2>3
<1> QED
  BY <1>4, <1>5

\* A walk that has come to its end has found what Pinned asks for.
LEMMA FoundIsPinned ==
  ASSUME NEW heard \in Seq(Stored), NEW found \in Seq(Stored), NEW now \in Nat, NEW filter \in Filters,
         NEW alerts, Rising(heard), Finds(found, heard, now, 0),
         alerts = [i \in DOMAIN found |-> [name    |-> found[i].alert.name,
                                           until   |-> Expires(found[i]),
                                           promote |-> Affects(found[i].alert.codes, filter)]]
  PROVE  Pinned(heard, alerts, now, filter)
<1> DEFINE L == Len(heard)
           n == Len(found)
           End(b) == b.received + 60 * Plain[b.alert].hours + Plain[b.alert].minutes
           up == {i \in DOMAIN heard : now <= End(heard[i]) /\ Len(heard) - i < Capacity}
           Ours(b) == \E c \in Plain[b.alert].counties : filter = <<>> \/ c = Tail(filter)
<1>1. L \in Nat /\ n \in Nat /\ DOMAIN heard = 1..L /\ DOMAIN found = 1..n
  OBVIOUS
<1>2. PICK e \in [1..n -> 1..L] : FindsAt(e, found, heard, now, 0)
  BY DEF Finds
<1>3. \A p \in 1..L : heard[p] \in Stored /\ Expires(heard[p]) = End(heard[p]) /\ heard[p].alert \in AlertKinds
  BY <1>1, Ends, ElementOfSeq
<1>4. \A p \in 1..L : p > L - Held(L) + 0 <=> L - p < Capacity
  BY <1>1, AlertBounds DEF Held
<1>5. \A p \in 1..L : p \in up <=> Due(heard, now, 0, p)
  BY <1>1, <1>3, <1>4 DEF Due
<1>6. \A i \in 1..n : found[i] = heard[e[i]] /\ e[i] \in up /\ e[i] \in 1..L
  BY <1>2, <1>5 DEF FindsAt
<1>7. \A p \in up : \E i \in 1..n : e[i] = p
  BY <1>1, <1>2, <1>5 DEF FindsAt
<1>8. DOMAIN alerts = 1..n
      /\ \A i \in 1..n : /\ alerts[i].name = found[i].alert.name /\ alerts[i].until = Expires(found[i])
                         /\ alerts[i].promote = Affects(found[i].alert.codes, filter)
  BY <1>1
<1> HIDE DEF up
<1>9. {alerts[i].name : i \in DOMAIN alerts} = {heard[i].alert.name : i \in up}
  <2>1. ASSUME NEW i \in 1..n PROVE \E p \in up : alerts[i].name = heard[p].alert.name
    BY <1>6, <1>8
  <2>2. ASSUME NEW p \in up PROVE \E i \in 1..n : alerts[i].name = heard[p].alert.name
    <3>1. PICK i \in 1..n : e[i] = p
      BY <1>7
    <3> QED
      BY <1>6, <1>8, <3>1
  <2> DEFINE names == {alerts[i].name : i \in DOMAIN alerts}
  <2>3. \A x : x \in names <=> \E i \in 1..n : x = alerts[i].name
    BY <1>8
  <2> DEFINE upNames == {heard[i].alert.name : i \in up}
  <2>4. \A x : x \in upNames <=> \E i \in up : x = heard[i].alert.name
    OBVIOUS
  <2> HIDE DEF names, upNames
  <2>5. \A x : x \in names <=> x \in upNames
    <3> SUFFICES ASSUME NEW x PROVE x \in names <=> x \in upNames
      OBVIOUS
    <3>1. ASSUME x \in names PROVE x \in upNames
      <4>1. PICK i \in 1..n : x = alerts[i].name
        BY <2>3, <3>1
      <4>2. PICK p \in up : alerts[i].name = heard[p].alert.name
        BY <2>1
      <4> QED
        BY <2>4, <4>1, <4>2
    <3>2. ASSUME x \in upNames PROVE x \in names
      <4>1. PICK p \in up : x = heard[p].alert.name
        BY <2>4, <3>2
      <4>2. PICK i \in 1..n : alerts[i].name = heard[p].alert.name
        BY <2>2
      <4> QED
        BY <2>3, <4>1, <4>2
    <3> QED
      BY <3>1, <3>2
  <2>6. names = upNames
    BY <2>5, Zenon
  <2> QED
    BY <2>6 DEF names, upNames
<1>10. ASSUME NEW i \in 1..n, NEW j \in 1..n, i < j, alerts[i].name = alerts[j].name
       PROVE  alerts[i].until >= alerts[j].until
  <2>1. e[j] < e[i] /\ e[i] \in 1..L /\ e[j] \in 1..L
    BY <1>2, <1>6, <1>10 DEF FindsAt
  <2>2. heard[e[j]].received <= heard[e[i]].received
    BY <1>1, <2>1 DEF Rising
  <2>3. heard[e[i]].alert = heard[e[j]].alert
    BY <1>3, <1>6, <1>8, <1>10, <2>1, HeaderAssumption DEF HeaderAssumption
  <2>4. alerts[i].until = heard[e[i]].received + Duration(heard[e[i]].alert.tttt)
        /\ alerts[j].until = heard[e[j]].received + Duration(heard[e[i]].alert.tttt)
    BY <1>6, <1>8, <2>3 DEF Expires
  <2>5. /\ Duration(heard[e[i]].alert.tttt) \in Nat
        /\ heard[e[i]].received \in Nat /\ heard[e[j]].received \in Nat
    <3>1. heard[e[i]] \in Stored /\ heard[e[j]] \in Stored
      BY <1>3, <2>1
    <3>2. \A b \in Stored : Duration(b.alert.tttt) \in Nat /\ b.received \in Nat
      BY Ends
    <3> QED
      BY <3>1, <3>2
  <2> QED
    BY <2>2, <2>4, <2>5
<1>11. ASSUME NEW i \in 1..n
       PROVE  \E b \in up : alerts[i].until = End(heard[b]) /\ alerts[i].name = heard[b].alert.name
  BY <1>3, <1>6, <1>8
<1>12. ASSUME NEW i \in 1..n, NEW b \in up, heard[b].alert.name = alerts[i].name
       PROVE  alerts[i].promote = Ours(heard[b])
  <2>1. b \in 1..L
    BY <1>1 DEF up
  <2>2. heard[b].alert = found[i].alert /\ heard[b].alert \in AlertKinds
    BY <1>3, <1>6, <1>8, <1>12, <2>1, HeaderAssumption DEF HeaderAssumption
  <2> DEFINE kind == heard[b].alert
  <2>3. alerts[i].promote = Affects(kind.codes, filter)
    BY <1>8, <2>2
  <2>4. Affects(kind.codes, filter) <=> Ours(heard[b])
    BY <2>2, OursAre
  <2> QED
    BY <2>3, <2>4 DEF Affects
<1>13. \A i, j \in DOMAIN alerts :
         (i < j /\ alerts[i].name = alerts[j].name) => alerts[i].until >= alerts[j].until
  BY <1>8, <1>10
<1>14. \A i \in DOMAIN alerts :
         /\ \E b \in up : alerts[i].until = End(heard[b]) /\ alerts[i].name = heard[b].alert.name
         /\ \A b \in up : heard[b].alert.name = alerts[i].name => alerts[i].promote = Ours(heard[b])
  BY <1>8, <1>11, <1>12
<1> QED
  BY <1>9, <1>13, <1>14, Zenon DEF Pinned, up

-----------------------------------------------------------------------------

\* The deque drops its oldest when it is full.
LEMMA NewestStayHeld ==
  ASSUME AlertKindsOk, NewestHeld, NEW x \in Stored,
         ring' = Append(IF Len(ring) = Capacity THEN Tail(ring) ELSE ring, x),
         bursts' = Append(bursts, x)
  PROVE  ring' \in Seq(Stored) /\ bursts' \in Seq(Stored) /\ NewestHeld'
<1> DEFINE kept == IF Len(ring) = Capacity THEN Tail(ring) ELSE ring
           n == Len(bursts)
           m == Len(ring)
           k == Len(kept)
<1>1. ring \in Seq(Stored) /\ bursts \in Seq(Stored) /\ m = Held(n)
      /\ \A i \in 1..m : ring[i] = bursts[n - m + i]
  BY DEF AlertKindsOk, NewestHeld
<1>2. n \in Nat /\ m \in Nat
  BY <1>1
<1>3. Capacity \in Nat /\ Capacity > 0
  BY AlertBounds
<1>4. m <= n /\ m <= Capacity /\ (m < Capacity => m = n)
  BY <1>1, <1>2, <1>3 DEF Held
<1>5. kept \in Seq(Stored) /\ k + 1 = Held(n + 1) /\ k \in Nat /\ k <= n
      /\ \A i \in 1..k : kept[i] = bursts[n - k + i]
  <2>1. CASE m = Capacity
    <3>1. ring # <<>> /\ kept = Tail(ring)
      BY <1>3, <2>1
    <3>2. kept \in Seq(Stored) /\ k = m - 1 /\ \A i \in 1..m - 1 : kept[i] = ring[i + 1]
      BY <1>1, <3>1, OneLess
    <3> HIDE DEF kept, k, m, n
    <3>3. k + 1 = Held(n + 1) /\ k \in Nat /\ k <= n
      BY <1>2, <1>3, <1>4, <2>1, <3>2 DEF Held
    <3>4. ASSUME NEW i \in 1..k PROVE kept[i] = bursts[n - k + i]
      <4>1. i \in 1..m - 1 /\ i + 1 \in 1..m /\ n - m + (i + 1) = n - k + i
        BY <1>2, <3>2, <3>3
      <4> QED
        BY <1>1, <3>2, <4>1
    <3> QED
      BY <3>2, <3>3, <3>4
  <2>2. CASE m # Capacity
    <3>1. kept = ring /\ k = m
      BY <2>2
    <3> HIDE DEF kept, k, m, n
    <3>2. k + 1 = Held(n + 1) /\ k = n
      BY <1>2, <1>3, <1>4, <2>2, <3>1 DEF Held
    <3> QED
      BY <1>1, <1>2, <3>1, <3>2
  <2> QED
    BY <2>1, <2>2
<1>6. ring' = Append(kept, x)
  OBVIOUS
<1> HIDE DEF kept
<1>7. ring' \in Seq(Stored) /\ Len(ring') = k + 1 /\ ring'[k + 1] = x /\ \A i \in 1..k : ring'[i] = kept[i]
  <2>1. kept \in Seq(Stored) /\ k = Len(kept)
    BY <1>5
  <2>2. /\ Append(kept, x) \in Seq(Stored) /\ Len(Append(kept, x)) = k + 1
        /\ Append(kept, x)[k + 1] = x /\ \A i \in 1..k : Append(kept, x)[i] = kept[i]
    BY <2>1, OneMore
  <2> HIDE DEF k
  <2> QED
    BY <1>6, <2>2
<1>8. bursts' \in Seq(Stored) /\ Len(bursts') = n + 1 /\ bursts'[n + 1] = x /\ \A i \in 1..n : bursts'[i] = bursts[i]
  BY <1>1, OneMore
<1> HIDE DEF k, m, n
<1>9. ASSUME NEW i \in 1..k + 1 PROVE ring'[i] = bursts'[(n + 1) - (k + 1) + i]
  <2>1. CASE i = k + 1
    <3>1. (n + 1) - (k + 1) + i = n + 1
      BY <1>2, <1>5, <2>1
    <3> QED
      BY <1>7, <1>8, <2>1, <3>1
  <2>2. CASE i # k + 1
    <3>1. i \in 1..k /\ n - k + i \in 1..n /\ (n + 1) - (k + 1) + i = n - k + i
      BY <1>2, <1>5, <2>2
    <3> QED
      BY <1>5, <1>7, <1>8, <3>1
  <2> QED
    BY <2>1, <2>2
<1> QED
  BY <1>5, <1>7, <1>8, <1>9 DEF NewestHeld

\* The walk takes one more: it is found if it is active.
LEMMA FindsMore ==
  ASSUME NEW heard \in Seq(Stored), NEW found \in Seq(Stored), NEW now \in Nat, NEW left \in Nat,
         left > 0, left <= Held(Len(heard)), Finds(found, heard, now, left),
         NEW x \in Stored, x = heard[Len(heard) - Held(Len(heard)) + left],
         NEW more, more = IF now <= Expires(x) THEN Append(found, x) ELSE found
  PROVE  more \in Seq(Stored) /\ Finds(more, heard, now, left - 1)
<1> DEFINE L == Len(heard)
           n == Len(found)
           H == Held(L)
           at == L - H + left
<1>1. L \in Nat /\ n \in Nat
  OBVIOUS
<1>2. H \in Nat /\ H <= L /\ left \in 1..H
  <2>1. H \in Nat /\ H <= L
    BY <1>1, AlertBounds DEF Held
  <2> QED
    BY <2>1
<1>3. PICK e \in [1..n -> 1..L] : FindsAt(e, found, heard, now, left)
  BY DEF Finds
<1>4. x = heard[at]
  OBVIOUS
<1> HIDE DEF L, H
<1>5. at \in 1..L /\ L - H + (left - 1) = at - 1 /\ left - 1 \in Nat
  BY <1>1, <1>2
<1>6. \A p \in 1..L : /\ Due(heard, now, left, p) <=> p > at /\ now <= Expires(heard[p])
                      /\ Due(heard, now, left - 1, p) <=> p > at - 1 /\ now <= Expires(heard[p])
  BY <1>5 DEF Due, L, H
<1> HIDE DEF at
<1>7. \A i \in 1..n : e[i] \in 1..L /\ e[i] > at /\ found[i] = heard[e[i]] /\ now <= Expires(heard[e[i]])
  <2>1. \A i \in 1..n : e[i] \in 1..L
    OBVIOUS
  <2>2. \A i \in 1..n : found[i] = heard[e[i]] /\ Due(heard, now, left, e[i])
    BY <1>3 DEF FindsAt
  <2> QED
    BY <1>6, <2>1, <2>2
<1>8. \A i, j \in 1..n : i < j => e[i] > e[j]
  BY <1>3 DEF FindsAt
<1>9. \A p \in 1..L : p > at /\ now <= Expires(heard[p]) => \E i \in 1..n : e[i] = p
  <2>1. \A p \in 1..L : Due(heard, now, left, p) => \E i \in 1..n : e[i] = p
    BY <1>3 DEF FindsAt, L
  <2> QED
    BY <1>6, <2>1
<1>10. CASE ~(now <= Expires(x))
  <2>1. more = found
    BY <1>10
  <2>2. \A p \in 1..L : Due(heard, now, left - 1, p) <=> p > at /\ now <= Expires(heard[p])
    BY <1>1, <1>4, <1>5, <1>6, <1>10
  <2>3. \A i \in 1..n : Due(heard, now, left - 1, e[i])
    BY <1>7, <2>2
  <2>4. FindsAt(e, found, heard, now, left - 1)
    BY <1>7, <1>8, <1>9, <2>2, <2>3 DEF FindsAt, L
  <2> QED
    BY <2>1, <2>4 DEF Finds, L
<1>11. CASE now <= Expires(x)
  <2>1. more = Append(found, x)
    BY <1>11
  <2>2. more \in Seq(Stored) /\ Len(more) = n + 1 /\ more[n + 1] = x /\ \A i \in 1..n : more[i] = found[i]
    BY <2>1, OneMore
  <2> HIDE DEF n
  <2> DEFINE d == [i \in 1..n + 1 |-> IF i = n + 1 THEN at ELSE e[i]]
  <2>3. d \in [1..n + 1 -> 1..L] /\ d[n + 1] = at /\ \A i \in 1..n : d[i] = e[i]
    <3>1. \A i \in 1..n + 1 : i # n + 1 => i \in 1..n
      BY <1>1
    <3>2. \A i \in 1..n : i # n + 1 /\ i \in 1..n + 1
      BY <1>1
    <3>3. n + 1 \in 1..n + 1
      BY <1>1
    <3> QED
      BY <1>5, <3>1, <3>2, <3>3
  <2> HIDE DEF d
  <2>4. \A i, j \in 1..n + 1 : i < j => d[i] > d[j]
    <3> SUFFICES ASSUME NEW i \in 1..n + 1, NEW j \in 1..n + 1, i < j PROVE d[i] > d[j]
      OBVIOUS
    <3>1. i \in 1..n /\ (j \in 1..n \/ j = n + 1)
      BY <1>1
    <3>2. CASE j = n + 1
      BY <1>7, <2>3, <3>1, <3>2
    <3>3. CASE j \in 1..n
      BY <1>8, <2>3, <3>1, <3>3
    <3> QED
      BY <3>1, <3>2, <3>3
  <2>5. \A i \in 1..n + 1 : more[i] = heard[d[i]] /\ Due(heard, now, left - 1, d[i])
    <3> SUFFICES ASSUME NEW i \in 1..n + 1 PROVE more[i] = heard[d[i]] /\ Due(heard, now, left - 1, d[i])
      OBVIOUS
    <3>1. CASE i = n + 1
      BY <1>4, <1>5, <1>6, <1>11, <2>2, <2>3, <3>1
    <3>2. CASE i # n + 1
      <4>1. i \in 1..n
        BY <1>1, <3>2
      <4>2. e[i] > at - 1
        BY <1>5, <1>7, <4>1
      <4> QED
        BY <1>6, <1>7, <2>2, <2>3, <4>1, <4>2
    <3> QED
      BY <3>1, <3>2
  <2>6. \A p \in 1..L : Due(heard, now, left - 1, p) => \E i \in 1..n + 1 : d[i] = p
    <3> SUFFICES ASSUME NEW p \in 1..L, Due(heard, now, left - 1, p) PROVE \E i \in 1..n + 1 : d[i] = p
      OBVIOUS
    <3>1. p > at - 1 /\ now <= Expires(heard[p])
      BY <1>6
    <3>2. CASE p = at
      BY <1>1, <2>3, <3>2
    <3>3. CASE p > at
      <4>1. PICK i \in 1..n : e[i] = p
        BY <1>9, <3>1, <3>3
      <4>2. i \in 1..n + 1
        BY <1>1
      <4> QED
        BY <2>3, <4>1, <4>2
    <3> QED
      BY <1>5, <3>1, <3>2, <3>3
  <2>7. d \in [1..Len(more) -> 1..Len(heard)]
    BY <2>2, <2>3 DEF L
  <2>8. FindsAt(d, more, heard, now, left - 1)
    BY <2>2, <2>4, <2>5, <2>6, <2>7 DEF FindsAt, L
  <2> QED
    BY <2>2, <2>7, <2>8 DEF Finds
<1> QED
  BY <1>10, <1>11

\* One alert of the walk is the ring's, which is heard's.
LEMMA TakeStep ==
  ASSUME AInv, Take
  PROVE  AInv'
<1>1. /\ listing.at = "walk" /\ listing.left > 0 /\ changes = listing.since
      /\ listing' = Walked(ring[listing.left])
      /\ UNCHANGED <<ring, changes, reading, posting, bursts>>
  BY DEF Take
<1>2. listing \in Walks
  BY <1>1 DEF AInv, AlertKindsOk
<1> DEFINE H == listing.heard
           F == listing.found
           l == listing.left
           x == ring[l]
           more == IF listing.now <= Expires(x) THEN Append(F, x) ELSE F
<1>3. H \in Seq(Stored) /\ F \in Seq(Stored) /\ l \in Nat /\ listing.now \in Nat /\ listing.since \in Nat
  BY <1>2 DEF Walks
<1>4. /\ Rising(H) /\ l <= Held(Len(H)) /\ H = bursts
      /\ Finds(F, H, listing.now, l)
  BY <1>1 DEF AInv, WalkFollows
<1>5. l \in 1..Len(ring) /\ Len(ring) = Held(Len(H))
  BY <1>1, <1>3, <1>4 DEF AInv, NewestHeld
<1>6. x \in Stored /\ x = H[Len(H) - Held(Len(H)) + l]
  <2>1. ring \in Seq(Stored)
    BY DEF AInv, AlertKindsOk
  <2>2. x \in Stored
    BY <1>5, <2>1, ElementOfSeq
  <2>3. x = bursts[Len(bursts) - Len(ring) + l]
    BY <1>5 DEF AInv, NewestHeld
  <2> QED
    BY <1>4, <1>5, <2>2, <2>3
<1>7. more \in Seq(Stored) /\ Finds(more, H, listing.now, l - 1)
  <2> HIDE DEF H, F, l, x
  <2> QED
    BY <1>1, <1>3, <1>4, <1>6, FindsMore DEF l
<1>8. /\ listing' \in Walks /\ listing'.at = "walk" /\ listing'.left = l - 1 /\ listing'.found = more
      /\ listing'.now = listing.now /\ listing'.since = listing.since /\ listing'.heard = H
  <2>1. listing' = [listing EXCEPT !.left = l - 1, !.found = more]
    BY <1>1 DEF Walked
  <2>2. l - 1 \in Nat
    BY <1>1, <1>3
  <2> HIDE DEF l, more
  <2> QED
    BY <1>2, <1>7, <2>1, <2>2 DEF Walks
<1>9. AlertKindsOk'
  BY <1>1, <1>8 DEF AInv, AlertKindsOk
<1>10. NewestHeld' /\ Timely'
  BY <1>1 DEF AInv, NewestHeld, Timely, Now
<1>11. WalkFollows'
  <2>1. l - 1 <= Held(Len(H))
    <3>1. Held(Len(H)) \in Nat
      BY <1>3, AlertBounds DEF Held
    <3> QED
      BY <1>3, <1>4, <3>1
  <2>2. bursts' = bursts /\ changes' = changes
    BY <1>1
  <2>3. changes \in Nat
    BY DEF AInv, AlertKindsOk
  <2> HIDE DEF H, F, l, x, more
  <2> QED
    BY <1>1, <1>3, <1>4, <1>7, <1>8, <2>1, <2>2, <2>3 DEF WalkFollows
<1>12. AlertsPinned'
  BY <1>8 DEF AlertsPinned
<1> QED
  BY <1>9, <1>10, <1>11, <1>12 DEF AInv

\* The walk ends: what it found is pinned.
LEMMA SerialiseStep ==
  ASSUME AInv, NEW filter \in Filters, Serialise(filter)
  PROVE  AInv'
<1> DEFINE F == listing.found
           alerts == [i \in DOMAIN F |->
                        [name    |-> F[i].alert.name,
                         until   |-> Expires(F[i]),
                         promote |-> Affects(F[i].alert.codes, filter)]]
<1>1. /\ listing.at = "walk" /\ listing.left = 0
      /\ listing' = [at |-> "answered", now |-> listing.now, heard |-> listing.heard,
                     filter |-> filter, alerts |-> alerts]
      /\ UNCHANGED <<ring, changes, reading, posting, bursts>>
  BY DEF Serialise
<1>2. listing \in Walks
  BY <1>1 DEF AInv, AlertKindsOk
<1>3. listing.heard \in Seq(Stored) /\ F \in Seq(Stored) /\ listing.now \in Nat
  BY <1>2 DEF Walks
<1>4. Rising(listing.heard) /\ Finds(F, listing.heard, listing.now, 0)
  BY <1>1 DEF AInv, WalkFollows
<1>5. Pinned(listing.heard, alerts, listing.now, filter)
  BY <1>3, <1>4, FoundIsPinned
<1> HIDE DEF alerts
<1>6. listing'.at = "answered" /\ listing'.now = listing.now /\ listing'.heard = listing.heard
      /\ listing'.filter = filter /\ listing'.alerts = alerts
  BY <1>1
<1>7. AlertsPinned'
  <2> SUFFICES Pinned(listing'.heard, listing'.alerts, listing'.now, listing'.filter)
    BY DEF AlertsPinned, Pinned
  <2> QED
    BY <1>5, <1>6
<1>8. AlertKindsOk' /\ WalkFollows'
  BY <1>1, <1>6 DEF AInv, AlertKindsOk, WalkFollows
<1>9. NewestHeld' /\ Timely'
  BY <1>1 DEF AInv, NewestHeld, Timely, Now
<1> QED
  BY <1>7, <1>8, <1>9 DEF AInv

\* A walk begins with nothing found and the whole ring before it.
LEMMA StartStep ==
  ASSUME AInv, StartListing \/ StartWalk \/ WalkFails
  PROVE  AInv'
<1>1. UNCHANGED <<ring, changes, reading, posting, bursts>>
  BY DEF StartListing, StartWalk, WalkFails
<1>2. NewestHeld' /\ Timely'
  BY <1>1 DEF AInv, NewestHeld, Timely, Now
<1>3. CASE StartListing
  <2>1. listing'.at = "began" /\ listing'.now = Now
    BY <1>3 DEF StartListing
  <2>2. Now \in Nat
    BY AlertBounds DEF AInv, AlertKindsOk, Now
  <2>3. AlertKindsOk' /\ WalkFollows' /\ AlertsPinned'
    BY <1>1, <2>1, <2>2 DEF AInv, AlertKindsOk, WalkFollows, AlertsPinned
  <2> QED
    BY <1>2, <2>3 DEF AInv
<1>4. CASE StartWalk
  <2>1. /\ listing.at = "began"
        /\ listing' = [at |-> "walk", now |-> listing.now, left |-> Len(ring), since |-> changes,
                       found |-> <<>>, heard |-> bursts]
    BY <1>4 DEF StartWalk
  <2>2. listing.now \in Nat /\ changes \in Nat /\ bursts \in Seq(Stored) /\ ring \in Seq(Stored)
    BY <2>1 DEF AInv, AlertKindsOk
  <2>3. Len(ring) = Held(Len(bursts)) /\ Len(ring) \in Nat /\ Len(bursts) \in Nat /\ Rising(bursts)
    BY <2>2 DEF AInv, NewestHeld, Timely
  <2>4. listing' \in Walks /\ listing'.at = "walk" /\ listing'.now = listing.now /\ listing'.left = Len(ring)
        /\ listing'.since = changes /\ listing'.found = <<>> /\ listing'.heard = bursts
    BY <2>1, <2>2, <2>3 DEF Walks
  <2>5. Finds(<<>>, bursts, listing.now, Len(ring))
    <3> DEFINE e == [i \in {} |-> 1]
    <3>1. 1..Len(<<>>) = {}
      OBVIOUS
    <3>2. e \in [1..Len(<<>>) -> 1..Len(bursts)]
      BY <3>1
    <3>3. \A p \in 1..Len(bursts) : ~Due(bursts, listing.now, Len(ring), p)
      BY <2>3 DEF Due
    <3> HIDE DEF e
    <3>4. FindsAt(e, <<>>, bursts, listing.now, Len(ring))
      BY <3>1, <3>2, <3>3 DEF FindsAt
    <3> QED
      BY <3>2, <3>4 DEF Finds
  <2>6. WalkFollows'
    BY <1>1, <2>2, <2>3, <2>4, <2>5 DEF WalkFollows
  <2>7. AlertKindsOk' /\ AlertsPinned'
    BY <1>1, <2>4 DEF AInv, AlertKindsOk, AlertsPinned
  <2> QED
    BY <1>2, <2>6, <2>7 DEF AInv
<1>5. CASE WalkFails
  <2>1. listing'.at = "failed"
    BY <1>5 DEF WalkFails
  <2>2. AlertKindsOk' /\ WalkFollows' /\ AlertsPinned'
    BY <1>1, <2>1 DEF AInv, AlertKindsOk, WalkFollows, AlertsPinned
  <2> QED
    BY <1>2, <2>2 DEF AInv
<1> QED
  BY <1>3, <1>4, <1>5

\* A burst is parsed, then pushed: a walk under way has not heard of it.
LEMMA PostStep ==
  ASSUME AInv, Push \/ \E kind \in AlertKinds : ParseLine(kind)
  PROVE  AInv'
<1>1. listing' = listing /\ reading' = reading /\ Now' = Now
  BY DEF Push, ParseLine, Now
<1>2. AlertsPinned'
  BY <1>1 DEF AInv, AlertsPinned
<1>3. Now \in Nat
  BY AlertBounds DEF AInv, AlertKindsOk, Now
<1>4. bursts \in Seq(Stored) /\ Len(bursts) \in Nat /\ changes \in Nat
  BY DEF AInv, AlertKindsOk
<1>5. CASE Push
  <2> DEFINE x == posting.stored
             n == Len(bursts)
  <2>1. /\ posting.at = "push" /\ posting'.at = "idle" /\ changes' = changes + 1
        /\ ring' = Append(IF Len(ring) = Capacity THEN Tail(ring) ELSE ring, x)
        /\ bursts' = Append(bursts, x)
    BY <1>5 DEF Push
  <2>2. x \in Stored /\ x.received <= Now /\ \A i \in 1..n : bursts[i].received <= Now /\ bursts[i].received <= x.received
    BY <2>1 DEF AInv, AlertKindsOk, Timely
  <2> HIDE DEF x
  <2>3. ring' \in Seq(Stored) /\ bursts' \in Seq(Stored) /\ NewestHeld'
    BY <2>1, <2>2, NewestStayHeld DEF AInv
  <2>4. Len(bursts') = n + 1 /\ bursts'[n + 1] = x /\ \A i \in 1..n : bursts'[i] = bursts[i]
    BY <1>4, <2>1, <2>2, OneMore
  <2> HIDE DEF n
  <2>5. AlertKindsOk'
    BY <1>1, <1>4, <2>1, <2>3 DEF AInv, AlertKindsOk
  <2>6. \A i \in 1..n + 1 : i = n + 1 \/ i \in 1..n
    BY <1>4 DEF n
  <2>7. Rising(bursts')
    <3> SUFFICES ASSUME NEW i \in 1..n + 1, NEW j \in 1..n + 1, i <= j
                 PROVE  bursts'[i].received <= bursts'[j].received
      BY <2>4 DEF Rising
    <3>1. x.received \in Nat
      BY <2>2 DEF Stored
    <3>2. CASE j = n + 1
      BY <2>2, <2>4, <2>6, <3>1, <3>2
    <3>3. CASE j \in 1..n
      <4>1. i \in 1..n
        BY <1>4, <3>3 DEF n
      <4>2. bursts[i].received <= bursts[j].received
        BY <3>3, <4>1 DEF AInv, Timely, Rising, n
      <4> QED
        BY <2>4, <3>3, <4>1, <4>2
    <3> QED
      BY <2>6, <3>2, <3>3
  <2>8. \A i \in 1..Len(bursts') : bursts'[i].received <= Now
    BY <2>2, <2>4, <2>6
  <2>9. Timely'
    BY <1>1, <2>1, <2>7, <2>8 DEF Timely, Rising
  <2>10. WalkFollows'
    <3>1. listing.at = "walk" => listing.since <= changes /\ listing.since \in Nat
      BY DEF AInv, WalkFollows, AlertKindsOk, Walks
    <3>2. listing.at = "walk" => listing.since <= changes' /\ listing.since # changes'
      BY <1>4, <2>1, <3>1
    <3> QED
      BY <1>1, <3>2 DEF AInv, WalkFollows
  <2> QED
    BY <1>2, <2>3, <2>5, <2>9, <2>10 DEF AInv
<1>6. CASE \E kind \in AlertKinds : ParseLine(kind)
  <2>1. PICK kind \in AlertKinds : ParseLine(kind)
    BY <1>6
  <2>2. /\ posting'.at = "push" /\ posting'.stored = [alert |-> kind, received |-> Now]
        /\ UNCHANGED <<ring, changes, reading, bursts>>
    BY <2>1 DEF ParseLine
  <2>3. posting'.stored \in Stored /\ posting'.stored.received = Now
    BY <1>3, <2>2 DEF Stored
  <2>4. AlertKindsOk'
    BY <1>1, <2>2, <2>3 DEF AInv, AlertKindsOk
  <2>5. NewestHeld' /\ WalkFollows'
    BY <1>1, <2>2 DEF AInv, NewestHeld, WalkFollows
  <2>6. Timely'
    BY <1>1, <1>3, <2>2, <2>3 DEF AInv, Timely
  <2> QED
    BY <1>2, <2>4, <2>5, <2>6 DEF AInv
<1> QED
  BY <1>5, <1>6

\* The clock goes on, beside everything.
LEMMA TickStep ==
  ASSUME AInv, Tick
  PROVE  AInv'
<1>1. reading < Len(Minutes) /\ reading' = reading + 1 /\ UNCHANGED <<ring, changes, posting, listing, bursts>>
  BY DEF Tick
<1>2. reading \in 1..Len(Minutes) /\ reading' \in 1..Len(Minutes)
  BY <1>1, AlertBounds DEF AInv, AlertKindsOk
<1>3. Now \in Nat /\ Now' \in Nat /\ Now <= Now'
  BY <1>1, <1>2, AlertBounds DEF Now
<1>4. AlertKindsOk' /\ NewestHeld' /\ WalkFollows' /\ AlertsPinned'
  BY <1>1, <1>2 DEF AInv, AlertKindsOk, NewestHeld, WalkFollows, AlertsPinned
<1>5. Timely'
  <2>1. \A i \in 1..Len(bursts) : bursts[i].received \in Nat
    <3>1. \A i \in 1..Len(bursts) : bursts[i] \in Stored
      BY ElementOfSeq DEF AInv, AlertKindsOk
    <3> QED
      BY <3>1 DEF Stored
  <2>2. posting.at = "push" => posting.stored.received \in Nat
    BY DEF AInv, AlertKindsOk, Stored
  <2> QED
    BY <1>1, <1>3, <2>1, <2>2 DEF AInv, Timely
<1> QED
  BY <1>4, <1>5 DEF AInv

\* Nothing is stored, posted or listed yet.
LEMMA InitAlerts == AlertsInit => AInv
<1> SUFFICES ASSUME AlertsInit PROVE AInv
  OBVIOUS
<1>1. /\ ring = <<>> /\ bursts = <<>> /\ changes = 0 /\ reading = 1
      /\ posting.at = "idle" /\ listing.at = "idle"
  BY DEF AlertsInit
<1>2. AlertKindsOk /\ WalkFollows /\ AlertsPinned
  BY <1>1, AlertBounds DEF AlertKindsOk, WalkFollows, AlertsPinned
<1>3. Len(ring) = 0 /\ Len(bursts) = 0 /\ 1..0 = {}
  BY <1>1
<1>4. NewestHeld
  BY <1>3, AlertBounds DEF NewestHeld, Held
<1>5. Timely
  BY <1>1, <1>3 DEF Timely, Rising
<1> QED
  BY <1>2, <1>4, <1>5 DEF AInv

\* GET /alerts, when it answers, pins an alert for as long as its last burst
\* said and no longer: for any ring, any alerts and filter, however many bursts
\* are pushed and at whatever point of the walk.
THEOREM PinnedAlways == AlertsSpec => []AlertsPinned
<1>1. AInv /\ [AlertsNext]_alertVars => AInv'
  <2> SUFFICES ASSUME AInv, [AlertsNext]_alertVars PROVE AInv'
    OBVIOUS
  <2>1. CASE Tick
    BY <2>1, TickStep
  <2>2. CASE Push \/ \E kind \in AlertKinds : ParseLine(kind)
    BY <2>2, PostStep
  <2>3. CASE StartListing \/ StartWalk \/ WalkFails
    BY <2>3, StartStep
  <2>4. CASE Take
    BY <2>4, TakeStep
  <2>5. CASE \E filter \in Filters : Serialise(filter)
    BY <2>5, SerialiseStep
  <2>6. CASE UNCHANGED alertVars
    BY <2>6 DEF alertVars, AInv, AlertKindsOk, NewestHeld, Timely, WalkFollows, AlertsPinned, Now
  <2> QED
    BY <2>1, <2>2, <2>3, <2>4, <2>5, <2>6 DEF AlertsNext
<1>2. AInv => AlertsPinned
  BY DEF AInv
<1> QED
  BY InitAlerts, <1>1, <1>2, PTL DEF AlertsSpec

=============================================================================
