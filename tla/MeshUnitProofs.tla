---------------------------- MODULE MeshUnitProofs --------------------------
(***************************************************************************)
(* The daemon numbers no two notes of a life alike, and a hub has one      *)
(* identity for good, for any number of request threads, lives, notes and  *)
(* key pairs.                                                              *)
(*                                                                         *)
(* NumbersUnique is not inductive: a new number is fresh because no number *)
(* in use is above the counter (Counted).  IdentityKept is not either: it  *)
(* rests on what each stop of load_or_create leaves in the two files       *)
(* (Paired), the public half being the last to appear.                     *)
(***************************************************************************)
EXTENDS MeshUnit, FiniteSetTheorems, TLAPS

\* No number of this life, on the air or in hand, is above the counter; what
\* is about to be sent has a number; no frame comes from a life to come.
Counted ==
  /\ \A i \in DOMAIN air : air[i].life <= life
  /\ \A i \in DOMAIN air : air[i].life = life => air[i].seq <= outbound_seq
  /\ \A w \in Workers : call[w] # None => call[w].seq <= outbound_seq
  /\ \A w \in Workers : At(w, "send") => call[w].seq > 0

IInv == TypeOK /\ Counted /\ NumbersUnique

-----------------------------------------------------------------------------
(* The numbers.                                                            *)

USE MeshDaemonAssumption

\* What a step of a call may do to the bridges keeps their kinds.
Attached ==
  /\ bridge \in [Radios -> Workers \cup {None}]
  /\ threads \subseteq Radios \X Workers

numbers == <<outbound_seq, air, life>>

\* Frames are records of numbers.
LEMMA FramesAreNumbers ==
  ASSUME TypeOK, NEW i \in DOMAIN air PROVE air[i].life \in Nat /\ air[i].seq \in Nat
<1>1. air \in Seq(Frames) /\ i \in 1..Len(air)
  BY DEF TypeOK
<1>2. air[i] \in Frames
  BY <1>1
<1> QED
  BY <1>2 DEF Frames

\* A thread that moves on keeps its number; the others stay as they are.
LEMMA GoToMoves ==
  ASSUME TypeOK, NEW w \in Workers, call[w] # None,
         NEW place \in {"wifi", "attach_lora", "attach_wifi", "send"}, GoTo(w, place)
  PROVE  /\ call' \in [Workers -> Calls \cup {None}]
         /\ call'[w].at = place /\ call'[w].seq = call[w].seq
         /\ \A v \in Workers : v # w => call'[v] = call[v]
<1>1. call[w] \in Calls
  BY DEF TypeOK
<1>2. call'[w] = [call[w] EXCEPT !.at = place]
  BY DEF TypeOK, GoTo
<1>3. call'[w] \in Calls /\ call'[w].at = place /\ call'[w].seq = call[w].seq
  BY <1>1, <1>2 DEF Calls
<1>4. call' = [call EXCEPT ![w] = call'[w]]
  BY <1>2 DEF TypeOK, GoTo
<1> QED
  BY <1>3, <1>4 DEF TypeOK

\* A thread that moves on, with a number if it is to send, keeps the invariant.
LEMMA MoveKeeps ==
  ASSUME IInv, NEW w \in Workers, call[w] # None, Attached', UNCHANGED numbers,
         NEW place \in {"wifi", "attach_lora", "attach_wifi", "send"}, GoTo(w, place),
         place = "send" => call[w].seq > 0
  PROVE  IInv'
<1>1. TypeOK /\ Counted /\ NumbersUnique
  BY DEF IInv
<1>2. /\ call' \in [Workers -> Calls \cup {None}]
      /\ call'[w].at = place /\ call'[w].seq = call[w].seq
      /\ \A v \in Workers : v # w => call'[v] = call[v]
  BY <1>1, GoToMoves
<1>3. TypeOK'
  BY <1>1, <1>2 DEF TypeOK, Attached, numbers
<1>4. Counted'
  BY <1>1, <1>2 DEF Counted, At, numbers
<1>5. NumbersUnique'
  BY <1>1, <1>2 DEF NumbersUnique, numbers
<1> QED
  BY <1>3, <1>4, <1>5 DEF IInv

\* So does a thread whose call is answered.
LEMMA LeaveKeeps ==
  ASSUME IInv, NEW w \in Workers, call' = [call EXCEPT ![w] = None],
         Attached', UNCHANGED numbers
  PROVE  IInv'
<1>1. TypeOK /\ Counted /\ NumbersUnique
  BY DEF IInv
<1>2. /\ call' \in [Workers -> Calls \cup {None}] /\ call'[w] = None
      /\ \A v \in Workers : v # w => call'[v] = call[v]
  BY <1>1 DEF TypeOK
<1>3. TypeOK'
  BY <1>1, <1>2 DEF TypeOK, Attached, numbers
<1>4. Counted'
  BY <1>1, <1>2 DEF Counted, At, numbers
<1>5. NumbersUnique'
  BY <1>1, <1>2 DEF NumbersUnique, numbers
<1> QED
  BY <1>3, <1>4, <1>5 DEF IInv

\* A call that publishes nothing brings no number.
LEMMA HealthKeeps ==
  ASSUME IInv, NEW w \in Workers, Health(w) PROVE IInv'
<1> DEFINE r == [at |-> "lora", seq |-> 0]
<1>1. TypeOK /\ Counted /\ NumbersUnique
  BY DEF IInv
<1>2. r \in Calls
  BY DEF Calls
<1>3. call' = [call EXCEPT ![w] = r] /\ UNCHANGED <<outbound_seq, bridge, threads, air, life>>
  BY DEF Health
<1>4. /\ call' \in [Workers -> Calls \cup {None}] /\ call'[w] = r
      /\ \A v \in Workers : v # w => call'[v] = call[v]
  BY <1>1, <1>2, <1>3 DEF TypeOK
<1>5. TypeOK'
  BY <1>1, <1>3, <1>4 DEF TypeOK
<1>6. Counted'
  BY <1>1, <1>3, <1>4 DEF Counted, At, TypeOK
<1>7. NumbersUnique'
  BY <1>1, <1>3, <1>4 DEF NumbersUnique
<1> QED
  BY <1>5, <1>6, <1>7 DEF IInv

\* The next number is above every number in use.
LEMMA PublishKeeps ==
  ASSUME IInv, NEW w \in Workers, Publish(w) PROVE IInv'
<1> DEFINE n == outbound_seq + 1
           r == [at |-> "lora", seq |-> n]
<1>1. TypeOK /\ Counted /\ NumbersUnique
  BY DEF IInv
<1>2. outbound_seq \in Nat /\ n \in 1..MaxSeq
  BY <1>1 DEF TypeOK, Publish
<1>3. r \in Calls
  BY <1>2 DEF Calls
<1>4. /\ outbound_seq' = n /\ call' = [call EXCEPT ![w] = r]
      /\ UNCHANGED <<bridge, threads, air, life>>
  BY DEF Publish
<1>5. /\ call' \in [Workers -> Calls \cup {None}] /\ call'[w] = r
      /\ \A v \in Workers : v # w => call'[v] = call[v]
  BY <1>1, <1>3, <1>4 DEF TypeOK
<1>6. TypeOK'
  BY <1>1, <1>2, <1>4, <1>5 DEF TypeOK
<1>7. /\ \A i \in DOMAIN air : air[i].seq \in Nat
      /\ \A v \in Workers : call[v] # None => call[v].seq \in Nat
  BY <1>1, FramesAreNumbers DEF TypeOK, Calls
<1>8. Counted'
  BY <1>1, <1>2, <1>4, <1>5, <1>7 DEF Counted, At
<1>9. NumbersUnique'
  BY <1>1, <1>2, <1>4, <1>5, <1>7 DEF NumbersUnique, Counted
<1> QED
  BY <1>6, <1>8, <1>9 DEF IInv

\* The bridges' part of a call touches no number.
LEMMA BridgeKeeps ==
  ASSUME IInv, NEW w \in Workers,
         TestLora(w) \/ AttachLora(w) \/ TestWifi(w) \/ AttachWifi(w)
  PROVE  IInv'
<1>1. call[w] # None /\ UNCHANGED numbers
  BY DEF TestLora, AttachLora, TestWifi, AttachWifi, Attach, At, numbers
<1>2. call[w].seq \in Nat
  BY <1>1 DEF IInv, TypeOK, Calls
<1>3. Attached'
  <2>1. Attached
    BY DEF IInv, TypeOK, Attached
  <2>2. CASE UNCHANGED <<bridge, threads>>
    BY <2>1, <2>2 DEF Attached
  <2>3. CASE \E r \in Radios : Attach(w, r)
    BY <2>1, <2>3 DEF Attached, Attach
  <2> QED
    BY <2>2, <2>3 DEF TestLora, AttachLora, TestWifi, AttachWifi, Radios
<1>4. \/ \E place \in {"wifi", "attach_lora", "attach_wifi", "send"} :
           GoTo(w, place) /\ (place = "send" => call[w].seq > 0)
      \/ call' = [call EXCEPT ![w] = None]
  BY <1>2 DEF TestLora, AttachLora, TestWifi, AttachWifi
<1> QED
  BY <1>1, <1>3, <1>4, MoveKeeps, LeaveKeeps

\* The number that goes on the air leaves the hands of the request.
LEMMA SendKeeps ==
  ASSUME IInv, NEW w \in Workers, NEW taken \in BOOLEAN, Send(w, taken) PROVE IInv'
<1> DEFINE n == call[w].seq
           f == [life |-> life, seq |-> n]
<1>1. TypeOK /\ Counted /\ NumbersUnique
  BY DEF IInv
<1>2. /\ call[w] \in Calls /\ call[w] # None
      /\ n \in 1..MaxSeq /\ n <= outbound_seq
  BY <1>1 DEF Send, At, TypeOK, Counted, Calls
<1>3. /\ call' = [call EXCEPT ![w] = None]
      /\ UNCHANGED <<outbound_seq, bridge, threads, life>>
  BY DEF Send
<1>4. CASE ~taken
  <2>1. UNCHANGED numbers
    BY <1>3, <1>4 DEF Send, numbers
  <2>2. Attached'
    BY <1>1, <1>3 DEF TypeOK, Attached
  <2> QED
    BY <1>3, <2>1, <2>2, LeaveKeeps
<1>5. CASE taken
  <2>1. f \in Frames /\ f.life = life /\ f.seq = n
    BY <1>1, <1>2 DEF Frames, TypeOK
  <2>2. air' = Append(air, f)
    BY <1>5 DEF Send
  <2> HIDE DEF f
  <2>3. air \in Seq(Frames) /\ Len(air) \in Nat /\ DOMAIN air = 1..Len(air)
    BY <1>1 DEF TypeOK
  <2>4. /\ air' \in Seq(Frames) /\ DOMAIN air' = 1..(Len(air) + 1)
        /\ air'[Len(air) + 1] = f
        /\ \A i \in DOMAIN air : air'[i] = air[i]
    BY <2>1, <2>2, <2>3
  <2>5. \A i \in DOMAIN air' : i \in DOMAIN air \/ i = Len(air) + 1
    BY <2>3, <2>4
  <2>6. /\ call' \in [Workers -> Calls \cup {None}] /\ call'[w] = None
        /\ \A v \in Workers : v # w => call'[v] = call[v]
    BY <1>1, <1>3 DEF TypeOK
  <2>7. TypeOK'
    BY <1>1, <1>3, <2>4, <2>6 DEF TypeOK
  <2>8. Counted'
    <3>1. life \in Nat
      BY <1>1 DEF TypeOK
    <3>2. \A i \in DOMAIN air' : air'[i].life <= life
      BY <1>1, <2>1, <2>4, <2>5, <3>1 DEF Counted
    <3>3. \A i \in DOMAIN air' : air'[i].life = life => air'[i].seq <= outbound_seq
      BY <1>1, <1>2, <2>1, <2>4, <2>5 DEF Counted
    <3>4. \A v \in Workers : call'[v] # None =>
             call'[v].seq <= outbound_seq /\ (call'[v].at = "send" => call'[v].seq > 0)
      BY <1>1, <2>6 DEF Counted, At
    <3> QED
      BY <1>3, <3>2, <3>3, <3>4 DEF Counted, At
  <2>9. NumbersUnique'
    <3>1. \A i \in DOMAIN air : air[i].life = life => air[i].seq # n
      BY <1>1, <1>2 DEF NumbersUnique
    <3>2. \A v \in Workers : v # w /\ call[v] # None /\ call[v].seq > 0 => call[v].seq # n
      BY <1>1, <1>2 DEF NumbersUnique
    <3>3. \A i, j \in DOMAIN air' :
             i # j /\ air'[i].life = life /\ air'[j].life = life => air'[i].seq # air'[j].seq
      <4>1. \A i, j \in DOMAIN air :
               i # j /\ air[i].life = life /\ air[j].life = life => air[i].seq # air[j].seq
        BY <1>1 DEF NumbersUnique
      <4> QED
        BY <2>1, <2>4, <2>5, <3>1, <4>1
    <3>4. \A i \in DOMAIN air', v \in Workers :
             air'[i].life = life /\ call'[v] # None /\ call'[v].seq > 0
               => air'[i].seq # call'[v].seq
      <4>1. \A i \in DOMAIN air, v \in Workers :
               air[i].life = life /\ call[v] # None /\ call[v].seq > 0
                 => air[i].seq # call[v].seq
        BY <1>1 DEF NumbersUnique
      <4> QED
        BY <2>1, <2>4, <2>5, <2>6, <3>2, <4>1
    <3>5. ASSUME NEW u \in Workers, NEW v \in Workers, u # v,
                 call'[u] # None, call'[v] # None, call'[u].seq > 0, call'[v].seq > 0
          PROVE  call'[u].seq # call'[v].seq
      <4>1. call'[u] = call[u] /\ call'[v] = call[v]
        BY <2>6, <3>5
      <4> QED
        BY <1>1, <3>5, <4>1 DEF NumbersUnique
    <3> QED
      BY <1>3, <3>3, <3>4, <3>5 DEF NumbersUnique
  <2> QED
    BY <2>7, <2>8, <2>9 DEF IInv
<1> QED
  BY <1>4, <1>5

\* A new life starts from zero, and none of its frames is on the air yet.
LEMMA RestartKeeps == ASSUME IInv, Restart PROVE IInv'
<1>1. TypeOK /\ Counted /\ life \in Nat
  BY DEF IInv, TypeOK
<1>2. /\ life' = life + 1 /\ life' \in 1..MaxLives
      /\ outbound_seq' = 0 /\ UNCHANGED air
      /\ \A w \in Workers : call'[w] = None
  BY <1>1 DEF Restart
<1>3. TypeOK'
  BY <1>1, <1>2 DEF TypeOK, Restart
<1>4. \A i \in DOMAIN air : air[i].life <= life /\ air[i].life \in Nat
  BY <1>1, FramesAreNumbers DEF Counted
<1>5. Counted' /\ NumbersUnique'
  BY <1>1, <1>2, <1>4 DEF Counted, NumbersUnique, At
<1> QED
  BY <1>3, <1>5 DEF IInv

\* Every step of the daemon keeps the invariant.
LEMMA NextKeeps == ASSUME IInv, [Next]_vars PROVE IInv'
<1>1. ASSUME NEW w \in Workers, Step(w) PROVE IInv'
  BY <1>1, BridgeKeeps, SendKeeps DEF Step
<1>2. CASE UNCHANGED vars
  BY <1>2 DEF vars, IInv, TypeOK, Counted, NumbersUnique, At
<1> QED
  BY <1>1, <1>2, HealthKeeps, PublishKeeps, RestartKeeps DEF Next

\* The first life starts with it.
LEMMA InitIInv == Init => IInv
BY DEF Init, IInv, TypeOK, Counted, NumbersUnique, At

\* The strengthened invariant holds in every reachable state.
THEOREM Invariance == Spec => []IInv
<1>1. IInv /\ [Next]_vars => IInv'
  BY NextKeeps
<1> QED
  BY InitIInv, <1>1, PTL DEF Spec

\* Every variable of the daemon keeps its kind, and no bound is overrun.
THEOREM TypeCorrect == Spec => []TypeOK
<1>1. IInv => TypeOK
  BY DEF IInv
<1> QED
  BY <1>1, Invariance, PTL

\* Within one life of the process no two notes carry one number, on the air or
\* in a request's hands (_next_seq under any overlap of requests).
THEOREM NumbersApart == Spec => []NumbersUnique
<1>1. IInv => NumbersUnique
  BY DEF IInv
<1> QED
  BY <1>1, Invariance, PTL

-----------------------------------------------------------------------------
(* The identity.                                                           *)

USE MeshUnitAssumption

Writing == {"create_priv", "write_priv", "create_pub", "write_pub"}

\* Where load_or_create is, and the pair it writes while it writes one.
KeygenKinds ==
  /\ keygen \in [at : {"off", "read", "done"}] \cup [at : Writing, key : Keys]
  /\ made \in 0..MaxKeys

\* A public file, complete or not, has its private file beside it: it is begun
\* after the private one is complete, and never begun twice.
Paired ==
  /\ pub # None => priv \in Keys /\ pub \in {priv, Empty}
  /\ keygen.at \in {"create_priv", "write_priv", "create_pub"} => pub = None
  /\ keygen.at \in {"create_pub", "write_pub"} => priv = keygen.key
  /\ keygen.at = "write_pub" => pub = Empty
  /\ keygen.at = "done" => pub # None

\* The daemon runs on what keygen left, and no pair is written once it has
\* answered anybody.
Served ==
  /\ creds # None => keygen.at = "done" /\ creds = [priv |-> priv, pub |-> pub]
  /\ served # {} => pub # None /\ keygen.at \in {"off", "read", "done"}
  /\ served \subseteq {pub}

Identity == KeygenKinds /\ Paired /\ Served

\* keygen's steps leave the pair as Identity has it, wherever it is cut.
LEMMA KeygenKeeps == ASSUME Identity, Keygen PROVE Identity'
<1> USE DEF Identity, KeygenKinds, Paired, Served, Writing, Keys
<1>1. CASE StartKeygen
  BY <1>1 DEF StartKeygen
<1>2. CASE ReadPair
  BY <1>2 DEF ReadPair
<1>3. CASE Generate
  BY <1>3 DEF Generate
<1>4. CASE CreatePriv
  BY <1>4 DEF CreatePriv
<1>5. CASE WritePriv
  BY <1>5 DEF WritePriv
<1>6. CASE CreatePub
  BY <1>6 DEF CreatePub
<1>7. CASE WritePub
  BY <1>7 DEF WritePub
<1> QED
  BY <1>1, <1>2, <1>3, <1>4, <1>5, <1>6, <1>7 DEF Keygen

\* So do the daemon's start and its answers, the kill and the restart.
LEMMA UnitKeeps == ASSUME Identity, [UnitNext]_unitVars PROVE Identity'
<1> USE DEF Identity, KeygenKinds, Paired, Served
<1>1. CASE KillKeygen
  BY <1>1 DEF KillKeygen, Writing
<1>2. CASE StartDaemon
  BY <1>2 DEF StartDaemon
<1>3. CASE UnitRestart
  BY <1>3 DEF UnitRestart
<1>4. ASSUME NEW w \in Workers, Call(w) PROVE Identity'
  BY <1>4 DEF Call
<1>5. ASSUME NEW w \in Workers, Continue(w) PROVE Identity'
  BY <1>5 DEF Continue, keyVars
<1>6. CASE UNCHANGED unitVars
  BY <1>6 DEF unitVars, keyVars
<1> QED
  BY <1>1, <1>2, <1>3, <1>4, <1>5, <1>6, KeygenKeeps DEF UnitNext

\* One identity is what the invariant leaves room for.
LEMMA OneIdentity == Identity => IdentityKept
<1> SUFFICES ASSUME Identity PROVE IdentityKept
  OBVIOUS
<1>1. served = {} \/ served = {pub}
  BY DEF Identity, Served
<1>2. Cardinality({}) = 0 /\ Cardinality({pub}) = 1
  BY FS_EmptySet, FS_Singleton
<1>3. Cardinality(served) <= 1
  BY <1>1, <1>2
<1>4. creds # None => creds.priv \in Keys /\ creds.pub \in {creds.priv, Empty}
  BY DEF Identity, Served, Paired
<1> QED
  BY <1>3, <1>4 DEF IdentityKept

\* A hub once met keeps its identity, through every crash of the daemon and
\* every cut of load_or_create, and signs with the key of its pair.
THEOREM IdentityForGood == UnitSpec => []IdentityKept
<1>1. UnitInit => Identity
  BY DEF UnitInit, Identity, KeygenKinds, Paired, Served, Writing
<1>2. Identity /\ [UnitNext]_unitVars => Identity'
  BY UnitKeeps
<1> QED
  BY <1>1, <1>2, OneIdentity, PTL DEF UnitSpec

\* Under systemd, with keygen before it, the daemon does what it does by itself.
THEOREM DaemonBesideKeygen == UnitSpec => Spec
<1>1. UnitInit => Init
  BY DEF UnitInit
<1>2. [UnitNext]_unitVars => [Next]_vars
  <2> SUFFICES ASSUME [UnitNext]_unitVars PROVE [Next]_vars
    OBVIOUS
  <2>1. Keygen \/ KillKeygen \/ StartDaemon => UNCHANGED vars
    BY DEF Keygen, StartKeygen, ReadPair, Generate, CreatePriv, WritePriv, CreatePub, WritePub,
           KillKeygen, StartDaemon
  <2>2. UnitRestart => Next
    BY DEF UnitRestart, Next
  <2>3. ASSUME NEW w \in Workers, Call(w) \/ Continue(w) PROVE Next
    BY <2>3 DEF Call, Continue, Next
  <2>4. UNCHANGED unitVars => UNCHANGED vars
    BY DEF unitVars
  <2> QED
    BY <2>1, <2>2, <2>3, <2>4 DEF UnitNext
<1> QED
  BY <1>1, <1>2, PTL DEF UnitSpec, Spec

\* The numbers stay apart in the daemon as it is deployed.
THEOREM NumbersApartInUnit == UnitSpec => []NumbersUnique
  BY DaemonBesideKeygen, NumbersApart, PTL

=============================================================================
