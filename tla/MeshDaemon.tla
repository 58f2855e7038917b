----------------------------- MODULE MeshDaemon -----------------------------
(***************************************************************************)
(* The request side of rpi-pod-mesh (mesh/rpi_pod_mesh/main.py): GET       *)
(* /health and POST /notes/publish run in a pool of threads, attach the    *)
(* two radio bridges on first use (_ensure_bridges), number each note      *)
(* (_next_seq) and hand it to alfred (wifi_bridge.publish).  systemd       *)
(* restarts the process when it dies (Restart=on-failure).                 *)
(*                                                                         *)
(* A step ends where a call lets another thread in: between the test of    *)
(* _LORA and the assignment of what attach() returns, and between taking a *)
(* number and handing the frame over.  _next_seq itself makes no call.     *)
(***************************************************************************)
EXTENDS Naturals, Sequences, FiniteSets

CONSTANTS
  Workers,    \* threads of the request pool
  MaxSeq,     \* bound: notes published in one life of the process
  MaxLives,   \* bound: lives of the process
  None        \* no call in hand, no bridge attached

ASSUME MeshDaemonAssumption ==
  /\ MaxSeq \in Nat /\ MaxLives \in Nat \ {0}
  /\ None \notin Workers

Radios == {"lora", "wifi"}

VARIABLES
  outbound_seq,  \* _OUTBOUND_SEQ
  bridge,        \* bridge[r]: the worker whose bridge the global of r holds
  threads,       \* <<radio, worker>>: bridge threads running in this life
  call,          \* call[w]: the request w is serving, or None
  air,           \* history: frames alfred took, in order
  life           \* lives of the process so far

vars == <<outbound_seq, bridge, threads, call, air, life>>

Frames == [life : 1..MaxLives, seq : 1..MaxSeq]
Calls  == [at : {"lora", "attach_lora", "wifi", "attach_wifi", "send"},
           seq : 0..MaxSeq]

Init ==
  /\ outbound_seq = 0
  /\ bridge = [r \in Radios |-> None]
  /\ threads = {}
  /\ call = [w \in Workers |-> None]
  /\ air = <<>>
  /\ life = 1

At(w, place) == call[w] # None /\ call[w].at = place
GoTo(w, place) == call' = [call EXCEPT ![w].at = place]

-----------------------------------------------------------------------------

\* GET /health; seq 0 marks a call that publishes nothing.
Health(w) ==
  /\ call[w] = None
  /\ call' = [call EXCEPT ![w] = [at |-> "lora", seq |-> 0]]
  /\ UNCHANGED <<outbound_seq, bridge, threads, air, life>>

\* Variant: the number is handed out and the count left as it was.
PublishUncounted(w) ==
  /\ call[w] = None
  /\ outbound_seq < MaxSeq
  /\ call' = [call EXCEPT ![w] = [at |-> "lora", seq |-> outbound_seq + 1]]
  /\ UNCHANGED <<outbound_seq, bridge, threads, air, life>>

\* POST /notes/publish: the next number, then a signed envelope around it.
Publish(w) ==
  /\ call[w] = None
  /\ outbound_seq < MaxSeq
  /\ outbound_seq' = outbound_seq + 1
  /\ call' = [call EXCEPT ![w] = [at |-> "lora", seq |-> outbound_seq']]
  /\ UNCHANGED <<bridge, threads, air, life>>

\* _ensure_bridges tests a global ...
TestLora(w) ==
  /\ At(w, "lora")
  /\ GoTo(w, IF bridge["lora"] = None THEN "attach_lora" ELSE "wifi")
  /\ UNCHANGED <<outbound_seq, bridge, threads, air, life>>

TestWifi(w) ==
  /\ At(w, "wifi")
  /\ IF bridge["wifi"] = None
       THEN GoTo(w, "attach_wifi")
       ELSE IF call[w].seq = 0
              THEN call' = [call EXCEPT ![w] = None]
              ELSE GoTo(w, "send")
  /\ UNCHANGED <<outbound_seq, bridge, threads, air, life>>

\* Variant: the bridge lands in a local, as without the `global` statement.
AttachLocal(w, r) ==
  /\ threads' = threads \cup {<<r, w>>}
  /\ UNCHANGED <<outbound_seq, bridge, air, life>>

\* Variant: the global is given the radio's name instead of its bridge.
AttachUnnamed(w, r) ==
  /\ threads' = threads \cup {<<r, w>>}
  /\ bridge' = [bridge EXCEPT ![r] = r]
  /\ UNCHANGED <<outbound_seq, air, life>>

\* ... and attach() starts a thread before the global is assigned.
Attach(w, r) ==
  /\ threads' = threads \cup {<<r, w>>}
  /\ bridge' = [bridge EXCEPT ![r] = w]
  /\ UNCHANGED <<outbound_seq, air, life>>

AttachLora(w) ==
  /\ At(w, "attach_lora")
  /\ Attach(w, "lora")
  /\ GoTo(w, "wifi")

AttachWifi(w) ==
  /\ At(w, "attach_wifi")
  /\ Attach(w, "wifi")
  /\ IF call[w].seq = 0
       THEN call' = [call EXCEPT ![w] = None]
       ELSE GoTo(w, "send")

\* wifi_bridge.publish, and the answer.  alfred takes the frame, in time or
\* after the call's timeout, or does not: no binary, a refusal, a timeout.
Send(w, taken) ==
  /\ At(w, "send")
  /\ air' = IF taken
              THEN Append(air, [life |-> life, seq |-> call[w].seq])
              ELSE air
  /\ call' = [call EXCEPT ![w] = None]
  /\ UNCHANGED <<outbound_seq, bridge, threads, life>>

\* The process dies and systemd starts it again: every global is fresh.
Restart ==
  /\ life < MaxLives
  /\ life' = life + 1
  /\ outbound_seq' = 0
  /\ bridge' = [r \in Radios |-> None]
  /\ threads' = {}
  /\ call' = [w \in Workers |-> None]
  /\ UNCHANGED air

Step(w) ==
  \/ TestLora(w) \/ AttachLora(w)
  \/ TestWifi(w) \/ AttachWifi(w)
  \/ \E taken \in BOOLEAN : Send(w, taken)

Next ==
  \/ \E w \in Workers : Health(w) \/ Publish(w) \/ Step(w)
  \/ Restart

\* Threads that are inside a call are scheduled; nobody has to call or crash.
Fairness == \A w \in Workers : WF_vars(Step(w))

Spec == Init /\ [][Next]_vars /\ Fairness

-----------------------------------------------------------------------------
(* Properties.                                                             *)

\* Every variable holds values of its kind.
TypeOK ==
  /\ outbound_seq \in 0..MaxSeq
  /\ bridge \in [Radios -> Workers \cup {None}]
  /\ threads \subseteq Radios \X Workers
  /\ call \in [Workers -> Calls \cup {None}]
  /\ air \in Seq(Frames)
  /\ life \in 1..MaxLives

\* In one life of the process no two notes carry the same number, on the air
\* or still in a request's hands, however the requests overlap (_next_seq).
NumbersUnique ==
  LET sent    == {i \in DOMAIN air : air[i].life = life}
      sending == {w \in Workers : call[w] # None /\ call[w].seq > 0}
  IN /\ \A i, j \in sent : i # j => air[i].seq # air[j].seq
     /\ \A i \in sent, w \in sending : air[i].seq # call[w].seq
     /\ \A v, w \in sending : v # w => call[v].seq # call[w].seq

\* Once a process has been called it comes to hold both of its bridges, unless
\* it dies first (main.py: "started on the first /health call ... and reused").
CallAttaches ==
  \A l \in 1..MaxLives :
     (life = l /\ \E w \in Workers : call[w] # None)
       ~> ((\A r \in Radios : bridge[r] # None) \/ life # l)

=============================================================================
