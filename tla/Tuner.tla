-------------------------------- MODULE Tuner -------------------------------
(***************************************************************************)
(* The RTL-SDR arbiter (listen/rpi_pod_listen/dongle.py) under the request *)
(* threads of POST /tune and POST /stop (main.py), against rtl_fm children *)
(* that die when they like and may be slow or deaf to SIGTERM.             *)
(*                                                                         *)
(* /tune takes the lock twice: once in stop() and once in _start().  The   *)
(* reply is built from the state without the lock.  Left out: the tuned    *)
(* frequency and label, which travel with the mode, and dongle_present(),  *)
(* which only looks.                                                       *)
(***************************************************************************)
EXTENDS Naturals, FiniteSets

CONSTANTS
  Workers,      \* request threads
  Modes,        \* "weather", "broadcast", "bands"
  MaxChildren,  \* bound: rtl_fm processes spawned
  None          \* lock free, no child, no call in hand, nothing to start

Children == 1..MaxChildren
Places == {"enter", "stop", "wait", "stopped", "start", "spawned", "payload"}
Calls  == [at : Places, wants : Modes \cup {None}]

ASSUME TunerAssumption ==
  /\ MaxChildren \in Nat
  /\ "idle" \notin Modes
  /\ None \notin Workers \cup Modes \cup Nat \cup Calls

ChildStates == {"unborn", "running", "signalled", "killed", "dead"}

VARIABLES
  lock,     \* the thread inside the arbiter, or None
  proc,     \* _proc: the child the handle names, or None
  mode,     \* _state.mode
  child,    \* child[c]: what the kernel and rtl_fm make of it
  call      \* call[w]: where w is in its request, or None

vars == <<lock, proc, mode, child, call>>

Init ==
  /\ lock = None /\ proc = None /\ mode = "idle"
  /\ child = [c \in Children |-> "unborn"]
  /\ call = [w \in Workers |-> None]

At(w, place) == call[w] # None /\ call[w].at = place
GoTo(w, place) == call' = [call EXCEPT ![w].at = place]
Answer(w) == call' = [call EXCEPT ![w] = None]

Alive(c)  == child[c] \in {"running", "signalled", "killed"}
Unborn    == {c \in Children : child[c] = "unborn"}
Newborn   == CHOOSE c \in Unborn : TRUE

-----------------------------------------------------------------------------

\* POST /tune for a mode, and POST /stop, which wants none.  The request model
\* turns away a tune for any other mode (422) before it reaches the arbiter.
Request(w, wants) ==
  /\ call[w] = None
  /\ call' = [call EXCEPT ![w] = [at |-> "enter", wants |-> wants]]
  /\ UNCHANGED <<lock, proc, mode, child>>

\* stop() takes the lock.
EnterStop(w) ==
  /\ At(w, "enter") /\ lock = None
  /\ lock' = w
  /\ GoTo(w, "stop")
  /\ UNCHANGED <<proc, mode, child>>

\* The handle is dropped, the arbiter idle, the lock free.
Idle(w) ==
  /\ proc' = None /\ mode' = "idle" /\ lock' = None
  /\ GoTo(w, "stopped")

\* _kill_locked.  No child, or one that poll() finds dead.
NothingToKill(w) ==
  /\ At(w, "stop")
  /\ proc # None => ~Alive(proc)
  /\ Idle(w)
  /\ UNCHANGED child

Terminate(w) ==
  /\ At(w, "stop")
  /\ proc # None /\ Alive(proc)
  /\ child' = [child EXCEPT ![proc] = "signalled"]
  /\ GoTo(w, "wait")
  /\ UNCHANGED <<lock, proc, mode>>

\* wait(timeout=2.0) sees it die ...
ChildGone(w) ==
  /\ At(w, "wait") /\ ~Alive(proc)
  /\ Idle(w)
  /\ UNCHANGED child

\* Variant: the wait has no timeout.
WaitForever(w) == At(w, "wait") /\ Alive(proc) /\ UNCHANGED vars

\* ... or times out: SIGKILL, and nobody waits for that.
Kill(w) ==
  /\ At(w, "wait") /\ Alive(proc)
  /\ child' = [child EXCEPT ![proc] = "killed"]
  /\ Idle(w)

\* tune() goes on with its mode; stop() has the state left to report.
AfterStop(w) ==
  /\ At(w, "stopped")
  /\ \/ call[w].wants = None /\ GoTo(w, "payload")
     \/ call[w].wants \in Modes /\ GoTo(w, "start")
     \/ call[w].wants \in Modes /\ Answer(w)   \* 503: no rtl_fm binary
  /\ UNCHANGED <<lock, proc, mode, child>>

\* _start finds another mode active: TunerBusy, which tune() does not catch (500).
Busy(w) ==
  /\ At(w, "start") /\ lock = None
  /\ mode # "idle"
  /\ Answer(w)
  /\ UNCHANGED <<lock, proc, mode, child>>

\* Popen fails: TunerUnavailable (503).
SpawnFails(w) ==
  /\ At(w, "start") /\ lock = None
  /\ mode = "idle"
  /\ Answer(w)
  /\ UNCHANGED <<lock, proc, mode, child>>

\* Variant: _start without its busy check.
SpawnOver(w) ==
  /\ At(w, "start") /\ lock = None
  /\ Unborn # {}
  /\ lock' = w
  /\ proc' = Newborn
  /\ child' = [child EXCEPT ![Newborn] = "running"]
  /\ GoTo(w, "spawned")
  /\ UNCHANGED <<mode>>

Spawn(w) ==
  /\ At(w, "start") /\ lock = None
  /\ mode = "idle"
  /\ Unborn # {}
  /\ lock' = w
  /\ proc' = Newborn
  /\ child' = [child EXCEPT ![Newborn] = "running"]
  /\ GoTo(w, "spawned")
  /\ UNCHANGED <<mode>>

\* Variants: no mode at all is set; the state stays idle.
SetNoMode(w) ==
  /\ At(w, "spawned")
  /\ mode' = None
  /\ lock' = None
  /\ GoTo(w, "payload")
  /\ UNCHANGED <<proc, child>>

ForgetMode(w) ==
  /\ At(w, "spawned")
  /\ lock' = None
  /\ GoTo(w, "payload")
  /\ UNCHANGED <<proc, mode, child>>

SetMode(w) ==
  /\ At(w, "spawned")
  /\ mode' = call[w].wants
  /\ lock' = None
  /\ GoTo(w, "payload")
  /\ UNCHANGED <<proc, child>>

Payload(w) ==
  /\ At(w, "payload")
  /\ Answer(w)
  /\ UNCHANGED <<lock, proc, mode, child>>

\* A child ends: told to, or because the dongle or rtl_fm gave out.
Exit(c) ==
  /\ Alive(c)
  /\ child' = [child EXCEPT ![c] = "dead"]
  /\ UNCHANGED <<lock, proc, mode, call>>

-----------------------------------------------------------------------------

\* What the thread inside the lock does next, and what one outside does.
Inside(w) ==
  \/ NothingToKill(w) \/ Terminate(w) \/ ChildGone(w) \/ Kill(w) \/ SetMode(w)

Outside(w) ==
  \/ EnterStop(w) \/ AfterStop(w)
  \/ Busy(w) \/ SpawnFails(w) \/ Spawn(w)
  \/ Payload(w)

Next ==
  \/ \E w \in Workers :
       \/ \E wants \in Modes \cup {None} : Request(w, wants)
       \/ Inside(w) \/ Outside(w)
  \/ \E c \in Children : Exit(c)

\* The thread that holds the lock is scheduled and its wait runs out.
Spec == Init /\ [][Next]_vars /\ \A w \in Workers : WF_vars(Inside(w))

-----------------------------------------------------------------------------
(* Properties.                                                             *)

\* Every variable holds values of its kind.
TypeOK ==
  /\ lock \in Workers \cup {None}
  /\ proc \in Children \cup {None}
  /\ mode \in Modes \cup {"idle"}
  /\ child \in [Children -> ChildStates]
  /\ call \in [Workers -> Calls \cup {None}]

\* The arbiter never loses a child: one that nobody told to go is the one its
\* handle names, however tunes, stops and deaths overlap, so the next stop()
\* reaches it.
OwnedChild ==
  \A c \in Children : child[c] = "running" => proc = c

\* With the lock free and the state idle no rtl_fm is left running unasked, and
\* a state other than idle has a handle to stop it by.
IdleMeansQuiet ==
  lock = None =>
    /\ mode = "idle" => \A c \in Children : child[c] # "running"
    /\ mode # "idle" => proc # None

\* A child deaf to SIGTERM does not keep the arbiter shut: the lock comes free.
LockReleased == lock # None ~> lock = None

=============================================================================
