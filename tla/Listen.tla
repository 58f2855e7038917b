------------------------------- MODULE Listen -------------------------------
(***************************************************************************)
(* One RTL-SDR dongle between the arbiter's children, the SAME pipeline    *)
(* (scripts/same_pipeline.sh under rpi-pod-listen-same.service) and the    *)
(* ADS-B decoder (dump1090-mutability), which install.sh enables and       *)
(* starts as well when it sees a dongle.  The pipeline runs an rtl_fm of   *)
(* its own, and neither service is known to the arbiter; whoever opens the *)
(* device first has it, and the loser exits.  systemd starts a failed      *)
(* pipeline again after ten seconds (Restart=on-failure, RestartSec=10),   *)
(* for as long as it takes; of the decoder, a package, nothing is assumed. *)
(*                                                                         *)
(* Every step of this module is one of Tuner's or leaves Tuner's variables *)
(* alone.                                                                  *)
(***************************************************************************)
EXTENDS Tuner

CONSTANTS
  Pipeline,    \* the rtl_fm of same_pipeline.sh
  Decoder      \* dump1090-mutability

ASSUME ListenAssumption ==
  /\ {Pipeline, Decoder} \cap (Children \cup {None}) = {}
  /\ Pipeline # Decoder

VARIABLE holder      \* the child or service that has the dongle open, or None

listenVars == <<vars, holder>>

\* The hub boots: no service has reached the dongle yet.
ListenInit == Init /\ holder = None

-----------------------------------------------------------------------------

\* /tune and /stop as the arbiter serves them: nothing in them asks for the
\* pipeline or the decoder to be stopped or started.
Serve ==
  /\ \E w \in Workers :
       \/ \E wants \in Modes \cup {None} : Request(w, wants)
       \/ Inside(w) \/ Outside(w)
  /\ UNCHANGED holder

\* An rtl_fm of the arbiter opens the device, if nobody has it.
Open(c) ==
  /\ child[c] = "running" /\ holder = None
  /\ holder' = c
  /\ UNCHANGED vars

\* It ends, told to or not, in possession of the dongle or for want of it.
Leave(c) ==
  /\ Exit(c)
  /\ holder' = IF holder = c THEN None ELSE holder

\* The pipeline is started, or started again: its rtl_fm opens the device.  A
\* start that finds the device taken fails and changes nothing.
StartPipeline ==
  /\ holder = None
  /\ holder' = Pipeline
  /\ UNCHANGED vars

\* The pipeline's rtl_fm or multimon-ng fails (set -o pipefail).
FailPipeline ==
  /\ holder = Pipeline
  /\ holder' = None
  /\ UNCHANGED vars

\* install.sh, the boot or the operator starts the decoder.  A start that finds
\* the device taken fails and changes nothing.
StartDecoder ==
  /\ holder = None
  /\ holder' = Decoder
  /\ UNCHANGED vars

\* The decoder fails or is stopped.
EndDecoder ==
  /\ holder = Decoder
  /\ holder' = None
  /\ UNCHANGED vars

ListenNext ==
  \/ Serve
  \/ \E c \in Children : Open(c) \/ Leave(c)
  \/ StartPipeline \/ FailPipeline
  \/ StartDecoder \/ EndDecoder

\* What the kernel ends, ends: a killed child is gone sooner or later.
Reap(c) == child[c] = "killed" /\ Leave(c)

\* The arbiter's fairness, the kernel's, and systemd's Restart=.
ListenSpec ==
  /\ ListenInit /\ [][ListenNext]_listenVars
  /\ \A w \in Workers : WF_vars(Inside(w))
  /\ \A c \in Children : WF_listenVars(Reap(c))
  /\ WF_listenVars(StartPipeline)

-----------------------------------------------------------------------------
(* Properties.                                                             *)

\* The arbiter lets go of the dongle: once it stays idle with its lock free, no
\* child of its keeps the device from the two services, however its last tunes
\* and stops overlapped and however deaf the child was.  Which of the two has
\* the device then is a race of their starts: the decoder may keep it for ever,
\* although rpi-pod-listen-same.service says of the pipeline that it "brings it
\* back when the user stops tuning".
DongleReturns ==
  <>[](lock = None /\ mode = "idle") => []<>(holder \in {Pipeline, Decoder})
=============================================================================
