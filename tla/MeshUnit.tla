------------------------------ MODULE MeshUnit ------------------------------
(***************************************************************************)
(* The daemon of MeshDaemon with the identity it serves: the key files     *)
(* that rpi-pod-mesh-keygen.service makes on first run (load_or_create in  *)
(* mesh/rpi_pod_mesh/identity.py), the copies systemd hands to the daemon  *)
(* when its unit starts (LoadCredential=), and the bundle the daemon reads *)
(* from them.                                                              *)
(*                                                                         *)
(* keygen may be killed between any two of its writes.  It runs before     *)
(* every start of the daemon (Before=, Requires=) and again when the       *)
(* daemon is started again (PartOf=).  A key stands for the whole pair it  *)
(* was generated in; what a crash of the machine does to writes already    *)
(* returned is left out.                                                   *)
(***************************************************************************)
EXTENDS MeshDaemon

CONSTANTS
  MaxKeys,   \* bound: pairs generated
  Empty      \* a file that was created and not yet written

Keys == 1 .. MaxKeys

ASSUME MeshUnitAssumption == MaxKeys \in Nat /\ {Empty, None} \cap Keys = {} /\ Empty # None

VARIABLES
  priv, pub,   \* ed25519.priv, ed25519.pub: None, Empty, or a key
  made,        \* pairs generated so far
  keygen,      \* where the oneshot is, and the pair it writes
  creds,       \* $CREDENTIALS_DIRECTORY: the two files, or None while the daemon is down
  served       \* history: public keys the hub gave as its identity

keyVars  == <<priv, pub, made, keygen, creds, served>>
unitVars == <<vars, keyVars>>

UnitInit ==
  /\ Init
  /\ priv = None /\ pub = None /\ made = 0
  /\ keygen = [at |-> "off"] /\ creds = None /\ served = {}

-----------------------------------------------------------------------------
(* load_or_create, in its own unit.                                        *)

StartKeygen ==
  /\ keygen.at = "off"
  /\ keygen' = [at |-> "read"]
  /\ UNCHANGED <<vars, priv, pub, made, creds, served>>

\* Two readable files are taken for the pair, whatever is in them ...
ReadPair ==
  /\ keygen.at = "read" /\ priv # None /\ pub # None
  /\ keygen' = [at |-> "done"]
  /\ UNCHANGED <<vars, priv, pub, made, creds, served>>

\* ... and without one of them a new pair is generated.
Generate ==
  /\ keygen.at = "read" /\ (priv = None \/ pub = None) /\ made < MaxKeys
  /\ made' = made + 1
  /\ keygen' = [at |-> "create_priv", key |-> made']
  /\ UNCHANGED <<vars, priv, pub, creds, served>>

\* Variant: the public half is complete before the private one is begun.
CreatePrivLast ==
  /\ keygen.at = "create_priv"
  /\ pub' = keygen.key /\ priv' = Empty
  /\ keygen' = [keygen EXCEPT !.at = "write_priv"]
  /\ UNCHANGED <<vars, made, creds, served>>

\* write_bytes creates or empties the file, then writes it.
CreatePriv ==
  /\ keygen.at = "create_priv"
  /\ priv' = Empty /\ keygen' = [keygen EXCEPT !.at = "write_priv"]
  /\ UNCHANGED <<vars, pub, made, creds, served>>

WritePriv ==
  /\ keygen.at = "write_priv"
  /\ priv' = keygen.key /\ keygen' = [keygen EXCEPT !.at = "create_pub"]
  /\ UNCHANGED <<vars, pub, made, creds, served>>

CreatePub ==
  /\ keygen.at = "create_pub"
  /\ pub' = Empty /\ keygen' = [keygen EXCEPT !.at = "write_pub"]
  /\ UNCHANGED <<vars, priv, made, creds, served>>

WritePub ==
  /\ keygen.at = "write_pub"
  /\ pub' = keygen.key /\ keygen' = [at |-> "done"]
  /\ UNCHANGED <<vars, priv, made, creds, served>>

Keygen == StartKeygen \/ ReadPair \/ Generate \/ CreatePriv \/ WritePriv \/ CreatePub \/ WritePub

\* The oneshot is killed: the daemon's unit is stopped, or the hub goes down.
KillKeygen ==
  /\ keygen.at \notin {"off", "done"}
  /\ keygen' = [at |-> "off"]
  /\ UNCHANGED <<vars, priv, pub, made, creds, served>>

-----------------------------------------------------------------------------
(* The daemon's unit.                                                      *)

\* Started once keygen is done; systemd copies the files, which are there.
StartDaemon ==
  /\ creds = None /\ keygen.at = "done"
  /\ creds' = [priv |-> priv, pub |-> pub]
  /\ UNCHANGED <<vars, priv, pub, made, keygen, served>>

\* A request is taken with the bundle's identity: /health shows it, a note is
\* signed under it (load_from_credentials, _get_bundle).
Call(w) ==
  /\ creds # None
  /\ Health(w) \/ Publish(w)
  /\ served' = served \cup {creds.pub}
  /\ UNCHANGED <<priv, pub, made, keygen, creds>>

Continue(w) == Step(w) /\ UNCHANGED keyVars

\* The daemon dies; keygen goes first again when it is started.
UnitRestart ==
  /\ creds # None
  /\ Restart
  /\ creds' = None /\ keygen' = [at |-> "off"]
  /\ UNCHANGED <<priv, pub, made, served>>

UnitNext ==
  \/ Keygen \/ KillKeygen
  \/ StartDaemon \/ UnitRestart
  \/ \E w \in Workers : Call(w) \/ Continue(w)

UnitSpec == UnitInit /\ [][UnitNext]_unitVars /\ Fairness

-----------------------------------------------------------------------------
(* Properties.                                                             *)

\* The identity a hub was once met under is its identity for good, through
\* restarts and through a first run of keygen cut anywhere; and what it signs
\* its notes with is a whole private key, the one its public key was made with
\* unless the public file was left empty.
IdentityKept ==
  /\ Cardinality(served) <= 1
  /\ creds # None => creds.priv \in Keys /\ creds.pub \in {creds.priv, Empty}
=============================================================================
