----------------------------- MODULE LoraBridge -----------------------------
(***************************************************************************)
(* The LoRa bridge's thread (mesh/rpi_pod_mesh/lora_bridge.py): find the   *)
(* Reticulum daemon's Unix socket, connect, cut the byte stream into       *)
(* newline-ended frames and dispatch each of them, and start over whenever *)
(* the daemon goes away, against a daemon that dies at any point.          *)
(*                                                                         *)
(* A frame is written in two pieces, the second ending in the newline; the *)
(* stream may be read in chunks that cut it anywhere between pieces.  A    *)
(* recv timeout and an empty line change nothing and are left out, and so  *)
(* is stop(), which only the repository's tests call.                      *)
(***************************************************************************)
EXTENDS Naturals, Sequences, SequencesExt

CONSTANTS
  MaxFrames,    \* bound: frames the daemon begins to write
  MaxFailures   \* bound: connections and daemons lost

ASSUME LoraBridgeAssumption == MaxFrames \in Nat /\ MaxFailures \in Nat

Pieces == [frame : 1..MaxFrames, ends : BOOLEAN]
Whole(f) == <<[frame |-> f, ends |-> FALSE], [frame |-> f, ends |-> TRUE]>>

VARIABLES
  at,         \* where the thread is: "top" of the loop, "connect", "read", "wait"
  status,     \* LoraStatus.state
  buf,        \* the pieces read and not yet dispatched
  handled,    \* history: the lines given to on_frame, in order
  socket,     \* the socket's path: "absent", "stale" or "listening"
  conn,       \* this connection: "none", "open", or "closed" by the daemon
  wire,       \* pieces written to it and not yet read
  writing,    \* the frame the daemon wrote to last, and whether it is finished
  failures    \* connections and daemons lost so far

thread == <<at, status, buf, handled>>
daemon == <<socket, writing, failures>>
vars   == <<thread, conn, wire, daemon>>

Init ==
  /\ at = "top" /\ status = "unavailable" /\ buf = <<>> /\ handled = <<>>
  /\ socket \in {"absent", "listening"}
  /\ conn = "none" /\ wire = <<>>
  /\ writing = [frame |-> 0, ends |-> TRUE] /\ failures = 0

-----------------------------------------------------------------------------
(* _run.                                                                   *)

\* Variant: the thread ends where it should wait.
GiveUp ==
  /\ at = "top" /\ socket = "absent"
  /\ at' = "ended" /\ status' = "unavailable"
  /\ UNCHANGED <<buf, handled, conn, wire, daemon>>

NoSocket ==
  /\ at = "top" /\ socket = "absent"
  /\ at' = "wait" /\ status' = "unavailable"
  /\ UNCHANGED <<buf, handled, conn, wire, daemon>>

FindSocket ==
  /\ at = "top" /\ socket # "absent"
  /\ at' = "connect" /\ status' = "connecting"
  /\ UNCHANGED <<buf, handled, conn, wire, daemon>>

\* Variant: a reader that keeps its buffer from one connection to the next.
ConnectKeepingBuffer ==
  /\ at = "connect" /\ socket = "listening"
  /\ at' = "read" /\ status' = "connected"
  /\ conn' = "open" /\ wire' = <<>>
  /\ UNCHANGED <<buf, handled, daemon>>

\* _read_loop starts with a buffer of its own.
Connect ==
  /\ at = "connect" /\ socket = "listening"
  /\ at' = "read" /\ status' = "connected" /\ buf' = <<>>
  /\ conn' = "open" /\ wire' = <<>>
  /\ UNCHANGED <<handled, daemon>>

ConnectFails ==
  /\ at = "connect" /\ socket # "listening"
  /\ at' = "wait" /\ status' = "error"
  /\ UNCHANGED <<buf, handled, conn, wire, daemon>>

\* CONNECT_RETRY_S is over.
WaitOver ==
  /\ at = "wait"
  /\ at' = "top"
  /\ UNCHANGED <<status, buf, handled, conn, wire, daemon>>

-----------------------------------------------------------------------------
(* _read_loop.                                                             *)

LineEnds == {i \in DOMAIN buf : buf[i].ends}
HasLine  == LineEnds # {}
LineEnd  == CHOOSE i \in LineEnds : \A j \in LineEnds : i <= j

\* recv: any chunk of what is there.
Recv(n) ==
  /\ at = "read" /\ ~HasLine
  /\ buf' = buf \o SubSeq(wire, 1, n)
  /\ wire' = SubSeq(wire, n + 1, Len(wire))
  /\ UNCHANGED <<at, status, handled, conn, daemon>>

\* Variant: what follows the line in the chunk is lost.
DispatchDroppingRest ==
  /\ at = "read" /\ HasLine
  /\ handled' = Append(handled, SubSeq(buf, 1, LineEnd))
  /\ buf' = <<>>
  /\ UNCHANGED <<at, status, conn, wire, daemon>>

\* One line to on_frame, whatever that raises.
Dispatch ==
  /\ at = "read" /\ HasLine
  /\ handled' = Append(handled, SubSeq(buf, 1, LineEnd))
  /\ buf' = SubSeq(buf, LineEnd + 1, Len(buf))
  /\ UNCHANGED <<at, status, conn, wire, daemon>>

\* An empty chunk ends the loop; _run goes round at once, without the wait.
Eof ==
  /\ at = "read" /\ ~HasLine /\ wire = <<>> /\ conn = "closed"
  /\ at' = "top" /\ conn' = "none"
  /\ UNCHANGED <<status, buf, handled, wire, daemon>>

\* recv fails with the connection: what was still unread is gone.
RecvFails ==
  /\ at = "read" /\ ~HasLine /\ conn = "closed"
  /\ at' = "wait" /\ status' = "error"
  /\ conn' = "none" /\ wire' = <<>>
  /\ UNCHANGED <<buf, handled, daemon>>

-----------------------------------------------------------------------------
(* The Reticulum daemon, seen from its socket.                             *)

\* It writes the rest of a frame, or the first piece of the next.
Write ==
  /\ conn = "open"
  /\ writing.ends => writing.frame < MaxFrames
  /\ writing' = IF writing.ends THEN [frame |-> writing.frame + 1, ends |-> FALSE]
                                ELSE [writing EXCEPT !.ends = TRUE]
  /\ wire' = Append(wire, writing')
  /\ UNCHANGED <<thread, conn, socket, failures>>

\* A frame left unfinished stays so: a new connection starts with a new one.
Lose ==
  /\ failures < MaxFailures
  /\ failures' = failures + 1
  /\ writing' = [writing EXCEPT !.ends = TRUE]
  /\ conn' = IF conn = "open" THEN "closed" ELSE conn
  /\ UNCHANGED <<thread, wire>>

\* It closes this connection, or dies with or without its socket's path.
Hangup == Lose /\ UNCHANGED socket
Die    == Lose /\ socket = "listening" /\ socket' \in {"absent", "stale"}

Listen ==
  /\ socket # "listening"
  /\ socket' = "listening"
  /\ UNCHANGED <<thread, conn, wire, writing, failures>>

-----------------------------------------------------------------------------

Bridge ==
  \/ NoSocket \/ FindSocket \/ Connect \/ ConnectFails \/ WaitOver
  \/ \E n \in 1..Len(wire) : Recv(n)
  \/ Dispatch \/ Eof \/ RecvFails

Daemon == Write \/ Hangup \/ Die \/ Listen

Next == Bridge \/ Daemon

\* The thread is scheduled; nothing is asked of the daemon.
Spec == Init /\ [][Next]_vars /\ WF_vars(Bridge)

-----------------------------------------------------------------------------
(* Properties.                                                             *)

\* Every variable holds values of its kind.
TypeOK ==
  /\ at \in {"top", "connect", "read", "wait"}
  /\ status \in {"unavailable", "connecting", "connected", "error"}
  /\ buf \in Seq(Pieces) /\ wire \in Seq(Pieces) /\ handled \in Seq(Seq(Pieces))
  /\ socket \in {"absent", "stale", "listening"}
  /\ conn \in {"none", "open", "closed"}
  /\ writing \in [frame : 0..MaxFrames, ends : BOOLEAN]
  /\ failures \in 0..MaxFailures

\* Every line dispatched is one whole frame, never the end of one frame or the
\* pieces of two joined across a reconnect, and frames keep their order: a
\* frame is dispatched once (_read_loop's buffer handling).
FramesWholeInOrder ==
  /\ \A i \in DOMAIN handled : handled[i] = Whole(handled[i][1].frame)
  /\ \A i, j \in DOMAIN handled : i < j => handled[i][1].frame < handled[j][1].frame

\* A daemon that comes to stay is found: from then on the bridge is connected,
\* whatever happened before ("auto-connects to the socket").
Reconnects ==
  <>[](socket = "listening") => <>[](status = "connected")

\* A frame on an open connection is dispatched unless that connection is lost.
FramesHeard ==
  \A f \in 1..MaxFrames :
     (conn = "open" /\ Contains(wire, Whole(f)[2]))
       ~> (conn # "open" \/ Contains(handled, Whole(f)))

=============================================================================
