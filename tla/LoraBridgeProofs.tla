--------------------------- MODULE LoraBridgeProofs -------------------------
(***************************************************************************)
(* Every line the LoRa bridge dispatches is one whole frame, once and in   *)
(* order, for any number of frames and lost connections.  What is read and *)
(* what is still on the wire are one stream: the invariant says that each  *)
(* frame in it has its two pieces side by side, the last one's second      *)
(* perhaps to come (Paired, Rising), and which frame the daemon is in      *)
(* (Follows).  A line's end is then always the buffer's second piece.      *)
(***************************************************************************)
EXTENDS LoraBridge, SequenceTheorems, TLAPS

Stream == buf \o wire

\* A second piece follows its first, and a first one is followed by a second.
Paired(s) ==
  /\ \A i \in DOMAIN s : s[i].ends =>
        i > 1 /\ s[i - 1] = [frame |-> s[i].frame, ends |-> FALSE]
  /\ \A i \in DOMAIN s : ~s[i].ends /\ i < Len(s) => s[i + 1].ends

\* Frames rise along the stream.
Rising(s) ==
  \A i, j \in DOMAIN s : i < j =>
     s[i].frame <= s[j].frame /\ (s[i].ends => s[i].frame < s[j].frame)

\* The stream goes on where the daemon is, and comes after what was dispatched.
Follows(s) ==
  /\ \A i \in DOMAIN s : s[i].frame <= writing.frame
  /\ \A h \in DOMAIN handled, i \in DOMAIN s : handled[h][1].frame < s[i].frame
  /\ conn = "open" /\ ~writing.ends => Len(s) > 0 /\ s[Len(s)] = writing
  /\ conn = "open" /\ writing.ends /\ Len(s) > 0 => s[Len(s)].ends

\* A connection is had while reading, and an unfinished frame on an open one.
Connected ==
  /\ conn # "none" <=> at = "read"
  /\ conn # "open" => writing.ends
  /\ \A h \in DOMAIN handled : handled[h][1].frame <= writing.frame

IInv ==
  /\ TypeOK
  /\ Paired(Stream) /\ Rising(Stream) /\ Follows(Stream)
  /\ Connected /\ FramesWholeInOrder

-----------------------------------------------------------------------------

USE LoraBridgeAssumption

\* A sequence of pieces has numbers for frames and truth values for ends.
LEMMA PiecesAre ==
  ASSUME NEW s \in Seq(Pieces), NEW i \in DOMAIN s
  PROVE  /\ i \in 1..Len(s) /\ s[i] \in Pieces
         /\ s[i].frame \in 1..MaxFrames /\ s[i].frame \in Nat /\ s[i].ends \in BOOLEAN
<1>1. i \in 1..Len(s) /\ s[i] \in Pieces
  BY ElementOfSeq, LenProperties
<1> QED
  BY <1>1 DEF Pieces

\* The stream is a sequence of pieces, what is read first.
LEMMA StreamIs ==
  ASSUME TypeOK
  PROVE  /\ Stream \in Seq(Pieces) /\ Len(Stream) = Len(buf) + Len(wire)
         /\ Len(buf) \in Nat /\ Len(wire) \in Nat /\ Len(Stream) \in Nat
         /\ DOMAIN buf = 1..Len(buf) /\ DOMAIN Stream = 1..Len(Stream)
         /\ \A i \in 1..Len(buf) : Stream[i] = buf[i]
<1>1. buf \in Seq(Pieces) /\ wire \in Seq(Pieces)
  BY DEF TypeOK
<1>2. /\ Stream \in Seq(Pieces) /\ Len(Stream) = Len(buf) + Len(wire)
      /\ \A i \in 1..(Len(buf) + Len(wire)) :
            Stream[i] = IF i <= Len(buf) THEN buf[i] ELSE wire[i - Len(buf)]
  BY <1>1, ConcatProperties DEF Stream
<1>3. /\ Len(buf) \in Nat /\ Len(wire) \in Nat /\ Len(Stream) \in Nat
      /\ DOMAIN buf = 1..Len(buf) /\ DOMAIN Stream = 1..Len(Stream)
  BY <1>1, <1>2, LenProperties
<1> QED
  BY <1>2, <1>3

\* What holds of a stream holds of the part of it that was read first.
LEMMA PrefixKeeps ==
  ASSUME NEW s \in Seq(Pieces), Paired(s), Rising(s),
         NEW t \in Seq(Pieces), Len(t) <= Len(s), \A i \in 1..Len(t) : t[i] = s[i]
  PROVE  Paired(t) /\ Rising(t)
<1>1. /\ DOMAIN s = 1..Len(s) /\ DOMAIN t = 1..Len(t) /\ Len(s) \in Nat /\ Len(t) \in Nat
  BY LenProperties
<1>2. Paired(t)
  <2>1. ASSUME NEW i \in DOMAIN t, t[i].ends
        PROVE  i > 1 /\ t[i - 1] = [frame |-> t[i].frame, ends |-> FALSE]
    <3>1. i \in DOMAIN s /\ t[i] = s[i]
      BY <1>1
    <3>2. i > 1 /\ s[i - 1] = [frame |-> s[i].frame, ends |-> FALSE]
      BY <2>1, <3>1 DEF Paired
    <3>3. t[i - 1] = s[i - 1]
      BY <1>1, <3>2
    <3> QED
      BY <3>1, <3>2, <3>3
  <2>2. ASSUME NEW i \in DOMAIN t, ~t[i].ends, i < Len(t) PROVE t[i + 1].ends
    <3>1. i \in DOMAIN s /\ t[i] = s[i] /\ t[i + 1] = s[i + 1] /\ i < Len(s)
      BY <1>1, <2>2
    <3> QED
      BY <2>2, <3>1 DEF Paired
  <2> QED
    BY <2>1, <2>2 DEF Paired
<1>3. Rising(t)
  BY <1>1 DEF Rising
<1> QED
  BY <1>2, <1>3

\* A stream with a whole line read starts with the two pieces of one frame.
LEMMA LineIsWhole ==
  ASSUME IInv, HasLine
  PROVE  /\ LineEnd = 2 /\ Len(buf) >= 2 /\ Len(Stream) >= 2
         /\ Stream[1] = [frame |-> Stream[2].frame, ends |-> FALSE] /\ Stream[2].ends
         /\ SubSeq(buf, 1, LineEnd) = Whole(Stream[2].frame)
<1>1. TypeOK /\ Paired(Stream)
  BY DEF IInv
<1>2. /\ Stream \in Seq(Pieces) /\ Len(Stream) = Len(buf) + Len(wire)
      /\ Len(buf) \in Nat /\ Len(wire) \in Nat
      /\ DOMAIN buf = 1..Len(buf) /\ DOMAIN Stream = 1..Len(Stream)
      /\ \A i \in 1..Len(buf) : Stream[i] = buf[i]
  BY <1>1, StreamIs
<1>3. PICK k \in 1..Len(buf) : buf[k].ends
  BY <1>2 DEF HasLine, LineEnds
<1>4. k > 1 /\ Len(buf) >= 2 /\ Len(Stream) >= 2
  <2>1. k \in DOMAIN Stream /\ Stream[k].ends
    BY <1>2, <1>3
  <2>2. k > 1
    BY <1>1, <2>1 DEF Paired
  <2> QED
    BY <1>2, <2>2
<1>5. ~buf[1].ends
  <2>1. 1 \in DOMAIN Stream /\ Stream[1] = buf[1] /\ ~(1 > 1)
    BY <1>2, <1>4
  <2> QED
    BY <1>1, <2>1 DEF Paired
<1>6. Stream[2].ends
  <2>1. 1 \in DOMAIN Stream /\ ~Stream[1].ends /\ 1 < Len(Stream) /\ 1 + 1 = 2
    BY <1>2, <1>4, <1>5
  <2> QED
    BY <1>1, <2>1 DEF Paired
<1>7. Stream[1] = [frame |-> Stream[2].frame, ends |-> FALSE]
  BY <1>1, <1>2, <1>4, <1>6 DEF Paired
<1>8. LineEnd = 2
  <2>1. 2 \in LineEnds /\ \A j \in LineEnds : 2 <= j
    <3>1. buf[2].ends /\ 2 \in DOMAIN buf
      BY <1>2, <1>4, <1>6
    <3>2. \A j \in DOMAIN buf : buf[j].ends => j # 1
      BY <1>5
    <3> QED
      BY <1>2, <3>1, <3>2 DEF LineEnds
  <2>2. LineEnd \in LineEnds /\ \A j \in LineEnds : LineEnd <= j
    BY <2>1 DEF LineEnd
  <2>3. LineEnd \in Nat
    BY <1>2, <2>2 DEF LineEnds
  <2> QED
    BY <2>1, <2>2, <2>3
<1>9. SubSeq(buf, 1, 2) = <<buf[1], buf[2]>>
  <2>1. buf[1] \in Pieces /\ buf[2] \in Pieces
    BY <1>1, <1>2, <1>4, PiecesAre DEF TypeOK
  <2>2. \A i \in 1..2 : buf[i] \in Pieces
    BY <2>1
  <2>3. /\ SubSeq(buf, 1, 2) \in Seq(Pieces) /\ Len(SubSeq(buf, 1, 2)) = 2
        /\ SubSeq(buf, 1, 2)[1] = buf[1] /\ SubSeq(buf, 1, 2)[2] = buf[2]
    BY <2>2, SubSeqProperties
  <2>4. /\ <<buf[1], buf[2]>> \in Seq(Pieces) /\ Len(<<buf[1], buf[2]>>) = 2
        /\ <<buf[1], buf[2]>>[1] = buf[1] /\ <<buf[1], buf[2]>>[2] = buf[2]
    BY <2>1
  <2>5. \A i \in 1..2 : SubSeq(buf, 1, 2)[i] = <<buf[1], buf[2]>>[i]
    BY <2>3, <2>4
  <2> QED
    BY <2>3, <2>4, <2>5, SeqEqual
<1>10. buf[2] = [frame |-> Stream[2].frame, ends |-> TRUE]
  <2>1. Stream[2] \in Pieces
    BY <1>2, <1>4, PiecesAre
  <2> QED
    BY <1>2, <1>4, <1>6, <2>1 DEF Pieces
<1> QED
  BY <1>2, <1>4, <1>6, <1>7, <1>8, <1>9, <1>10 DEF Whole

-----------------------------------------------------------------------------
(* The thread.                                                             *)

\* Looking for the socket and waiting touch neither stream nor daemon.
LEMMA SearchKeeps ==
  ASSUME IInv, NoSocket \/ FindSocket \/ ConnectFails \/ WaitOver PROVE IInv'
<1>1. /\ at # "read" /\ at' \in {"top", "connect", "wait"}
      /\ status' \in {"unavailable", "connecting", "error"} \cup {status}
      /\ UNCHANGED <<buf, handled, conn, wire, daemon>>
  BY DEF NoSocket, FindSocket, ConnectFails, WaitOver
<1>2. UNCHANGED Stream
  BY <1>1 DEF Stream
<1> QED
  BY <1>1, <1>2 DEF IInv, TypeOK, Paired, Rising, Follows, Connected, FramesWholeInOrder, daemon

\* A new connection starts with an empty buffer and an empty wire.
LEMMA ConnectKeeps == ASSUME IInv, Connect PROVE IInv'
<1>1. /\ at = "connect" /\ at' = "read" /\ status' = "connected"
      /\ buf' = <<>> /\ conn' = "open" /\ wire' = <<>>
      /\ UNCHANGED <<handled, daemon>>
  BY DEF Connect
<1>2. Stream' = <<>> /\ Len(Stream') = 0 /\ DOMAIN Stream' = {}
  <2>1. <<>> \in Seq(Pieces)
    OBVIOUS
  <2>2. Stream' = <<>>
    BY <1>1, <2>1, ConcatEmptySeq DEF Stream
  <2> QED
    BY <2>2
<1>3. writing.ends
  BY <1>1 DEF IInv, Connected
<1>4. TypeOK'
  BY <1>1 DEF IInv, TypeOK, daemon
<1>5. Paired(Stream)' /\ Rising(Stream)'
  BY <1>2 DEF Paired, Rising
<1>6. Follows(Stream)'
  BY <1>1, <1>2, <1>3 DEF Follows, daemon
<1>7. Connected' /\ FramesWholeInOrder'
  BY <1>1, <1>3 DEF IInv, Connected, FramesWholeInOrder, daemon
<1> QED
  BY <1>4, <1>5, <1>6, <1>7 DEF IInv

\* Three sequences one after the other are one, whichever two come first.
LEMMA Associates ==
  ASSUME NEW S, NEW p \in Seq(S), NEW q \in Seq(S), NEW r \in Seq(S)
  PROVE  (p \o q) \o r = p \o (q \o r)
BY ConcatAssociative

\* Whatever is cut off the front of one sequence for the end of another, the
\* two together stay what they were.
LEMMA MovingKeeps ==
  ASSUME NEW S, NEW p \in Seq(S), NEW q \in Seq(S), NEW n \in 1..Len(q)
  PROVE  /\ p \o SubSeq(q, 1, n) \in Seq(S) /\ SubSeq(q, n + 1, Len(q)) \in Seq(S)
         /\ (p \o SubSeq(q, 1, n)) \o SubSeq(q, n + 1, Len(q)) = p \o q
<1>1. Len(q) \in Nat /\ \A i \in 1..Len(q) : q[i] \in S
  BY LenProperties, ElementOfSeq
<1>2. SubSeq(q, 1, n) \in Seq(S)
  <2>1. \A i \in 1..n : q[i] \in S
    BY <1>1
  <2> QED
    BY <2>1, SubSeqProperties
<1>3. SubSeq(q, n + 1, Len(q)) \in Seq(S)
  <2>1. \A i \in (n + 1)..Len(q) : q[i] \in S
    BY <1>1
  <2> QED
    BY <1>1, <2>1, SubSeqProperties
<1>4. SubSeq(q, 1, n) \o SubSeq(q, n + 1, Len(q)) = q
  <2>1. SubSeq(q, 1, n) \o SubSeq(q, n + 1, Len(q)) = SubSeq(q, 1, Len(q))
    BY <1>1, ConcatAdjacentSubSeq
  <2> QED
    BY <2>1, SubSeqFull
<1>5. \A a, b \in Seq(S) : (p \o a) \o b = p \o (a \o b)
  BY Associates, SMTT(60)
<1>6. p \o SubSeq(q, 1, n) \in Seq(S)
  BY <1>2, ConcatProperties
<1>7. (p \o SubSeq(q, 1, n)) \o SubSeq(q, n + 1, Len(q))
        = p \o (SubSeq(q, 1, n) \o SubSeq(q, n + 1, Len(q)))
  BY <1>2, <1>3, <1>5, Zenon
<1> QED
  BY <1>3, <1>4, <1>6, <1>7, Zenon

\* recv moves pieces from the wire to the buffer: the stream stays what it is.
LEMMA RecvKeeps == ASSUME IInv, NEW n \in 1..Len(wire), Recv(n) PROVE IInv'
<1>1. buf \in Seq(Pieces) /\ wire \in Seq(Pieces)
  BY DEF IInv, TypeOK
<1>2. /\ buf' = buf \o SubSeq(wire, 1, n) /\ wire' = SubSeq(wire, n + 1, Len(wire))
      /\ UNCHANGED <<at, status, handled, conn, daemon>>
  BY DEF Recv
<1>3. buf' \in Seq(Pieces) /\ wire' \in Seq(Pieces) /\ buf' \o wire' = buf \o wire
  BY <1>1, <1>2, MovingKeeps
<1>4. Stream' = Stream
  BY <1>3 DEF Stream
<1> QED
  BY <1>2, <1>3, <1>4
     DEF IInv, TypeOK, Paired, Rising, Follows, Connected, FramesWholeInOrder, daemon

\* The line goes to on_frame and its two pieces leave the stream.
LEMMA DispatchKeeps == ASSUME IInv, Dispatch PROVE IInv'
<1> DEFINE f == Stream[2].frame
           m == Len(handled) + 1
<1>1. HasLine /\ UNCHANGED <<at, status, conn, wire, daemon>>
  BY DEF Dispatch
<1>2. /\ LineEnd = 2 /\ Len(buf) >= 2 /\ Len(Stream) >= 2
      /\ Stream[1] = [frame |-> f, ends |-> FALSE] /\ Stream[2].ends
      /\ SubSeq(buf, 1, LineEnd) = Whole(f)
  BY <1>1, LineIsWhole
<1>3. TypeOK /\ Paired(Stream) /\ Rising(Stream) /\ Follows(Stream)
  BY DEF IInv
<1>4. /\ Stream \in Seq(Pieces) /\ Len(Stream) = Len(buf) + Len(wire)
      /\ Len(buf) \in Nat /\ Len(wire) \in Nat /\ Len(Stream) \in Nat
      /\ DOMAIN buf = 1..Len(buf) /\ DOMAIN Stream = 1..Len(Stream)
  BY <1>3, StreamIs
<1>5. handled' = Append(handled, Whole(f)) /\ buf' = SubSeq(buf, 3, Len(buf))
  <2>1. /\ handled' = Append(handled, SubSeq(buf, 1, LineEnd))
        /\ buf' = SubSeq(buf, LineEnd + 1, Len(buf))
    BY DEF Dispatch
  <2>2. LineEnd + 1 = 3
    BY <1>2
  <2> QED
    BY <1>2, <2>1, <2>2
<1>6. f \in 1..MaxFrames /\ f \in Nat
  BY <1>2, <1>4, PiecesAre
<1>7. Whole(f) \in Seq(Pieces) /\ Whole(f)[1].frame = f
  BY <1>6 DEF Whole, Pieces
<1>8. handled \in Seq(Seq(Pieces)) /\ Len(handled) \in Nat /\ DOMAIN handled = 1..Len(handled)
  BY <1>3 DEF TypeOK
<1>9. /\ handled' \in Seq(Seq(Pieces)) /\ DOMAIN handled' = 1..m
      /\ handled'[m] = Whole(f)
      /\ \A h \in 1..Len(handled) : handled'[h] = handled[h]
  BY <1>5, <1>7, <1>8
<1>10. buf \in Seq(Pieces) /\ wire \in Seq(Pieces)
  BY <1>3 DEF TypeOK
<1>11. /\ buf' \in Seq(Pieces) /\ Len(buf') = Len(buf) - 2
       /\ \A i \in 1..(Len(buf) - 2) : buf'[i] = buf[i + 2]
  <2>1. \A i \in 3..Len(buf) : buf[i] \in Pieces
    BY <1>4, <1>10, PiecesAre
  <2> QED
    BY <1>2, <1>4, <1>5, <2>1, SubSeqProperties
<1>12. /\ Stream' \in Seq(Pieces) /\ Len(Stream') = Len(Stream) - 2
       /\ DOMAIN Stream' = 1..(Len(Stream) - 2)
       /\ \A i \in 1..(Len(Stream) - 2) : Stream'[i] = Stream[i + 2]
  <2>1. /\ Stream' \in Seq(Pieces) /\ Len(Stream') = Len(buf') + Len(wire)
        /\ \A i \in 1..(Len(buf') + Len(wire)) :
              Stream'[i] = IF i <= Len(buf') THEN buf'[i] ELSE wire[i - Len(buf')]
    BY <1>1, <1>10, <1>11, ConcatProperties DEF Stream
  <2>2. \A i \in 1..(Len(buf) + Len(wire)) :
           Stream[i] = IF i <= Len(buf) THEN buf[i] ELSE wire[i - Len(buf)]
    BY <1>10, ConcatProperties DEF Stream
  <2>3. Len(Stream') = Len(Stream) - 2 /\ DOMAIN Stream' = 1..(Len(Stream) - 2)
    BY <1>4, <1>11, <2>1, LenProperties
  <2>4. ASSUME NEW i \in 1..(Len(Stream) - 2) PROVE Stream'[i] = Stream[i + 2]
    <3>1. i \in Nat /\ i + 2 \in 1..(Len(buf) + Len(wire)) /\ i \in 1..(Len(buf') + Len(wire))
      BY <1>2, <1>4, <1>11
    <3>2. CASE i <= Len(buf) - 2
      <4>1. Stream'[i] = buf'[i] /\ buf'[i] = buf[i + 2]
        BY <1>2, <1>4, <1>11, <2>1, <3>1, <3>2
      <4>2. Stream[i + 2] = buf[i + 2]
        BY <1>4, <2>2, <3>1, <3>2
      <4> QED
        BY <4>1, <4>2
    <3>3. CASE ~(i <= Len(buf) - 2)
      <4>1. Stream'[i] = wire[i - (Len(buf) - 2)]
        BY <1>2, <1>4, <1>11, <2>1, <3>1, <3>3
      <4>2. Stream[i + 2] = wire[(i + 2) - Len(buf)]
        BY <1>4, <2>2, <3>1, <3>3
      <4>3. i - (Len(buf) - 2) = (i + 2) - Len(buf)
        BY <1>4, <3>1
      <4> QED
        BY <4>1, <4>2, <4>3
    <3> QED
      BY <3>2, <3>3
  <2> QED
    BY <2>1, <2>3, <2>4
<1> HIDE DEF f
<1>13. TypeOK'
  BY <1>1, <1>3, <1>9, <1>11 DEF TypeOK, daemon
<1>14. Paired(Stream)'
  <2>1. ASSUME NEW i \in DOMAIN Stream', Stream'[i].ends
        PROVE  i > 1 /\ Stream'[i - 1] = [frame |-> Stream'[i].frame, ends |-> FALSE]
    <3>1. /\ i \in Nat /\ i >= 1 /\ i + 2 \in DOMAIN Stream /\ i + 1 \in DOMAIN Stream
          /\ Stream'[i] = Stream[i + 2]
      BY <1>4, <1>12
    <3>2. Stream[(i + 2) - 1] = [frame |-> Stream'[i].frame, ends |-> FALSE]
      BY <1>3, <2>1, <3>1 DEF Paired
    <3>3. Stream[i + 1] = [frame |-> Stream'[i].frame, ends |-> FALSE]
      BY <3>1, <3>2
    <3>4. i # 1
      BY <1>2, <3>3
    <3>5. Stream'[i - 1] = Stream[(i - 1) + 2]
      BY <1>4, <1>12, <3>1, <3>4
    <3>6. (i - 1) + 2 = i + 1
      BY <3>1
    <3> QED
      BY <3>1, <3>3, <3>4, <3>5, <3>6
  <2>2. ASSUME NEW i \in DOMAIN Stream', ~Stream'[i].ends, i < Len(Stream')
        PROVE  Stream'[i + 1].ends
    <3>1. /\ i \in Nat /\ i + 2 \in DOMAIN Stream /\ i + 2 < Len(Stream)
          /\ Stream'[i] = Stream[i + 2] /\ Stream'[i + 1] = Stream[(i + 1) + 2]
          /\ (i + 1) + 2 = (i + 2) + 1
      BY <1>4, <1>12, <2>2
    <3> QED
      BY <1>3, <2>2, <3>1 DEF Paired
  <2> QED
    BY <2>1, <2>2 DEF Paired
<1>15. Rising(Stream)'
  <2> SUFFICES ASSUME NEW i \in DOMAIN Stream', NEW j \in DOMAIN Stream', i < j
               PROVE  /\ Stream'[i].frame <= Stream'[j].frame
                      /\ Stream'[i].ends => Stream'[i].frame < Stream'[j].frame
    BY DEF Rising
  <2>1. /\ i + 2 \in DOMAIN Stream /\ j + 2 \in DOMAIN Stream /\ i + 2 < j + 2
        /\ Stream'[i] = Stream[i + 2] /\ Stream'[j] = Stream[j + 2]
    BY <1>4, <1>12
  <2> QED
    BY <1>3, <2>1 DEF Rising
<1>16. \A i \in DOMAIN Stream' :
          /\ i + 2 \in DOMAIN Stream /\ Stream'[i] = Stream[i + 2]
          /\ f < Stream'[i].frame
  <2> SUFFICES ASSUME NEW i \in DOMAIN Stream'
               PROVE  /\ i + 2 \in DOMAIN Stream /\ Stream'[i] = Stream[i + 2]
                      /\ f < Stream'[i].frame
    OBVIOUS
  <2>1. i + 2 \in DOMAIN Stream /\ 2 \in DOMAIN Stream /\ 2 < i + 2 /\ Stream'[i] = Stream[i + 2]
    BY <1>2, <1>4, <1>12
  <2> QED
    BY <1>2, <1>3, <2>1 DEF Rising, f
<1>17. Follows(Stream)'
  <2>1. \A i \in DOMAIN Stream' : Stream'[i].frame <= writing.frame
    BY <1>3, <1>16 DEF Follows
  <2>2. \A h \in DOMAIN handled', i \in DOMAIN Stream' : handled'[h][1].frame < Stream'[i].frame
    <3> SUFFICES ASSUME NEW h \in DOMAIN handled', NEW i \in DOMAIN Stream'
                 PROVE  handled'[h][1].frame < Stream'[i].frame
      OBVIOUS
    <3>1. CASE h = m
      BY <1>7, <1>9, <1>16, <3>1
    <3>2. CASE h # m
      <4>1. h \in DOMAIN handled /\ handled'[h] = handled[h]
        BY <1>8, <1>9, <3>2
      <4> QED
        BY <1>3, <1>16, <4>1 DEF Follows
    <3> QED
      BY <3>1, <3>2
  <2>3. Len(Stream') > 0 => Stream'[Len(Stream')] = Stream[Len(Stream)]
    <3>1. Len(Stream') > 0 => Stream'[Len(Stream')] = Stream[Len(Stream') + 2]
      BY <1>4, <1>12
    <3>2. Len(Stream') + 2 = Len(Stream)
      BY <1>4, <1>12
    <3> QED
      BY <3>1, <3>2
  <2>4. ~(conn = "open" /\ ~writing.ends /\ Len(Stream') = 0)
    <3> SUFFICES ASSUME conn = "open", ~writing.ends, Len(Stream') = 0 PROVE FALSE
      OBVIOUS
    <3>1. Len(Stream) = 2
      BY <1>4, <1>12
    <3> QED
      BY <1>2, <1>3, <3>1 DEF Follows
  <2>5. UNCHANGED <<conn, writing>>
    BY <1>1 DEF daemon
  <2>6. Len(Stream') \in Nat
    BY <1>2, <1>4, <1>12
  <2>7. conn = "open" /\ ~writing.ends => Len(Stream') > 0 /\ Stream'[Len(Stream')] = writing
    BY <1>3, <2>3, <2>4, <2>6 DEF Follows
  <2>8. conn = "open" /\ writing.ends /\ Len(Stream') > 0 => Stream'[Len(Stream')].ends
    BY <1>2, <1>3, <1>4, <2>3 DEF Follows
  <2> QED
    BY <2>1, <2>2, <2>5, <2>7, <2>8 DEF Follows
<1>18. f <= writing.frame
  BY <1>2, <1>3, <1>4 DEF Follows, f
<1>19. Connected'
  <2>1. \A h \in DOMAIN handled' : handled'[h][1].frame <= writing.frame
    <3> SUFFICES ASSUME NEW h \in DOMAIN handled' PROVE handled'[h][1].frame <= writing.frame
      OBVIOUS
    <3>1. CASE h = m
      BY <1>7, <1>9, <1>18, <3>1
    <3>2. CASE h # m
      <4>1. h \in DOMAIN handled /\ handled'[h] = handled[h]
        BY <1>8, <1>9, <3>2
      <4> QED
        BY <4>1 DEF IInv, Connected
    <3> QED
      BY <3>1, <3>2
  <2> QED
    BY <1>1, <2>1 DEF IInv, Connected, daemon
<1>20. FramesWholeInOrder'
  <2>1. \A h \in DOMAIN handled : handled[h][1].frame < f
    BY <1>2, <1>3, <1>4 DEF Follows, f
  <2>2. \A h \in DOMAIN handled' : h = m \/ (h \in DOMAIN handled /\ handled'[h] = handled[h])
    BY <1>8, <1>9
  <2>3. \A h \in DOMAIN handled' : handled'[h] = Whole(handled'[h][1].frame)
    BY <1>7, <1>9, <2>2 DEF IInv, FramesWholeInOrder
  <2>4. ASSUME NEW i \in DOMAIN handled', NEW j \in DOMAIN handled', i < j
        PROVE  handled'[i][1].frame < handled'[j][1].frame
    <3>1. i \in DOMAIN handled /\ handled'[i] = handled[i]
      BY <1>8, <1>9, <2>2, <2>4
    <3>2. CASE j = m
      BY <1>7, <1>9, <2>1, <3>1, <3>2
    <3>3. CASE j # m
      BY <2>2, <2>4, <3>1, <3>3 DEF IInv, FramesWholeInOrder
    <3> QED
      BY <3>2, <3>3
  <2> QED
    BY <2>3, <2>4 DEF FramesWholeInOrder
<1> QED
  BY <1>13, <1>14, <1>15, <1>17, <1>19, <1>20 DEF IInv

\* A connection lost for the thread: what was on the wire may be gone, and no
\* frame is under way.
LEMMA LeaveKeeps == ASSUME IInv, Eof \/ RecvFails PROVE IInv'
<1>1. /\ conn = "closed" /\ conn' = "none" /\ at' \in {"top", "wait"}
      /\ status' \in {status, "error"} /\ wire' \in {wire, <<>>}
      /\ UNCHANGED <<buf, handled, daemon>>
  BY DEF Eof, RecvFails
<1>2. TypeOK /\ Paired(Stream) /\ Rising(Stream) /\ Follows(Stream)
  BY DEF IInv
<1>3. TypeOK'
  <2>1. wire' \in Seq(Pieces)
    <3>1. <<>> \in Seq(Pieces)
      OBVIOUS
    <3> QED
      BY <1>1, <1>2, <3>1 DEF TypeOK
  <2>2. UNCHANGED <<buf, handled, socket, writing, failures>>
    BY <1>1 DEF daemon
  <2>3. at' \in {"top", "connect", "read", "wait"} /\ conn' \in {"none", "open", "closed"}
    BY <1>1
  <2>4. status' \in {"unavailable", "connecting", "connected", "error"}
    BY <1>1, <1>2 DEF TypeOK
  <2> QED
    BY <1>2, <2>1, <2>2, <2>3, <2>4 DEF TypeOK
<1>4. /\ Stream \in Seq(Pieces) /\ Len(Stream) = Len(buf) + Len(wire)
      /\ Len(buf) \in Nat /\ Len(wire) \in Nat
      /\ DOMAIN Stream = 1..Len(Stream)
      /\ \A i \in 1..Len(buf) : Stream[i] = buf[i]
  BY <1>2, StreamIs
<1>5. /\ Stream' \in Seq(Pieces) /\ Len(Stream') <= Len(Stream)
      /\ \A i \in 1..Len(Stream') : Stream'[i] = Stream[i]
  <2>1. CASE wire' = wire
    BY <1>1, <1>4, <2>1 DEF Stream
  <2>2. CASE wire' = <<>>
    <3>1. buf \in Seq(Pieces)
      BY <1>2 DEF TypeOK
    <3>2. Stream' = buf
      BY <1>1, <2>2, <3>1, ConcatEmptySeq DEF Stream
    <3> QED
      BY <1>4, <3>1, <3>2
  <2> QED
    BY <1>1, <2>1, <2>2
<1>6. Paired(Stream') /\ Rising(Stream')
  BY <1>2, <1>4, <1>5, PrefixKeeps
<1>7. \A i \in DOMAIN Stream' : i \in DOMAIN Stream /\ Stream'[i] = Stream[i]
  BY <1>4, <1>5, LenProperties
<1>8. Follows(Stream)'
  BY <1>1, <1>2, <1>7 DEF Follows, daemon
<1>9. Connected' /\ FramesWholeInOrder'
  BY <1>1 DEF IInv, Connected, FramesWholeInOrder, daemon
<1>10. Paired(Stream)' /\ Rising(Stream)'
  BY <1>6 DEF Paired, Rising
<1> QED
  BY <1>3, <1>8, <1>9, <1>10 DEF IInv

-----------------------------------------------------------------------------
(* The daemon.                                                             *)

\* The next piece goes to the stream's end: the second of the frame that is
\* there, or the first of a later one.
LEMMA WriteKeeps == ASSUME IInv, Write PROVE IInv'
<1> DEFINE w == writing'
           n == Len(Stream)
<1>1. TypeOK /\ Paired(Stream) /\ Rising(Stream) /\ Follows(Stream) /\ Connected
  BY DEF IInv
<1>2. /\ Stream \in Seq(Pieces) /\ n \in Nat /\ DOMAIN Stream = 1..n
      /\ buf \in Seq(Pieces) /\ wire \in Seq(Pieces) /\ handled \in Seq(Seq(Pieces))
  BY <1>1, StreamIs DEF TypeOK
<1>3. /\ conn = "open" /\ wire' = Append(wire, w)
      /\ UNCHANGED <<at, status, buf, handled, conn, socket, failures>>
  BY DEF Write, thread
<1>4. writing.frame \in 0..MaxFrames /\ writing.frame \in Nat /\ writing.ends \in BOOLEAN
  BY <1>1 DEF TypeOK
<1>5. \/ /\ writing.ends /\ writing.frame < MaxFrames
         /\ w = [frame |-> writing.frame + 1, ends |-> FALSE]
      \/ /\ ~writing.ends /\ n > 0 /\ Stream[n] = writing
         /\ writing = [frame |-> writing.frame, ends |-> FALSE]
         /\ w = [frame |-> writing.frame, ends |-> TRUE]
  <2>1. CASE writing.ends
    BY <2>1 DEF Write
  <2>2. CASE ~writing.ends
    <3>1. w = [writing EXCEPT !.ends = TRUE]
      BY <2>2 DEF Write
    <3>2. w = [frame |-> writing.frame, ends |-> TRUE]
      BY <1>1, <3>1 DEF TypeOK
    <3>3. writing = [frame |-> writing.frame, ends |-> FALSE]
      BY <1>1, <2>2 DEF TypeOK
    <3>4. n > 0 /\ Stream[n] = writing
      BY <1>1, <1>3, <2>2 DEF Follows
    <3> QED
      BY <2>2, <3>2, <3>3, <3>4
  <2> QED
    BY <2>1, <2>2
<1>6. ~writing.ends => n \in DOMAIN Stream /\ writing.frame \in 1..MaxFrames
  BY <1>2, <1>5, PiecesAre
<1>7. /\ w \in Pieces /\ w.frame \in Nat /\ w.ends \in BOOLEAN
      /\ w \in [frame : 0..MaxFrames, ends : BOOLEAN]
      /\ w.ends = ~writing.ends
      /\ w.frame = IF writing.ends THEN writing.frame + 1 ELSE writing.frame
  <2>1. CASE writing.ends
    <3> DEFINE k == writing.frame + 1
    <3>1. k \in 1..MaxFrames /\ k \in 0..MaxFrames /\ k \in Nat
      BY <1>4, <1>5, <2>1
    <3>2. w = [frame |-> k, ends |-> FALSE]
      BY <1>5, <2>1
    <3> HIDE DEF w
    <3>3. /\ w \in Pieces /\ w \in [frame : 0..MaxFrames, ends : BOOLEAN]
          /\ w.frame = k /\ w.ends = FALSE
      BY <3>1, <3>2 DEF Pieces
    <3> QED
      BY <2>1, <3>1, <3>3
  <2>2. CASE ~writing.ends
    <3> DEFINE k == writing.frame
    <3>1. k \in 1..MaxFrames /\ k \in 0..MaxFrames /\ k \in Nat
      BY <1>4, <1>6, <2>2
    <3>2. w = [frame |-> k, ends |-> TRUE]
      BY <1>5, <2>2
    <3> HIDE DEF w
    <3>3. /\ w \in Pieces /\ w \in [frame : 0..MaxFrames, ends : BOOLEAN]
          /\ w.frame = k /\ w.ends = TRUE
      BY <3>1, <3>2 DEF Pieces
    <3> QED
      BY <2>2, <3>1, <3>3
  <2> QED
    BY <2>1, <2>2
<1> HIDE DEF w, n
<1>8. Stream' = Append(Stream, w)
  <2>1. wire' = wire \o <<w>>
    BY <1>2, <1>3, <1>7, AppendIsConcat
  <2>2. Append(Stream, w) = Stream \o <<w>>
    BY <1>2, <1>7, AppendIsConcat
  <2>3. <<w>> \in Seq(Pieces)
    BY <1>7
  <2>4. (buf \o wire) \o <<w>> = buf \o (wire \o <<w>>)
    BY <1>2, <2>3, Associates
  <2> QED
    BY <1>3, <2>1, <2>2, <2>4 DEF Stream
<1>9. /\ Stream' \in Seq(Pieces) /\ Len(Stream') = n + 1 /\ DOMAIN Stream' = 1..(n + 1)
      /\ Stream'[n + 1] = w /\ \A i \in 1..n : Stream'[i] = Stream[i]
  BY <1>2, <1>7, <1>8, AppendProperties, LenProperties DEF n
<1>10. \A i \in DOMAIN Stream' :
          i = n + 1 \/ (i \in DOMAIN Stream /\ i \in 1..n /\ Stream'[i] = Stream[i])
  BY <1>2, <1>9
<1>11. TypeOK'
  <2>1. wire' \in Seq(Pieces)
    BY <1>2, <1>3, <1>7, AppendProperties
  <2> QED
    BY <1>1, <1>3, <1>7, <2>1 DEF TypeOK, w
<1>12. Paired(Stream)'
  <2>1. ASSUME NEW i \in DOMAIN Stream', Stream'[i].ends
        PROVE  i > 1 /\ Stream'[i - 1] = [frame |-> Stream'[i].frame, ends |-> FALSE]
    <3>1. CASE i = n + 1
      <4>1. ~writing.ends /\ n > 0 /\ Stream[n] = [frame |-> w.frame, ends |-> FALSE]
        BY <1>4, <1>5, <1>7, <1>9, <2>1, <3>1
      <4>2. n \in 1..n /\ i - 1 = n /\ i > 1
        BY <1>2, <3>1, <4>1
      <4>3. Stream'[i - 1] = Stream[n] /\ Stream'[i] = w
        BY <1>9, <3>1, <4>2
      <4> QED
        BY <4>1, <4>2, <4>3
    <3>2. CASE i # n + 1
      <4>1. i \in DOMAIN Stream /\ i \in 1..n /\ Stream'[i] = Stream[i]
        BY <1>10, <3>2
      <4>2. i > 1 /\ Stream[i - 1] = [frame |-> Stream[i].frame, ends |-> FALSE]
        BY <1>1, <2>1, <4>1 DEF Paired
      <4>3. Stream'[i - 1] = Stream[i - 1]
        BY <1>2, <1>9, <4>1, <4>2
      <4> QED
        BY <4>1, <4>2, <4>3
    <3> QED
      BY <3>1, <3>2
  <2>2. ASSUME NEW i \in DOMAIN Stream', ~Stream'[i].ends, i < Len(Stream')
        PROVE  Stream'[i + 1].ends
    <3>1. i \in DOMAIN Stream /\ i \in 1..n /\ Stream'[i] = Stream[i]
      BY <1>2, <1>9, <1>10, <2>2
    <3>2. CASE i = n
      <4>1. ~writing.ends
        BY <1>1, <1>2, <1>3, <2>2, <3>1, <3>2 DEF Follows, n
      <4> QED
        BY <1>7, <1>9, <3>2, <4>1
    <3>3. CASE i # n
      <4>1. i < Len(Stream) /\ i + 1 \in 1..n
        BY <1>2, <3>1, <3>3 DEF n
      <4>2. Stream[i + 1].ends
        BY <1>1, <2>2, <3>1, <4>1 DEF Paired
      <4> QED
        BY <1>9, <4>1, <4>2
    <3> QED
      BY <3>2, <3>3
  <2> QED
    BY <2>1, <2>2 DEF Paired
<1>13. ASSUME NEW i \in DOMAIN Stream
       PROVE  Stream[i].frame <= w.frame /\ (Stream[i].ends => Stream[i].frame < w.frame)
  <2>1. Stream[i].frame \in Nat /\ Stream[i].frame <= writing.frame
    BY <1>1, <1>2, PiecesAre DEF Follows
  <2>2. CASE writing.ends
    BY <1>4, <1>7, <2>1, <2>2
  <2>3. CASE ~writing.ends
    <3>1. n \in DOMAIN Stream /\ Stream[n] = writing /\ w.frame = writing.frame
      BY <1>5, <1>6, <1>7, <2>3
    <3>2. CASE i = n
      BY <2>1, <2>3, <3>1, <3>2
    <3>3. CASE i # n
      <4>1. i < n
        BY <1>2, <3>3
      <4> QED
        BY <1>1, <3>1, <4>1 DEF Rising
    <3> QED
      BY <3>2, <3>3
  <2> QED
    BY <1>4, <2>2, <2>3
<1>14. Rising(Stream)'
  <2> SUFFICES ASSUME NEW i \in DOMAIN Stream', NEW j \in DOMAIN Stream', i < j
               PROVE  /\ Stream'[i].frame <= Stream'[j].frame
                      /\ Stream'[i].ends => Stream'[i].frame < Stream'[j].frame
    BY DEF Rising
  <2>1. i \in DOMAIN Stream /\ Stream'[i] = Stream[i]
    BY <1>2, <1>9, <1>10
  <2>2. CASE j = n + 1
    BY <1>9, <1>13, <2>1, <2>2
  <2>3. CASE j # n + 1
    <3>1. j \in DOMAIN Stream /\ Stream'[j] = Stream[j]
      BY <1>10, <2>3
    <3> QED
      BY <1>1, <2>1, <3>1 DEF Rising
  <2> QED
    BY <2>2, <2>3
<1>15. \A h \in DOMAIN handled : handled[h][1].frame <= writing.frame
  BY <1>1 DEF Connected
<1>16. \A h \in DOMAIN handled :
          handled[h][1].frame < w.frame /\ handled[h][1].frame <= w.frame
  <2>1. CASE writing.ends
    <3> SUFFICES ASSUME NEW h \in DOMAIN handled
                 PROVE  handled[h][1].frame < w.frame /\ handled[h][1].frame <= w.frame
      OBVIOUS
    <3>1. handled[h] = Whole(handled[h][1].frame) /\ handled[h] \in Seq(Pieces)
      BY <1>2, ElementOfSeq, LenProperties DEF IInv, FramesWholeInOrder
    <3>2. 1 \in DOMAIN handled[h]
      BY <3>1 DEF Whole
    <3>3. handled[h][1].frame \in Nat
      BY <3>1, <3>2, PiecesAre
    <3> QED
      BY <1>4, <1>7, <1>15, <2>1, <3>3
  <2>2. CASE ~writing.ends
    BY <1>1, <1>5, <1>6, <1>7, <1>15, <2>2 DEF Follows
  <2> QED
    BY <1>4, <2>1, <2>2
<1>17. Follows(Stream)'
  <2>1. \A i \in DOMAIN Stream' : Stream'[i].frame <= w.frame
    BY <1>7, <1>9, <1>10, <1>13
  <2>2. \A h \in DOMAIN handled, i \in DOMAIN Stream' : handled[h][1].frame < Stream'[i].frame
    <3> SUFFICES ASSUME NEW h \in DOMAIN handled, NEW i \in DOMAIN Stream'
                 PROVE  handled[h][1].frame < Stream'[i].frame
      OBVIOUS
    <3>1. CASE i = n + 1
      BY <1>9, <1>16, <3>1
    <3>2. CASE i # n + 1
      BY <1>1, <1>10, <3>2 DEF Follows
    <3> QED
      BY <3>1, <3>2
  <2>3. UNCHANGED handled
    BY <1>3
  <2>4. Len(Stream') > 0 /\ Stream'[Len(Stream')] = w
    BY <1>2, <1>9
  <2> QED
    BY <2>1, <2>2, <2>3, <2>4 DEF Follows, w
<1>18. Connected' /\ FramesWholeInOrder'
  BY <1>1, <1>3, <1>16 DEF IInv, Connected, FramesWholeInOrder, w
<1> QED
  BY <1>11, <1>12, <1>14, <1>17, <1>18 DEF IInv

\* A connection or the daemon lost leaves the stream as it is, unfinished.
LEMMA LoseKeeps == ASSUME IInv, Hangup \/ Die PROVE IInv'
<1>1. /\ conn' = (IF conn = "open" THEN "closed" ELSE conn)
      /\ writing' = [writing EXCEPT !.ends = TRUE]
      /\ failures < MaxFailures /\ failures' = failures + 1
      /\ socket' \in {"absent", "stale"} \cup {socket}
      /\ UNCHANGED <<thread, wire>>
  BY DEF Hangup, Die, Lose
<1>2. TypeOK /\ writing \in [frame : 0..MaxFrames, ends : BOOLEAN]
  BY DEF IInv, TypeOK
<1>3. /\ writing' \in [frame : 0..MaxFrames, ends : BOOLEAN]
      /\ writing'.frame = writing.frame /\ writing'.ends
  BY <1>1, <1>2
<1>4. UNCHANGED <<Stream, handled, at>>
  BY <1>1 DEF thread, Stream
<1>5. conn' # "open" /\ (conn' = "none" <=> conn = "none")
  BY <1>1
<1>6. TypeOK'
  <2>1. failures' \in 0..MaxFailures /\ conn' \in {"none", "open", "closed"}
    BY <1>1, <1>2 DEF TypeOK
  <2> QED
    BY <1>1, <1>2, <1>3, <2>1 DEF TypeOK, thread
<1>7. Paired(Stream)' /\ Rising(Stream)'
  BY <1>4 DEF IInv, Paired, Rising
<1>8. Follows(Stream)'
  BY <1>3, <1>4, <1>5 DEF IInv, Follows
<1>9. Connected' /\ FramesWholeInOrder'
  BY <1>3, <1>4, <1>5 DEF IInv, Connected, FramesWholeInOrder
<1> QED
  BY <1>6, <1>7, <1>8, <1>9 DEF IInv

\* A daemon that comes up again waits for its first connection.
LEMMA ListenKeeps == ASSUME IInv, Listen PROVE IInv'
<1>1. UNCHANGED Stream /\ UNCHANGED <<thread, conn, wire, writing, failures>>
  BY DEF Listen, thread, Stream
<1> QED
  BY <1>1 DEF IInv, TypeOK, Paired, Rising, Follows, Connected, FramesWholeInOrder, Listen, thread

\* Every step of the thread and of the daemon keeps the invariant.
LEMMA NextKeeps == ASSUME IInv, [Next]_vars PROVE IInv'
<1>1. CASE Bridge
  BY <1>1, SearchKeeps, ConnectKeeps, RecvKeeps, DispatchKeeps, LeaveKeeps DEF Bridge
<1>2. CASE Daemon
  BY <1>2, WriteKeeps, LoseKeeps, ListenKeeps DEF Daemon
<1>3. CASE UNCHANGED vars
  <2>1. UNCHANGED Stream
    BY <1>3 DEF vars, thread, Stream
  <2> QED
    BY <1>3, <2>1 DEF vars, thread, daemon, IInv, TypeOK, Paired, Rising, Follows, Connected,
                      FramesWholeInOrder
<1> QED
  BY <1>1, <1>2, <1>3 DEF Next

\* The thread starts with nothing read, nothing written and no connection.
LEMMA InitIInv == Init => IInv
<1> SUFFICES ASSUME Init PROVE IInv
  OBVIOUS
<1>1. Stream = <<>> /\ Len(Stream) = 0 /\ DOMAIN Stream = {}
  <2>1. Stream = <<>> \o <<>> /\ <<>> \in Seq(Pieces)
    BY DEF Init, Stream
  <2>2. Stream = <<>>
    BY <2>1, ConcatEmptySeq
  <2> QED
    BY <2>2
<1>2. TypeOK
  BY DEF Init, TypeOK
<1>3. Paired(Stream) /\ Rising(Stream)
  BY <1>1 DEF Paired, Rising
<1>4. Follows(Stream) /\ Connected /\ FramesWholeInOrder
  BY <1>1 DEF Init, Follows, Connected, FramesWholeInOrder
<1> QED
  BY <1>2, <1>3, <1>4 DEF IInv

\* The strengthened invariant holds in every reachable state.
THEOREM Invariance == Spec => []IInv
<1>1. IInv /\ [Next]_vars => IInv'
  BY NextKeeps
<1> QED
  BY InitIInv, <1>1, PTL DEF Spec

\* The bridge's and the daemon's variables keep their kinds: every line handed
\* over and every chunk left is made of pieces the daemon wrote.
THEOREM TypeCorrect == Spec => []TypeOK
<1>1. IInv => TypeOK
  BY DEF IInv
<1> QED
  BY <1>1, Invariance, PTL

\* _read_loop gives on_frame whole frames, each once and in order, however the
\* stream is cut into chunks and wherever connections are lost.
THEOREM WholeFramesInOrder == Spec => []FramesWholeInOrder
<1>1. IInv => FramesWholeInOrder
  BY DEF IInv
<1> QED
  BY <1>1, Invariance, PTL

=============================================================================
