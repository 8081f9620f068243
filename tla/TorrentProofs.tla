---------------------------- MODULE TorrentProofs ----------------------------
(***************************************************************************)
(* What TLAPS proves of Torrent: for any number of chunks and any windows. *)
(***************************************************************************)
EXTENDS Torrent, SequenceTheorems, TLAPS

-----------------------------------------------------------------------------
(* The inductive invariant, in parts. *)

\* Before the call is opened nothing has happened on it.
BeforeInv ==
    /\ call = "none" <=> main \in {"waiting", "ready"}
    /\ call = "none" => /\ sent = 0 /\ chunkCount = 0 /\ totalAcks = 0
                        /\ up = <<>> /\ down = <<>>
                        /\ reader = "none" /\ handler = "none"

\* Neither stream holds more than its window, and the handler owes one ack at
\* most, also when it has failed and the client does not know yet.
WindowInv ==
    call = "open" => /\ Len(up) <= Window /\ Len(down) <= Window
                     /\ totalAcks + Len(down) \in {chunkCount - 1, chunkCount}

\* What the end of one task says of the others.
EndInv ==
    /\ main \in {"awaitReader", "done"} => sent = Chunks
    /\ main = "done" => reader = "ended"
    /\ reader = "ended" => /\ handler \in {"returned", "errored"}
                           /\ handler = "returned" => totalAcks = Chunks
    /\ handler = "returned" => sent = Chunks /\ chunkCount = Chunks

IInv == TypeOK /\ BeforeInv /\ WindowInv /\ EndInv /\ StreamsExact /\ InFlightBounded

-----------------------------------------------------------------------------
(* The streams. *)

\* A stream of consecutive numbers, as StreamsExact writes it down.
Consecutive(s, first) == s = [k \in 1 .. Len(s) |-> first + k - 1]

LEMMA ConsecutiveElements ==
  ASSUME NEW S, NEW s \in Seq(S), NEW first \in Nat
  PROVE  Consecutive(s, first) <=> \A k \in 1 .. Len(s) : s[k] = first + k - 1
  BY LenProperties DEF Consecutive

\* The writer appends the next number.
LEMMA ConsecutiveAppend ==
  ASSUME NEW S, NEW s \in Seq(S), NEW first \in Nat, NEW x \in S,
         Consecutive(s, first), x = first + Len(s)
  PROVE  Consecutive(Append(s, x), first)
  <1>1. /\ Append(s, x) \in Seq(S) /\ Len(Append(s, x)) = Len(s) + 1 /\ Len(s) \in Nat
        /\ \A k \in 1 .. Len(s) : Append(s, x)[k] = s[k]
        /\ Append(s, x)[Len(s) + 1] = x
    OBVIOUS
  <1>2. \A k \in 1 .. Len(s) : s[k] = first + k - 1
    BY ConsecutiveElements
  <1>3. \A k \in 1 .. Len(Append(s, x)) : Append(s, x)[k] = first + k - 1
    BY <1>1, <1>2
  <1> QED
    BY <1>1, <1>3, ConsecutiveElements

\* The reader takes the first.
LEMMA ConsecutiveTail ==
  ASSUME NEW S, NEW s \in Seq(S), NEW first \in Nat, s # <<>>, Consecutive(s, first)
  PROVE  Consecutive(Tail(s), first + 1)
  <1>1. /\ Tail(s) \in Seq(S) /\ Len(Tail(s)) = Len(s) - 1
        /\ Len(s) \in Nat /\ Len(s) >= 1
        /\ \A k \in 1 .. Len(s) - 1 : Tail(s)[k] = s[k + 1]
    OBVIOUS
  <1>2. \A k \in 1 .. Len(s) : s[k] = first + k - 1
    BY ConsecutiveElements
  <1>3. \A k \in 1 .. Len(Tail(s)) : Tail(s)[k] = (first + 1) + k - 1
    BY <1>1, <1>2
  <1>4. first + 1 \in Nat
    OBVIOUS
  <1> QED
    BY <1>1, <1>3, <1>4, ConsecutiveElements

\* StreamsExact in terms of Consecutive.
LEMMA StreamsAre ==
  StreamsExact <=>
    (call = "open" =>
        /\ chunkCount + Len(up) = sent
        /\ Consecutive(up, chunkCount)
        /\ Consecutive(down, totalAcks)
        /\ handler \in {"reading", "returned"} => totalAcks + Len(down) = chunkCount
        /\ handler = "acking" =>
              totalAcks + Len(down) = chunkCount - 1 /\ chunk = chunkCount - 1)
  BY DEF StreamsExact, Consecutive

\* The types in the form the steps use them.
LEMMA Types ==
  ASSUME TypeOK
  PROVE  /\ sent \in Nat /\ chunkCount \in Nat /\ totalAcks \in Nat
         /\ sent <= Chunks /\ chunkCount <= Chunks /\ totalAcks <= Chunks
         /\ up \in Seq(0 .. Chunks - 1) /\ down \in Seq(0 .. Chunks - 1)
         /\ Len(up) \in Nat /\ Len(down) \in Nat
         /\ Chunks \in Nat /\ Window \in Nat /\ Chunks >= 1 /\ Window >= 1
  BY TorrentAssumption DEF TypeOK

-----------------------------------------------------------------------------
(* The invariant is inductive. *)

LEMMA InitInv == Init => IInv
  <1> SUFFICES ASSUME Init PROVE IInv
    OBVIOUS
  <1>1. <<>> \in Seq(0 .. Chunks - 1) /\ Len(<<>>) = 0
    BY EmptySeq
  <1>2. TypeOK
    BY <1>1, TorrentAssumption DEF Init, TypeOK
  <1>3. BeforeInv /\ WindowInv /\ EndInv /\ StreamsExact
    BY DEF Init, BeforeInv, WindowInv, EndInv, StreamsExact
  <1>4. InFlightBounded
    BY TorrentAssumption DEF Init, InFlightBounded
  <1> QED
    BY <1>2, <1>3, <1>4 DEF IInv

LEMMA OpenCallStep == IInv /\ OpenCall => IInv'
  <1> SUFFICES ASSUME IInv, OpenCall PROVE IInv'
    OBVIOUS
  <1>1. /\ sent = 0 /\ chunkCount = 0 /\ totalAcks = 0 /\ up = <<>> /\ down = <<>>
        /\ handler = "none" /\ call = "none" /\ Len(<<>>) = 0
    BY DEF IInv, BeforeInv, OpenCall
  <1>2. TypeOK'
    BY <1>1 DEF IInv, TypeOK, OpenCall
  <1>3. BeforeInv' /\ EndInv'
    BY <1>1 DEF OpenCall, BeforeInv, EndInv
  <1>4. WindowInv' /\ InFlightBounded'
    BY <1>1, TorrentAssumption DEF OpenCall, WindowInv, InFlightBounded
  <1>5. StreamsExact'
    <2>1. up' = <<>> /\ down' = <<>> /\ chunkCount' = 0 /\ totalAcks' = 0 /\ sent' = 0
      BY <1>1 DEF OpenCall
    <2>2. handler' \in {"none", "reading"}
      BY <1>1 DEF OpenCall
    <2> QED
      BY <1>1, <2>1, <2>2 DEF StreamsExact
  <1> QED
    BY <1>2, <1>3, <1>4, <1>5 DEF IInv

LEMMA WriteChunkStep == IInv /\ WriteChunk => IInv'
  <1> SUFFICES ASSUME IInv, WriteChunk PROVE IInv'
    OBVIOUS
  <1>1. /\ sent < Chunks /\ call = "open" /\ call' = "open" /\ Len(up) < Window
        /\ up' = Append(up, sent) /\ sent' = sent + 1 /\ main = "writing" /\ reader = "reading"
        /\ UNCHANGED <<registered, main, reader, totalAcks, handler, chunkCount, chunk, down, call>>
    BY DEF WriteChunk, workerVars
  <1>2. /\ sent \in Nat /\ up \in Seq(0 .. Chunks - 1) /\ Len(up) \in Nat
        /\ Chunks \in Nat /\ Window \in Nat /\ chunkCount \in Nat /\ totalAcks \in Nat
        /\ Len(down) \in Nat
    BY Types DEF IInv
  <1>3. /\ sent \in 0 .. Chunks - 1
        /\ up' \in Seq(0 .. Chunks - 1) /\ Len(up') = Len(up) + 1
    BY <1>1, <1>2
  <1>4. TypeOK'
    BY <1>1, <1>2, <1>3 DEF IInv, TypeOK
  <1>5. BeforeInv' /\ EndInv'
    BY <1>1, <1>2 DEF IInv, BeforeInv, EndInv
  <1>6. WindowInv'
    BY <1>1, <1>2, <1>3 DEF IInv, WindowInv
  <1>7. /\ chunkCount + Len(up) = sent
        /\ Consecutive(up, chunkCount) /\ Consecutive(down, totalAcks)
        /\ handler \in {"reading", "returned"} => totalAcks + Len(down) = chunkCount
        /\ handler = "acking" =>
              totalAcks + Len(down) = chunkCount - 1 /\ chunk = chunkCount - 1
    BY <1>1, StreamsAre DEF IInv
  <1>8. Consecutive(up, chunkCount)'
    BY <1>1, <1>2, <1>3, <1>7, ConsecutiveAppend
  <1>9. StreamsExact'
    BY <1>1, <1>2, <1>3, <1>7, <1>8, StreamsAre DEF StreamsExact, Consecutive
  <1>10. InFlightBounded'
    BY <1>1, <1>2, <1>3, <1>7, <1>6 DEF IInv, WindowInv, InFlightBounded
  <1> QED
    BY <1>4, <1>5, <1>6, <1>9, <1>10 DEF IInv

LEMMA ReadAckStep == IInv /\ ReadAck => IInv'
  <1> SUFFICES ASSUME IInv, ReadAck PROVE IInv'
    OBVIOUS
  <1>1. /\ reader = "reading" /\ down # <<>> /\ call = "open" /\ call' = "open"
        /\ totalAcks' = totalAcks + 1 /\ down' = Tail(down)
        /\ UNCHANGED <<registered, main, sent, reader, handler, chunkCount, chunk, up, call>>
    BY DEF ReadAck, workerVars
  <1>2. /\ sent \in Nat /\ down \in Seq(0 .. Chunks - 1) /\ Len(up) \in Nat /\ Len(down) \in Nat
        /\ Chunks \in Nat /\ Window \in Nat /\ chunkCount \in Nat /\ totalAcks \in Nat
        /\ chunkCount <= Chunks
    BY Types DEF IInv
  <1>3. /\ down' \in Seq(0 .. Chunks - 1) /\ Len(down') = Len(down) - 1 /\ Len(down) >= 1
    BY <1>1, <1>2
  <1>4. /\ chunkCount + Len(up) = sent
        /\ Consecutive(up, chunkCount) /\ Consecutive(down, totalAcks)
        /\ handler \in {"reading", "returned"} => totalAcks + Len(down) = chunkCount
        /\ handler = "acking" =>
              totalAcks + Len(down) = chunkCount - 1 /\ chunk = chunkCount - 1
        /\ totalAcks + Len(down) \in {chunkCount - 1, chunkCount}
    BY <1>1, StreamsAre DEF IInv, WindowInv
  <1>5. totalAcks' \in 0 .. Chunks
    BY <1>1, <1>2, <1>3, <1>4
  <1>6. TypeOK'
    BY <1>1, <1>3, <1>5 DEF IInv, TypeOK
  <1>7. BeforeInv' /\ EndInv'
    BY <1>1, <1>2 DEF IInv, BeforeInv, EndInv
  <1>8. /\ totalAcks' + Len(down') = totalAcks + Len(down)
        /\ up' = up /\ sent' = sent /\ chunkCount' = chunkCount /\ handler' = handler
        /\ chunk' = chunk
    BY <1>1, <1>2, <1>3
  <1>12. Len(up') <= Window /\ Len(down') <= Window
    BY <1>1, <1>2, <1>3 DEF IInv, WindowInv
  <1>13. WindowInv'
    BY <1>4, <1>8, <1>12 DEF WindowInv
  <1>9. Consecutive(down, totalAcks)'
    BY <1>1, <1>2, <1>4, ConsecutiveTail
  <1>10. StreamsExact'
    BY <1>1, <1>4, <1>8, <1>9 DEF StreamsExact, Consecutive
  <1>11. InFlightBounded'
    BY <1>1, <1>2 DEF IInv, InFlightBounded
  <1> QED
    BY <1>6, <1>7, <1>10, <1>11, <1>13 DEF IInv

LEMMA ReceiveStep == IInv /\ Receive => IInv'
  <1> SUFFICES ASSUME IInv, Receive PROVE IInv'
    OBVIOUS
  <1>1. /\ handler = "reading" /\ handler' = "acking" /\ up # <<>>
        /\ call = "open" /\ call' = "open"
        /\ chunkCount' = chunkCount + 1 /\ chunk' = Head(up) /\ up' = Tail(up)
        /\ UNCHANGED <<registered, main, sent, reader, totalAcks, down, call>>
    BY DEF Receive, clientVars
  <1>2. /\ sent \in Nat /\ up \in Seq(0 .. Chunks - 1) /\ Len(up) \in Nat /\ Len(down) \in Nat
        /\ Chunks \in Nat /\ Window \in Nat /\ chunkCount \in Nat /\ totalAcks \in Nat
        /\ sent <= Chunks
    BY Types DEF IInv
  <1>3. /\ up' \in Seq(0 .. Chunks - 1) /\ Len(up') = Len(up) - 1 /\ Len(up) >= 1
    BY <1>1, <1>2
  <1>4. /\ chunkCount + Len(up) = sent
        /\ Consecutive(up, chunkCount) /\ Consecutive(down, totalAcks)
        /\ totalAcks + Len(down) = chunkCount
    BY <1>1, StreamsAre DEF IInv
  <1>5. chunkCount' \in 0 .. Chunks
    BY <1>1, <1>2, <1>3, <1>4
  <1>14. chunk' = chunkCount /\ chunk' \in 0 .. Chunks - 1
    <2>1. chunk' = up[1] /\ 1 \in 1 .. Len(up)
      BY <1>1, <1>2, <1>3
    <2>2. \A k \in 1 .. Len(up) : up[k] = chunkCount + k - 1
      BY <1>2, <1>4, ConsecutiveElements
    <2> QED
      BY <2>1, <2>2, <1>2, <1>3, <1>4
  <1>6. TypeOK'
    BY <1>1, <1>3, <1>5, <1>14 DEF IInv, TypeOK
  <1>7. BeforeInv' /\ EndInv'
    BY <1>1, <1>2 DEF IInv, BeforeInv, EndInv
  <1>8. /\ totalAcks' + Len(down') = chunkCount' - 1
        /\ chunkCount' + Len(up') = sent'
        /\ down' = down /\ totalAcks' = totalAcks
    BY <1>1, <1>2, <1>3, <1>4
  <1>15. chunk' = chunkCount' - 1
    BY <1>1, <1>2, <1>14
  <1>12. Len(up') <= Window /\ Len(down') <= Window
    BY <1>1, <1>2, <1>3 DEF IInv, WindowInv
  <1>13. WindowInv'
    BY <1>8, <1>12 DEF WindowInv
  <1>9. Consecutive(up, chunkCount)'
    BY <1>1, <1>2, <1>4, ConsecutiveTail
  <1>10. StreamsExact'
    BY <1>1, <1>4, <1>8, <1>9, <1>15 DEF StreamsExact, Consecutive
  <1>11. InFlightBounded'
    BY <1>1, <1>2 DEF IInv, InFlightBounded
  <1> QED
    BY <1>6, <1>7, <1>10, <1>11, <1>13 DEF IInv

LEMMA SendAckStep == IInv /\ SendAck => IInv'
  <1> SUFFICES ASSUME IInv, SendAck PROVE IInv'
    OBVIOUS
  <1>1. /\ handler = "acking" /\ handler' = "reading" /\ call = "open" /\ call' = "open"
        /\ Len(down) < Window /\ down' = Append(down, chunk)
        /\ UNCHANGED <<registered, main, sent, reader, totalAcks, chunkCount, chunk, up, call>>
    BY DEF SendAck, clientVars
  <1>2. /\ sent \in Nat /\ down \in Seq(0 .. Chunks - 1) /\ Len(up) \in Nat /\ Len(down) \in Nat
        /\ Chunks \in Nat /\ Window \in Nat /\ chunkCount \in Nat /\ totalAcks \in Nat
        /\ chunkCount <= Chunks
    BY Types DEF IInv
  <1>3. /\ chunkCount + Len(up) = sent
        /\ Consecutive(up, chunkCount) /\ Consecutive(down, totalAcks)
        /\ totalAcks + Len(down) = chunkCount - 1 /\ chunk = chunkCount - 1
    BY <1>1, StreamsAre DEF IInv
  <1>4. chunk \in 0 .. Chunks - 1
    BY DEF IInv, TypeOK
  <1>5. down' \in Seq(0 .. Chunks - 1) /\ Len(down') = Len(down) + 1
    BY <1>1, <1>2, <1>4
  <1>6. TypeOK'
    BY <1>1, <1>5 DEF IInv, TypeOK
  <1>7. BeforeInv' /\ EndInv'
    BY <1>1 DEF IInv, BeforeInv, EndInv
  <1>8. WindowInv'
    BY <1>1, <1>2, <1>3, <1>5 DEF IInv, WindowInv
  <1>9. Consecutive(down, totalAcks)'
    BY <1>1, <1>2, <1>3, <1>4, ConsecutiveAppend
  <1>10. StreamsExact'
    BY <1>1, <1>2, <1>3, <1>5, <1>9 DEF StreamsExact, Consecutive
  <1>11. InFlightBounded'
    BY <1>1, <1>2 DEF IInv, InFlightBounded
  <1> QED
    BY <1>6, <1>7, <1>8, <1>10, <1>11 DEF IInv

\* The steps that move no chunk and no ack.
LEMMA QuietStep ==
  ASSUME IInv, UNCHANGED <<sent, totalAcks, chunkCount, chunk, up, down>>,
         TypeOK', BeforeInv', EndInv',
         call' = "open" => /\ call = "open"
                           /\ handler' \in {"reading", "returned", "acking"} =>
                                \/ handler' = handler
                                \/ handler' = "returned" /\ handler = "reading"
  PROVE  IInv'
  <1>1. InFlightBounded'
    BY DEF IInv, InFlightBounded
  <1>2. WindowInv'
    BY DEF IInv, WindowInv
  <1>3. StreamsExact'
    BY DEF IInv, StreamsExact
  <1> QED
    BY <1>1, <1>2, <1>3 DEF IInv

LEMMA QuietSteps ==
  ASSUME IInv,
         \/ Register \/ WaitForServiceReady \/ WriteFails \/ CompleteStream \/ ReaderEnds
         \/ Finish \/ EndOfStream \/ HandlerFails \/ Break \/ UNCHANGED vars
  PROVE  IInv'
  <1> USE DEF clientVars, workerVars
  <1>0. TypeOK /\ BeforeInv /\ EndInv /\ StreamsExact
    BY DEF IInv
  <1>1. CASE Register \/ WaitForServiceReady \/ UNCHANGED vars
    <2>1. TypeOK' /\ BeforeInv' /\ EndInv'
      BY <1>0, <1>1 DEF Register, WaitForServiceReady, vars, TypeOK, BeforeInv, EndInv
    <2>2. UNCHANGED <<sent, totalAcks, chunkCount, chunk, up, down, call, handler>>
      BY <1>1 DEF Register, WaitForServiceReady, vars
    <2> QED
      BY <2>1, <2>2, QuietStep
  <1>2. CASE WriteFails \/ Break
    <2>1. TypeOK' /\ BeforeInv' /\ EndInv'
      BY <1>0, <1>2 DEF WriteFails, Break, TypeOK, BeforeInv, EndInv
    <2>2. UNCHANGED <<sent, totalAcks, chunkCount, chunk, up, down, handler>> /\ call' = "broken"
      BY <1>2 DEF WriteFails, Break
    <2> QED
      BY <2>1, <2>2, QuietStep
  <1>3. CASE CompleteStream
    <2>1. TypeOK' /\ BeforeInv' /\ EndInv'
      BY <1>0, <1>3 DEF CompleteStream, TypeOK, BeforeInv, EndInv
    <2>2. UNCHANGED <<sent, totalAcks, chunkCount, chunk, up, down, handler, call>>
      BY <1>3 DEF CompleteStream
    <2> QED
      BY <2>1, <2>2, QuietStep
  <1>4. CASE ReaderEnds
    <2>1. TypeOK' /\ BeforeInv'
      BY <1>0, <1>4 DEF ReaderEnds, TypeOK, BeforeInv
    <2>2. UNCHANGED <<sent, totalAcks, chunkCount, chunk, up, down, handler, call, main>>
      BY <1>4 DEF ReaderEnds
    <2>3. reader' = "ended" /\ handler = "returned" => totalAcks = Chunks
      <3>1. SUFFICES ASSUME reader' = "ended", handler = "returned"
                     PROVE  totalAcks = Chunks
        OBVIOUS
      <3>2. call = "open" /\ down = <<>> /\ Len(<<>>) = 0
        BY <3>1, <1>4 DEF ReaderEnds
      <3>3. totalAcks + 0 = chunkCount /\ chunkCount = Chunks
        BY <3>1, <3>2, <1>0 DEF StreamsExact, EndInv
      <3> QED
        BY <3>3, <1>0 DEF TypeOK
    <2>4. EndInv'
      BY <1>0, <1>4, <2>2, <2>3 DEF ReaderEnds, EndInv
    <2> QED
      BY <2>1, <2>2, <2>4, QuietStep
  <1>5. CASE Finish
    <2>1. TypeOK' /\ BeforeInv' /\ EndInv'
      BY <1>0, <1>5 DEF Finish, TypeOK, BeforeInv, EndInv
    <2>2. UNCHANGED <<sent, totalAcks, chunkCount, chunk, up, down, handler>> /\ call' = "broken"
      BY <1>5 DEF Finish
    <2> QED
      BY <2>1, <2>2, QuietStep
  <1>6. CASE EndOfStream
    <2>1. TypeOK' /\ BeforeInv'
      BY <1>0, <1>6 DEF EndOfStream, TypeOK, BeforeInv
    <2>2. /\ UNCHANGED <<sent, totalAcks, chunkCount, chunk, up, down, call, main, reader>>
          /\ handler = "reading" /\ handler' = "returned" /\ call = "open"
          /\ main = "awaitReader" /\ up = <<>> /\ Len(<<>>) = 0
      BY <1>6 DEF EndOfStream
    <2>3. sent = Chunks /\ chunkCount + 0 = sent
      BY <2>2, <1>0 DEF EndInv, StreamsExact
    <2>4. EndInv'
      BY <2>2, <2>3, <1>0, Types DEF EndInv
    <2> QED
      BY <2>1, <2>2, <2>4, QuietStep
  <1>7. CASE HandlerFails
    <2>1. TypeOK' /\ BeforeInv' /\ EndInv'
      BY <1>0, <1>7 DEF HandlerFails, TypeOK, BeforeInv, EndInv
    <2>2. /\ UNCHANGED <<sent, totalAcks, chunkCount, chunk, up, down, call>>
          /\ handler' \in {"errored", "cancelled"}
      BY <1>7 DEF HandlerFails
    <2> QED
      BY <2>1, <2>2, QuietStep
  <1> QED
    BY <1>1, <1>2, <1>3, <1>4, <1>5, <1>6, <1>7

LEMMA NextInv == IInv /\ [Next]_vars => IInv'
  BY OpenCallStep, WriteChunkStep, ReadAckStep, ReceiveStep, SendAckStep, QuietSteps
     DEF Next, Client, Reader, Handler

-----------------------------------------------------------------------------
(* Theorems. *)

\* The three tasks and the two streams fit together in every state.
THEOREM Invariant == Spec => []IInv
  BY InitInv, NextInv, PTL DEF Spec

\* Every variable of client, worker and streams keeps its type; in particular
\* no count exceeds the number of chunks.
THEOREM TypeCorrect == Spec => []TypeOK
  BY Invariant, PTL DEF IInv

\* No chunk and no ack is lost, repeated or out of order while the call stands.
THEOREM StreamsAreExact == Spec => []StreamsExact
  BY Invariant, PTL DEF IInv

\* The client is ahead of its acks by the two windows and the chunk in hand at
\* most, however many chunks there are.
THEOREM InFlightIsBounded == Spec => []InFlightBounded
  BY Invariant, PTL DEF IInv

\* A completed torrent was written whole, and acknowledged whole unless the
\* handler failed.
THEOREM CompletedIsAcked == Spec => []CompletedMeansAcked
  <1>1. IInv => CompletedMeansAcked
    BY DEF IInv, EndInv, CompletedMeansAcked
  <1> QED
    BY <1>1, Invariant, PTL
=============================================================================
