------------------------------- MODULE Torrent ------------------------------
(***************************************************************************)
(* The telemetry torrent (tier4-telemetry-torrent): Main and the read task *)
(* of TorrentClient, the registration and the handler StreamData of        *)
(* TorrentWorker, and the HTTP/2 stream between them, whose flow control   *)
(* lets Window messages lie unread in each direction.  The connection may  *)
(* break, and the handler may fail while the connection stands.            *)
(***************************************************************************)
EXTENDS Naturals, Sequences

CONSTANTS
    Chunks,         \* totalChunks (512 in the code)
    Window          \* messages one direction of the stream holds unread

ASSUME TorrentAssumption == Chunks \in Nat \ {0} /\ Window \in Nat \ {0}

VARIABLES
    registered,     \* the worker's registration with the grid
    main,           \* where the client's Main is
    sent,           \* chunks written; the next one is chunk sent
    reader,         \* readTask
    totalAcks,      \* totalAcks
    handler,        \* StreamData in the worker
    chunkCount,     \* chunkCount
    chunk,          \* the ChunkId of chunk, the loop variable of StreamData
    up,             \* chunks on the request stream
    down,           \* acks on the response stream
    call            \* the call: "none", "open", "refused", "broken"

clientVars == <<main, sent, reader, totalAcks>>
workerVars == <<handler, chunkCount, chunk>>
vars == <<registered, clientVars, workerVars, up, down, call>>

TypeOK ==
    /\ registered \in {"pending", "yes", "failed"}
    /\ main \in {"waiting", "ready", "writing", "awaitReader", "done", "failed"}
    /\ reader \in {"none", "reading", "ended", "faulted"}
    /\ handler \in {"none", "reading", "acking", "returned", "errored", "cancelled"}
    /\ call \in {"none", "open", "refused", "broken"}
    /\ sent \in 0 .. Chunks /\ chunkCount \in 0 .. Chunks /\ totalAcks \in 0 .. Chunks
    /\ chunk \in 0 .. Chunks - 1
    /\ up \in Seq(0 .. Chunks - 1) /\ down \in Seq(0 .. Chunks - 1)

Init ==
    /\ registered = "pending"
    /\ main = "waiting" /\ sent = 0
    /\ reader = "none" /\ totalAcks = 0
    /\ handler = "none" /\ chunkCount = 0 /\ chunk = 0
    /\ up = <<>> /\ down = <<>>
    /\ call = "none"

Over == {"returned", "errored", "cancelled"}    \* StreamData has ended

-----------------------------------------------------------------------------
(* Registration and readiness. *)

\* The worker registers once; a failure is logged and never tried again.
Register ==
    /\ registered = "pending"
    /\ registered' \in {"yes", "failed"}
    /\ UNCHANGED <<clientVars, workerVars, up, down, call>>

\* WaitForServiceReadyAsync() returns when the service is listed, or after 90
\* seconds without it.
WaitForServiceReady ==
    /\ main = "waiting"
    /\ main' = "ready"
    /\ UNCHANGED <<registered, sent, reader, totalAcks, workerVars, up, down, call>>

\* Main opens the call, through the proxy that knows registered services, and
\* starts readTask.
OpenCall ==
    /\ main = "ready"
    /\ main' = "writing"
    /\ reader' = "reading"
    /\ IF registered = "yes"
         THEN call' = "open" /\ handler' = "reading"
         ELSE call' = "refused" /\ UNCHANGED handler
    /\ UNCHANGED <<registered, sent, totalAcks, chunkCount, chunk, up, down>>

-----------------------------------------------------------------------------
(* The client: Main and readTask run at the same time. *)

\* Mutation: the flow control of the request stream is not waited for.
WriteUnthrottled ==
    /\ main = "writing" /\ sent < Chunks
    /\ call = "open" /\ reader = "reading"
    /\ up' = Append(up, sent)
    /\ sent' = sent + 1
    /\ UNCHANGED <<registered, main, reader, totalAcks, workerVars, down, call>>

\* WriteAsync() returns when the stream has room, and even when StreamData is
\* over, as long as the client has not heard of it.
WriteChunk ==
    /\ main = "writing" /\ sent < Chunks
    /\ call = "open" /\ reader = "reading"
    /\ Len(up) < Window
    /\ up' = Append(up, sent)
    /\ sent' = sent + 1
    /\ UNCHANGED <<registered, main, reader, totalAcks, workerVars, down, call>>

\* WriteAsync() or CompleteAsync() raises: the call is no more.  Main ends on
\* the exception, and the process with it.
WriteFails ==
    /\ main = "writing"
    /\ call # "open" \/ handler \in Over
    /\ main' = "failed"
    /\ call' = "broken"
    /\ UNCHANGED <<registered, sent, reader, totalAcks, workerVars, up, down>>

\* Mutation: the stream is completed one chunk early.
CompleteEarly ==
    /\ main = "writing" /\ sent = Chunks - 1
    /\ call = "open"
    /\ main' = "awaitReader"
    /\ UNCHANGED <<registered, sent, reader, totalAcks, workerVars, up, down, call>>

CompleteStream ==
    /\ main = "writing" /\ sent = Chunks
    /\ call = "open"
    /\ main' = "awaitReader"
    /\ UNCHANGED <<registered, sent, reader, totalAcks, workerVars, up, down, call>>

\* Mutation: acks are read only when every chunk is written.
ReadAckLate ==
    /\ reader = "reading" /\ down # <<>> /\ call = "open"
    /\ main = "awaitReader"
    /\ totalAcks' = totalAcks + 1
    /\ down' = Tail(down)
    /\ UNCHANGED <<registered, main, sent, reader, workerVars, up, call>>

ReadAck ==
    /\ reader = "reading" /\ down # <<>> /\ call = "open"
    /\ totalAcks' = totalAcks + 1
    /\ down' = Tail(down)
    /\ UNCHANGED <<registered, main, sent, reader, workerVars, up, call>>

\* The response stream ends: with status OK after the last ack when StreamData
\* returned, were it by its catch block; with an exception, which readTask
\* does not catch, when the call was cancelled, refused or cut.
ReaderEnds ==
    /\ reader = "reading"
    /\ \/ /\ call = "open" /\ handler \in {"returned", "errored"} /\ down = <<>>
          /\ reader' = "ended"
       \/ /\ call \in {"refused", "broken"} \/ handler = "cancelled"
          /\ reader' = "faulted"
    /\ UNCHANGED <<registered, main, sent, totalAcks, workerVars, up, down, call>>

\* Main awaits readTask and reports what it has counted, or ends on its fault.
Finish ==
    /\ main = "awaitReader" /\ reader \in {"ended", "faulted"}
    /\ main' = IF reader = "ended" THEN "done" ELSE "failed"
    /\ call' = "broken"
    /\ UNCHANGED <<registered, sent, reader, totalAcks, workerVars, up, down>>

-----------------------------------------------------------------------------
(* The worker: StreamData. *)

\* Mutation: the handler reads on before the ack is written.
ReceiveUnacked ==
    /\ handler = "reading" /\ up # <<>> /\ call = "open"
    /\ chunkCount' = chunkCount + 1 /\ chunk' = Head(up)
    /\ up' = Tail(up)
    /\ down' = IF Len(down) < Window THEN Append(down, Head(up)) ELSE down
    /\ UNCHANGED <<registered, clientVars, handler, call>>

Receive ==
    /\ handler = "reading" /\ up # <<>> /\ call = "open"
    /\ chunkCount' = chunkCount + 1 /\ chunk' = Head(up)
    /\ up' = Tail(up)
    /\ handler' = "acking"
    /\ UNCHANGED <<registered, clientVars, down, call>>

\* Mutation: the ack carries the count, not the id of the chunk.
SendAckCount ==
    /\ handler = "acking" /\ call = "open"
    /\ Len(down) < Window
    /\ down' = Append(down, chunkCount)
    /\ handler' = "reading"
    /\ UNCHANGED <<registered, clientVars, chunkCount, chunk, up, call>>

\* WriteAsync() of the ack returns when the stream has room; the ack bears the id
\* of the chunk in hand.
SendAck ==
    /\ handler = "acking" /\ call = "open"
    /\ Len(down) < Window
    /\ down' = Append(down, chunk)
    /\ handler' = "reading"
    /\ UNCHANGED <<registered, clientVars, chunkCount, chunk, up, call>>

\* The request stream is complete and read to its end.
EndOfStream ==
    /\ handler = "reading" /\ up = <<>> /\ call = "open"
    /\ main = "awaitReader"
    /\ handler' = "returned"
    /\ UNCHANGED <<registered, clientVars, chunkCount, chunk, up, down, call>>

\* A read or a write raises.  What is not a cancellation is logged, and
\* StreamData returns as if it had read everything.
HandlerFails ==
    /\ handler \in {"reading", "acking"}
    /\ handler' \in IF call = "open" THEN {"errored"} ELSE {"errored", "cancelled"}
    /\ UNCHANGED <<registered, clientVars, chunkCount, chunk, up, down, call>>

\* The connection, or the proxy on its way, goes.
Break ==
    /\ call = "open"
    /\ call' = "broken"
    /\ UNCHANGED <<registered, clientVars, workerVars, up, down>>

Client == WriteChunk \/ WriteFails \/ CompleteStream \/ Finish
Reader == ReadAck \/ ReaderEnds
Handler == Receive \/ SendAck \/ EndOfStream

Next ==
    \/ Register \/ WaitForServiceReady \/ OpenCall
    \/ Client \/ Reader \/ Handler
    \/ HandlerFails \/ Break

(* Fairness: every task that can go on does, and the worker hears of a call  *)
(* that is gone.  The wait for readiness has a deadline.                    *)
Spec == Init /\ [][Next]_vars
             /\ WF_vars(WaitForServiceReady \/ OpenCall)
             /\ WF_vars(Client) /\ WF_vars(Reader) /\ WF_vars(Handler)
             /\ WF_vars(call = "broken" /\ HandlerFails)

-----------------------------------------------------------------------------
(* Properties. *)

\* No chunk and no ack is lost, repeated or out of order while the call stands:
\* those on the way, the one in hand and those read account for each other, and
\* the next ack is always for the chunk the client has counted acks up to.
StreamsExact ==
    call = "open" =>
        /\ chunkCount + Len(up) = sent
        /\ up = [k \in 1 .. Len(up) |-> chunkCount + k - 1]
        /\ down = [k \in 1 .. Len(down) |-> totalAcks + k - 1]
        /\ handler \in {"reading", "returned"} => totalAcks + Len(down) = chunkCount
        /\ handler = "acking" =>
              totalAcks + Len(down) = chunkCount - 1 /\ chunk = chunkCount - 1

\* Nobody buffers the stream: however many chunks there are, the client is
\* ahead of its acks by what the two windows hold and the chunk in hand.
InFlightBounded == sent - totalAcks <= 2 * Window + 1

\* A torrent reported as completed was written whole, and acknowledged whole
\* unless the handler failed: its failure reaches the client as a normal end.
CompletedMeansAcked ==
    main = "done" => /\ sent = Chunks
                     /\ totalAcks = Chunks \/ handler = "errored"

\* Client and worker never wait for each other for good, each with a full
\* stream before it: the client always comes to an end.
TorrentEnds == <>(main \in {"done", "failed"})
=============================================================================
