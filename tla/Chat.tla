-------------------------------- MODULE Chat ---------------------------------
(***************************************************************************)
(* The Signed Chat (tier5-signed-chat/chat.py): run_chat() publishes the   *)
(* lines typed at the terminal, and beside it listen_for_messages() shows  *)
(* what arrives on chat.global, from a cursor it keeps in memory.          *)
(***************************************************************************)
EXTENDS ChaosManager

CONSTANTS
    ChatBatch,      \* count of consume(): 5 in the code
    MaxMessages,    \* bound: messages on the topic
    ChatRestarts    \* MaxRestartAttempts of app.manifest.json (3 there)

ASSUME ChatAssumption ==
    ChatBatch \in Nat \ {0} /\ MaxMessages \in Nat /\ ChatRestarts \in Nat

VARIABLES
    typing,         \* where run_chat() is
    listening,      \* where the listener is
    inputOpen,      \* the terminal has not reached its end
    chatRuns,       \* how often the chat was started
    topic,          \* chat.global; a message's sequence number is its place
    lastSeq,        \* last_seq of the listener
    shown,          \* what this process has printed
    unshown         \* history: the messages lost because print() raised

chatVars == <<typing, listening, inputOpen, chatRuns, topic, lastSeq, shown, unshown>>

\* A message as the listener sees it: readable with or without a signature, or
\* a payload it cannot decode.
Message == {"signed", "unsigned", "garbled"}
Line == [seq : Nat, verified : BOOLEAN]

ChatUp == typing \in {"reading", "publishing", "leaving", "failing"}

ChatTypeOK ==
    /\ typing \in {"reading", "publishing", "leaving", "failing", "left", "failed"}
    /\ listening \in {"consuming", "sleeping", "ended"}
    /\ inputOpen \in BOOLEAN
    /\ chatRuns \in Nat
    /\ topic \in Seq(Message)
    /\ lastSeq \in Nat
    /\ shown \in Seq(Line)
    /\ unshown \in SUBSET Nat

Started ==
    /\ typing' = "reading"
    /\ listening' = "consuming"
    /\ inputOpen' \in BOOLEAN
    /\ lastSeq' = 0 /\ shown' = <<>> /\ unshown' = {}

ChatInit ==
    /\ typing = "reading"
    /\ listening = "consuming"
    /\ inputOpen = TRUE
    /\ chatRuns = 1
    /\ topic = <<>>
    /\ lastSeq = 0 /\ shown = <<>> /\ unshown = {}

listenerVars == <<listening, lastSeq, shown, unshown>>

-----------------------------------------------------------------------------
(* run_chat() *)

\* A line was typed.  An empty one is read over, and so are those without end
\* that readline() returns once the input is at its end.
LineTyped ==
    /\ typing = "reading" /\ inputOpen
    /\ typing' = "publishing"
    /\ UNCHANGED <<inputOpen, chatRuns, topic, listenerVars>>

InputEnds ==
    /\ typing = "reading" /\ inputOpen
    /\ inputOpen' = FALSE
    /\ UNCHANGED <<typing, chatRuns, topic, listenerVars>>

ExitTyped ==
    /\ typing = "reading" /\ inputOpen
    /\ typing' = "leaving"
    /\ UNCHANGED <<inputOpen, chatRuns, topic, listenerVars>>

\* The platform stores the message, signed by this node.
LineStored ==
    /\ ~storageFault /\ Len(topic) < MaxMessages
    /\ topic' = Append(topic, "signed")

LinePublished ==
    /\ typing = "publishing"
    /\ LineStored
    /\ typing' = "reading"
    /\ UNCHANGED <<inputOpen, chatRuns, listenerVars>>

\* publish() raises, which run_chat() does not catch, the message stored or not.
PublishFails ==
    /\ typing = "publishing"
    /\ LineStored \/ UNCHANGED topic
    /\ typing' = "failing"
    /\ UNCHANGED <<inputOpen, chatRuns, listenerVars>>

\* The context is closed, and asyncio.run() cancels the listener.
ChatCloses ==
    /\ typing \in {"leaving", "failing"}
    /\ typing' = IF typing = "leaving" THEN "left" ELSE "failed"
    /\ listening' = "ended"
    /\ UNCHANGED <<inputOpen, chatRuns, topic, lastSeq, shown, unshown>>

\* Interrupted at the terminal, or killed.
ChatDies ==
    /\ ChatUp
    /\ typing' \in {"left", "failed"}
    /\ listening' = "ended"
    /\ UNCHANGED <<inputOpen, chatRuns, topic, lastSeq, shown, unshown>>

ChatRestart ==
    /\ typing = "failed" /\ chatRuns <= ChatRestarts
    /\ Started
    /\ chatRuns' = chatRuns + 1
    /\ UNCHANGED topic

-----------------------------------------------------------------------------
(* listen_for_messages() *)

\* The messages after lastSeq and up to seq that can be decoded, the lines
\* printed for them, and the place among these of the line for message n.
Readable(seq) == {n \in lastSeq + 1 .. seq : topic[n] # "garbled"}

Place(n, seq) == Cardinality({m \in Readable(seq) : m <= n})

Lines(seq) ==
    [k \in 1 .. Cardinality(Readable(seq)) |->
        LET n == CHOOSE n \in Readable(seq) : Place(n, seq) = k
        IN  [seq |-> n, verified |-> topic[n] = "signed"]]

\* The last message of the batch consume() returns.
BatchEnd == IF lastSeq + ChatBatch < Len(topic) THEN lastSeq + ChatBatch ELSE Len(topic)

\* consume() returns and the loop over the batch, which has no await, runs to
\* its end; an empty batch is slept on.  The topic only grows and the cursor is
\* the listener's own, so the age of the answer makes no difference.
BatchShown ==
    /\ listening = "consuming"
    /\ listening' = IF BatchEnd = lastSeq THEN "sleeping" ELSE "consuming"
    /\ lastSeq' = BatchEnd
    /\ shown' = shown \o Lines(BatchEnd)
    /\ UNCHANGED <<typing, inputOpen, chatRuns, topic, unshown>>

\* Mutation: the cursor is moved to the end of the batch before the loop.
PrintFailsBehindBatch ==
    /\ listening = "consuming"
    /\ \E seq \in lastSeq + 1 .. BatchEnd :
         /\ topic[seq] # "garbled"
         /\ lastSeq' = BatchEnd
         /\ shown' = shown \o Lines(seq - 1)
         /\ unshown' = unshown \cup {seq}
    /\ listening' = "sleeping"
    /\ UNCHANGED <<typing, inputOpen, chatRuns, topic>>

\* Printing a message raises, in print() before its line is out or in the flush
\* or the prompt behind it: the cursor is already at the message, the rest of
\* the batch will be asked for again.
PrintFails ==
    /\ listening = "consuming"
    /\ \E seq \in lastSeq + 1 .. BatchEnd :
         /\ topic[seq] # "garbled"
         /\ lastSeq' = seq
         /\ \/ /\ shown' = shown \o Lines(seq - 1)
               /\ unshown' = unshown \cup {seq}
            \/ /\ shown' = shown \o Lines(seq)
               /\ UNCHANGED unshown
    /\ listening' = "sleeping"
    /\ UNCHANGED <<typing, inputOpen, chatRuns, topic>>

\* Mutation: an exception of consume() ends the listener, unseen by anyone.
ConsumeEndsListener ==
    /\ listening = "consuming"
    /\ listening' = "ended"
    /\ UNCHANGED <<typing, inputOpen, chatRuns, topic, lastSeq, shown, unshown>>

ConsumeRaises ==
    /\ listening = "consuming"
    /\ listening' = "sleeping"
    /\ UNCHANGED <<typing, inputOpen, chatRuns, topic, lastSeq, shown, unshown>>

ListenerWakes ==
    /\ listening = "sleeping"
    /\ listening' = "consuming"
    /\ UNCHANGED <<typing, inputOpen, chatRuns, topic, lastSeq, shown, unshown>>

\* A message of another node comes in by gossip; one of this node that was
\* given up comes in like it.
MessageArrives ==
    /\ ~gossipSuspended /\ ~storageFault /\ Len(topic) < MaxMessages
    /\ \E m \in Message : topic' = Append(topic, m)
    /\ UNCHANGED <<typing, listening, inputOpen, chatRuns, lastSeq, shown, unshown>>

ChatNext ==
    \/ LineTyped \/ InputEnds \/ ExitTyped \/ LinePublished \/ PublishFails
    \/ ChatCloses \/ ChatDies \/ ChatRestart
    \/ BatchShown \/ PrintFails \/ ConsumeRaises \/ ListenerWakes
    \/ MessageArrives

-----------------------------------------------------------------------------
(* What a user of the chat sees. *)

\* The messages up to the cursor are each printed once, in the topic's order
\* and under the badge of their own signature, but for those that cannot be
\* decoded and those lost in print(); an exception in the middle of a batch costs
\* that message at most.
ShownExactly ==
    /\ lastSeq <= Len(topic)
    /\ \A j, k \in DOMAIN shown : j < k => shown[j].seq < shown[k].seq
    /\ \A k \in DOMAIN shown :
          /\ shown[k].seq \in 1 .. lastSeq /\ shown[k].seq \notin unshown
          /\ topic[shown[k].seq] = IF shown[k].verified THEN "signed" ELSE "unsigned"
    /\ \A seq \in 1 .. lastSeq :
          \/ topic[seq] = "garbled" \/ seq \in unshown
          \/ \E k \in DOMAIN shown : shown[k].seq = seq

\* While the chat is up the listener gets to every message in the end, whatever
\* consume() raises, and also when nothing can be typed any more.
MessagesReached ==
    \A n \in 1 .. MaxMessages :
        (Len(topic) >= n /\ ChatUp) ~> (lastSeq >= n \/ ~ChatUp)
=============================================================================
