----------------------------- MODULE NodeClient -----------------------------
(***************************************************************************)
(* The Node client (node/src/ipc.ts: FrameReader, connectAssembler,        *)
(* AssemblerClient; node/src/agent.ts: HawcxAgent) under the event loop.   *)
(*                                                                         *)
(* One thread runs everything, so a callback is atomic, but calls that     *)
(* were started without awaiting each other interleave at every await: the *)
(* write's callback, and the read that waits for a frame. The socket's     *)
(* data, error, end and close events come in between.                      *)
(*                                                                         *)
(* Bytes are abstracted: a frame is in the buffer when its last byte is.   *)
(* A frame whose length field is zero or too large is "bad"; it stays at   *)
(* the head of the buffer, so what follows it on the stream is never read  *)
(* and the model ends the stream there.                                    *)
(***************************************************************************)
EXTENDS Naturals, Sequences

CONSTANTS Calls,      \* invocations of invoke
          Answers,    \* invocations of sendClarificationAnswer
          Handshake,  \* the exchange connect makes
          NoRequest,
          OneShot,    \* the Assembler serves one frame per connection
          Failures    \* the Assembler may die and send what it should not

Requests == Calls \cup Answers \cup {Handshake}

ASSUME NodeAssumption ==
    /\ NoRequest \notin Requests
    /\ Handshake \notin Calls \cup Answers
    /\ Calls \cap Answers = {}
    /\ OneShot \in BOOLEAN /\ Failures \in BOOLEAN

VARIABLES
    phase,      \* of the agent: connecting, open, closed
    pc,         \* where each request is
    outcome,    \* how it ended
    replyTo,    \* the request whose frame it was given
    writing,    \* writes whose callback is still to come
    buffer,     \* FrameReader.buffer: complete frames, the last one may be bad
    waiters,    \* FrameReader.waiters
    closed,     \* FrameReader.closed
    destroyed,  \* sock.destroy() was called, its close event is still to come
    asmUp,      \* the Assembler's end of the connection is open
    toAsm,      \* requests written, not read by the Assembler yet
    wire        \* frames written by the Assembler, not received yet

callVars   == <<phase, pc, outcome, replyTo>>
readerVars == <<buffer, waiters, closed>>
sockVars   == <<destroyed, asmUp, toAsm, wire>>
vars       == <<callVars, writing, readerVars, sockVars>>

Outcomes == {"none", "answered", "unexpected", "illegal", "closed", "write_failed", "written"}
Frames   == [to : Requests, kind : {"verdict", "junk", "bad"}]

TypeOK ==
    /\ phase \in {"new", "handshake", "open", "closed", "failed"}
    /\ pc \in [Requests -> {"new", "sent", "failing", "reading", "done"}]
    /\ outcome \in [Requests -> Outcomes]
    /\ replyTo \in [Requests -> Requests \cup {NoRequest}]
    /\ writing \in Seq(Requests)
    /\ buffer \in Seq(Frames)
    /\ waiters \in Seq(Requests)
    /\ closed \in BOOLEAN
    /\ destroyed \in BOOLEAN
    /\ asmUp \in BOOLEAN
    /\ toAsm \in Seq(Requests)
    /\ wire \in Seq(Frames)

Init ==
    /\ phase = "new"
    /\ pc = [r \in Requests |-> "new"]
    /\ outcome = [r \in Requests |-> "none"]
    /\ replyTo = [r \in Requests |-> NoRequest]
    /\ writing = <<>>
    /\ buffer = <<>> /\ waiters = <<>> /\ closed = FALSE
    /\ destroyed = FALSE /\ asmUp = TRUE
    /\ toAsm = <<>> /\ wire = <<>>

-----------------------------------------------------------------------------
(* FrameReader.                                                            *)

\* How a read ends that is given frame f: the message type decides.
Reading(f) == CASE f.kind = "verdict" -> "answered"
                [] f.kind = "junk"    -> "unexpected"
                [] f.kind = "bad"     -> "illegal"

HasBad(buf) == buf # <<>> /\ buf[Len(buf)].kind = "bad"
\* The frames that can be taken off the buffer.
Whole(buf)  == IF HasBad(buf) THEN Len(buf) - 1 ELSE Len(buf)

\* drain: while there are waiters, the head waiter gets the head frame. At a bad
\* frame every waiter is rejected, and the frame stays.
Drain(buf, ws) ==
    LET taken == IF Whole(buf) < Len(ws) THEN Whole(buf) ELSE Len(ws)
        ended == IF HasBad(buf) THEN Len(ws) ELSE taken
        frame == [i \in 1..ended |-> buf[IF i <= taken THEN i ELSE Len(buf)]]
        Nth(r) == CHOOSE i \in 1..ended : ws[i] = r
        Gets(r) == \E i \in 1..ended : ws[i] = r
    IN  /\ pc' = [r \in Requests |-> IF Gets(r) THEN "done"
                                     ELSE IF \E i \in 1..Len(ws) : ws[i] = r THEN "reading"
                                     ELSE pc[r]]
        /\ outcome' = [r \in Requests |-> IF Gets(r) THEN Reading(frame[Nth(r)]) ELSE outcome[r]]
        /\ replyTo' = [r \in Requests |-> IF Gets(r) THEN frame[Nth(r)].to ELSE replyTo[r]]
        /\ buffer' = SubSeq(buf, taken + 1, Len(buf))
        /\ waiters' = SubSeq(ws, ended + 1, Len(ws))

Finish(r, how) == /\ pc' = [pc EXCEPT ![r] = "done"]
                  /\ outcome' = [outcome EXCEPT ![r] = how]

Prepend(r) == <<r>> \o waiters    \* mutant: the last to wait is served first
Enqueue(r) == Append(waiters, r)

\* A mutant: read() only queues, and leaves a frame that is already there.
QueueOnly(r) == /\ pc' = [pc EXCEPT ![r] = "reading"]
                /\ waiters' = Enqueue(r)
                /\ UNCHANGED <<outcome, replyTo, buffer>>
Await(r) == Drain(buffer, Enqueue(r))

\* read(): a closed reader rejects whatever its buffer holds.
Read(r) ==
    IF closed THEN Finish(r, "closed") /\ UNCHANGED <<replyTo, readerVars>>
              ELSE Await(r) /\ UNCHANGED closed

Reject(how) ==
    LET Waits(r) == \E i \in 1..Len(waiters) : waiters[i] = r
    IN  /\ pc' = [r \in Requests |-> IF Waits(r) THEN "done" ELSE pc[r]]
        /\ outcome' = [r \in Requests |-> IF Waits(r) THEN how ELSE outcome[r]]
        /\ waiters' = <<>>

ForgetWaiters == UNCHANGED <<pc, outcome, waiters>>   \* mutant: onClose rejects nobody
RejectNull    == Reject("null")                       \* mutant: onClose(null) has no error
RejectWaiters == Reject("closed")

\* onClose, the first time.
CloseReader ==
    /\ ~closed /\ closed' = TRUE
    /\ RejectWaiters
    /\ UNCHANGED <<phase, replyTo, writing, buffer>>

-----------------------------------------------------------------------------
(* connect, invoke, sendClarificationAnswer, close.                        *)

\* connectAssembler: the path is checked, the socket connects before the timer.
Connect ==
    /\ phase = "new"
    /\ phase' \in {"handshake", "failed"}
    /\ UNCHANGED <<pc, outcome, replyTo, writing, readerVars, sockVars>>

MayWrite(r) == pc[r] = "new" /\ phase = (IF r = Handshake THEN "handshake" ELSE "open")

\* The kernel takes the frame, or the write is bound to fail: the peer is gone, the
\* socket was ended or destroyed. Either way the callback comes later.
Write(r) ==
    /\ MayWrite(r)
    /\ IF asmUp /\ ~closed /\ ~destroyed
         THEN pc' = [pc EXCEPT ![r] = "sent"] /\ toAsm' = Append(toAsm, r)
         ELSE pc' = [pc EXCEPT ![r] = "failing"] /\ UNCHANGED toAsm
    /\ writing' = Append(writing, r)
    /\ UNCHANGED <<phase, outcome, replyTo, readerVars, destroyed, asmUp, wire>>

\* Node runs the callbacks of a stream's writes in the order of the writes.
Callback(r) == writing # <<>> /\ r = Head(writing) /\ writing' = Tail(writing)

\* The write's callback without an error. An answer ends here; a call goes on to read.
WriteDone(r) ==
    /\ Callback(r) /\ pc[r] = "sent"
    /\ IF r \in Answers THEN Finish(r, "written") /\ UNCHANGED <<replyTo, readerVars>>
                        ELSE Read(r)
    /\ UNCHANGED <<phase, sockVars>>

\* The callback with an error. The stream destroys itself, and with it the writes
\* still in its queue.
WriteFails(r) ==
    /\ Callback(r) /\ (pc[r] = "failing" \/ destroyed)
    /\ pc' = [q \in Requests |-> IF q = r THEN "done"
                                 ELSE IF pc[q] = "sent" THEN "failing" ELSE pc[q]]
    /\ outcome' = [outcome EXCEPT ![r] = "write_failed"]
    /\ destroyed' = TRUE
    /\ UNCHANGED <<phase, replyTo, readerVars, asmUp, toAsm, wire>>

\* The rest of connect, once its read is settled: version and role are right, or
\* the socket is destroyed.
HandshakeSettled ==
    /\ phase = "handshake" /\ pc[Handshake] = "done"
    /\ IF outcome[Handshake] = "answered"
         THEN phase' = "open" /\ UNCHANGED destroyed
         ELSE phase' = "failed" /\ destroyed' = TRUE
    /\ UNCHANGED <<pc, outcome, replyTo, writing, readerVars, asmUp, toAsm, wire>>

\* agent.close(). Requests under way go on; new ones throw.
Close ==
    /\ phase = "open"
    /\ phase' = "closed" /\ destroyed' = TRUE
    /\ UNCHANGED <<pc, outcome, replyTo, writing, readerVars, asmUp, toAsm, wire>>

-----------------------------------------------------------------------------
(* The socket's events.                                                    *)

Connected == phase \notin {"new"} /\ ~destroyed

\* A chunk that completes n frames.
OnData(n) ==
    /\ Connected /\ ~closed
    /\ n \in 1..Len(wire)
    /\ Drain(buffer \o SubSeq(wire, 1, n), waiters)
    /\ wire' = SubSeq(wire, n + 1, Len(wire))
    /\ UNCHANGED <<phase, writing, closed, destroyed, asmUp, toAsm>>

OnEnd ==
    /\ Connected /\ ~asmUp /\ wire = <<>>
    /\ CloseReader
    /\ UNCHANGED sockVars

\* A reset loses what was not received, and destroys the socket.
OnError ==
    /\ Connected /\ ~asmUp
    /\ CloseReader
    /\ wire' = <<>> /\ destroyed' = TRUE
    /\ UNCHANGED <<asmUp, toAsm>>

OnClose ==
    /\ destroyed
    /\ CloseReader
    /\ UNCHANGED sockVars

-----------------------------------------------------------------------------
(* The Assembler.                                                          *)

\* It answers frames in their order; an answer to a clarification gets no reply.
Serve ==
    /\ asmUp /\ toAsm # <<>>
    /\ LET r == Head(toAsm) IN
         \E kind \in IF Failures THEN {"verdict", "junk", "bad"} ELSE {"verdict"} :
           /\ wire' = IF r \in Answers THEN wire ELSE Append(wire, [to |-> r, kind |-> kind])
           /\ asmUp' = ~(kind = "bad" \/ (OneShot /\ r # Handshake))
    /\ toAsm' = Tail(toAsm)
    /\ UNCHANGED <<callVars, writing, readerVars, destroyed>>

AssemblerGoes ==
    /\ Failures /\ asmUp
    /\ asmUp' = FALSE
    /\ UNCHANGED <<callVars, writing, readerVars, destroyed, toAsm, wire>>

-----------------------------------------------------------------------------
\* What the event loop does once calls are made.
LoopStep ==
    \/ \E r \in Requests : WriteDone(r) \/ WriteFails(r)
    \/ Write(Handshake) \/ HandshakeSettled
    \/ (\E n \in 1..Len(wire) : OnData(n)) \/ OnEnd \/ OnError \/ OnClose

Next ==
    \/ Connect \/ (\E r \in Calls \cup Answers : Write(r)) \/ Close
    \/ LoopStep
    \/ Serve \/ AssemblerGoes

Spec == Init /\ [][Next]_vars

\* The event loop runs. Nothing is assumed of the Assembler, or of the caller.
FairSpec == Spec /\ WF_vars(LoopStep)

-----------------------------------------------------------------------------
(* Properties.                                                             *)

\* No call is told the verdict of another, even when calls are not awaited one by one.
OwnReply == \A r \in Requests :
              outcome[r] \in {"answered", "unexpected"} => replyTo[r] = r

\* Nobody waits for a frame that is there: no waiter on a reader with a frame in its
\* buffer, and none on a closed reader.
NoLostWakeup == waiters # <<>> => buffer = <<>> /\ ~closed

\* Once the connection is over, at either end, every request under way is settled.
Over == phase # "new" /\ (~asmUp \/ destroyed)
EndSettles == \A r \in Requests :
                Over /\ pc[r] \in {"sent", "failing", "reading"} ~> pc[r] = "done"
=============================================================================
