--------------------------- MODULE ControlChannel ---------------------------
(***************************************************************************)
(* The egress path of a Windows agent (hawcx_haap/egress.py): one placed   *)
(* control channel per process, over which threads ask the broker, one at  *)
(* a time, for a pipe to a host. _PlacedBroker.connect is the operation;   *)
(* _ControlChannel.request is the part of it under the channel's lock.     *)
(*                                                                         *)
(* A reply carries no request id: it belongs to the request just written   *)
(* only while the two sides are in step. Whatever may put them out of step *)
(* retires the channel for the rest of the process.                        *)
(*                                                                         *)
(* The broker is another process, modelled from what egress.py says of it: *)
(* it answers requests in order, late, wrongly or never, and it may go.    *)
(***************************************************************************)
EXTENDS Naturals, Sequences

CONSTANTS Requests,    \* calls of connect, each made by a thread of its own
          Handles,     \* pipe ends the broker can vend: bounds its successes
          NoRequest,
          NotAPipe,    \* a value that names no pipe of this process
          NoHandle,    \* the null handle of a refusal
          Unsendable,  \* the calls whose host or port _mux_request refuses
          Interrupts   \* may an exception raised by a signal end a wait?

ASSUME ChannelAssumption ==
    /\ NoRequest \notin Requests
    /\ NotAPipe \notin Handles
    /\ NoHandle \notin Handles \cup {NotAPipe}
    /\ Unsendable \subseteq Requests
    /\ Interrupts \in BOOLEAN

VARIABLES
    pc,          \* where the thread of each call is
    holder,      \* who holds _lock
    broken,      \* _broken is not None
    outcome,     \* how connect ended
    got,         \* the handle value that request returned
    toBroker,    \* requests written to the channel, not read yet
    fromBroker,  \* replies written to the channel, not read yet
    brokerUp,    \* the broker's end of the channel is open
    owner,       \* for which request the broker vended a handle
    late         \* calls that began after the channel was retired

threadVars == <<pc, outcome, got, late>>
lockVars   == <<holder, broken>>
pipeVars   == <<toBroker, fromBroker, brokerUp, owner>>
vars       == <<threadVars, lockVars, pipeVars>>

\* Ways a call can find the two sides out of step, or the broker out of protocol.
Faults   == {"timeout", "transport", "malformed", "not_a_pipe"}
Outcomes == {"none", "stream", "refused", "retired", "unsendable", "interrupted"} \cup Faults

Values  == Handles \cup {NotAPipe}
Statuses == {"ok", "refusal", "unknown"}
Replies == [status : Statuses, value : Values \cup {NoHandle}]

TypeOK ==
    /\ pc \in [Requests -> {"new", "blocked", "check", "write", "read", "adopt", "done"}]
    /\ holder \in Requests \cup {NoRequest}
    /\ broken \in BOOLEAN
    /\ outcome \in [Requests -> Outcomes]
    /\ got \in [Requests -> Values]
    /\ toBroker \in Seq(Requests)
    /\ fromBroker \in Seq(Replies)
    /\ brokerUp \in BOOLEAN
    /\ owner \in [Handles -> Requests \cup {NoRequest}]
    /\ late \subseteq Requests

\* client() has adopted the placed handle and found it a pipe.
Init ==
    /\ pc = [r \in Requests |-> "new"]
    /\ holder = NoRequest
    /\ broken = FALSE
    /\ outcome = [r \in Requests |-> "none"]
    /\ got = [r \in Requests |-> NotAPipe]
    /\ toBroker = <<>>
    /\ fromBroker = <<>>
    /\ brokerUp = TRUE
    /\ owner = [h \in Handles |-> NoRequest]
    /\ late = {}

-----------------------------------------------------------------------------
(* The threads.                                                            *)

\* connect ends with an exception or a stream.
Finish(r, how) == /\ pc' = [pc EXCEPT ![r] = "done"]
                  /\ outcome' = [outcome EXCEPT ![r] = how]

\* An exception that leaves the body of `with self._lock`.
Raise(r, how) == Finish(r, how) /\ holder' = NoRequest

NoRetire  == UNCHANGED broken     \* mutant: the channel is kept after a failure
RetireAll == broken' = TRUE       \* mutant: a refusal retires the channel too

\* _retire: nothing will be asked on this channel again.
Retire == broken' = TRUE
\* A complete, well-formed refusal leaves the channel in step.
InStep == UNCHANGED broken

\* _mux_request validates the host and the port before the channel is touched.
Begin(r) ==
    /\ pc[r] = "new"
    /\ IF r \in Unsendable
         THEN Finish(r, "unsendable")
         ELSE pc' = [pc EXCEPT ![r] = "blocked"] /\ UNCHANGED outcome
    /\ late' = IF broken THEN late \cup {r} ELSE late
    /\ UNCHANGED <<got, lockVars, pipeVars>>

\* threading.Lock has no deadline and promises no order.
Acquire(r) ==
    /\ pc[r] = "blocked" /\ holder = NoRequest
    /\ holder' = r
    /\ pc' = [pc EXCEPT ![r] = "check"]
    /\ UNCHANGED <<outcome, got, late, broken, pipeVars>>

IgnoreRetired == FALSE            \* mutant: request() does not look at _broken
Retired       == broken

RefuseRetired(r) ==
    /\ pc[r] = "check" /\ Retired
    /\ Raise(r, "retired")
    /\ UNCHANGED <<got, late, broken, pipeVars>>

Proceed(r) ==
    /\ pc[r] = "check" /\ ~Retired
    /\ pc' = [pc EXCEPT ![r] = "write"]
    /\ UNCHANGED <<outcome, got, late, lockVars, pipeVars>>

Write(r) ==
    /\ pc[r] = "write" /\ brokerUp
    /\ toBroker' = Append(toBroker, r)
    /\ pc' = [pc EXCEPT ![r] = "read"]
    /\ UNCHANGED <<outcome, got, late, lockVars, fromBroker, brokerUp, owner>>

AnyOk(f)  == f.status = "ok"      \* mutant: an OK without a handle passes
\* _parse_mux_reply and _is_refusal: what the six bytes of a reply may say.
Vended(f)  == f.status = "ok" /\ f.value # NoHandle
Refusal(f) == f.status = "refusal" /\ f.value = NoHandle

Readable(r) == pc[r] = "read" /\ fromBroker # <<>>

\* The lock is released before connect looks at the handle.
ReadOk(r) ==
    /\ Readable(r) /\ Vended(Head(fromBroker))
    /\ got' = [got EXCEPT ![r] = Head(fromBroker).value]
    /\ fromBroker' = Tail(fromBroker)
    /\ pc' = [pc EXCEPT ![r] = "adopt"]
    /\ holder' = NoRequest
    /\ UNCHANGED <<outcome, late, broken, toBroker, brokerUp, owner>>

\* Denied, busy, vend failed or requester refused: no handle, and in step.
ReadRefusal(r) ==
    /\ Readable(r) /\ Refusal(Head(fromBroker))
    /\ fromBroker' = Tail(fromBroker)
    /\ Raise(r, "refused")
    /\ InStep
    /\ UNCHANGED <<got, late, toBroker, brokerUp, owner>>

\* OK without a handle, a refusal with one, a status nobody knows.
ReadMalformed(r) ==
    /\ Readable(r) /\ ~Vended(Head(fromBroker)) /\ ~Refusal(Head(fromBroker))
    /\ fromBroker' = Tail(fromBroker)
    /\ Raise(r, "malformed")
    /\ Retire
    /\ UNCHANGED <<got, late, toBroker, brokerUp, owner>>

\* sendall failed, or recv met the end of the channel before six bytes.
TransportError(r) ==
    /\ ~brokerUp
    /\ pc[r] = "write" \/ (pc[r] = "read" /\ fromBroker = <<>>)
    /\ Raise(r, "transport")
    /\ Retire
    /\ UNCHANGED <<got, late, pipeVars>>

DeadlineIgnored(r) == FALSE       \* mutant: settimeout stores what recv ignores
DeadlineFires(r)   == pc[r] = "write" \/ (pc[r] = "read" /\ fromBroker = <<>>)

\* The overlapped transfer was cancelled at its deadline.
Timeout(r) ==
    /\ brokerUp /\ DeadlineFires(r)
    /\ Raise(r, "timeout")
    /\ Retire
    /\ UNCHANGED <<got, late, pipeVars>>

\* An exception that is neither a TimeoutError nor an OSError, such as a
\* KeyboardInterrupt between sendall and recv, is in no except arm of request.
Interrupt(r) ==
    /\ Interrupts /\ pc[r] \in {"write", "read"}
    /\ Raise(r, "interrupted")
    /\ UNCHANGED <<got, late, broken, pipeVars>>

Adopt(r) ==
    /\ pc[r] = "adopt" /\ got[r] \in Handles
    /\ Finish(r, "stream")
    /\ UNCHANGED <<got, late, lockVars, pipeVars>>

\* connect retires the channel itself here, and holds no lock while it does.
RejectValue(r) ==
    /\ pc[r] = "adopt" /\ got[r] = NotAPipe
    /\ Finish(r, "not_a_pipe")
    /\ Retire
    /\ UNCHANGED <<got, late, holder, pipeVars>>

-----------------------------------------------------------------------------
(* The broker.                                                             *)

Answer(status, value) ==
    /\ brokerUp /\ toBroker # <<>>
    /\ toBroker' = Tail(toBroker)
    /\ fromBroker' = Append(fromBroker, [status |-> status, value |-> value])
    /\ UNCHANGED <<threadVars, lockVars, brokerUp>>

\* The broker dialled the host and duplicated a fresh pipe end into the process.
\* A broker out of protocol may send any status with the handle.
Vend(h) ==
    /\ owner[h] = NoRequest
    /\ \E status \in Statuses : Answer(status, h)
    /\ owner' = [owner EXCEPT ![h] = Head(toBroker)]

\* It refuses, answers out of protocol, or names something that is no pipe.
AnswerNoHandle ==
    /\ \E status \in Statuses, value \in {NotAPipe, NoHandle} : Answer(status, value)
    /\ UNCHANGED owner

BrokerGoes ==
    /\ brokerUp
    /\ brokerUp' = FALSE
    /\ UNCHANGED <<threadVars, lockVars, toBroker, fromBroker, owner>>

-----------------------------------------------------------------------------
\* What a thread does once its call has begun, without help.
ThreadStep(r) ==
    \/ Acquire(r) \/ RefuseRetired(r) \/ Proceed(r) \/ Write(r)
    \/ ReadOk(r) \/ ReadRefusal(r) \/ ReadMalformed(r)
    \/ TransportError(r) \/ Timeout(r)
    \/ Adopt(r) \/ RejectValue(r)

BrokerStep == (\E h \in Handles : Vend(h)) \/ AnswerNoHandle \/ BrokerGoes

Next ==
    \/ \E r \in Requests : Begin(r) \/ ThreadStep(r) \/ Interrupt(r)
    \/ BrokerStep

Spec == Init /\ [][Next]_vars

\* Every thread is scheduled and every deadline fires; the broker owes nothing.
FairSpec == Spec /\ \A r \in Requests : WF_vars(ThreadStep(r))

-----------------------------------------------------------------------------
(* Properties.                                                             *)

\* The stream that connect returns leads where its caller asked: the broker vended
\* it for this very request, and not for an earlier one whose reply came late.
OwnChannel == \A r \in Requests :
                outcome[r] = "stream" => owner[got[r]] = r

\* As long as the channel is in use no vended pipe is forgotten: the request it was
\* vended for holds it, or is about to read the reply that names it. (A pipe nobody
\* knows of would keep the broker's connection open for the life of the process.)
NoOrphan == ~broken =>
    \A h \in Handles : owner[h] # NoRequest =>
        LET r == owner[h] IN pc[r] = "read" \/ got[r] = h

\* A call that begins after the channel was retired never touches it, even though
\* connect retires it without the lock: it is refused.
LateFailsClosed == \A r \in late :
    /\ pc[r] \in {"blocked", "check", "done"}
    /\ outcome[r] \in {"none", "retired", "unsendable"}

\* Retiring costs the agent its egress, so nothing else does it: a channel is
\* retired only by a call that found it out of step or the broker out of protocol.
RetiredForCause == broken => \E r \in Requests : outcome[r] \in Faults

\* Every call ends, however the broker behaves, behind however many others it waits.
CallEnds == \A r \in Requests : pc[r] = "blocked" ~> pc[r] = "done"
=============================================================================
