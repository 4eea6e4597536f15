--------------------------- MODULE AssemblerClient --------------------------
(***************************************************************************)
(* The Python SDK's client of the Assembler (hawcx_haap/ipc.py), from      *)
(* HawcxAgent.connect to HawcxAgent.close: dialling, the handshake, one    *)
(* tool call at a time, the re-dial of a spent connection, the tool-call   *)
(* deadline and the one-way clarification answer.                          *)
(*                                                                         *)
(* The Assembler is another program. It is modelled from what ipc.py says  *)
(* of it: it serves ONE frame per accepted connection and then drops the   *)
(* stream, it may stall, and it may die and come back at any point.        *)
(*                                                                         *)
(* A connection is a Unix stream socket. Data written before the peer      *)
(* closed can still be read; a write to a closed peer raises               *)
(* BrokenPipeError; a read that finds the peer gone and nothing buffered   *)
(* raises IpcError("... closed connection ...") or ConnectionResetError.   *)
(***************************************************************************)
EXTENDS Naturals, Sequences

CONSTANTS Requests,     \* tool calls, one per request_id
          Answers,      \* clarification answers, one per send_clarification_answer
          Conns,        \* connections that can be dialled: bounds the dials
          NoRequest, NoConn,
          Oversized,    \* the calls whose frame exceeds MAX_MESSAGE_SIZE
          MaxCrashes,   \* bounds the crashes of the Assembler
          Interrupts    \* may an exception raised by a signal end a wait?

ASSUME ConstantsAssumption ==
    /\ NoRequest \notin Requests
    /\ NoConn \notin Conns
    /\ Requests \cap Answers = {}
    /\ Oversized \subseteq Requests
    /\ MaxCrashes \in Nat
    /\ Interrupts \in BOOLEAN

VARIABLES
    \* The client's own state.
    agent,        \* HawcxAgent: no handle yet, a handle, or closed by its user
    pc,           \* where the one thread of the caller is
    cur,          \* the call being made, NoRequest while connecting
    attempt,      \* 1, or 2 in an except arm of invoke
    sock,         \* AssemblerClient._sock
    fresh,        \* the socket connect() is opening
    needsRedial,  \* AssemblerClient._needs_redial
    \* The connections.
    cliOpen,      \* the connections whose client end is open
    asm,          \* what the Assembler does with the connection
    serving,      \* the call the Assembler serves on it
    inbox,        \* frames written by the client, not read yet
    outbox,       \* frames written by the Assembler, not read yet
    \* The Assembler process.
    up, crashes,
    \* What happened to each call and each clarification answer.
    outcome,      \* how invoke ended
    replyTo,      \* the call that the frame returned by invoke was a reply to
    sent,         \* how often the request frame was written
    runs,         \* how often the Assembler ran the tool
    verdict,      \* the verdict frame the Assembler wrote, if any
    lost,         \* calls being served when the Assembler died
    answer        \* how send_clarification_answer ended, and "delivered"

clientVars == <<agent, pc, cur, attempt, sock, fresh, needsRedial>>
netVars    == <<cliOpen, asm, serving, inbox, outbox>>
procVars   == <<up, crashes>>
callVars   == <<outcome, replyTo, sent, runs, verdict, lost>>
vars       == <<clientVars, netVars, procVars, callVars, answer>>

Outcomes == {"new", "pending", "answered", "rejected", "timeout",
             "ipc_error", "os_error", "bad_fd", "interrupted"}
AsmStates == {"none", "backlog", "ready", "busy", "ran", "replied", "closed"}

CallFrame(r)   == [type |-> "call", id |-> r]
AnswerFrame(a) == [type |-> "answer", id |-> a]
Handshake      == [type |-> "handshake", id |-> NoRequest]
BadHandshake   == [type |-> "bad_handshake", id |-> NoRequest]
Junk           == [type |-> "junk", id |-> NoRequest]
Reply(how, r)  == [type |-> how, id |-> r]

Replies    == [type : {"response", "rejected"}, id : Requests]
ToAsm      == [type : {"call"}, id : Requests] \cup [type : {"answer"}, id : Answers]
ToClient   == {Handshake, BadHandshake, Junk} \cup Replies

ClientType ==
    /\ agent \in {"none", "open", "closed"}
    /\ pc \in {"idle", "dial", "handshake", "write", "read"}
    /\ cur \in Requests \cup {NoRequest}
    /\ attempt \in {1, 2}
    /\ sock \in Conns \cup {NoConn}
    /\ fresh \in Conns \cup {NoConn}
    /\ needsRedial \in BOOLEAN

NetType ==
    /\ cliOpen \subseteq Conns
    /\ asm \in [Conns -> AsmStates]
    /\ serving \in [Conns -> Requests \cup {NoRequest}]
    /\ inbox \in [Conns -> Seq(ToAsm)]
    /\ outbox \in [Conns -> Seq(ToClient)]
    /\ up \in BOOLEAN
    /\ crashes \in 0..MaxCrashes

CallType ==
    /\ outcome \in [Requests -> Outcomes]
    /\ replyTo \in [Requests -> Requests \cup {NoRequest}]
    /\ sent \in [Requests -> Nat]
    /\ runs \in [Requests -> Nat]
    /\ verdict \in [Requests -> {"none", "response", "rejected"}]
    /\ lost \subseteq Requests
    /\ answer \in [Answers -> {"new", "sent", "raised", "delivered"}]

TypeOK == ClientType /\ NetType /\ CallType

Init ==
    /\ agent = "none"
    /\ pc = "idle"
    /\ cur = NoRequest
    /\ attempt = 1
    /\ sock = NoConn
    /\ fresh = NoConn
    /\ needsRedial = FALSE
    /\ cliOpen = {}
    /\ asm = [c \in Conns |-> "none"]
    /\ serving = [c \in Conns |-> NoRequest]
    /\ inbox = [c \in Conns |-> <<>>]
    /\ outbox = [c \in Conns |-> <<>>]
    /\ up \in BOOLEAN
    /\ crashes = 0
    /\ outcome = [r \in Requests |-> "new"]
    /\ replyTo = [r \in Requests |-> NoRequest]
    /\ sent = [r \in Requests |-> 0]
    /\ runs = [r \in Requests |-> 0]
    /\ verdict = [r \in Requests |-> "none"]
    /\ lost = {}
    /\ answer = [a \in Answers |-> "new"]

-----------------------------------------------------------------------------
(* Effects that several actions share.                                     *)

\* sock.close(): the end is gone, and with it what was not read from it.
Close(c) == /\ cliOpen' = cliOpen \ {c}
            /\ outbox' = [outbox EXCEPT ![c] = <<>>]

\* invoke() ends: it returns a response or raises.
Return(how) == /\ pc' = "idle"
               /\ cur' = NoRequest
               /\ attempt' = 1
               /\ outcome' = [outcome EXCEPT ![cur] = how]

\* _reconnect() up to its call of connect(): the old socket is closed first.
Redial(a) == /\ pc' = "dial"
             /\ attempt' = a
             /\ Close(sock)

\* Only the first attempt's failure is answered by a re-dial.
RetryAlways == TRUE     \* mutant: every lost connection is retried
MayRetry    == attempt = 1

\* connect() raised: out of HawcxAgent.connect, or out of the invoke that
\* re-dials. _sock and _needs_redial keep their values.
ConnectRaises == IF cur = NoRequest
                   THEN pc' = "idle" /\ UNCHANGED <<cur, attempt, outcome>>
                   ELSE Return("ipc_error")

\* The request frame can be written only to a connection whose two ends are
\* open; otherwise the write raises OSError(EBADF) or BrokenPipeError.
PeerGone(c) == asm[c] = "closed"

-----------------------------------------------------------------------------
(* The client: HawcxAgent and AssemblerClient.                             *)

Connect ==
    /\ agent = "none" /\ pc = "idle"
    /\ pc' = "dial"
    /\ UNCHANGED <<agent, cur, attempt, sock, fresh, needsRedial, netVars,
                   procVars, callVars, answer>>

\* connect(2) succeeds as soon as the socket is bound: its backlog accepts a
\* connection nobody is behind yet.
DialOk(c) ==
    /\ pc = "dial" /\ asm[c] = "none"
    /\ pc' = "handshake"
    /\ fresh' = c
    /\ asm' = [asm EXCEPT ![c] = "backlog"]
    /\ cliOpen' = cliOpen \cup {c}
    /\ UNCHANGED <<agent, cur, attempt, sock, needsRedial, serving, inbox, outbox,
                   procVars, callVars, answer>>

\* The socket is absent or refuses, or the path or the peer fails validation.
DialFail ==
    /\ pc = "dial"
    /\ ConnectRaises
    /\ UNCHANGED <<agent, sock, fresh, needsRedial, netVars, procVars, replyTo,
                   sent, runs, verdict, lost, answer>>

HandshakeArrived(c) == outbox[c] # <<>> /\ Head(outbox[c]) = Handshake

\* The peer's handshake arrived and names the Assembler's role: connect()
\* returns, or _reconnect() installs the fresh socket and invoke writes on it.
HandshakeOk ==
    /\ pc = "handshake"
    /\ HandshakeArrived(fresh)
    /\ outbox' = [outbox EXCEPT ![fresh] = Tail(@)]
    /\ sock' = fresh
    /\ fresh' = NoConn
    /\ needsRedial' = FALSE
    /\ agent' = "open"
    /\ pc' = IF cur = NoRequest THEN "idle" ELSE "write"
    /\ UNCHANGED <<cur, attempt, cliOpen, asm, serving, inbox, procVars, callVars, answer>>

\* The deadline passed with no handshake, the peer closed, or what it sent is
\* not the handshake of an Assembler of this major version. The socket is closed.
HandshakeFail ==
    /\ pc = "handshake"
    /\ HandshakeArrived(fresh) => PeerGone(fresh)
    /\ Close(fresh)
    /\ fresh' = NoConn
    /\ ConnectRaises
    /\ UNCHANGED <<agent, sock, needsRedial, asm, serving, inbox, procVars, replyTo,
                   sent, runs, verdict, lost, answer>>

\* HawcxAgent.invoke on an open handle.
Invoke(r) ==
    /\ agent = "open" /\ pc = "idle"
    /\ outcome[r] = "new"
    /\ outcome' = [outcome EXCEPT ![r] = "pending"]
    /\ cur' = r
    /\ IF needsRedial
         THEN Redial(1)
         ELSE pc' = "write" /\ attempt' = 1 /\ UNCHANGED <<cliOpen, outbox>>
    /\ UNCHANGED <<agent, sock, fresh, needsRedial, asm, serving, inbox, procVars,
                   replyTo, sent, runs, verdict, lost, answer>>

\* encode_frame refuses the frame before a byte of it is written.
WriteTooLarge ==
    /\ pc = "write" /\ cur \in Oversized
    /\ Return("ipc_error")
    /\ UNCHANGED <<agent, sock, fresh, needsRedial, netVars, procVars, replyTo, sent,
                   runs, verdict, lost, answer>>

\* The client's own end is closed: OSError(EBADF) is in no except arm.
WriteBadFd ==
    /\ pc = "write" /\ cur \notin Oversized
    /\ sock \notin cliOpen
    /\ Return("bad_fd")
    /\ UNCHANGED <<agent, sock, fresh, needsRedial, netVars, procVars, replyTo, sent,
                   runs, verdict, lost, answer>>

\* The Assembler dropped the stream: BrokenPipeError. The first attempt
\* re-dials; the second one's error reaches the caller.
WriteBrokenPipe ==
    /\ pc = "write" /\ cur \notin Oversized
    /\ sock \in cliOpen /\ PeerGone(sock)
    /\ IF MayRetry
         THEN Redial(attempt + 1) /\ UNCHANGED <<cur, outcome>>
         ELSE Return("os_error") /\ UNCHANGED <<cliOpen, outbox>>
    /\ UNCHANGED <<agent, sock, fresh, needsRedial, asm, serving, inbox, procVars,
                   replyTo, sent, runs, verdict, lost, answer>>

WriteOk ==
    /\ pc = "write" /\ cur \notin Oversized
    /\ sock \in cliOpen /\ ~PeerGone(sock)
    /\ pc' = "read"
    /\ inbox' = [inbox EXCEPT ![sock] = Append(@, CallFrame(cur))]
    /\ sent' = [sent EXCEPT ![cur] = @ + 1]
    /\ UNCHANGED <<agent, cur, attempt, sock, fresh, needsRedial, cliOpen, asm, serving,
                   outbox, procVars, outcome, replyTo, runs, verdict, lost, answer>>

\* read_frame returned a ToolCallResponse, or a RequestRejected, which is raised
\* and never retried. The request_id in the frame is not compared with the call's.
ReadVerdict ==
    /\ pc = "read" /\ outbox[sock] # <<>>
    /\ LET f == Head(outbox[sock]) IN
         /\ f \in Replies
         /\ replyTo' = [replyTo EXCEPT ![cur] = f.id]
         /\ Return(IF f.type = "response" THEN "answered" ELSE "rejected")
    /\ outbox' = [outbox EXCEPT ![sock] = Tail(@)]
    /\ UNCHANGED <<agent, sock, fresh, needsRedial, cliOpen, asm, serving, inbox,
                   procVars, sent, runs, verdict, lost, answer>>

\* A frame of another type, a bad length or a body that does not parse. The
\* socket stays open.
ReadJunk ==
    /\ pc = "read" /\ outbox[sock] # <<>> /\ Head(outbox[sock]) \notin Replies
    /\ Return("ipc_error")
    /\ outbox' = [outbox EXCEPT ![sock] = Tail(@)]
    /\ UNCHANGED <<agent, sock, fresh, needsRedial, cliOpen, asm, serving, inbox,
                   procVars, replyTo, sent, runs, verdict, lost, answer>>

\* mutant: a closed peer is noticed before what it had written is read
ClosedBeforeDrained(c) == PeerGone(c)

\* recv reports the end of the stream only once what was buffered is read.
EndOfStream(c) == outbox[c] = <<>> /\ PeerGone(c)

ReadClosed ==
    /\ pc = "read" /\ EndOfStream(sock)
    /\ IF MayRetry
         THEN Redial(attempt + 1) /\ UNCHANGED <<cur, outcome>>
         ELSE Return("ipc_error") /\ UNCHANGED <<cliOpen, outbox>>
    /\ UNCHANGED <<agent, sock, fresh, needsRedial, asm, serving, inbox, procVars,
                   replyTo, sent, runs, verdict, lost, answer>>

\* mutant: the client as it was before the socket was given up
AbandonKeepsSocket(c) == UNCHANGED <<cliOpen, outbox, needsRedial>>

\* A timed-out call gives up its socket, so that a late reply is read by nobody.
Abandon(c) == Close(c) /\ needsRedial' = TRUE

\* mutant: settimeout stores the deadline and recv ignores it
DeadlineIgnored(c) == FALSE
\* The deadline ends a recv that has nothing to return.
DeadlineFires(c)   == outbox[c] = <<>> /\ ~PeerGone(c)

\* The deadline covers the write too, of a frame the peer does not take.
WriteStalls(c) == cur \notin Oversized /\ c \in cliOpen /\ ~PeerGone(c)

Timeout ==
    /\ \/ pc = "write" /\ WriteStalls(sock)
       \/ pc = "read" /\ DeadlineFires(sock)
    /\ Abandon(sock)
    /\ Return("timeout")
    /\ UNCHANGED <<agent, sock, fresh, asm, serving, inbox, procVars, replyTo, sent,
                   runs, verdict, lost, answer>>

\* Any other exception raised inside recv (a KeyboardInterrupt, a signal
\* handler's own timeout) leaves invoke with the socket as it is.
Interrupt ==
    /\ Interrupts
    /\ pc = "read" /\ outbox[sock] = <<>>
    /\ Return("interrupted")
    /\ UNCHANGED <<agent, sock, fresh, needsRedial, netVars, procVars, replyTo, sent,
                   runs, verdict, lost, answer>>

\* One write, no reply, no re-dial, on whatever socket the last call left.
SendAnswer(a) ==
    /\ agent = "open" /\ pc = "idle" /\ answer[a] = "new"
    /\ IF sock \in cliOpen /\ ~PeerGone(sock)
         THEN /\ inbox' = [inbox EXCEPT ![sock] = Append(@, AnswerFrame(a))]
              /\ answer' = [answer EXCEPT ![a] = "sent"]
         ELSE /\ answer' = [answer EXCEPT ![a] = "raised"]
              /\ UNCHANGED inbox
    /\ UNCHANGED <<clientVars, cliOpen, asm, serving, outbox, procVars, callVars>>

\* HawcxAgent.close: the handle forgets its client, so no call can follow.
CloseAgent ==
    /\ agent = "open" /\ pc = "idle"
    /\ agent' = "closed"
    /\ Close(sock)
    /\ UNCHANGED <<pc, cur, attempt, sock, fresh, needsRedial, asm, serving, inbox,
                   procVars, callVars, answer>>

-----------------------------------------------------------------------------
(* The Assembler, as ipc.py describes it.                                  *)

\* A frame written to a connection the client has closed is read by nobody.
Put(c, f) == outbox' = [outbox EXCEPT ![c] = IF c \in cliOpen THEN Append(@, f) ELSE @]

Accept(c) ==
    /\ up /\ asm[c] = "backlog"
    /\ asm' = [asm EXCEPT ![c] = "ready"]
    /\ \/ Put(c, Handshake)
       \/ Put(c, BadHandshake)
    /\ UNCHANGED <<clientVars, cliOpen, serving, inbox, procVars, callVars, answer>>

\* handle_agent_request reads exactly one frame.
TakeCall(c) ==
    /\ up /\ asm[c] = "ready"
    /\ inbox[c] # <<>> /\ Head(inbox[c]).type = "call"
    /\ asm' = [asm EXCEPT ![c] = "busy"]
    /\ serving' = [serving EXCEPT ![c] = Head(inbox[c]).id]
    /\ inbox' = [inbox EXCEPT ![c] = Tail(@)]
    /\ UNCHANGED <<clientVars, cliOpen, outbox, procVars, callVars, answer>>

TakeAnswer(c) ==
    /\ up /\ asm[c] = "ready"
    /\ inbox[c] # <<>> /\ Head(inbox[c]).type = "answer"
    /\ asm' = [asm EXCEPT ![c] = "replied"]
    /\ answer' = [answer EXCEPT ![Head(inbox[c]).id] = "delivered"]
    /\ inbox' = [inbox EXCEPT ![c] = Tail(@)]
    /\ UNCHANGED <<clientVars, cliOpen, serving, outbox, procVars, callVars>>

\* The tool behind the call runs at the resource server.
Run(c) ==
    /\ up /\ asm[c] = "busy"
    /\ asm' = [asm EXCEPT ![c] = "ran"]
    /\ runs' = [runs EXCEPT ![serving[c]] = @ + 1]
    /\ UNCHANGED <<clientVars, cliOpen, serving, inbox, outbox, procVars, outcome,
                   replyTo, sent, verdict, lost, answer>>

\* The verdict: a refusal without running the tool, or the tool's response.
Answer(c) ==
    /\ up /\ asm[c] \in {"busy", "ran"}
    /\ LET how == IF asm[c] = "ran" THEN "response" ELSE "rejected" IN
         /\ Put(c, Reply(how, serving[c]))
         /\ verdict' = [verdict EXCEPT ![serving[c]] = how]
    /\ asm' = [asm EXCEPT ![c] = "replied"]
    /\ serving' = [serving EXCEPT ![c] = NoRequest]
    /\ UNCHANGED <<clientVars, cliOpen, inbox, procVars, outcome, replyTo, sent, runs,
                   lost, answer>>

\* A frame that is no verdict, such as the fuzz tests send.
AnswerJunk(c) ==
    /\ up /\ asm[c] \in {"busy", "ran"}
    /\ Put(c, Junk)
    /\ asm' = [asm EXCEPT ![c] = "replied"]
    /\ serving' = [serving EXCEPT ![c] = NoRequest]
    /\ UNCHANGED <<clientVars, cliOpen, inbox, procVars, callVars, answer>>

\* The stream is dropped: after its one frame, or when the client is gone.
Drop(c) ==
    /\ up
    /\ \/ asm[c] = "replied"
       \/ asm[c] = "ready" /\ inbox[c] = <<>> /\ c \notin cliOpen
    /\ asm' = [asm EXCEPT ![c] = "closed"]
    /\ inbox' = [inbox EXCEPT ![c] = <<>>]
    /\ UNCHANGED <<clientVars, cliOpen, serving, outbox, procVars, callVars, answer>>

\* The process dies: its connections close, what it had written stays readable,
\* and the calls it was serving get no verdict. A connection in the backlog
\* survives when the supervisor holds the listening socket.
Crash ==
    /\ up /\ crashes < MaxCrashes
    /\ up' = FALSE
    /\ crashes' = crashes + 1
    /\ \E backlogDies \in BOOLEAN :
         asm' = [c \in Conns |->
                   IF asm[c] = "none" \/ (asm[c] = "backlog" /\ ~backlogDies)
                     THEN asm[c] ELSE "closed"]
    /\ lost' = lost \cup {serving[c] : c \in {d \in Conns : asm[d] \in {"busy", "ran"}}}
    /\ serving' = [c \in Conns |-> NoRequest]
    /\ inbox' = [c \in Conns |-> IF asm'[c] = "closed" THEN <<>> ELSE inbox[c]]
    /\ UNCHANGED <<clientVars, cliOpen, outbox, outcome, replyTo, sent, runs, verdict,
                   answer>>

Start ==
    /\ ~up
    /\ up' = TRUE
    /\ UNCHANGED <<clientVars, netVars, crashes, callVars, answer>>

-----------------------------------------------------------------------------
\* The steps of a call that has begun: they need no one but the caller's thread
\* and the operating system's clock.
ClientStep ==
    \/ \E c \in Conns : DialOk(c)
    \/ DialFail \/ HandshakeOk \/ HandshakeFail
    \/ WriteTooLarge \/ WriteBadFd \/ WriteBrokenPipe \/ WriteOk
    \/ ReadVerdict \/ ReadJunk \/ ReadClosed \/ Timeout

\* What the code that holds the handle decides to do, or is made to do.
CallerStep ==
    \/ Connect \/ CloseAgent \/ Interrupt
    \/ \E r \in Requests : Invoke(r)
    \/ \E a \in Answers : SendAnswer(a)

AssemblerStep ==
    \/ \E c \in Conns : \/ Accept(c) \/ TakeCall(c) \/ TakeAnswer(c)
                        \/ Run(c) \/ Answer(c) \/ AnswerJunk(c) \/ Drop(c)
    \/ Crash \/ Start

Next == ClientStep \/ CallerStep \/ AssemblerStep

Spec == Init /\ [][Next]_vars

\* The caller's thread is scheduled and its deadlines fire. Nothing is assumed
\* of the Assembler or of the code that makes the calls.
FairSpec == Spec /\ WF_vars(ClientStep)

-----------------------------------------------------------------------------
(* Properties.                                                             *)

\* A verdict returned to the caller of one tool call is never the verdict of
\* another: neither the late reply to a timed-out call nor the reply to the
\* attempt that a re-dial replaced. invoke compares no request_id, so this rests
\* on which sockets _invoke_once and _reconnect give up.
OwnReply == \A r \in Requests :
              outcome[r] \in {"answered", "rejected"} => replyTo[r] = r

\* Once the Assembler has written a verdict for a call, the call is not written
\* again: "retrying a refusal would turn one denial into two attempts". The
\* re-dial of invoke must not fire while the verdict sits unread in the socket.
VerdictIsFinal == [][\A r \in Requests : verdict[r] # "none" => sent'[r] = sent[r]]_vars

\* The re-dial can make a tool run a second time, but only when the Assembler died
\* while it was serving the call, and never a third time.
RunBound == \A r \in Requests : runs[r] <= (IF r \in lost THEN 2 ELSE 1)

\* Every tool call returns or raises, whatever the Assembler does: no wait of
\* connect or invoke is without a deadline.
CallReturns == \A r \in Requests : outcome[r] = "pending" ~> outcome[r] # "pending"

\* The client keeps the promise of ToolCall: calls one at a time, an answer only
\* if the tool ran, no run after a verdict or an error, at most two runs.
Failures   == {"ipc_error", "os_error", "bad_fd", "interrupted"}
callStatus == [r \in Requests |-> IF outcome[r] \in Failures THEN "failed" ELSE outcome[r]]
Promise    == INSTANCE ToolCall WITH MaxAttempts <- 2, status <- callStatus
KeepsPromise == Promise!Spec

\* "Transparently re-dials once if the connection was already spent" (ipc.py:701):
\* no call on a handle its user left open fails because the client's own socket
\* object is closed. A re-dial that fails in an except arm of invoke leaves _sock
\* closed and _needs_redial FALSE, so this does not hold.
AlwaysRedials == \A r \in Requests : outcome[r] # "bad_fd"
=============================================================================
