------------------------ MODULE AssemblerClientProofs -----------------------
(***************************************************************************)
(* Proofs about AssemblerClient, for every set of calls, answers and       *)
(* connections and every number of crashes of the Assembler.               *)
(***************************************************************************)
EXTENDS AssemblerClient, SequenceTheorems, TLAPS

-----------------------------------------------------------------------------
(* The inductive invariant.                                                *)

\* Who is working on which call: the caller's thread, and the Assembler.
BusyInv ==
    /\ pc = "idle" => cur = NoRequest
    /\ pc \in {"write", "read"} => cur \in Requests
    /\ \A c \in Conns : asm[c] \in {"busy", "ran"} => serving[c] \in Requests

\* A call is pending exactly while the thread works for it, and no call works
\* on a socket that was never installed.
ControlInv ==
    /\ \A r \in Requests : outcome[r] = "pending" <=> cur = r
    /\ agent # "none" => sock \in Conns
    /\ cur # NoRequest => agent # "none"
    /\ pc = "read" => sock \in cliOpen

\* The connection being dialled is not the installed one and is still empty.
FreshInv ==
    pc = "handshake" =>
      /\ fresh \in Conns \ {sock}
      /\ inbox[fresh] = <<>>
      /\ asm[fresh] \in {"backlog", "ready", "closed"}
      /\ outbox[fresh] \in {<<>>, <<Handshake>>, <<BadHandshake>>}
      /\ asm[fresh] = "backlog" => outbox[fresh] = <<>>

\* What each state of the Assembler's end says of the connection.
ConnInv ==
    \A c \in Conns :
      /\ asm[c] = "none" => inbox[c] = <<>> /\ outbox[c] = <<>> /\ c # sock
      /\ c = sock /\ c \in cliOpen => asm[c] # "backlog"

Carries(q, r) == \E i \in 1..Len(q) : q[i] = CallFrame(r)

\* The call may still get a verdict on connection c.
InFlight(r, c) ==
    \/ asm[c] \in {"busy", "ran"} /\ serving[c] = r
    \/ asm[c] \in {"backlog", "ready"} /\ Carries(inbox[c], r)

\* A call in flight has begun, and while it is pending it is in flight on the
\* socket its caller reads and on no other. (The heart of the matter: every
\* other connection that carries it is closed at the Assembler's end.)
FlightInv ==
    \A r \in Requests : \A c \in Conns :
      InFlight(r, c) =>
        /\ outcome[r] # "new"
        /\ outcome[r] = "pending" => c = sock /\ pc = "read"
        /\ c = sock /\ c \in cliOpen => pc = "read" /\ cur = r

\* What the client may find in its socket: nothing, junk, or the verdict of its call.
ReadableNow == \/ outbox[sock] \in {<<>>, <<Junk>>}
               \/ pc = "read" /\ outbox[sock] \in {<<Reply("response", cur)>>, <<Reply("rejected", cur)>>}

\* The open socket holds at most one unread frame, junk or the verdict the
\* caller waits for, and then the Assembler is done with the connection.
ReplyInv ==
    sock \in Conns /\ sock \in cliOpen =>
      /\ ReadableNow
      /\ outbox[sock] # <<>> => asm[sock] \in {"replied", "closed"}

\* A verdict that was written to a call still pending lies unread in the socket.
VerdictInv ==
    \A r \in Requests :
      /\ outcome[r] = "new" => verdict[r] = "none"
      /\ outcome[r] = "pending" /\ verdict[r] # "none" =>
           pc = "read" /\ outbox[sock] # <<>>

IInv == /\ TypeOK /\ BusyInv /\ ControlInv /\ FreshInv /\ ConnInv
        /\ FlightInv /\ ReplyInv /\ VerdictInv /\ OwnReply
        /\ Interrupts = FALSE

\* A call is in flight on one connection at most, and only while its caller waits
\* or after the caller gave up waiting.
OnceInv ==
    \A r \in Requests : \A c \in Conns :
      InFlight(r, c) =>
        /\ outcome[r] \in {"pending", "timeout"}
        /\ \A d \in Conns : InFlight(r, d) => d = c

\* One more run of the call keeps its bound.
MayRun(r) == runs[r] <= (IF r \in lost THEN 1 ELSE 0)

\* The runs of a call, against the attempts of its caller and what the connection
\* tells about the first of them: a second attempt is made only by a caller who
\* found the socket closed and empty, which the Assembler's death alone explains
\* once the tool has run.
CountOf(r) ==
    /\ runs[r] <= 1 \/ (runs[r] <= 2 /\ r \in lost)
    /\ outcome[r] = "new" => runs[r] = 0
    /\ cur = r /\ attempt = 1 =>
         /\ runs[r] <= 1
         /\ pc # "read" => runs[r] = 0
         /\ pc = "read" /\ asm[sock] \in {"backlog", "ready", "busy"} => runs[r] = 0
         /\ pc = "read" /\ asm[sock] \in {"replied", "closed"} /\ outbox[sock] = <<>> => MayRun(r)
    /\ cur = r /\ pc # "read" => MayRun(r)
    /\ \A c \in Conns : InFlight(r, c) /\ asm[c] # "ran" => MayRun(r)
CountInv == \A r \in Requests : CountOf(r)

\* A response is evidence of a run, from the tool to the caller's socket.
EvidenceInv ==
    /\ \A c \in Conns : asm[c] = "ran" => runs[serving[c]] > 0
    /\ pc = "read" /\ outbox[sock] = <<Reply("response", cur)>> => runs[cur] > 0

RunInv == IInv /\ OnceInv /\ CountInv /\ EvidenceInv

-----------------------------------------------------------------------------
\* Frames of the two directions have the shapes TypeOK asks for.
LEMMA FrameTypes ==
    /\ \A r \in Requests : CallFrame(r) \in ToAsm
    /\ \A a \in Answers : AnswerFrame(a) \in ToAsm
    /\ \A r \in Requests : Reply("response", r) \in ToClient /\ Reply("rejected", r) \in ToClient
    /\ Handshake \in ToClient /\ BadHandshake \in ToClient /\ Junk \in ToClient
  BY DEF CallFrame, AnswerFrame, Reply, Handshake, BadHandshake, Junk, ToAsm, ToClient, Replies

\* A frame the Assembler takes from its queue names the call or the answer it carries.
LEMMA FrameIds ==
    ASSUME NEW f \in ToAsm
    PROVE  /\ f.type = "call" => f.id \in Requests /\ f = CallFrame(f.id)
           /\ f.type = "answer" => f.id \in Answers
           /\ \A r \in Requests : f = CallFrame(r) => f.type = "call" /\ f.id = r
  BY DEF ToAsm, CallFrame

\* A verdict frame names the call it answers.
LEMMA ReplyIds ==
    ASSUME NEW f \in Replies
    PROVE  f.id \in Requests
  BY DEF Replies

\* Updating one queue, or one counter, of a family keeps its type.
LEMMA QueueUpdate ==
    ASSUME NEW S, NEW C, NEW q \in [C -> Seq(S)], NEW c
    PROVE  /\ [q EXCEPT ![c] = <<>>] \in [C -> Seq(S)]
           /\ \A f \in S : [q EXCEPT ![c] = Append(@, f)] \in [C -> Seq(S)]
           /\ c \in C /\ q[c] # <<>> => [q EXCEPT ![c] = Tail(@)] \in [C -> Seq(S)]
<1>1. [q EXCEPT ![c] = <<>>] \in [C -> Seq(S)]
  BY EmptySeq
<1>2. ASSUME NEW f \in S PROVE [q EXCEPT ![c] = Append(@, f)] \in [C -> Seq(S)]
  <2>1. CASE c \in C
    <3>1. Append(q[c], f) \in Seq(S)
      BY <2>1, AppendProperties
    <3>. QED  BY <3>1
  <2>2. CASE c \notin C
    BY <2>2
  <2>. QED  BY <2>1, <2>2
<1>3. ASSUME c \in C, q[c] # <<>> PROVE [q EXCEPT ![c] = Tail(@)] \in [C -> Seq(S)]
  BY <1>3, HeadTailProperties
<1>. QED  BY <1>1, <1>2, <1>3

\* Counting one more event keeps a family of counters in its type.
LEMMA CounterUpdate ==
    ASSUME NEW C, NEW n \in [C -> Nat], NEW c
    PROVE  [n EXCEPT ![c] = @ + 1] \in [C -> Nat]
<1>1. CASE c \in C
  BY <1>1
<1>2. CASE c \notin C
  BY <1>2
<1>. QED  BY <1>1, <1>2

\* What the shared effects of the actions do to the types.
LEMMA CloseType ==
    ASSUME NetType, NEW c, Close(c)
    PROVE  cliOpen' \subseteq Conns /\ outbox' \in [Conns -> Seq(ToClient)]
  BY QueueUpdate DEF NetType, Close

\* Writing a frame to the client keeps the queues in their types.
LEMMA PutType ==
    ASSUME NetType, NEW c, NEW f \in ToClient, Put(c, f)
    PROVE  outbox' \in [Conns -> Seq(ToClient)]
<1>1. CASE c \in cliOpen
  <2>1. outbox' = [outbox EXCEPT ![c] = Append(@, f)]
    BY <1>1 DEF Put
  <2>. QED  BY <2>1, QueueUpdate DEF NetType
<1>2. CASE c \notin cliOpen
  BY <1>2 DEF Put, NetType
<1>. QED  BY <1>1, <1>2

\* Every step keeps the types.
LEMMA TypeStep == TypeOK /\ BusyInv /\ [Next]_vars => TypeOK'
<1>. SUFFICES ASSUME TypeOK, BusyInv, [Next]_vars PROVE TypeOK'
  OBVIOUS
<1>. USE ConstantsAssumption DEF clientVars, netVars, procVars, callVars, Outcomes, AsmStates
<1>1. CASE ClientStep
  <2>1. ASSUME NEW c \in Conns, DialOk(c) PROVE TypeOK'
    <3>1. ClientType'
      BY <2>1 DEF TypeOK, ClientType, DialOk
    <3>2. NetType'
      BY <2>1 DEF TypeOK, ClientType, NetType, DialOk
    <3>3. CallType'
      BY <2>1 DEF TypeOK, ClientType, CallType, DialOk
    <3>. QED  BY <3>1, <3>2, <3>3 DEF TypeOK
  <2>2. CASE DialFail
    <3>1. ClientType'
      BY <2>2 DEF TypeOK, ClientType, DialFail, ConnectRaises, Return
    <3>2. NetType'
      BY <2>2 DEF TypeOK, ClientType, NetType, DialFail, ConnectRaises, Return
    <3>3. CallType'
      BY <2>2 DEF TypeOK, ClientType, CallType, DialFail, ConnectRaises, Return
    <3>. QED  BY <3>1, <3>2, <3>3 DEF TypeOK
  <2>3. CASE HandshakeOk
    <3>1. ClientType'
      BY <2>3, HeadTailProperties DEF TypeOK, ClientType, NetType, CallType, HandshakeOk, HandshakeArrived
    <3>2. NetType'
      BY <2>3, HeadTailProperties DEF TypeOK, ClientType, NetType, CallType, HandshakeOk, HandshakeArrived
    <3>3. CallType'
      BY <2>3, HeadTailProperties DEF TypeOK, ClientType, NetType, CallType, HandshakeOk, HandshakeArrived
    <3>. QED  BY <3>1, <3>2, <3>3 DEF TypeOK
  <2>4. CASE HandshakeFail
    <3>1. ClientType'
      BY <2>4 DEF TypeOK, ClientType, HandshakeFail, ConnectRaises, Return, Close
    <3>2. NetType'
      BY <2>4, CloseType DEF TypeOK, ClientType, NetType, HandshakeFail
    <3>3. CallType'
      BY <2>4 DEF TypeOK, ClientType, CallType, HandshakeFail, ConnectRaises, Return, Close
    <3>. QED  BY <3>1, <3>2, <3>3 DEF TypeOK
  <2>5. CASE WriteTooLarge
    <3>1. ClientType'
      BY <2>5 DEF TypeOK, ClientType, WriteTooLarge, Return
    <3>2. NetType'
      BY <2>5 DEF TypeOK, ClientType, NetType, WriteTooLarge, Return
    <3>3. CallType'
      BY <2>5 DEF TypeOK, ClientType, CallType, WriteTooLarge, Return
    <3>. QED  BY <3>1, <3>2, <3>3 DEF TypeOK
  <2>6. CASE WriteBadFd
    <3>1. ClientType'
      BY <2>6 DEF TypeOK, ClientType, WriteBadFd, Return
    <3>2. NetType'
      BY <2>6 DEF TypeOK, ClientType, NetType, WriteBadFd, Return
    <3>3. CallType'
      BY <2>6 DEF TypeOK, ClientType, CallType, WriteBadFd, Return
    <3>. QED  BY <3>1, <3>2, <3>3 DEF TypeOK
  <2>7. CASE WriteBrokenPipe
    <3>1. ClientType'
      BY <2>7 DEF TypeOK, ClientType, WriteBrokenPipe, Return, Redial, Close, MayRetry
    <3>2. NetType'
      BY <2>7, CloseType DEF TypeOK, NetType, WriteBrokenPipe, Redial
    <3>3. CallType'
      BY <2>7 DEF TypeOK, ClientType, CallType, WriteBrokenPipe, Return, Redial, Close, MayRetry
    <3>. QED  BY <3>1, <3>2, <3>3 DEF TypeOK
  <2>8. CASE WriteOk
    <3>1. ClientType'
      BY <2>8, FrameTypes DEF TypeOK, ClientType, WriteOk
    <3>2. NetType'
      BY <2>8, FrameTypes, QueueUpdate DEF TypeOK, NetType, BusyInv, WriteOk
    <3>3. CallType'
      BY <2>8, CounterUpdate DEF TypeOK, CallType, WriteOk
    <3>. QED  BY <3>1, <3>2, <3>3 DEF TypeOK
  <2>9. CASE ReadVerdict
    <3>1. ClientType'
      BY <2>9, ReplyIds, HeadTailProperties DEF TypeOK, ClientType, NetType, CallType, ReadVerdict, Return
    <3>2. NetType'
      BY <2>9, ReplyIds, HeadTailProperties DEF TypeOK, ClientType, NetType, CallType, ReadVerdict, Return
    <3>3. CallType'
      BY <2>9, ReplyIds, HeadTailProperties DEF TypeOK, ClientType, NetType, CallType, ReadVerdict, Return
    <3>. QED  BY <3>1, <3>2, <3>3 DEF TypeOK
  <2>10. CASE ReadJunk
    <3>1. ClientType'
      BY <2>10, HeadTailProperties DEF TypeOK, ClientType, ReadJunk, Return
    <3>2. NetType'
      BY <2>10, HeadTailProperties DEF TypeOK, ClientType, NetType, ReadJunk, Return
    <3>3. CallType'
      BY <2>10, HeadTailProperties DEF TypeOK, ClientType, CallType, ReadJunk, Return
    <3>. QED  BY <3>1, <3>2, <3>3 DEF TypeOK
  <2>11. CASE ReadClosed
    <3>1. ClientType'
      BY <2>11 DEF TypeOK, ClientType, ReadClosed, Return, Redial, Close, MayRetry
    <3>2. NetType'
      BY <2>11, CloseType DEF TypeOK, NetType, ReadClosed, Redial
    <3>3. CallType'
      BY <2>11 DEF TypeOK, ClientType, CallType, ReadClosed, Return, Redial, Close, MayRetry
    <3>. QED  BY <3>1, <3>2, <3>3 DEF TypeOK
  <2>12. CASE Timeout
    <3>1. ClientType'
      BY <2>12 DEF TypeOK, ClientType, Timeout, Abandon, Return, Close
    <3>2. NetType'
      BY <2>12, CloseType DEF TypeOK, NetType, Timeout, Abandon
    <3>3. CallType'
      BY <2>12 DEF TypeOK, ClientType, CallType, Timeout, Abandon, Return, Close
    <3>. QED  BY <3>1, <3>2, <3>3 DEF TypeOK
  <2>. QED  BY <1>1, <2>1, <2>2, <2>3, <2>4, <2>5, <2>6, <2>7, <2>8, <2>9, <2>10, <2>11, <2>12 DEF ClientStep
<1>2. CASE CallerStep
  <2>1. CASE Connect
    <3>1. ClientType'
      BY <2>1 DEF TypeOK, ClientType, Connect
    <3>2. NetType'
      BY <2>1 DEF TypeOK, ClientType, NetType, Connect
    <3>3. CallType'
      BY <2>1 DEF TypeOK, ClientType, CallType, Connect
    <3>. QED  BY <3>1, <3>2, <3>3 DEF TypeOK
  <2>2. CASE CloseAgent
    <3>1. ClientType'
      BY <2>2 DEF TypeOK, ClientType, CloseAgent, Close
    <3>2. NetType'
      BY <2>2, CloseType DEF TypeOK, NetType, CloseAgent
    <3>3. CallType'
      BY <2>2 DEF TypeOK, ClientType, CallType, CloseAgent, Close
    <3>. QED  BY <3>1, <3>2, <3>3 DEF TypeOK
  <2>3. ASSUME NEW r \in Requests, Invoke(r) PROVE TypeOK'
    <3>1. ClientType'
      BY <2>3 DEF TypeOK, ClientType, Invoke, Redial, Close
    <3>2. NetType'
      BY <2>3, CloseType DEF TypeOK, NetType, Invoke, Redial
    <3>3. CallType'
      BY <2>3 DEF TypeOK, ClientType, CallType, Invoke, Redial, Close
    <3>. QED  BY <3>1, <3>2, <3>3 DEF TypeOK
  <2>4. ASSUME NEW a \in Answers, SendAnswer(a) PROVE TypeOK'
    <3>1. ClientType'
      BY <2>4, FrameTypes DEF TypeOK, ClientType, SendAnswer
    <3>2. NetType'
      <4>1. CASE inbox' = [inbox EXCEPT ![sock] = Append(@, AnswerFrame(a))]
        BY <2>4, <4>1, FrameTypes, QueueUpdate DEF TypeOK, NetType, SendAnswer
      <4>2. CASE UNCHANGED inbox
        BY <2>4, <4>2 DEF TypeOK, NetType, SendAnswer
      <4>. QED  BY <2>4, <4>1, <4>2 DEF SendAnswer
    <3>3. CallType'
      BY <2>4, FrameTypes DEF TypeOK, ClientType, CallType, SendAnswer
    <3>. QED  BY <3>1, <3>2, <3>3 DEF TypeOK
  <2>5. CASE Interrupt
    <3>1. ClientType'
      BY <2>5 DEF TypeOK, ClientType, Interrupt, Return
    <3>2. NetType'
      BY <2>5 DEF TypeOK, ClientType, NetType, Interrupt, Return
    <3>3. CallType'
      BY <2>5 DEF TypeOK, ClientType, CallType, Interrupt, Return
    <3>. QED  BY <3>1, <3>2, <3>3 DEF TypeOK
  <2>. QED  BY <1>2, <2>1, <2>2, <2>3, <2>4, <2>5 DEF CallerStep
<1>3. CASE AssemblerStep
  <2>1. ASSUME NEW c \in Conns, Accept(c) PROVE TypeOK'
    <3>1. ClientType'
      BY <2>1, FrameTypes DEF TypeOK, ClientType, Accept, Put
    <3>2. NetType'
      BY <2>1, FrameTypes, PutType DEF TypeOK, NetType, Accept
    <3>3. CallType'
      BY <2>1, FrameTypes DEF TypeOK, ClientType, CallType, Accept, Put
    <3>. QED  BY <3>1, <3>2, <3>3 DEF TypeOK
  <2>2. ASSUME NEW c \in Conns, TakeCall(c) PROVE TypeOK'
    <3>1. ClientType'
      BY <2>2, FrameIds, HeadTailProperties DEF TypeOK, ClientType, NetType, CallType, TakeCall
    <3>2. NetType'
      BY <2>2, FrameIds, HeadTailProperties DEF TypeOK, ClientType, NetType, CallType, TakeCall
    <3>3. CallType'
      BY <2>2, FrameIds, HeadTailProperties DEF TypeOK, ClientType, NetType, CallType, TakeCall
    <3>. QED  BY <3>1, <3>2, <3>3 DEF TypeOK
  <2>3. ASSUME NEW c \in Conns, TakeAnswer(c) PROVE TypeOK'
    <3>1. ClientType'
      BY <2>3, FrameIds, HeadTailProperties DEF TypeOK, ClientType, NetType, CallType, TakeAnswer
    <3>2. NetType'
      BY <2>3, FrameIds, HeadTailProperties DEF TypeOK, ClientType, NetType, CallType, TakeAnswer
    <3>3. CallType'
      BY <2>3, FrameIds, HeadTailProperties DEF TypeOK, ClientType, NetType, CallType, TakeAnswer
    <3>. QED  BY <3>1, <3>2, <3>3 DEF TypeOK
  <2>4. ASSUME NEW c \in Conns, Run(c) PROVE TypeOK'
    <3>1. ClientType'
      BY <2>4 DEF TypeOK, ClientType, Run
    <3>2. NetType'
      BY <2>4 DEF TypeOK, NetType, Run
    <3>3. CallType'
      BY <2>4, CounterUpdate DEF TypeOK, CallType, Run
    <3>. QED  BY <3>1, <3>2, <3>3 DEF TypeOK
  <2>5. ASSUME NEW c \in Conns, Answer(c) PROVE TypeOK'
    <3>0. serving[c] \in Requests
      BY <2>5 DEF Answer, BusyInv
    <3>1. ClientType'
      BY <2>5 DEF TypeOK, ClientType, Answer
    <3>2. outbox' \in [Conns -> Seq(ToClient)]
      BY <2>5, <3>0, FrameTypes, PutType DEF TypeOK, Answer
    <3>3. NetType'
      BY <2>5, <3>2 DEF TypeOK, NetType, Answer
    <3>4. CallType'
      BY <2>5 DEF TypeOK, CallType, Answer
    <3>. QED  BY <3>1, <3>3, <3>4 DEF TypeOK
  <2>6. ASSUME NEW c \in Conns, AnswerJunk(c) PROVE TypeOK'
    <3>1. ClientType'
      BY <2>6, FrameTypes DEF TypeOK, ClientType, AnswerJunk, Put
    <3>2. NetType'
      BY <2>6, FrameTypes DEF TypeOK, ClientType, NetType, AnswerJunk, Put
    <3>3. CallType'
      BY <2>6, FrameTypes DEF TypeOK, ClientType, CallType, AnswerJunk, Put
    <3>. QED  BY <3>1, <3>2, <3>3 DEF TypeOK
  <2>7. ASSUME NEW c \in Conns, Drop(c) PROVE TypeOK'
    <3>1. ClientType'
      BY <2>7 DEF TypeOK, ClientType, Drop
    <3>2. NetType'
      BY <2>7 DEF TypeOK, ClientType, NetType, Drop
    <3>3. CallType'
      BY <2>7 DEF TypeOK, ClientType, CallType, Drop
    <3>. QED  BY <3>1, <3>2, <3>3 DEF TypeOK
  <2>8. CASE Crash
    <3>1. ClientType'
      BY <2>8 DEF TypeOK, ClientType, Crash
    <3>2. asm' \in [Conns -> AsmStates]
      BY <2>8 DEF TypeOK, NetType, Crash
    <3>3. inbox' \in [Conns -> Seq(ToAsm)]
      BY <2>8, EmptySeq DEF TypeOK, NetType, Crash
    <3>4. crashes' \in 0..MaxCrashes
      BY <2>8 DEF TypeOK, NetType, Crash
    <3>5. NetType'
      BY <2>8, <3>2, <3>3, <3>4 DEF TypeOK, NetType, Crash
    <3>6. lost' \subseteq Requests
      BY <2>8 DEF TypeOK, CallType, BusyInv, Crash
    <3>7. CallType'
      BY <2>8, <3>6 DEF TypeOK, CallType, Crash
    <3>. QED  BY <3>1, <3>5, <3>7 DEF TypeOK
  <2>9. CASE Start
    <3>1. ClientType'
      BY <2>9 DEF TypeOK, ClientType, Start
    <3>2. NetType'
      BY <2>9 DEF TypeOK, ClientType, NetType, Start
    <3>3. CallType'
      BY <2>9 DEF TypeOK, ClientType, CallType, Start
    <3>. QED  BY <3>1, <3>2, <3>3 DEF TypeOK
  <2>. QED  BY <1>3, <2>1, <2>2, <2>3, <2>4, <2>5, <2>6, <2>7, <2>8, <2>9 DEF AssemblerStep
<1>4. CASE UNCHANGED vars
  BY <1>4 DEF vars, TypeOK, ClientType, NetType, CallType
<1>. QED  BY <1>1, <1>2, <1>3, <1>4 DEF Next

\* Every step keeps BusyInv.
LEMMA BusyStep == TypeOK /\ BusyInv /\ [Next]_vars => BusyInv'
<1>. SUFFICES ASSUME TypeOK, BusyInv, [Next]_vars PROVE BusyInv'
  OBVIOUS
<1>. USE DEF clientVars, netVars, procVars, callVars
<1>1. CASE ClientStep
  BY <1>1 DEF ClientStep, DialOk, DialFail, HandshakeOk, HandshakeFail, WriteTooLarge,
     WriteBadFd, WriteBrokenPipe, WriteOk, ReadVerdict, ReadJunk, ReadClosed, Timeout,
     ConnectRaises, Return, Redial, TypeOK, ClientType, NetType, BusyInv
<1>2. CASE CallerStep
  BY <1>2 DEF CallerStep, Connect, CloseAgent, Interrupt, Invoke, SendAnswer, Return, Redial,
     TypeOK, ClientType, NetType, BusyInv
<1>3. CASE AssemblerStep
  <2>1. ASSUME NEW c \in Conns, TakeCall(c) PROVE BusyInv'
    <3>1. Head(inbox[c]).id \in Requests
      BY <2>1, FrameIds, HeadTailProperties DEF TakeCall, TypeOK, NetType
    <3>. QED  BY <2>1, <3>1 DEF TakeCall, TypeOK, NetType, BusyInv
  <2>2. ASSUME NEW c \in Conns,
               Accept(c) \/ TakeAnswer(c) \/ Run(c) \/ Answer(c) \/ AnswerJunk(c) \/ Drop(c)
        PROVE  BusyInv'
    BY <2>2 DEF Accept, TakeAnswer, Run, Answer, AnswerJunk, Drop, TypeOK, NetType, BusyInv
  <2>3. CASE Crash
    BY <2>3 DEF Crash, TypeOK, NetType, BusyInv
  <2>4. CASE Start
    BY <2>4 DEF Start, BusyInv
  <2>. QED  BY <1>3, <2>1, <2>2, <2>3, <2>4 DEF AssemblerStep
<1>4. CASE UNCHANGED vars
  BY <1>4 DEF vars, BusyInv
<1>. QED  BY <1>1, <1>2, <1>3, <1>4 DEF Next

\* The initial states are well typed, and nobody is served in them.
LEMMA TypeInit == Init => TypeOK /\ BusyInv
<1>. SUFFICES ASSUME Init PROVE TypeOK /\ BusyInv
  OBVIOUS
<1>1. ClientType /\ CallType
  BY DEF Init, ClientType, CallType, Outcomes
<1>2. NetType
  BY EmptySeq, ConstantsAssumption DEF Init, NetType, AsmStates
<1>3. BusyInv
  BY DEF Init, BusyInv
<1>. QED  BY <1>1, <1>2, <1>3 DEF TypeOK

\* TypeOK holds for every value of the constants, interrupts included.
THEOREM TypeCorrect == Spec => []TypeOK
<1>1. Init => TypeOK /\ BusyInv
  BY TypeInit
<1>2. TypeOK /\ BusyInv /\ [Next]_vars => TypeOK' /\ BusyInv'
  BY TypeStep, BusyStep
<1>. QED  BY <1>1, <1>2, PTL DEF Spec

-----------------------------------------------------------------------------
(* The steps of the inductive invariant, one lemma per conjunct.           *)

\* Which calls a queue carries after a frame is added or taken.
LEMMA CarriesLemma ==
    ASSUME NEW q \in Seq(ToAsm), NEW r \in Requests
    PROVE  /\ ~Carries(<<>>, r)
           /\ q # <<>> /\ Head(q) = CallFrame(r) => Carries(q, r)
           /\ q # <<>> /\ Carries(Tail(q), r) => Carries(q, r)
           /\ \A f \in ToAsm : Carries(Append(q, f), r) <=> Carries(q, r) \/ f = CallFrame(r)
<1>1. ~Carries(<<>>, r)
  BY DEF Carries
<1>2. q # <<>> /\ Head(q) = CallFrame(r) => Carries(q, r)
  BY HeadTailProperties DEF Carries
<1>3. q # <<>> /\ Carries(Tail(q), r) => Carries(q, r)
  BY HeadTailProperties DEF Carries
<1>4. ASSUME NEW f \in ToAsm
      PROVE  Carries(Append(q, f), r) <=> Carries(q, r) \/ f = CallFrame(r)
  <2>. /\ Append(q, f) \in Seq(ToAsm)
       /\ Len(Append(q, f)) = Len(q) + 1
       /\ \A i \in 1..Len(q) : Append(q, f)[i] = q[i]
       /\ Append(q, f)[Len(q) + 1] = f
       /\ Len(q) \in Nat
    BY AppendProperties
  <2>. QED  BY DEF Carries
<1>. QED  BY <1>1, <1>2, <1>3, <1>4

\* When invoke returns, no call is left pending.
LEMMA ReturnEffect ==
    ASSUME TypeOK, ControlInv, cur \in Requests, NEW how \in Outcomes \ {"pending"}, Return(how)
    PROVE  /\ pc' = "idle" /\ cur' = NoRequest
           /\ \A r \in Requests : outcome'[r] = IF r = cur THEN how ELSE outcome[r]
           /\ \A r \in Requests : outcome'[r] # "pending"
BY DEF TypeOK, CallType, ControlInv, Return

\* Every step keeps ControlInv: the one thread of the caller waits for one call.
LEMMA ControlStep == TypeOK /\ BusyInv /\ ControlInv /\ FreshInv /\ [Next]_vars => ControlInv'
<1>. SUFFICES ASSUME TypeOK, BusyInv, ControlInv, FreshInv, [Next]_vars PROVE ControlInv'
  OBVIOUS
<1>. USE ConstantsAssumption DEF clientVars, netVars, procVars, callVars
<1>1. CASE ClientStep
  <2>1. CASE ConnectRaises /\ UNCHANGED <<agent, sock>>
    <3>1. CASE cur = NoRequest
      BY <2>1, <3>1 DEF ConnectRaises, ControlInv
    <3>2. CASE cur # NoRequest
      BY <2>1, <3>2, ReturnEffect DEF ConnectRaises, ControlInv, TypeOK, ClientType, Outcomes
    <3>. QED  BY <3>1, <3>2
  <2>2. CASE \E how \in Outcomes \ {"pending"} : cur \in Requests /\ Return(how) /\ UNCHANGED <<agent, sock>>
    BY <2>2, ReturnEffect DEF ControlInv
  <2>3. CASE \E a \in {1, 2} : Redial(a) /\ UNCHANGED <<agent, sock, cur, outcome>>
    BY <2>3 DEF ControlInv, Redial
  <2>4. ASSUME NEW c \in Conns, DialOk(c) PROVE ControlInv'
    BY <2>4 DEF DialOk, ControlInv
  <2>5. CASE DialFail
    BY <2>1, <2>5 DEF DialFail
  <2>6. CASE HandshakeOk
    BY <2>6 DEF HandshakeOk, ControlInv, FreshInv
  <2>7. CASE HandshakeFail
    BY <2>1, <2>7 DEF HandshakeFail
  <2>8. CASE WriteTooLarge \/ WriteBadFd
    BY <2>2, <2>8 DEF WriteTooLarge, WriteBadFd, BusyInv, Outcomes
  <2>9. CASE WriteBrokenPipe \/ ReadClosed
    <3>1. cur \in Requests
      BY <2>9 DEF WriteBrokenPipe, ReadClosed, BusyInv
    <3>2. CASE MayRetry
      BY <2>3, <2>9, <3>2 DEF WriteBrokenPipe, ReadClosed, MayRetry
    <3>3. CASE ~MayRetry
      BY <2>2, <2>9, <3>1, <3>3 DEF WriteBrokenPipe, ReadClosed, Outcomes
    <3>. QED  BY <3>2, <3>3
  <2>10. CASE WriteOk
    BY <2>10 DEF WriteOk, ControlInv
  <2>11. CASE ReadVerdict
    BY <2>2, <2>11 DEF ReadVerdict, BusyInv, Outcomes
  <2>12. CASE ReadJunk \/ Timeout
    BY <2>2, <2>12 DEF ReadJunk, Timeout, BusyInv, Outcomes
  <2>. QED  BY <1>1, <2>4, <2>5, <2>6, <2>7, <2>8, <2>9, <2>10, <2>11, <2>12 DEF ClientStep
<1>2. CASE CallerStep
  <2>1. CASE Connect
    BY <2>1 DEF Connect, ControlInv
  <2>2. CASE CloseAgent
    BY <2>2 DEF CloseAgent, ControlInv
  <2>3. CASE Interrupt
    BY <2>3, ReturnEffect DEF Interrupt, ControlInv, BusyInv, Outcomes
  <2>4. ASSUME NEW r \in Requests, Invoke(r) PROVE ControlInv'
    BY <2>4 DEF Invoke, Redial, ControlInv, BusyInv, TypeOK, CallType
  <2>5. ASSUME NEW a \in Answers, SendAnswer(a) PROVE ControlInv'
    BY <2>5 DEF SendAnswer, ControlInv
  <2>. QED  BY <1>2, <2>1, <2>2, <2>3, <2>4, <2>5 DEF CallerStep
<1>3. CASE AssemblerStep
  BY <1>3 DEF AssemblerStep, Accept, TakeCall, TakeAnswer, Run, Answer, AnswerJunk, Drop, Crash, Start, ControlInv
<1>4. CASE UNCHANGED vars
  BY <1>4 DEF vars, ControlInv
<1>. QED  BY <1>1, <1>2, <1>3, <1>4 DEF Next

\* Every step keeps FreshInv: the socket that connect() opens is new to everyone.
LEMMA FreshStep == TypeOK /\ BusyInv /\ FreshInv /\ ConnInv /\ [Next]_vars => FreshInv'
<1>. SUFFICES ASSUME TypeOK, BusyInv, FreshInv, ConnInv, [Next]_vars, pc' = "handshake"
              PROVE  FreshInv'
  BY DEF FreshInv
<1>. USE ConstantsAssumption DEF clientVars, netVars, procVars, callVars
<1>1. ASSUME NEW c \in Conns, DialOk(c) PROVE FreshInv'
  BY <1>1 DEF DialOk, FreshInv, ConnInv, TypeOK, NetType
<1>2. ASSUME ClientStep, \A c \in Conns : ~DialOk(c) PROVE FALSE
  BY <1>2 DEF ClientStep, DialFail, HandshakeOk, HandshakeFail, WriteTooLarge, WriteBadFd,
     WriteBrokenPipe, WriteOk, ReadVerdict, ReadJunk, ReadClosed, Timeout, ConnectRaises, Return, Redial
<1>3. CASE CallerStep
  BY <1>3 DEF CallerStep, Connect, CloseAgent, Interrupt, Invoke, SendAnswer, Return, Redial
<1>4. CASE AssemblerStep
  <2>0. fresh' = fresh /\ sock' = sock /\ pc = "handshake" /\ fresh \in Conns \ {sock}
    BY <1>4 DEF AssemblerStep, Accept, TakeCall, TakeAnswer, Run, Answer, AnswerJunk, Drop, Crash,
       Start, FreshInv
  <2>00. CASE /\ inbox'[fresh] = inbox[fresh] /\ outbox'[fresh] = outbox[fresh]
              /\ asm'[fresh] = asm[fresh]
    BY <2>0, <2>00 DEF FreshInv
  <2>1. ASSUME NEW c \in Conns, Accept(c) PROVE FreshInv'
    <3>1. CASE c = fresh
      <4>1. outbox[c] = <<>> /\ inbox'[c] = <<>> /\ asm'[c] = "ready"
        BY <2>0, <2>1, <3>1 DEF Accept, FreshInv, TypeOK, NetType
      <4>2. outbox'[c] \in {<<>>, <<Handshake>>, <<BadHandshake>>}
        BY <2>1, <4>1 DEF Accept, Put, TypeOK, NetType
      <4>. QED  BY <2>0, <3>1, <4>1, <4>2 DEF FreshInv
    <3>2. CASE c # fresh
      BY <2>0, <2>00, <2>1, <3>2 DEF Accept, Put, TypeOK, NetType
    <3>. QED  BY <3>1, <3>2
  <2>2. ASSUME NEW c \in Conns, TakeCall(c) \/ TakeAnswer(c) \/ Run(c) PROVE FreshInv'
    <3>1. c # fresh
      BY <2>0, <2>2 DEF TakeCall, TakeAnswer, Run, FreshInv
    <3>. QED  BY <2>0, <2>00, <2>2, <3>1 DEF TakeCall, TakeAnswer, Run, TypeOK, NetType
  <2>3. ASSUME NEW c \in Conns, Answer(c) \/ AnswerJunk(c) PROVE FreshInv'
    <3>1. c # fresh
      BY <2>0, <2>3 DEF Answer, AnswerJunk, FreshInv
    <3>. QED  BY <2>0, <2>00, <2>3, <3>1 DEF Answer, AnswerJunk, Put, TypeOK, NetType
  <2>4. ASSUME NEW c \in Conns, Drop(c) PROVE FreshInv'
    BY <2>0, <2>4 DEF Drop, FreshInv, TypeOK, NetType
  <2>5. CASE Crash
    BY <2>0, <2>5 DEF Crash, FreshInv, TypeOK, NetType
  <2>6. CASE Start
    BY <2>0, <2>6 DEF Start, FreshInv
  <2>. QED  BY <1>4, <2>1, <2>2, <2>3, <2>4, <2>5, <2>6 DEF AssemblerStep
<1>5. CASE UNCHANGED vars
  BY <1>5 DEF vars, FreshInv
<1>. QED  BY <1>1, <1>2, <1>3, <1>4, <1>5 DEF Next

\* Every step keeps ConnInv: connections nobody dialled stay empty.
LEMMA ConnStep == TypeOK /\ ControlInv /\ FreshInv /\ ConnInv /\ [Next]_vars => ConnInv'
<1>. SUFFICES ASSUME TypeOK, ControlInv, FreshInv, ConnInv, [Next]_vars PROVE ConnInv'
  OBVIOUS
<1>. USE ConstantsAssumption DEF clientVars, netVars, procVars, callVars
<1>1. CASE ClientStep
  <2>0. CASE \E c : Close(c) /\ UNCHANGED <<sock, asm, inbox>>
    BY <2>0 DEF Close, ConnInv, TypeOK, NetType
  <2>00. CASE UNCHANGED <<sock, asm, inbox, outbox, cliOpen>>
    BY <2>00 DEF ConnInv
  <2>1. ASSUME NEW c \in Conns, DialOk(c) PROVE ConnInv'
    BY <2>1 DEF DialOk, ConnInv, TypeOK, NetType
  <2>2. CASE HandshakeOk
    BY <2>2 DEF HandshakeOk, HandshakeArrived, FreshInv, ConnInv, TypeOK, NetType
  <2>3. CASE WriteOk
    BY <2>3 DEF WriteOk, ConnInv, TypeOK, NetType
  <2>4. CASE ReadVerdict \/ ReadJunk
    BY <2>4 DEF ReadVerdict, ReadJunk, ConnInv, TypeOK, NetType
  <2>5. CASE DialFail \/ WriteTooLarge \/ WriteBadFd
    BY <2>00, <2>5 DEF DialFail, WriteTooLarge, WriteBadFd
  <2>6. CASE HandshakeFail \/ Timeout
    BY <2>0, <2>6 DEF HandshakeFail, Timeout, Abandon
  <2>7. CASE WriteBrokenPipe \/ ReadClosed
    BY <2>0, <2>00, <2>7 DEF WriteBrokenPipe, ReadClosed, Redial
  <2>. QED  BY <1>1, <2>1, <2>2, <2>3, <2>4, <2>5, <2>6, <2>7 DEF ClientStep
<1>2. CASE CallerStep
  BY <1>2 DEF CallerStep, Connect, CloseAgent, Interrupt, Invoke, SendAnswer, Redial, Close,
     ControlInv, ConnInv, TypeOK, NetType
<1>3. CASE AssemblerStep
  <2>1. ASSUME NEW c \in Conns,
               Accept(c) \/ TakeCall(c) \/ TakeAnswer(c) \/ Run(c) \/ Answer(c) \/ AnswerJunk(c) \/ Drop(c)
        PROVE  ConnInv'
    BY <2>1 DEF Accept, TakeCall, TakeAnswer, Run, Answer, AnswerJunk, Drop, Put, ConnInv, TypeOK, NetType
  <2>2. CASE Crash
    BY <2>2 DEF Crash, ConnInv, TypeOK, NetType
  <2>3. CASE Start
    BY <2>3 DEF Start, ConnInv
  <2>. QED  BY <1>3, <2>1, <2>2, <2>3 DEF AssemblerStep
<1>4. CASE UNCHANGED vars
  BY <1>4 DEF vars, ConnInv
<1>. QED  BY <1>1, <1>2, <1>3, <1>4 DEF Next

\* Only the client's write puts a call in flight.
LEMMA FlightOrigin ==
    ASSUME IInv, [Next]_vars, NEW r \in Requests, NEW k \in Conns, InFlight(r, k)'
    PROVE  InFlight(r, k) \/ (WriteOk /\ k = sock /\ r = cur)
<1>. USE ConstantsAssumption DEF clientVars, netVars, procVars, callVars
<1>0. CASE UNCHANGED <<asm, serving, inbox>>
  BY <1>0 DEF InFlight
<1>1. ASSUME NEW c \in Conns, DialOk(c) PROVE InFlight(r, k)
  <2>1. c # k
    BY <1>1, CarriesLemma DEF DialOk, InFlight, IInv, TypeOK, NetType, ConnInv
  <2>. QED  BY <1>1, <2>1 DEF DialOk, InFlight, IInv, TypeOK, NetType
<1>2. ASSUME WriteOk, ~InFlight(r, k) PROVE k = sock /\ r = cur
  <2>1. cur \in Requests /\ sock \in Conns /\ CallFrame(cur) \in ToAsm
    BY <1>2, FrameTypes DEF WriteOk, IInv, TypeOK, NetType, BusyInv
  <2>2. k = sock
    BY <1>2 DEF WriteOk, InFlight, IInv, TypeOK, NetType
  <2>3. inbox'[k] = Append(inbox[k], CallFrame(cur)) /\ inbox[k] \in Seq(ToAsm)
    BY <1>2, <2>1, <2>2 DEF WriteOk, IInv, TypeOK, NetType
  <2>4. CallFrame(cur) = CallFrame(r)
    BY <1>2, <2>1, <2>3, CarriesLemma DEF WriteOk, InFlight
  <2>. QED  BY <2>2, <2>4 DEF CallFrame
<1>3. ASSUME NEW a \in Answers, SendAnswer(a) PROVE InFlight(r, k)
  <2>0. asm' = asm /\ serving' = serving
    BY <1>3 DEF SendAnswer
  <2>1. CASE UNCHANGED inbox
    BY <2>0, <2>1 DEF InFlight
  <2>2. CASE inbox' = [inbox EXCEPT ![sock] = Append(@, AnswerFrame(a))]
    <3>1. AnswerFrame(a) \in ToAsm /\ AnswerFrame(a) # CallFrame(r)
      BY FrameTypes DEF AnswerFrame, CallFrame
    <3>2. CASE k = sock
      <4>1. inbox'[k] = Append(inbox[k], AnswerFrame(a)) /\ inbox[k] \in Seq(ToAsm)
        BY <2>2, <3>2 DEF IInv, TypeOK, NetType
      <4>. QED  BY <1>3, <3>1, <4>1, CarriesLemma DEF SendAnswer, InFlight
    <3>3. CASE k # sock
      BY <1>3, <2>2, <3>3 DEF SendAnswer, InFlight, IInv, TypeOK, NetType
    <3>. QED  BY <3>2, <3>3
  <2>. QED  BY <1>3, <2>1, <2>2 DEF SendAnswer
<1>4. ASSUME NEW c \in Conns, TakeCall(c) PROVE InFlight(r, k)
  <2>1. CASE c = k
    <3>1. inbox[k] \in Seq(ToAsm) /\ inbox[k] # <<>> /\ Head(inbox[k]) \in ToAsm
      BY <1>4, <2>1, HeadTailProperties DEF TakeCall, IInv, TypeOK, NetType
    <3>2. Head(inbox[k]).id = r /\ Head(inbox[k]).type = "call" /\ asm[k] = "ready"
      BY <1>4, <2>1 DEF TakeCall, InFlight, IInv, TypeOK, NetType
    <3>. QED  BY <3>1, <3>2, FrameIds, CarriesLemma DEF InFlight
  <2>2. CASE c # k
    BY <1>4, <2>2 DEF TakeCall, InFlight, IInv, TypeOK, NetType
  <2>. QED  BY <2>1, <2>2
<1>5. ASSUME NEW c \in Conns, TakeAnswer(c) \/ Drop(c) \/ Answer(c) \/ AnswerJunk(c) PROVE InFlight(r, k)
  <2>1. c # k
    BY <1>5 DEF TakeAnswer, Drop, Answer, AnswerJunk, InFlight, IInv, TypeOK, NetType
  <2>. QED  BY <1>5, <2>1 DEF TakeAnswer, Drop, Answer, AnswerJunk, InFlight, IInv, TypeOK, NetType
<1>6. ASSUME NEW c \in Conns, Accept(c) \/ Run(c) PROVE InFlight(r, k)
  BY <1>6 DEF Accept, Run, InFlight, IInv, TypeOK, NetType
<1>7. CASE Crash
  BY <1>7 DEF Crash, InFlight, IInv, TypeOK, NetType
<1>8. CASE AssemblerStep
  BY <1>0, <1>4, <1>5, <1>6, <1>7, <1>8 DEF AssemblerStep, Start
<1>9. CASE CallerStep
  BY <1>0, <1>3, <1>9 DEF CallerStep, Connect, CloseAgent, Interrupt, Invoke
<1>10. CASE ClientStep
  BY <1>0, <1>1, <1>2, <1>10 DEF ClientStep, DialFail, HandshakeOk, HandshakeFail, WriteTooLarge,
     WriteBadFd, WriteBrokenPipe, ReadVerdict, ReadJunk, ReadClosed, Timeout
<1>11. CASE UNCHANGED vars
  BY <1>0, <1>11 DEF vars
<1>. QED  BY <1>8, <1>9, <1>10, <1>11 DEF Next

\* The caller's part: what ends a call that is in flight.
LEMMA FlightOutcome ==
    ASSUME IInv, [Next]_vars, NEW r \in Requests, NEW k \in Conns, InFlight(r, k), InFlight(r, k)'
    PROVE  /\ outcome'[r] = outcome[r] \/ (outcome[r] = "pending" /\ outcome'[r] = "timeout")
           /\ outcome'[r] = "pending" => k = sock' /\ pc' = "read"
           /\ k = sock' /\ k \in cliOpen' => pc' = "read" /\ cur' = r
<1>. USE ConstantsAssumption DEF clientVars, netVars, procVars, callVars
<1>. DEFINE Goal == /\ outcome'[r] = outcome[r] \/ (outcome[r] = "pending" /\ outcome'[r] = "timeout")
                    /\ outcome'[r] = "pending" => k = sock' /\ pc' = "read"
                    /\ k = sock' /\ k \in cliOpen' => pc' = "read" /\ cur' = r
<1>0. /\ outcome[r] # "new"
      /\ outcome[r] = "pending" => k = sock /\ pc = "read"
      /\ k = sock /\ k \in cliOpen => pc = "read" /\ cur = r
      /\ outcome[r] = "pending" <=> cur = r
  BY DEF IInv, FlightInv, ControlInv
\* A call that returns before it is read, or on a socket the Assembler is done
\* with, is not the call in flight.
<1>a. CASE /\ cur \in Requests /\ UNCHANGED sock /\ (pc # "read" \/ sock # k)
           /\ \E how \in Outcomes \ {"pending", "new"} : Return(how)
           /\ \A c \in cliOpen' : c \in cliOpen
  BY <1>0, <1>a, ReturnEffect DEF IInv
<1>b. CASE /\ UNCHANGED <<outcome, sock>> /\ (pc # "read" \/ sock # k \/ UNCHANGED <<pc, cur>>)
           /\ \A c \in cliOpen' : c \in cliOpen
  BY <1>0, <1>b
<1>1. CASE ClientStep
  <2>1. ASSUME NEW c \in Conns, DialOk(c) PROVE Goal
    <3>1. c # k
      BY <2>1 DEF DialOk, InFlight
    <3>. QED  BY <1>0, <2>1, <3>1 DEF DialOk
  <2>2. CASE HandshakeOk
    <3>1. k # fresh
      BY <2>2, EmptySeq, CarriesLemma DEF HandshakeOk, InFlight, IInv, FreshInv
    <3>2. pc # "read" /\ sock' # k /\ outcome' = outcome
      BY <2>2, <3>1 DEF HandshakeOk
    <3>. QED  BY <1>0, <3>2
  <2>3. CASE WriteOk
    BY <1>b, <2>3 DEF WriteOk
  <2>4. CASE ReadVerdict \/ ReadJunk
    <3>1. sock \in Conns /\ sock \in cliOpen /\ asm[sock] \in {"replied", "closed"}
      BY <2>4 DEF ReadVerdict, ReadJunk, IInv, ControlInv, ReplyInv, TypeOK, NetType
    <3>2. k # sock
      BY <3>1 DEF InFlight
    <3>. QED  BY <1>a, <2>4, <3>2 DEF ReadVerdict, ReadJunk, IInv, BusyInv, Outcomes
  <2>5. CASE ReadClosed \/ WriteBrokenPipe
    <3>1. k # sock
      BY <2>5 DEF ReadClosed, WriteBrokenPipe, EndOfStream, PeerGone, InFlight
    <3>2. CASE MayRetry
      BY <1>b, <2>5, <3>1, <3>2 DEF ReadClosed, WriteBrokenPipe, Redial, Close
    <3>3. CASE ~MayRetry
      BY <1>a, <2>5, <3>1, <3>3 DEF ReadClosed, WriteBrokenPipe, IInv, BusyInv, Outcomes
    <3>. QED  BY <3>2, <3>3
  <2>6. CASE Timeout
    <3>1. UNCHANGED sock /\ cur \in Requests /\ Return("timeout") /\ sock \notin cliOpen'
      BY <2>6 DEF Timeout, Abandon, Close, IInv, BusyInv
    <3>. QED  BY <1>0, <3>1, ReturnEffect DEF IInv, Outcomes
  <2>7. CASE WriteTooLarge \/ WriteBadFd
    BY <1>a, <2>7 DEF WriteTooLarge, WriteBadFd, IInv, BusyInv, Outcomes
  <2>8. CASE DialFail \/ HandshakeFail
    <3>1. UNCHANGED sock /\ pc # "read" /\ ConnectRaises /\ \A c \in cliOpen' : c \in cliOpen
      BY <2>8 DEF DialFail, HandshakeFail, Close
    <3>. QED  BY <1>a, <1>b, <3>1 DEF ConnectRaises, IInv, TypeOK, ClientType, Outcomes
  <2>. QED  BY <1>1, <2>1, <2>2, <2>3, <2>4, <2>5, <2>6, <2>7, <2>8 DEF ClientStep
<1>2. CASE CallerStep
  <2>1. CASE Connect \/ CloseAgent \/ \E a \in Answers : SendAnswer(a)
    BY <1>b, <2>1 DEF Connect, CloseAgent, Close, SendAnswer
  <2>2. CASE Interrupt
    BY <2>2 DEF Interrupt, IInv
  <2>3. ASSUME NEW q \in Requests, Invoke(q) PROVE Goal
    <3>1. r # q /\ outcome'[r] = outcome[r]
      BY <1>0, <2>3 DEF Invoke, IInv, TypeOK, CallType
    <3>2. \A c \in cliOpen' : c \in cliOpen
      BY <2>3 DEF Invoke, Redial, Close
    <3>. QED  BY <1>0, <2>3, <3>1, <3>2 DEF Invoke
  <2>. QED  BY <1>2, <2>1, <2>2, <2>3 DEF CallerStep
<1>3. CASE AssemblerStep
  BY <1>b, <1>3 DEF AssemblerStep, Accept, TakeCall, TakeAnswer, Run, Answer, AnswerJunk, Drop, Crash, Start
<1>4. CASE UNCHANGED vars
  BY <1>b, <1>4 DEF vars
<1>. QED  BY <1>1, <1>2, <1>3, <1>4 DEF Next

\* Every step keeps FlightInv: a call in flight is the one the socket is read for.
LEMMA FlightStep == IInv /\ [Next]_vars => FlightInv'
<1>. SUFFICES ASSUME IInv, [Next]_vars, NEW r \in Requests, NEW k \in Conns, InFlight(r, k)'
              PROVE  /\ outcome'[r] # "new"
                     /\ outcome'[r] = "pending" => k = sock' /\ pc' = "read"
                     /\ k = sock' /\ k \in cliOpen' => pc' = "read" /\ cur' = r
  BY DEF FlightInv
<1>1. CASE InFlight(r, k)
  <2>1. outcome[r] # "new"
    BY <1>1 DEF IInv, FlightInv
  <2>. QED  BY <1>1, <2>1, FlightOutcome
<1>2. CASE WriteOk /\ k = sock /\ r = cur
  BY <1>2 DEF WriteOk, IInv, ControlInv
<1>. QED  BY <1>1, <1>2, FlightOrigin

\* Every step keeps ReplyInv: what can be read is for the call that waits.
LEMMA ReplyStep == IInv /\ [Next]_vars => ReplyInv'
<1>. SUFFICES ASSUME IInv, [Next]_vars, sock' \in Conns, sock' \in cliOpen'
              PROVE  /\ ReadableNow'
                     /\ outbox'[sock'] # <<>> => asm'[sock'] \in {"replied", "closed"}
  BY DEF ReplyInv
<1>. USE ConstantsAssumption DEF clientVars, netVars, procVars, callVars
<1>. DEFINE Goal == /\ ReadableNow'
                    /\ outbox'[sock'] # <<>> => asm'[sock'] \in {"replied", "closed"}
<1>0. sock \in Conns /\ sock \in cliOpen =>
        /\ ReadableNow
        /\ outbox[sock] # <<>> => asm[sock] \in {"replied", "closed"}
  BY DEF IInv, ReplyInv
<1>00. CASE UNCHANGED <<sock, outbox, asm, cliOpen>> /\ (pc = "read" => UNCHANGED <<pc, cur>>)
  BY <1>0, <1>00 DEF ReadableNow
<1>000. CASE UNCHANGED sock /\ Close(sock)
  BY <1>000 DEF Close
<1>1. CASE ClientStep
  <2>1. ASSUME NEW c \in Conns, DialOk(c) PROVE Goal
    BY <1>0, <2>1 DEF DialOk, ReadableNow, IInv, TypeOK, NetType, ConnInv
  <2>2. CASE HandshakeOk
    <3>1. sock' = fresh /\ outbox[fresh] = <<Handshake>>
      BY <2>2 DEF HandshakeOk, HandshakeArrived, IInv, FreshInv, Handshake, BadHandshake
    <3>2. outbox'[sock'] = <<>>
      BY <2>2, <3>1 DEF HandshakeOk, IInv, TypeOK, NetType
    <3>. QED  BY <3>2 DEF ReadableNow
  <2>3. CASE WriteOk
    BY <1>00, <2>3 DEF WriteOk
  <2>4. CASE ReadVerdict \/ ReadJunk
    <3>1. sock' = sock /\ sock \in Conns /\ sock \in cliOpen
      BY <2>4 DEF ReadVerdict, ReadJunk, IInv, ControlInv, TypeOK, NetType
    <3>2. \E f : outbox[sock] = <<f>>
      BY <1>0, <2>4, <3>1 DEF ReadVerdict, ReadJunk, ReadableNow
    <3>3. outbox'[sock'] = <<>>
      BY <2>4, <3>1, <3>2 DEF ReadVerdict, ReadJunk, IInv, TypeOK, NetType
    <3>. QED  BY <3>3 DEF ReadableNow
  <2>5. CASE ReadClosed
    <3>1. CASE MayRetry
      BY <1>000, <2>5, <3>1 DEF ReadClosed, Redial
    <3>2. CASE ~MayRetry
      BY <2>5, <3>2 DEF ReadClosed, EndOfStream, ReadableNow
    <3>. QED  BY <3>1, <3>2
  <2>6. CASE WriteBrokenPipe
    <3>1. CASE MayRetry
      BY <1>000, <2>6, <3>1 DEF WriteBrokenPipe, Redial
    <3>2. CASE ~MayRetry
      BY <1>00, <2>6, <3>2 DEF WriteBrokenPipe
    <3>. QED  BY <3>1, <3>2
  <2>7. CASE Timeout
    BY <1>000, <2>7 DEF Timeout, Abandon
  <2>8. CASE DialFail \/ WriteTooLarge \/ WriteBadFd
    BY <1>00, <2>8 DEF DialFail, WriteTooLarge, WriteBadFd
  <2>9. CASE HandshakeFail
    BY <1>0, <2>9 DEF HandshakeFail, Close, ReadableNow, IInv, FreshInv, TypeOK, NetType
  <2>. QED  BY <1>1, <2>1, <2>2, <2>3, <2>4, <2>5, <2>6, <2>7, <2>8, <2>9 DEF ClientStep
<1>2. CASE CallerStep
  <2>1. CASE CloseAgent
    BY <1>000, <2>1 DEF CloseAgent
  <2>2. CASE Interrupt
    BY <2>2 DEF Interrupt, IInv
  <2>3. ASSUME NEW q \in Requests, Invoke(q) PROVE Goal
    BY <1>00, <1>000, <2>3 DEF Invoke, Redial
  <2>4. CASE Connect \/ \E a \in Answers : SendAnswer(a)
    BY <1>00, <2>4 DEF Connect, SendAnswer
  <2>. QED  BY <1>2, <2>1, <2>2, <2>3, <2>4 DEF CallerStep
<1>3. CASE AssemblerStep
  <2>0. UNCHANGED <<sock, pc, cur, cliOpen>>
    BY <1>3 DEF AssemblerStep, Accept, TakeCall, TakeAnswer, Run, Answer, AnswerJunk, Drop, Crash, Start
  <2>00. CASE /\ outbox'[sock] = outbox[sock]
              /\ asm[sock] \in {"replied", "closed"} => asm'[sock] \in {"replied", "closed"}
    BY <1>0, <2>0, <2>00 DEF ReadableNow
  <2>1. ASSUME NEW c \in Conns, Accept(c) PROVE Goal
    <3>1. c # sock
      BY <2>0, <2>1 DEF Accept, IInv, ConnInv
    <3>. QED  BY <2>00, <2>1, <3>1 DEF Accept, Put, IInv, TypeOK, NetType
  <2>2. ASSUME NEW c \in Conns, TakeCall(c) \/ TakeAnswer(c) \/ Run(c) \/ Drop(c) PROVE Goal
    BY <2>00, <2>2 DEF TakeCall, TakeAnswer, Run, Drop, IInv, TypeOK, NetType
  <2>3. ASSUME NEW c \in Conns, Answer(c) \/ AnswerJunk(c) PROVE Goal
    <3>1. CASE c # sock
      BY <2>00, <2>3, <3>1 DEF Answer, AnswerJunk, Put, IInv, TypeOK, NetType
    <3>2. CASE c = sock
      <4>1. outbox[sock] = <<>> /\ asm'[sock] = "replied"
        BY <1>0, <2>0, <2>3, <3>2 DEF Answer, AnswerJunk, IInv, TypeOK, NetType
      <4>2. serving[sock] = cur /\ pc = "read"
        BY <2>0, <2>3, <3>2 DEF Answer, AnswerJunk, IInv, BusyInv, FlightInv, InFlight
      <4>3. \E f \in {Junk, Reply("response", cur), Reply("rejected", cur)} :
              outbox'[sock] = Append(outbox[sock], f)
        BY <2>0, <2>3, <3>2, <4>2 DEF Answer, AnswerJunk, Put, IInv, TypeOK, NetType
      <4>. QED  BY <2>0, <4>1, <4>2, <4>3 DEF ReadableNow
    <3>. QED  BY <3>1, <3>2
  <2>4. CASE Crash
    BY <2>0, <2>00, <2>4 DEF Crash, IInv, TypeOK, NetType
  <2>5. CASE Start
    BY <1>00, <2>5 DEF Start
  <2>. QED  BY <1>3, <2>1, <2>2, <2>3, <2>4, <2>5 DEF AssemblerStep
<1>4. CASE UNCHANGED vars
  BY <1>00, <1>4 DEF vars
<1>. QED  BY <1>1, <1>2, <1>3, <1>4 DEF Next

\* Every step keeps VerdictInv: a verdict and a call in flight exclude each other.
LEMMA VerdictStep == IInv /\ [Next]_vars => VerdictInv'
<1>. SUFFICES ASSUME IInv, [Next]_vars, NEW r \in Requests
              PROVE  /\ outcome'[r] = "new" => verdict'[r] = "none"
                     /\ outcome'[r] = "pending" /\ verdict'[r] # "none" =>
                          pc' = "read" /\ outbox'[sock'] # <<>>
  BY DEF VerdictInv
<1>. USE ConstantsAssumption DEF clientVars, netVars, procVars, callVars
<1>. DEFINE Goal == /\ outcome'[r] = "new" => verdict'[r] = "none"
                    /\ outcome'[r] = "pending" /\ verdict'[r] # "none" =>
                         pc' = "read" /\ outbox'[sock'] # <<>>
<1>0. /\ outcome[r] = "new" => verdict[r] = "none"
      /\ outcome[r] = "pending" /\ verdict[r] # "none" => pc = "read" /\ outbox[sock] # <<>>
      /\ outcome[r] = "pending" <=> cur = r
  BY DEF IInv, VerdictInv, ControlInv
\* The three ways in which a step of the caller can treat the pending call.
<1>a. CASE /\ cur \in Requests /\ UNCHANGED verdict
           /\ \E how \in Outcomes \ {"pending", "new"} : Return(how)
  BY <1>0, <1>a, ReturnEffect DEF IInv
<1>b. CASE /\ UNCHANGED <<outcome, verdict>>
           /\ pc # "read" \/ outbox[sock] = <<>> \/ UNCHANGED <<pc, sock, outbox>>
  BY <1>0, <1>b
<1>1. CASE ClientStep
  <2>1. CASE (\E c \in Conns : DialOk(c)) \/ HandshakeOk \/ WriteOk
    BY <1>b, <2>1 DEF DialOk, HandshakeOk, WriteOk
  <2>2. CASE ConnectRaises /\ pc # "read" /\ UNCHANGED verdict
    BY <1>a, <1>b, <2>2 DEF ConnectRaises, IInv, TypeOK, ClientType, Outcomes
  <2>3. CASE DialFail \/ HandshakeFail
    BY <2>2, <2>3 DEF DialFail, HandshakeFail
  <2>4. CASE WriteTooLarge \/ WriteBadFd \/ ReadVerdict \/ ReadJunk \/ Timeout
    <3>1. cur \in Requests /\ UNCHANGED verdict
      BY <2>4 DEF WriteTooLarge, WriteBadFd, ReadVerdict, ReadJunk, Timeout, IInv, BusyInv
    <3>2. \E how \in Outcomes \ {"pending", "new"} : Return(how)
      BY <2>4 DEF WriteTooLarge, WriteBadFd, ReadVerdict, ReadJunk, Timeout, Outcomes
    <3>. QED  BY <1>a, <3>1, <3>2
  <2>5. CASE WriteBrokenPipe \/ ReadClosed
    <3>1. cur \in Requests /\ UNCHANGED verdict /\ (pc # "read" \/ outbox[sock] = <<>>)
      BY <2>5 DEF WriteBrokenPipe, ReadClosed, EndOfStream, IInv, BusyInv
    <3>2. UNCHANGED outcome \/ \E how \in Outcomes \ {"pending", "new"} : Return(how)
      BY <2>5 DEF WriteBrokenPipe, ReadClosed, Outcomes
    <3>. QED  BY <1>a, <1>b, <3>1, <3>2
  <2>. QED  BY <1>1, <2>1, <2>3, <2>4, <2>5 DEF ClientStep
<1>2. CASE CallerStep
  <2>1. CASE Connect \/ CloseAgent \/ \E a \in Answers : SendAnswer(a)
    BY <1>b, <2>1 DEF Connect, CloseAgent, SendAnswer
  <2>2. CASE Interrupt
    BY <2>2 DEF Interrupt, IInv
  <2>3. ASSUME NEW q \in Requests, Invoke(q) PROVE Goal
    BY <1>0, <2>3 DEF Invoke, IInv, TypeOK, CallType
  <2>. QED  BY <1>2, <2>1, <2>2, <2>3 DEF CallerStep
<1>3. CASE AssemblerStep
  <2>0. UNCHANGED <<outcome, sock, pc, cur>>
    BY <1>3 DEF AssemblerStep, Accept, TakeCall, TakeAnswer, Run, Answer, AnswerJunk, Drop, Crash, Start
  <2>1. ASSUME NEW c \in Conns, Accept(c) \/ AnswerJunk(c) \/ Answer(c), verdict'[r] = verdict[r]
        PROVE  Goal
    <3>0. PICK f : Put(c, f)
      BY <2>1 DEF Accept, AnswerJunk, Answer
    <3>a. pc = "read" => sock \in Conns
      BY DEF IInv, ControlInv, TypeOK, NetType
    <3>1. pc = "read" => outbox'[sock] = outbox[sock] \/ outbox'[sock] = Append(outbox[sock], f)
      BY <3>0, <3>a DEF Put, IInv, TypeOK, NetType
    <3>2. outbox[sock] \in Seq(ToClient) \/ pc # "read"
      BY DEF IInv, TypeOK, NetType, ControlInv
    <3>3. pc = "read" /\ outbox[sock] # <<>> => outbox'[sock] # <<>>
      BY <3>1, <3>2, AppendProperties
    <3>. QED  BY <1>0, <2>0, <2>1, <3>3
  <2>2. ASSUME NEW c \in Conns, Answer(c) PROVE Goal
    <3>1. CASE r = serving[c]
      <4>1. InFlight(r, c)
        BY <2>2, <3>1 DEF Answer, InFlight
      <4>2. outcome[r] # "new" /\ (outcome[r] = "pending" => c = sock /\ pc = "read")
        BY <4>1 DEF IInv, FlightInv
      <4>3. ASSUME c = sock, pc = "read" PROVE outbox'[sock] # <<>>
        <5>1. sock \in cliOpen /\ outbox[sock] \in Seq(ToClient)
          BY <4>3 DEF IInv, ControlInv, TypeOK, NetType
        <5>2. \E f : outbox'[sock] = Append(outbox[sock], f)
          BY <2>2, <4>3, <5>1 DEF Answer, Put, IInv, TypeOK, NetType
        <5>. QED  BY <5>1, <5>2
      <4>. QED  BY <2>0, <4>2, <4>3
    <3>2. CASE r # serving[c]
      BY <2>1, <2>2, <3>2 DEF Answer, IInv, TypeOK, CallType
    <3>. QED  BY <3>1, <3>2
  <2>3. ASSUME NEW c \in Conns, Accept(c) \/ AnswerJunk(c) PROVE Goal
    BY <2>1, <2>3 DEF Accept, AnswerJunk
  <2>4. ASSUME NEW c \in Conns, TakeCall(c) \/ TakeAnswer(c) \/ Run(c) \/ Drop(c) PROVE Goal
    BY <1>b, <2>0, <2>4 DEF TakeCall, TakeAnswer, Run, Drop
  <2>5. CASE Crash \/ Start
    BY <1>b, <2>0, <2>5 DEF Crash, Start
  <2>. QED  BY <1>3, <2>2, <2>3, <2>4, <2>5 DEF AssemblerStep
<1>4. CASE UNCHANGED vars
  BY <1>b, <1>4 DEF vars
<1>. QED  BY <1>1, <1>2, <1>3, <1>4 DEF Next

\* Every step keeps OwnReply, given the invariants on what can be read.
LEMMA OwnStep == IInv /\ [Next]_vars => OwnReply'
<1>. SUFFICES ASSUME IInv, [Next]_vars, NEW r \in Requests, outcome'[r] \in {"answered", "rejected"}
              PROVE  replyTo'[r] = r
  BY DEF OwnReply
<1>. USE ConstantsAssumption DEF clientVars, netVars, procVars, callVars
<1>0. outcome[r] \in {"answered", "rejected"} => replyTo[r] = r
  BY DEF IInv, OwnReply
<1>1. CASE ReadVerdict
  <2>1. sock \in Conns /\ sock \in cliOpen /\ cur \in Requests
    BY <1>1 DEF ReadVerdict, IInv, ControlInv, BusyInv, TypeOK, NetType
  <2>2. Head(outbox[sock]).id = cur
    BY <1>1, <2>1 DEF ReadVerdict, IInv, ReplyInv, ReadableNow, Junk, Reply, Replies
  <2>3. CASE r = cur
    BY <1>1, <2>2, <2>3 DEF ReadVerdict, IInv, TypeOK, CallType
  <2>4. CASE r # cur
    BY <1>0, <1>1, <2>4 DEF ReadVerdict, Return, IInv, TypeOK, CallType
  <2>. QED  BY <2>3, <2>4
<1>2. CASE UNCHANGED replyTo /\ outcome'[r] = outcome[r]
  BY <1>0, <1>2
<1>3. CASE /\ UNCHANGED replyTo
           /\ \E how \in {"ipc_error", "os_error", "bad_fd", "timeout"} : Return(how)
  BY <1>2, <1>3 DEF Return, IInv, TypeOK, CallType
<1>4. CASE ClientStep /\ ~ReadVerdict
  BY <1>2, <1>3, <1>4 DEF ClientStep, DialOk, DialFail, HandshakeOk, HandshakeFail, WriteTooLarge,
     WriteBadFd, WriteBrokenPipe, WriteOk, ReadJunk, ReadClosed, Timeout, ConnectRaises
<1>5. CASE CallerStep
  BY <1>2, <1>5 DEF CallerStep, Connect, CloseAgent, Interrupt, Invoke, SendAnswer, IInv, TypeOK, CallType
<1>6. CASE AssemblerStep
  BY <1>2, <1>6 DEF AssemblerStep, Accept, TakeCall, TakeAnswer, Run, Answer, AnswerJunk, Drop, Crash, Start
<1>7. CASE UNCHANGED vars
  BY <1>2, <1>7 DEF vars
<1>. QED  BY <1>1, <1>4, <1>5, <1>6, <1>7 DEF Next

\* Every step keeps OnceInv: a call is in flight on one connection at most.
LEMMA OnceStep == RunInv /\ [Next]_vars => OnceInv'
<1>. SUFFICES ASSUME RunInv, [Next]_vars, NEW r \in Requests, NEW c \in Conns, InFlight(r, c)'
              PROVE  /\ outcome'[r] \in {"pending", "timeout"}
                     /\ \A d \in Conns : InFlight(r, d)' => d = c
  BY DEF OnceInv
<1>1. CASE InFlight(r, c)
  <2>1. outcome'[r] \in {"pending", "timeout"}
    BY <1>1, FlightOutcome DEF RunInv, OnceInv
  <2>2. ASSUME NEW d \in Conns, InFlight(r, d)' PROVE d = c
    <3>1. CASE InFlight(r, d)
      BY <1>1, <3>1 DEF RunInv, OnceInv
    <3>2. CASE WriteOk /\ d = sock /\ r = cur
      BY <1>1, <3>2 DEF WriteOk, RunInv, IInv, FlightInv, ControlInv
    <3>. QED  BY <2>2, <3>1, <3>2, FlightOrigin DEF RunInv
  <2>. QED  BY <2>1, <2>2
<1>2. CASE WriteOk /\ c = sock /\ r = cur
  <2>1. outcome'[r] = "pending" /\ \A d \in Conns : ~InFlight(r, d)
    BY <1>2 DEF WriteOk, RunInv, IInv, FlightInv, ControlInv
  <2>. QED  BY <1>2, <2>1, FlightOrigin DEF RunInv
<1>. QED  BY <1>1, <1>2, FlightOrigin DEF RunInv

\* Every step keeps EvidenceInv: what an answer in the queue says of the runs.
LEMMA EvidenceStep == RunInv /\ [Next]_vars => EvidenceInv'
<1>. SUFFICES ASSUME RunInv, [Next]_vars PROVE EvidenceInv'
  OBVIOUS
<1>. USE ConstantsAssumption DEF clientVars, netVars, procVars, callVars
<1>0. IInv /\ TypeOK /\ BusyInv
  BY DEF RunInv, IInv
<1>1. ASSUME NEW c \in Conns, asm'[c] = "ran" PROVE runs'[serving'[c]] > 0
  <2>0. asm[c] = "ran" => runs[serving[c]] > 0 /\ serving[c] \in Requests
    BY <1>0 DEF RunInv, EvidenceInv, BusyInv
  <2>1. ASSUME NEW d \in Conns, Run(d) PROVE runs'[serving'[c]] > 0
    <3>1. serving' = serving /\ serving[d] \in Requests /\ (c = d \/ asm[c] = "ran")
      BY <1>0, <1>1, <2>1 DEF Run, BusyInv, TypeOK, NetType
    <3>2. serving[c] \in Requests /\ runs \in [Requests -> Nat]
      BY <1>0, <2>0, <3>1 DEF TypeOK, CallType
    <3>3. runs'[serving[c]] = runs[serving[c]] + (IF serving[c] = serving[d] THEN 1 ELSE 0)
      BY <2>1, <3>1, <3>2 DEF Run
    <3>. QED  BY <2>0, <3>1, <3>2, <3>3
  <2>2. CASE UNCHANGED runs /\ asm[c] = "ran" /\ serving'[c] = serving[c]
    BY <2>0, <2>2
  <2>3. CASE ClientStep \/ CallerStep \/ UNCHANGED vars
    BY <1>0, <1>1, <2>2, <2>3 DEF ClientStep, DialOk, DialFail, HandshakeOk, HandshakeFail, WriteTooLarge,
       WriteBadFd, WriteBrokenPipe, WriteOk, ReadVerdict, ReadJunk, ReadClosed, Timeout, CallerStep,
       Connect, CloseAgent, Interrupt, Invoke, SendAnswer, vars, TypeOK, NetType
  <2>4. CASE AssemblerStep
    BY <1>0, <1>1, <2>1, <2>2, <2>4 DEF AssemblerStep, Accept, TakeCall, TakeAnswer, Answer, AnswerJunk,
       Drop, Crash, Start, TypeOK, NetType
  <2>. QED  BY <2>3, <2>4 DEF Next
<1>2. ASSUME pc' = "read", outbox'[sock'] = <<Reply("response", cur')>> PROVE runs'[cur'] > 0
  <2>0. pc = "read" /\ outbox[sock] = <<Reply("response", cur)>> => runs[cur] > 0
    BY DEF RunInv, EvidenceInv
  <2>1. CASE WriteOk
    <3>1. outbox'[sock'] \in {<<>>, <<Junk>>}
      BY <1>0, <2>1 DEF WriteOk, IInv, ReplyInv, ReadableNow, TypeOK, NetType
    <3>2. Junk # Reply("response", cur')
      BY DEF Junk, Reply
    <3>. QED  BY <1>2, <3>1, <3>2
  <2>2. CASE ClientStep /\ ~WriteOk
    BY <1>2, <2>2 DEF ClientStep, DialOk, DialFail, HandshakeOk, HandshakeFail, WriteTooLarge,
       WriteBadFd, WriteBrokenPipe, ReadVerdict, ReadJunk, ReadClosed, Timeout, ConnectRaises, Return, Redial
  <2>3. CASE CallerStep
    BY <1>2, <2>3 DEF CallerStep, Connect, CloseAgent, Interrupt, Invoke, SendAnswer, Return, Redial, RunInv, IInv
  <2>4. CASE AssemblerStep
    <3>0. UNCHANGED <<pc, cur, sock>> /\ cur \in Requests /\ sock \in Conns /\ sock \in cliOpen
      BY <1>0, <1>2, <2>4 DEF AssemblerStep, Accept, TakeCall, TakeAnswer, Run, Answer, AnswerJunk, Drop,
         Crash, Start, IInv, BusyInv, ControlInv, TypeOK, NetType
    <3>1. ASSUME NEW c \in Conns, Answer(c), c = sock PROVE runs'[cur'] > 0
      <4>1. serving[c] = cur /\ outbox[c] = <<>>
        BY <1>0, <3>0, <3>1 DEF Answer, IInv, BusyInv, FlightInv, InFlight, ReplyInv
      <4>2. asm[c] = "ran"
        <5>1. CASE asm[c] = "busy"
          <6>1. outbox'[c] = <<Reply("rejected", cur)>>
            BY <1>0, <3>0, <3>1, <4>1, <5>1 DEF Answer, Put, TypeOK, NetType
          <6>. QED  BY <1>2, <3>0, <3>1, <6>1 DEF Reply
        <5>. QED  BY <3>1, <5>1 DEF Answer
      <4>. QED  BY <3>0, <3>1, <4>1, <4>2 DEF Answer, RunInv, EvidenceInv
    <3>2. ASSUME NEW c \in Conns, AnswerJunk(c), c = sock PROVE FALSE
      <4>1. outbox[c] = <<>>
        BY <1>0, <3>0, <3>2 DEF AnswerJunk, IInv, ReplyInv
      <4>2. outbox'[c] = <<Junk>>
        BY <1>0, <3>0, <3>2, <4>1 DEF AnswerJunk, Put, TypeOK, NetType
      <4>. QED  BY <1>2, <3>0, <3>2, <4>2 DEF Reply, Junk
    <3>3. ASSUME NEW c \in Conns, Accept(c) PROVE c # sock
      BY <1>0, <3>0, <3>3 DEF Accept, IInv, ConnInv
    <3>4. ASSUME NEW c \in Conns, NEW f, Put(c, f), c # sock PROVE outbox'[sock] = outbox[sock]
      BY <1>0, <3>0, <3>4 DEF Put, TypeOK, NetType
    <3>5. runs[cur] \in Nat /\ runs'[cur] \in {runs[cur], runs[cur] + 1}
      <4>1. runs[cur] \in Nat
        BY <1>0, <3>0 DEF TypeOK, CallType
      <4>2. ASSUME NEW c \in Conns, Run(c) PROVE runs'[cur] \in {runs[cur], runs[cur] + 1}
        BY <1>0, <3>0, <4>2 DEF Run, TypeOK, CallType
      <4>. QED  BY <2>4, <4>1, <4>2 DEF AssemblerStep, Accept, TakeCall, TakeAnswer, Answer, AnswerJunk,
                   Drop, Crash, Start
    <3>6. CASE outbox'[sock] = outbox[sock]
      BY <1>2, <2>0, <3>0, <3>5, <3>6
    <3>7. ASSUME NEW c \in Conns, Accept(c) \/ Answer(c) \/ AnswerJunk(c) PROVE runs'[cur'] > 0
      <4>1. CASE c = sock
        BY <3>1, <3>2, <3>3, <3>7, <4>1
      <4>2. CASE c # sock
        <5>1. \E f : Put(c, f)
          BY <3>7 DEF Accept, Answer, AnswerJunk
        <5>. QED  BY <3>4, <3>6, <4>2, <5>1
      <4>. QED  BY <4>1, <4>2
    <3>8. CASE UNCHANGED outbox
      BY <3>6, <3>8
    <3>. QED  BY <2>4, <3>7, <3>8 DEF AssemblerStep, TakeCall, TakeAnswer, Run, Drop, Crash, Start
  <2>5. CASE UNCHANGED vars
    BY <1>2, <2>0, <2>5 DEF vars
  <2>. QED  BY <2>1, <2>2, <2>3, <2>4, <2>5 DEF Next
<1>. QED  BY <1>1, <1>2 DEF EvidenceInv

\* Every step keeps CountInv: the runs of a call stay within what was lost.
LEMMA CountStep == RunInv /\ [Next]_vars => CountInv'
<1>. SUFFICES ASSUME RunInv, [Next]_vars, NEW r \in Requests PROVE CountOf(r)'
  BY DEF CountInv
<1>. USE ConstantsAssumption DEF clientVars, netVars, procVars, callVars
<1>0. IInv /\ TypeOK /\ runs[r] \in Nat /\ CountOf(r)
  BY DEF RunInv, IInv, TypeOK, CallType, CountInv
\* A step that counts nothing leaves the last conjunct to the calls in flight.
<1>a. ASSUME UNCHANGED <<runs, lost>>, NEW c \in Conns, InFlight(r, c)', asm'[c] # "ran"
      PROVE  MayRun(r)'
  <2>1. CASE InFlight(r, c) /\ asm[c] # "ran"
    BY <1>0, <1>a, <2>1 DEF CountOf, MayRun
  <2>2. CASE WriteOk /\ r = cur
    BY <1>0, <1>a, <2>2 DEF CountOf, MayRun, WriteOk
  <2>3. CASE asm[c] = "ran"
    <3>1. ASSUME NEW d \in Conns, AssemblerStep, asm'[d] # asm[d], asm[d] = "ran"
          PROVE  asm'[d] \in {"replied", "closed"}
      BY <1>0, <3>1 DEF AssemblerStep, Accept, TakeCall, TakeAnswer, Run, Answer, AnswerJunk, Drop, Crash,
         Start, TypeOK, NetType
    <3>2. CASE AssemblerStep
      BY <1>a, <2>3, <3>1, <3>2 DEF InFlight
    <3>3. CASE ClientStep \/ CallerStep \/ UNCHANGED vars
      BY <1>0, <1>a, <2>3, <3>3 DEF ClientStep, DialOk, DialFail, HandshakeOk, HandshakeFail, WriteTooLarge,
         WriteBadFd, WriteBrokenPipe, WriteOk, ReadVerdict, ReadJunk, ReadClosed, Timeout, CallerStep,
         Connect, CloseAgent, Interrupt, Invoke, SendAnswer, vars, TypeOK, NetType
    <3>. QED  BY <3>2, <3>3 DEF Next
  <2>. QED  BY <1>0, <1>a, <2>1, <2>2, <2>3, FlightOrigin
\* A call that ends is counted no more.
<1>b. CASE UNCHANGED <<runs, lost>> /\ cur' = NoRequest /\ (outcome'[r] = "new" => outcome[r] = "new")
  BY <1>0, <1>a, <1>b DEF CountOf
<1>c. CASE /\ UNCHANGED <<runs, lost, cur, outcome>> /\ pc # "read" /\ pc' # "read"
           /\ attempt' \in {attempt, 2}
  <2>. MayRun(r)' <=> MayRun(r)
    BY <1>c DEF MayRun
  <2>. QED  BY <1>0, <1>a, <1>c DEF CountOf
<1>d. CASE /\ cur \in Requests /\ UNCHANGED <<runs, lost>>
           /\ \E how \in Outcomes \ {"pending", "new"} : Return(how)
  BY <1>0, <1>b, <1>d, ReturnEffect DEF IInv
<1>1. CASE ClientStep
  <2>1. CASE (\E c \in Conns : DialOk(c)) \/ HandshakeOk
    BY <1>c, <2>1 DEF DialOk, HandshakeOk
  <2>2. CASE ConnectRaises /\ pc # "read" /\ UNCHANGED <<runs, lost>>
    BY <1>0, <1>c, <1>d, <2>2 DEF ConnectRaises, TypeOK, ClientType, Outcomes
  <2>3. CASE DialFail \/ HandshakeFail
    BY <2>2, <2>3 DEF DialFail, HandshakeFail
  <2>4. CASE WriteTooLarge \/ WriteBadFd \/ ReadVerdict \/ ReadJunk \/ Timeout
    <3>1. cur \in Requests /\ UNCHANGED <<runs, lost>>
      BY <2>4 DEF WriteTooLarge, WriteBadFd, ReadVerdict, ReadJunk, Timeout, RunInv, IInv, BusyInv
    <3>2. \E how \in Outcomes \ {"pending", "new"} : Return(how)
      BY <2>4 DEF WriteTooLarge, WriteBadFd, ReadVerdict, ReadJunk, Timeout, Outcomes
    <3>. QED  BY <1>d, <3>1, <3>2
  <2>5. CASE WriteBrokenPipe
    <3>1. CASE MayRetry
      BY <1>c, <2>5, <3>1 DEF WriteBrokenPipe, Redial, MayRetry
    <3>2. CASE ~MayRetry
      BY <1>d, <2>5, <3>2 DEF WriteBrokenPipe, RunInv, IInv, BusyInv, Outcomes
    <3>. QED  BY <3>1, <3>2
  <2>6. CASE ReadClosed
    <3>1. CASE MayRetry
      <4>1. /\ UNCHANGED <<cur, outcome, runs, lost>> /\ attempt = 1 /\ attempt' = 2
            /\ pc = "read" /\ outbox[sock] = <<>> /\ asm[sock] = "closed"
        BY <2>6, <3>1 DEF ReadClosed, MayRetry, Redial, EndOfStream, PeerGone
      <4>2. MayRun(r)' <=> MayRun(r)
        BY <4>1 DEF MayRun
      <4>. QED  BY <1>0, <1>a, <4>1, <4>2 DEF CountOf
    <3>2. CASE ~MayRetry
      BY <1>d, <2>6, <3>2 DEF ReadClosed, RunInv, IInv, BusyInv, Outcomes
    <3>. QED  BY <3>1, <3>2
  <2>7. CASE WriteOk
    <3>1. UNCHANGED <<runs, lost, cur, outcome, attempt>> /\ pc = "write" /\ pc' = "read"
      BY <2>7 DEF WriteOk
    <3>2. MayRun(r)' <=> MayRun(r)
      BY <3>1 DEF MayRun
    <3>3. runs[r] = 0 => MayRun(r)
      BY DEF MayRun
    <3>. QED  BY <1>0, <1>a, <3>1, <3>2, <3>3 DEF CountOf
  <2>. QED  BY <1>1, <2>1, <2>3, <2>4, <2>5, <2>6, <2>7 DEF ClientStep
<1>2. CASE CallerStep
  <2>1. CASE Connect \/ CloseAgent \/ \E a \in Answers : SendAnswer(a)
    BY <1>c, <2>1 DEF Connect, CloseAgent, SendAnswer
  <2>2. CASE Interrupt
    BY <1>0, <2>2 DEF Interrupt, IInv
  <2>3. ASSUME NEW q \in Requests, Invoke(q) PROVE CountOf(r)'
    <3>1. /\ UNCHANGED <<runs, lost>> /\ cur' = q /\ pc' # "read"
          /\ r # q => outcome'[r] = outcome[r]
          /\ r = q => outcome[r] = "new" /\ outcome'[r] = "pending"
      BY <1>0, <2>3 DEF Invoke, Redial, TypeOK, CallType
    <3>2. runs[r] = 0 => MayRun(r)'
      BY <3>1 DEF MayRun
    <3>. QED  BY <1>0, <1>a, <3>1, <3>2 DEF CountOf
  <2>. QED  BY <1>2, <2>1, <2>2, <2>3 DEF CallerStep
<1>3. CASE AssemblerStep
  <2>0. UNCHANGED <<outcome, sock, pc, cur, attempt, cliOpen>>
    BY <1>3 DEF AssemblerStep, Accept, TakeCall, TakeAnswer, Run, Answer, AnswerJunk, Drop, Crash, Start
  <2>00. ASSUME cur = r, pc = "read"
         PROVE  /\ sock \in Conns /\ sock \in cliOpen /\ asm[sock] \in AsmStates \ {"none", "backlog"}
                /\ asm[sock] \in {"busy", "ran"} => serving[sock] = r
    BY <1>0, <2>00 DEF IInv, ControlInv, BusyInv, ConnInv, FlightInv, InFlight, TypeOK, NetType
  <2>a. CASE /\ UNCHANGED <<runs, lost>>
             /\ cur = r /\ pc = "read" =>
                  /\ asm'[sock] \in {"backlog", "ready", "busy"} => asm[sock] \in {"ready", "busy"}
                  /\ asm'[sock] \in {"replied", "closed"} /\ outbox'[sock] = <<>> =>
                        asm[sock] = "ready" \/ (asm[sock] \in {"replied", "closed"} /\ outbox[sock] = <<>>)
    <3>1. MayRun(r)' <=> MayRun(r)
      BY <2>a DEF MayRun
    <3>2. runs[r] = 0 => MayRun(r)
      BY DEF MayRun
    <3>. QED  BY <1>0, <1>a, <2>0, <2>a, <3>1, <3>2 DEF CountOf
  <2>1. ASSUME NEW c \in Conns, TakeCall(c) \/ TakeAnswer(c) \/ Drop(c) PROVE CountOf(r)'
    BY <1>0, <2>00, <2>a, <2>1 DEF TakeCall, TakeAnswer, Drop, TypeOK, NetType
  <2>2. ASSUME NEW c \in Conns, Accept(c) PROVE CountOf(r)'
    <3>1. cur = r /\ pc = "read" => c # sock
      BY <2>00, <2>2 DEF Accept
    <3>. QED  BY <1>0, <2>00, <2>a, <2>2, <3>1 DEF Accept, Put, TypeOK, NetType
  <2>3. ASSUME NEW c \in Conns, Answer(c) \/ AnswerJunk(c) PROVE CountOf(r)'
    <3>0. PICK f : Put(c, f)
      BY <2>3 DEF Answer, AnswerJunk
    <3>1. UNCHANGED <<runs, lost>> /\ asm' = [asm EXCEPT ![c] = "replied"]
      BY <2>3 DEF Answer, AnswerJunk
    <3>2. CASE cur = r /\ pc = "read" => c # sock
      BY <1>0, <2>00, <2>a, <3>0, <3>1, <3>2 DEF Put, TypeOK, NetType
    <3>3. CASE cur = r /\ pc = "read" /\ c = sock
      <4>1. asm'[sock] = "replied"
        BY <1>0, <3>1, <3>3 DEF TypeOK, NetType
      <4>2. outbox'[sock] # <<>>
        <5>1. outbox'[sock] = Append(outbox[sock], f) /\ outbox[sock] \in Seq(ToClient)
          BY <1>0, <2>00, <3>0, <3>3 DEF Put, TypeOK, NetType
        <5>. QED  BY <5>1
      <4>. QED  BY <2>a, <3>1, <4>1, <4>2
    <3>. QED  BY <3>2, <3>3
  <2>4. ASSUME NEW c \in Conns, Run(c) PROVE CountOf(r)'
    <3>0. /\ UNCHANGED <<lost, serving, inbox, outbox>> /\ serving[c] \in Requests
          /\ asm[c] = "busy" /\ asm'[c] = "ran"
          /\ \A d \in Conns : d # c => asm'[d] = asm[d]
      BY <1>0, <2>4 DEF Run, IInv, BusyInv, TypeOK, NetType
    <3>1. CASE serving[c] # r
      <4>1. runs'[r] = runs[r]
        BY <1>0, <2>4, <3>1 DEF Run, TypeOK, CallType
      <4>2. MayRun(r)' <=> MayRun(r)
        BY <3>0, <4>1 DEF MayRun
      <4>3. cur = r /\ pc = "read" => sock # c
        BY <2>00, <3>0, <3>1
      <4>4. ASSUME NEW d \in Conns, InFlight(r, d)', asm'[d] # "ran" PROVE InFlight(r, d) /\ asm[d] # "ran"
        BY <3>0, <4>4 DEF InFlight
      <4>5. cur = r /\ pc = "read" => asm'[sock] = asm[sock] /\ outbox'[sock] = outbox[sock]
        BY <2>00, <3>0, <4>3
      <4>6. r \in lost' <=> r \in lost
        BY <3>0
      <4>. QED  BY <1>0, <2>0, <4>1, <4>2, <4>4, <4>5, <4>6 DEF CountOf
    <3>2. CASE serving[c] = r
      <4>1. runs'[r] = runs[r] + 1
        BY <1>0, <2>4, <3>2 DEF Run, TypeOK, CallType
      <4>2. InFlight(r, c)
        BY <3>0, <3>2 DEF InFlight
      <4>3. outcome[r] # "new" /\ (cur = r => c = sock /\ pc = "read")
        BY <1>0, <4>2 DEF IInv, FlightInv, ControlInv
      <4>4. MayRun(r) /\ (cur = r /\ attempt = 1 => runs[r] = 0)
        BY <1>0, <3>0, <4>2, <4>3 DEF CountOf
      <4>5. ASSUME NEW d \in Conns, InFlight(r, d)' PROVE asm'[d] = "ran"
        <5>1. InFlight(r, d)
          BY <1>0, <2>4, <4>5, FlightOrigin DEF Run, WriteOk, TypeOK, NetType
        <5>. QED  BY <3>0, <4>2, <5>1 DEF RunInv, OnceInv
      <4>6. runs'[r] <= 1 \/ (runs'[r] <= 2 /\ r \in lost')
        BY <1>0, <3>0, <4>1, <4>4 DEF MayRun
      <4>. QED  BY <1>0, <2>0, <3>0, <4>1, <4>3, <4>4, <4>5, <4>6 DEF CountOf
    <3>. QED  BY <3>1, <3>2
  <2>5. CASE Crash
    <3>0. /\ UNCHANGED <<runs, outbox>>
          /\ r \in lost => r \in lost'
          /\ \A d \in Conns : asm[d] \in {"busy", "ran"} => serving[d] \in lost'
          /\ \A d \in Conns : asm'[d] \in {asm[d], "closed"}
          /\ \A d \in Conns : asm'[d] \in {"none", "backlog", "closed"}
      BY <1>0, <2>5 DEF Crash, TypeOK, NetType
    <3>1. MayRun(r) => MayRun(r)'
      BY <1>0, <3>0 DEF MayRun
    <3>2. ASSUME cur = r, pc = "read", attempt = 1, outbox[sock] = <<>> PROVE MayRun(r)'
      <4>1. CASE asm[sock] = "ran"
        BY <1>0, <2>00, <3>0, <3>2, <4>1 DEF CountOf, MayRun
      <4>2. CASE asm[sock] # "ran"
        <5>1. runs[r] = 0 => MayRun(r)'
          BY <3>0 DEF MayRun
        <5>. QED  BY <1>0, <2>00, <3>1, <3>2, <4>2, <5>1 DEF CountOf, AsmStates
      <4>. QED  BY <4>1, <4>2
    <3>3. ASSUME NEW d \in Conns, InFlight(r, d)' PROVE MayRun(r)'
      <4>1. InFlight(r, d) /\ asm[d] # "ran"
        <5>1. InFlight(r, d)
          BY <1>0, <2>5, <3>3, FlightOrigin DEF Crash, WriteOk
        <5>2. asm'[d] # "closed"
          BY <3>3 DEF InFlight
        <5>. QED  BY <3>0, <5>1, <5>2
      <4>. QED  BY <1>0, <3>1, <4>1 DEF CountOf
    <3>4. cur = r /\ pc = "read" => asm'[sock] = "closed"
      BY <2>00, <3>0
    <3>. QED  BY <1>0, <2>0, <3>0, <3>1, <3>2, <3>3, <3>4 DEF CountOf
  <2>6. CASE Start
    BY <2>a, <2>00, <2>6 DEF Start
  <2>. QED  BY <1>3, <2>1, <2>2, <2>3, <2>4, <2>5, <2>6 DEF AssemblerStep
<1>4. CASE UNCHANGED vars
  <2>1. MayRun(r)' <=> MayRun(r)
    BY <1>4 DEF vars, MayRun
  <2>. QED  BY <1>0, <1>a, <1>4, <2>1 DEF vars, CountOf
<1>. QED  BY <1>1, <1>2, <1>3, <1>4 DEF Next

-----------------------------------------------------------------------------
(* The theorems.                                                           *)

\* The inductive invariant holds initially.
LEMMA IInvInit == Init /\ Interrupts = FALSE => IInv
<1>. SUFFICES ASSUME Init, Interrupts = FALSE PROVE IInv
  OBVIOUS
<1>1. TypeOK /\ BusyInv
  BY TypeInit
<1>2. ControlInv /\ FreshInv /\ ConnInv /\ ReplyInv /\ VerdictInv /\ OwnReply
  BY ConstantsAssumption DEF Init, ControlInv, FreshInv, ConnInv, ReplyInv, VerdictInv, OwnReply
<1>3. FlightInv
  BY DEF Init, FlightInv, InFlight
<1>. QED  BY <1>1, <1>2, <1>3 DEF IInv

\* The inductive invariant is kept by every step.
LEMMA IInvStep == IInv /\ [Next]_vars => IInv'
<1>. SUFFICES ASSUME IInv, [Next]_vars PROVE IInv'
  OBVIOUS
<1>1. TypeOK' /\ BusyInv' /\ ControlInv' /\ FreshInv' /\ ConnInv'
  BY TypeStep, BusyStep, ControlStep, FreshStep, ConnStep DEF IInv
<1>2. FlightInv' /\ ReplyInv' /\ VerdictInv' /\ OwnReply'
  BY FlightStep, ReplyStep, VerdictStep, OwnStep
<1>. QED  BY <1>1, <1>2 DEF IInv

\* As long as no foreign exception ends a wait, the caller of a tool call never
\* gets the verdict of another, whatever the Assembler and its crashes do.
THEOREM OwnReplyCorrect == ASSUME Interrupts = FALSE PROVE Spec => []OwnReply
<1>1. Init => IInv
  BY IInvInit
<1>2. IInv /\ [Next]_vars => IInv'
  BY IInvStep
<1>3. IInv => OwnReply
  BY DEF IInv
<1>. QED  BY <1>1, <1>2, <1>3, PTL DEF Spec

\* No step writes a call again that the Assembler has given a verdict to.
LEMMA NoWriteAfterVerdict ==
    IInv /\ [Next]_vars => \A r \in Requests : verdict[r] # "none" => sent'[r] = sent[r]
<1>. SUFFICES ASSUME IInv, [Next]_vars, NEW r \in Requests, verdict[r] # "none"
              PROVE  sent'[r] = sent[r]
  OBVIOUS
<1>. USE DEF clientVars, netVars, procVars, callVars
<1>1. CASE WriteOk
  <2>1. r # cur
    BY <1>1 DEF WriteOk, IInv, VerdictInv, ControlInv, BusyInv
  <2>. QED  BY <1>1, <2>1 DEF WriteOk, IInv, TypeOK, CallType
<1>2. CASE ClientStep /\ ~WriteOk
  BY <1>2 DEF ClientStep, DialOk, DialFail, HandshakeOk, HandshakeFail, WriteTooLarge,
     WriteBadFd, WriteBrokenPipe, ReadVerdict, ReadJunk, ReadClosed, Timeout
<1>3. CASE CallerStep
  BY <1>3 DEF CallerStep, Connect, CloseAgent, Interrupt, Invoke, SendAnswer
<1>4. CASE AssemblerStep
  BY <1>4 DEF AssemblerStep, Accept, TakeCall, TakeAnswer, Run, Answer, AnswerJunk, Drop, Crash, Start
<1>5. CASE UNCHANGED vars
  BY <1>5 DEF vars
<1>. QED  BY <1>1, <1>2, <1>3, <1>4, <1>5 DEF Next

\* The re-dial never repeats a call whose verdict exists already, even one that
\* the client has not read yet.
THEOREM VerdictIsFinalCorrect == ASSUME Interrupts = FALSE PROVE Spec => VerdictIsFinal
<1>1. Init => IInv
  BY IInvInit
<1>2. IInv /\ [Next]_vars => IInv'
  BY IInvStep
<1>3. IInv /\ [Next]_vars => [\A r \in Requests : verdict[r] # "none" => sent'[r] = sent[r]]_vars
  BY NoWriteAfterVerdict
<1>. QED  BY <1>1, <1>2, <1>3, PTL DEF Spec, VerdictIsFinal

\* The strengthened invariant about runs holds initially.
LEMMA RunInvInit == Init /\ Interrupts = FALSE => RunInv
<1>. SUFFICES ASSUME Init, Interrupts = FALSE PROVE RunInv
  OBVIOUS
<1>1. IInv
  BY IInvInit
<1>2. OnceInv /\ CountInv /\ EvidenceInv
  BY ConstantsAssumption DEF Init, OnceInv, CountInv, CountOf, EvidenceInv, InFlight
<1>. QED  BY <1>1, <1>2 DEF RunInv

\* The strengthened invariant about runs is kept by every step.
LEMMA RunInvStep == RunInv /\ [Next]_vars => RunInv'
BY IInvStep, OnceStep, CountStep, EvidenceStep DEF RunInv

\* The tool behind a call runs once, or twice when the Assembler died serving the
\* call, for every number of crashes and connections.
THEOREM RunBoundCorrect == ASSUME Interrupts = FALSE PROVE Spec => []RunBound
<1>1. Init => RunInv
  BY RunInvInit
<1>2. RunInv /\ [Next]_vars => RunInv'
  BY RunInvStep
<1>3. RunInv => RunBound
  <2>. SUFFICES ASSUME RunInv, NEW r \in Requests
                PROVE  runs[r] <= (IF r \in lost THEN 2 ELSE 1)
    BY DEF RunBound
  <2>1. runs[r] \in Nat
    BY DEF RunInv, IInv, TypeOK, CallType
  <2>2. runs[r] <= 1 \/ (runs[r] <= 2 /\ r \in lost)
    BY DEF RunInv, CountInv, CountOf
  <2>. QED  BY <2>1, <2>2
<1>. QED  BY <1>1, <1>2, <1>3, PTL DEF Spec

-----------------------------------------------------------------------------
(* The client implements ToolCall.                                         *)

\* A call that returns ends in the abstract specification too.
LEMMA ReturnRefines ==
    ASSUME RunInv, cur \in Requests, NEW how \in Outcomes \ {"new", "pending"}, Return(how),
           UNCHANGED runs, how = "answered" => runs[cur] > 0
    PROVE  Promise!Next
<1>. DEFINE Ended == IF how \in Failures THEN "failed" ELSE how
<1>1. Ended \in {"answered", "rejected", "timeout", "failed"} /\ (Ended = "answered" => how = "answered")
  BY DEF Outcomes, Failures
<1>2. callStatus[cur] = "pending"
  BY DEF RunInv, IInv, ControlInv, callStatus, Failures
<1>3. callStatus' = [callStatus EXCEPT ![cur] = Ended]
  BY DEF callStatus, Return, RunInv, IInv, TypeOK, CallType
<1>4. Promise!Finish(cur, Ended)
  BY <1>1, <1>2, <1>3 DEF Promise!Finish
<1>. QED  BY <1>1, <1>4 DEF Promise!Next

\* Every step of the client is a step of ToolCall, or changes nothing in it.
LEMMA StepRefines == RunInv /\ [Next]_vars => [Promise!Next]_(Promise!callVars)
<1>. SUFFICES ASSUME RunInv, [Next]_vars PROVE Promise!Next \/ UNCHANGED <<callStatus, runs>>
  BY DEF Promise!callVars
<1>. USE ConstantsAssumption DEF clientVars, netVars, procVars, callVars
<1>0. IInv /\ TypeOK /\ BusyInv
  BY DEF RunInv, IInv
<1>a. CASE UNCHANGED <<outcome, runs>>
  BY <1>a DEF callStatus
<1>1. ASSUME NEW r \in Requests, Invoke(r) PROVE Promise!Next
  <2>1. callStatus[r] = "new" /\ callStatus' = [callStatus EXCEPT ![r] = "pending"]
    BY <1>0, <1>1 DEF Invoke, callStatus, Failures, TypeOK, CallType
  <2>2. \A q \in Requests : callStatus[q] # "pending"
    BY <1>0, <1>1 DEF Invoke, BusyInv, IInv, ControlInv, callStatus
  <2>3. Promise!Begin(r)
    BY <1>1, <2>1, <2>2 DEF Invoke, Promise!Begin
  <2>. QED  BY <2>3 DEF Promise!Next
<1>2. ASSUME NEW c \in Conns, Run(c) PROVE Promise!Next
  <2>1. serving[c] \in Requests /\ InFlight(serving[c], c) /\ asm[c] # "ran"
    BY <1>0, <1>2 DEF Run, BusyInv, InFlight
  <2>2. callStatus[serving[c]] \in {"pending", "timeout"} /\ UNCHANGED callStatus
    BY <1>2, <2>1 DEF Run, RunInv, OnceInv, callStatus, Failures
  <2>3. MayRun(serving[c]) /\ runs[serving[c]] \in Nat
    BY <1>0, <2>1 DEF RunInv, CountInv, CountOf, TypeOK, CallType
  <2>4. Promise!Run(serving[c])
    BY <1>2, <2>1, <2>2, <2>3 DEF Run, Promise!Run, MayRun
  <2>. QED  BY <2>1, <2>4 DEF Promise!Next
<1>3. CASE ReadVerdict
  <2>1. cur \in Requests /\ sock \in Conns /\ sock \in cliOpen /\ UNCHANGED runs
    BY <1>0, <1>3 DEF ReadVerdict, BusyInv, IInv, ControlInv, TypeOK, NetType
  <2>2. Head(outbox[sock]).type = "response" => runs[cur] > 0
    BY <1>0, <1>3, <2>1 DEF ReadVerdict, RunInv, EvidenceInv, IInv, ReplyInv, ReadableNow, Reply, Junk
  <2>. QED  BY <1>3, <2>1, <2>2, ReturnRefines DEF ReadVerdict, Outcomes
<1>4. CASE UNCHANGED runs /\ cur \in Requests /\ \E how \in Failures \cup {"timeout"} : Return(how)
  BY <1>4, ReturnRefines DEF Failures, Outcomes
<1>5. CASE ClientStep /\ ~ReadVerdict
  <2>1. CASE DialFail \/ HandshakeFail
    BY <1>0, <1>a, <1>4, <2>1 DEF DialFail, HandshakeFail, ConnectRaises, Failures, TypeOK, ClientType
  <2>2. CASE WriteTooLarge \/ WriteBadFd \/ WriteBrokenPipe \/ ReadJunk \/ ReadClosed \/ Timeout
    <3>1. cur \in Requests /\ UNCHANGED runs
      BY <1>0, <2>2 DEF WriteTooLarge, WriteBadFd, WriteBrokenPipe, ReadJunk, ReadClosed, Timeout, BusyInv
    <3>2. UNCHANGED outcome \/ \E how \in Failures \cup {"timeout"} : Return(how)
      BY <2>2 DEF WriteTooLarge, WriteBadFd, WriteBrokenPipe, ReadJunk, ReadClosed, Timeout, Failures
    <3>. QED  BY <1>a, <1>4, <3>1, <3>2
  <2>. QED  BY <1>a, <1>5, <2>1, <2>2 DEF ClientStep, DialOk, HandshakeOk, WriteOk
<1>6. CASE CallerStep
  BY <1>0, <1>a, <1>1, <1>6 DEF CallerStep, Connect, CloseAgent, Interrupt, SendAnswer, IInv
<1>7. CASE AssemblerStep
  BY <1>a, <1>2, <1>7 DEF AssemblerStep, Accept, TakeCall, TakeAnswer, Answer, AnswerJunk, Drop, Crash, Start
<1>8. CASE UNCHANGED vars
  BY <1>a, <1>8 DEF vars
<1>. QED  BY <1>3, <1>5, <1>6, <1>7, <1>8 DEF Next

\* The client, its connections and a crashing Assembler together implement what
\* ToolCall promises: one call at a time, answers backed by a run, and no run
\* before the call or after its end.
THEOREM KeepsPromiseCorrect == ASSUME Interrupts = FALSE PROVE Spec => KeepsPromise
<1>1. Init => RunInv
  BY RunInvInit
<1>2. Init => Promise!Init
  BY DEF Init, Promise!Init, callStatus, Failures
<1>3. RunInv /\ [Next]_vars => RunInv'
  BY RunInvStep
<1>4. RunInv /\ [Next]_vars => [Promise!Next]_(Promise!callVars)
  BY StepRefines
<1>. QED  BY <1>1, <1>2, <1>3, <1>4, PTL DEF Spec, KeepsPromise, Promise!Spec
=============================================================================
