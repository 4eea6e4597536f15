------------------------ MODULE ControlChannelProofs ------------------------
(***************************************************************************)
(* Proofs about ControlChannel, for every set of calls and handles.        *)
(***************************************************************************)
EXTENDS ControlChannel, SequenceTheorems, TLAPS

-----------------------------------------------------------------------------
(* The inductive invariant.                                                *)

\* The lock belongs to the one call that is inside request.
LockInv == \A r \in Requests : holder = r <=> pc[r] \in {"check", "write", "read"}

\* A call that has ended is done, and nothing ends twice.
DoneInv == \A r \in Requests :
             /\ outcome[r] # "none" => pc[r] = "done"
             /\ outcome[r] = "stream" => got[r] \in Handles

\* What was written and not read: the one request that waits, or its one reply.
Quiet      == toBroker = <<>> /\ fromBroker = <<>>
OneTurn(r) ==
    \/ toBroker = <<r>> /\ fromBroker = <<>> /\ \A h \in Handles : owner[h] # r
    \/ /\ toBroker = <<>>
       /\ \E f \in Replies :
            /\ fromBroker = <<f>>
            /\ \A h \in Handles : owner[h] = r <=> f.value = h

\* The two sides are in step: the channel is empty when a request is written to it
\* and unless a call waits for its reply. (Once retired it may hold what nobody
\* will read.)
TurnInv ==
    /\ ~broken /\ (\A r \in Requests : pc[r] # "read") => Quiet
    /\ \A r \in Requests : pc[r] = "write" => Quiet
    /\ \A r \in Requests : pc[r] = "read" => OneTurn(r)

\* Nothing is vended to a call that has not asked, and what a call got is its own.
OwnerInv ==
    \A h \in Handles, r \in Requests :
      /\ owner[h] = r => pc[r] \in {"read", "adopt", "done"}
      /\ pc[r] = "adopt" \/ outcome[r] = "stream" => (got[r] = h => owner[h] = r)

\* A request the broker has not read is the only one, and its call waits or gave up.
AskedInv == toBroker # <<>> => \E r \in Requests : toBroker = <<r>> /\ pc[r] \in {"read", "done"}

ChannelInv == TypeOK /\ LockInv /\ DoneInv /\ TurnInv /\ AskedInv /\ OwnerInv /\ NoOrphan
              /\ Interrupts = FALSE

-----------------------------------------------------------------------------
\* Every step keeps the types.
LEMMA TypeStep == TypeOK /\ [Next]_vars => TypeOK'
<1> SUFFICES ASSUME TypeOK, [Next]_vars PROVE TypeOK'
  OBVIOUS
<1> USE DEF TypeOK
<1>1. ASSUME NEW r \in Requests, Begin(r) PROVE TypeOK'
  BY <1>1 DEF Begin, Finish, lockVars, pipeVars, Outcomes
<1>2. ASSUME NEW r \in Requests, ThreadStep(r) PROVE TypeOK'
  <2>1. CASE Acquire(r)
    BY <2>1 DEF Acquire, pipeVars
  <2>2. CASE RefuseRetired(r)
    BY <2>2 DEF RefuseRetired, Raise, Finish, pipeVars, Outcomes
  <2>3. CASE Proceed(r)
    BY <2>3 DEF Proceed, lockVars, pipeVars
  <2>4. CASE Write(r)
    BY <2>4 DEF Write, lockVars
  <2>5. CASE ReadOk(r)
    <3>1. Head(fromBroker) \in Replies /\ Tail(fromBroker) \in Seq(Replies)
      BY <2>5 DEF ReadOk, Readable
    <3>2. Head(fromBroker).value \in Values
      BY <2>5, <3>1 DEF ReadOk, Vended, Replies
    <3>. QED  BY <2>5, <3>1, <3>2 DEF ReadOk
  <2>6. CASE ReadRefusal(r)
    BY <2>6 DEF ReadRefusal, Readable, Raise, Finish, InStep, Outcomes
  <2>7. CASE ReadMalformed(r)
    BY <2>7 DEF ReadMalformed, Readable, Raise, Finish, Retire, Outcomes, Faults
  <2>8. CASE TransportError(r)
    BY <2>8 DEF TransportError, Raise, Finish, Retire, pipeVars, Outcomes, Faults
  <2>9. CASE Timeout(r)
    BY <2>9 DEF Timeout, Raise, Finish, Retire, pipeVars, Outcomes, Faults
  <2>10. CASE Adopt(r)
    BY <2>10 DEF Adopt, Finish, lockVars, pipeVars, Outcomes
  <2>11. CASE RejectValue(r)
    BY <2>11 DEF RejectValue, Finish, Retire, pipeVars, Outcomes, Faults
  <2>. QED  BY <1>2, <2>1, <2>2, <2>3, <2>4, <2>5, <2>6, <2>7, <2>8, <2>9, <2>10, <2>11
            DEF ThreadStep
<1>3. ASSUME NEW r \in Requests, Interrupt(r) PROVE TypeOK'
  BY <1>3 DEF Interrupt, Raise, Finish, pipeVars, Outcomes
<1>4. ASSUME NEW status \in Statuses, NEW value \in Values \cup {NoHandle}, Answer(status, value)
      PROVE /\ toBroker' \in Seq(Requests) /\ fromBroker' \in Seq(Replies)
            /\ Head(toBroker) \in Requests
            /\ UNCHANGED <<threadVars, lockVars, brokerUp>>
  BY <1>4 DEF Answer, Replies
<1>5. ASSUME NEW h \in Handles, Vend(h) PROVE TypeOK'
  BY <1>4, <1>5 DEF Vend, Values, threadVars, lockVars
<1>6. CASE AnswerNoHandle
  BY <1>4, <1>6 DEF AnswerNoHandle, Values, threadVars, lockVars
<1>7. CASE BrokerGoes
  BY <1>7 DEF BrokerGoes, threadVars, lockVars
<1>8. CASE UNCHANGED vars
  BY <1>8 DEF vars, threadVars, lockVars, pipeVars
<1>. QED  BY <1>1, <1>2, <1>3, <1>5, <1>6, <1>7, <1>8 DEF Next, BrokerStep

\* The initial states are well typed.
LEMMA TypeInit == Init => TypeOK
<1> SUFFICES ASSUME Init PROVE TypeOK
  OBVIOUS
<1>1. toBroker \in Seq(Requests) /\ fromBroker \in Seq(Replies)
  BY DEF Init
<1>2. got \in [Requests -> Values]
  BY DEF Init, Values
<1>3. outcome \in [Requests -> Outcomes]
  BY DEF Init, Outcomes
<1>. QED  BY <1>1, <1>2, <1>3 DEF Init, TypeOK

\* The type invariant holds for every set of calls and handles, interrupts included.
THEOREM TypeCorrect == Spec => []TypeOK
BY TypeInit, TypeStep, PTL DEF Spec

\* Every step keeps the lock with the call that is inside request.
LEMMA LockStep == ChannelAssumption /\ TypeOK /\ LockInv /\ [Next]_vars => LockInv'
<1> SUFFICES ASSUME ChannelAssumption, TypeOK, LockInv, [Next]_vars PROVE LockInv'
  OBVIOUS
<1> USE DEF LockInv, TypeOK, ChannelAssumption
<1>1. ASSUME NEW r \in Requests, Begin(r) PROVE LockInv'
  BY <1>1 DEF Begin, Finish, lockVars
<1>2. ASSUME NEW r \in Requests, ThreadStep(r) PROVE LockInv'
  <2>1. CASE Acquire(r)
    BY <2>1 DEF Acquire
  <2>2. CASE RefuseRetired(r) \/ Proceed(r) \/ Write(r)
    BY <2>2 DEF RefuseRetired, Proceed, Write, Raise, Finish, lockVars
  <2>3. CASE ReadOk(r) \/ ReadRefusal(r) \/ ReadMalformed(r)
    BY <2>3 DEF ReadOk, ReadRefusal, ReadMalformed, Readable, Raise, Finish
  <2>4. CASE TransportError(r) \/ Timeout(r)
    BY <2>4 DEF TransportError, Timeout, DeadlineFires, Raise, Finish
  <2>5. CASE Adopt(r) \/ RejectValue(r)
    BY <2>5 DEF Adopt, RejectValue, Finish, lockVars
  <2>. QED  BY <1>2, <2>1, <2>2, <2>3, <2>4, <2>5 DEF ThreadStep
<1>3. ASSUME NEW r \in Requests, Interrupt(r) PROVE LockInv'
  BY <1>3 DEF Interrupt, Raise, Finish
<1>4. CASE BrokerStep \/ UNCHANGED vars
  BY <1>4 DEF BrokerStep, Vend, AnswerNoHandle, Answer, BrokerGoes, vars, threadVars, lockVars
<1>. QED  BY <1>1, <1>2, <1>3, <1>4 DEF Next

\* Every step ends at most a call that has not ended.
LEMMA DoneStep == TypeOK /\ DoneInv /\ [Next]_vars => DoneInv'
<1> SUFFICES ASSUME TypeOK, DoneInv, [Next]_vars PROVE DoneInv'
  OBVIOUS
<1> USE DEF DoneInv, TypeOK
<1>1. ASSUME NEW r \in Requests, Begin(r) PROVE DoneInv'
  BY <1>1 DEF Begin, Finish
<1>2. ASSUME NEW r \in Requests, ThreadStep(r) PROVE DoneInv'
  <2>1. CASE Acquire(r) \/ RefuseRetired(r) \/ Proceed(r) \/ Write(r)
    BY <2>1 DEF Acquire, RefuseRetired, Proceed, Write, Raise, Finish
  <2>2. CASE ReadOk(r) \/ ReadRefusal(r) \/ ReadMalformed(r)
    BY <2>2 DEF ReadOk, ReadRefusal, ReadMalformed, Readable, Raise, Finish
  <2>3. CASE TransportError(r) \/ Timeout(r)
    BY <2>3 DEF TransportError, Timeout, DeadlineFires, Raise, Finish
  <2>4. CASE Adopt(r) \/ RejectValue(r)
    BY <2>4 DEF Adopt, RejectValue, Finish
  <2>. QED  BY <1>2, <2>1, <2>2, <2>3, <2>4 DEF ThreadStep
<1>3. ASSUME NEW r \in Requests, Interrupt(r) PROVE DoneInv'
  BY <1>3 DEF Interrupt, Raise, Finish
<1>4. CASE BrokerStep \/ UNCHANGED vars
  BY <1>4 DEF BrokerStep, Vend, AnswerNoHandle, Answer, BrokerGoes, vars, threadVars
<1>. QED  BY <1>1, <1>2, <1>3, <1>4 DEF Next

-----------------------------------------------------------------------------
\* What a reply by the broker does to the turn of the call that waits for it.
LEMMA ReplyTurn ==
  ASSUME TypeOK, NEW r \in Requests, OneTurn(r),
         NEW status \in Statuses, NEW value \in Values \cup {NoHandle},
         Answer(status, value)
  PROVE  /\ toBroker = <<r>>
         /\ toBroker' = <<>>
         /\ fromBroker' = <<[status |-> status, value |-> value]>>
         /\ [status |-> status, value |-> value] \in Replies
<1>1. toBroker = <<r>> /\ fromBroker = <<>>
  BY DEF OneTurn, Answer
<1>2. [status |-> status, value |-> value] \in Replies
  BY DEF Replies
<1>3. toBroker' = Tail(<<r>>) /\ fromBroker' = Append(<<>>, [status |-> status, value |-> value])
  BY <1>1 DEF Answer
<1>. QED  BY <1>1, <1>2, <1>3

\* A request is written to an empty channel.
LEMMA WriteTurn ==
  ASSUME TurnInv, NEW r \in Requests, Write(r)
  PROVE  toBroker' = <<r>> /\ fromBroker' = <<>>
<1>1. toBroker = <<>> /\ fromBroker = <<>>
  BY DEF Write, TurnInv, Quiet
<1>2. toBroker' = Append(<<>>, r) /\ fromBroker' = <<>>
  BY <1>1 DEF Write
<1>. QED  BY <1>2

\* While a call waits for its reply no other call is inside request.
LEMMA OnlyOne ==
  ASSUME LockInv, NEW r \in Requests, NEW q \in Requests,
         pc[r] \in {"check", "write", "read"}, pc[q] \in {"check", "write", "read"}
  PROVE  q = r
BY DEF LockInv

\* Every step keeps the two sides in step, or retires the channel.
LEMMA TurnStep == ChannelInv /\ [Next]_vars => TurnInv'
<1> SUFFICES ASSUME ChannelInv, [Next]_vars PROVE TurnInv'
  OBVIOUS
<1> USE DEF ChannelInv
<1>1. ASSUME NEW r \in Requests, Begin(r) PROVE TurnInv'
  BY <1>1 DEF Begin, Finish, lockVars, pipeVars, TurnInv, Quiet, OneTurn, TypeOK
<1>2. ASSUME NEW r \in Requests, ThreadStep(r) PROVE TurnInv'
  <2>1. CASE Acquire(r) \/ RefuseRetired(r)
    BY <2>1 DEF Acquire, RefuseRetired, Raise, Finish, pipeVars, TurnInv, Quiet, OneTurn, TypeOK
  <2>2. CASE Proceed(r)
    <3>1. \A q \in Requests : pc[q] # "read"
      BY <2>2, OnlyOne DEF Proceed
    <3>. QED  BY <2>2, <3>1 DEF Proceed, Retired, lockVars, pipeVars, TurnInv, Quiet, OneTurn, TypeOK
  <2>3. CASE Write(r)
    <3>1. \A q \in Requests : pc[q] \in {"check", "write", "read"} => q = r
      BY <2>3, OnlyOne DEF Write
    <3>2. toBroker' = <<r>> /\ fromBroker' = <<>>
      BY <2>3, WriteTurn
    <3>3. \A h \in Handles : owner'[h] # r
      BY <2>3 DEF Write, OwnerInv
    <3>4. OneTurn(r)'
      BY <3>2, <3>3 DEF OneTurn
    <3>5. \A q \in Requests : pc'[q] = (IF q = r THEN "read" ELSE pc[q])
      BY <2>3 DEF Write, TypeOK
    <3>. QED  BY <3>1, <3>4, <3>5 DEF TurnInv
  <2>4. CASE ReadOk(r) \/ ReadRefusal(r) \/ ReadMalformed(r)
    <3>1. /\ Readable(r) /\ fromBroker' = Tail(fromBroker) /\ toBroker' = toBroker
          /\ \/ pc' = [pc EXCEPT ![r] = "adopt"]
             \/ pc' = [pc EXCEPT ![r] = "done"]
      <4>1. CASE ReadOk(r)
        BY <4>1 DEF ReadOk
      <4>2. CASE ReadRefusal(r) \/ ReadMalformed(r)
        BY <4>2 DEF ReadRefusal, ReadMalformed, Raise, Finish
      <4>. QED  BY <2>4, <4>1, <4>2
    <3>2. \A q \in Requests : pc[q] \in {"check", "write", "read"} => q = r
      BY <3>1, OnlyOne DEF Readable
    <3>3. toBroker' = <<>> /\ fromBroker' = <<>>
      <4>1. OneTurn(r) /\ fromBroker # <<>>
        BY <3>1 DEF Readable, TurnInv
      <4>2. PICK f \in Replies : toBroker = <<>> /\ fromBroker = <<f>>
        BY <4>1 DEF OneTurn
      <4>. QED  BY <3>1, <4>2
    <3>4. \A q \in Requests : pc'[q] \notin {"write", "read"}
      BY <3>1, <3>2 DEF TypeOK
    <3>. QED  BY <3>3, <3>4 DEF TurnInv, Quiet
  <2>5. CASE TransportError(r) \/ Timeout(r)
    <3>1. pc[r] \in {"write", "read"} /\ broken' = TRUE /\ pc' = [pc EXCEPT ![r] = "done"]
      BY <2>5 DEF TransportError, Timeout, DeadlineFires, Raise, Finish, Retire
    <3>2. \A q \in Requests : pc[q] \in {"check", "write", "read"} => q = r
      BY <3>1, OnlyOne
    <3>. QED  BY <3>1, <3>2 DEF TurnInv, TypeOK
  <2>6. CASE Adopt(r) \/ RejectValue(r)
    BY <2>6 DEF Adopt, RejectValue, Finish, Retire, lockVars, pipeVars, TurnInv, Quiet, OneTurn, TypeOK
  <2>. QED  BY <1>2, <2>1, <2>2, <2>3, <2>4, <2>5, <2>6 DEF ThreadStep
<1>3. ASSUME NEW r \in Requests, Interrupt(r) PROVE TurnInv'
  BY <1>3 DEF Interrupt
<1>4. ASSUME NEW status \in Statuses, NEW value \in Values \cup {NoHandle}, Answer(status, value),
             \/ value \in Handles /\ owner[value] = NoRequest
                /\ owner' = [owner EXCEPT ![value] = Head(toBroker)]
             \/ value \notin Handles /\ owner' = owner
      PROVE  TurnInv'
  <2>1. toBroker # <<>> /\ UNCHANGED <<pc, broken>>
    BY <1>4 DEF Answer, threadVars, lockVars
  <2>2. ~(~broken /\ \A q \in Requests : pc[q] # "read")
    BY <2>1 DEF TurnInv, Quiet
  <2>3. \A q \in Requests : pc[q] # "write"
    BY <2>1 DEF TurnInv, Quiet
  <2>4. ASSUME NEW q \in Requests, pc[q] = "read" PROVE OneTurn(q)'
    <3> DEFINE f == [status |-> status, value |-> value]
    <3>1. OneTurn(q)
      BY <2>4 DEF TurnInv
    <3>2. toBroker = <<q>> /\ toBroker' = <<>> /\ fromBroker' = <<f>> /\ f \in Replies
      BY <1>4, <3>1, ReplyTurn
    <3>3. \A h \in Handles : owner[h] # q
      BY <2>1, <3>1 DEF OneTurn
    <3>4. \A h \in Handles : owner'[h] = q <=> f.value = h
      BY <1>4, <3>2, <3>3 DEF TypeOK
    <3>. QED  BY <3>2, <3>4 DEF OneTurn
  <2>. QED  BY <2>1, <2>2, <2>3, <2>4 DEF TurnInv
<1>5. ASSUME NEW h \in Handles, Vend(h) PROVE TurnInv'
  BY <1>4, <1>5 DEF Vend, Values
<1>6. CASE AnswerNoHandle
  BY <1>4, <1>6, ChannelAssumption DEF AnswerNoHandle, Values, ChannelAssumption
<1>7. CASE BrokerGoes \/ UNCHANGED vars
  BY <1>7 DEF BrokerGoes, vars, threadVars, lockVars, pipeVars, TurnInv, Quiet, OneTurn
<1>. QED  BY <1>1, <1>2, <1>3, <1>5, <1>6, <1>7 DEF Next, BrokerStep

\* Every step keeps at most one unread request, of a call that waits or gave up.
LEMMA AskedStep == ChannelInv /\ [Next]_vars => AskedInv'
<1> SUFFICES ASSUME ChannelInv, [Next]_vars PROVE AskedInv'
  OBVIOUS
<1> USE DEF ChannelInv
<1>1. ASSUME NEW r \in Requests, Write(r) PROVE AskedInv'
  <2>1. toBroker' = <<r>> /\ pc'[r] = "read"
    BY <1>1, WriteTurn DEF Write, TypeOK
  <2>. QED  BY <2>1 DEF AskedInv
<1>2. ASSUME NEW r \in Requests, pc[r] # "done",
             \E state \in {"blocked", "check", "write", "adopt", "done"} :
                pc' = [pc EXCEPT ![r] = state] /\ (pc[r] = "read" => toBroker = <<>> \/ state = "done"),
             UNCHANGED toBroker
      PROVE  AskedInv'
  BY <1>2 DEF AskedInv, TypeOK
<1>3. ASSUME NEW r \in Requests, Begin(r) PROVE AskedInv'
  BY <1>2, <1>3 DEF Begin, Finish, pipeVars
<1>4. ASSUME NEW r \in Requests, ThreadStep(r), ~Write(r) PROVE AskedInv'
  <2>1. CASE Acquire(r) \/ RefuseRetired(r) \/ Proceed(r)
    BY <1>2, <2>1 DEF Acquire, RefuseRetired, Proceed, Raise, Finish, pipeVars
  <2>2. CASE ReadOk(r)
    <3>1. pc[r] = "read" /\ fromBroker # <<>> /\ pc' = [pc EXCEPT ![r] = "adopt"] /\ UNCHANGED toBroker
      BY <2>2 DEF ReadOk, Readable
    <3>2. toBroker = <<>>
      BY <3>1 DEF TurnInv, OneTurn
    <3>. QED  BY <1>2, <3>1, <3>2
  <2>3. CASE ReadRefusal(r) \/ ReadMalformed(r)
    BY <1>2, <2>3 DEF ReadRefusal, ReadMalformed, Readable, Raise, Finish
  <2>4. CASE TransportError(r) \/ Timeout(r)
    BY <1>2, <2>4 DEF TransportError, Timeout, DeadlineFires, Raise, Finish, pipeVars
  <2>5. CASE Adopt(r) \/ RejectValue(r)
    BY <1>2, <2>5 DEF Adopt, RejectValue, Finish, pipeVars
  <2>. QED  BY <1>4, <2>1, <2>2, <2>3, <2>4, <2>5 DEF ThreadStep
<1>5. ASSUME NEW r \in Requests, Interrupt(r) PROVE AskedInv'
  BY <1>5 DEF Interrupt
<1>6. CASE \E status \in Statuses, value \in Values \cup {NoHandle} : Answer(status, value)
  <2>1. toBroker # <<>> /\ toBroker' = Tail(toBroker)
    BY <1>6 DEF Answer
  <2>2. toBroker' = <<>>
    BY <2>1 DEF AskedInv
  <2>. QED  BY <2>2 DEF AskedInv
<1>7. CASE BrokerStep
  <2>1. CASE BrokerGoes
    BY <2>1 DEF BrokerGoes, threadVars, AskedInv
  <2>. QED  BY <1>6, <1>7, <2>1 DEF BrokerStep, Vend, AnswerNoHandle, Values
<1>8. CASE UNCHANGED vars
  BY <1>8 DEF vars, threadVars, pipeVars, AskedInv
<1>. QED  BY <1>1, <1>3, <1>4, <1>5, <1>7, <1>8 DEF Next

\* Every step vends to a call that waits, and gives a call what was vended to it.
LEMMA OwnerStep == ChannelInv /\ [Next]_vars => OwnerInv'
<1> SUFFICES ASSUME ChannelInv, [Next]_vars PROVE OwnerInv'
  OBVIOUS
<1> USE DEF ChannelInv
<1>1. ASSUME NEW r \in Requests, Begin(r) PROVE OwnerInv'
  BY <1>1 DEF Begin, Finish, pipeVars, OwnerInv, DoneInv, TypeOK
<1>2. ASSUME NEW r \in Requests, ThreadStep(r) PROVE OwnerInv'
  <2>1. CASE Acquire(r) \/ Proceed(r) \/ Write(r)
    BY <2>1 DEF Acquire, Proceed, Write, pipeVars, OwnerInv, TypeOK
  <2>2. CASE ReadOk(r)
    <3>1. PICK f \in Replies : fromBroker = <<f>> /\ \A h \in Handles : owner[h] = r <=> f.value = h
      BY <2>2 DEF ReadOk, Readable, TurnInv, OneTurn
    <3>2. got' = [got EXCEPT ![r] = f.value] /\ pc' = [pc EXCEPT ![r] = "adopt"]
          /\ UNCHANGED <<owner, outcome>>
      BY <2>2, <3>1 DEF ReadOk
    <3>3. \A q \in Requests : q # r => got'[q] = got[q]
      BY <3>2 DEF TypeOK
    <3>4. got'[r] = f.value
      BY <3>2 DEF TypeOK
    <3>5. \A q \in Requests : pc'[q] = (IF q = r THEN "adopt" ELSE pc[q])
      BY <3>2 DEF TypeOK
    <3>. QED  BY <3>1, <3>2, <3>3, <3>4, <3>5 DEF OwnerInv
  <2>3. CASE RefuseRetired(r) \/ ReadRefusal(r) \/ ReadMalformed(r) \/ TransportError(r) \/ Timeout(r)
    <3>1. /\ \E how \in Outcomes \ {"stream"} : Finish(r, how)
          /\ UNCHANGED <<got, owner>>
      BY <2>3 DEF RefuseRetired, ReadRefusal, ReadMalformed, TransportError, Timeout, Raise,
                  pipeVars, Outcomes, Faults
    <3>. QED  BY <3>1 DEF Finish, OwnerInv, TypeOK
  <2>4. CASE Adopt(r)
    BY <2>4 DEF Adopt, Finish, pipeVars, OwnerInv, TypeOK
  <2>5. CASE RejectValue(r)
    BY <2>5 DEF RejectValue, Finish, pipeVars, OwnerInv, TypeOK
  <2>. QED  BY <1>2, <2>1, <2>2, <2>3, <2>4, <2>5 DEF ThreadStep
<1>3. ASSUME NEW r \in Requests, Interrupt(r) PROVE OwnerInv'
  BY <1>3 DEF Interrupt
<1>4. ASSUME NEW h \in Handles, Vend(h) PROVE OwnerInv'
  <2>1. toBroker # <<>> /\ owner[h] = NoRequest /\ owner' = [owner EXCEPT ![h] = Head(toBroker)]
        /\ UNCHANGED <<pc, got, outcome>>
    BY <1>4 DEF Vend, Answer, threadVars
  <2>2. PICK r \in Requests : Head(toBroker) = r /\ pc[r] \in {"read", "done"}
    BY <2>1 DEF AskedInv
  <2>3. \A g \in Handles : owner'[g] = (IF g = h THEN r ELSE owner[g])
    BY <2>1, <2>2 DEF TypeOK
  <2>4. \A q \in Requests : pc[q] = "adopt" \/ outcome[q] = "stream" => got[q] # h
    BY <2>1, ChannelAssumption DEF OwnerInv, ChannelAssumption
  <2>. QED  BY <2>1, <2>2, <2>3, <2>4 DEF OwnerInv
<1>5. CASE AnswerNoHandle \/ BrokerGoes \/ UNCHANGED vars
  <2>1. UNCHANGED <<pc, outcome, got, owner>>
    BY <1>5 DEF AnswerNoHandle, Answer, BrokerGoes, vars, threadVars, pipeVars
  <2>. QED  BY <2>1 DEF OwnerInv
<1>. QED  BY <1>1, <1>2, <1>3, <1>4, <1>5 DEF Next, BrokerStep

\* Every step accounts for the vended pipes, or retires the channel.
LEMMA OrphanStep == ChannelInv /\ [Next]_vars => NoOrphan'
<1> SUFFICES ASSUME ChannelInv, [Next]_vars, ~broken',
                    NEW h \in Handles, owner'[h] # NoRequest
             PROVE  pc'[owner'[h]] = "read" \/ got'[owner'[h]] = h
  BY DEF NoOrphan
<1> DEFINE o == owner[h]
<1> USE DEF ChannelInv
<1>1. ~broken /\ o \in Requests \cup {NoRequest}
  BY DEF TypeOK, Next, ThreadStep, BrokerStep, Begin, Acquire, RefuseRetired, Proceed, Write, ReadOk, ReadRefusal,
         ReadMalformed, TransportError, Timeout, Adopt, RejectValue, Interrupt, Vend, AnswerNoHandle,
         Answer, BrokerGoes, Retire, InStep, vars, lockVars
<1>2. ASSUME o \in Requests, owner'[h] = o, pc[o] = "read" => pc'[o] = "read" \/ got'[o] = h,
             got[o] = h => got'[o] = h
      PROVE  pc'[owner'[h]] = "read" \/ got'[owner'[h]] = h
  BY <1>1, <1>2 DEF NoOrphan
<1>3. ASSUME NEW r \in Requests, Begin(r) PROVE pc'[owner'[h]] = "read" \/ got'[owner'[h]] = h
  BY <1>1, <1>2, <1>3 DEF Begin, Finish, pipeVars, TypeOK
<1>4. ASSUME NEW r \in Requests, ThreadStep(r) PROVE pc'[owner'[h]] = "read" \/ got'[owner'[h]] = h
  <2>1. CASE Acquire(r) \/ RefuseRetired(r) \/ Proceed(r) \/ Write(r)
    BY <1>1, <1>2, <2>1 DEF Acquire, RefuseRetired, Proceed, Write, Raise, Finish, pipeVars, TypeOK
  <2>2. CASE ReadOk(r)
    <3>1. PICK f \in Replies : fromBroker = <<f>> /\ \A g \in Handles : owner[g] = r <=> f.value = g
      BY <2>2 DEF ReadOk, Readable, TurnInv, OneTurn
    <3>2. got' = [got EXCEPT ![r] = f.value] /\ pc' = [pc EXCEPT ![r] = "adopt"] /\ UNCHANGED owner
      BY <2>2, <3>1 DEF ReadOk
    <3>3. CASE o = r
      BY <3>1, <3>2, <3>3 DEF TypeOK
    <3>4. CASE o # r
      BY <1>1, <1>2, <3>2, <3>4 DEF TypeOK
    <3>. QED  BY <3>3, <3>4
  <2>3. CASE ReadRefusal(r)
    <3>1. PICK f \in Replies : fromBroker = <<f>> /\ \A g \in Handles : owner[g] = r <=> f.value = g
      BY <2>3 DEF ReadRefusal, Readable, TurnInv, OneTurn
    <3>2. f.value = NoHandle /\ pc' = [pc EXCEPT ![r] = "done"] /\ UNCHANGED <<got, owner>>
      BY <2>3, <3>1 DEF ReadRefusal, Refusal, Raise, Finish
    <3>3. o # r
      BY <3>1, <3>2, ChannelAssumption DEF ChannelAssumption
    <3>. QED  BY <1>1, <1>2, <3>2, <3>3 DEF TypeOK
  <2>4. CASE ReadMalformed(r) \/ TransportError(r) \/ Timeout(r) \/ RejectValue(r)
    BY <2>4 DEF ReadMalformed, TransportError, Timeout, RejectValue, Retire
  <2>5. CASE Adopt(r)
    BY <1>1, <1>2, <2>5 DEF Adopt, Finish, pipeVars, TypeOK
  <2>. QED  BY <1>4, <2>1, <2>2, <2>3, <2>4, <2>5 DEF ThreadStep
<1>5. ASSUME NEW r \in Requests, Interrupt(r) PROVE FALSE
  BY <1>5 DEF Interrupt
<1>6. ASSUME NEW g \in Handles, Vend(g) PROVE pc'[owner'[h]] = "read" \/ got'[owner'[h]] = h
  <2>1. toBroker # <<>> /\ owner' = [owner EXCEPT ![g] = Head(toBroker)] /\ UNCHANGED <<pc, got>>
    BY <1>6 DEF Vend, Answer, threadVars
  <2>2. PICK r \in Requests : pc[r] = "read"
    BY <1>1, <2>1 DEF TurnInv, Quiet
  <2>3. toBroker = <<r>>
    BY <2>1, <2>2 DEF TurnInv, OneTurn
  <2>4. CASE g = h
    BY <2>1, <2>2, <2>3, <2>4 DEF TypeOK
  <2>5. CASE g # h
    BY <1>1, <1>2, <2>1, <2>5 DEF TypeOK
  <2>. QED  BY <2>4, <2>5
<1>7. CASE AnswerNoHandle \/ BrokerGoes \/ UNCHANGED vars
  BY <1>1, <1>2, <1>7 DEF AnswerNoHandle, Answer, BrokerGoes, vars, threadVars, pipeVars
<1>. QED  BY <1>3, <1>4, <1>5, <1>6, <1>7 DEF Next, BrokerStep

-----------------------------------------------------------------------------
(* The theorems.                                                           *)

\* The inductive invariant holds initially.
LEMMA ChannelInit == Init /\ Interrupts = FALSE => ChannelInv
<1> SUFFICES ASSUME Init, Interrupts = FALSE PROVE ChannelInv
  OBVIOUS
<1>1. TypeOK
  BY TypeInit
<1>2. LockInv /\ DoneInv /\ TurnInv /\ AskedInv
  BY ChannelAssumption DEF ChannelAssumption, Init, LockInv, DoneInv, TurnInv, Quiet, AskedInv
<1>3. OwnerInv /\ NoOrphan
  BY ChannelAssumption DEF ChannelAssumption, Init, OwnerInv, NoOrphan
<1>. QED  BY <1>1, <1>2, <1>3 DEF ChannelInv

\* The inductive invariant is kept by every step.
LEMMA ChannelStep == ChannelInv /\ [Next]_vars => ChannelInv'
<1> SUFFICES ASSUME ChannelInv, [Next]_vars PROVE ChannelInv'
  OBVIOUS
<1>1. TypeOK' /\ LockInv' /\ DoneInv'
  BY TypeStep, LockStep, DoneStep, ChannelAssumption DEF ChannelInv
<1>2. TurnInv' /\ AskedInv' /\ OwnerInv' /\ NoOrphan'
  BY TurnStep, AskedStep, OwnerStep, OrphanStep
<1>. QED  BY <1>1, <1>2 DEF ChannelInv

\* As long as no foreign exception ends a wait, the stream that a caller of connect
\* gets was vended for its own host, whatever the broker does and how late.
THEOREM OwnChannelCorrect == ASSUME Interrupts = FALSE PROVE Spec => []OwnChannel
<1>1. Init => ChannelInv
  BY ChannelInit
<1>2. ChannelInv => OwnChannel
  BY DEF ChannelInv, OwnChannel, OwnerInv, DoneInv, TypeOK
<1>. QED  BY <1>1, <1>2, ChannelStep, PTL DEF Spec

\* Under the same condition no pipe is vended and forgotten on a channel in use.
THEOREM NoOrphanCorrect == ASSUME Interrupts = FALSE PROVE Spec => []NoOrphan
<1>1. Init => ChannelInv
  BY ChannelInit
<1>2. ChannelInv => NoOrphan
  BY DEF ChannelInv
<1>. QED  BY <1>1, <1>2, ChannelStep, PTL DEF Spec

\* Retirement is final, and only a call that begins after it is late.
LateInv == (late # {} => broken) /\ LateFailsClosed

\* Every step refuses the late calls, and finds a cause for retiring.
LEMMA LateStep ==
  TypeOK /\ DoneInv /\ LateInv /\ RetiredForCause /\ [Next]_vars => LateInv' /\ RetiredForCause'
<1> SUFFICES ASSUME TypeOK, DoneInv, LateInv, RetiredForCause, [Next]_vars
             PROVE  LateInv' /\ RetiredForCause'
  OBVIOUS
<1> USE DEF TypeOK, LateInv, LateFailsClosed, RetiredForCause
<1>1. ASSUME NEW r \in Requests, pc[r] # "done", NEW how \in Outcomes,
             Finish(r, how), UNCHANGED <<broken, late>>, r \in late => how \in {"retired", "unsendable"}
      PROVE  LateInv' /\ RetiredForCause'
  BY <1>1 DEF Finish, DoneInv, Faults
<1>2. ASSUME NEW r \in Requests, NEW how \in Faults, r \notin late,
             Finish(r, how), Retire, UNCHANGED late
      PROVE  LateInv' /\ RetiredForCause'
  BY <1>2 DEF Finish, Retire, Outcomes
<1>3. ASSUME NEW r \in Requests, Begin(r) PROVE LateInv' /\ RetiredForCause'
  <2>1. /\ pc[r] = "new" /\ UNCHANGED broken
        /\ late' = IF broken THEN late \cup {r} ELSE late
        /\ \/ pc' = [pc EXCEPT ![r] = "blocked"] /\ UNCHANGED outcome
           \/ pc' = [pc EXCEPT ![r] = "done"] /\ outcome' = [outcome EXCEPT ![r] = "unsendable"]
    BY <1>3 DEF Begin, Finish, lockVars
  <2>2. outcome[r] = "none"
    BY <2>1 DEF DoneInv
  <2>3. \A q \in Requests : q # r => pc'[q] = pc[q] /\ outcome'[q] = outcome[q]
    BY <2>1
  <2>4. pc'[r] \in {"blocked", "done"} /\ outcome'[r] \in {"none", "unsendable"}
    BY <2>1, <2>2
  <2>5. LateInv'
    BY <2>1, <2>3, <2>4
  <2>6. RetiredForCause'
    <3>1. ASSUME broken PROVE \E q \in Requests : outcome'[q] \in Faults
      <4>1. PICK q \in Requests : outcome[q] \in Faults
        BY <3>1
      <4>2. q # r
        BY <2>2, <4>1 DEF Faults
      <4>. QED  BY <2>3, <4>1, <4>2
    <3>. QED  BY <2>1, <3>1
  <2>. QED  BY <2>5, <2>6
<1>4. ASSUME NEW r \in Requests, ThreadStep(r) PROVE LateInv' /\ RetiredForCause'
  <2>1. CASE Acquire(r) \/ Write(r)
    BY <2>1 DEF Acquire, Write, lockVars
  <2>2. CASE RefuseRetired(r)
    BY <1>1, <2>2 DEF RefuseRetired, Raise, Outcomes
  <2>3. CASE Proceed(r)
    BY <2>3 DEF Proceed, Retired, lockVars
  <2>4. CASE ReadOk(r)
    BY <2>4 DEF ReadOk, Readable
  <2>5. CASE ReadRefusal(r)
    BY <1>1, <2>5 DEF ReadRefusal, Readable, Raise, InStep, Outcomes
  <2>6. CASE ReadMalformed(r) \/ TransportError(r) \/ Timeout(r)
    BY <1>2, <2>6 DEF ReadMalformed, TransportError, Timeout, DeadlineFires, Readable, Raise, Faults
  <2>7. CASE Adopt(r)
    BY <1>1, <2>7 DEF Adopt, lockVars, Outcomes
  <2>8. CASE RejectValue(r)
    BY <1>2, <2>8 DEF RejectValue, Faults
  <2>. QED  BY <1>4, <2>1, <2>2, <2>3, <2>4, <2>5, <2>6, <2>7, <2>8 DEF ThreadStep
<1>5. ASSUME NEW r \in Requests, Interrupt(r) PROVE LateInv' /\ RetiredForCause'
  <2>1. pc[r] # "done" /\ r \notin late
    BY <1>5 DEF Interrupt
  <2>2. Finish(r, "interrupted") /\ UNCHANGED <<broken, late>> /\ "interrupted" \in Outcomes
    BY <1>5 DEF Interrupt, Raise, Outcomes
  <2> HIDE DEF LateInv, RetiredForCause
  <2>. QED  BY <1>1, <2>1, <2>2
<1>6. CASE BrokerStep \/ UNCHANGED vars
  <2>1. UNCHANGED <<pc, outcome, late, broken>>
    BY <1>6 DEF BrokerStep, Vend, AnswerNoHandle, Answer, BrokerGoes, vars, threadVars, lockVars
  <2>. QED  BY <2>1
<1>. QED  BY <1>3, <1>4, <1>5, <1>6 DEF Next

\* What the two theorems below need of the reachable states.
LEMMA LateAlways == Spec => [](LateInv /\ RetiredForCause)
<1>1. Init => TypeOK /\ DoneInv /\ LateInv /\ RetiredForCause
  <2>1. Init => DoneInv /\ LateInv /\ RetiredForCause
    BY DEF Init, DoneInv, LateInv, LateFailsClosed, RetiredForCause
  <2>. QED  BY <2>1, TypeInit
<1>2. TypeOK /\ DoneInv /\ LateInv /\ RetiredForCause /\ [Next]_vars
        => (TypeOK /\ DoneInv /\ LateInv /\ RetiredForCause)'
  BY TypeStep, DoneStep, LateStep
<1>. QED  BY <1>1, <1>2, PTL DEF Spec

\* A call that begins on a retired channel is refused and writes nothing, interrupts
\* included.
THEOREM LateFailsClosedCorrect == Spec => []LateFailsClosed
BY LateAlways, PTL DEF LateInv

\* The channel is retired only by a call that met a fault, never by a refusal.
THEOREM RetiredForCauseCorrect == Spec => []RetiredForCause
BY LateAlways, PTL

=============================================================================
