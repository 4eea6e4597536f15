-------------------------- MODULE AgentHandleProofs --------------------------
(***************************************************************************)
(* Proofs about AgentHandle, for every set of threads, handles, principals *)
(* and allowlists.                                                         *)
(***************************************************************************)
EXTENDS AgentHandle, TLAPS

-----------------------------------------------------------------------------
(* The inductive invariant.                                                *)

\* The lock belongs to the one thread inside a with block.
LockInv == \A t \in Threads :
    /\ pc[t] \in BodyPcs => holder = t
    /\ holder = t => pc[t] \in BodyPcs \cup ClosePcs

\* A thread in HawcxAgent.close closes a handle: _AGENT under the lock, and outside
\* it one that is marked as closed directly.
TargetInv == \A t \in Threads : pc[t] \in ClosePcs =>
    IF holder = t THEN agent # NoHandle ELSE got[t] \in direct

\* Nobody knows of a handle that was not made.
BornInv == \A h \in Handles : client[h] = "unborn" =>
    agent # h /\ h \notin direct /\ \A t \in Threads : got[t] # h

\* _AGENT is None when a thread connects, and closed when close_agent forgets it.
PhaseInv == \A t \in Threads :
    /\ pc[t] = "dial" => agent = NoHandle
    /\ pc[t] = "forget" => agent # NoHandle /\ client[agent] # "open"
    /\ pc[t] = "forgetClient" => client[Target(t)] \in {"shut", "none"}

\* The only open handle is _AGENT.
OpenInv == \A h \in Handles : client[h] = "open" => agent = h

\* _AGENT is open unless a thread closes it under the lock or closed it directly.
AgentInv == agent \in Handles \ direct =>
    client[agent] = "open" \/ holder \in Closers

\* While a thread counts as clean nothing is being closed, _AGENT was not closed
\* directly, and the thread has, or is about to get, _AGENT.
CleanInv ==
    /\ clean # {} => Closers = {} /\ ~Stale
    /\ \A t \in clean :
         /\ pc[t] \in {"fast", "leave", "last"} => agent # NoHandle
         /\ pc[t] \in {"idle", "send", "wantClose", "closeIfAny", "left"} =>
              got[t] = agent /\ agent # NoHandle

HandleInv == TypeOK /\ LockInv /\ TargetInv /\ BornInv /\ PhaseInv
             /\ OpenInv /\ AgentInv /\ CleanInv

-----------------------------------------------------------------------------
\* Every step keeps the types.
LEMMA TypeStep == HandleAssumption /\ TypeOK /\ LockInv /\ TargetInv /\ [Next]_vars
    => TypeOK'
<1> SUFFICES ASSUME HandleAssumption, TypeOK, LockInv, TargetInv, [Next]_vars
    PROVE  TypeOK'
  OBVIOUS
<1> USE DEF TypeOK, HandleAssumption, LockInv, TargetInv, FreePcs, BodyPcs, ClosePcs
<1>1. ASSUME NEW t \in Threads, NEW list \in Allowlists, Call(t, list) PROVE TypeOK'
  BY <1>1 DEF Call, Closers, Stale, Goto, handleVars
<1>2. ASSUME NEW t \in Threads, NEW p \in Principals, Invoke(t, p) PROVE TypeOK'
  BY <1>2 DEF Invoke, Goto, handleVars
<1>3. ASSUME NEW t \in Threads, NEW h \in Handles, DialOk(t, h) PROVE TypeOK'
  BY <1>3 DEF DialOk, Goto
<1>4. ASSUME NEW t \in Threads, CallClose(t) PROVE TypeOK'
  BY <1>4 DEF CallClose, Goto, handleVars
<1>5. ASSUME NEW t \in Threads, CloseHeld(t) PROVE TypeOK'
  BY <1>5 DEF CloseHeld, Goto
<1>6. ASSUME NEW t \in Threads, Look(t) PROVE TypeOK'
  BY <1>6 DEF Look, Goto, handleVars
<1>7. ASSUME NEW t \in Threads, ReturnAgent(t) PROVE TypeOK'
  BY <1>7 DEF ReturnAgent, Goto, handleVars
<1>8. ASSUME NEW t \in Threads, Enter(t) PROVE TypeOK'
  BY <1>8 DEF Enter, MustDial, Acquire, Goto, handleVars
<1>9. ASSUME NEW t \in Threads, DialRaises(t) PROVE TypeOK'
  BY <1>9 DEF DialRaises, AfterRaise, Goto, handleVars
<1>10. ASSUME NEW t \in Threads, Leave(t) PROVE TypeOK'
  BY <1>10 DEF Leave, Release, Goto, handleVars
<1>11. ASSUME NEW t \in Threads, EnterClose(t) PROVE TypeOK'
  BY <1>11 DEF EnterClose, Acquire, Goto, handleVars
<1>12. ASSUME NEW t \in Threads, CloseIfAny(t) PROVE TypeOK'
  BY <1>12 DEF CloseIfAny, Goto, handleVars
<1>13. ASSUME NEW t \in Threads, HasClient(t) PROVE TypeOK'
  BY <1>13 DEF HasClient, Target, AfterClose, Goto, handleVars
<1>14. ASSUME NEW t \in Threads, Shut(t) PROVE TypeOK'
  BY <1>14 DEF Shut, Target, AfterClose, Goto
<1>15. ASSUME NEW t \in Threads, ForgetClient(t) PROVE TypeOK'
  BY <1>15 DEF ForgetClient, Target, AfterClose, Goto
<1>16. ASSUME NEW t \in Threads, Forget(t) PROVE TypeOK'
  BY <1>16 DEF Forget, Forgotten, Goto
<1>17. ASSUME NEW t \in Threads, Send(t) PROVE TypeOK'
  BY <1>17 DEF Send, Goto, handleVars
<1>18. ASSUME NEW t \in Threads, SendRaises(t) PROVE TypeOK'
  BY <1>18 DEF SendRaises, Goto, handleVars
<1>19. CASE UNCHANGED vars
  BY <1>19 DEF vars, threadVars, handleVars
<1>. QED
  BY <1>1, <1>2, <1>3, <1>4, <1>5, <1>6, <1>7, <1>8, <1>9, <1>10, <1>11, <1>12,
     <1>13, <1>14, <1>15, <1>16, <1>17, <1>18, <1>19 DEF Next, ThreadStep

\* Every step keeps the lock with the thread in the with block.
LEMMA LockStep == HandleAssumption /\ TypeOK /\ LockInv /\ [Next]_vars
    => LockInv'
<1> SUFFICES ASSUME HandleAssumption, TypeOK, LockInv, [Next]_vars
    PROVE  LockInv'
  OBVIOUS
<1> USE DEF LockInv, TypeOK, HandleAssumption, FreePcs, BodyPcs, ClosePcs
<1>1. ASSUME NEW t \in Threads, NEW list \in Allowlists, Call(t, list) PROVE LockInv'
  BY <1>1 DEF Call, Closers, Stale, Goto, handleVars
<1>2. ASSUME NEW t \in Threads, NEW p \in Principals, Invoke(t, p) PROVE LockInv'
  BY <1>2 DEF Invoke, Goto, handleVars
<1>3. ASSUME NEW t \in Threads, NEW h \in Handles, DialOk(t, h) PROVE LockInv'
  BY <1>3 DEF DialOk, Goto
<1>4. ASSUME NEW t \in Threads, CallClose(t) PROVE LockInv'
  BY <1>4 DEF CallClose, Goto, handleVars
<1>5. ASSUME NEW t \in Threads, CloseHeld(t) PROVE LockInv'
  BY <1>5 DEF CloseHeld, Goto
<1>6. ASSUME NEW t \in Threads, Look(t) PROVE LockInv'
  BY <1>6 DEF Look, Goto, handleVars
<1>7. ASSUME NEW t \in Threads, ReturnAgent(t) PROVE LockInv'
  BY <1>7 DEF ReturnAgent, Goto, handleVars
<1>8. ASSUME NEW t \in Threads, Enter(t) PROVE LockInv'
  BY <1>8 DEF Enter, MustDial, Acquire, Goto, handleVars
<1>9. ASSUME NEW t \in Threads, DialRaises(t) PROVE LockInv'
  BY <1>9 DEF DialRaises, AfterRaise, Goto, handleVars
<1>10. ASSUME NEW t \in Threads, Leave(t) PROVE LockInv'
  BY <1>10 DEF Leave, Release, Goto, handleVars
<1>11. ASSUME NEW t \in Threads, EnterClose(t) PROVE LockInv'
  BY <1>11 DEF EnterClose, Acquire, Goto, handleVars
<1>12. ASSUME NEW t \in Threads, CloseIfAny(t) PROVE LockInv'
  BY <1>12 DEF CloseIfAny, Goto, handleVars
<1>13. ASSUME NEW t \in Threads, HasClient(t) PROVE LockInv'
  BY <1>13 DEF HasClient, Target, AfterClose, Goto, handleVars
<1>14. ASSUME NEW t \in Threads, Shut(t) PROVE LockInv'
  BY <1>14 DEF Shut, Target, AfterClose, Goto
<1>15. ASSUME NEW t \in Threads, ForgetClient(t) PROVE LockInv'
  BY <1>15 DEF ForgetClient, Target, AfterClose, Goto
<1>16. ASSUME NEW t \in Threads, Forget(t) PROVE LockInv'
  BY <1>16 DEF Forget, Forgotten, Goto
<1>17. ASSUME NEW t \in Threads, Send(t) PROVE LockInv'
  BY <1>17 DEF Send, Goto, handleVars
<1>18. ASSUME NEW t \in Threads, SendRaises(t) PROVE LockInv'
  BY <1>18 DEF SendRaises, Goto, handleVars
<1>19. CASE UNCHANGED vars
  BY <1>19 DEF vars, threadVars, handleVars
<1>. QED
  BY <1>1, <1>2, <1>3, <1>4, <1>5, <1>6, <1>7, <1>8, <1>9, <1>10, <1>11, <1>12,
     <1>13, <1>14, <1>15, <1>16, <1>17, <1>18, <1>19 DEF Next, ThreadStep

\* Every step leaves a closing thread its handle.
LEMMA TargetStep == HandleAssumption /\ TypeOK /\ LockInv /\ TargetInv /\ [Next]_vars
    => TargetInv'
<1> SUFFICES ASSUME HandleAssumption, TypeOK, LockInv, TargetInv, [Next]_vars
    PROVE  TargetInv'
  OBVIOUS
<1> USE DEF TargetInv, LockInv, TypeOK, HandleAssumption, FreePcs, BodyPcs, ClosePcs
<1>1. ASSUME NEW t \in Threads, NEW list \in Allowlists, Call(t, list) PROVE TargetInv'
  BY <1>1 DEF Call, Closers, Stale, Goto, handleVars
<1>2. ASSUME NEW t \in Threads, NEW p \in Principals, Invoke(t, p) PROVE TargetInv'
  BY <1>2 DEF Invoke, Goto, handleVars
<1>3. ASSUME NEW t \in Threads, NEW h \in Handles, DialOk(t, h) PROVE TargetInv'
  BY <1>3 DEF DialOk, Goto
<1>4. ASSUME NEW t \in Threads, CallClose(t) PROVE TargetInv'
  BY <1>4 DEF CallClose, Goto, handleVars
<1>5. ASSUME NEW t \in Threads, CloseHeld(t) PROVE TargetInv'
  BY <1>5 DEF CloseHeld, Goto
<1>6. ASSUME NEW t \in Threads, Look(t) PROVE TargetInv'
  BY <1>6 DEF Look, Goto, handleVars
<1>7. ASSUME NEW t \in Threads, ReturnAgent(t) PROVE TargetInv'
  BY <1>7 DEF ReturnAgent, Goto, handleVars
<1>8. ASSUME NEW t \in Threads, Enter(t) PROVE TargetInv'
  BY <1>8 DEF Enter, MustDial, Acquire, Goto, handleVars
<1>9. ASSUME NEW t \in Threads, DialRaises(t) PROVE TargetInv'
  BY <1>9 DEF DialRaises, AfterRaise, Goto, handleVars
<1>10. ASSUME NEW t \in Threads, Leave(t) PROVE TargetInv'
  BY <1>10 DEF Leave, Release, Goto, handleVars
<1>11. ASSUME NEW t \in Threads, EnterClose(t) PROVE TargetInv'
  BY <1>11 DEF EnterClose, Acquire, Goto, handleVars
<1>12. ASSUME NEW t \in Threads, CloseIfAny(t) PROVE TargetInv'
  BY <1>12 DEF CloseIfAny, Goto, handleVars
<1>13. ASSUME NEW t \in Threads, HasClient(t) PROVE TargetInv'
  BY <1>13 DEF HasClient, Target, AfterClose, Goto, handleVars
<1>14. ASSUME NEW t \in Threads, Shut(t) PROVE TargetInv'
  BY <1>14 DEF Shut, Target, AfterClose, Goto
<1>15. ASSUME NEW t \in Threads, ForgetClient(t) PROVE TargetInv'
  BY <1>15 DEF ForgetClient, Target, AfterClose, Goto
<1>16. ASSUME NEW t \in Threads, Forget(t) PROVE TargetInv'
  BY <1>16 DEF Forget, Forgotten, Goto
<1>17. ASSUME NEW t \in Threads, Send(t) PROVE TargetInv'
  BY <1>17 DEF Send, Goto, handleVars
<1>18. ASSUME NEW t \in Threads, SendRaises(t) PROVE TargetInv'
  BY <1>18 DEF SendRaises, Goto, handleVars
<1>19. CASE UNCHANGED vars
  BY <1>19 DEF vars, threadVars, handleVars
<1>. QED
  BY <1>1, <1>2, <1>3, <1>4, <1>5, <1>6, <1>7, <1>8, <1>9, <1>10, <1>11, <1>12,
     <1>13, <1>14, <1>15, <1>16, <1>17, <1>18, <1>19 DEF Next, ThreadStep

\* Every step keeps unmade handles unknown.
LEMMA BornStep == HandleAssumption /\ TypeOK /\ LockInv /\ TargetInv /\ BornInv /\ [Next]_vars
    => BornInv'
<1> SUFFICES ASSUME HandleAssumption, TypeOK, LockInv, TargetInv, BornInv, [Next]_vars
    PROVE  BornInv'
  OBVIOUS
<1> USE DEF BornInv, LockInv, TargetInv, TypeOK, HandleAssumption, FreePcs, BodyPcs,
            ClosePcs
<1>1. ASSUME NEW t \in Threads, NEW list \in Allowlists, Call(t, list) PROVE BornInv'
  BY <1>1 DEF Call, Closers, Stale, Goto, handleVars
<1>2. ASSUME NEW t \in Threads, NEW p \in Principals, Invoke(t, p) PROVE BornInv'
  BY <1>2 DEF Invoke, Goto, handleVars
<1>3. ASSUME NEW t \in Threads, NEW h \in Handles, DialOk(t, h) PROVE BornInv'
  BY <1>3 DEF DialOk, Goto
<1>4. ASSUME NEW t \in Threads, CallClose(t) PROVE BornInv'
  BY <1>4 DEF CallClose, Goto, handleVars
<1>5. ASSUME NEW t \in Threads, CloseHeld(t) PROVE BornInv'
  BY <1>5 DEF CloseHeld, Goto
<1>6. ASSUME NEW t \in Threads, Look(t) PROVE BornInv'
  BY <1>6 DEF Look, Goto, handleVars
<1>7. ASSUME NEW t \in Threads, ReturnAgent(t) PROVE BornInv'
  BY <1>7 DEF ReturnAgent, Goto, handleVars
<1>8. ASSUME NEW t \in Threads, Enter(t) PROVE BornInv'
  BY <1>8 DEF Enter, MustDial, Acquire, Goto, handleVars
<1>9. ASSUME NEW t \in Threads, DialRaises(t) PROVE BornInv'
  BY <1>9 DEF DialRaises, AfterRaise, Goto, handleVars
<1>10. ASSUME NEW t \in Threads, Leave(t) PROVE BornInv'
  BY <1>10 DEF Leave, Release, Goto, handleVars
<1>11. ASSUME NEW t \in Threads, EnterClose(t) PROVE BornInv'
  BY <1>11 DEF EnterClose, Acquire, Goto, handleVars
<1>12. ASSUME NEW t \in Threads, CloseIfAny(t) PROVE BornInv'
  BY <1>12 DEF CloseIfAny, Goto, handleVars
<1>13. ASSUME NEW t \in Threads, HasClient(t) PROVE BornInv'
  BY <1>13 DEF HasClient, Target, AfterClose, Goto, handleVars
<1>14. ASSUME NEW t \in Threads, Shut(t) PROVE BornInv'
  BY <1>14 DEF Shut, Target, AfterClose, Goto
<1>15. ASSUME NEW t \in Threads, ForgetClient(t) PROVE BornInv'
  BY <1>15 DEF ForgetClient, Target, AfterClose, Goto
<1>16. ASSUME NEW t \in Threads, Forget(t) PROVE BornInv'
  BY <1>16 DEF Forget, Forgotten, Goto
<1>17. ASSUME NEW t \in Threads, Send(t) PROVE BornInv'
  BY <1>17 DEF Send, Goto, handleVars
<1>18. ASSUME NEW t \in Threads, SendRaises(t) PROVE BornInv'
  BY <1>18 DEF SendRaises, Goto, handleVars
<1>19. CASE UNCHANGED vars
  BY <1>19 DEF vars, threadVars, handleVars
<1>. QED
  BY <1>1, <1>2, <1>3, <1>4, <1>5, <1>6, <1>7, <1>8, <1>9, <1>10, <1>11, <1>12,
     <1>13, <1>14, <1>15, <1>16, <1>17, <1>18, <1>19 DEF Next, ThreadStep

\* Every step keeps what a thread under the lock knows of _AGENT.
LEMMA PhaseStep == HandleAssumption /\ TypeOK /\ LockInv /\ TargetInv /\ PhaseInv /\ [Next]_vars
    => PhaseInv'
<1> SUFFICES ASSUME HandleAssumption, TypeOK, LockInv, TargetInv, PhaseInv, [Next]_vars
    PROVE  PhaseInv'
  OBVIOUS
<1> USE DEF PhaseInv, LockInv, TargetInv, TypeOK, HandleAssumption, Target, FreePcs,
            BodyPcs, ClosePcs
<1>1. ASSUME NEW t \in Threads, NEW list \in Allowlists, Call(t, list) PROVE PhaseInv'
  BY <1>1 DEF Call, Closers, Stale, Goto, handleVars
<1>2. ASSUME NEW t \in Threads, NEW p \in Principals, Invoke(t, p) PROVE PhaseInv'
  BY <1>2 DEF Invoke, Goto, handleVars
<1>3. ASSUME NEW t \in Threads, NEW h \in Handles, DialOk(t, h) PROVE PhaseInv'
  BY <1>3 DEF DialOk, Goto
<1>4. ASSUME NEW t \in Threads, CallClose(t) PROVE PhaseInv'
  BY <1>4 DEF CallClose, Goto, handleVars
<1>5. ASSUME NEW t \in Threads, CloseHeld(t) PROVE PhaseInv'
  BY <1>5 DEF CloseHeld, Goto
<1>6. ASSUME NEW t \in Threads, Look(t) PROVE PhaseInv'
  BY <1>6 DEF Look, Goto, handleVars
<1>7. ASSUME NEW t \in Threads, ReturnAgent(t) PROVE PhaseInv'
  BY <1>7 DEF ReturnAgent, Goto, handleVars
<1>8. ASSUME NEW t \in Threads, Enter(t) PROVE PhaseInv'
  BY <1>8 DEF Enter, MustDial, Acquire, Goto, handleVars
<1>9. ASSUME NEW t \in Threads, DialRaises(t) PROVE PhaseInv'
  BY <1>9 DEF DialRaises, AfterRaise, Goto, handleVars
<1>10. ASSUME NEW t \in Threads, Leave(t) PROVE PhaseInv'
  BY <1>10 DEF Leave, Release, Goto, handleVars
<1>11. ASSUME NEW t \in Threads, EnterClose(t) PROVE PhaseInv'
  BY <1>11 DEF EnterClose, Acquire, Goto, handleVars
<1>12. ASSUME NEW t \in Threads, CloseIfAny(t) PROVE PhaseInv'
  BY <1>12 DEF CloseIfAny, Goto, handleVars
<1>13. ASSUME NEW t \in Threads, HasClient(t) PROVE PhaseInv'
  BY <1>13 DEF HasClient, Target, AfterClose, Goto, handleVars
<1>14. ASSUME NEW t \in Threads, Shut(t) PROVE PhaseInv'
  BY <1>14 DEF Shut, Target, AfterClose, Goto
<1>15. ASSUME NEW t \in Threads, ForgetClient(t) PROVE PhaseInv'
  BY <1>15 DEF ForgetClient, Target, AfterClose, Goto
<1>16. ASSUME NEW t \in Threads, Forget(t) PROVE PhaseInv'
  BY <1>16 DEF Forget, Forgotten, Goto
<1>17. ASSUME NEW t \in Threads, Send(t) PROVE PhaseInv'
  BY <1>17 DEF Send, Goto, handleVars
<1>18. ASSUME NEW t \in Threads, SendRaises(t) PROVE PhaseInv'
  BY <1>18 DEF SendRaises, Goto, handleVars
<1>19. CASE UNCHANGED vars
  BY <1>19 DEF vars, threadVars, handleVars
<1>. QED
  BY <1>1, <1>2, <1>3, <1>4, <1>5, <1>6, <1>7, <1>8, <1>9, <1>10, <1>11, <1>12,
     <1>13, <1>14, <1>15, <1>16, <1>17, <1>18, <1>19 DEF Next, ThreadStep

\* Every step leaves _AGENT the only open handle.
LEMMA OpenStep == HandleAssumption /\ TypeOK /\ PhaseInv /\ OpenInv /\ [Next]_vars
    => OpenInv'
<1> SUFFICES ASSUME HandleAssumption, TypeOK, PhaseInv, OpenInv, [Next]_vars
    PROVE  OpenInv'
  OBVIOUS
<1> USE DEF OpenInv, PhaseInv, TypeOK, HandleAssumption
<1>1. ASSUME NEW t \in Threads, NEW list \in Allowlists, Call(t, list) PROVE OpenInv'
  BY <1>1 DEF Call, Closers, Stale, Goto, handleVars
<1>2. ASSUME NEW t \in Threads, NEW p \in Principals, Invoke(t, p) PROVE OpenInv'
  BY <1>2 DEF Invoke, Goto, handleVars
<1>3. ASSUME NEW t \in Threads, NEW h \in Handles, DialOk(t, h) PROVE OpenInv'
  BY <1>3 DEF DialOk, Goto
<1>4. ASSUME NEW t \in Threads, CallClose(t) PROVE OpenInv'
  BY <1>4 DEF CallClose, Goto, handleVars
<1>5. ASSUME NEW t \in Threads, CloseHeld(t) PROVE OpenInv'
  BY <1>5 DEF CloseHeld, Goto
<1>6. ASSUME NEW t \in Threads, Look(t) PROVE OpenInv'
  BY <1>6 DEF Look, Goto, handleVars
<1>7. ASSUME NEW t \in Threads, ReturnAgent(t) PROVE OpenInv'
  BY <1>7 DEF ReturnAgent, Goto, handleVars
<1>8. ASSUME NEW t \in Threads, Enter(t) PROVE OpenInv'
  BY <1>8 DEF Enter, MustDial, Acquire, Goto, handleVars
<1>9. ASSUME NEW t \in Threads, DialRaises(t) PROVE OpenInv'
  BY <1>9 DEF DialRaises, AfterRaise, Goto, handleVars
<1>10. ASSUME NEW t \in Threads, Leave(t) PROVE OpenInv'
  BY <1>10 DEF Leave, Release, Goto, handleVars
<1>11. ASSUME NEW t \in Threads, EnterClose(t) PROVE OpenInv'
  BY <1>11 DEF EnterClose, Acquire, Goto, handleVars
<1>12. ASSUME NEW t \in Threads, CloseIfAny(t) PROVE OpenInv'
  BY <1>12 DEF CloseIfAny, Goto, handleVars
<1>13. ASSUME NEW t \in Threads, HasClient(t) PROVE OpenInv'
  BY <1>13 DEF HasClient, Target, AfterClose, Goto, handleVars
<1>14. ASSUME NEW t \in Threads, Shut(t) PROVE OpenInv'
  BY <1>14 DEF Shut, Target, AfterClose, Goto
<1>15. ASSUME NEW t \in Threads, ForgetClient(t) PROVE OpenInv'
  BY <1>15 DEF ForgetClient, Target, AfterClose, Goto
<1>16. ASSUME NEW t \in Threads, Forget(t) PROVE OpenInv'
  BY <1>16 DEF Forget, Forgotten, Goto
<1>17. ASSUME NEW t \in Threads, Send(t) PROVE OpenInv'
  BY <1>17 DEF Send, Goto, handleVars
<1>18. ASSUME NEW t \in Threads, SendRaises(t) PROVE OpenInv'
  BY <1>18 DEF SendRaises, Goto, handleVars
<1>19. CASE UNCHANGED vars
  BY <1>19 DEF vars, threadVars, handleVars
<1>. QED
  BY <1>1, <1>2, <1>3, <1>4, <1>5, <1>6, <1>7, <1>8, <1>9, <1>10, <1>11, <1>12,
     <1>13, <1>14, <1>15, <1>16, <1>17, <1>18, <1>19 DEF Next, ThreadStep

\* Every step leaves _AGENT open, or in the hands of a closer.
LEMMA AgentStep == HandleAssumption /\ TypeOK /\ LockInv /\ TargetInv /\ PhaseInv /\ AgentInv /\ [Next]_vars
    => AgentInv'
<1> SUFFICES ASSUME HandleAssumption, TypeOK, LockInv, TargetInv, PhaseInv, AgentInv, [Next]_vars
    PROVE  AgentInv'
  OBVIOUS
<1> USE DEF AgentInv, LockInv, TargetInv, TypeOK, HandleAssumption, Closers, FreePcs,
            BodyPcs, ClosePcs
<1>1. ASSUME NEW t \in Threads, NEW list \in Allowlists, Call(t, list) PROVE AgentInv'
  BY <1>1 DEF Call, Closers, Stale, Goto, handleVars
<1>2. ASSUME NEW t \in Threads, NEW p \in Principals, Invoke(t, p) PROVE AgentInv'
  BY <1>2 DEF Invoke, Goto, handleVars
<1>3. ASSUME NEW t \in Threads, NEW h \in Handles, DialOk(t, h) PROVE AgentInv'
  BY <1>3 DEF DialOk, Goto
<1>4. ASSUME NEW t \in Threads, CallClose(t) PROVE AgentInv'
  BY <1>4 DEF CallClose, Goto, handleVars
<1>5. ASSUME NEW t \in Threads, CloseHeld(t) PROVE AgentInv'
  BY <1>5 DEF CloseHeld, Goto
<1>6. ASSUME NEW t \in Threads, Look(t) PROVE AgentInv'
  BY <1>6 DEF Look, Goto, handleVars
<1>7. ASSUME NEW t \in Threads, ReturnAgent(t) PROVE AgentInv'
  BY <1>7 DEF ReturnAgent, Goto, handleVars
<1>8. ASSUME NEW t \in Threads, Enter(t) PROVE AgentInv'
  BY <1>8 DEF Enter, MustDial, Acquire, Goto, handleVars
<1>9. ASSUME NEW t \in Threads, DialRaises(t) PROVE AgentInv'
  BY <1>9 DEF DialRaises, AfterRaise, Goto, handleVars
<1>10. ASSUME NEW t \in Threads, Leave(t) PROVE AgentInv'
  BY <1>10 DEF Leave, Release, Goto, handleVars
<1>11. ASSUME NEW t \in Threads, EnterClose(t) PROVE AgentInv'
  BY <1>11 DEF EnterClose, Acquire, Goto, handleVars
<1>12. ASSUME NEW t \in Threads, CloseIfAny(t) PROVE AgentInv'
  BY <1>12 DEF CloseIfAny, Goto, handleVars
<1>13. ASSUME NEW t \in Threads, HasClient(t) PROVE AgentInv'
  BY <1>13 DEF HasClient, Target, AfterClose, Goto, handleVars
<1>14. ASSUME NEW t \in Threads, Shut(t) PROVE AgentInv'
  BY <1>14 DEF Shut, Target, AfterClose, Goto
<1>15. ASSUME NEW t \in Threads, ForgetClient(t) PROVE AgentInv'
  BY <1>15 DEF ForgetClient, Target, AfterClose, Goto
<1>16. ASSUME NEW t \in Threads, Forget(t) PROVE AgentInv'
  BY <1>16 DEF Forget, Forgotten, Goto
<1>17. ASSUME NEW t \in Threads, Send(t) PROVE AgentInv'
  BY <1>17 DEF Send, Goto, handleVars
<1>18. ASSUME NEW t \in Threads, SendRaises(t) PROVE AgentInv'
  BY <1>18 DEF SendRaises, Goto, handleVars
<1>19. CASE UNCHANGED vars
  BY <1>19 DEF vars, threadVars, handleVars
<1>. QED
  BY <1>1, <1>2, <1>3, <1>4, <1>5, <1>6, <1>7, <1>8, <1>9, <1>10, <1>11, <1>12,
     <1>13, <1>14, <1>15, <1>16, <1>17, <1>18, <1>19 DEF Next, ThreadStep

\* Every step keeps what a clean thread may rely on.
LEMMA CleanStep == HandleAssumption /\ TypeOK /\ LockInv /\ TargetInv /\ BornInv /\ PhaseInv /\ CleanInv /\ [Next]_vars
    => CleanInv'
<1> SUFFICES ASSUME HandleAssumption, TypeOK, LockInv, TargetInv, BornInv, PhaseInv, CleanInv, [Next]_vars
    PROVE  CleanInv'
  OBVIOUS
<1> USE DEF CleanInv, LockInv, TargetInv, BornInv, PhaseInv, TypeOK, HandleAssumption,
            Closers, Stale, FreePcs, BodyPcs, ClosePcs
<1>1. ASSUME NEW t \in Threads, NEW list \in Allowlists, Call(t, list) PROVE CleanInv'
  BY <1>1 DEF Call, Closers, Stale, Goto, handleVars
<1>2. ASSUME NEW t \in Threads, NEW p \in Principals, Invoke(t, p) PROVE CleanInv'
  BY <1>2 DEF Invoke, Goto, handleVars
<1>3. ASSUME NEW t \in Threads, NEW h \in Handles, DialOk(t, h) PROVE CleanInv'
  BY <1>3 DEF DialOk, Goto
<1>4. ASSUME NEW t \in Threads, CallClose(t) PROVE CleanInv'
  BY <1>4 DEF CallClose, Goto, handleVars
<1>5. ASSUME NEW t \in Threads, CloseHeld(t) PROVE CleanInv'
  BY <1>5 DEF CloseHeld, Goto
<1>6. ASSUME NEW t \in Threads, Look(t) PROVE CleanInv'
  BY <1>6 DEF Look, Goto, handleVars
<1>7. ASSUME NEW t \in Threads, ReturnAgent(t) PROVE CleanInv'
  BY <1>7 DEF ReturnAgent, Goto, handleVars
<1>8. ASSUME NEW t \in Threads, Enter(t) PROVE CleanInv'
  BY <1>8 DEF Enter, MustDial, Acquire, Goto, handleVars
<1>9. ASSUME NEW t \in Threads, DialRaises(t) PROVE CleanInv'
  BY <1>9 DEF DialRaises, AfterRaise, Goto, handleVars
<1>10. ASSUME NEW t \in Threads, Leave(t) PROVE CleanInv'
  BY <1>10 DEF Leave, Release, Goto, handleVars
<1>11. ASSUME NEW t \in Threads, EnterClose(t) PROVE CleanInv'
  BY <1>11 DEF EnterClose, Acquire, Goto, handleVars
<1>12. ASSUME NEW t \in Threads, CloseIfAny(t) PROVE CleanInv'
  BY <1>12 DEF CloseIfAny, Goto, handleVars
<1>13. ASSUME NEW t \in Threads, HasClient(t) PROVE CleanInv'
  BY <1>13 DEF HasClient, Target, AfterClose, Goto, handleVars
<1>14. ASSUME NEW t \in Threads, Shut(t) PROVE CleanInv'
  BY <1>14 DEF Shut, Target, AfterClose, Goto
<1>15. ASSUME NEW t \in Threads, ForgetClient(t) PROVE CleanInv'
  BY <1>15 DEF ForgetClient, Target, AfterClose, Goto
<1>16. ASSUME NEW t \in Threads, Forget(t) PROVE CleanInv'
  BY <1>16 DEF Forget, Forgotten, Goto
<1>17. ASSUME NEW t \in Threads, Send(t) PROVE CleanInv'
  BY <1>17 DEF Send, Goto, handleVars
<1>18. ASSUME NEW t \in Threads, SendRaises(t) PROVE CleanInv'
  BY <1>18 DEF SendRaises, Goto, handleVars
<1>19. CASE UNCHANGED vars
  BY <1>19 DEF vars, threadVars, handleVars
<1>. QED
  BY <1>1, <1>2, <1>3, <1>4, <1>5, <1>6, <1>7, <1>8, <1>9, <1>10, <1>11, <1>12,
     <1>13, <1>14, <1>15, <1>16, <1>17, <1>18, <1>19 DEF Next, ThreadStep

\* The initial states satisfy the invariant.
LEMMA HandleInit == HandleAssumption /\ Init => HandleInv
BY DEF Init, HandleAssumption, HandleInv, TypeOK, LockInv, TargetInv, BornInv, PhaseInv, OpenInv,
       AgentInv, CleanInv, FreePcs, BodyPcs, ClosePcs, Closers, Stale

\* The invariant holds in every reachable state.
LEMMA HandleAlways == Spec => []HandleInv
<1>1. HandleInv /\ [Next]_vars => HandleInv'
  BY HandleAssumption, TypeStep, LockStep, TargetStep, BornStep, PhaseStep, OpenStep,
     AgentStep, CleanStep
     DEF HandleInv
<1>. QED  BY HandleAssumption, HandleInit, <1>1, PTL DEF Spec

\* The state of the process-wide handle is well typed for any number of threads.
THEOREM TypeCorrect == Spec => []TypeOK
BY HandleAlways, PTL DEF HandleInv

\* However threads interleave get_agent, close_agent and close, at most one
\* connection to the Assembler is open.
THEOREM OneOpenCorrect == Spec => []OneOpen
<1>1. HandleInv => OneOpen
  BY DEF HandleInv, OpenInv, OneOpen
<1>. QED  BY HandleAlways, <1>1, PTL

\* A get_agent that no close overlapped returns an open handle.
THEOREM GotOpenCorrect == Spec => []GotOpen
<1>1. HandleInv => GotOpen
  <2> SUFFICES ASSUME HandleInv, NEW t \in clean, pc[t] \in {"idle", "send"}
      PROVE  got[t] # NoHandle /\ client[got[t]] = "open"
    BY DEF GotOpen
  <2>1. Closers = {} /\ agent \notin direct /\ got[t] = agent /\ agent \in Handles
    BY DEF HandleInv, CleanInv, Stale, TypeOK
  <2>. QED  BY <2>1, HandleAssumption DEF HandleInv, AgentInv, HandleAssumption
<1>. QED  BY HandleAlways, <1>1, PTL
=============================================================================
