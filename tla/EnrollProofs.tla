---------------------------- MODULE EnrollProofs ----------------------------
(***************************************************************************)
(* Proofs about Enroll, for any number of callers, names, sockets and      *)
(* faults.                                                                 *)
(***************************************************************************)
EXTENDS Enroll, TLAPS

-----------------------------------------------------------------------------
(* The inductive invariant.                                                *)

\* A reply that names an identity names the one the caller's name has, and so does
\* what a call keeps of it; an identity is not changed once it is there.
IdentityInv == \A c \in Callers :
    /\ Enrolled(reply[c]) => reply[c].id # NoId /\ reply[c].id = identity[NameOf[c]]
    /\ result[c] # NoId => result[c] = identity[NameOf[c]]

\* A call that returned has the handle of what it kept.
ReturnInv == \A c \in Callers : pc[c] = "returned" => handle[c] = result[c]

EnrollInv == TypeOK /\ IdentityInv /\ ReturnInv /\ SocketClosed

-----------------------------------------------------------------------------
LEMMA EnrollInit == EnrollAssumption /\ Init => EnrollInv
<1> SUFFICES ASSUME EnrollAssumption, Init PROVE EnrollInv
  OBVIOUS
<1>1. TypeOK
  BY DEF Init, TypeOK, EnrollAssumption, NoReply, Kinds
<1>2. IdentityInv /\ ReturnInv /\ SocketClosed
  BY DEF Init, IdentityInv, ReturnInv, SocketClosed, NoReply, Enrolled
<1> QED BY <1>1, <1>2 DEF EnrollInv

-----------------------------------------------------------------------------
\* Every step keeps the types.
LEMMA TypeStep == EnrollAssumption /\ TypeOK /\ IdentityInv /\ [Next]_vars => TypeOK'
<1> SUFFICES ASSUME EnrollAssumption, TypeOK, IdentityInv, [Next]_vars PROVE TypeOK'
  OBVIOUS
<1> USE DEF EnrollAssumption, TypeOK, Kinds, NoReply, external, Goto, Fault, Set, CloseAtExit
<1>1. ASSUME NEW c \in Callers, Call(c) PROVE TypeOK'
  BY <1>1 DEF Call
<1>2. ASSUME NEW c \in Callers, DialOk(c) PROVE TypeOK'
  BY <1>2 DEF DialOk
<1>3. ASSUME NEW c \in Callers, DialFails(c) PROVE TypeOK'
  BY <1>3 DEF DialFails
<1>4. ASSUME NEW c \in Callers, Register(c) PROVE TypeOK'
  BY <1>4 DEF Register
<1>5. ASSUME NEW c \in Callers, RegisterFails(c) PROVE TypeOK'
  BY <1>5 DEF RegisterFails
<1>6. ASSUME NEW c \in Callers, Receive(c) PROVE TypeOK'
  BY <1>6 DEF Receive, Success, Enrolled, IdentityInv
<1>7. ASSUME NEW c \in Callers, ReadFails(c) PROVE TypeOK'
  BY <1>7 DEF ReadFails
<1>8. ASSUME NEW c \in Callers, Timeout(c) PROVE TypeOK'
  BY <1>8 DEF Timeout
<1>9. ASSUME NEW c \in Callers, ConnectOk(c) PROVE TypeOK'
  BY <1>9 DEF ConnectOk, Endpoint
<1>10. ASSUME NEW c \in Callers, ConnectFails(c) PROVE TypeOK'
  BY <1>10 DEF ConnectFails
<1>11. ASSUME NEW c \in Callers, ConnectBreaks(c) PROVE TypeOK'
  BY <1>11 DEF ConnectBreaks
<1>12. ASSUME NEW c \in Callers, Ceremony(c) PROVE TypeOK'
  <2>0. NameOf[c] \in Names
    OBVIOUS
  <2>1. CASE identity[NameOf[c]] # NoId
    <3>1. Answer(c, "AlreadyEnrolled", identity[NameOf[c]]) /\ UNCHANGED identity
      BY <1>12, <2>1 DEF Ceremony
    <3>2. [kind |-> "AlreadyEnrolled", id |-> identity[NameOf[c]]] \in [kind : Kinds, id : Ids \cup {NoId}]
      BY <2>0
    <3> QED BY <1>12, <3>1, <3>2 DEF Ceremony, Answer
  <2>2. CASE identity[NameOf[c]] = NoId
    <3> PICK i \in Ids : /\ identity' = [identity EXCEPT ![NameOf[c]] = i]
                         /\ Answer(c, "Enrolled", i)
      BY <1>12, <2>2 DEF Ceremony
    <3>1. [kind |-> "Enrolled", id |-> i] \in [kind : Kinds, id : Ids \cup {NoId}]
      OBVIOUS
    <3> QED BY <1>12, <2>0, <3>1 DEF Ceremony, Answer
  <2> QED BY <2>1, <2>2
<1>13. ASSUME NEW c \in Callers, Refuse(c) PROVE TypeOK'
  BY <1>13 DEF Refuse, Answer
<1>17. ASSUME NEW c \in Callers, Degrade(c) PROVE TypeOK'
  <2> PICK i \in Ids : /\ identity' = [identity EXCEPT ![NameOf[c]] = i]
                       /\ Answer(c, "Degraded", i)
    BY <1>17 DEF Degrade
  <2>1. [kind |-> "Degraded", id |-> i] \in [kind : Kinds, id : Ids \cup {NoId}]
    OBVIOUS
  <2> QED BY <1>17, <2>1 DEF Degrade, Answer
<1>14. ASSUME NEW n \in Names, Crash(SocketOf[n]) PROVE TypeOK'
  BY <1>14 DEF Crash
<1>15. ASSUME NEW i \in Ids, StartAssembler(i) PROVE TypeOK'
  BY <1>15 DEF StartAssembler
<1>16. CASE UNCHANGED vars
  BY <1>16 DEF vars
<1> QED BY <1>1, <1>2, <1>3, <1>4, <1>5, <1>6, <1>7, <1>8, <1>9, <1>10, <1>11, <1>12,
           <1>13, <1>14, <1>15, <1>16, <1>17 DEF Next, CallStep

\* An identity, once given, stays; replies and results keep agreeing with it.
LEMMA IdentityStep == EnrollAssumption /\ TypeOK /\ IdentityInv /\ [Next]_vars => IdentityInv'
<1> SUFFICES ASSUME EnrollAssumption, TypeOK, IdentityInv, [Next]_vars,
                    NEW d \in Callers
             PROVE  /\ Enrolled(reply[d])' => (reply[d].id)' # NoId /\ (reply[d].id = identity[NameOf[d]])'
                    /\ result'[d] # NoId => (result[d] = identity[NameOf[d]])'
  BY DEF IdentityInv
<1> DEFINE Agrees == /\ Enrolled(reply[d])' => (reply[d].id)' # NoId /\ (reply[d].id = identity[NameOf[d]])'
                     /\ result'[d] # NoId => (result[d] = identity[NameOf[d]])'
<1>a. NameOf[d] \in Names /\ NoId \notin Ids
  BY DEF EnrollAssumption
<1> USE <1>a DEF TypeOK, IdentityInv, Enrolled, external, Set, Goto
<1>1. ASSUME NEW c \in Callers, Call(c) PROVE Agrees
  BY <1>1 DEF Call, NoReply
<1>2. ASSUME NEW c \in Callers, Receive(c) PROVE Agrees
  BY <1>2 DEF Receive, Success
<1>3. ASSUME NEW c \in Callers, Ceremony(c) PROVE Agrees
  <2>0. NameOf[c] \in Names
    BY DEF EnrollAssumption
  <2>1. CASE identity[NameOf[c]] # NoId
    BY <1>3, <2>0, <2>1 DEF Ceremony, Answer
  <2>2. CASE identity[NameOf[c]] = NoId
    <3> PICK i \in Ids : /\ identity' = [identity EXCEPT ![NameOf[c]] = i]
                         /\ Answer(c, "Enrolled", i)
      BY <1>3, <2>2 DEF Ceremony
    <3>1. CASE d = c
      BY <1>3, <2>0, <2>2, <3>1 DEF Ceremony, Answer
    <3>2. CASE d # c
      <4>1. reply'[d] = reply[d] /\ result'[d] = result[d]
        BY <1>3, <3>2 DEF Ceremony, Answer
      <4>2. identity[NameOf[d]] # NoId => identity'[NameOf[d]] = identity[NameOf[d]]
        BY <2>0, <2>2
      <4> QED BY <4>1, <4>2
    <3> QED BY <3>1, <3>2
  <2> QED BY <2>1, <2>2
<1>4. ASSUME NEW c \in Callers, Refuse(c) PROVE Agrees
  BY <1>4 DEF Refuse, Answer
<1>10. ASSUME NEW c \in Callers, Degrade(c) PROVE Agrees
  <2> PICK i \in Ids : /\ identity' = [identity EXCEPT ![NameOf[c]] = i]
                       /\ Answer(c, "Degraded", i)
    BY <1>10 DEF Degrade
  <2>1. identity[NameOf[d]] # NoId => identity'[NameOf[d]] = identity[NameOf[d]]
    BY <1>10, <1>a DEF Degrade, EnrollAssumption
  <2>2. result'[d] = result[d] /\ (d # c => reply'[d] = reply[d])
    BY <1>10 DEF Degrade, Answer
  <2>3. d = c => ~Enrolled(reply[d])'
    BY DEF Answer
  <2> QED BY <2>1, <2>2, <2>3
<1>5. ASSUME NEW c \in Callers, ConnectFails(c) \/ ConnectBreaks(c) PROVE Agrees
  BY <1>5 DEF ConnectFails, ConnectBreaks
<1>6. ASSUME NEW c \in Callers,
             \/ DialOk(c) \/ DialFails(c) \/ Register(c) \/ RegisterFails(c) \/ ReadFails(c)
             \/ Timeout(c) \/ ConnectOk(c)
      PROVE  Agrees
  BY <1>6 DEF DialOk, DialFails, Register, RegisterFails, ReadFails, Timeout, ConnectOk
<1>7. ASSUME NEW n \in Names, Crash(SocketOf[n]) PROVE Agrees
  BY <1>7 DEF Crash
<1>8. ASSUME NEW i \in Ids, StartAssembler(i) PROVE Agrees
  BY <1>8 DEF StartAssembler
<1>9. CASE UNCHANGED vars
  BY <1>9 DEF vars
<1> QED BY <1>1, <1>2, <1>3, <1>4, <1>5, <1>6, <1>7, <1>8, <1>9, <1>10 DEF Next, CallStep

\* Where the calls are, with their sockets, handles.
LEMMA CallsStep ==
    EnrollInv /\ EnrollAssumption /\ [Next]_vars
        => ReturnInv' /\ SocketClosed'
<1> SUFFICES ASSUME EnrollInv, EnrollAssumption, [Next]_vars
             PROVE  ReturnInv' /\ SocketClosed'
  OBVIOUS
<1> DEFINE Goal == ReturnInv' /\ SocketClosed'
<1> USE DEF EnrollInv, TypeOK, ReturnInv, SocketClosed,
            EnrollAssumption, external, Set, Goto, CloseAtExit
<1>1. ASSUME NEW c \in Callers, Call(c) PROVE Goal
  BY <1>1 DEF Call, Refused
<1>2. ASSUME NEW c \in Callers, DialOk(c) \/ DialFails(c) PROVE Goal
  BY <1>2 DEF DialOk, DialFails
<1>3. ASSUME NEW c \in Callers, Register(c) PROVE Goal
  BY <1>3 DEF Register
<1>4. ASSUME NEW c \in Callers, RegisterFails(c) \/ ReadFails(c) \/ Timeout(c) PROVE Goal
  BY <1>4 DEF RegisterFails, ReadFails, Timeout
<1>5. ASSUME NEW c \in Callers, Receive(c) PROVE Goal
  BY <1>5 DEF Receive
<1>6. ASSUME NEW c \in Callers, ConnectOk(c) PROVE Goal
  BY <1>6 DEF ConnectOk, Endpoint
<1>7. ASSUME NEW c \in Callers, ConnectFails(c) \/ ConnectBreaks(c) PROVE Goal
  BY <1>7 DEF ConnectFails, ConnectBreaks
<1>8. ASSUME NEW c \in Callers, Ceremony(c) \/ Refuse(c) \/ Degrade(c) PROVE Goal
  BY <1>8 DEF Ceremony, Refuse, Degrade
<1>9. ASSUME NEW n \in Names, Crash(SocketOf[n]) PROVE Goal
  BY <1>9 DEF Crash
<1>10. ASSUME NEW i \in Ids, StartAssembler(i) PROVE Goal
  BY <1>10 DEF StartAssembler
<1>11. CASE UNCHANGED vars
  BY <1>11 DEF vars
<1> QED BY <1>1, <1>2, <1>3, <1>4, <1>5, <1>6, <1>7, <1>8, <1>9, <1>10, <1>11
        DEF Next, CallStep

-----------------------------------------------------------------------------
LEMMA EnrollInvariant == Spec => []EnrollInv
<1>1. Init => EnrollInv
  BY EnrollInit, EnrollAssumption
<1>2. EnrollInv /\ [Next]_vars => EnrollInv'
  BY TypeStep, IdentityStep, CallsStep, EnrollAssumption DEF EnrollInv
<1> QED BY <1>1, <1>2, PTL DEF Spec

\* Every variable keeps its type, and a call that goes on to the Assembler has an
\* identity.
THEOREM TypeCorrect == Spec => []TypeOK
<1>1. EnrollInv => TypeOK
  BY DEF EnrollInv
<1> QED BY EnrollInvariant, <1>1, PTL

\* The agent that enroll returns is connected to the Assembler of the identity of the
\* caller's name, however many callers enrol the same name at once.
THEOREM HandleMatchesCorrect == Spec => []HandleMatches
<1>1. EnrollInv => HandleMatches
  BY DEF EnrollInv, TypeOK, IdentityInv, ReturnInv, HandleMatches
<1> QED BY EnrollInvariant, <1>1, PTL

\* No control socket outlives the enrolment.
THEOREM SocketClosedCorrect == Spec => []SocketClosed
<1>1. EnrollInv => SocketClosed
  BY DEF EnrollInv
<1> QED BY EnrollInvariant, <1>1, PTL
=============================================================================
