------------------------------- MODULE Enroll -------------------------------
(***************************************************************************)
(* HawcxAgent.enroll (agent.py, auth_ipc.py): an agent asks the            *)
(* Authenticator for an identity, spending an org token that can be used   *)
(* once, and then connects to the Assembler of that identity.  Either half *)
(* may fail after the other has taken effect, and the caller calls again.  *)
(*                                                                         *)
(* The Authenticator, the Assemblers and the supervisor that starts them   *)
(* are external.  How AssemblerClient.connect goes about its dial is       *)
(* AssemblerClient's subject.                                              *)
(***************************************************************************)
EXTENDS Naturals

CONSTANTS
    Callers,      \* processes that call enroll, again after it raised
    Names,        \* agent names
    NameOf,       \* the name each caller gives
    Args,         \* whether its arguments are "good", or what is wrong with them
    Ids, NoId,    \* agent_instance_ids
    SocketOf,     \* the control socket of each name, or the one HAAP_AUTH_CONTROL_SOCK names
    MaxFaults     \* bound on what goes wrong

ASSUME EnrollAssumption ==
    /\ NameOf \in [Callers -> Names]
    /\ Args \in [Callers -> {"good", "allowlist", "name", "token"}]
    /\ NoId \notin Ids
    /\ DOMAIN SocketOf = Names
    /\ MaxFaults \in Nat

VARIABLES
    pc,         \* where each call is
    sock,       \* its control socket
    wire,       \* what is on it
    reply,      \* the reply on it
    result,     \* the identity register_agent returned, and whether it was there already
    handle,     \* the Assembler the returned agent is connected to
    identity,   \* of each name, at its Authenticator
    asm,        \* identities whose Assembler listens
    faults

vars == <<pc, sock, wire, reply, result, handle, identity, asm, faults>>

NoReply == [kind |-> "none", id |-> NoId]
Kinds == {"none", "Enrolled", "AlreadyEnrolled", "Degraded", "error", "junk"}

TypeOK ==
    /\ pc \in [Callers -> {"idle", "dial", "register", "wait", "connect", "raised", "returned"}]
    /\ sock \in [Callers -> {"none", "open", "closed"}]
    /\ wire \in [Callers -> {"none", "request", "reply", "eof"}]
    /\ reply \in [Callers -> [kind : Kinds, id : Ids \cup {NoId}]]
    /\ result \in [Callers -> Ids \cup {NoId}]
    /\ handle \in [Callers -> Ids \cup {NoId}]
    /\ identity \in [Names -> Ids \cup {NoId}]
    /\ asm \subseteq Ids
    /\ faults \in Nat
    /\ \A c \in Callers : pc[c] \in {"connect", "returned"} => result[c] # NoId

Init ==
    /\ pc = [c \in Callers |-> "idle"]
    /\ sock = [c \in Callers |-> "none"]
    /\ wire = [c \in Callers |-> "none"]
    /\ reply = [c \in Callers |-> NoReply]
    /\ result = [c \in Callers |-> NoId]
    /\ handle = [c \in Callers |-> NoId]
    /\ identity = [n \in Names |-> NoId]
    /\ asm = {} /\ faults = 0

external == <<identity, asm>>
Goto(c, from, to) == pc[c] = from /\ pc' = [pc EXCEPT ![c] = to]
Fault == faults < MaxFaults /\ faults' = faults + 1
Set(f, c, v) == [f EXCEPT ![c] = v]

-----------------------------------------------------------------------------
(* The call.                                                               *)

\* Arguments are refused before anything is sent: the allowlist's shape, an empty name,
\* an empty token.
Refused(c) == Args[c] \in {"allowlist", "name", "token"}

Call(c) ==
    /\ pc[c] \in {"idle", "raised"}
    /\ pc' = Set(pc, c, IF Refused(c) THEN "raised" ELSE "dial")
    /\ sock' = Set(sock, c, "none") /\ wire' = Set(wire, c, "none")
    /\ reply' = Set(reply, c, NoReply) /\ result' = Set(result, c, NoId)
    /\ UNCHANGED <<handle, faults, external>>

\* AuthenticatorClient.connect: path check and connect.
DialOk(c) ==
    /\ Goto(c, "dial", "register")
    /\ sock' = Set(sock, c, "open")
    /\ UNCHANGED <<wire, reply, result, handle, faults, external>>

DialFails(c) ==
    /\ Goto(c, "dial", "raised")
    /\ Fault
    /\ UNCHANGED <<sock, wire, reply, result, handle, external>>

\* The `with` block closes the socket whichever way register_agent ends.
CloseIfDone(c) == sock' = IF pc'[c] = "connect" THEN Set(sock, c, "closed") ELSE sock  \* mutant
CloseAtExit(c) == sock' = Set(sock, c, "closed")

\* register_agent: the request, on a socket whose peer may be gone.
Register(c) ==
    /\ Goto(c, "register", "wait")
    /\ wire[c] = "none"
    /\ wire' = Set(wire, c, "request")
    /\ UNCHANGED <<sock, reply, result, handle, faults, external>>

RegisterFails(c) ==
    /\ wire[c] = "eof"
    /\ Goto(c, "register", "raised")
    /\ CloseAtExit(c)
    /\ UNCHANGED <<wire, reply, result, handle, faults, external>>

\* read_frame and _parse_register_response.
Enrolled(r) == r.kind \in {"Enrolled", "AlreadyEnrolled"}
OnlyEnrolled(r) == r.kind = "Enrolled"   \* mutant: an identity that was there is no success

AnyReply(r) == r.kind # "junk"           \* mutant: a refusal is parsed as an enrolment

Success(r) == Enrolled(r)

Receive(c) ==
    /\ wire[c] = "reply"
    /\ Goto(c, "wait", IF Success(reply[c]) THEN "connect" ELSE "raised")
    /\ result' = Set(result, c, IF Success(reply[c]) THEN reply[c].id ELSE NoId)
    /\ CloseAtExit(c)
    /\ UNCHANGED <<wire, reply, handle, faults, external>>

ReadFails(c) ==
    /\ wire[c] = "eof"
    /\ Goto(c, "wait", "raised")
    /\ CloseAtExit(c)
    /\ UNCHANGED <<wire, reply, result, handle, faults, external>>

\* The socket's deadline; the ceremony may go on, or be over, at the other end.
Timeout(c) ==
    /\ wire[c] \in {"request", "reply"}
    /\ Goto(c, "wait", "raised")
    /\ Fault
    /\ CloseAtExit(c)
    /\ UNCHANGED <<wire, reply, result, handle, external>>

\* The second half: default_endpoint_for the identity, AssemblerClient.connect.
AnyAssembler(c) == CHOOSE i \in asm : TRUE   \* mutant: an Assembler, not this identity's
Endpoint(c) == result[c]

ConnectOk(c) ==
    /\ asm # {} /\ Endpoint(c) \in asm
    /\ Goto(c, "connect", "returned")
    /\ handle' = Set(handle, c, Endpoint(c))
    /\ UNCHANGED <<sock, wire, reply, result, faults, external>>

\* Nobody listens yet: the call raises although it has enrolled, and the identity it
\* was given is lost with it.
ConnectFails(c) ==
    /\ Goto(c, "connect", "raised")
    /\ result[c] \notin asm
    /\ result' = Set(result, c, NoId)
    /\ UNCHANGED <<sock, wire, reply, handle, faults, external>>

ConnectBreaks(c) ==
    /\ Goto(c, "connect", "raised")
    /\ Fault
    /\ result' = Set(result, c, NoId)
    /\ UNCHANGED <<sock, wire, reply, handle, external>>

-----------------------------------------------------------------------------
(* The environment.                                                        *)

\* The Authenticator answers a request: it enrols the name with the token, unless it has
\* one already, and keeps that.  It does so even if the caller is gone.
Answer(c, kind, id) ==
    /\ wire' = Set(wire, c, "reply")
    /\ reply' = Set(reply, c, [kind |-> kind, id |-> id])

Ceremony(c) ==
    LET n == NameOf[c]
    IN  /\ wire[c] = "request"
        /\ IF identity[n] # NoId
           THEN Answer(c, "AlreadyEnrolled", identity[n]) /\ UNCHANGED identity
           ELSE \E i \in Ids :
                   /\ \A m \in Names : identity[m] # i
                   /\ identity' = [identity EXCEPT ![n] = i]
                   /\ Answer(c, "Enrolled", i)
        /\ UNCHANGED <<pc, sock, result, handle, asm, faults>>

Refuse(c) ==
    /\ wire[c] = "request"
    /\ Fault
    /\ \E k \in {"error", "junk"} : Answer(c, k, NoId)
    /\ UNCHANGED <<pc, sock, result, handle, external>>

\* The name has its identity, but the policy push that belongs to it failed.
Degrade(c) ==
    LET n == NameOf[c]
    IN  /\ wire[c] = "request" /\ identity[n] = NoId
        /\ Fault
        /\ \E i \in Ids :
              /\ \A m \in Names : identity[m] # i
              /\ identity' = [identity EXCEPT ![n] = i]
              /\ Answer(c, "Degraded", i)
        /\ UNCHANGED <<pc, sock, result, handle, asm>>

\* An Authenticator dies with every connection on its socket, and comes back.
Crash(s) ==
    /\ Fault
    /\ wire' = [c \in Callers |-> IF SocketOf[NameOf[c]] = s /\ sock[c] = "open"
                                     THEN "eof" ELSE wire[c]]
    /\ UNCHANGED <<pc, sock, reply, result, handle, external>>

\* The supervisor starts the Assembler of an identity some time after it exists.
StartAssembler(i) ==
    /\ i \notin asm
    /\ \E n \in Names : identity[n] = i
    /\ asm' = asm \cup {i}
    /\ UNCHANGED <<pc, sock, wire, reply, result, handle, identity, faults>>

-----------------------------------------------------------------------------
CallStep(c) ==
    \/ Call(c) \/ DialOk(c) \/ Register(c) \/ RegisterFails(c)
    \/ Receive(c) \/ ReadFails(c) \/ ConnectOk(c) \/ ConnectFails(c)

Next ==
    \/ \E c \in Callers : \/ CallStep(c)
                          \/ DialFails(c) \/ Timeout(c) \/ ConnectBreaks(c)
                          \/ Ceremony(c) \/ Refuse(c) \/ Degrade(c)
    \/ \E n \in Names : Crash(SocketOf[n])
    \/ \E i \in Ids : StartAssembler(i)

Spec == Init /\ [][Next]_vars

\* Threads run, an Authenticator answers what it has read, the supervisor starts what it
\* has enrolled.  Nothing is assumed of the faults, which are finite in number.
FairSpec ==
    /\ Spec
    /\ \A c \in Callers : WF_vars(CallStep(c)) /\ WF_vars(Ceremony(c))
    /\ \A i \in Ids : WF_vars(StartAssembler(i))

-----------------------------------------------------------------------------
(* Properties.                                                             *)

\* The agent enroll returns is connected to the Assembler of the identity that the
\* Authenticator holds for the caller's name, whoever enrolled it and however many
\* calls it took (agent.py:250-268).
HandleMatches ==
    \A c \in Callers : pc[c] = "returned" =>
        handle[c] # NoId /\ handle[c] = identity[NameOf[c]] /\ result[c] = handle[c]

\* The control socket is open only while the enrolment goes on: no end of a call, and
\* not the second half, holds it (agent.py:242-250, auth_ipc.py:227-239).
SocketClosed == \A c \in Callers : pc[c] \notin {"register", "wait"} => sock[c] # "open"

\* A caller that calls again whenever enroll raises gets its agent, also when the
\* enrolment took effect in a call that never heard of it.
EnrollsAtLast == \A c \in Callers : Args[c] = "good" => <>(pc[c] = "returned")
=============================================================================
