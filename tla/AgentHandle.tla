---------------------------- MODULE AgentHandle ----------------------------
(***************************************************************************)
(* The process-wide agent handle (hawcx_haap/mcp_caller.py: get_agent,     *)
(* close_agent, _AGENT, _AGENT_LOCK) and the HawcxAgent objects behind it  *)
(* (hawcx_haap/agent.py), used by any number of threads.                   *)
(*                                                                         *)
(* get_agent looks at _AGENT without the lock, takes the lock only to      *)
(* connect, and reads _AGENT again after it gave the lock back. A thread   *)
(* may also close the handle it holds, by agent.close() or the end of a    *)
(* with block, which takes no lock and leaves _AGENT alone.                *)
(*                                                                         *)
(* What a tool call does on an open handle is AssemblerClient's subject.   *)
(***************************************************************************)
EXTENDS Naturals

CONSTANTS Threads, NoThread,
          Handles,      \* HawcxAgent objects: bounds how often one connects
          NoHandle,     \* Python's None
          Principals,
          Allowlists    \* the principal_allowlist arguments threads pass

ASSUME HandleAssumption ==
    /\ NoThread \notin Threads
    /\ NoHandle \notin Handles
    /\ Allowlists \subseteq SUBSET Principals

VARIABLES
    pc,       \* where each thread is
    holder,   \* who holds _AGENT_LOCK
    agent,    \* _AGENT
    client,   \* of each HawcxAgent: its _client and the state of its socket
    allow,    \* of each HawcxAgent: _principal_allowlist
    asked,    \* the allowlist of a thread's last get_agent
    got,      \* what that get_agent returned
    acting,   \* the acting_for_user of a thread's invoke
    clean,    \* history: threads whose last get_agent no close overlapped
    direct    \* history: handles that a thread closed without close_agent

threadVars == <<pc, asked, got, acting, clean>>
handleVars == <<agent, client, allow, direct>>
vars == <<threadVars, holder, handleVars>>

\* 474-476, reached from close_agent or directly.
ClosePcs == {"closing", "shut", "forgetClient"}
\* The body of `with _AGENT_LOCK`, outside HawcxAgent.close.
BodyPcs  == {"dial", "leave", "closeIfAny", "forget", "left"}
FreePcs  == {"idle", "look", "fast", "want", "last", "wantClose", "send"}

TypeOK ==
    /\ pc \in [Threads -> FreePcs \cup BodyPcs \cup ClosePcs]
    /\ holder \in Threads \cup {NoThread}
    /\ agent \in Handles \cup {NoHandle}
    /\ client \in [Handles -> {"unborn", "open", "shut", "none"}]
    /\ allow \in [Handles -> SUBSET Principals]
    /\ asked \in [Threads -> SUBSET Principals]
    /\ got \in [Threads -> Handles \cup {NoHandle}]
    /\ acting \in [Threads -> Principals]
    /\ clean \subseteq Threads
    /\ direct \subseteq Handles

Init ==
    /\ pc = [t \in Threads |-> "idle"]
    /\ holder = NoThread
    /\ agent = NoHandle
    /\ client = [h \in Handles |-> "unborn"]
    /\ allow = [h \in Handles |-> {}]
    /\ asked = [t \in Threads |-> {}]
    /\ got = [t \in Threads |-> NoHandle]
    /\ acting \in [Threads -> Principals]
    /\ clean = {}
    /\ direct = {}

Goto(t, from, to) == pc[t] = from /\ pc' = [pc EXCEPT ![t] = to]

-----------------------------------------------------------------------------
(* get_agent.                                                              *)

\* Threads on their way through a close of some handle.
Closers == {t \in Threads : pc[t] \in ClosePcs \cup {"forget"}}
\* _AGENT is a handle that somebody closed behind its back.
Stale == agent \in direct

Call(t, list) ==
    /\ Goto(t, "idle", "look")
    /\ asked' = [asked EXCEPT ![t] = list]
    /\ got' = [got EXCEPT ![t] = NoHandle]
    /\ clean' = IF Closers = {} /\ ~Stale THEN clean \cup {t} ELSE clean \ {t}
    /\ UNCHANGED <<acting, holder, handleVars>>

\* `if _AGENT is not None`, without the lock.
Look(t) ==
    /\ Goto(t, "look", IF agent # NoHandle THEN "fast" ELSE "want")
    /\ UNCHANGED <<asked, got, acting, clean, holder, handleVars>>

\* `return _AGENT` reads it once more, on the fast path and at the end.
ReturnAgent(t) ==
    /\ Goto(t, "fast", "idle") \/ Goto(t, "last", "idle")
    /\ got' = [got EXCEPT ![t] = agent]
    /\ UNCHANGED <<asked, acting, clean, holder, handleVars>>

Acquire(t) == holder = NoThread /\ holder' = t
Release(t) == holder = t /\ holder' = NoThread

NoRecheck == TRUE           \* mutant: connects whatever _AGENT has become
MustDial  == agent = NoHandle

Enter(t) ==
    /\ Goto(t, "want", IF MustDial THEN "dial" ELSE "leave")
    /\ Acquire(t)
    /\ UNCHANGED <<asked, got, acting, clean, handleVars>>

\* HawcxAgent.connect made the handle with this thread's allowlist.
DialOk(t, h) ==
    /\ Goto(t, "dial", "leave")
    /\ client[h] = "unborn"
    /\ client' = [client EXCEPT ![h] = "open"]
    /\ allow' = [allow EXCEPT ![h] = asked[t]]
    /\ agent' = h
    /\ UNCHANGED <<asked, got, acting, clean, holder, direct>>

LockKept(t) == "idle"       \* mutant: an exception skips the release
AfterRaise(t) == "left"

\* An allowlist of the wrong shape, no configuration, no Assembler: it raises.
DialRaises(t) ==
    /\ Goto(t, "dial", AfterRaise(t))
    /\ clean' = clean \ {t}
    /\ UNCHANGED <<asked, got, acting, holder, handleVars>>

\* The end of the with block: to the last line, or out with an exception, or back
\* from close_agent.
Leave(t) ==
    /\ Goto(t, "leave", "last") \/ Goto(t, "left", "idle")
    /\ Release(t)
    /\ UNCHANGED <<asked, got, acting, clean, handleVars>>

-----------------------------------------------------------------------------
(* close_agent and HawcxAgent.close.                                       *)

CallClose(t) ==
    /\ Goto(t, "idle", "wantClose")
    /\ UNCHANGED <<asked, got, acting, clean, holder, handleVars>>

EnterClose(t) ==
    /\ Goto(t, "wantClose", "closeIfAny")
    /\ Acquire(t)
    /\ UNCHANGED <<asked, got, acting, clean, handleVars>>

CloseIfAny(t) ==
    /\ Goto(t, "closeIfAny", IF agent # NoHandle THEN "closing" ELSE "left")
    /\ clean' = IF agent # NoHandle THEN {} ELSE clean
    /\ UNCHANGED <<asked, got, acting, holder, handleVars>>

\* agent.close() by the thread that holds the handle, or __exit__.
CloseHeld(t) ==
    /\ got[t] # NoHandle
    /\ Goto(t, "idle", "closing")
    /\ clean' = {}
    /\ direct' = direct \cup {got[t]}
    /\ UNCHANGED <<asked, got, acting, holder, agent, client, allow>>

Target(t)     == IF holder = t THEN agent ELSE got[t]
AfterClose(t) == IF holder = t THEN "forget" ELSE "idle"

\* `if self._client is not None`
HasClient(t) ==
    /\ Goto(t, "closing", IF client[Target(t)] = "none" THEN AfterClose(t) ELSE "shut")
    /\ UNCHANGED <<asked, got, acting, clean, holder, handleVars>>

\* `self._client.close()`. Another thread may have cleared _client by now: then
\* the call raises AttributeError.
Shut(t) ==
    /\ pc[t] = "shut"
    /\ IF client[Target(t)] = "none"
         THEN Goto(t, "shut", AfterClose(t)) /\ UNCHANGED client
         ELSE /\ Goto(t, "shut", "forgetClient")
              /\ client' = [client EXCEPT ![Target(t)] = "shut"]
    /\ UNCHANGED <<asked, got, acting, clean, holder, agent, allow, direct>>

\* `self._client = None`
ForgetClient(t) ==
    /\ Goto(t, "forgetClient", AfterClose(t))
    /\ client' = [client EXCEPT ![Target(t)] = "none"]
    /\ UNCHANGED <<asked, got, acting, clean, holder, agent, allow, direct>>

KeepAgent == agent          \* mutant: close_agent does not clear _AGENT
DelAgent  == NoThread       \* mutant: close_agent does `del _AGENT`
Forgotten == NoHandle

\* `finally: _AGENT = None`
Forget(t) ==
    /\ Goto(t, "forget", "left")
    /\ agent' = Forgotten
    /\ UNCHANGED <<asked, got, acting, clean, holder, client, allow, direct>>

-----------------------------------------------------------------------------
(* HawcxAgent.invoke: what happens before the Assembler client takes over. *)

\* The handle is open as far as _client says, and the principal is on its list;
\* otherwise invoke raises HawcxError and nothing changes.
Invoke(t, p) ==
    /\ got[t] # NoHandle
    /\ client[got[t]] # "none"
    /\ p \in allow[got[t]]
    /\ Goto(t, "idle", "send")
    /\ acting' = [acting EXCEPT ![t] = p]
    /\ UNCHANGED <<asked, got, clean, holder, handleVars>>

\* `self._client.invoke(req)` writes a frame that names the principal.
Send(t) ==
    /\ Goto(t, "send", "idle")
    /\ client[got[t]] = "open"
    /\ UNCHANGED <<asked, got, acting, clean, holder, handleVars>>

\* Another thread closed the handle since the check: AttributeError if _client is
\* None by now, OSError if only the socket is closed.
SendRaises(t) ==
    /\ Goto(t, "send", "idle")
    /\ client[got[t]] # "open"
    /\ UNCHANGED <<asked, got, acting, clean, holder, handleVars>>

-----------------------------------------------------------------------------
\* Steps a thread takes once it called something.
ThreadStep(t) ==
    \/ Look(t) \/ ReturnAgent(t)
    \/ Enter(t) \/ (\E h \in Handles : DialOk(t, h)) \/ DialRaises(t) \/ Leave(t)
    \/ EnterClose(t) \/ CloseIfAny(t) \/ HasClient(t) \/ Shut(t)
    \/ ForgetClient(t) \/ Forget(t)
    \/ Send(t) \/ SendRaises(t)

Next == \E t \in Threads :
    \/ \E list \in Allowlists : Call(t, list)
    \/ CallClose(t) \/ CloseHeld(t)
    \/ \E p \in Principals : Invoke(t, p)
    \/ ThreadStep(t)

Spec == Init /\ [][Next]_vars

\* Threads are scheduled, and a dial ends (its waits have deadlines). Calls are the
\* caller's choice.
FairSpec == Spec /\ \A t \in Threads : WF_vars(ThreadStep(t))

-----------------------------------------------------------------------------
(* Properties.                                                             *)

\* "Connect once per process": whatever threads call get_agent, close_agent and
\* close at the same time, no two connections are open.
OneOpen == \A g, h \in Handles : client[g] = "open" /\ client[h] = "open" => g = h

\* A get_agent that no close overlapped returns an open handle, and the handle stays
\* open until a close begins; no race with other get_agents makes it return None.
GotOpen == \A t \in clean :
    pc[t] \in {"idle", "send"} => got[t] # NoHandle /\ client[got[t]] = "open"

\* An exclusive section ends: a dial that fails or a close that raises does not
\* leave the lock with a thread that is gone.
LockFreed == holder # NoThread ~> holder = NoThread

\* get_agent is annotated to return a HawcxAgent, never None.
GetsAHandle == [][\A t \in Threads :
    pc[t] \in {"fast", "last"} /\ pc'[t] = "idle" => got'[t] # NoHandle]_vars
=============================================================================
