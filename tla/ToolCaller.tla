------------------------------ MODULE ToolCaller ------------------------------
(***************************************************************************)
(* What stands between an agent framework and HawcxAgent.invoke:           *)
(* mcp_caller.Caller.call, which reads a response and says allow or deny,  *)
(* and the CrewAI tools of hawcx_crewai/tool.py, which act for a user and  *)
(* turn whatever happens into text. Threads share one agent; tools made    *)
(* for one user are made from tools of another.                            *)
(*                                                                         *)
(* A response body is what json.loads and the scan for "data:" lines can   *)
(* tell apart: one JSON value, a stream of events each on one line or on   *)
(* several, or neither. The Assembler and the server are external.         *)
(***************************************************************************)
EXTENDS Naturals, Sequences, FiniteSetsExt

CONSTANTS Threads, Tools, Users,
          Allowlist,      \* the principal_allowlist of the shared agent
          Bodies,         \* the response bodies that a server may send
          StatusCodes,    \* and its HTTP statuses
          NoUser,         \* no principal: None
          Blank           \* the empty string

Docs   == {"result", "notification", "policy", "policy_uncoded", "fault", "blank_error"}
Events == [doc : Docs \cup {"not_object"}, split : BOOLEAN]
Body   == [form : {"json", "stream", "other"}, events : Seq(Events)]

ASSUME CallerAssumption ==
    /\ Allowlist \subseteq Users
    /\ NoUser \notin Users /\ Blank \notin Users /\ NoUser # Blank
    /\ Bodies \subseteq Body
    /\ \A b \in Bodies : (b.form = "json" => Len(b.events) = 1) /\ (b.form = "other" => b.events = <<>>)
    /\ StatusCodes \subseteq Nat

VARIABLES
    pc,        \* where each thread is in its call
    job,       \* the call: who makes it, with which tool, for which user
    acting,    \* the principal it acts for
    wire,      \* the principal in the request it wrote
    answer,    \* the response it read
    outcome,   \* how the call ended
    default,   \* default_user_principal_id of each tool that exists
    madeFor,   \* history: the user each tool was made for
    open       \* the agent has its client

threadVars == <<pc, job, acting, wire, answer, outcome>>
vars       == <<threadVars, default, madeFor, open>>

Principals == Users \cup {NoUser, Blank}
NoTool     == "no tool"
Unmade     == "unmade"
Unsent     == "unsent"
NoAnswer   == [status |-> 0, body |-> [form |-> "other", events |-> <<>>]]
Answers    == [status : StatusCodes, body : Bodies]
Jobs       == [by : {"caller"}, tool : {NoTool}, user : Users \cup {Blank}]
                \cup [by : {"run", "document"}, tool : Tools, user : Principals]
NoJob      == [by |-> "nobody", tool |-> NoTool, user |-> NoUser]

Denials  == {"rejected", "policy", "policy_uncoded", "fault", "status", "unreadable"}
Decided  == {<<"allow">>} \cup {<<"deny", why>> : why \in Denials}
Texts    == {<<"text", what>> : what \in {"body", "http_error", "not_found", "rejected", "error"}}
Raised   == {<<"raise", what>> : what \in {"hawcx_error", "os_error", "attribute_error", "type_error"}}
Outcomes == Decided \cup Texts \cup Raised \cup {<<"none">>}

TypeOK ==
    /\ pc \in [Threads -> {"idle", "check", "use", "wait", "done"}]
    /\ job \in [Threads -> Jobs \cup {NoJob}]
    /\ acting \in [Threads -> Principals]
    /\ wire \in [Threads -> Principals \cup {Unsent}]
    /\ answer \in [Threads -> Answers \cup {NoAnswer}]
    /\ outcome \in [Threads -> Outcomes]
    /\ default \in [Tools -> Users \cup {NoUser, Unmade}]
    /\ madeFor \in [Tools -> Users \cup {NoUser, Unmade}]
    /\ open \in BOOLEAN

Init ==
    /\ pc = [t \in Threads |-> "idle"]
    /\ job = [t \in Threads |-> NoJob]
    /\ acting = [t \in Threads |-> NoUser]
    /\ wire = [t \in Threads |-> Unsent]
    /\ answer = [t \in Threads |-> NoAnswer]
    /\ outcome = [t \in Threads |-> <<"none">>]
    /\ default = [k \in Tools |-> Unmade]
    /\ madeFor = default
    /\ open = TRUE

-----------------------------------------------------------------------------
(* Tools.                                                                  *)

\* HawcxTool.__init__, with or without a default principal.
Construct(k, u) ==
    /\ default[k] = Unmade
    /\ default' = [default EXCEPT ![k] = u]
    /\ madeFor' = [madeFor EXCEPT ![k] = u]
    /\ UNCHANGED <<threadVars, open>>

Rebind(k, new, u) == default' = [default EXCEPT ![k] = u, ![new] = u]   \* mutant
\* model_dump, the override, and a new instance over the same agent.
Sibling(k, new, u) == default' = [default EXCEPT ![new] = u]

ForUser(k, new, u) ==
    /\ default[k] # Unmade /\ default[new] = Unmade
    /\ Sibling(k, new, u)
    /\ madeFor' = [madeFor EXCEPT ![new] = u]
    /\ UNCHANGED <<threadVars, open>>

-----------------------------------------------------------------------------
(* Reading a response.                                                     *)

\* mutant: an "error" member makes a document an error, whatever it holds
HasError(doc) == doc \in {"policy", "policy_uncoded", "fault", "blank_error"}
IsError(doc)  == doc \in {"policy", "policy_uncoded", "fault"}   \* a truthy "error"
IsObject(e)   == e.doc # "not_object"

\* mutant: the scan stops at the first event
FirstLine(b) == {i \in DOMAIN b.events : i = 1}
\* _json_documents: the body as one JSON value, else each "data:" line that is
\* one. A document whose lines are split over several is none of them. The documents
\* are given by their places in the body.
JsonDocuments(b) ==
    {i \in DOMAIN b.events : /\ IsObject(b.events[i])
                             /\ b.form = "json" \/ (b.form = "stream" /\ ~b.events[i].split)}

\* A code in the reserved range is a decision of the gateway; another error is a
\* fault that nobody decided.
Denial(doc) == <<"deny", doc>>

\* _classify: the first document with an error, then the status, then whether
\* there is a document at all.
Classify(a) ==
    LET docs == JsonDocuments(a.body)
        errs == {i \in docs : IsError(a.body.events[i].doc)}
    IN  IF errs # {}                  THEN Denial(a.body.events[Min(errs)].doc)
        ELSE IF a.status \in {401, 403} THEN <<"deny", "status">>
        ELSE IF docs = {}               THEN <<"deny", "unreadable">>
        ELSE <<"allow">>

\* HawcxTool._run and _DocumentTool._run.
Text(by, a) == IF by = "document" /\ a.status = 404 THEN <<"text", "not_found">>
               ELSE IF a.status >= 400 THEN <<"text", "http_error">> ELSE <<"text", "body">>

-----------------------------------------------------------------------------
(* Calls.                                                                  *)

End(t, how) == pc' = [pc EXCEPT ![t] = "done"] /\ outcome' = [outcome EXCEPT ![t] = how]

\* RequestRejected is an answer to both; another HawcxError is text to the one
\* and an exception to the other; any other exception is one to both.
AsRejected(t)  == IF job[t].by = "caller" THEN <<"deny", "rejected">> ELSE <<"text", "rejected">>
AsHawcx(t)     == IF job[t].by = "caller" THEN <<"raise", "hawcx_error">> ELSE <<"text", "error">>

\* `kwargs.pop(...) or default`: an empty principal counts as none.
Principal(j) == IF j.by = "caller" THEN j.user
                ELSE IF j.user \in Users THEN j.user ELSE default[j.tool]

Begin(t, j) ==
    /\ pc[t] = "idle"
    /\ j.by # "caller" => default[j.tool] # Unmade
    /\ job' = [job EXCEPT ![t] = j]
    /\ acting' = [acting EXCEPT ![t] = Principal(j)]
    /\ IF Principal(j) = NoUser
         THEN End(t, <<"raise", "type_error">>)       \* invoke() without its acting_for_user
         ELSE pc' = [pc EXCEPT ![t] = "check"] /\ UNCHANGED outcome
    /\ UNCHANGED <<wire, answer, default, madeFor, open>>

AnyUser(u) == u # Blank      \* mutant: the gate is left to the Assembler
\* _assert_principal_allowed.
Allowed(u) == u \in Allowlist

\* invoke, as far as its tests.
Check(t) ==
    /\ pc[t] = "check"
    /\ IF open /\ Allowed(acting[t])
         THEN pc' = [pc EXCEPT ![t] = "use"] /\ UNCHANGED outcome
         ELSE End(t, AsHawcx(t))
    /\ UNCHANGED <<job, acting, wire, answer, default, madeFor, open>>

\* self._client.invoke(req): the client is read again.
Send(t) ==
    /\ pc[t] = "use"
    /\ IF open
         THEN /\ wire' = [wire EXCEPT ![t] = acting[t]]
              /\ pc' = [pc EXCEPT ![t] = "wait"]
              /\ UNCHANGED outcome
         ELSE End(t, <<"raise", "attribute_error">>) /\ UNCHANGED wire
    /\ UNCHANGED <<job, acting, answer, default, madeFor, open>>

Respond(t, a) ==
    /\ pc[t] = "wait"
    /\ answer' = [answer EXCEPT ![t] = a]
    /\ End(t, IF job[t].by = "caller" THEN Classify(a) ELSE Text(job[t].by, a))
    /\ UNCHANGED <<job, acting, wire, default, madeFor, open>>

\* The Assembler refused, or the connection failed the call.
Raise(t) ==
    /\ pc[t] = "wait"
    /\ \E how \in {AsRejected(t), AsHawcx(t), <<"raise", "os_error">>} : End(t, how)
    /\ UNCHANGED <<job, acting, wire, answer, default, madeFor, open>>

Forget(t) ==
    /\ pc[t] = "done"
    /\ pc' = [pc EXCEPT ![t] = "idle"]
    /\ job' = [job EXCEPT ![t] = NoJob]
    /\ acting' = [acting EXCEPT ![t] = NoUser]
    /\ wire' = [wire EXCEPT ![t] = Unsent]
    /\ answer' = [answer EXCEPT ![t] = NoAnswer]
    /\ outcome' = [outcome EXCEPT ![t] = <<"none">>]
    /\ UNCHANGED <<default, madeFor, open>>

CloseAgent ==
    /\ open
    /\ open' = FALSE
    /\ UNCHANGED <<threadVars, default, madeFor>>

Next ==
    \/ \E k \in Tools, u \in Users \cup {NoUser} : Construct(k, u)
    \/ \E k, new \in Tools, u \in Users : ForUser(k, new, u)
    \/ \E t \in Threads :
         \/ \E j \in Jobs : Begin(t, j)
         \/ Check(t) \/ Send(t) \/ Raise(t) \/ Forget(t)
         \/ \E a \in Answers : Respond(t, a)
    \/ CloseAgent

Spec == Init /\ [][Next]_vars
-----------------------------------------------------------------------------
(* Properties.                                                             *)

\* A request names a user of the allowlist, and the one its call was made for: the
\* call's own, or else the one the tool was made for, whichever other tools were
\* made from that tool since.
OwnPrincipal == \A t \in Threads :
    wire[t] # Unsent =>
        /\ wire[t] \in Allowlist
        /\ wire[t] = IF job[t].user \in Users THEN job[t].user ELSE madeFor[job[t].tool]

Delivered(b) == {b.events[i] : i \in {k \in DOMAIN b.events : b.form = "json" \/ ~b.events[k].split}}

\* "A fault is never an allow" (mcp_caller.py:322): nothing that a server can say of
\* a refusal or a fault, wherever in the body, is reported as an allowed call. An event
\* that spreads its document over several "data:" lines is not read, and not covered. Nor
\* is evidence made up: a reason code is reported only if the gateway sent one, never for
\* a fault ("would manufacture evidence of a decision nobody made", mcp_caller.py:126).
RefusalDenied == \A t \in Threads :
    /\ outcome[t] = <<"allow">> =>
         /\ answer[t].status \notin {401, 403}
         /\ \A e \in Delivered(answer[t].body) : ~IsError(e.doc)
         /\ \E e \in Delivered(answer[t].body) : IsObject(e)
    /\ outcome[t] = <<"deny", "policy">> =>
         \E e \in Delivered(answer[t].body) : e.doc = "policy"
===============================================================================
