-------------------------- MODULE ToolCallerProofs --------------------------
(***************************************************************************)
(* Proofs about ToolCaller: whom a request names, and what is said of a    *)
(* response, for any number of threads and tools, any users, any allowlist *)
(* and any bodies that a server may send.                                  *)
(***************************************************************************)
EXTENDS ToolCaller, WellFoundedInduction, TLAPS

-----------------------------------------------------------------------------
(* The inductive invariant.                                                *)

PrincipalType ==
    /\ pc \in [Threads -> {"idle", "check", "use", "wait", "done"}]
    /\ job \in [Threads -> Jobs \cup {NoJob}]
    /\ acting \in [Threads -> Principals]
    /\ wire \in [Threads -> Principals \cup {Unsent}]
    /\ default \in [Tools -> Users \cup {NoUser, Unmade}]

\* A tool keeps the user it was made for: no other is made by changing it.
DefaultInv == madeFor = default

\* A call acts for the principal of its job, of a tool that exists, and is past the
\* gate only for a user of the allowlist.
ActingInv(t) ==
    /\ pc[t] \in {"check", "use", "wait"} =>
         /\ job[t] \in Jobs
         /\ job[t].by # "caller" => default[job[t].tool] # Unmade
         /\ acting[t] = Principal(job[t])
    /\ pc[t] \in {"use", "wait"} => acting[t] \in Allowlist

\* What is on the wire is what the call acted for when it was past the gate.
WireInv(t) ==
    /\ pc[t] = "idle" => wire[t] = Unsent
    /\ wire[t] # Unsent =>
         /\ job[t] \in Jobs
         /\ job[t].by # "caller" => default[job[t].tool] # Unmade
         /\ wire[t] \in Allowlist
         /\ wire[t] = Principal(job[t])

PrincipalInv == PrincipalType /\ DefaultInv /\ \A t \in Threads : ActingInv(t) /\ WireInv(t)

-----------------------------------------------------------------------------
LEMMA PrincipalInit == CallerAssumption /\ Init => PrincipalInv
<1> SUFFICES ASSUME CallerAssumption, Init PROVE PrincipalInv
  OBVIOUS
<1>1. PrincipalType
  BY DEF Init, PrincipalType, Principals
<1>2. DefaultInv
  BY DEF Init, DefaultInv
<1>3. \A t \in Threads : ActingInv(t) /\ WireInv(t)
  BY DEF Init, ActingInv, WireInv
<1> QED BY <1>1, <1>2, <1>3 DEF PrincipalInv

\* Making a tool, or a sibling of one, leaves the tools that exist as they are.
LEMMA ToolStep ==
    ASSUME PrincipalInv, NEW k \in Tools, default[k] = Unmade, NEW u \in Users \cup {NoUser},
           default' = [default EXCEPT ![k] = u], madeFor' = [madeFor EXCEPT ![k] = u],
           UNCHANGED threadVars
    PROVE  PrincipalInv'
<1> USE DEF PrincipalInv, threadVars
<1>1. PrincipalType'
  BY DEF PrincipalType
<1>2. DefaultInv'
  BY DEF DefaultInv
<1>3. ASSUME NEW t \in Threads, job[t] \in Jobs, job[t].by # "caller" => default[job[t].tool] # Unmade
      PROVE  /\ job[t].by # "caller" => default'[job[t].tool] = default[job[t].tool]
             /\ Principal(job[t])' = Principal(job[t])
  <2>1. job[t].by # "caller" => job[t].tool \in Tools
    BY <1>3 DEF Jobs
  <2>2. job[t].by # "caller" => default'[job[t].tool] = default[job[t].tool]
    BY <1>3, <2>1 DEF PrincipalType
  <2> QED BY <1>3, <2>2 DEF Principal
<1>4. ASSUME NEW t \in Threads PROVE ActingInv(t)'
  BY <1>3 DEF ActingInv
<1>5. ASSUME NEW t \in Threads PROVE WireInv(t)'
  BY <1>3 DEF WireInv
<1> QED BY <1>1, <1>2, <1>4, <1>5

\* A call acts for a principal.
LEMMA ActsForSomeone ==
    ASSUME PrincipalType, NEW j \in Jobs, j.by # "caller" => default[j.tool] # Unmade
    PROVE  Principal(j) \in Principals
<1>1. CASE j.by = "caller"
  BY <1>1 DEF Principal, Jobs, Principals
<1>2. CASE j.by # "caller"
  <2>1. j.tool \in Tools
    BY <1>2 DEF Jobs
  <2> QED BY <1>2, <2>1 DEF Principal, Principals, PrincipalType
<1> QED BY <1>1, <1>2

\* What the steps of a call leave alone.
Elsewhere(t) ==
    /\ UNCHANGED <<default, madeFor>>
    /\ \A s \in Threads \ {t} : /\ pc'[s] = pc[s] /\ job'[s] = job[s]
                                /\ acting'[s] = acting[s] /\ wire'[s] = wire[s]

\* A step of one call keeps the invariants of the others and of the tools.
LEMMA CallStep ==
    ASSUME PrincipalInv, NEW t \in Threads, Elsewhere(t), PrincipalType', ActingInv(t)', WireInv(t)'
    PROVE  PrincipalInv'
<1>1. DefaultInv'
  BY DEF PrincipalInv, DefaultInv, Elsewhere
<1>2. ASSUME NEW s \in Threads PROVE ActingInv(s)' /\ WireInv(s)'
  <2>1. CASE s = t
    BY <2>1
  <2>2. CASE s # t
    BY <2>2 DEF PrincipalInv, ActingInv, WireInv, Elsewhere, Principal
  <2> QED BY <2>1, <2>2
<1> QED BY <1>1, <1>2 DEF PrincipalInv

LEMMA PrincipalStep == CallerAssumption /\ PrincipalInv /\ [Next]_vars => PrincipalInv'
<1> SUFFICES ASSUME CallerAssumption, PrincipalInv, [Next]_vars PROVE PrincipalInv'
  OBVIOUS
<1>1. ASSUME NEW k \in Tools, NEW u \in Users \cup {NoUser}, Construct(k, u) PROVE PrincipalInv'
  BY <1>1, ToolStep DEF Construct
<1>2. ASSUME NEW k \in Tools, NEW new \in Tools, NEW u \in Users, ForUser(k, new, u)
      PROVE  PrincipalInv'
  BY <1>2, ToolStep DEF ForUser, Sibling
<1>3. ASSUME NEW t \in Threads, NEW j \in Jobs, Begin(t, j) PROVE PrincipalInv'
  <2>1. j.by # "caller" => default[j.tool] # Unmade
    BY <1>3 DEF Begin
  <2>2. Principal(j) \in Principals
    BY <2>1, ActsForSomeone DEF PrincipalInv
  <2>3. pc' \in [Threads -> {"idle", "check", "use", "wait", "done"}] /\ pc'[t] \in {"check", "done"}
    BY <1>3 DEF Begin, End, PrincipalInv, PrincipalType
  <2>4. PrincipalType'
    BY <1>3, <2>2, <2>3 DEF Begin, PrincipalInv, PrincipalType
  <2>5. pc[t] = "idle" /\ job'[t] = j /\ acting'[t] = Principal(j) /\ UNCHANGED <<default, wire>>
    BY <1>3 DEF Begin, PrincipalInv, PrincipalType
  <2>6. ActingInv(t)'
    BY <2>1, <2>3, <2>5 DEF ActingInv, Principal
  <2>7. wire[t] = Unsent
    BY <2>5 DEF PrincipalInv, WireInv
  <2>8. WireInv(t)'
    BY <2>3, <2>5, <2>7 DEF WireInv
  <2>9. Elsewhere(t)
    BY <1>3 DEF Begin, End, Elsewhere, PrincipalInv, PrincipalType
  <2> QED BY <2>4, <2>6, <2>8, <2>9, CallStep
<1>4. ASSUME NEW t \in Threads, Check(t) PROVE PrincipalInv'
  <2>1. /\ pc[t] = "check" /\ pc'[t] \in {"use", "done"}
        /\ pc'[t] = "use" => acting[t] \in Allowlist
        /\ UNCHANGED <<job, acting, wire, default>>
    BY <1>4 DEF Check, End, Allowed, PrincipalInv, PrincipalType
  <2>2. PrincipalType'
    BY <1>4 DEF Check, End, PrincipalInv, PrincipalType
  <2>3. ActingInv(t)' /\ WireInv(t)'
    BY <2>1 DEF PrincipalInv, ActingInv, WireInv, Principal
  <2>4. Elsewhere(t)
    BY <1>4 DEF Check, End, Elsewhere, PrincipalInv, PrincipalType
  <2> QED BY <2>2, <2>3, <2>4, CallStep
<1>5. ASSUME NEW t \in Threads, Send(t) PROVE PrincipalInv'
  <2>1. /\ pc[t] = "use" /\ pc'[t] \in {"wait", "done"} /\ wire'[t] \in {wire[t], acting[t]}
        /\ UNCHANGED <<job, acting, default>>
    BY <1>5 DEF Send, End, PrincipalInv, PrincipalType
  <2>2. PrincipalType'
    BY <1>5 DEF Send, End, PrincipalInv, PrincipalType
  <2>3. ActingInv(t)' /\ WireInv(t)'
    BY <2>1 DEF PrincipalInv, ActingInv, WireInv, Principal
  <2>4. Elsewhere(t)
    BY <1>5 DEF Send, End, Elsewhere, PrincipalInv, PrincipalType
  <2> QED BY <2>2, <2>3, <2>4, CallStep
<1>6. ASSUME NEW t \in Threads, Raise(t) \/ (\E a \in Answers : Respond(t, a)) PROVE PrincipalInv'
  <2>1. pc' = [pc EXCEPT ![t] = "done"] /\ UNCHANGED <<job, acting, wire, default, madeFor>>
    BY <1>6 DEF Raise, Respond, End
  <2>2. PrincipalType'
    BY <2>1 DEF PrincipalInv, PrincipalType
  <2>3. ActingInv(t)' /\ WireInv(t)'
    BY <2>1 DEF PrincipalInv, PrincipalType, ActingInv, WireInv, Principal
  <2>4. Elsewhere(t)
    BY <2>1 DEF Elsewhere, PrincipalInv, PrincipalType
  <2> QED BY <2>2, <2>3, <2>4, CallStep
<1>7. ASSUME NEW t \in Threads, Forget(t) PROVE PrincipalInv'
  <2>1. /\ pc' = [pc EXCEPT ![t] = "idle"] /\ job' = [job EXCEPT ![t] = NoJob]
        /\ acting' = [acting EXCEPT ![t] = NoUser] /\ wire' = [wire EXCEPT ![t] = Unsent]
        /\ UNCHANGED <<default, madeFor>>
    BY <1>7 DEF Forget
  <2>2. PrincipalType'
    BY <2>1 DEF PrincipalInv, PrincipalType, Principals
  <2>3. ActingInv(t)' /\ WireInv(t)'
    BY <2>1 DEF PrincipalInv, PrincipalType, ActingInv, WireInv
  <2>4. Elsewhere(t)
    BY <2>1 DEF Elsewhere, PrincipalInv, PrincipalType
  <2> QED BY <2>2, <2>3, <2>4, CallStep
<1>8. CASE CloseAgent \/ UNCHANGED vars
  BY <1>8 DEF CloseAgent, vars, threadVars, PrincipalInv, PrincipalType, DefaultInv, ActingInv,
              WireInv, Principal
<1> QED BY <1>1, <1>2, <1>3, <1>4, <1>5, <1>6, <1>7, <1>8 DEF Next

-----------------------------------------------------------------------------
(* Reading a response.                                                     *)

\* Some places in a body include a first.
LEMMA FirstPlace == ASSUME NEW S, S \subseteq Nat, S # {}
    PROVE  Min(S) \in S
<1> DEFINE Less == {ss \in Nat \X Nat : ss[1] < ss[2]}
<1>1. IsWellFoundedOn(Less, Nat)
  BY NatLessThanWellFounded DEF OpToRel
<1> HIDE DEF Less
<1>2. PICK x \in S : \A y \in S : ~ (<<y, x>> \in Less)
  BY <1>1, WFMin
<1>3. ASSUME NEW y \in S PROVE x <= y
  <2>1. x \in Nat /\ y \in Nat
    OBVIOUS
  <2>2. y < x => <<y, x>> \in Less
    BY <2>1 DEF Less
  <2> QED BY <1>2, <2>1, <2>2
<1>4. \E z \in S : \A y \in S : z <= y
  BY <1>3
<1> QED BY <1>4 DEF Min

\* What _classify decides of a response, whatever the order of its documents: it allows no
\* call whose response holds a refusal or a fault, and gives a reason code that the
\* gateway sent.
LEMMA ClassifySays ==
    ASSUME CallerAssumption, NEW a \in Answers
    PROVE  /\ Classify(a) \in Decided
           /\ Classify(a) = <<"allow">> =>
                /\ a.status \notin {401, 403}
                /\ \A e \in Delivered(a.body) : ~IsError(e.doc)
                /\ \E e \in Delivered(a.body) : IsObject(e)
           /\ Classify(a) = <<"deny", "policy">> => \E e \in Delivered(a.body) : e.doc = "policy"
<1> DEFINE b == a.body
           docs == JsonDocuments(b)
           errs == {i \in docs : IsError(b.events[i].doc)}
<1>1. /\ b \in Body /\ (b.form = "other" => b.events = <<>>)
      /\ DOMAIN b.events = 1..Len(b.events) /\ Len(b.events) \in Nat
      /\ \A i \in DOMAIN b.events : b.events[i] \in Events
  BY DEF Answers, CallerAssumption, Body
<1>2. errs \subseteq docs /\ docs \subseteq DOMAIN b.events /\ docs \subseteq Nat
  BY <1>1 DEF JsonDocuments
<1>3. \A i \in docs : b.events[i] \in Delivered(b) /\ IsObject(b.events[i])
  BY DEF JsonDocuments, Delivered
<1>4. ASSUME NEW e \in Delivered(b), IsError(e.doc) PROVE errs # {}
  <2>1. PICK i \in DOMAIN b.events : e = b.events[i] /\ (b.form = "json" \/ ~b.events[i].split)
    BY DEF Delivered
  <2>2. b.form \in {"json", "stream"}
    BY <1>1, <2>1 DEF Body
  <2>3. IsObject(e)
    BY <1>4 DEF IsError, IsObject
  <2>4. i \in docs
    BY <2>1, <2>2, <2>3 DEF JsonDocuments
  <2> QED BY <1>4, <2>1, <2>4
<1>5. Classify(a) = IF errs # {} THEN Denial(b.events[Min(errs)].doc)
                    ELSE IF a.status \in {401, 403} THEN <<"deny", "status">>
                    ELSE IF docs = {} THEN <<"deny", "unreadable">> ELSE <<"allow">>
  BY DEF Classify
<1>6. errs # {} => Min(errs) \in errs
  BY <1>2, FirstPlace
<1>7. errs # {} => b.events[Min(errs)].doc \in {"policy", "policy_uncoded", "fault"}
  BY <1>6 DEF IsError
<1> HIDE DEF b, docs, errs
<1>8. CASE errs # {}
  <2> DEFINE d == b.events[Min(errs)].doc
  <2>1. Classify(a) = <<"deny", d>> /\ d \in {"policy", "policy_uncoded", "fault"}
    BY <1>5, <1>7, <1>8 DEF Denial
  <2>2. b.events[Min(errs)] \in Delivered(b)
    BY <1>2, <1>3, <1>6, <1>8
  <2>3. d = "policy" => \E e \in Delivered(b) : e.doc = "policy"
    BY <2>2
  <2> HIDE DEF d
  <2>4. Classify(a) \in Decided /\ Classify(a) # <<"allow">>
    BY <2>1 DEF Decided, Denials
  <2>5. Classify(a) = <<"deny", "policy">> => d = "policy"
    BY <2>1
  <2> QED BY <2>3, <2>4, <2>5 DEF b
<1>9. CASE errs = {}
  <2>1. Classify(a) \in {<<"deny", "status">>, <<"deny", "unreadable">>, <<"allow">>}
    BY <1>5, <1>9
  <2>2. Classify(a) \in Decided /\ Classify(a) # <<"deny", "policy">>
    BY <2>1 DEF Decided, Denials
  <2>3. Classify(a) = <<"allow">> => a.status \notin {401, 403} /\ docs # {}
    BY <1>5, <1>9
  <2>4. Classify(a) = <<"allow">> => \E e \in Delivered(b) : IsObject(e)
    BY <1>3, <2>3
  <2> QED BY <1>4, <1>9, <2>2, <2>3, <2>4 DEF b
<1> QED BY <1>8, <1>9

-----------------------------------------------------------------------------
(* How a call may end, and on what.                                        *)

OutcomeType == outcome \in [Threads -> Outcomes] /\ answer \in [Threads -> Answers \cup {NoAnswer}]

\* No outcome that is no decision looks like one.
LEMMA NoDecision ==
    /\ Texts \cup Raised \cup {<<"none">>, <<"deny", "rejected">>} \subseteq Outcomes
    /\ \A how \in Texts \cup Raised \cup {<<"none">>, <<"deny", "rejected">>} :
         how # <<"allow">> /\ how # <<"deny", "policy">>
  BY DEF Texts, Raised, Outcomes, Decided, Denials

\* A step in which nothing is said of a response.
LEMMA Undecided ==
    ASSUME OutcomeType, RefusalDenied, NEW t \in Threads, answer' = answer,
           \/ outcome' = outcome
           \/ \E how \in Texts \cup Raised \cup {<<"none">>, <<"deny", "rejected">>} :
                outcome' = [outcome EXCEPT ![t] = how]
    PROVE  OutcomeType' /\ RefusalDenied'
<1>1. CASE outcome' = outcome
  BY <1>1 DEF OutcomeType, RefusalDenied
<1>2. ASSUME NEW how \in Texts \cup Raised \cup {<<"none">>, <<"deny", "rejected">>},
             outcome' = [outcome EXCEPT ![t] = how]
      PROVE  OutcomeType' /\ RefusalDenied'
  <2>1. how \in Outcomes /\ how # <<"allow">> /\ how # <<"deny", "policy">>
    BY NoDecision
  <2>2. OutcomeType'
    BY <1>2, <2>1 DEF OutcomeType
  <2>3. \A s \in Threads : outcome'[s] = outcome[s] \/ (s = t /\ outcome'[s] = how)
    BY <1>2 DEF OutcomeType
  <2>4. \A s \in Threads : \/ outcome'[s] # <<"allow">> /\ outcome'[s] # <<"deny", "policy">>
                           \/ outcome'[s] = outcome[s] /\ answer'[s] = answer[s]
    BY <2>1, <2>3
  <2>5. RefusalDenied'
    BY <2>4 DEF RefusalDenied
  <2> QED BY <2>2, <2>5
<1> QED BY <1>1, <1>2

\* Every step says of a response what _classify says of it.
LEMMA OutcomeStep == CallerAssumption /\ OutcomeType /\ RefusalDenied /\ [Next]_vars
                        => OutcomeType' /\ RefusalDenied'
<1> SUFFICES ASSUME CallerAssumption, OutcomeType, RefusalDenied, [Next]_vars
             PROVE  OutcomeType' /\ RefusalDenied'
  OBVIOUS
<1>0. \A t \in Threads : /\ AsHawcx(t) \in Texts \cup Raised
                         /\ AsRejected(t) \in Texts \cup {<<"deny", "rejected">>}
  BY DEF AsHawcx, AsRejected, Texts, Raised
<1>9. {<<"raise", "type_error">>, <<"raise", "attribute_error">>, <<"raise", "os_error">>} \subseteq Raised
  BY DEF Raised
<1>1. ASSUME UNCHANGED <<outcome, answer>> PROVE OutcomeType' /\ RefusalDenied'
  BY <1>1 DEF OutcomeType, RefusalDenied
<1>2. ASSUME NEW t \in Threads, NEW j \in Jobs, Begin(t, j) PROVE OutcomeType' /\ RefusalDenied'
  <2>1. /\ answer' = answer
        /\ outcome' = outcome \/ outcome' = [outcome EXCEPT ![t] = <<"raise", "type_error">>]
    BY <1>2 DEF Begin, End
  <2> QED BY <1>9, <2>1, Undecided
<1>3. ASSUME NEW t \in Threads, Check(t) PROVE OutcomeType' /\ RefusalDenied'
  <2>1. answer' = answer /\ (outcome' = outcome \/ outcome' = [outcome EXCEPT ![t] = AsHawcx(t)])
    BY <1>3 DEF Check, End
  <2> QED BY <1>0, <2>1, Undecided
<1>4. ASSUME NEW t \in Threads, Send(t) PROVE OutcomeType' /\ RefusalDenied'
  <2>1. /\ answer' = answer
        /\ outcome' = outcome \/ outcome' = [outcome EXCEPT ![t] = <<"raise", "attribute_error">>]
    BY <1>4 DEF Send, End
  <2> QED BY <1>9, <2>1, Undecided
<1>5. ASSUME NEW t \in Threads, Raise(t) PROVE OutcomeType' /\ RefusalDenied'
  <2>1. PICK how \in {AsRejected(t), AsHawcx(t), <<"raise", "os_error">>} :
          answer' = answer /\ outcome' = [outcome EXCEPT ![t] = how]
    BY <1>5 DEF Raise, End
  <2>2. how \in Texts \cup Raised \cup {<<"none">>, <<"deny", "rejected">>}
    BY <1>0, <1>9
  <2> QED BY <2>1, <2>2, Undecided
<1>6. ASSUME NEW t \in Threads, Forget(t) PROVE OutcomeType' /\ RefusalDenied'
  <2>1. /\ answer' = [answer EXCEPT ![t] = NoAnswer]
        /\ outcome' = [outcome EXCEPT ![t] = <<"none">>]
    BY <1>6 DEF Forget
  <2>2. OutcomeType'
    BY <2>1 DEF OutcomeType, Outcomes
  <2>3. \A s \in Threads : \/ outcome'[s] = <<"none">>
                           \/ outcome'[s] = outcome[s] /\ answer'[s] = answer[s]
    BY <2>1 DEF OutcomeType
  <2>4. <<"none">> # <<"allow">> /\ <<"none">> # <<"deny", "policy">>
    BY NoDecision
  <2> QED BY <2>2, <2>3, <2>4 DEF RefusalDenied
<1>7. ASSUME NEW t \in Threads, NEW a \in Answers, Respond(t, a) PROVE OutcomeType' /\ RefusalDenied'
  <2> DEFINE how == IF job[t].by = "caller" THEN Classify(a) ELSE Text(job[t].by, a)
  <2>1. answer' = [answer EXCEPT ![t] = a] /\ outcome' = [outcome EXCEPT ![t] = how]
    BY <1>7 DEF Respond, End
  <2>2. Text(job[t].by, a) \in Texts
    BY DEF Text, Texts
  <2>3. /\ how \in Outcomes
        /\ how = <<"allow">> =>
             /\ a.status \notin {401, 403}
             /\ \A e \in Delivered(a.body) : ~IsError(e.doc)
             /\ \E e \in Delivered(a.body) : IsObject(e)
        /\ how = <<"deny", "policy">> => \E e \in Delivered(a.body) : e.doc = "policy"
    <3>1. CASE job[t].by = "caller"
      BY <3>1, ClassifySays DEF Outcomes
    <3>2. CASE job[t].by # "caller"
      BY <2>2, <3>2, NoDecision
    <3> QED BY <3>1, <3>2
  <2> HIDE DEF how
  <2>4. OutcomeType'
    BY <2>1, <2>3 DEF OutcomeType
  <2>5. \A s \in Threads : \/ s = t /\ outcome'[s] = how /\ answer'[s] = a
                           \/ outcome'[s] = outcome[s] /\ answer'[s] = answer[s]
    BY <2>1 DEF OutcomeType
  <2>6. ASSUME NEW s \in Threads
        PROVE  /\ outcome'[s] = <<"allow">> =>
                    /\ answer'[s].status \notin {401, 403}
                    /\ \A e \in Delivered(answer'[s].body) : ~IsError(e.doc)
                    /\ \E e \in Delivered(answer'[s].body) : IsObject(e)
               /\ outcome'[s] = <<"deny", "policy">> =>
                    \E e \in Delivered(answer'[s].body) : e.doc = "policy"
    <3>1. CASE s = t /\ outcome'[s] = how /\ answer'[s] = a
      BY <2>3, <3>1
    <3>2. CASE outcome'[s] = outcome[s] /\ answer'[s] = answer[s]
      BY <3>2 DEF RefusalDenied
    <3> QED BY <2>5, <3>1, <3>2
  <2> QED BY <2>4, <2>6 DEF RefusalDenied
<1>8. CASE (\E k \in Tools, u \in Users \cup {NoUser} : Construct(k, u))
           \/ (\E k, new \in Tools, u \in Users : ForUser(k, new, u)) \/ CloseAgent \/ UNCHANGED vars
  <2>1. UNCHANGED <<outcome, answer>>
    BY <1>8 DEF Construct, ForUser, CloseAgent, vars, threadVars
  <2> QED BY <1>1, <2>1
<1> QED BY <1>2, <1>3, <1>4, <1>5, <1>6, <1>7, <1>8 DEF Next

LEMMA OutcomeInvariant == Spec => [](OutcomeType /\ RefusalDenied)
<1>1. Init => OutcomeType /\ RefusalDenied
  <2>1. <<"none">> # <<"allow">> /\ <<"none">> # <<"deny", "policy">>
    BY NoDecision
  <2> QED BY <2>1 DEF Init, OutcomeType, RefusalDenied, Outcomes
<1>2. (OutcomeType /\ RefusalDenied) /\ [Next]_vars => (OutcomeType /\ RefusalDenied)'
  BY OutcomeStep, CallerAssumption
<1> QED BY <1>1, <1>2, PTL DEF Spec

-----------------------------------------------------------------------------
(* Theorems.                                                               *)

LEMMA PrincipalInvariant == Spec => []PrincipalInv
<1>1. Init => PrincipalInv
  BY PrincipalInit, CallerAssumption
<1>2. PrincipalInv /\ [Next]_vars => PrincipalInv'
  BY PrincipalStep, CallerAssumption
<1> QED BY <1>1, <1>2, PTL DEF Spec

\* Every request names a user of the allowlist, and the one its call was made for,
\* however many tools were made from the one that makes it, and whatever other threads
\* do in between (hawcx_crewai/tool.py:151-260, agent.py:351-373).
THEOREM OwnPrincipalCorrect == Spec => []OwnPrincipal
<1>1. ASSUME PrincipalInv, NEW t \in Threads, wire[t] # Unsent
      PROVE  /\ wire[t] \in Allowlist
             /\ wire[t] = IF job[t].user \in Users THEN job[t].user ELSE madeFor[job[t].tool]
  <2>1. job[t] \in Jobs /\ wire[t] \in Allowlist /\ wire[t] = Principal(job[t])
    BY <1>1 DEF PrincipalInv, WireInv
  <2>2. wire[t] \in Users
    BY <2>1, CallerAssumption DEF CallerAssumption
  <2>3. madeFor = default
    BY <1>1 DEF PrincipalInv, DefaultInv
  <2> QED BY <2>1, <2>2, <2>3 DEF Principal
<1>2. PrincipalInv => OwnPrincipal
  BY <1>1 DEF OwnPrincipal
<1> QED BY PrincipalInvariant, <1>2, PTL

\* The state of tools and calls is well typed: a response of any form is one of the
\* decisions the classifier names, and never a kind of its own (mcp_caller.py:310-405).
THEOREM TypeCorrect == Spec => []TypeOK
<1>1. /\ Init => open \in BOOLEAN
      /\ open \in BOOLEAN /\ [Next]_vars => (open \in BOOLEAN)'
  BY DEF Init, Next, vars, threadVars, Construct, ForUser, Begin, Check, Send, Respond, Raise,
         Forget, CloseAgent
<1>2. Spec => [](open \in BOOLEAN)
  BY <1>1, PTL DEF Spec
<1>3. PrincipalInv /\ OutcomeType /\ RefusalDenied /\ open \in BOOLEAN => TypeOK
  BY DEF PrincipalInv, PrincipalType, DefaultInv, OutcomeType, TypeOK
<1> QED BY PrincipalInvariant, OutcomeInvariant, <1>2, <1>3, PTL

\* "A fault is never an allow" (mcp_caller.py:322), for every body: a response that holds a
\* refusal or a fault, in whichever of its documents, is never reported as an allowed call,
\* and a reason code is one that the gateway sent.
THEOREM RefusalDeniedCorrect == Spec => []RefusalDenied
  BY OutcomeInvariant, PTL
=============================================================================
