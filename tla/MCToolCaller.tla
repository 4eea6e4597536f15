----------------------------- MODULE MCToolCaller -----------------------------
(* Finite instances of ToolCaller for TLC.                                 *)
EXTENDS ToolCaller, TLC

E(doc)      == [doc |-> doc, split |-> FALSE]
JsonOf(doc) == [form |-> "json", events |-> <<E(doc)>>]
Stream(s)   == [form |-> "stream", events |-> s]

\* Each kind of document alone, a body that is none, and streams in which a
\* refusal or a fault comes after something harmless, whole or split.
MCBodies ==
    {JsonOf(d) : d \in {"result", "policy", "fault", "blank_error", "not_object"}} \cup
    {[form |-> "other", events |-> <<>>],
     Stream(<<E("notification")>>), Stream(<<E("notification"), E("policy")>>),
     Stream(<<E("fault"), E("policy")>>), Stream(<<E("notification"), E("policy_uncoded")>>),
     Stream(<<E("notification"), [doc |-> "policy", split |-> TRUE]>>)}

\* Threads and tools are interchangeable, and no property is a liveness property.
Symmetry == Permutations(Threads) \cup Permutations(Tools)
===============================================================================
