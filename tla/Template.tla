------------------------------ MODULE Template ------------------------------
(***************************************************************************)
(* The rules of hawcx/agent-template/v1 (template.py), the draft made from *)
(* tool names (extract.py) and the code generated from a template          *)
(* (wrap.py).                                                              *)
(*                                                                         *)
(* A segment of an id is the sequence of the words that "_" separates, an  *)
(* id the sequence of the segments that "." separates.  A source name is   *)
(* the words normalisation finds in it and whether its spelling changes.   *)
(* A document is a record of what a rule looks at.                         *)
(***************************************************************************)
EXTENDS Integers, Sequences, SequencesExt

Privileged   == {"refund"}     \* refund, transfer, payout, wire, payment(s)
ReadVerbs    == {"get"}
WriteVerbs   == {"create"}
ExecuteVerbs == {"run"}
DigitWords   == {"1st"}        \* a segment may begin with a digit

Actions    == {"read", "write", "execute"}
Risks      == {"read_public", "write_internal", "move_money", "admin"}
Frameworks == {"crewai"}       \* "mcp-native" is not in the enumeration

\* Whether some member of the sequence s satisfies P.
Some(s, P(_)) == \E i \in DOMAIN s : P(s[i])

-----------------------------------------------------------------------------
(* validate_v1                                                             *)

\* The id grammar: two segments at least, none empty.
IsToolId(id) == Len(id) >= 2 /\ \A i \in DOMAIN id : id[i] # <<>>

\* Rule V14 looks at the last dotted segment as a whole.
PrivilegedId(id) == \E w \in Privileged : Last(id) = <<w>>

Ceilings(doc, id) == IF id \in DOMAIN doc.constraints THEN doc.constraints[id] ELSE {}

\* Mutant: rule V15 looks for either limit.
ToolErrorsEither(doc, i) ==
    LET t == doc.tools[i]
    IN  IF ~IsToolId(t.id) THEN {"E_BAD_TOOL"}
        ELSE {e \in {"E_DUP_TOOL_ID", "E_RISK_SMUGGLE", "E_MISSING_CEILING"} :
                CASE e = "E_DUP_TOOL_ID"  -> \E j \in 1 .. i - 1 : doc.tools[j].id = t.id
                  [] e = "E_RISK_SMUGGLE" -> PrivilegedId(t.id) /\ t.risk # "move_money"
                  [] OTHER -> t.risk = "move_money" /\ Ceilings(doc, t.id) = {}}

ToolErrors(doc, i) ==
    LET t == doc.tools[i]
    IN  IF ~IsToolId(t.id) THEN {"E_BAD_TOOL"}
        ELSE {e \in {"E_DUP_TOOL_ID", "E_BAD_ACTION", "E_BAD_RISK", "E_RISK_SMUGGLE",
                     "E_MISSING_CEILING", "E_MISSING_CIBA"} :
                CASE e = "E_DUP_TOOL_ID"     -> \E j \in 1 .. i - 1 : doc.tools[j].id = t.id
                  [] e = "E_BAD_ACTION"      -> t.actions = {} \/ ~ (t.actions \subseteq Actions)
                  [] e = "E_BAD_RISK"        -> t.risk \notin Risks
                  [] e = "E_RISK_SMUGGLE"    -> PrivilegedId(t.id) /\ t.risk # "move_money"
                  [] e = "E_MISSING_CEILING" ->
                        t.risk = "move_money" /\ "max_" \notin Ceilings(doc, t.id)
                  [] e = "E_MISSING_CIBA"    ->
                        t.risk = "move_money" /\ "ciba_" \notin Ceilings(doc, t.id)}

\* A key that claims authority, at any depth, makes the document invalid;
\* `keys` are the keys outside the schema, each with the depth it is at.
Claims(doc)  == {k \in doc.keys : k.authority}
Unknown(doc) == {k \in doc.keys : ~k.authority /\ k.depth = 0}

\* The error codes of validate_v1, as a set: their order is that of the rules.
ValidateV1(doc) ==
    {e \in {"E_AUTHORITY_CLAIM", "E_UNKNOWN_KEY", "E_BAD_NAME", "E_BAD_VERSION",
            "E_BAD_FRAMEWORK", "E_TOOLS_EMPTY", "E_UNKNOWN_CONSTRAINT_REF"} :
        CASE e = "E_AUTHORITY_CLAIM" -> Claims(doc) # {}
          [] e = "E_UNKNOWN_KEY"     -> Unknown(doc) # {}
          [] e = "E_BAD_NAME"        -> doc.name # "ok"
          [] e = "E_BAD_VERSION"     -> doc.version \notin {"ok", "digits"}
          [] e = "E_BAD_FRAMEWORK"   -> doc.framework \notin Frameworks
          [] e = "E_TOOLS_EMPTY"     -> doc.tools = <<>>
          [] e = "E_UNKNOWN_CONSTRAINT_REF" ->
                ~ (DOMAIN doc.constraints \subseteq
                      {t.id : t \in {u \in ToSet(doc.tools) : IsToolId(u.id)}})}
    \cup UNION {ToolErrors(doc, i) : i \in DOMAIN doc.tools}

-----------------------------------------------------------------------------
(* extract.py                                                              *)

\* _infer_actions: the first word decides; an unknown verb is defaulted.
InferActions(seg) ==
    CASE Head(seg) \in WriteVerbs   -> {"write"}
      [] Head(seg) \in ExecuteVerbs -> {"execute"}
      [] OTHER                      -> {"read"}

RiskForAction(actions) == IF actions = {"read"} THEN "read_public" ELSE "write_internal"

\* extract_from_names keeps a name unless nothing is left of it, a word of it is
\* privileged, or an earlier name gave the same id.
Nameless(n)      == n.words = <<>>
Smuggles(n)      == ToSet(n.words) \cap Privileged # {}
RepeatsRaw(names, i) == \E j \in 1 .. i - 1 : names[j] = names[i]   \* mutant: by spelling
Repeats(names, i) == \E j \in 1 .. i - 1 : names[j].words = names[i].words
Kept(names, i)   == ~Nameless(names[i]) /\ ~Smuggles(names[i]) /\ ~Repeats(names, i)

\* The k-th smallest of a set of numbers.
Nth(S, k) == CHOOSE i \in S : Cardinality({j \in S : j <= i}) = k

Extracted(names, ns) ==
    LET kept  == {i \in DOMAIN names : Kept(names, i)}
        Entry(i) == [id |-> <<ns, names[i].words>>, actions |-> InferActions(names[i].words),
                     risk |-> RiskForAction(InferActions(names[i].words))]
    IN  [k \in 1 .. Cardinality(kept) |-> Entry(Nth(kept, k))]

\* build_template: the draft around the extracted tools.
Draft(names, ns, options) ==
    [name |-> options.name, version |-> options.version, framework |-> options.framework,
     tools |-> Extracted(names, ns), constraints |-> <<>>, keys |-> {}]

\* What `hawcx extract` refuses: a namespace of which nothing is left, no tool,
\* a framework the schema does not accept.
ExtractRefuses(names, ns, options) ==
    \/ ns = <<>>
    \/ Extracted(names, ns) = <<>>
    \/ options.framework \notin Frameworks

-----------------------------------------------------------------------------
(* wrap.py                                                                 *)

\* class_name_for: the words of all segments, one after the other.
ClassNameFor(id) ==
    LET words == FlattenSeq(id)
    IN  (IF Head(words) \in DigitWords THEN <<"tool">> ELSE <<>>) \o words

CollideNever(doc) == FALSE   \* mutant: no such test

\* _check_collisions: two ids that would share a class.
Collide(doc) ==
    \E i, j \in DOMAIN doc.tools :
        /\ doc.tools[i].id # doc.tools[j].id
        /\ ClassNameFor(doc.tools[i].id) = ClassNameFor(doc.tools[j].id)

\* _assert_ascii: the header of both files quotes the version, and a version of
\* digits that are not ASCII is a valid one.
Ascii(doc) == doc.version # "digits"

CanGenerate(doc) == ~Collide(doc) /\ Ascii(doc)

\* generate_module: what each class of the module sends. A later class statement of
\* the same name replaces an earlier one.
GenerateModule(doc) ==
    [c \in {ClassNameFor(t.id) : t \in ToSet(doc.tools)} |->
        LET i == CHOOSE k \in DOMAIN doc.tools :
                    /\ ClassNameFor(doc.tools[k].id) = c
                    /\ \A l \in DOMAIN doc.tools : ClassNameFor(doc.tools[l].id) = c => l <= k
        IN  [id |-> doc.tools[i].id, actions |-> doc.tools[i].actions]]

\* The TOOLS table of the module: the class of each id.
Table(doc) == [id \in {t.id : t \in ToSet(doc.tools)} |-> ClassNameFor(id)]

\* generate_config: the ids and actions the customer's config declares.
GenerateConfig(doc) == {[id |-> t.id, actions |-> t.actions] : t \in ToSet(doc.tools)}
=============================================================================
