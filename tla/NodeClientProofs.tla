-------------------------- MODULE NodeClientProofs --------------------------
(***************************************************************************)
(* Proofs about NodeClient, for every set of invocations, for both ways    *)
(* the Assembler serves a connection, with and without failures.           *)
(***************************************************************************)
EXTENDS NodeClient, SequenceTheorems, TLAPS

-----------------------------------------------------------------------------
\* Cutting a sequence keeps what its elements are.
LEMMA SuffixType == ASSUME NEW S, NEW s \in Seq(S), NEW n \in Nat, n <= Len(s)
    PROVE  /\ SubSeq(s, n + 1, Len(s)) \in Seq(S)
           /\ n = Len(s) => SubSeq(s, n + 1, Len(s)) = <<>>
           /\ SubSeq(s, n + 1, Len(s)) # <<>> => n < Len(s)
<1>1. SubSeq(s, n + 1, Len(s)) \in Seq(S)
  BY SubSeqProperties
<1>2. n = Len(s) => SubSeq(s, n + 1, Len(s)) = <<>>
  BY SubSeqEmpty
<1> QED BY <1>1, <1>2

\* What drain does with any buffer and any queue of waiters: the types stay, and when it
\* leaves a waiter it leaves no frame.
LEMMA DrainEffect == ASSUME NEW buf \in Seq(Frames), NEW ws \in Seq(Requests),
                            pc \in [Requests -> {"new", "sent", "failing", "reading", "done"}],
                            outcome \in [Requests -> Outcomes],
                            replyTo \in [Requests -> Requests \cup {NoRequest}],
                            Drain(buf, ws)
    PROVE  /\ pc' \in [Requests -> {"new", "sent", "failing", "reading", "done"}]
           /\ outcome' \in [Requests -> Outcomes]
           /\ replyTo' \in [Requests -> Requests \cup {NoRequest}]
           /\ buffer' \in Seq(Frames)
           /\ waiters' \in Seq(Requests)
           /\ waiters' # <<>> => buffer' = <<>>
<1> DEFINE taken == IF Whole(buf) < Len(ws) THEN Whole(buf) ELSE Len(ws)
           ended == IF HasBad(buf) THEN Len(ws) ELSE taken
           frame == [i \in 1..ended |-> buf[IF i <= taken THEN i ELSE Len(buf)]]
           Nth(r) == CHOOSE i \in 1..ended : ws[i] = r
           Gets(r) == \E i \in 1..ended : ws[i] = r
<1>1. /\ Len(ws) \in Nat /\ Len(buf) \in Nat
      /\ Whole(buf) \in Nat /\ Whole(buf) <= Len(buf)
      /\ HasBad(buf) => Len(buf) > 0
      /\ ~HasBad(buf) => Whole(buf) = Len(buf)
  <2>1. Len(ws) \in Nat /\ Len(buf) \in Nat
    BY LenProperties
  <2>2. HasBad(buf) => Len(buf) > 0
    BY EmptySeq, <2>1 DEF HasBad
  <2> QED BY <2>1, <2>2 DEF Whole
<1>2. /\ taken \in Nat /\ taken <= Len(buf) /\ taken <= Len(ws)
      /\ ended \in Nat /\ ended <= Len(ws)
      /\ ended > taken => Len(buf) > 0
  BY <1>1
<1>3. \A i \in 1..ended : frame[i] \in Frames
  <2> SUFFICES ASSUME NEW i \in 1..ended PROVE buf[IF i <= taken THEN i ELSE Len(buf)] \in Frames
    OBVIOUS
  <2>1. (IF i <= taken THEN i ELSE Len(buf)) \in 1..Len(buf)
    BY <1>1, <1>2
  <2> QED BY <2>1, ElementOfSeq
<1>4. \A r \in Requests : Gets(r) => frame[Nth(r)] \in Frames
  <2> SUFFICES ASSUME NEW r \in Requests, Gets(r) PROVE frame[Nth(r)] \in Frames
    OBVIOUS
  <2>1. Nth(r) \in 1..ended
    BY DEF Nth, Gets
  <2> HIDE DEF frame
  <2> QED BY <2>1, <1>3
<1>5. \A f \in Frames : Reading(f) \in Outcomes /\ f.to \in Requests
  BY DEF Frames, Reading, Outcomes
<1>6. /\ pc' = [r \in Requests |-> IF Gets(r) THEN "done"
                                  ELSE IF \E i \in 1..Len(ws) : ws[i] = r THEN "reading"
                                  ELSE pc[r]]
      /\ outcome' = [r \in Requests |-> IF Gets(r) THEN Reading(frame[Nth(r)]) ELSE outcome[r]]
      /\ replyTo' = [r \in Requests |-> IF Gets(r) THEN frame[Nth(r)].to ELSE replyTo[r]]
      /\ buffer' = SubSeq(buf, taken + 1, Len(buf))
      /\ waiters' = SubSeq(ws, ended + 1, Len(ws))
  BY DEF Drain
<1>7. buffer' \in Seq(Frames) /\ waiters' \in Seq(Requests)
  <2> HIDE DEF taken, ended
  <2> QED BY <1>2, <1>6, SuffixType
<1>8. waiters' # <<>> => buffer' = <<>>
  <2> SUFFICES ASSUME waiters' # <<>> PROVE buffer' = <<>>
    OBVIOUS
  <2>1. ended < Len(ws)
    <3> HIDE DEF taken, ended
    <3> QED BY <1>2, <1>6, SuffixType
  <2>2. taken = Len(buf)
    BY <2>1, <1>1
  <2> HIDE DEF taken, ended
  <2> QED BY <2>2, <1>2, <1>6, SuffixType
<1> HIDE DEF taken, ended, frame, Nth, Gets
<1>9. /\ pc' \in [Requests -> {"new", "sent", "failing", "reading", "done"}]
      /\ outcome' \in [Requests -> Outcomes]
      /\ replyTo' \in [Requests -> Requests \cup {NoRequest}]
  BY <1>4, <1>5, <1>6
<1> QED BY <1>7, <1>8, <1>9

-----------------------------------------------------------------------------
\* read() keeps the types, and never waits where a frame is, or on a closed reader.
LEMMA ReadEffect == ASSUME TypeOK, NoLostWakeup, NEW r \in Requests, Read(r),
                           UNCHANGED <<phase, sockVars>>, writing' \in Seq(Requests)
    PROVE  TypeOK' /\ NoLostWakeup'
<1>1. CASE closed
  BY <1>1 DEF Read, Finish, TypeOK, NoLostWakeup, readerVars, sockVars, Outcomes
<1>2. CASE ~closed
  <2>1. Enqueue(r) \in Seq(Requests)
    BY AppendProperties DEF Enqueue, TypeOK
  <2>2. Drain(buffer, Enqueue(r)) /\ closed' = closed
    BY <1>2 DEF Read, Await
  <2>3. /\ buffer \in Seq(Frames)
        /\ pc \in [Requests -> {"new", "sent", "failing", "reading", "done"}]
        /\ outcome \in [Requests -> Outcomes]
        /\ replyTo \in [Requests -> Requests \cup {NoRequest}]
    BY DEF TypeOK
  <2>4. /\ pc' \in [Requests -> {"new", "sent", "failing", "reading", "done"}]
        /\ outcome' \in [Requests -> Outcomes]
        /\ replyTo' \in [Requests -> Requests \cup {NoRequest}]
        /\ buffer' \in Seq(Frames)
        /\ waiters' \in Seq(Requests)
        /\ waiters' # <<>> => buffer' = <<>>
    BY <2>1, <2>2, <2>3, DrainEffect
  <2> QED BY <1>2, <2>2, <2>4 DEF TypeOK, NoLostWakeup, sockVars
<1> QED BY <1>1, <1>2

\* Closing the reader keeps the types, and leaves nobody waiting.
LEMMA CloseEffect == ASSUME TypeOK, CloseReader, destroyed' \in BOOLEAN, asmUp' \in BOOLEAN,
                            toAsm' \in Seq(Requests), wire' \in Seq(Frames)
    PROVE  TypeOK' /\ NoLostWakeup'
<1>1. waiters' = <<>> /\ waiters' \in Seq(Requests) /\ closed' = TRUE
  BY DEF CloseReader, RejectWaiters, Reject
<1>2. /\ pc' \in [Requests -> {"new", "sent", "failing", "reading", "done"}]
      /\ outcome' \in [Requests -> Outcomes]
  BY DEF CloseReader, RejectWaiters, Reject, TypeOK, Outcomes
<1> QED BY <1>1, <1>2 DEF TypeOK, NoLostWakeup, CloseReader

-----------------------------------------------------------------------------
\* Every step keeps the types and loses no wakeup.
LEMMA NodeStep == NodeAssumption /\ TypeOK /\ NoLostWakeup /\ [Next]_vars
    => TypeOK' /\ NoLostWakeup'
<1> SUFFICES ASSUME NodeAssumption, TypeOK, NoLostWakeup, [Next]_vars
    PROVE  TypeOK' /\ NoLostWakeup'
  OBVIOUS
<1> USE DEF NodeAssumption
<1>0. ASSUME NEW r \in Requests, Callback(r) PROVE writing' \in Seq(Requests)
  BY <1>0, HeadTailProperties DEF Callback, TypeOK
<1>1. ASSUME Connect PROVE TypeOK' /\ NoLostWakeup'
  BY <1>1 DEF Connect, TypeOK, NoLostWakeup, readerVars, sockVars
<1>2. ASSUME NEW r \in Requests, Write(r) PROVE TypeOK' /\ NoLostWakeup'
  <2>0. Append(writing, r) \in Seq(Requests) /\ Append(toAsm, r) \in Seq(Requests)
    BY AppendProperties DEF TypeOK
  <2>1. writing' \in Seq(Requests) /\ toAsm' \in Seq(Requests)
    BY <1>2, <2>0 DEF Write, TypeOK
  <2>2. pc' \in [Requests -> {"new", "sent", "failing", "reading", "done"}]
    BY <1>2 DEF Write, TypeOK
  <2> QED BY <1>2, <2>1, <2>2 DEF Write, TypeOK, NoLostWakeup, readerVars
<1>3. ASSUME Close PROVE TypeOK' /\ NoLostWakeup'
  BY <1>3 DEF Close, TypeOK, NoLostWakeup, readerVars
<1>4. ASSUME NEW r \in Requests, WriteDone(r) PROVE TypeOK' /\ NoLostWakeup'
  <2>1. writing' \in Seq(Requests)
    BY <1>4, <1>0 DEF WriteDone
  <2>2. CASE r \in Answers
    BY <1>4, <2>1, <2>2 DEF WriteDone, Finish, TypeOK, NoLostWakeup, readerVars, sockVars, Outcomes
  <2>3. CASE r \notin Answers
    BY <1>4, <2>1, <2>3, ReadEffect DEF WriteDone
  <2> QED BY <2>2, <2>3
<1>5. ASSUME NEW r \in Requests, WriteFails(r) PROVE TypeOK' /\ NoLostWakeup'
  BY <1>5, <1>0 DEF WriteFails, TypeOK, NoLostWakeup, readerVars, Outcomes
<1>6. ASSUME HandshakeSettled PROVE TypeOK' /\ NoLostWakeup'
  BY <1>6 DEF HandshakeSettled, TypeOK, NoLostWakeup, readerVars
<1>7. ASSUME NEW n \in 1..Len(wire), OnData(n) PROVE TypeOK' /\ NoLostWakeup'
  <2> DEFINE got == buffer \o SubSeq(wire, 1, n)
  <2>1. Len(wire) \in Nat /\ n \in Nat /\ n <= Len(wire)
    BY LenProperties DEF TypeOK
  <2>2. got \in Seq(Frames) /\ wire' \in Seq(Frames)
    <3>1. SubSeq(wire, 1, n) \in Seq(Frames)
      BY <2>1, SubSeqProperties DEF TypeOK
    <3>2. wire' \in Seq(Frames)
      BY <1>7, <2>1, SuffixType DEF OnData, TypeOK
    <3> QED BY <3>1, <3>2, ConcatProperties DEF TypeOK
  <2>3. Drain(got, waiters)
    BY <1>7 DEF OnData
  <2> HIDE DEF got
  <2>4. /\ waiters \in Seq(Requests)
        /\ pc \in [Requests -> {"new", "sent", "failing", "reading", "done"}]
        /\ outcome \in [Requests -> Outcomes]
        /\ replyTo \in [Requests -> Requests \cup {NoRequest}]
    BY DEF TypeOK
  <2>5. /\ pc' \in [Requests -> {"new", "sent", "failing", "reading", "done"}]
        /\ outcome' \in [Requests -> Outcomes]
        /\ replyTo' \in [Requests -> Requests \cup {NoRequest}]
        /\ buffer' \in Seq(Frames)
        /\ waiters' \in Seq(Requests)
        /\ waiters' # <<>> => buffer' = <<>>
    BY <2>2, <2>3, <2>4, DrainEffect
  <2> QED BY <1>7, <2>2, <2>5 DEF OnData, TypeOK, NoLostWakeup
<1>8. ASSUME OnEnd \/ OnError \/ OnClose PROVE TypeOK' /\ NoLostWakeup'
  <2>1. CloseReader
    BY <1>8 DEF OnEnd, OnError, OnClose
  <2>2. /\ destroyed' \in BOOLEAN /\ asmUp' \in BOOLEAN
        /\ toAsm' \in Seq(Requests) /\ wire' \in Seq(Frames)
    BY <1>8, EmptySeq DEF OnEnd, OnError, OnClose, sockVars, TypeOK
  <2> QED BY <2>1, <2>2, CloseEffect
<1>9. ASSUME Serve PROVE TypeOK' /\ NoLostWakeup'
  <2>1. toAsm' \in Seq(Requests) /\ Head(toAsm) \in Requests
    BY <1>9, HeadTailProperties DEF Serve, TypeOK
  <2>2. PICK kind \in {"verdict", "junk", "bad"} :
          /\ wire' = IF Head(toAsm) \in Answers THEN wire
                     ELSE Append(wire, [to |-> Head(toAsm), kind |-> kind])
          /\ asmUp' = ~(kind = "bad" \/ (OneShot /\ Head(toAsm) # Handshake))
    BY <1>9 DEF Serve
  <2>3. [to |-> Head(toAsm), kind |-> kind] \in Frames
    BY <2>1 DEF Frames
  <2>4. wire' \in Seq(Frames) /\ asmUp' \in BOOLEAN
    BY <2>2, <2>3, AppendProperties DEF TypeOK
  <2> QED BY <1>9, <2>1, <2>4 DEF Serve, TypeOK, NoLostWakeup, callVars, readerVars
<1>10. ASSUME AssemblerGoes PROVE TypeOK' /\ NoLostWakeup'
  BY <1>10 DEF AssemblerGoes, TypeOK, NoLostWakeup, callVars, readerVars
<1>11. CASE UNCHANGED vars
  BY <1>11 DEF TypeOK, NoLostWakeup, vars, callVars, readerVars, sockVars
<1>12. Handshake \in Requests /\ Calls \cup Answers \subseteq Requests
  BY DEF Requests
<1> QED BY <1>1, <1>2, <1>3, <1>4, <1>5, <1>6, <1>7, <1>8, <1>9, <1>10, <1>11, <1>12
        DEF Next, LoopStep

\* The types and NoLostWakeup hold at first.
LEMMA NodeInit == NodeAssumption /\ Init => TypeOK /\ NoLostWakeup
  BY EmptySeq DEF NodeAssumption, Init, TypeOK, NoLostWakeup, Outcomes

-----------------------------------------------------------------------------
(* The order of requests and replies.  Requests are written in an order;    *)
(* t is the number of each in it.  W are the waiters, G the writes whose    *)
(* callback is to come, D the requests whose replies are received or on     *)
(* their way, T those the Assembler has not read.                           *)

Rising(s, t)     == \A i, j \in 1..Len(s) : i < j => t[s[i]] < t[s[j]]
Earlier(s, u, t) == \A i \in 1..Len(s), j \in 1..Len(u) : t[s[i]] < t[u[j]]

\* Who waits or will, and who is owed a reply. Answers are owed none.
Due(W, G)  == (Range(W) \cup Range(G)) \ Answers
Owed(D, T) == (Range(D) \cup Range(T)) \ Answers

\* All four are in the order of the writes, replies go to those who are due one, in
\* turn, and nobody is passed over.
Matched(W, G, D, T, t) ==
    /\ Rising(W, t) /\ Rising(G, t) /\ Earlier(W, G, t)
    /\ Rising(D, t) /\ Rising(T, t) /\ Earlier(D, T, t)
    /\ Range(W) \cap Answers = {} /\ Range(D) \cap Answers = {}
    /\ \A i \in 1..Len(W) : i <= Len(D) => W[i] = D[i]
    /\ Owed(D, T) \subseteq Due(W, G)
    /\ \A x \in Due(W, G), y \in Owed(D, T) : t[x] <= t[y] => x \in Owed(D, T)

\* Two elements of a sequence that rises, and of two one of which is earlier.
LEMMA RisesAt == ASSUME NEW s, NEW t, Rising(s, t), NEW i \in 1..Len(s), NEW j \in 1..Len(s), i < j
    PROVE  t[s[i]] < t[s[j]]
  BY DEF Rising

LEMMA EarlierAt == ASSUME NEW s, NEW u, NEW t, Earlier(s, u, t), NEW i \in 1..Len(s), NEW j \in 1..Len(u)
    PROVE  t[s[i]] < t[u[j]]
  BY DEF Earlier

\* The number and the elements of what is left of a sequence.
LEMMA Suffix == ASSUME NEW S, NEW s \in Seq(S), NEW n \in Nat, n <= Len(s)
    PROVE  /\ SubSeq(s, n + 1, Len(s)) \in Seq(S)
           /\ Len(SubSeq(s, n + 1, Len(s))) = Len(s) - n
           /\ \A i \in 1..(Len(s) - n) : SubSeq(s, n + 1, Len(s))[i] = s[i + n]
<1>1. Len(s) \in Nat /\ \A i \in 1..Len(s) : s[i] \in S
  BY LenProperties, ElementOfSeq
<1>2. \A i \in (n + 1)..Len(s) : s[i] \in S
  BY <1>1
<1>3. /\ SubSeq(s, n + 1, Len(s)) \in Seq(S)
      /\ Len(SubSeq(s, n + 1, Len(s))) = IF n + 1 <= Len(s) THEN Len(s) - (n + 1) + 1 ELSE 0
      /\ \A i \in 1..(Len(s) - (n + 1) + 1) : SubSeq(s, n + 1, Len(s))[i] = s[(n + 1) + i - 1]
  BY <1>1, <1>2, SubSeqProperties
<1> QED BY <1>1, <1>3

\* The members of a sequence.
LEMMA Members == ASSUME NEW S, NEW s \in Seq(S)
    PROVE  /\ Len(s) \in Nat /\ DOMAIN s = 1..Len(s) /\ Range(s) \subseteq S
           /\ \A i \in 1..Len(s) : s[i] \in Range(s) /\ s[i] \in S
           /\ \A x \in Range(s) : \E i \in 1..Len(s) : s[i] = x
  BY LenProperties, ElementOfSeq DEF Range

\* A sequence without its first element, which it has.
LEMMA Rest == ASSUME NEW S, NEW s \in Seq(S), s # <<>>
    PROVE  /\ Len(s) \in Nat \ {0} /\ Head(s) = s[1] /\ Tail(s) \in Seq(S)
           /\ Len(Tail(s)) = Len(s) - 1
           /\ \A i \in 1..(Len(s) - 1) : Tail(s)[i] = s[i + 1]
           /\ Range(s) = {Head(s)} \cup Range(Tail(s))
<1>1. /\ Len(s) \in Nat \ {0} /\ Head(s) = s[1] /\ Tail(s) \in Seq(S)
      /\ Len(Tail(s)) = Len(s) - 1
      /\ \A i \in 1..(Len(s) - 1) : Tail(s)[i] = s[i + 1]
  BY HeadTailProperties, EmptySeq
<1>2. DOMAIN s = 1..Len(s) /\ DOMAIN Tail(s) = 1..(Len(s) - 1)
  BY <1>1, LenProperties
<1>3. Range(s) \subseteq {Head(s)} \cup Range(Tail(s))
  <2> SUFFICES ASSUME NEW i \in 1..Len(s) PROVE s[i] \in {Head(s)} \cup Range(Tail(s))
    BY <1>2 DEF Range
  <2>1. CASE i = 1
    BY <2>1, <1>1
  <2>2. CASE i # 1
    <3>1. i - 1 \in 1..(Len(s) - 1) /\ Tail(s)[i - 1] = s[i]
      BY <1>1, <2>2
    <3> QED BY <3>1, <1>2 DEF Range
  <2> QED BY <2>1, <2>2
<1>4. {Head(s)} \cup Range(Tail(s)) \subseteq Range(s)
  <2>1. Head(s) \in Range(s)
    BY <1>1, <1>2 DEF Range
  <2>2. ASSUME NEW i \in 1..(Len(s) - 1) PROVE Tail(s)[i] \in Range(s)
    BY <1>1, <1>2 DEF Range
  <2> QED BY <2>1, <2>2, <1>2 DEF Range
<1> QED BY <1>1, <1>3, <1>4

\* A sequence with one more.
LEMMA More == ASSUME NEW S, NEW s \in Seq(S), NEW e \in S
    PROVE  /\ Append(s, e) \in Seq(S) /\ Len(Append(s, e)) = Len(s) + 1
           /\ \A i \in 1..Len(s) : Append(s, e)[i] = s[i]
           /\ Append(s, e)[Len(s) + 1] = e
           /\ Range(Append(s, e)) = Range(s) \cup {e}
<1>1. /\ Append(s, e) \in Seq(S) /\ Len(Append(s, e)) = Len(s) + 1
      /\ \A i \in 1..Len(s) : Append(s, e)[i] = s[i]
      /\ Append(s, e)[Len(s) + 1] = e
  BY AppendProperties
<1>2. Len(s) \in Nat /\ DOMAIN s = 1..Len(s) /\ DOMAIN Append(s, e) = 1..(Len(s) + 1)
  BY <1>1, LenProperties
<1>3. \A i \in 1..(Len(s) + 1) : Append(s, e)[i] \in Range(s) \cup {e}
  <2> TAKE i \in 1..(Len(s) + 1)
  <2>1. CASE i = Len(s) + 1
    BY <2>1, <1>1
  <2>2. CASE i # Len(s) + 1
    BY <2>2, <1>1, <1>2 DEF Range
  <2> QED BY <2>1, <2>2
<1>4. \A i \in 1..Len(s) : s[i] \in Range(Append(s, e))
  BY <1>1, <1>2 DEF Range
<1>5. e \in Range(Append(s, e))
  BY <1>1, <1>2 DEF Range
<1> QED BY <1>1, <1>2, <1>3, <1>4, <1>5 DEF Range

LEMMA Above == ASSUME NEW n \in Nat, NEW j \in Int, j > n, j # n + 1 PROVE n + 1 < j
  OBVIOUS

\* The next reply to come is for the next to wait.
LEMMA NextToWait ==
    ASSUME NEW W \in Seq(Requests), NEW G \in Seq(Requests), NEW D \in Seq(Requests),
           NEW T \in Seq(Requests), NEW t \in [Requests -> Nat], Matched(W, G, D, T, t),
           G # <<>>, Head(G) \notin Answers, Len(D) > Len(W)
    PROVE  D[Len(W) + 1] = Head(G)
<1> DEFINE b == D[Len(W) + 1]   a == Head(G)
<1>0. Len(W) \in Nat /\ Len(D) \in Nat /\ Len(G) \in Nat \ {0} /\ a = G[1]
  BY Members, Rest
<1>1. b \in Owed(D, T) /\ a \in Due(W, G)
  <2>1. b \in Range(D) /\ a \in Range(G)
    BY <1>0, Members
  <2> QED BY <2>1 DEF Matched, Owed, Due
<1>2. a \in Requests /\ b \in Requests /\ t[a] \in Nat /\ t[b] \in Nat
  BY <1>0, Members
<1>3. b \notin Range(W)
  <2> SUFFICES ASSUME NEW i \in 1..Len(W), W[i] = b PROVE FALSE
    BY Members
  <2>1. D[i] = b /\ i < Len(W) + 1 /\ i \in 1..Len(D) /\ Len(W) + 1 \in 1..Len(D)
    BY <1>0, SMTT(30) DEF Matched
  <2>2. t[D[i]] < t[D[Len(W) + 1]]
    BY <2>1 DEF Matched, Rising
  <2> QED BY <2>1, <2>2, <1>2
<1>4. PICK k \in 1..Len(G) : G[k] = b
  <2>1. b \in Due(W, G)
    BY <1>1 DEF Matched
  <2>2. b \in Range(G)
    BY <2>1, <1>3 DEF Due
  <2> QED BY <2>2, Members
<1>5. k # 1 => t[a] < t[b]
  <2>1. Rising(G, t) /\ 1 \in 1..Len(G)
    BY <1>0 DEF Matched
  <2>2. k # 1 => 1 < k
    BY <1>0
  <2> QED BY <1>0, <1>4, <2>1, <2>2, RisesAt
<1>6. a \in Owed(D, T)
  <2>1. t[a] <= t[b]
    BY <1>0, <1>2, <1>4, <1>5
  <2> QED BY <2>1, <1>1 DEF Matched
<1>7. t[b] <= t[a]
  <2>1. CASE a \in Range(D)
    <3>1. PICK j \in 1..Len(D) : D[j] = a
      BY <2>1, Members
    <3>2. j > Len(W)
      <4> SUFFICES ASSUME j <= Len(W) PROVE FALSE
        BY <1>0, <3>1
      <4>1. W[j] = a /\ j \in 1..Len(W) /\ 1 \in 1..Len(G)
        BY <1>0, <3>1, SMTT(30) DEF Matched
      <4>2. t[W[j]] < t[G[1]]
        BY <4>1 DEF Matched, Earlier
      <4> QED BY <4>1, <4>2, <1>0, <1>2, SMTT(30)
    <3>3. Rising(D, t) /\ Len(W) + 1 \in 1..Len(D)
      BY <1>0 DEF Matched
    <3>4. j # Len(W) + 1 => t[b] < t[a]
      <4>1. j # Len(W) + 1 => Len(W) + 1 < j
        <5>1. Len(W) \in Nat
          BY <1>0
        <5>2. j \in Int
          BY <1>0
        <5>3. j > Len(W)
          BY <3>2
        <5> QED BY <5>1, <5>2, <5>3, Above, Zenon
      <4> QED BY <3>1, <3>3, <4>1, RisesAt
    <3> QED BY <1>0, <1>2, <3>1, <3>4
  <2>2. CASE a \in Range(T)
    <3>1. PICK j \in 1..Len(T) : T[j] = a
      BY <2>2, Members
    <3>2. Earlier(D, T, t) /\ Len(W) + 1 \in 1..Len(D)
      BY <1>0 DEF Matched
    <3>3. t[b] < t[a]
      BY <3>1, <3>2, EarlierAt
    <3> QED BY <3>3, <1>2, SMTT(30)
  <2> QED BY <1>6, <2>1, <2>2 DEF Owed
<1> QED BY <1>0, <1>2, <1>4, <1>5, <1>7

\* The next request the Assembler answers is the one next in turn.
LEMMA NextToServe ==
    ASSUME NEW W \in Seq(Requests), NEW G \in Seq(Requests), NEW D \in Seq(Requests),
           NEW T \in Seq(Requests), NEW t \in [Requests -> Nat], Matched(W, G, D, T, t),
           T # <<>>, Head(T) \notin Answers, Len(W) > Len(D)
    PROVE  W[Len(D) + 1] = Head(T)
<1> DEFINE a == W[Len(D) + 1]   b == Head(T)
<1>0. Len(W) \in Nat /\ Len(D) \in Nat /\ Len(T) \in Nat \ {0} /\ b = T[1]
  BY Members, Rest
<1>1. b \in Owed(D, T) /\ a \in Due(W, G)
  <2>1. a \in Range(W) /\ b \in Range(T)
    BY <1>0, Members
  <2> QED BY <2>1 DEF Matched, Owed, Due
<1>2. a \in Requests /\ b \in Requests /\ t[a] \in Nat /\ t[b] \in Nat
  BY <1>0, Members
<1>3. b \in Due(W, G)
  BY <1>1 DEF Matched
<1>9. Rising(W, t) /\ Rising(T, t) /\ Earlier(W, G, t) /\ Len(D) + 1 \in 1..Len(W)
  BY <1>0 DEF Matched
<1>4. \A i \in 1..Len(W) : i <= Len(D) => W[i] # b
  <2> SUFFICES ASSUME NEW i \in 1..Len(W), i <= Len(D), W[i] = b PROVE FALSE
    OBVIOUS
  <2>1. D[i] = b /\ i \in 1..Len(D) /\ 1 \in 1..Len(T)
    BY <1>0 DEF Matched
  <2>2. t[D[i]] < t[T[1]]
    BY <2>1 DEF Matched, Earlier
  <2> QED BY <2>1, <2>2, <1>0, <1>2
<1>5. b # a => t[a] < t[b]
  <2>1. CASE b \in Range(W)
    <3>1. PICK i \in 1..Len(W) : W[i] = b
      BY <2>1, Members
    <3>2. ~(i <= Len(D))
      BY <1>4, <3>1
    <3>3. b # a => Len(D) + 1 < i
      BY <1>0, <3>1, <3>2
    <3> QED BY <1>9, <3>1, <3>3, RisesAt
  <2>2. CASE b \in Range(G)
    <3>1. PICK i \in 1..Len(G) : G[i] = b
      BY <2>2, Members
    <3> QED BY <1>9, <3>1, EarlierAt
  <2> QED BY <1>3, <2>1, <2>2 DEF Due
<1> SUFFICES ASSUME a # b PROVE FALSE
  OBVIOUS
<1>6. a \in Owed(D, T)
  BY <1>1, <1>2, <1>5 DEF Matched
<1>7. CASE a \in Range(D)
  <2>1. PICK j \in 1..Len(D) : D[j] = a
    BY <1>7, Members
  <2>2. W[j] = a /\ j < Len(D) + 1 /\ j \in 1..Len(W) /\ Len(D) + 1 \in 1..Len(W)
    BY <1>0, <2>1, SMTT(30) DEF Matched
  <2>3. t[W[j]] < t[W[Len(D) + 1]]
    BY <2>2 DEF Matched, Rising
  <2> QED BY <2>2, <2>3, <1>2
<1>8. CASE a \in Range(T)
  <2>1. PICK j \in 1..Len(T) : T[j] = a
    BY <1>8, Members
  <2>2. 1 < j /\ 1 \in 1..Len(T)
    BY <1>0, <2>1
  <2>3. t[b] < t[a]
    BY <1>0, <1>9, <2>1, <2>2, RisesAt
  <2> QED BY <2>3, <1>2, <1>5
<1> QED BY <1>6, <1>7, <1>8 DEF Owed

-----------------------------------------------------------------------------
(* What cutting and extending sequences does to their order.               *)

\* u is s without its first n elements.
IsRest(u, s, n) ==
    /\ n \in Nat /\ Len(s) \in Nat /\ n <= Len(s)
    /\ Len(u) = Len(s) - n
    /\ \A i \in 1..(Len(s) - n) : u[i] = s[i + n]

LEMMA RestAt == ASSUME NEW u, NEW s, NEW n, IsRest(u, s, n), NEW i \in 1..Len(u)
    PROVE  i + n \in 1..Len(s) /\ u[i] = s[i + n]
  BY DEF IsRest

LEMMA RestRises == ASSUME NEW u, NEW s, NEW n, IsRest(u, s, n), NEW t, Rising(s, t)
    PROVE  Rising(u, t)
<1> SUFFICES ASSUME NEW i \in 1..Len(u), NEW j \in 1..Len(u), i < j PROVE t[u[i]] < t[u[j]]
  BY DEF Rising
<1>1. i + n \in 1..Len(s) /\ j + n \in 1..Len(s) /\ u[i] = s[i + n] /\ u[j] = s[j + n]
  BY RestAt
<1>2. i + n < j + n
  BY DEF IsRest
<1> QED BY <1>1, <1>2, RisesAt

LEMMA RestEarlier == ASSUME NEW u, NEW s, NEW n, IsRest(u, s, n), NEW t, NEW v
    PROVE  /\ Earlier(s, v, t) => Earlier(u, v, t)
           /\ Earlier(v, s, t) => Earlier(v, u, t)
<1>1. ASSUME Earlier(s, v, t), NEW i \in 1..Len(u), NEW j \in 1..Len(v) PROVE t[u[i]] < t[v[j]]
  BY <1>1, RestAt, EarlierAt
<1>2. ASSUME Earlier(v, s, t), NEW i \in 1..Len(v), NEW j \in 1..Len(u) PROVE t[v[i]] < t[u[j]]
  BY <1>2, RestAt, EarlierAt
<1> QED BY <1>1, <1>2 DEF Earlier

LEMMA TailIsRest == ASSUME NEW S, NEW s \in Seq(S), s # <<>>
    PROVE  Tail(s) \in Seq(S) /\ IsRest(Tail(s), s, 1)
  BY Rest DEF IsRest

LEMMA SuffixIsRest == ASSUME NEW S, NEW s \in Seq(S), NEW n \in Nat, n <= Len(s)
    PROVE  SubSeq(s, n + 1, Len(s)) \in Seq(S) /\ IsRest(SubSeq(s, n + 1, Len(s)), s, n)
  BY Suffix, Members DEF IsRest

LEMMA MoreRises == ASSUME NEW S, NEW s \in Seq(S), NEW e \in S, NEW t \in [S -> Nat], Rising(s, t),
                          \A i \in 1..Len(s) : t[s[i]] < t[e]
    PROVE  Rising(Append(s, e), t)
<1> DEFINE u == Append(s, e)
<1>1. /\ Len(s) \in Nat /\ Len(u) = Len(s) + 1 /\ u[Len(s) + 1] = e
      /\ \A i \in 1..Len(s) : u[i] = s[i]
  BY Members, More
<1> HIDE DEF u
<1> SUFFICES ASSUME NEW i \in 1..Len(u), NEW j \in 1..Len(u), i < j PROVE t[u[i]] < t[u[j]]
  BY DEF Rising, u
<1>2. i \in 1..Len(s) /\ u[i] = s[i]
  BY <1>1
<1>3. CASE j \in 1..Len(s)
  BY <1>1, <1>2, <1>3, RisesAt
<1>4. CASE j \notin 1..Len(s)
  <2>1. j = Len(s) + 1
    BY <1>1, <1>4
  <2> QED BY <1>1, <1>2, <2>1
<1> QED BY <1>3, <1>4

LEMMA MoreEarlier == ASSUME NEW S, NEW s \in Seq(S), NEW e \in S, NEW t \in [S -> Nat], NEW v
    PROVE  /\ Earlier(s, v, t) /\ (\A j \in 1..Len(v) : t[e] < t[v[j]]) => Earlier(Append(s, e), v, t)
           /\ Earlier(v, s, t) /\ (\A j \in 1..Len(v) : t[v[j]] < t[e]) => Earlier(v, Append(s, e), t)
<1> DEFINE u == Append(s, e)
<1>1. /\ Len(s) \in Nat /\ Len(u) = Len(s) + 1 /\ u[Len(s) + 1] = e
      /\ \A i \in 1..Len(s) : u[i] = s[i]
  BY Members, More
<1>2. \A i \in 1..Len(u) : i \in 1..Len(s) \/ i = Len(s) + 1
  BY <1>1
<1> HIDE DEF u
<1>3. ASSUME Earlier(s, v, t), \A j \in 1..Len(v) : t[e] < t[v[j]], NEW i \in 1..Len(u), NEW j \in 1..Len(v)
      PROVE  t[u[i]] < t[v[j]]
  <2>1. CASE i \in 1..Len(s)
    BY <1>1, <1>3, <2>1, EarlierAt
  <2>2. CASE i = Len(s) + 1
    BY <1>1, <1>3, <2>2
  <2> QED BY <1>2, <2>1, <2>2
<1>4. ASSUME Earlier(v, s, t), \A j \in 1..Len(v) : t[v[j]] < t[e], NEW i \in 1..Len(v), NEW j \in 1..Len(u)
      PROVE  t[v[i]] < t[u[j]]
  <2>1. CASE j \in 1..Len(s)
    BY <1>1, <1>4, <2>1, EarlierAt
  <2>2. CASE j = Len(s) + 1
    BY <1>1, <1>4, <2>2
  <2> QED BY <1>2, <2>1, <2>2
<1> QED BY <1>3, <1>4 DEF Earlier, u

-----------------------------------------------------------------------------
(* What the steps do to the order.                                         *)

\* A call whose write is done joins the waiters.
LEMMA MatchedWait ==
    ASSUME NEW W \in Seq(Requests), NEW G \in Seq(Requests), NEW D \in Seq(Requests),
           NEW T \in Seq(Requests), NEW t \in [Requests -> Nat], Matched(W, G, D, T, t),
           G # <<>>, Head(G) \notin Answers
    PROVE  /\ Matched(Append(W, Head(G)), Tail(G), D, T, t)
           /\ Due(Append(W, Head(G)), Tail(G)) = Due(W, G)
<1> DEFINE r == Head(G)   W1 == Append(W, r)   G1 == Tail(G)
<1>1. /\ Len(W) \in Nat /\ r \in Requests /\ r = G[1] /\ 1 \in 1..Len(G)
      /\ Range(G) = {r} \cup Range(G1) /\ G1 \in Seq(Requests) /\ IsRest(G1, G, 1)
  BY Members, Rest, TailIsRest
<1>2. /\ Range(W1) = Range(W) \cup {r} /\ Len(W1) = Len(W) + 1 /\ W1[Len(W) + 1] = r
      /\ \A i \in 1..Len(W) : W1[i] = W[i]
  BY <1>1, More
<1>3. Rising(W1, t) /\ Rising(G1, t) /\ Earlier(W1, G1, t)
  <2>1. \A i \in 1..Len(W) : t[W[i]] < t[r]
    BY <1>1, EarlierAt DEF Matched
  <2>2. Rising(W1, t) /\ Rising(G1, t) /\ Earlier(W, G1, t)
    BY <1>1, <2>1, MoreRises, RestRises, RestEarlier DEF Matched
  <2>3. ASSUME NEW j \in 1..Len(G1) PROVE t[r] < t[G1[j]]
    <3>1. j + 1 \in 1..Len(G) /\ G1[j] = G[j + 1] /\ 1 < j + 1
      BY <1>1, RestAt
    <3> QED BY <1>1, <3>1, RisesAt DEF Matched
  <2> QED BY <1>1, <2>2, <2>3, MoreEarlier
<1>4. Due(W1, G1) = Due(W, G)
  BY <1>1, <1>2 DEF Due
<1>5. Range(W1) \cap Answers = {}
  BY <1>2 DEF Matched
<1>6. ASSUME NEW i \in 1..Len(W1), i <= Len(D) PROVE W1[i] = D[i]
  <2>1. CASE i \in 1..Len(W)
    BY <1>2, <1>6, <2>1 DEF Matched
  <2>2. CASE i = Len(W) + 1
    <3>1. Len(D) > Len(W)
      BY <1>1, <1>6, <2>2, Members
    <3>2. D[Len(W) + 1] = r
      BY <3>1, NextToWait
    <3> QED BY <1>2, <2>2, <3>2
  <2>3. i \in 1..Len(W) \/ i = Len(W) + 1
    <3> HIDE DEF W1
    <3> QED BY <1>1, <1>2
  <2> QED BY <2>1, <2>2, <2>3
<1> QED BY <1>3, <1>4, <1>5, <1>6 DEF Matched

\* The Assembler answers a call.
LEMMA MatchedServe ==
    ASSUME NEW W \in Seq(Requests), NEW G \in Seq(Requests), NEW D \in Seq(Requests),
           NEW T \in Seq(Requests), NEW t \in [Requests -> Nat], Matched(W, G, D, T, t),
           T # <<>>, Head(T) \notin Answers
    PROVE  /\ Matched(W, G, Append(D, Head(T)), Tail(T), t)
           /\ Owed(Append(D, Head(T)), Tail(T)) = Owed(D, T)
<1> DEFINE r == Head(T)   D1 == Append(D, r)   T1 == Tail(T)
<1>1. /\ Len(D) \in Nat /\ r \in Requests /\ r = T[1] /\ 1 \in 1..Len(T)
      /\ Range(T) = {r} \cup Range(T1) /\ T1 \in Seq(Requests) /\ IsRest(T1, T, 1)
  BY Members, Rest, TailIsRest
<1>2. /\ Range(D1) = Range(D) \cup {r} /\ Len(D1) = Len(D) + 1 /\ D1[Len(D) + 1] = r
      /\ \A i \in 1..Len(D) : D1[i] = D[i]
  BY <1>1, More
<1>3. Rising(D1, t) /\ Rising(T1, t) /\ Earlier(D1, T1, t)
  <2>1. \A i \in 1..Len(D) : t[D[i]] < t[r]
    BY <1>1, EarlierAt DEF Matched
  <2>2. Rising(D1, t) /\ Rising(T1, t) /\ Earlier(D, T1, t)
    BY <1>1, <2>1, MoreRises, RestRises, RestEarlier DEF Matched
  <2>3. ASSUME NEW j \in 1..Len(T1) PROVE t[r] < t[T1[j]]
    <3>1. j + 1 \in 1..Len(T) /\ T1[j] = T[j + 1] /\ 1 < j + 1
      BY <1>1, RestAt
    <3> QED BY <1>1, <3>1, RisesAt DEF Matched
  <2> QED BY <1>1, <2>2, <2>3, MoreEarlier
<1>4. Owed(D1, T1) = Owed(D, T)
  BY <1>1, <1>2 DEF Owed
<1>5. Range(D1) \cap Answers = {}
  BY <1>2 DEF Matched
<1>6. ASSUME NEW i \in 1..Len(W), i <= Len(D1) PROVE W[i] = D1[i]
  <2>1. CASE i \in 1..Len(D)
    BY <1>1, <1>2, <1>6, <2>1 DEF Matched
  <2>2. CASE i = Len(D) + 1
    <3>1. Len(W) > Len(D)
      BY <1>1, <1>6, <2>2, Members
    <3>2. W[Len(D) + 1] = r
      BY <3>1, NextToServe
    <3> QED BY <1>2, <2>2, <3>2
  <2> QED BY <1>1, <1>2, <1>6, <2>1, <2>2
<1> QED BY <1>3, <1>4, <1>5, <1>6 DEF Matched

\* An answer to a clarification that is written, or that the Assembler has read.
LEMMA MatchedAnswer ==
    ASSUME NEW W \in Seq(Requests), NEW G \in Seq(Requests), NEW D \in Seq(Requests),
           NEW T \in Seq(Requests), NEW t \in [Requests -> Nat], Matched(W, G, D, T, t)
    PROVE  /\ G # <<>> /\ Head(G) \in Answers => Matched(W, Tail(G), D, T, t) /\ Due(W, Tail(G)) = Due(W, G)
           /\ T # <<>> /\ Head(T) \in Answers => Matched(W, G, D, Tail(T), t) /\ Owed(D, Tail(T)) = Owed(D, T)
<1>1. ASSUME G # <<>>, Head(G) \in Answers PROVE Matched(W, Tail(G), D, T, t) /\ Due(W, Tail(G)) = Due(W, G)
  <2>1. IsRest(Tail(G), G, 1) /\ Range(G) = {Head(G)} \cup Range(Tail(G))
    BY <1>1, Rest, TailIsRest
  <2>2. Rising(Tail(G), t) /\ Earlier(W, Tail(G), t)
    BY <2>1, RestRises, RestEarlier DEF Matched
  <2>3. Due(W, Tail(G)) = Due(W, G)
    BY <1>1, <2>1 DEF Due
  <2> QED BY <2>2, <2>3 DEF Matched
<1>2. ASSUME T # <<>>, Head(T) \in Answers PROVE Matched(W, G, D, Tail(T), t) /\ Owed(D, Tail(T)) = Owed(D, T)
  <2>1. IsRest(Tail(T), T, 1) /\ Range(T) = {Head(T)} \cup Range(Tail(T))
    BY <1>2, Rest, TailIsRest
  <2>2. Rising(Tail(T), t) /\ Earlier(D, Tail(T), t)
    BY <2>1, RestRises, RestEarlier DEF Matched
  <2>3. Owed(D, Tail(T)) = Owed(D, T)
    BY <1>2, <2>1 DEF Owed
  <2> QED BY <2>2, <2>3 DEF Matched
<1> QED BY <1>1, <1>2

\* A and C agree in their first k elements, without which they are A1 and C1, and
\* nothing of C or E comes twice.
CutAlike(A, B, C, E, A1, C1, k, t) ==
    /\ {A, B, C, E, A1, C1} \subseteq Seq(Requests) /\ t \in [Requests -> Nat]
    /\ Rising(C, t) /\ Earlier(C, E, t)
    /\ IsRest(A1, A, k) /\ IsRest(C1, C, k) /\ \A i \in 1..k : A[i] = C[i]

\* What is left after the cut on one side, and was on the other, is left on it too.
LEMMA StillThere ==
    ASSUME NEW A, NEW B, NEW C, NEW E, NEW A1, NEW C1, NEW k, NEW t,
           CutAlike(A, B, C, E, A1, C1, k, t)
    PROVE  \A y \in Range(C1) \cup Range(E) :
              y \in Range(A) \cup Range(B) => y \in Range(A1) \cup Range(B)
<1>0. /\ A \in Seq(Requests) /\ B \in Seq(Requests) /\ C \in Seq(Requests)
      /\ E \in Seq(Requests) /\ A1 \in Seq(Requests) /\ C1 \in Seq(Requests)
      /\ t \in [Requests -> Nat] /\ Rising(C, t) /\ Earlier(C, E, t)
      /\ IsRest(A1, A, k) /\ IsRest(C1, C, k) /\ k \in Nat /\ \A i \in 1..k : A[i] = C[i]
  BY DEF CutAlike, IsRest
<1> SUFFICES ASSUME NEW y \in Range(C1) \cup Range(E), y \in Range(A), y \notin Range(A1) PROVE FALSE
  OBVIOUS
<1>1. PICK i \in 1..Len(A) : A[i] = y
  BY <1>0, Members
<1>2. i <= k
  <2> SUFFICES ASSUME i > k PROVE FALSE
    BY <1>0 DEF IsRest
  <2>1. i - k \in 1..Len(A1) /\ A1[i - k] = A[i]
    BY <1>0 DEF IsRest
  <2> QED BY <1>0, <1>1, <2>1, Members
<1>3. i \in 1..Len(C) /\ C[i] = y
  BY <1>0, <1>1, <1>2 DEF IsRest
<1>4. t[y] \in Nat
  BY <1>0, <1>1, Members
<1>5. CASE y \in Range(C1)
  <2>1. PICK j \in 1..Len(C1) : C1[j] = y
    BY <1>0, <1>5, Members
  <2>2. j + k \in 1..Len(C) /\ C[j + k] = y
    <3>1. IsRest(C1, C, k)
      BY <1>0
    <3> QED BY <2>1, <3>1, RestAt
  <2>3. i < j + k
    BY <1>0, <1>1, <1>2, <2>1 DEF IsRest
  <2> QED BY <1>0, <1>3, <1>4, <2>2, <2>3, RisesAt, SMTT(30)
<1>6. CASE y \in Range(E)
  <2>1. PICK j \in 1..Len(E) : E[j] = y
    BY <1>0, <1>6, Members
  <2> QED BY <1>0, <1>3, <1>4, <2>1, EarlierAt, SMTT(30)
<1> QED BY <1>5, <1>6

\* The first k waiters have been given the first k replies.
LEMMA MatchedGive ==
    ASSUME NEW W \in Seq(Requests), NEW G \in Seq(Requests), NEW D \in Seq(Requests),
           NEW T \in Seq(Requests), NEW t \in [Requests -> Nat], Matched(W, G, D, T, t),
           NEW k \in Nat, k <= Len(W), k <= Len(D)
    PROVE  LET W1 == SubSeq(W, k + 1, Len(W))
               D1 == SubSeq(D, k + 1, Len(D))
           IN  /\ Matched(W1, G, D1, T, t)
               /\ Due(W, G) \subseteq Owed(D, T) => Due(W1, G) \subseteq Owed(D1, T)
<1> DEFINE W1 == SubSeq(W, k + 1, Len(W))
           D1 == SubSeq(D, k + 1, Len(D))
<1>1. W1 \in Seq(Requests) /\ IsRest(W1, W, k) /\ D1 \in Seq(Requests) /\ IsRest(D1, D, k)
  BY SuffixIsRest
<1> HIDE DEF W1, D1
<1>2. \A i \in 1..k : W[i] = D[i]
  <2> SUFFICES ASSUME NEW i \in 1..k PROVE W[i] = D[i]
    OBVIOUS
  <2>1. i \in 1..Len(W) /\ i <= Len(D)
    BY Members
  <2> QED BY <2>1 DEF Matched
<1>3. Range(W1) \subseteq Range(W) /\ Range(D1) \subseteq Range(D)
  <2>1. ASSUME NEW x \in Range(W1) PROVE x \in Range(W)
    <3>1. PICK i \in 1..Len(W1) : W1[i] = x
      BY <1>1, Members
    <3>2. i + k \in 1..Len(W) /\ W[i + k] = x
      BY <1>1, <3>1, RestAt, SMTT(30)
    <3> QED BY <3>2, Members
  <2>2. ASSUME NEW x \in Range(D1) PROVE x \in Range(D)
    <3>1. PICK i \in 1..Len(D1) : D1[i] = x
      BY <1>1, Members
    <3>2. i + k \in 1..Len(D) /\ D[i + k] = x
      BY <1>1, <3>1, RestAt, SMTT(30)
    <3> QED BY <3>2, Members
  <2> QED BY <2>1, <2>2
<1>4. ASSUME NEW y \in Owed(D1, T), y \in Due(W, G) PROVE y \in Due(W1, G)
  <2>1. y \in Range(W1) \cup Range(G)
    <3>1. y \in Range(D1) \cup Range(T) /\ y \in Range(W) \cup Range(G)
      BY <1>4 DEF Owed, Due
    <3>2. CutAlike(W, G, D, T, W1, D1, k, t)
      BY <1>1, <1>2 DEF Matched, CutAlike
    <3> QED BY <3>1, <3>2, StillThere
  <2> QED BY <1>4, <2>1 DEF Due
<1>5. ASSUME NEW x \in Due(W1, G), x \in Owed(D, T) PROVE x \in Owed(D1, T)
  <2>1. \A i \in 1..k : D[i] = W[i]
    BY <1>2
  <2>2. x \in Range(D1) \cup Range(T)
    <3>1. x \in Range(W1) \cup Range(G) /\ x \in Range(D) \cup Range(T)
      BY <1>5 DEF Owed, Due
    <3>2. CutAlike(D, T, W, G, D1, W1, k, t)
      BY <1>1, <2>1 DEF Matched, CutAlike
    <3> QED BY <3>1, <3>2, StillThere
  <2> QED BY <1>5, <2>2 DEF Owed
<1>6. Due(W1, G) \subseteq Due(W, G) /\ Owed(D1, T) \subseteq Owed(D, T)
  BY <1>3 DEF Due, Owed
<1>7. Rising(W1, t) /\ Rising(D1, t) /\ Earlier(W1, G, t) /\ Earlier(D1, T, t)
  BY <1>1, RestRises, RestEarlier DEF Matched
<1>8. ASSUME NEW i \in 1..Len(W1), i <= Len(D1) PROVE W1[i] = D1[i]
  <2>1. i \in 1..Len(D1)
    BY <1>1, <1>8, Members
  <2>2. /\ W1[i] = W[i + k] /\ i + k \in 1..Len(W)
        /\ D1[i] = D[i + k] /\ i + k \in 1..Len(D)
    <3>1. W1[i] = W[i + k] /\ i + k \in 1..Len(W)
      BY <1>1, RestAt, SMTT(30)
    <3>2. D1[i] = D[i + k] /\ i + k \in 1..Len(D)
      BY <1>1, <2>1, RestAt, SMTT(30)
    <3> QED BY <3>1, <3>2
  <2>3. i + k <= Len(D)
    BY <2>2, Members
  <2> QED BY <2>2, <2>3 DEF Matched
<1>9. Matched(W1, G, D1, T, t)
  <2>1. Range(W1) \cap Answers = {} /\ Range(D1) \cap Answers = {}
    BY <1>3 DEF Matched
  <2>2. Owed(D1, T) \subseteq Due(W1, G)
    BY <1>4, <1>6 DEF Matched
  <2>3. \A x \in Due(W1, G), y \in Owed(D1, T) : t[x] <= t[y] => x \in Owed(D1, T)
    BY <1>5, <1>6 DEF Matched
  <2> QED BY <1>7, <1>8, <2>1, <2>2, <2>3 DEF Matched
<1>10. Due(W, G) \subseteq Owed(D, T) => Due(W1, G) \subseteq Owed(D1, T)
  BY <1>5, <1>6
<1> QED BY <1>9, <1>10 DEF W1, D1

\* A request is written, after all others, and reaches the Assembler's end or not.
LEMMA MatchedWrite ==
    ASSUME NEW W \in Seq(Requests), NEW G \in Seq(Requests), NEW D \in Seq(Requests),
           NEW T \in Seq(Requests), NEW t \in [Requests -> Nat], Matched(W, G, D, T, t),
           NEW r \in Requests,
           \A x \in Range(W) \cup Range(G) \cup Range(D) \cup Range(T) : t[x] < t[r]
    PROVE  /\ Matched(W, Append(G, r), D, T, t)
           /\ Due(W, G) \subseteq Owed(D, T) =>
                 /\ Matched(W, Append(G, r), D, Append(T, r), t)
                 /\ Due(W, Append(G, r)) \subseteq Owed(D, Append(T, r))
<1> DEFINE G1 == Append(G, r)   T1 == Append(T, r)
<1>1. Range(G1) = Range(G) \cup {r} /\ Range(T1) = Range(T) \cup {r}
  BY More
<1>2. Rising(G1, t) /\ Earlier(W, G1, t) /\ Rising(T1, t) /\ Earlier(D, T1, t)
  <2>1. /\ \A i \in 1..Len(W) : t[W[i]] < t[r]
        /\ \A i \in 1..Len(G) : t[G[i]] < t[r]
        /\ \A i \in 1..Len(D) : t[D[i]] < t[r]
        /\ \A i \in 1..Len(T) : t[T[i]] < t[r]
    BY Members
  <2> QED BY <2>1, MoreRises, MoreEarlier DEF Matched
<1> HIDE DEF G1, T1
<1>3. Matched(W, G1, D, T, t)
  <2>1. Owed(D, T) \subseteq Due(W, G1)
    BY <1>1 DEF Matched, Due
  <2>2. ASSUME NEW x \in Due(W, G1), NEW y \in Owed(D, T), t[x] <= t[y] PROVE x \in Owed(D, T)
    <3>1. t[y] < t[r] /\ t[y] \in Nat /\ t[r] \in Nat
      BY <2>2, Members DEF Owed
    <3>2. x # r
      BY <2>2, <3>1
    <3> QED BY <1>1, <2>2, <3>2 DEF Matched, Due
  <2> QED BY <1>2, <2>1, <2>2 DEF Matched
<1>4. ASSUME Due(W, G) \subseteq Owed(D, T)
      PROVE  Matched(W, G1, D, T1, t) /\ Due(W, G1) \subseteq Owed(D, T1)
  <2>1. Due(W, G1) \subseteq Owed(D, T1) /\ Owed(D, T1) \subseteq Due(W, G1)
    BY <1>1, <1>4 DEF Matched, Due, Owed
  <2> QED BY <1>2, <2>1 DEF Matched
<1> QED BY <1>3, <1>4 DEF G1, T1

-----------------------------------------------------------------------------
(* The inductive invariant for OwnReply.                                   *)

\* The requests that frames reply to.
To(fs) == [i \in DOMAIN fs |-> fs[i].to]
Delivered == To(buffer \o wire)

\* Nobody will be given a verdict any more: the reader is closed, or stands at a bad
\* frame, or the socket is gone and with it every write that might have gone on to read.
Dead == \/ closed
        \/ Len(buffer) = 1 /\ HasBad(buffer)
        \/ destroyed /\ \A r \in Requests : pc[r] # "sent"

\* t numbers the requests as they were written, n of them; as long as all goes well,
\* everybody who waits or will is owed a reply.
InOrder(t, n) ==
    /\ \A r \in Requests : pc[r] # "new" => t[r] < n
    /\ \A r \in Range(waiters) \cup Range(writing) \cup Range(Delivered) \cup Range(toAsm) : pc[r] # "new"
    /\ Matched(waiters, writing, Delivered, toAsm, t)
    /\ asmUp /\ ~destroyed => Due(waiters, writing) \subseteq Owed(Delivered, toAsm)

\* A bad frame is the last of its connection.
EndsBad(b, w, up) ==
    /\ \A i \in 1..Len(b) : b[i].kind = "bad" => i = Len(b) /\ w = <<>> /\ ~up
    /\ \A i \in 1..Len(w) : w[i].kind = "bad" => i = Len(w) /\ ~up

OrderInv ==
    /\ OwnReply
    /\ EndsBad(buffer, wire, asmUp)
    /\ Dead \/ \E t \in [Requests -> Nat], n \in Nat : InOrder(t, n)

-----------------------------------------------------------------------------
(* Frames.                                                                 *)

LEMMA ToOf == ASSUME NEW fs \in Seq(Frames)
    PROVE  /\ To(fs) \in Seq(Requests) /\ Len(To(fs)) = Len(fs)
           /\ \A i \in 1..Len(fs) : To(fs)[i] = fs[i].to
<1>1. Len(fs) \in Nat /\ DOMAIN fs = 1..Len(fs) /\ \A i \in 1..Len(fs) : fs[i] \in Frames
  BY Members
<1>2. To(fs) \in [1..Len(fs) -> Requests] /\ \A i \in 1..Len(fs) : To(fs)[i] = fs[i].to
  BY <1>1 DEF To, Frames
<1>3. To(fs) \in Seq(Requests)
  BY <1>1, <1>2, SeqDef
<1>4. Len(To(fs)) \in Nat /\ DOMAIN To(fs) = 1..Len(To(fs)) /\ DOMAIN To(fs) = 1..Len(fs)
  BY <1>2, <1>3, Members
<1>5. Len(To(fs)) = Len(fs)
  <2> HIDE DEF To
  <2>1. ASSUME NEW m \in Nat, NEW l \in Nat, 1..m = 1..l PROVE m = l
    BY <2>1
  <2> QED BY <1>1, <1>4, <2>1
<1> QED BY <1>2, <1>3, <1>5

\* Frames without their first k, whether they are received or not.
LEMMA ToRest == ASSUME NEW b \in Seq(Frames), NEW w \in Seq(Frames), NEW k \in Nat, k <= Len(b)
    PROVE  To(SubSeq(b, k + 1, Len(b)) \o w) = SubSeq(To(b \o w), k + 1, Len(To(b \o w)))
<1> DEFINE b1 == SubSeq(b, k + 1, Len(b))   d == To(b \o w)   d1 == To(b1 \o w)
           d2 == SubSeq(d, k + 1, Len(d))
<1>1. /\ Len(b) \in Nat /\ Len(w) \in Nat /\ b1 \in Seq(Frames) /\ Len(b1) = Len(b) - k
      /\ \A i \in 1..(Len(b) - k) : b1[i] = b[i + k]
  BY Members, Suffix
<1>2. /\ b \o w \in Seq(Frames) /\ Len(b \o w) = Len(b) + Len(w)
      /\ \A i \in 1..(Len(b) + Len(w)) : (b \o w)[i] = IF i <= Len(b) THEN b[i] ELSE w[i - Len(b)]
  BY ConcatProperties
<1> HIDE DEF b1
<1>3. /\ b1 \o w \in Seq(Frames) /\ Len(b1 \o w) = Len(b1) + Len(w)
      /\ \A i \in 1..(Len(b1) + Len(w)) : (b1 \o w)[i] = IF i <= Len(b1) THEN b1[i] ELSE w[i - Len(b1)]
  BY <1>1, ConcatProperties
<1>4. /\ d \in Seq(Requests) /\ Len(d) = Len(b) + Len(w)
      /\ \A i \in 1..(Len(b) + Len(w)) : d[i] = (b \o w)[i].to
  BY <1>2, ToOf
<1>5. /\ d1 \in Seq(Requests) /\ Len(d1) = Len(b1) + Len(w)
      /\ \A i \in 1..(Len(b1) + Len(w)) : d1[i] = (b1 \o w)[i].to
  BY <1>3, ToOf
<1> HIDE DEF d, d1
<1>6. /\ d2 \in Seq(Requests) /\ Len(d2) = Len(d) - k
      /\ \A i \in 1..(Len(d) - k) : d2[i] = d[i + k]
  BY <1>1, <1>4, Suffix
<1> HIDE DEF d2
<1>7. Len(d1) = Len(d2)
  BY <1>1, <1>4, <1>5, <1>6
<1>8. ASSUME NEW i \in 1..Len(d1) PROVE d1[i] = d2[i]
  <2>1. i \in 1..(Len(b1) + Len(w)) /\ i \in 1..(Len(d) - k) /\ i + k \in 1..(Len(b) + Len(w))
    BY <1>1, <1>4, <1>5
  <2>2. d1[i] = (b1 \o w)[i].to /\ d2[i] = (b \o w)[i + k].to
    BY <1>4, <1>5, <1>6, <2>1
  <2>3. CASE i <= Len(b1)
    <3>1. (b1 \o w)[i] = b1[i] /\ b1[i] = b[i + k] /\ (b \o w)[i + k] = b[i + k]
      BY <1>1, <1>2, <1>3, <2>1, <2>3
    <3> QED BY <2>2, <3>1
  <2>4. CASE ~(i <= Len(b1))
    <3>1. (b1 \o w)[i] = w[i - Len(b1)]
      BY <1>3, <2>1, <2>4
    <3>3. ~(i + k <= Len(b))
      BY <1>1, <2>4
    <3>4. (b \o w)[i + k] = w[(i + k) - Len(b)]
      BY <1>2, <2>1, <3>3
    <3>2. i - Len(b1) = (i + k) - Len(b)
      BY <1>1
    <3> QED BY <2>2, <3>1, <3>2, <3>4
  <2> QED BY <2>3, <2>4
<1>9. d1 = d2
  BY <1>5, <1>6, <1>7, <1>8, SeqEqual
<1> QED BY <1>9 DEF d1, d2, b1, d

\* What n frames more in the buffer are n frames fewer on the wire.
LEMMA Received == ASSUME NEW b \in Seq(Frames), NEW w \in Seq(Frames), NEW n \in 1..Len(w)
    PROVE  /\ SubSeq(w, 1, n) \in Seq(Frames) /\ SubSeq(w, n + 1, Len(w)) \in Seq(Frames)
           /\ (b \o SubSeq(w, 1, n)) \o SubSeq(w, n + 1, Len(w)) = b \o w
<1>1. Len(w) \in Nat /\ n \in Nat /\ \A i \in 1..Len(w) : w[i] \in Frames
  BY Members
<1>2. SubSeq(w, 1, n) \in Seq(Frames)
  BY <1>1, SubSeqProperties
<1>3. SubSeq(w, n + 1, Len(w)) \in Seq(Frames)
  BY <1>1, Suffix
<1>4. SubSeq(w, 1, n) \o SubSeq(w, n + 1, Len(w)) = SubSeq(w, 1, Len(w))
  <2>1. 1 \in 1..(Len(w) + 1) /\ n \in (1 - 1)..Len(w) /\ Len(w) \in n..Len(w)
    BY <1>1
  <2> QED BY <2>1, ConcatAdjacentSubSeq
<1>5. SubSeq(w, 1, Len(w)) = w
  BY SubSeqFull
<1>6. (b \o SubSeq(w, 1, n)) \o SubSeq(w, n + 1, Len(w)) = b \o (SubSeq(w, 1, n) \o SubSeq(w, n + 1, Len(w)))
  <2>1. ASSUME NEW c \in Seq(Frames), NEW u \in Seq(Frames) PROVE (b \o c) \o u = b \o (c \o u)
    BY ConcatAssociative, SMTT(30)
  <2> QED BY <1>2, <1>3, <2>1, Zenon
<1> QED BY <1>2, <1>3, <1>4, <1>5, <1>6

\* What is left of a buffer, what a chunk makes of it, and what a step of the Assembler
\* makes of the wire, end as they did.
LEMMA EndsBadRest == ASSUME NEW b, NEW w, NEW up, EndsBad(b, w, up), NEW b1, NEW k, IsRest(b1, b, k)
    PROVE  EndsBad(b1, w, up)
<1>1. ASSUME NEW i \in 1..Len(b1), b1[i].kind = "bad" PROVE i = Len(b1) /\ w = <<>> /\ ~up
  <2>1. i + k \in 1..Len(b) /\ b1[i] = b[i + k]
    BY RestAt
  <2>2. i + k = Len(b) /\ w = <<>> /\ ~up
    BY <1>1, <2>1 DEF EndsBad
  <2>3. Len(b1) = Len(b) - k /\ k \in Nat /\ Len(b) \in Nat
    BY DEF IsRest
  <2>4. i \in Int
    OBVIOUS
  <2> QED BY <2>2, <2>3, <2>4
<1> QED BY <1>1 DEF EndsBad

LEMMA EndsBadData == ASSUME NEW b \in Seq(Frames), NEW w \in Seq(Frames), NEW up, EndsBad(b, w, up),
                            NEW n \in 1..Len(w)
    PROVE  EndsBad(b \o SubSeq(w, 1, n), SubSeq(w, n + 1, Len(w)), up)
<1> DEFINE c == SubSeq(w, 1, n)   u == SubSeq(w, n + 1, Len(w))
<1>1. Len(b) \in Nat /\ Len(w) \in Nat /\ n \in Nat /\ n <= Len(w) /\ n # 0 /\ w # <<>>
  BY Members, EmptySeq
<1>2. /\ c \in Seq(Frames) /\ Len(c) = n /\ \A i \in 1..n : c[i] = w[i]
  <2>1. \A i \in 1..n : w[i] \in Frames
    BY <1>1, Members
  <2> QED BY <1>1, <2>1, SubSeqProperties
<1>3. u \in Seq(Frames) /\ IsRest(u, w, n) /\ (n = Len(w) => u = <<>>)
  BY <1>1, SuffixIsRest, SuffixType
<1> HIDE DEF c, u
<1>4. /\ Len(b \o c) = Len(b) + n
      /\ \A i \in 1..(Len(b) + n) : (b \o c)[i] = IF i <= Len(b) THEN b[i] ELSE c[i - Len(b)]
  BY <1>2, ConcatProperties
<1>5. ASSUME NEW i \in 1..Len(b \o c), (b \o c)[i].kind = "bad"
      PROVE  i = Len(b \o c) /\ u = <<>> /\ ~up
  <2>1. ~(i <= Len(b))
    <3> SUFFICES ASSUME i <= Len(b) PROVE FALSE
      OBVIOUS
    <3>1. i \in 1..Len(b) /\ b[i].kind = "bad"
      BY <1>1, <1>4, <1>5
    <3> QED BY <1>1, <3>1 DEF EndsBad
  <2>2. (b \o c)[i] = c[i - Len(b)] /\ i - Len(b) \in 1..n
    BY <1>1, <1>4, <2>1
  <2>3. w[i - Len(b)].kind = "bad" /\ i - Len(b) \in 1..Len(w)
    BY <1>1, <1>2, <1>5, <2>2
  <2>4. i - Len(b) = Len(w) /\ ~up
    BY <2>3 DEF EndsBad
  <2>5. n = Len(w) /\ i = Len(b) + n
    BY <1>1, <2>2, <2>4, SMTT(30)
  <2> QED BY <1>3, <1>4, <2>4, <2>5
<1>6. ASSUME NEW i \in 1..Len(u), u[i].kind = "bad" PROVE i = Len(u) /\ ~up
  <2>1. i + n \in 1..Len(w) /\ u[i] = w[i + n]
    BY <1>3, RestAt
  <2>2. i + n = Len(w) /\ ~up
    BY <1>6, <2>1 DEF EndsBad
  <2>3. Len(u) = Len(w) - n
    BY <1>3 DEF IsRest
  <2>4. i \in Int
    OBVIOUS
  <2> QED BY <1>1, <2>2, <2>3, <2>4
<1> QED BY <1>5, <1>6 DEF EndsBad, c, u

LEMMA EndsBadServe == ASSUME NEW b \in Seq(Frames), NEW w \in Seq(Frames), EndsBad(b, w, TRUE),
                             NEW f \in Frames, NEW up \in BOOLEAN, f.kind = "bad" => ~up
    PROVE  EndsBad(b, w, up) /\ EndsBad(b, Append(w, f), up)
<1>1. /\ \A i \in 1..Len(b) : b[i].kind # "bad"
      /\ \A i \in 1..Len(w) : w[i].kind # "bad"
  BY DEF EndsBad
<1>2. /\ Len(w) \in Nat /\ Len(Append(w, f)) = Len(w) + 1 /\ Append(w, f)[Len(w) + 1] = f
      /\ \A i \in 1..Len(w) : Append(w, f)[i] = w[i]
  BY Members, More
<1>3. ASSUME NEW i \in 1..Len(Append(w, f)), Append(w, f)[i].kind = "bad"
      PROVE  i = Len(Append(w, f)) /\ ~up
  <2>1. i \notin 1..Len(w)
    BY <1>1, <1>2, <1>3
  <2>2. i = Len(w) + 1
    BY <1>2, <2>1
  <2> QED BY <1>2, <1>3, <2>2
<1> QED BY <1>1, <1>3 DEF EndsBad

-----------------------------------------------------------------------------
(* drain, and the steps.                                                   *)

\* What drain gives: the first k waiters get the first k frames, and either nobody
\* else is touched or the reader stands at a bad frame and has rejected the others.
LEMMA DrainGives ==
    ASSUME NEW buf \in Seq(Frames), NEW ws \in Seq(Requests), Drain(buf, ws)
    PROVE  \E k \in Nat :
             /\ k <= Len(ws) /\ k <= Whole(buf) /\ k <= Len(buf)
             /\ buffer' = SubSeq(buf, k + 1, Len(buf))
             /\ \/ waiters' = SubSeq(ws, k + 1, Len(ws))
                \/ HasBad(buf) /\ k = Len(buf) - 1
             /\ \A r \in Requests : outcome'[r] \in {"answered", "unexpected"} =>
                   \/ outcome'[r] = outcome[r] /\ replyTo'[r] = replyTo[r]
                   \/ \E i \in 1..k : ws[i] = r /\ replyTo'[r] = buf[i].to
             /\ \A r \in Requests : \/ pc'[r] = pc[r]
                                    \/ r \in Range(ws) /\ pc'[r] \in {"done", "reading"}
<1> DEFINE taken == IF Whole(buf) < Len(ws) THEN Whole(buf) ELSE Len(ws)
           ended == IF HasBad(buf) THEN Len(ws) ELSE taken
           frame == [i \in 1..ended |-> buf[IF i <= taken THEN i ELSE Len(buf)]]
           Nth(r) == CHOOSE i \in 1..ended : ws[i] = r
           Gets(r) == \E i \in 1..ended : ws[i] = r
<1>1. /\ Len(ws) \in Nat /\ Len(buf) \in Nat
      /\ Whole(buf) \in Nat /\ Whole(buf) <= Len(buf)
      /\ HasBad(buf) => Len(buf) > 0 /\ Whole(buf) = Len(buf) - 1
      /\ ~HasBad(buf) => Whole(buf) = Len(buf)
  <2>1. Len(ws) \in Nat /\ Len(buf) \in Nat
    BY LenProperties
  <2>2. HasBad(buf) => Len(buf) > 0
    BY EmptySeq, <2>1 DEF HasBad
  <2> QED BY <2>1, <2>2 DEF Whole
<1>2. /\ taken \in Nat /\ taken <= Len(buf) /\ taken <= Whole(buf) /\ taken <= Len(ws)
      /\ ended \in Nat /\ ended <= Len(ws)
      /\ ended # taken => HasBad(buf) /\ taken = Len(buf) - 1
  BY <1>1
<1>3. /\ pc' = [r \in Requests |-> IF Gets(r) THEN "done"
                                  ELSE IF \E i \in 1..Len(ws) : ws[i] = r THEN "reading"
                                  ELSE pc[r]]
      /\ outcome' = [r \in Requests |-> IF Gets(r) THEN Reading(frame[Nth(r)]) ELSE outcome[r]]
      /\ replyTo' = [r \in Requests |-> IF Gets(r) THEN frame[Nth(r)].to ELSE replyTo[r]]
      /\ buffer' = SubSeq(buf, taken + 1, Len(buf))
      /\ waiters' = SubSeq(ws, ended + 1, Len(ws))
  BY DEF Drain
<1>4. \A i \in 1..ended : frame[i] = buf[IF i <= taken THEN i ELSE Len(buf)]
  OBVIOUS
<1>5. \A r \in Requests : Gets(r) => Nth(r) \in 1..ended /\ ws[Nth(r)] = r
  BY DEF Nth, Gets
<1> HIDE DEF taken, ended, frame, Nth, Gets
<1>6. ASSUME NEW r \in Requests, outcome'[r] \in {"answered", "unexpected"}
      PROVE  \/ outcome'[r] = outcome[r] /\ replyTo'[r] = replyTo[r]
             \/ \E i \in 1..taken : ws[i] = r /\ replyTo'[r] = buf[i].to
  <2>1. CASE ~Gets(r)
    BY <1>3, <2>1
  <2>2. CASE Gets(r)
    <3>1. /\ Nth(r) \in 1..ended /\ ws[Nth(r)] = r
          /\ outcome'[r] = Reading(frame[Nth(r)]) /\ replyTo'[r] = frame[Nth(r)].to
      BY <1>3, <1>5, <2>2
    <3>2. CASE Nth(r) <= taken
      <4>1. Nth(r) \in 1..taken /\ frame[Nth(r)] = buf[Nth(r)]
        BY <1>2, <1>4, <3>1, <3>2
      <4> QED BY <3>1, <4>1
    <3>3. CASE ~(Nth(r) <= taken)
      <4>1. frame[Nth(r)] = buf[Len(buf)]
        BY <1>4, <3>1, <3>3
      <4>2. HasBad(buf)
        BY <1>2, <3>1, <3>3
      <4>3. Reading(frame[Nth(r)]) = "illegal"
        BY <4>1, <4>2 DEF HasBad, Reading
      <4> QED BY <1>6, <3>1, <4>3
    <3> QED BY <3>2, <3>3
  <2> QED BY <2>1, <2>2
<1>7. ASSUME NEW r \in Requests
      PROVE  pc'[r] = pc[r] \/ (r \in Range(ws) /\ pc'[r] \in {"done", "reading"})
  <2>1. CASE \E i \in 1..Len(ws) : ws[i] = r
    <3>1. r \in Range(ws)
      BY <2>1, Members
    <3> QED BY <1>3, <3>1
  <2>2. CASE ~ \E i \in 1..Len(ws) : ws[i] = r
    <3>1. ~Gets(r)
      BY <1>1, <1>2, <2>2 DEF Gets
    <3> QED BY <1>3, <2>2, <3>1
  <2> QED BY <2>1, <2>2
<1>8. waiters' = SubSeq(ws, taken + 1, Len(ws)) \/ (HasBad(buf) /\ taken = Len(buf) - 1)
  BY <1>2, <1>3
<1> QED BY <1>2, <1>3, <1>6, <1>7, <1>8

\* A reader that stands at a bad frame goes on standing there.
LEMMA SpoiltStays ==
    ASSUME NEW ws \in Seq(Requests), buffer \in Seq(Frames), Len(buffer) = 1, HasBad(buffer),
           Drain(buffer, ws), OwnReply
    PROVE  OwnReply' /\ buffer' = buffer
<1>1. PICK k \in Nat :
             /\ k <= Whole(buffer)
             /\ buffer' = SubSeq(buffer, k + 1, Len(buffer))
             /\ \A r \in Requests : outcome'[r] \in {"answered", "unexpected"} =>
                   \/ outcome'[r] = outcome[r] /\ replyTo'[r] = replyTo[r]
                   \/ \E i \in 1..k : ws[i] = r /\ replyTo'[r] = buffer[i].to
  BY DrainGives
<1>2. k = 0
  BY <1>1 DEF Whole
<1>3. buffer' = buffer
  BY <1>1, <1>2, SubSeqFull
<1> QED BY <1>1, <1>2, <1>3 DEF OwnReply

\* A sequence of one element is not empty.
LEMMA NotEmpty == ASSUME NEW q, Len(q) = 1 PROVE q # <<>>
<1> SUFFICES ASSUME q = <<>> PROVE FALSE
  OBVIOUS
<1>1. Len(<<>>) = 0
  BY EmptySeq
<1>2. Len(q) = Len(<<>>)
  OBVIOUS
<1>3. 0 # 1
  OBVIOUS
<1> QED BY <1>1, <1>2, <1>3, Zenon

\* In order, drain gives each waiter its own reply, and leaves what is left in order.
LEMMA DrainInOrder ==
    ASSUME TypeOK, TypeOK', OwnReply, NEW buf \in Seq(Frames), NEW ws \in Seq(Requests), Drain(buf, ws),
           UNCHANGED <<toAsm, asmUp, destroyed>>,
           NEW t \in [Requests -> Nat], NEW n \in Nat,
           \A r \in Requests : pc[r] # "new" => t[r] < n,
           \A r \in Range(ws) \cup Range(writing') \cup Range(To(buf \o wire')) \cup Range(toAsm) : pc[r] # "new",
           Matched(ws, writing', To(buf \o wire'), toAsm, t),
           asmUp /\ ~destroyed => Due(ws, writing') \subseteq Owed(To(buf \o wire'), toAsm)
    PROVE  OwnReply' /\ (Dead' \/ InOrder(t, n)')
<1> DEFINE d == To(buf \o wire')
<1>1. PICK k \in Nat :
             /\ k <= Len(ws) /\ k <= Whole(buf) /\ k <= Len(buf)
             /\ buffer' = SubSeq(buf, k + 1, Len(buf))
             /\ \/ waiters' = SubSeq(ws, k + 1, Len(ws))
                \/ HasBad(buf) /\ k = Len(buf) - 1
             /\ \A r \in Requests : outcome'[r] \in {"answered", "unexpected"} =>
                   \/ outcome'[r] = outcome[r] /\ replyTo'[r] = replyTo[r]
                   \/ \E i \in 1..k : ws[i] = r /\ replyTo'[r] = buf[i].to
             /\ \A r \in Requests : \/ pc'[r] = pc[r]
                                    \/ r \in Range(ws) /\ pc'[r] \in {"done", "reading"}
  BY DrainGives
<1>2. /\ Len(buf) \in Nat /\ Len(ws) \in Nat /\ wire' \in Seq(Frames) /\ Len(wire') \in Nat
      /\ writing' \in Seq(Requests) /\ toAsm \in Seq(Requests)
  BY Members DEF TypeOK
<1>3. /\ d \in Seq(Requests) /\ Len(d) = Len(buf) + Len(wire')
      /\ \A i \in 1..Len(buf) : d[i] = buf[i].to
  <2>1. /\ buf \o wire' \in Seq(Frames) /\ Len(buf \o wire') = Len(buf) + Len(wire')
        /\ \A i \in 1..Len(buf) : (buf \o wire')[i] = buf[i]
    BY <1>2, ConcatProperties
  <2>2. /\ To(buf \o wire') \in Seq(Requests) /\ Len(To(buf \o wire')) = Len(buf \o wire')
        /\ \A i \in 1..Len(buf \o wire') : To(buf \o wire')[i] = (buf \o wire')[i].to
    BY <2>1, ToOf
  <2>3. ASSUME NEW i \in 1..Len(buf) PROVE i \in 1..Len(buf \o wire')
    BY <1>2, <2>1, <2>3
  <2>4. d = To(buf \o wire')
    OBVIOUS
  <2> HIDE DEF d
  <2>5. ASSUME NEW i \in 1..Len(buf) PROVE d[i] = buf[i].to
    BY <2>1, <2>2, <2>3, <2>4, <2>5, Zenon
  <2> QED BY <2>1, <2>2, <2>4, <2>5
<1>4. \A i \in 1..k : ws[i] = buf[i].to
  <2> SUFFICES ASSUME NEW i \in 1..k PROVE ws[i] = buf[i].to
    OBVIOUS
  <2>1. i \in 1..Len(ws) /\ i <= Len(d) /\ i \in 1..Len(buf)
    BY <1>1, <1>2, <1>3, SMTT(30)
  <2> QED BY <1>3, <2>1 DEF Matched
<1>5. OwnReply'
  <2> SUFFICES ASSUME NEW r \in Requests, outcome'[r] \in {"answered", "unexpected"}
               PROVE  replyTo'[r] = r
    BY DEF OwnReply
  <2>1. CASE outcome'[r] = outcome[r] /\ replyTo'[r] = replyTo[r]
    BY <2>1 DEF OwnReply
  <2>2. CASE \E i \in 1..k : ws[i] = r /\ replyTo'[r] = buf[i].to
    BY <1>4, <2>2
  <2> QED BY <1>1, <2>1, <2>2
<1>6. CASE waiters' = SubSeq(ws, k + 1, Len(ws))
  <2>1. Delivered' = SubSeq(d, k + 1, Len(d))
    BY <1>1, <1>2, ToRest DEF Delivered
  <2> HIDE DEF d
  <2>2. k <= Len(d)
    BY <1>1, <1>2, <1>3
  <2>3. /\ Matched(waiters', writing', Delivered', toAsm, t)
        /\ Due(ws, writing') \subseteq Owed(d, toAsm) =>
              Due(waiters', writing') \subseteq Owed(Delivered', toAsm)
    BY <1>1, <1>2, <1>3, <1>6, <2>1, <2>2, MatchedGive DEF d
  <2>4. Range(waiters') \subseteq Range(ws) /\ Range(Delivered') \subseteq Range(d)
    <3>1. ASSUME NEW s \in Seq(Requests), k <= Len(s)
          PROVE  Range(SubSeq(s, k + 1, Len(s))) \subseteq Range(s)
      <4>1. SubSeq(s, k + 1, Len(s)) \in Seq(Requests) /\ IsRest(SubSeq(s, k + 1, Len(s)), s, k)
        BY <3>1, SuffixIsRest
      <4> SUFFICES ASSUME NEW x \in Range(SubSeq(s, k + 1, Len(s))) PROVE x \in Range(s)
        OBVIOUS
      <4>2. PICK i \in 1..Len(SubSeq(s, k + 1, Len(s))) : SubSeq(s, k + 1, Len(s))[i] = x
        BY <4>1, Members
      <4>3. i + k \in 1..Len(s) /\ s[i + k] = x
        BY <4>1, <4>2, RestAt
      <4> QED BY <4>3, Members
    <3> QED BY <1>1, <1>3, <1>6, <2>1, <2>2, <3>1
  <2>5. \A r \in Range(waiters') \cup Range(writing') \cup Range(Delivered') \cup Range(toAsm) : pc'[r] # "new"
    <3> SUFFICES ASSUME NEW r \in Range(waiters') \cup Range(writing') \cup Range(Delivered') \cup Range(toAsm)
                 PROVE  pc'[r] # "new"
      OBVIOUS
    <3>1. r \in Range(ws) \cup Range(writing') \cup Range(d) \cup Range(toAsm)
      BY <2>4
    <3>2. r \in Requests
      BY <1>2, <1>3, <3>1, Members
    <3>3. pc[r] # "new"
      BY <3>1 DEF d
    <3> QED BY <1>1, <3>2, <3>3
  <2>6. \A r \in Requests : pc'[r] # "new" => t[r] < n
    BY <1>1
  <2>7. asmUp' /\ ~destroyed' => Due(waiters', writing') \subseteq Owed(Delivered', toAsm')
    BY <2>3 DEF d
  <2>8. InOrder(t, n)'
    BY <2>3, <2>5, <2>6, <2>7 DEF InOrder
  <2> QED BY <1>5, <2>8
<1>7. CASE HasBad(buf) /\ k = Len(buf) - 1
  <2>1. /\ buffer' \in Seq(Frames) /\ Len(buffer') = 1 /\ buffer'[1] = buf[Len(buf)]
    <3>1. /\ buffer' \in Seq(Frames) /\ Len(buffer') = Len(buf) - k
          /\ \A i \in 1..(Len(buf) - k) : buffer'[i] = buf[i + k]
      BY <1>1, Suffix
    <3> QED BY <1>2, <1>7, <3>1
  <2>2. HasBad(buffer)'
    <3>1. buffer' # <<>>
      BY <2>1, NotEmpty, Zenon
    <3> QED BY <1>7, <2>1, <3>1 DEF HasBad
  <2> QED BY <1>5, <2>1, <2>2 DEF Dead
<1> QED BY <1>1, <1>6, <1>7

\* What drain leaves of a buffer ends as the buffer did.
LEMMA DrainEnds == ASSUME NEW buf \in Seq(Frames), NEW ws \in Seq(Requests), Drain(buf, ws),
                          NEW w, NEW up, EndsBad(buf, w, up)
    PROVE  EndsBad(buffer', w, up)
<1>1. PICK k \in Nat : k <= Len(buf) /\ buffer' = SubSeq(buf, k + 1, Len(buf))
  BY DrainGives
<1>2. IsRest(buffer', buf, k)
  BY <1>1, SuffixIsRest
<1> QED BY <1>2, EndsBadRest

\* A request that nothing in the queues is gets a number of its own.
LEMMA MatchedSame ==
    ASSUME NEW W \in Seq(Requests), NEW G \in Seq(Requests), NEW D \in Seq(Requests),
           NEW T \in Seq(Requests), NEW t \in [Requests -> Nat], NEW u \in [Requests -> Nat],
           \A x \in Range(W) \cup Range(G) \cup Range(D) \cup Range(T) : u[x] = t[x],
           Matched(W, G, D, T, t)
    PROVE  Matched(W, G, D, T, u)
<1>1. /\ \A i \in 1..Len(W) : u[W[i]] = t[W[i]]
      /\ \A i \in 1..Len(G) : u[G[i]] = t[G[i]]
      /\ \A i \in 1..Len(D) : u[D[i]] = t[D[i]]
      /\ \A i \in 1..Len(T) : u[T[i]] = t[T[i]]
  BY Members
<1>2. Rising(W, u) /\ Rising(G, u) /\ Earlier(W, G, u)
  BY <1>1 DEF Matched, Rising, Earlier
<1>3. Rising(D, u) /\ Rising(T, u) /\ Earlier(D, T, u)
  BY <1>1 DEF Matched, Rising, Earlier
<1>4. \A x \in Due(W, G), y \in Owed(D, T) : u[x] <= u[y] => x \in Owed(D, T)
  <2> SUFFICES ASSUME NEW x \in Due(W, G), NEW y \in Owed(D, T), u[x] <= u[y] PROVE x \in Owed(D, T)
    OBVIOUS
  <2>1. u[x] = t[x] /\ u[y] = t[y]
    BY DEF Due, Owed
  <2> QED BY <2>1 DEF Matched
<1> QED BY <1>2, <1>3, <1>4 DEF Matched

\* A step that leaves the queues alone leaves the order.
LEMMA SameOrder ==
    ASSUME NEW t, NEW n, InOrder(t, n), UNCHANGED <<waiters, writing, buffer, wire, toAsm>>,
           \A r \in Requests : pc'[r] = "new" <=> pc[r] = "new", TypeOK,
           asmUp' /\ ~destroyed' => asmUp /\ ~destroyed
    PROVE  InOrder(t, n)'
<1>1. Delivered' = Delivered
  BY DEF Delivered
<1>2. /\ Range(waiters) \subseteq Requests /\ Range(writing) \subseteq Requests
      /\ Range(toAsm) \subseteq Requests /\ Range(Delivered) \subseteq Requests
  <2>1. buffer \o wire \in Seq(Frames)
    BY ConcatProperties DEF TypeOK
  <2>2. Delivered \in Seq(Requests)
    BY <2>1, ToOf DEF Delivered
  <2> HIDE DEF Delivered
  <2> QED BY <2>2, Members DEF TypeOK
<1> HIDE DEF Delivered
<1> QED BY <1>1, <1>2 DEF InOrder

\* The Assembler sends one more frame.
LEMMA Sent == ASSUME NEW b \in Seq(Frames), NEW w \in Seq(Frames), NEW f \in Frames
    PROVE  To(b \o Append(w, f)) = Append(To(b \o w), f.to)
<1> DEFINE c == b \o w
<1>1. c \in Seq(Frames)
  BY ConcatProperties
<1>2. b \o Append(w, f) = Append(c, f)
  <2>1. Append(w, f) = w \o <<f>> /\ <<f>> \in Seq(Frames)
    BY AppendIsConcat
  <2>2. Append(c, f) = c \o <<f>>
    BY <1>1, AppendIsConcat
  <2>3. ASSUME NEW g \in Seq(Frames) PROVE (b \o w) \o g = b \o (w \o g)
    BY ConcatAssociative
  <2> QED BY <2>1, <2>2, <2>3, Zenon
<1> HIDE DEF c
<1>3. /\ Append(c, f) \in Seq(Frames) /\ Len(Append(c, f)) = Len(c) + 1 /\ Len(c) \in Nat
      /\ Append(c, f)[Len(c) + 1] = f /\ \A i \in 1..Len(c) : Append(c, f)[i] = c[i]
  BY <1>1, More, Members
<1>4. /\ To(c) \in Seq(Requests) /\ Len(To(c)) = Len(c)
      /\ \A i \in 1..Len(c) : To(c)[i] = c[i].to
  BY <1>1, ToOf
<1>5. /\ To(Append(c, f)) \in Seq(Requests) /\ Len(To(Append(c, f))) = Len(c) + 1
      /\ \A i \in 1..(Len(c) + 1) : To(Append(c, f))[i] = Append(c, f)[i].to
  BY <1>3, ToOf
<1>6. f.to \in Requests
  BY DEF Frames
<1> DEFINE x == Append(To(c), f.to)   y == To(Append(c, f))
<1>7. /\ x \in Seq(Requests) /\ Len(x) = Len(c) + 1
      /\ x[Len(c) + 1] = f.to /\ \A i \in 1..Len(c) : x[i] = To(c)[i]
  BY <1>4, <1>6, More
<1>8. y \in Seq(Requests) /\ Len(y) = Len(c) + 1 /\ \A i \in 1..(Len(c) + 1) : y[i] = Append(c, f)[i].to
  BY <1>5
<1> HIDE DEF x, y
<1>9. ASSUME NEW i \in 1..Len(x) PROVE x[i] = y[i]
  <2>1. i \in 1..Len(c) \/ i = Len(c) + 1
    BY <1>3, <1>7
  <2> QED BY <1>3, <1>4, <1>7, <1>8, <2>1
<1>10. x = y
  BY <1>7, <1>8, <1>9, SeqEqual
<1> QED BY <1>2, <1>10 DEF x, y, c

\* The queues hold requests.
LEMMA Queues == ASSUME TypeOK
    PROVE  /\ waiters \in Seq(Requests) /\ writing \in Seq(Requests) /\ toAsm \in Seq(Requests)
           /\ Delivered \in Seq(Requests) /\ buffer \o wire \in Seq(Frames)
           /\ buffer \in Seq(Frames) /\ wire \in Seq(Frames)
<1>1. buffer \o wire \in Seq(Frames)
  BY ConcatProperties DEF TypeOK
<1>2. Delivered \in Seq(Requests)
  BY <1>1, ToOf DEF Delivered
<1> QED BY <1>1, <1>2 DEF TypeOK

\* A call whose write is done reads.
LEMMA ReadInOrder == ASSUME TypeOK, TypeOK', OrderInv, NEW r \in Requests, r \notin Answers, WriteDone(r)
    PROVE  OrderInv'
<1>1. /\ Callback(r) /\ pc[r] = "sent" /\ Read(r)
      /\ UNCHANGED <<toAsm, asmUp, destroyed, wire>>
  BY DEF WriteDone, sockVars
<1>2. CASE closed
  <2>1. closed' /\ buffer' = buffer
    BY <1>1, <1>2 DEF Read, readerVars
  <2>2. OwnReply'
    BY <1>1, <1>2 DEF Read, Finish, OwnReply, OrderInv, TypeOK
  <2> QED BY <1>1, <2>1, <2>2 DEF OrderInv, Dead
<1>3. CASE ~closed
  <2> DEFINE ws == Enqueue(r)
  <2>1. Drain(buffer, ws) /\ r = Head(writing) /\ writing # <<>> /\ writing' = Tail(writing)
    BY <1>1, <1>3 DEF Read, Await, Callback
  <2>2. ws = Append(waiters, r)
    BY DEF Enqueue
  <2>3. ws \in Seq(Requests) /\ buffer \in Seq(Frames) /\ Range(ws) = Range(waiters) \cup {r}
    BY <2>2, Queues, More
  <2> HIDE DEF ws
  <2>4. EndsBad(buffer, wire, asmUp)'
    BY <1>1, <2>1, <2>3, DrainEnds DEF OrderInv
  <2>5. CASE Dead
    <3>1. Len(buffer) = 1 /\ HasBad(buffer)
      BY <1>1, <1>3, <2>5 DEF Dead
    <3>2. OwnReply' /\ buffer' = buffer
      BY <2>1, <2>3, <3>1, SpoiltStays DEF OrderInv
    <3>3. HasBad(buffer)'
      BY <3>1, <3>2 DEF HasBad
    <3> QED BY <2>4, <3>1, <3>2, <3>3 DEF OrderInv, Dead
  <2>6. CASE ~Dead
    <3>1. PICK t \in [Requests -> Nat], n \in Nat : InOrder(t, n)
      BY <2>6 DEF OrderInv
    <3>2. To(buffer \o wire') = Delivered
      BY <1>1 DEF Delivered
    <3>3. /\ Matched(ws, writing', To(buffer \o wire'), toAsm, t)
          /\ Due(ws, writing') = Due(waiters, writing)
      BY <2>1, <2>2, <3>1, <3>2, Queues, MatchedWait DEF InOrder
    <3>4. Range(writing) = {r} \cup Range(writing')
      BY <2>1, Queues, Rest
    <3>5. \A x \in Range(ws) \cup Range(writing') \cup Range(To(buffer \o wire')) \cup Range(toAsm) : pc[x] # "new"
      BY <2>3, <3>1, <3>2, <3>4 DEF InOrder
    <3>6. asmUp /\ ~destroyed => Due(ws, writing') \subseteq Owed(To(buffer \o wire'), toAsm)
      BY <3>1, <3>2, <3>3 DEF InOrder
    <3>7. \A q \in Requests : pc[q] # "new" => t[q] < n
      BY <3>1 DEF InOrder
    <3>8. OwnReply' /\ (Dead' \/ InOrder(t, n)')
      BY <1>1, <2>1, <2>3, <3>3, <3>5, <3>6, <3>7, DrainInOrder DEF OrderInv
    <3> QED BY <2>4, <3>8 DEF OrderInv
  <2> QED BY <2>5, <2>6
<1> QED BY <1>2, <1>3

\* Frames arrive.
LEMMA DataInOrder == ASSUME TypeOK, TypeOK', OrderInv, NEW n \in 1..Len(wire), OnData(n)
    PROVE  OrderInv'
<1> DEFINE got == buffer \o SubSeq(wire, 1, n)
<1>1. /\ ~destroyed /\ ~closed /\ Drain(got, waiters) /\ wire' = SubSeq(wire, n + 1, Len(wire))
      /\ UNCHANGED <<writing, toAsm, asmUp, destroyed>>
  BY DEF OnData, Connected
<1>2. /\ SubSeq(wire, 1, n) \in Seq(Frames) /\ got \o wire' = buffer \o wire
      /\ EndsBad(got, wire', asmUp)
  BY <1>1, Queues, Received, EndsBadData DEF OrderInv
<1>3. got \in Seq(Frames)
  BY <1>2, Queues, ConcatProperties
<1> HIDE DEF got
<1>4. EndsBad(buffer, wire, asmUp)'
  BY <1>1, <1>2, <1>3, Queues, DrainEnds
<1>5. ~Dead
  <2> SUFFICES ASSUME Len(buffer) = 1, HasBad(buffer) PROVE FALSE
    BY <1>1 DEF Dead
  <2>1. 1 \in 1..Len(buffer) /\ buffer[1].kind = "bad"
    BY DEF HasBad
  <2>2. wire = <<>>
    BY <2>1 DEF OrderInv, EndsBad
  <2> QED BY <2>2
<1>6. PICK t \in [Requests -> Nat], m \in Nat : InOrder(t, m)
  BY <1>5 DEF OrderInv
<1>7. To(got \o wire') = Delivered
  BY <1>2 DEF Delivered
<1>8. OwnReply' /\ (Dead' \/ InOrder(t, m)')
  <2>1. /\ \A r \in Requests : pc[r] # "new" => t[r] < m
        /\ \A r \in Range(waiters) \cup Range(writing') \cup Range(To(got \o wire')) \cup Range(toAsm) : pc[r] # "new"
        /\ Matched(waiters, writing', To(got \o wire'), toAsm, t)
        /\ asmUp /\ ~destroyed => Due(waiters, writing') \subseteq Owed(To(got \o wire'), toAsm)
    BY <1>1, <1>6, <1>7 DEF InOrder
  <2> QED BY <1>1, <1>3, <2>1, Queues, DrainInOrder DEF OrderInv
<1> QED BY <1>4, <1>8 DEF OrderInv

-----------------------------------------------------------------------------
\* At first nothing is written.
LEMMA OrderInit == NodeAssumption /\ Init => OrderInv
<1> SUFFICES ASSUME NodeAssumption, Init PROVE OrderInv
  OBVIOUS
<1> DEFINE t == [r \in Requests |-> 0]
<1>1. waiters = <<>> /\ writing = <<>> /\ buffer = <<>> /\ wire = <<>> /\ toAsm = <<>> /\ TypeOK
  BY NodeInit DEF Init
<1>2. Len(<<>>) = 0 /\ <<>> \in Seq(Frames) /\ <<>> \in Seq(Requests)
  BY EmptySeq
<1>3. Delivered = <<>>
  <2>1. Delivered \in Seq(Requests) /\ Len(Delivered) = 0
    <3>1. buffer \o wire = <<>>
      BY <1>1, <1>2, ConcatEmptySeq
    <3> QED BY <1>2, <3>1, ToOf DEF Delivered
  <2> QED BY <2>1, EmptySeq
<1>4. Range(<<>>) = {}
  <2>1. ASSUME NEW q \in Seq(Requests), Len(q) = 0 PROVE Range(q) = {}
    <3>1. \A x \in Range(q) : \E i \in 1..Len(q) : q[i] = x
      BY Members
    <3> QED BY <2>1, <3>1
  <2> QED BY <1>2, <2>1, Zenon
<1>5. Matched(<<>>, <<>>, <<>>, <<>>, t)
  BY <1>2, <1>4 DEF Matched, Rising, Earlier, Due, Owed
<1>6. t \in [Requests -> Nat]
  OBVIOUS
<1>7. InOrder(t, 0)
  <2> HIDE DEF t, Delivered
  <2>1. Due(<<>>, <<>>) \subseteq Owed(<<>>, <<>>)
    BY <1>4 DEF Due
  <2>2. \A r \in Requests : pc[r] = "new"
    BY DEF Init
  <2> QED BY <1>1, <1>3, <1>4, <1>5, <2>1, <2>2 DEF InOrder
<1>8. OwnReply
  BY DEF Init, OwnReply
<1>9. EndsBad(buffer, wire, asmUp)
  BY <1>1, <1>2 DEF EndsBad
<1> QED BY <1>6, <1>7, <1>8, <1>9 DEF OrderInv

\* A write takes the next number.
LEMMA WriteInOrder == ASSUME TypeOK, TypeOK', OrderInv, NEW r \in Requests, Write(r)
    PROVE  OrderInv'
<1>1. /\ pc[r] = "new" /\ writing' = Append(writing, r)
      /\ UNCHANGED <<outcome, replyTo, buffer, waiters, closed, destroyed, asmUp, wire>>
      /\ IF asmUp /\ ~closed /\ ~destroyed
           THEN pc' = [pc EXCEPT ![r] = "sent"] /\ toAsm' = Append(toAsm, r)
           ELSE pc' = [pc EXCEPT ![r] = "failing"] /\ toAsm' = toAsm
  BY DEF Write, MayWrite, readerVars
<1>2. OwnReply' /\ EndsBad(buffer, wire, asmUp)'
  BY <1>1 DEF OrderInv, OwnReply
<1>3. CASE Dead
  <2>1. Dead'
    BY <1>1, <1>3 DEF Dead, HasBad, TypeOK
  <2> QED BY <1>2, <2>1 DEF OrderInv
<1>4. CASE ~Dead
  <2>1. PICK t \in [Requests -> Nat], n \in Nat : InOrder(t, n)
    BY <1>4 DEF OrderInv
  <2> DEFINE u == [t EXCEPT ![r] = n]
             W == waiters  G == writing  D == Delivered  T == toAsm
             all == Range(W) \cup Range(G) \cup Range(D) \cup Range(T)
  <2>2. W \in Seq(Requests) /\ G \in Seq(Requests) /\ D \in Seq(Requests) /\ T \in Seq(Requests)
    BY Queues
  <2>3. all \subseteq Requests
    BY <2>2, Members
  <2>4. u \in [Requests -> Nat] /\ u[r] = n /\ \A x \in Requests : x # r => u[x] = t[x]
    OBVIOUS
  <2>5. \A x \in all : x # r /\ pc[x] # "new"
    BY <1>1, <2>1 DEF InOrder
  <2>6. \A x \in all : u[x] = t[x] /\ u[x] < u[r]
    BY <2>1, <2>3, <2>4, <2>5 DEF InOrder
  <2>7. Matched(W, G, D, T, t) /\ Delivered' = D
    BY <1>1, <2>1 DEF InOrder, Delivered
  <2> HIDE DEF u, W, G, D, T
  <2>8. Matched(W, G, D, T, u)
    BY <2>2, <2>4, <2>6, <2>7, MatchedSame
  <2>9. /\ Matched(W, Append(G, r), D, T, u)
        /\ Due(W, G) \subseteq Owed(D, T) =>
              /\ Matched(W, Append(G, r), D, Append(T, r), u)
              /\ Due(W, Append(G, r)) \subseteq Owed(D, Append(T, r))
    BY <2>2, <2>4, <2>6, <2>8, MatchedWrite
  <2>10. Range(Append(G, r)) = Range(G) \cup {r} /\ Range(Append(T, r)) = Range(T) \cup {r}
    BY <2>2, More
  <2>11. /\ \A x \in Requests : pc'[x] # "new" => u[x] < n + 1
         /\ \A x \in Requests : pc[x] # "new" => pc'[x] # "new"
         /\ pc'[r] # "new"
    <3>1. \A x \in Requests : (x = r => pc'[x] # "new") /\ (x # r => pc'[x] = pc[x])
      BY <1>1 DEF TypeOK
    <3>2. ASSUME NEW x \in Requests, pc'[x] # "new" PROVE u[x] < n + 1
      <4>1. CASE x = r
        BY <2>4, <4>1
      <4>2. CASE x # r
        <5>1. u[x] = t[x] /\ t[x] < n /\ t[x] \in Nat
          BY <2>1, <2>4, <3>1, <3>2, <4>2 DEF InOrder
        <5> QED BY <5>1
      <4> QED BY <4>1, <4>2
    <3> QED BY <3>1, <3>2
  <2>12. \A x \in Range(W) \cup (Range(G) \cup {r}) \cup Range(D) \cup (Range(T) \cup {r}) : pc'[x] # "new"
    BY <2>3, <2>5, <2>11
  <2>13. asmUp /\ ~destroyed => Due(W, G) \subseteq Owed(D, T)
    BY <2>1 DEF InOrder, W, G, D, T
  <2>14. waiters' = W /\ writing' = Append(G, r)
    BY <1>1 DEF W, G
  <2>15. InOrder(u, n + 1)'
    <3>1. CASE asmUp /\ ~closed /\ ~destroyed
      <4>1. toAsm' = Append(T, r)
        BY <1>1, <3>1 DEF T
      <4> QED BY <1>1, <2>7, <2>9, <2>10, <2>11, <2>12, <2>13, <2>14, <3>1, <4>1 DEF InOrder
    <3>2. CASE ~(asmUp /\ ~closed /\ ~destroyed)
      <4>1. toAsm' = T
        BY <1>1, <3>2 DEF T
      <4>2. ~(asmUp /\ ~destroyed)
        BY <1>4, <3>2 DEF Dead
      <4> QED BY <1>1, <2>7, <2>9, <2>10, <2>11, <2>12, <2>14, <4>1, <4>2 DEF InOrder
    <3> QED BY <3>1, <3>2
  <2> QED BY <1>2, <2>4, <2>15 DEF OrderInv
<1> QED BY <1>3, <1>4

\* The Assembler reads a request.
LEMMA ServeInOrder == ASSUME TypeOK, TypeOK', OrderInv, Serve
    PROVE  OrderInv'
<1> DEFINE r == Head(toAsm)
<1>1. /\ asmUp /\ toAsm # <<>> /\ toAsm' = Tail(toAsm)
      /\ UNCHANGED <<pc, outcome, replyTo, writing, buffer, waiters, closed, destroyed>>
  BY DEF Serve, callVars, readerVars
<1>2. PICK kind \in {"verdict", "junk", "bad"} :
          /\ wire' = IF r \in Answers THEN wire ELSE Append(wire, [to |-> r, kind |-> kind])
          /\ asmUp' = ~(kind = "bad" \/ (OneShot /\ r # Handshake))
  BY DEF Serve
<1>3. r \in Requests /\ Range(toAsm) = {r} \cup Range(toAsm')
  BY <1>1, Queues, Rest
<1> DEFINE f == [to |-> r, kind |-> kind]
<1>4. f \in Frames /\ f.to = r /\ f.kind = kind
  BY <1>3 DEF Frames
<1> HIDE DEF r, f
<1>5. wire' = IF r \in Answers THEN wire ELSE Append(wire, f)
  BY <1>2 DEF f
<1>6. OwnReply' /\ EndsBad(buffer, wire, asmUp)'
  <2>1. asmUp' \in BOOLEAN /\ (f.kind = "bad" => ~asmUp') /\ EndsBad(buffer, wire, TRUE)
    BY <1>1, <1>2, <1>4 DEF TypeOK, OrderInv
  <2>2. EndsBad(buffer, wire, asmUp') /\ EndsBad(buffer, Append(wire, f), asmUp')
    BY <1>4, <2>1, Queues, EndsBadServe
  <2> QED BY <1>1, <1>5, <2>2 DEF OrderInv, OwnReply
<1>7. CASE Dead
  BY <1>1, <1>6, <1>7 DEF OrderInv, Dead, HasBad
<1>8. CASE ~Dead
  <2>1. PICK t \in [Requests -> Nat], n \in Nat : InOrder(t, n)
    BY <1>8 DEF OrderInv
  <2>2. /\ Matched(waiters, writing, Delivered', toAsm', t)
        /\ Owed(Delivered', toAsm') = Owed(Delivered, toAsm)
        /\ Range(Delivered') \subseteq Range(Delivered) \cup {r}
    <3>1. CASE r \in Answers
      <4>1. Delivered' = Delivered
        BY <1>1, <1>5, <3>1 DEF Delivered
      <4> QED BY <1>1, <2>1, <3>1, <4>1, Queues, MatchedAnswer DEF InOrder, r
    <3>2. CASE r \notin Answers
      <4>1. Delivered' = Append(Delivered, r)
        BY <1>1, <1>4, <1>5, <3>2, Queues, Sent DEF Delivered
      <4>2. Range(Append(Delivered, r)) = Range(Delivered) \cup {r}
        BY <1>3, Queues, More
      <4> QED BY <1>1, <2>1, <3>2, <4>1, <4>2, Queues, MatchedServe DEF InOrder, r
    <3> QED BY <3>1, <3>2
  <2>3. InOrder(t, n)'
    BY <1>1, <1>3, <2>1, <2>2 DEF InOrder
  <2> QED BY <1>6, <2>3 DEF OrderInv
<1> QED BY <1>7, <1>8

\* The reader is closed: whoever waited is told so.
LEMMA ClosedInOrder == ASSUME TypeOK, OrderInv, CloseReader,
                              wire' = wire \/ (wire' = <<>> /\ ~asmUp), asmUp' = asmUp
    PROVE  OrderInv'
<1>1. /\ closed' /\ buffer' = buffer /\ replyTo' = replyTo
      /\ \A r \in Requests : outcome'[r] \in {"answered", "unexpected"} => outcome'[r] = outcome[r]
  BY DEF CloseReader, RejectWaiters, Reject
<1>2. OwnReply'
  BY <1>1 DEF OrderInv, OwnReply
<1>3. EndsBad(buffer, wire, asmUp)'
  <2>1. Len(<<>>) = 0
    BY EmptySeq
  <2>2. CASE wire' = wire
    BY <1>1, <2>2 DEF OrderInv
  <2>3. CASE wire' = <<>> /\ ~asmUp
    BY <1>1, <2>1, <2>3 DEF OrderInv, EndsBad
  <2> QED BY <2>2, <2>3
<1> QED BY <1>1, <1>2, <1>3 DEF OrderInv, Dead

\* A step that leaves requests and queues alone, and opens nothing that was shut.
LEMMA IdleInOrder == ASSUME TypeOK, OrderInv,
                            UNCHANGED <<pc, outcome, replyTo, writing, buffer, waiters, closed, toAsm, wire>>,
                            asmUp' => asmUp, destroyed => destroyed'
    PROVE  OrderInv'
<1>1. OwnReply' /\ EndsBad(buffer, wire, asmUp)'
  BY DEF OrderInv, OwnReply, EndsBad
<1>2. CASE Dead
  BY <1>1, <1>2 DEF OrderInv, Dead, HasBad
<1>3. CASE ~Dead
  <2>1. PICK t \in [Requests -> Nat], n \in Nat : InOrder(t, n)
    BY <1>3 DEF OrderInv
  <2>2. InOrder(t, n)'
    BY <2>1, SameOrder
  <2> QED BY <1>1, <2>2 DEF OrderInv
<1> QED BY <1>2, <1>3

\* Every step keeps the order.
LEMMA OrderStep == NodeAssumption /\ TypeOK /\ NoLostWakeup /\ OrderInv /\ [Next]_vars => OrderInv'
<1> SUFFICES ASSUME NodeAssumption, TypeOK, NoLostWakeup, OrderInv, [Next]_vars PROVE OrderInv'
  OBVIOUS
<1>0. TypeOK'
  BY NodeStep
<1>1. ASSUME Connect \/ Close \/ HandshakeSettled \/ AssemblerGoes \/ UNCHANGED vars PROVE OrderInv'
  <2>1. /\ UNCHANGED <<pc, outcome, replyTo, writing, buffer, waiters, closed, toAsm, wire>>
        /\ asmUp' => asmUp /\ (destroyed => destroyed')
    BY <1>1 DEF Connect, Close, HandshakeSettled, AssemblerGoes, vars, callVars, readerVars, sockVars
  <2>2. destroyed => destroyed'
    BY <1>1 DEF Connect, Close, HandshakeSettled, AssemblerGoes, vars, callVars, readerVars, sockVars
  <2> QED BY <2>1, <2>2, IdleInOrder
<1>2. ASSUME NEW r \in Requests, Write(r) PROVE OrderInv'
  BY <1>0, <1>2, WriteInOrder
<1>3. ASSUME NEW r \in Requests, WriteDone(r), r \in Answers PROVE OrderInv'
  <2>1. /\ r = Head(writing) /\ writing # <<>> /\ writing' = Tail(writing) /\ pc[r] = "sent"
        /\ pc' = [pc EXCEPT ![r] = "done"] /\ outcome' = [outcome EXCEPT ![r] = "written"]
        /\ UNCHANGED <<replyTo, buffer, waiters, closed, destroyed, asmUp, toAsm, wire>>
    BY <1>3 DEF WriteDone, Callback, Finish, readerVars, sockVars
  <2>2. OwnReply' /\ EndsBad(buffer, wire, asmUp)'
    BY <2>1 DEF OrderInv, OwnReply, TypeOK
  <2>3. \A x \in Requests : pc'[x] = pc[x] \/ pc'[x] = "done"
    BY <2>1 DEF TypeOK
  <2>4. CASE Dead
    BY <2>1, <2>2, <2>3, <2>4 DEF OrderInv, Dead, HasBad
  <2>5. CASE ~Dead
    <3>1. PICK t \in [Requests -> Nat], n \in Nat : InOrder(t, n)
      BY <2>5 DEF OrderInv
    <3>2. Delivered' = Delivered
      BY <2>1 DEF Delivered
    <3>3. /\ Matched(waiters, writing', Delivered, toAsm, t)
          /\ Due(waiters, writing') = Due(waiters, writing)
      BY <1>3, <2>1, <3>1, Queues, MatchedAnswer DEF InOrder
    <3>4. Range(writing) = {r} \cup Range(writing')
      BY <2>1, Queues, Rest
    <3>5. /\ \A x \in Requests : pc[x] # "new" => pc'[x] # "new"
          /\ \A x \in Requests : pc'[x] # "new" => t[x] < n
      BY <2>1, <2>3, <3>1 DEF InOrder
    <3>6. \A x \in Range(waiters) \cup Range(writing) \cup Range(Delivered) \cup Range(toAsm) : x \in Requests
      BY Queues, Members
    <3> HIDE DEF Delivered
    <3>7. InOrder(t, n)'
      BY <2>1, <3>1, <3>2, <3>3, <3>4, <3>5, <3>6 DEF InOrder
    <3> QED BY <2>2, <3>7 DEF OrderInv
  <2> QED BY <2>4, <2>5
<1>4. ASSUME NEW r \in Requests, WriteDone(r), r \notin Answers PROVE OrderInv'
  BY <1>0, <1>4, ReadInOrder
<1>5. ASSUME NEW r \in Requests, WriteFails(r) PROVE OrderInv'
  <2>1. /\ destroyed' = TRUE /\ outcome' = [outcome EXCEPT ![r] = "write_failed"]
        /\ \A q \in Requests : pc'[q] # "sent"
        /\ UNCHANGED <<replyTo, buffer, asmUp, wire>>
    BY <1>5 DEF WriteFails, readerVars
  <2> QED BY <2>1 DEF OrderInv, OwnReply, Dead, TypeOK
<1>6. ASSUME NEW n \in 1..Len(wire), OnData(n) PROVE OrderInv'
  BY <1>0, <1>6, DataInOrder
<1>7. ASSUME OnEnd \/ OnError \/ OnClose PROVE OrderInv'
  <2>1. CloseReader /\ asmUp' = asmUp /\ (wire' = wire \/ (wire' = <<>> /\ ~asmUp))
    BY <1>7 DEF OnEnd, OnError, OnClose, sockVars
  <2> QED BY <2>1, ClosedInOrder
<1>8. ASSUME Serve PROVE OrderInv'
  BY <1>0, <1>8, ServeInOrder
<1>9. Handshake \in Requests /\ Calls \cup Answers \subseteq Requests
  BY DEF Requests
<1> QED BY <1>1, <1>2, <1>3, <1>4, <1>5, <1>6, <1>7, <1>8, <1>9 DEF Next, LoopStep

-----------------------------------------------------------------------------
\* The Node client's state is well typed: whatever the length field of a frame says, a
\* read ends in one of the ways the code knows.
THEOREM TypeCorrect == Spec => []TypeOK
<1>1. Init => TypeOK /\ NoLostWakeup
  BY NodeInit, NodeAssumption
<1>2. (TypeOK /\ NoLostWakeup) /\ [Next]_vars => (TypeOK /\ NoLostWakeup)'
  BY NodeStep, NodeAssumption
<1> QED BY <1>1, <1>2, PTL DEF Spec

\* FrameReader: no promise waits beside a complete frame or on a closed reader, for any
\* number of calls that are not awaited one by one.
THEOREM NoLostWakeupCorrect == Spec => []NoLostWakeup
<1>1. Init => TypeOK /\ NoLostWakeup
  BY NodeInit, NodeAssumption
<1>2. (TypeOK /\ NoLostWakeup) /\ [Next]_vars => (TypeOK /\ NoLostWakeup)'
  BY NodeStep, NodeAssumption
<1> QED BY <1>1, <1>2, PTL DEF Spec

\* invoke: a call that is given a verdict, or a frame of another type, is given the reply to
\* its own request, though replies carry no name and nothing but their order says whose
\* they are, for any number of calls and clarification answers that are not awaited one
\* by one, whenever the Assembler, the socket or a bad frame ends it.
THEOREM OwnReplyCorrect == Spec => []OwnReply
<1> DEFINE IInv == TypeOK /\ NoLostWakeup /\ OrderInv
<1>1. Init => IInv
  BY NodeInit, OrderInit, NodeAssumption
<1>2. IInv /\ [Next]_vars => IInv'
  BY NodeStep, OrderStep, NodeAssumption
<1>3. IInv => OwnReply
  BY DEF OrderInv
<1> HIDE DEF IInv
<1> QED BY <1>1, <1>2, <1>3, PTL DEF Spec
=============================================================================
