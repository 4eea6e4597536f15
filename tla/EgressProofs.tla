---------------------------- MODULE EgressProofs ----------------------------
(***************************************************************************)
(* Proofs about Egress, for any number of dials and clients, any scripts   *)
(* of the broker and any number of relayed bytes.                          *)
(***************************************************************************)
EXTENDS Egress, TLAPS

-----------------------------------------------------------------------------
(* The inductive invariant.                                                *)

\* How many bytes the reads before the current step have taken.
Base(d) == CASE pc[d] \in {"ask", "header"} -> 2
             [] pc[d] = "namelen"           -> 6
             [] pc[d] = "trailer"           -> IF script[d].atyp = "name" THEN 7 ELSE 6
             [] pc[d] = "done"              -> ReplyLen(script[d])
             [] OTHER                       -> 0

\* Where a dial stands in the broker's bytes.
PositionInv(d) ==
    /\ read[d] <= sent[d]
    /\ pc[d] # "failed" => read[d] = Base(d) + got[d]
    /\ pc[d] \notin Reads \cup {"failed"} => got[d] = 0
    /\ pc[d] \in Reads => got[d] <= Need(d)
    /\ pc[d] \in {"new", "connect", "greet"} => sent[d] = 0

\* What the checks have let pass.
CheckedInv(d) ==
    /\ pc[d] \in {"ask", "header", "namelen", "trailer", "done"} => script[d].method
    /\ pc[d] \in {"namelen", "trailer", "done"} => HeaderFault(script[d]) = "none"
    /\ pc[d] = "namelen" => script[d].atyp = "name"

\* How a dial ended, and of what that is the sign.
OutcomeInv(d) ==
    /\ pc[d] \in Dialling \cup {"new"} => outcome[d] = "none"
    /\ pc[d] = "done" => outcome[d] = "connected"
    /\ outcome[d] = "connected" => pc[d] = "done"
    /\ outcome[d] \in {"denied", "unreachable"} => script[d].rep = outcome[d] /\ read[d] >= 6
    /\ outcome[d] = "peer_cred" => sent[d] = 0

\* The stream of a dial, by where the dial and its request are.
StreamInv(d) ==
    /\ pc[d] = "new" => stream[d] = "none"
    /\ pc[d] \in Dialling \ {"connect"} => stream[d] = "open"
    /\ pc[d] = "done" => (stream[d] = "open" <=> result[d] = "none") /\ stream[d] # "none"
    /\ pc[d] = "failed" => stream[d] # "open"

\* A dial belongs to a request, which belongs to a client that was built.
RequestInv(d) ==
    /\ via[d] = NoClient => pc[d] = "new" /\ result[d] = "none"
    /\ pc[d] # "new" => /\ via[d] \in Clients
                        /\ client[via[d]] # NoClient
                        /\ to[d] = client[via[d]].path
    /\ pc[d] \in Dialling \cup {"failed"} => result[d] = "none"
    /\ result[d] # "bypassed"

DialInv(d) == PositionInv(d) /\ CheckedInv(d) /\ OutcomeInv(d) /\ StreamInv(d) /\ RequestInv(d)

EgressInv == TypeOK /\ \A d \in Dials : DialInv(d)

-----------------------------------------------------------------------------
(* The operators on scripts and bytes.                                     *)

\* The bound address and the port have at least a length, and the replies have the
\* length of what is read of them.
LEMMA Lengths ==
    ASSUME NEW s \in Script
    PROVE  /\ TrailerLen(s) \in Nat
           /\ s.atyp = "name" => 7 + TrailerLen(s) = ReplyLen(s)
           /\ s.atyp \in {"v4", "v6"} => 6 + TrailerLen(s) = ReplyLen(s)
<1>1. s.len \in Nat /\ s.atyp \in Atyps
  BY DEF Script
<1> QED BY <1>1 DEF TrailerLen, ReplyLen, Atyps

\* A reply whose header has no fault is a success, with an address that can be read.
LEMMA HeaderPassed ==
    ASSUME NEW s \in Script, HeaderFault(s) = "none"
    PROVE  s.version /\ s.rep = "ok" /\ s.atyp \in {"v4", "v6", "name"}
<1>1. s.atyp \in Atyps /\ s.rep \in Reps /\ s.version \in BOOLEAN
  BY DEF Script
<1> QED BY <1>1 DEF HeaderFault, Atyps, Reps

\* A fault of a header is one of three errors, and names the reply code if it has one.
LEMMA HeaderFaults ==
    ASSUME NEW s \in Script
    PROVE  /\ HeaderFault(s) \in {"none", "protocol", "denied", "unreachable"}
           /\ HeaderFault(s) \in {"denied", "unreachable"} => s.rep = HeaderFault(s)
<1>1. s.atyp \in Atyps /\ s.rep \in Reps /\ s.version \in BOOLEAN
  BY DEF Script
<1> QED BY <1>1 DEF HeaderFault, Atyps, Reps

\* A read takes at least one byte and never more than it wants, nor than are there.
LEMMA ChunkBounds ==
    ASSUME EgressAssumption, SocksAssumption, TypeOK, NEW d \in Dials, PositionInv(d), Arrived(d)
    PROVE  /\ Need(d) \in Nat
           /\ Chunk(d) \in Nat
           /\ got[d] + Chunk(d) <= Need(d)
           /\ read[d] + Chunk(d) <= sent[d]
<1>1. script[d] \in Script /\ got[d] \in Nat /\ read[d] \in Nat /\ sent[d] \in Nat
  BY DEF TypeOK, SocksTypeOK, SocksAssumption
<1>2. TrailerLen(script[d]) \in Nat
  BY <1>1, Lengths
<1>3. Need(d) \in Nat
  BY <1>2 DEF Need
<1>4. got[d] <= Need(d) /\ read[d] < sent[d]
  BY <1>1 DEF Arrived, PositionInv
<1> QED BY <1>1, <1>3, <1>4 DEF Chunk

-----------------------------------------------------------------------------
(* Initial states.                                                         *)

LEMMA EgressInit == EgressAssumption /\ SocksAssumption /\ Init => EgressInv
<1> SUFFICES ASSUME EgressAssumption, SocksAssumption, Init PROVE EgressInv
  OBVIOUS
<1>1. (CHOOSE s \in Scripts : TRUE) \in Scripts
  BY DEF SocksAssumption
<1>2. SocksTypeOK
  BY <1>1 DEF Init, SocksInit, SocksTypeOK
<1>3. TypeOK
  <2>0. proxied \in BOOLEAN
    BY Zenon DEF Init
  <2>1. changes \in 0..MaxChanges /\ sockets \subseteq Paths
    BY DEF Init, EgressAssumption
  <2>2. env \in [{"socket", "dir"} -> MaybePath]
    BY DEF Init, EgressAssumption
  <2>3. /\ client \in [Clients -> Built \cup {NoClient}] /\ via \in [Dials -> Clients \cup {NoClient}]
        /\ to \in [Dials -> MaybePath]
        /\ result \in [Dials -> {"none", "refused", "bypassed", "response", "error"}]
    BY DEF Init, MaybePath
  <2> QED BY <1>2, <2>0, <2>1, <2>2, <2>3 DEF TypeOK
<1>4. ASSUME NEW d \in Dials PROVE DialInv(d)
  BY DEF Init, SocksInit, DialInv, PositionInv, CheckedInv, OutcomeInv, StreamInv, RequestInv,
         Base, Dialling, Reads
<1> QED BY <1>3, <1>4 DEF EgressInv

-----------------------------------------------------------------------------
(* Types.                                                                  *)

\* A step of a driver, of an interrupt or of the broker keeps the types of a dial.
LEMMA SocksTypeStep ==
    ASSUME SocksAssumption, EgressAssumption, TypeOK, NEW d \in Dials, PositionInv(d),
           DriverStep(d) \/ Interrupt(d) \/ BrokerStep(d)
    PROVE  SocksTypeOK'
<1> USE DEF TypeOK, SocksTypeOK, Reads, Dialling, Failures, Fail, Goto, CloseStream
<1>1. CASE ConnectOk(d)
  BY <1>1 DEF ConnectOk
<1>2. CASE ConnectFail(d)
  BY <1>2 DEF ConnectFail
<1>3. CASE Write(d)
  BY <1>3 DEF Write
<1>4. CASE RecvPart(d)
  <2>1. Chunk(d) \in Nat
    BY <1>4, ChunkBounds DEF RecvPart
  <2> QED BY <1>4, <2>1 DEF RecvPart, Take
<1>5. CASE RecvBad(d)
  <2>1. Chunk(d) \in Nat
    BY <1>5, ChunkBounds DEF RecvBad
  <2>2. script[d] \in Script
    BY DEF SocksAssumption
  <2>3. Fault(d) \in Failures
    BY <1>5, <2>2, HeaderFaults DEF Fault, RecvBad
  <2> QED BY <1>5, <2>1, <2>3 DEF RecvBad, Take
<1>6. CASE RecvGood(d)
  <2>1. Chunk(d) \in Nat
    BY <1>6, ChunkBounds DEF RecvGood
  <2>2. pc[d] # "trailer" => AfterRead(d) \in Dialling
    BY <1>6 DEF AfterRead, RecvGood, Arrived
  <2> QED BY <1>6, <2>1, <2>2 DEF RecvGood, Take
<1>7. CASE StreamEnds(d)
  BY <1>7 DEF StreamEnds, EndMeans
<1>8. CASE Expire(d)
  BY <1>8 DEF Expire
<1>9. CASE Interrupt(d)
  BY <1>9 DEF Interrupt
<1>10. CASE BrokerWrites(d)
  <2>1. \A n \in (sent[d] + 1)..Allowed(d) : n \in Nat
    BY DEF Allowed
  <2> QED BY <1>10, <2>1 DEF BrokerWrites, dialVars
<1>11. CASE BrokerCloses(d)
  BY <1>11 DEF BrokerCloses, dialVars
<1> QED BY <1>1, <1>2, <1>3, <1>4, <1>5, <1>6, <1>7, <1>8, <1>9, <1>10, <1>11
        DEF DriverStep, BrokerStep

\* The resolved path is one there is a socket at, so a built client has a path.
LEMMA TypeStep == EgressAssumption /\ SocksAssumption /\ EgressInv /\ [Next]_vars => TypeOK'
<1> SUFFICES ASSUME EgressAssumption, SocksAssumption, EgressInv, [Next]_vars PROVE TypeOK'
  OBVIOUS
<1> USE DEF EgressInv
<1>1. CASE Change
  <2>1. SocksTypeOK'
    BY <1>1 DEF Change, TypeOK, SocksTypeOK, socksVars, dialVars
  <2>2. changes' \in 0..MaxChanges
    BY <1>1 DEF Change, TypeOK, EgressAssumption
  <2>3. env' \in [{"socket", "dir"} -> MaybePath]
    BY <1>1 DEF Change, TypeOK
  <2>4. sockets' \subseteq Paths
    BY <1>1 DEF Change, TypeOK
  <2>5. proxied' \in BOOLEAN
    BY <1>1, Zenon DEF Change, TypeOK
  <2> QED BY <1>1, <2>1, <2>2, <2>3, <2>4, <2>5 DEF Change, TypeOK, reqVars
<1>2. ASSUME NEW c \in Clients, NEW pin \in Flavors \cup {"any"}, NEW http2 \in BOOLEAN,
             NEW arg \in MaybePath, NEW factory \in {"client", "async_client", "session"},
             Build(c, factory, pin, http2, arg)
      PROVE  TypeOK'
  <2>1. Resolve(arg) \in Paths
    BY <1>2 DEF Build, TypeOK
  <2>2. KindsOf(factory, pin, http2) \subseteq Flavors \cup {"requests"}
    BY DEF KindsOf, SelectFlavor, Usable, Flavors, Lineages
  <2>3. client' \in [Clients -> Built \cup {NoClient}]
    BY <1>2, <2>1, <2>2 DEF Build, TypeOK, Built
  <2> QED BY <1>2, <2>3 DEF Build, TypeOK, SocksTypeOK, socksVars, dialVars, envVars, reqVars
<1>3. ASSUME NEW c \in Clients, NEW d \in Dials, Request(c, d) PROVE TypeOK'
  <2>1. client[c] \in Built
    BY <1>3 DEF Request, TypeOK
  <2>2. CASE client[c].kind = "requests" /\ proxied
    BY <1>3, <2>2 DEF Request, TypeOK, SocksTypeOK, socksVars, dialVars, envVars, ProxyManagerFor
  <2>3. CASE ~(client[c].kind = "requests" /\ proxied)
    <3>1. Begin(d, client[c].mode) /\ to' = [to EXCEPT ![d] = client[c].path] /\ UNCHANGED result
      BY <1>3, <2>3 DEF Request, PathOf
    <3>2. client[c].mode \in {"sync", "async"} /\ client[c].path \in MaybePath
      BY <2>1 DEF Built, MaybePath
    <3>3. SocksTypeOK'
      BY <3>1, <3>2 DEF Begin, TypeOK, SocksTypeOK, Fail, CloseStream, Dialling, Reads, Failures
    <3> QED BY <1>3, <3>1, <3>2, <3>3 DEF Request, TypeOK, envVars
  <2> QED BY <2>2, <2>3
<1>4. ASSUME NEW d \in Dials, Driver(d) \/ Interrupt(d) \/ BrokerStep(d),
             UNCHANGED <<envVars, client, reqVars>>
      PROVE  TypeOK'
  <2>1. SocksTypeOK'
    BY <1>4, SocksTypeStep DEF Driver, DialInv
  <2> QED BY <1>4, <2>1 DEF TypeOK, envVars, reqVars
<1>5. ASSUME NEW d \in Dials, StdlibExchange(d) PROVE TypeOK'
  BY <1>5 DEF StdlibExchange, Finally, CloseStream, TypeOK, SocksTypeOK, envVars
<1>6. CASE UNCHANGED vars
  BY <1>6 DEF vars, TypeOK, SocksTypeOK, socksVars, dialVars, envVars, reqVars
<1> QED BY <1>1, <1>2, <1>3, <1>4, <1>5, <1>6 DEF Next, Driver

-----------------------------------------------------------------------------
(* The dials.                                                              *)

\* What a dial's invariant is about.
Untouched(d) ==
    /\ pc'[d] = pc[d] /\ stream'[d] = stream[d] /\ outcome'[d] = outcome[d]
    /\ got'[d] = got[d] /\ read'[d] = read[d] /\ script'[d] = script[d] /\ sent'[d] = sent[d]

Attached(d) ==
    /\ via'[d] = via[d] /\ to'[d] = to[d] /\ result'[d] = result[d]
    /\ via[d] \in Clients /\ client[via[d]] # NoClient => client'[via[d]] = client[via[d]]

\* A step that touches nothing of a dial, and unbuilds no client, keeps its invariant.
LEMMA Frame ==
    ASSUME NEW d \in Dials, DialInv(d), Untouched(d), Attached(d) PROVE DialInv(d)'
<1> USE DEF DialInv, Untouched, Attached
<1>1. PositionInv(d)'
  BY DEF PositionInv, Base, Need
<1>2. CheckedInv(d)'
  BY DEF CheckedInv
<1>3. OutcomeInv(d)'
  BY DEF OutcomeInv
<1>4. StreamInv(d)'
  BY DEF StreamInv
<1>5. RequestInv(d)'
  BY DEF RequestInv
<1> QED BY <1>1, <1>2, <1>3, <1>4, <1>5

\* A dial that ends in an error: it closes its stream if it has one.
LEMMA Failed ==
    ASSUME NEW d \in Dials, TypeOK, DialInv(d), pc[d] \in Dialling, NEW how \in Failures, Fail(d, how),
           Attached(d), read'[d] \in Nat, read'[d] <= sent[d], sent'[d] = sent[d],
           script'[d] = script[d],
           how \in {"denied", "unreachable"} => script[d].rep = how /\ read'[d] >= 6,
           how = "peer_cred" => sent[d] = 0
    PROVE  DialInv(d)'
<1>1. pc'[d] = "failed" /\ outcome'[d] = how /\ stream'[d] # "open"
  BY DEF Fail, CloseStream, TypeOK, SocksTypeOK
<1> USE <1>1 DEF DialInv, Attached
<1>2. PositionInv(d)'
  BY DEF PositionInv, Reads
<1>3. CheckedInv(d)'
  BY DEF CheckedInv
<1>4. OutcomeInv(d)'
  BY DEF OutcomeInv, Dialling, Reads, Failures
<1>5. StreamInv(d)'
  BY DEF StreamInv, Dialling, Reads
<1>6. RequestInv(d)'
  BY DEF RequestInv, Dialling, Reads
<1> QED BY <1>2, <1>3, <1>4, <1>5, <1>6

\* A dial that goes on to its next step: nothing is asked of it but its position and
\* what was checked.
LEMMA GoesOn ==
    ASSUME NEW d \in Dials, DialInv(d), pc[d] \in Dialling, pc'[d] \in Dialling \ {"connect"},
           PositionInv(d)', CheckedInv(d)', outcome'[d] = outcome[d], stream'[d] = "open",
           Attached(d)
    PROVE  DialInv(d)'
<1>1. OutcomeInv(d)'
  BY DEF DialInv, OutcomeInv, Dialling, Reads
<1>2. StreamInv(d)'
  BY DEF StreamInv, Dialling, Reads
<1>3. RequestInv(d)'
  BY DEF DialInv, RequestInv, Attached, Dialling, Reads
<1> QED BY <1>1, <1>2, <1>3 DEF DialInv

\* A read: what is taken, and where that leaves the dial in the broker's bytes.
LEMMA ReadStep ==
    ASSUME EgressAssumption, SocksAssumption, TypeOK, NEW d \in Dials, DialInv(d), Attached(d),
           RecvPart(d) \/ RecvBad(d) \/ RecvGood(d)
    PROVE  DialInv(d)'
<1>1. script[d] \in Script /\ got[d] \in Nat /\ read[d] \in Nat /\ sent[d] \in Nat
  BY DEF TypeOK, SocksTypeOK, SocksAssumption
<1>2. Arrived(d) /\ PositionInv(d) /\ CheckedInv(d)
  BY DEF RecvPart, RecvBad, RecvGood, DialInv
<1>3. /\ Need(d) \in Nat /\ Chunk(d) \in Nat
      /\ got[d] + Chunk(d) <= Need(d) /\ read[d] + Chunk(d) <= sent[d]
  BY <1>2, ChunkBounds
<1>4. /\ read'[d] = read[d] + Chunk(d) /\ script'[d] = script[d] /\ sent'[d] = sent[d]
  BY DEF RecvPart, RecvBad, RecvGood, Take, TypeOK, SocksTypeOK
<1>5. pc[d] \in Reads /\ read[d] = Base(d) + got[d] /\ stream[d] = "open"
  BY <1>2 DEF Arrived, PositionInv, DialInv, StreamInv, Reads, Dialling
<1>6. CASE RecvPart(d)
  <2>1. pc'[d] = pc[d] /\ outcome'[d] = outcome[d] /\ stream'[d] = stream[d]
    BY <1>6 DEF RecvPart
  <2>2. got'[d] = got[d] + Chunk(d)
    BY <1>6 DEF RecvPart, TypeOK, SocksTypeOK
  <2>3. Base(d)' = Base(d) /\ Need(d)' = Need(d) /\ Base(d) \in Nat
    BY <1>1, <1>4, <1>5, <2>1 DEF Base, Need, Reads
  <2>4. PositionInv(d)'
    BY <1>1, <1>3, <1>4, <1>5, <2>1, <2>2, <2>3 DEF PositionInv, Reads
  <2>5. CheckedInv(d)'
    BY <1>2, <1>4, <2>1 DEF CheckedInv
  <2> QED BY <1>5, <2>1, <2>4, <2>5, GoesOn DEF Dialling, Reads
<1>7. CASE RecvBad(d)
  <2>1. Fail(d, Fault(d)) /\ got[d] + Chunk(d) = Need(d) /\ Fault(d) # "none"
    BY <1>1, <1>3, <1>7 DEF RecvBad, Complete
  <2>2. /\ Fault(d) \in {"protocol", "denied", "unreachable"}
        /\ Fault(d) \in {"denied", "unreachable"} => pc[d] = "header" /\ script[d].rep = Fault(d)
    BY <1>1, <2>1, HeaderFaults DEF Fault
  <2>3. pc[d] = "header" => read'[d] = 6
    BY <1>1, <1>3, <1>4, <1>5, <2>1 DEF Base, Need
  <2> QED BY <1>1, <1>3, <1>4, <1>5, <2>1, <2>2, <2>3, Failed DEF Failures, Dialling
<1>8. CASE RecvGood(d)
  <2>1. got[d] + Chunk(d) = Need(d) /\ Fault(d) = "none"
    BY <1>1, <1>3, <1>8 DEF RecvGood, Complete
  <2>2. got'[d] = 0 /\ read'[d] = Base(d) + Need(d)
    BY <1>1, <1>3, <1>4, <1>5, <1>8, <2>1 DEF RecvGood, TypeOK, SocksTypeOK, Base, Reads
  <2>3. /\ pc[d] # "trailer" => pc'[d] = AfterRead(d) /\ outcome'[d] = outcome[d] /\ stream'[d] = "open"
        /\ pc[d] = "trailer" => pc'[d] = "done" /\ outcome'[d] = "connected" /\ stream'[d] = "open"
    BY <1>5, <1>8 DEF RecvGood, Goto, TypeOK, SocksTypeOK
  <2>4. /\ pc[d] = "method" => script[d].method
        /\ pc[d] = "header" => HeaderFault(script[d]) = "none"
    BY <2>1 DEF Fault
  <2>5. CheckedInv(d)'
    BY <1>2, <1>4, <1>5, <2>3, <2>4 DEF CheckedInv, AfterRead, Reads
  <2>6. HeaderFault(script[d]) = "none" => script[d].atyp \in {"v4", "v6", "name"}
    BY <1>1, HeaderPassed
  <2>7. Base(d)' = Base(d) + Need(d)
    <3>1. CASE pc[d] = "method"
      BY <2>3, <3>1 DEF Base, Need, AfterRead
    <3>2. CASE pc[d] = "header"
      BY <1>4, <2>3, <3>2 DEF Base, Need, AfterRead
    <3>3. CASE pc[d] = "namelen"
      BY <1>2, <1>4, <2>3, <3>3 DEF Base, Need, AfterRead, CheckedInv
    <3>4. CASE pc[d] = "trailer"
      <4>1. script[d].atyp \in {"v4", "v6", "name"}
        BY <1>2, <2>6, <3>4 DEF CheckedInv
      <4>2. Base(d)' = ReplyLen(script[d]) /\ Need(d) = TrailerLen(script[d])
        BY <1>4, <2>3, <3>4 DEF Base, Need
      <4>3. Base(d) = IF script[d].atyp = "name" THEN 7 ELSE 6
        BY <3>4 DEF Base
      <4> QED BY <1>1, <4>1, <4>2, <4>3, Lengths
    <3> QED BY <1>5, <3>1, <3>2, <3>3, <3>4 DEF Reads
  <2>8. pc'[d] \in Reads => Need(d)' \in Nat
    BY <1>1, <1>4, Lengths DEF Need
  <2>9. pc'[d] \notin {"new", "connect", "greet", "failed"} /\ read'[d] <= sent'[d] /\ Base(d) \in Nat
    BY <1>3, <1>4, <1>5, <2>3 DEF AfterRead, Reads, Base
  <2>10. PositionInv(d)'
    BY <1>3, <2>2, <2>7, <2>8, <2>9 DEF PositionInv
  <2>11. CASE pc[d] # "trailer"
    <3>1. pc'[d] \in Dialling \ {"connect"}
      BY <1>5, <2>3, <2>11 DEF AfterRead, Dialling, Reads
    <3> QED BY <1>5, <2>3, <2>5, <2>10, <2>11, <3>1, GoesOn DEF Dialling
  <2>12. CASE pc[d] = "trailer"
    <3>1. result'[d] = "none" /\ pc'[d] = "done" /\ outcome'[d] = "connected" /\ stream'[d] = "open"
      BY <2>3, <2>12 DEF DialInv, RequestInv, Attached, Dialling, Reads
    <3>2. OutcomeInv(d)'
      BY <3>1 DEF OutcomeInv, Dialling, Reads
    <3>3. StreamInv(d)'
      BY <3>1 DEF StreamInv, Dialling, Reads
    <3>4. RequestInv(d)'
      BY <2>12, <3>1 DEF DialInv, RequestInv, Attached, Dialling, Reads
    <3> QED BY <2>5, <2>10, <3>2, <3>3, <3>4 DEF DialInv
  <2> QED BY <2>11, <2>12
<1> QED BY <1>6, <1>7, <1>8

\* The other steps of a dial and those of its broker.
LEMMA OtherStep ==
    ASSUME EgressAssumption, SocksAssumption, TypeOK, NEW d \in Dials, DialInv(d), Attached(d),
           \/ ConnectOk(d) \/ ConnectFail(d) \/ Write(d) \/ StreamEnds(d) \/ Expire(d)
           \/ Interrupt(d) \/ BrokerStep(d)
    PROVE  DialInv(d)'
<1>1. script[d] \in Script /\ got[d] \in Nat /\ read[d] \in Nat /\ sent[d] \in Nat
  BY DEF TypeOK, SocksTypeOK, SocksAssumption
<1>2. PositionInv(d) /\ CheckedInv(d) /\ StreamInv(d)
  BY DEF DialInv
<1>3. read[d] <= sent[d]
  BY <1>2 DEF PositionInv
<1>4. CASE ConnectOk(d)
  <2>1. /\ pc[d] = "connect" /\ pc'[d] = "greet" /\ stream'[d] = "open" /\ outcome'[d] = outcome[d]
        /\ got'[d] = got[d] /\ read'[d] = read[d] /\ sent'[d] = sent[d]
    BY <1>4 DEF ConnectOk, TypeOK, SocksTypeOK
  <2>2. PositionInv(d)'
    BY <1>2, <2>1 DEF PositionInv, Base, Reads
  <2>3. CheckedInv(d)'
    BY <2>1 DEF CheckedInv
  <2> QED BY <2>1, <2>2, <2>3, GoesOn DEF Dialling
<1>5. CASE ConnectFail(d)
  BY <1>1, <1>3, <1>5, Failed DEF ConnectFail, Dialling, Failures
<1>6. CASE Write(d)
  <2>1. pc[d] \in {"greet", "ask"} /\ UNCHANGED <<got, read, script, sent>>
    BY <1>6 DEF Write
  <2>2. CASE broker[d] = "closed"
    <3> DEFINE how == IF pc[d] = "greet" THEN "peer_cred" ELSE "protocol"
    <3>1. Fail(d, how)
      BY <1>6, <2>2 DEF Write
    <3>2. how = "peer_cred" => sent[d] = 0
      BY <1>2 DEF PositionInv
    <3>3. how \in Failures /\ how \notin {"denied", "unreachable"} /\ pc[d] \in Dialling
      BY <2>1 DEF Failures, Dialling
    <3> HIDE DEF how
    <3> QED BY <1>1, <1>3, <2>1, <3>1, <3>2, <3>3, Failed
  <2>3. CASE broker[d] # "closed"
    <3>1. /\ pc'[d] = (IF pc[d] = "greet" THEN "method" ELSE "header")
          /\ outcome'[d] = outcome[d] /\ stream'[d] = "open"
      BY <1>2, <1>6, <2>1, <2>3 DEF Write, Goto, TypeOK, SocksTypeOK, StreamInv, Dialling
    <3>2. PositionInv(d)'
      BY <1>1, <1>2, <2>1, <3>1 DEF PositionInv, Base, Need, Reads
    <3>3. CheckedInv(d)'
      BY <1>2, <2>1, <3>1 DEF CheckedInv
    <3> QED BY <2>1, <3>1, <3>2, <3>3, GoesOn DEF Dialling, Reads
  <2> QED BY <2>2, <2>3
<1>7. CASE StreamEnds(d)
  <2>1. /\ pc[d] \in Reads /\ sent[d] = read[d] /\ Fail(d, EndMeans(d))
        /\ UNCHANGED <<got, read, script, sent>>
    BY <1>7 DEF StreamEnds
  <2>2. EndMeans(d) = "peer_cred" => sent[d] = 0
    BY <1>2, <2>1 DEF EndMeans, PositionInv, Base
  <2>3. EndMeans(d) \in {"peer_cred", "protocol"}
    BY DEF EndMeans
  <2> QED BY <1>1, <1>3, <2>1, <2>2, <2>3, Failed DEF Failures, Dialling
<1>8. CASE Expire(d)
  BY <1>1, <1>3, <1>8, Failed DEF Expire, Failures
<1>9. CASE Interrupt(d)
  BY <1>1, <1>3, <1>9, Failed DEF Interrupt, Failures
<1>10. CASE BrokerWrites(d)
  <2>1. pc[d] \in Dialling /\ UNCHANGED <<pc, stream, outcome, got, read, script>>
    BY <1>10 DEF BrokerWrites, dialVars
  <2>2. PICK n \in (sent[d] + 1)..Allowed(d) : sent' = [sent EXCEPT ![d] = n]
    BY <1>10 DEF BrokerWrites
  <2>3. sent'[d] = n /\ n > sent[d] /\ n \in Int /\ n <= Allowed(d)
    BY <1>1, <2>2 DEF TypeOK, SocksTypeOK
  <2>4. pc[d] \notin {"connect", "greet", "new", "failed"}
    BY <1>1, <2>1, <2>3 DEF Allowed, Dialling, Reads
  <2>5. PositionInv(d)'
    BY <1>1, <1>2, <2>1, <2>3, <2>4 DEF PositionInv, Base, Need
  <2>6. CheckedInv(d)'
    BY <1>2, <2>1 DEF CheckedInv
  <2>7. stream'[d] = "open"
    BY <1>2, <2>1, <2>4 DEF StreamInv
  <2> QED BY <2>1, <2>4, <2>5, <2>6, <2>7, GoesOn
<1>11. CASE BrokerCloses(d)
  BY <1>11, Frame DEF BrokerCloses, dialVars, Untouched
<1> QED BY <1>4, <1>5, <1>6, <1>7, <1>8, <1>9, <1>10, <1>11 DEF BrokerStep

\* A step of one dial's driver or broker keeps every dial's invariant.
LEMMA DialStep ==
    ASSUME EgressAssumption, SocksAssumption, EgressInv, NEW e \in Dials, NEW d \in Dials,
           DriverStep(e) \/ Interrupt(e) \/ BrokerStep(e), UNCHANGED <<client, reqVars>>
    PROVE  DialInv(d)'
<1>1. Attached(d) /\ DialInv(d)
  BY DEF Attached, reqVars, EgressInv
<1>2. CASE d = e
  BY <1>1, <1>2, ReadStep, OtherStep DEF DriverStep, EgressInv
<1>3. CASE d # e
  <2>1. Untouched(d)
    <3> USE <1>3 DEF Untouched, EgressInv, TypeOK, SocksTypeOK, Fail, Goto, CloseStream, Take
    <3>1. CASE ConnectOk(e) \/ ConnectFail(e) \/ Write(e)
      BY <3>1 DEF ConnectOk, ConnectFail, Write
    <3>2. CASE RecvPart(e) \/ RecvBad(e) \/ RecvGood(e)
      BY <3>2 DEF RecvPart, RecvBad, RecvGood
    <3>3. CASE StreamEnds(e) \/ Expire(e) \/ Interrupt(e)
      BY <3>3 DEF StreamEnds, Expire, Interrupt
    <3>4. CASE BrokerStep(e)
      BY <3>4 DEF BrokerStep, BrokerWrites, BrokerCloses, dialVars
    <3> QED BY <3>1, <3>2, <3>3, <3>4 DEF DriverStep
  <2> QED BY <1>1, <2>1, Frame
<1> QED BY <1>2, <1>3

\* A request begins its dial on its client's path, or is refused where a proxy is named.
LEMMA RequestStep ==
    ASSUME EgressAssumption, EgressInv, NEW c \in Clients, NEW e \in Dials, Request(c, e),
           NEW d \in Dials
    PROVE  DialInv(d)'
<1> USE DEF EgressInv
<1>1. DialInv(d) /\ DialInv(e)
  OBVIOUS
<1>2. CASE d # e
  <2>1. Untouched(d) /\ Attached(d)
    BY <1>2 DEF Request, Begin, Fail, CloseStream, Untouched, Attached, TypeOK, SocksTypeOK,
                socksVars, dialVars
  <2> QED BY <1>1, <2>1, Frame
<1>3. CASE d = e
  <2>1. /\ pc[d] = "new" /\ via[d] = NoClient /\ client[c] # NoClient
        /\ via'[d] = c /\ client' = client /\ result[d] = "none" /\ stream[d] = "none"
        /\ outcome[d] = "none" /\ sent[d] = 0 /\ got[d] = 0 /\ read[d] = 0
    BY <1>1, <1>3 DEF Request, TypeOK, SocksTypeOK, DialInv, RequestInv, StreamInv, OutcomeInv,
                      PositionInv, Base, Reads
  <2>2. CASE client[c].kind = "requests" /\ proxied
    <3>1. Untouched(d) /\ result'[d] = "refused"
      BY <1>3, <2>2 DEF Request, ProxyManagerFor, TypeOK, socksVars, dialVars, Untouched
    <3>2. PositionInv(d)' /\ CheckedInv(d)' /\ OutcomeInv(d)' /\ StreamInv(d)'
      BY <2>1, <3>1 DEF Untouched, PositionInv, CheckedInv, OutcomeInv, StreamInv, Base, Reads,
                        Dialling
    <3>3. RequestInv(d)'
      BY <2>1, <3>1 DEF Untouched, RequestInv, Dialling, Reads, EgressAssumption
    <3> QED BY <3>2, <3>3 DEF DialInv
  <2>3. CASE ~(client[c].kind = "requests" /\ proxied)
    <3>1. Begin(d, client[c].mode) /\ to'[d] = client[c].path /\ result'[d] = "none"
      BY <1>3, <2>1, <2>3 DEF Request, PathOf, TypeOK
    <3>2. /\ pc'[d] \in {"connect", "failed"}
          /\ stream'[d] # "open" \/ pc'[d] = "connect"
          /\ pc'[d] = "failed" => outcome'[d] = "bad_host"
          /\ pc'[d] = "connect" => outcome'[d] = "none"
          /\ UNCHANGED <<got, read, script, sent>>
      BY <2>1, <3>1 DEF Begin, Fail, CloseStream, TypeOK, SocksTypeOK
    <3>3. PositionInv(d)'
      BY <2>1, <3>2 DEF PositionInv, Base, Reads
    <3>4. CheckedInv(d)' /\ OutcomeInv(d)' /\ StreamInv(d)'
      BY <3>2 DEF CheckedInv, OutcomeInv, StreamInv, Dialling, Reads
    <3>5. RequestInv(d)'
      BY <2>1, <3>1, <3>2 DEF RequestInv, EgressAssumption
    <3> QED BY <3>3, <3>4, <3>5 DEF DialInv
  <2> QED BY <2>2, <2>3
<1> QED BY <1>2, <1>3

\* The end of a request on the standard library closes its stream.
LEMMA ExchangeStep ==
    ASSUME EgressInv, NEW e \in Dials, StdlibExchange(e), NEW d \in Dials
    PROVE  DialInv(d)'
<1> USE DEF EgressInv
<1>1. DialInv(d)
  OBVIOUS
<1>2. CASE d # e
  <2>1. Untouched(d) /\ Attached(d)
    BY <1>2 DEF StdlibExchange, Finally, CloseStream, Untouched, Attached, TypeOK, SocksTypeOK
  <2> QED BY <1>1, <2>1, Frame
<1>3. CASE d = e
  <2>1. /\ pc[d] = "done" /\ stream'[d] = "closed" /\ result'[d] \in {"response", "error"}
        /\ UNCHANGED <<pc, mode, outcome, got, read, script, sent, client, via, to>>
    BY <1>1, <1>3 DEF StdlibExchange, Finally, CloseStream, TypeOK, SocksTypeOK, DialInv, StreamInv
  <2>2. PositionInv(d)' /\ CheckedInv(d)' /\ OutcomeInv(d)'
    BY <1>1, <2>1 DEF DialInv, PositionInv, CheckedInv, OutcomeInv, Base, Reads
  <2>3. StreamInv(d)' /\ RequestInv(d)'
    BY <1>1, <2>1 DEF DialInv, StreamInv, RequestInv, Dialling, Reads
  <2> QED BY <2>2, <2>3 DEF DialInv
<1> QED BY <1>2, <1>3

LEMMA EgressStep == EgressAssumption /\ SocksAssumption /\ EgressInv /\ [Next]_vars => EgressInv'
<1> SUFFICES ASSUME EgressAssumption, SocksAssumption, EgressInv, [Next]_vars, NEW d \in Dials
             PROVE  DialInv(d)'
  BY TypeStep DEF EgressInv
<1>0. DialInv(d)
  BY DEF EgressInv
<1>1. CASE Change
  BY <1>0, <1>1, Frame DEF Change, socksVars, dialVars, reqVars, Untouched, Attached
<1>2. ASSUME NEW c \in Clients, NEW pin \in Flavors \cup {"any"}, NEW http2 \in BOOLEAN,
             NEW arg \in MaybePath, NEW factory \in {"client", "async_client", "session"},
             Build(c, factory, pin, http2, arg)
      PROVE  DialInv(d)'
  <2>1. via[d] \in Clients /\ client[via[d]] # NoClient => client'[via[d]] = client[via[d]]
    BY <1>2 DEF Build, EgressInv, TypeOK
  <2> QED BY <1>0, <1>2, <2>1, Frame DEF Build, socksVars, dialVars, reqVars, Untouched, Attached
<1>3. ASSUME NEW c \in Clients, NEW e \in Dials, Request(c, e) PROVE DialInv(d)'
  BY <1>3, RequestStep
<1>4. ASSUME NEW e \in Dials, DriverStep(e) \/ Interrupt(e) \/ BrokerStep(e),
             UNCHANGED <<envVars, client, reqVars>>
      PROVE  DialInv(d)'
  BY <1>4, DialStep
<1>5. ASSUME NEW e \in Dials, StdlibExchange(e) PROVE DialInv(d)'
  BY <1>5, ExchangeStep
<1>6. CASE UNCHANGED vars
  BY <1>0, <1>6, Frame DEF vars, socksVars, dialVars, reqVars, Untouched, Attached
<1> QED BY <1>1, <1>2, <1>3, <1>4, <1>5, <1>6 DEF Next, Driver

-----------------------------------------------------------------------------
(* Theorems.                                                               *)

LEMMA EgressInvariant == Spec => []EgressInv
<1>1. Init => EgressInv
  BY EgressInit, EgressAssumption, SocksAssumption
<1>2. EgressInv /\ [Next]_vars => EgressInv'
  BY EgressStep, EgressAssumption, SocksAssumption
<1> QED BY <1>1, <1>2, PTL DEF Spec

\* Every variable keeps its type: no path or error is lost on the way.
THEOREM TypeCorrect == Spec => []TypeOK
<1>1. EgressInv => TypeOK
  BY DEF EgressInv
<1> QED BY EgressInvariant, <1>1, PTL

\* The stream a dial returns stands at the first relayed byte, for every length of a
\* bound name and however the broker's bytes were cut (egress.py:313-356).
THEOREM AppAlignedCorrect == Spec => []AppAligned
<1>1. ASSUME EgressInv, NEW d \in Dials, pc[d] = "done" PROVE read[d] = ReplyLen(script[d])
  <2>1. read[d] = Base(d) + got[d] /\ got[d] = 0
    BY <1>1 DEF EgressInv, DialInv, PositionInv, Reads
  <2>2. Base(d) = ReplyLen(script[d]) /\ read[d] \in Nat
    BY <1>1 DEF Base, EgressInv, TypeOK, SocksTypeOK
  <2>3. ReplyLen(script[d]) \in Nat
    <3>1. script[d] \in Script
      BY <1>1, SocksAssumption DEF EgressInv, TypeOK, SocksTypeOK, SocksAssumption
    <3>2. HeaderFault(script[d]) = "none"
      BY <1>1 DEF EgressInv, DialInv, CheckedInv
    <3>3. script[d].atyp \in {"v4", "v6", "name"}
      BY <3>1, <3>2, HeaderPassed
    <3> QED BY <3>1, <3>3, Lengths
  <2> QED BY <2>1, <2>2, <2>3
<1>2. EgressInv => AppAligned
  BY <1>1 DEF AppAligned
<1> QED BY EgressInvariant, <1>2, PTL

\* No dial that failed, and no request of the stdlib client that ended, keeps a socket
\* (egress.py:357-359, 419-426).
THEOREM StreamKeptCorrect == Spec => []StreamKept
<1>1. EgressInv => StreamKept
  BY DEF EgressInv, DialInv, StreamInv, StreamKept
<1> QED BY EgressInvariant, <1>1, PTL

\* Each error means what the broker did, and only its success yields a stream.
THEOREM ToldApartCorrect == Spec => []ToldApart
<1>1. ASSUME EgressInv, NEW d \in Dials, outcome[d] = "connected"
      PROVE  script[d].method /\ script[d].version /\ script[d].rep = "ok"
  <2>1. script[d] \in Script /\ script[d].method /\ HeaderFault(script[d]) = "none"
    BY <1>1, SocksAssumption
       DEF EgressInv, DialInv, OutcomeInv, CheckedInv, TypeOK, SocksTypeOK, SocksAssumption
  <2> QED BY <2>1, HeaderPassed
<1>2. EgressInv => ToldApart
  BY <1>1 DEF EgressInv, DialInv, OutcomeInv, ToldApart
<1> QED BY EgressInvariant, <1>2, PTL

\* No request leaves but through the broker its client was built for, whatever the
\* environment says by then.
THEOREM OnlyTheBrokerCorrect == Spec => []OnlyTheBroker
<1>1. EgressInv => OnlyTheBroker
  BY DEF EgressInv, DialInv, RequestInv, OnlyTheBroker
<1> QED BY EgressInvariant, <1>1, PTL
=============================================================================
