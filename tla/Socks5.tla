-------------------------------- MODULE Socks5 --------------------------------
(***************************************************************************)
(* The SOCKS5 handshake of hawcx_haap/egress.py over the broker's Unix     *)
(* socket: _socks5_connect_sync and _socks5_connect_async. A dial writes a *)
(* greeting, reads 2 bytes, writes the CONNECT request, reads 4 bytes and  *)
(* then as many as those say, and hands the stream to an HTTP library,     *)
(* whose first byte must be the next one.                                  *)
(*                                                                         *)
(* The broker is another process: a dial has a script of what the broker   *)
(* would write, of which it writes as much as it likes, in pieces of any   *)
(* size, before it stalls or closes. Bytes are counted, not spelled out.   *)
(***************************************************************************)
EXTENDS Integers

CONSTANTS Dials,       \* calls of the two drivers, each on a stream of its own
          BadHosts,    \* the dials whose host or port cannot be put in a request
          Scripts,     \* what the broker may answer to a dial
          AppBytes,    \* bound: relayed bytes that may follow the reply
          Interrupts   \* may an exception or a cancellation end a wait?

Atyps  == {"v4", "v6", "name", "unknown"}
Reps   == {"ok", "denied", "unreachable", "other"}
Script == [method : BOOLEAN,   \* "05 00", or anything else
           version : BOOLEAN,  \* the reply's version byte is 05
           rep : Reps, atyp : Atyps, len : Nat]

ASSUME SocksAssumption == /\ BadHosts \subseteq Dials
                          /\ Scripts \subseteq Script /\ Scripts # {}
                          /\ AppBytes \in Nat
                          /\ Interrupts \in BOOLEAN

VARIABLES
    pc,       \* where each dial is
    mode,     \* which driver it runs
    stream,   \* the socket it holds
    outcome,  \* how it ended: a stream, or the exception raised
    got,      \* bytes of the current _recv_exact that have arrived
    read,     \* bytes taken from the stream since it was opened
    script,   \* what the broker would answer
    sent,     \* bytes the broker wrote
    broker    \* its end of the connection

dialVars   == <<pc, mode, stream, outcome, got>>
socksVars  == <<dialVars, read, script, sent, broker>>

Reads     == {"method", "header", "namelen", "trailer"}
Dialling  == Reads \cup {"connect", "greet", "ask"}
Failures  == {"bad_host", "config", "peer_cred", "protocol", "denied", "unreachable",
              "timeout", "interrupted"}

SocksTypeOK ==
    /\ pc \in [Dials -> Dialling \cup {"new", "done", "failed"}]
    /\ mode \in [Dials -> {"sync", "async"}]
    /\ stream \in [Dials -> {"none", "open", "closed"}]
    /\ outcome \in [Dials -> Failures \cup {"none", "connected"}]
    /\ got \in [Dials -> Nat]
    /\ read \in [Dials -> Nat]
    /\ script \in [Dials -> Scripts]
    /\ sent \in [Dials -> Nat]
    /\ broker \in [Dials -> {"none", "open", "closed"}]

SocksInit ==
    /\ pc = [d \in Dials |-> "new"]
    /\ mode = [d \in Dials |-> "sync"]
    /\ stream = [d \in Dials |-> "none"]
    /\ outcome = [d \in Dials |-> "none"]
    /\ got = [d \in Dials |-> 0]
    /\ read = [d \in Dials |-> 0]
    /\ script = [d \in Dials |-> CHOOSE s \in Scripts : TRUE]   \* set by ConnectOk
    /\ sent = [d \in Dials |-> 0]
    /\ broker = [d \in Dials |-> "none"]

-----------------------------------------------------------------------------
(* The driver.                                                             *)

LeaveOpen(d) == UNCHANGED stream      \* mutant: no except BaseException arm

\* The except arms close the socket if there is one. The synchronous driver has
\* one as soon as it begins, the asynchronous one only once it is connected.
CloseStream(d) == stream' = [stream EXCEPT ![d] = IF @ = "none" THEN @ ELSE "closed"]

Fail(d, how) == /\ pc' = [pc EXCEPT ![d] = "failed"]
                /\ outcome' = [outcome EXCEPT ![d] = how]
                /\ CloseStream(d)

Goto(d, l) == pc' = [pc EXCEPT ![d] = l] /\ UNCHANGED <<outcome, stream>>

\* _connect_request refuses the host or the port before a socket exists.
Begin(d, m) ==
    /\ pc[d] = "new"
    /\ mode' = [mode EXCEPT ![d] = m]
    /\ IF d \in BadHosts
         THEN Fail(d, "bad_host")
         ELSE /\ pc' = [pc EXCEPT ![d] = "connect"]
              /\ stream' = [stream EXCEPT ![d] = IF m = "sync" THEN "open" ELSE "none"]
              /\ UNCHANGED outcome
    /\ UNCHANGED <<got, read, script, sent, broker>>

ConnectOk(d) ==
    /\ pc[d] = "connect"
    /\ pc' = [pc EXCEPT ![d] = "greet"]
    /\ stream' = [stream EXCEPT ![d] = "open"]
    /\ broker' = [broker EXCEPT ![d] = "open"]
    /\ \E s \in Scripts : script' = [script EXCEPT ![d] = s]
    /\ UNCHANGED <<mode, outcome, got, read, sent>>

\* No broker listens there. A connect that times out is an OSError too, but the
\* deadline of the asynchronous driver is not the connect's (Expire).
ConnectFail(d) ==
    /\ pc[d] = "connect"
    /\ Fail(d, "config")
    /\ UNCHANGED <<mode, got, read, script, sent, broker>>

\* _sendall_*: an error before the broker wrote anything is read as its refusal
\* of this peer.
Write(d) ==
    /\ pc[d] \in {"greet", "ask"}
    /\ IF broker[d] = "closed"
         THEN Fail(d, IF pc[d] = "greet" THEN "peer_cred" ELSE "protocol")
         ELSE Goto(d, IF pc[d] = "greet" THEN "method" ELSE "header")
    /\ UNCHANGED <<mode, got, read, script, sent, broker>>

NoPort(s) == CASE s.atyp = "v4" -> 4 [] s.atyp = "v6" -> 16 [] OTHER -> s.len  \* mutant
\* _bound_trailer_len: the bound address and the port, which are read and dropped.
TrailerLen(s) == CASE s.atyp = "v4" -> 4 + 2 [] s.atyp = "v6" -> 16 + 2 [] OTHER -> s.len + 2

\* How many bytes the current _recv_exact wants.
Need(d) == CASE pc[d] = "method"  -> 2
             [] pc[d] = "header"  -> 4
             [] pc[d] = "namelen" -> 1
             [] OTHER             -> TrailerLen(script[d])

IgnoreRep(s) == IF s.version /\ s.atyp # "unknown" THEN "none" ELSE "protocol"  \* mutant
\* The checks of the CONNECT reply's first four bytes, in the code's order.
HeaderFault(s) == CASE ~s.version                        -> "protocol"
                    [] s.rep \in {"denied", "unreachable"} -> s.rep
                    [] s.rep = "other"                   -> "protocol"
                    [] s.atyp = "unknown"                -> "protocol"
                    [] OTHER                             -> "none"

\* What is wrong with the bytes a read has completed, if anything.
Fault(d) == CASE pc[d] = "method" -> IF script[d].method THEN "none" ELSE "protocol"
              [] pc[d] = "header" -> HeaderFault(script[d])
              [] OTHER            -> "none"

AfterRead(d) == CASE pc[d] = "method"  -> "ask"
                  [] pc[d] = "header"  -> IF script[d].atyp = "name" THEN "namelen" ELSE "trailer"
                  [] pc[d] = "namelen" -> "trailer"

Greedy(d) == sent[d] - read[d]      \* mutant: recv of whatever is there
\* recv(n - len(buf)): what is there, and no more than what is still wanted.
Chunk(d) == LET there == sent[d] - read[d]
                want  == Need(d) - got[d]
            IN  IF there < want THEN there ELSE want

Arrived(d)  == pc[d] \in Reads /\ sent[d] > read[d]
Complete(d) == got[d] + Chunk(d) >= Need(d)
Take(d)     == read' = [read EXCEPT ![d] = @ + Chunk(d)]

RecvPart(d) ==
    /\ Arrived(d) /\ ~Complete(d)
    /\ Take(d)
    /\ got' = [got EXCEPT ![d] = @ + Chunk(d)]
    /\ UNCHANGED <<pc, mode, stream, outcome, script, sent, broker>>

RecvBad(d) ==
    /\ Arrived(d) /\ Complete(d) /\ Fault(d) # "none"
    /\ Take(d)
    /\ Fail(d, Fault(d))
    /\ UNCHANGED <<mode, got, script, sent, broker>>

RecvGood(d) ==
    /\ Arrived(d) /\ Complete(d) /\ Fault(d) = "none"
    /\ Take(d)
    /\ got' = [got EXCEPT ![d] = 0]
    /\ IF pc[d] = "trailer"
         THEN /\ pc' = [pc EXCEPT ![d] = "done"]
              /\ outcome' = [outcome EXCEPT ![d] = "connected"]
              /\ UNCHANGED stream
         ELSE Goto(d, AfterRead(d))
    /\ UNCHANGED <<mode, script, sent, broker>>

RawReset(d) == "connection_reset"   \* mutant: the exception of the socket escapes
AnyEnd(d) == IF pc[d] = "method" THEN "peer_cred" ELSE "protocol"   \* mutant
\* _closed_mid_handshake: an end of stream and a reset are one event.
EndMeans(d) == IF pc[d] = "method" /\ got[d] = 0 THEN "peer_cred" ELSE "protocol"

StreamEnds(d) ==
    /\ pc[d] \in Reads /\ sent[d] = read[d] /\ broker[d] = "closed"
    /\ Fail(d, EndMeans(d))
    /\ UNCHANGED <<mode, got, read, script, sent, broker>>

NoDeadline(d) == FALSE        \* mutant: settimeout is not called
\* The synchronous deadline is the socket's and ends a call that has nothing to
\* return; the asynchronous one covers the whole dial.
DeadlineFires(d) == \/ mode[d] = "async"
                    \/ pc[d] = "connect"
                    \/ pc[d] \in {"greet", "ask"} /\ broker[d] # "closed"
                    \/ pc[d] \in Reads /\ sent[d] = read[d] /\ broker[d] # "closed"

Expire(d) ==
    /\ pc[d] \in Dialling /\ DeadlineFires(d)
    /\ Fail(d, IF pc[d] = "connect" /\ mode[d] = "sync" THEN "config" ELSE "timeout")
    /\ UNCHANGED <<mode, got, read, script, sent, broker>>

\* KeyboardInterrupt, or the task is cancelled: except BaseException.
Interrupt(d) ==
    /\ Interrupts /\ pc[d] \in Dialling
    /\ Fail(d, "interrupted")
    /\ UNCHANGED <<mode, got, read, script, sent, broker>>

-----------------------------------------------------------------------------
(* The broker: a method reply, a CONNECT reply, then the relayed stream.   *)

ReplyLen(s) == 2 + 4 + (CASE s.atyp = "v4" -> 6 [] s.atyp = "v6" -> 18
                          [] s.atyp = "name" -> 1 + s.len + 2 [] OTHER -> 0)

\* It answers what it was asked, and relays bytes only after a success.
Allowed(d) ==
    CASE pc[d] \in {"connect", "greet"} -> 0
      [] pc[d] \in {"method", "ask"}    -> 2
      [] OTHER -> ReplyLen(script[d]) + (IF script[d].rep = "ok" THEN AppBytes ELSE 0)

BrokerWrites(d) ==
    /\ broker[d] = "open" /\ pc[d] \in Dialling
    /\ \E n \in (sent[d] + 1)..Allowed(d) : sent' = [sent EXCEPT ![d] = n]
    /\ UNCHANGED <<dialVars, read, script, broker>>

BrokerCloses(d) ==
    /\ broker[d] = "open"
    /\ broker' = [broker EXCEPT ![d] = "closed"]
    /\ UNCHANGED <<dialVars, read, script, sent>>

-----------------------------------------------------------------------------
DriverStep(d) == \/ ConnectOk(d) \/ ConnectFail(d) \/ Write(d)
                 \/ RecvPart(d) \/ RecvBad(d) \/ RecvGood(d) \/ StreamEnds(d) \/ Expire(d)

BrokerStep(d) == BrokerWrites(d) \/ BrokerCloses(d)

SocksNext == \E d \in Dials : DriverStep(d) \/ Interrupt(d) \/ BrokerStep(d)

-----------------------------------------------------------------------------
(* Properties.                                                             *)

\* The stream a dial returns stands at the first relayed byte, whatever the type
\* and length of the bound address and however the broker's bytes were cut into
\* pieces: one byte more or less and TLS starts in the middle of something.
AppAligned == \A d \in Dials :
                pc[d] = "done" => read[d] = ReplyLen(script[d])

\* The errors are told apart by what the broker did: "denied" is its reply code,
\* a failed peer check is a broker that closed without writing a byte, and a
\* stream is returned only on its success.
ToldApart == \A d \in Dials :
    /\ outcome[d] \in {"denied", "unreachable"} => script[d].rep = outcome[d] /\ read[d] >= 6
    /\ outcome[d] = "peer_cred" => sent[d] = 0
    /\ outcome[d] = "connected" => script[d].method /\ script[d].version /\ script[d].rep = "ok"

\* Every dial ends if its own thread runs and its deadline fires, whatever the
\* broker does: a byte at a time cannot hold it, for it wants finitely many.
DialEnds == \A d \in Dials : pc[d] \in Dialling ~> pc[d] \notin Dialling
===============================================================================
