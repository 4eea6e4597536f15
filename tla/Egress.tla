-------------------------------- MODULE Egress --------------------------------
(***************************************************************************)
(* The egress clients of hawcx_haap/egress.py on Unix: client(),           *)
(* async_client() and requests_session() resolve the broker's socket once, *)
(* and each request of theirs dials it (Socks5), or is refused. The        *)
(* process environment and the files it names may change at any time.      *)
(*                                                                         *)
(* The HTTP libraries are external: httpx asks the network backend of its  *)
(* pool, urllib3 the pool class, for every connection; requests hands a    *)
(* proxied URL to proxy_manager_for.                                       *)
(***************************************************************************)
EXTENDS Socks5

CONSTANTS Clients, NoClient, Paths, NoPath,
          Envs,          \* what the environment may say at first
          Installed,     \* the HTTP libraries that can be imported
          MaxChanges     \* bound: changes of the environment

MaybePath == Paths \cup {NoPath}
Lineages == {"httpx2", "httpx"}
Flavors  == Lineages \cup {"stdlib"}

ASSUME EgressAssumption ==
    /\ NoClient \notin Clients /\ NoPath \notin Paths
    /\ Envs \subseteq [{"socket", "dir"} -> MaybePath]
    /\ Installed \subseteq Lineages \cup {"requests"}
    /\ MaxChanges \in Nat

VARIABLES
    env,       \* what the two ways of naming the broker's socket in the environment say
    sockets,   \* the paths at which a socket exists
    proxied,   \* $HTTPS_PROXY or $HTTP_PROXY is set
    changes,
    client,    \* the clients that were built
    via,       \* the client that made each request
    to,        \* the path each request dialled
    result     \* how a request ended that did not fail in its dial

envVars  == <<env, sockets, proxied, changes>>
reqVars  == <<via, to, result>>
vars     == <<socksVars, envVars, client, reqVars>>

Built     == [kind : Flavors \cup {"requests"}, mode : {"sync", "async"}, path : Paths]

TypeOK ==
    /\ SocksTypeOK
    /\ env \in [{"socket", "dir"} -> MaybePath]
    /\ sockets \subseteq Paths
    /\ proxied \in BOOLEAN
    /\ changes \in 0..MaxChanges
    /\ client \in [Clients -> Built \cup {NoClient}]
    /\ via \in [Dials -> Clients \cup {NoClient}]
    /\ to \in [Dials -> MaybePath]
    /\ result \in [Dials -> {"none", "refused", "bypassed", "response", "error"}]

Init ==
    /\ SocksInit
    /\ env \in Envs
    /\ sockets = Paths
    /\ proxied = FALSE
    /\ changes = 0
    /\ client = [c \in Clients |-> NoClient]
    /\ via = [d \in Dials |-> NoClient]
    /\ to = [d \in Dials |-> NoPath]
    /\ result = [d \in Dials |-> "none"]

-----------------------------------------------------------------------------
\* The rest of the process, the supervisor and the broker change what a client
\* was built from.
Change ==
    /\ changes < MaxChanges
    /\ changes' = changes + 1
    /\ \/ /\ \E v \in DOMAIN env, p \in MaybePath : env' = [env EXCEPT ![v] = p]
          /\ UNCHANGED <<sockets, proxied>>
       \/ /\ sockets' \in {sockets \cup {p} : p \in Paths} \cup {sockets \ {p} : p \in Paths}
          /\ UNCHANGED <<env, proxied>>
       \/ proxied' = ~proxied /\ UNCHANGED <<env, sockets>>
    /\ UNCHANGED <<socksVars, client, reqVars>>

\* resolve_socket_path: the argument, the variable, or the supervisor's directory.
Resolve(arg) == IF arg # NoPath THEN arg
                ELSE IF env["socket"] # NoPath THEN env["socket"] ELSE env["dir"]

Usable(pin) == pin = "stdlib" \/ pin \in Installed
\* _select_flavor: the pinned one if it is there, else the first that is.
SelectFlavor(pin) ==
    IF pin # "any" THEN {f \in {pin} : Usable(f)}
    ELSE IF Usable("httpx2") THEN {"httpx2"} ELSE IF Usable("httpx") THEN {"httpx"} ELSE {"stdlib"}

\* The kinds each factory can return. No asyncio client is built on the standard
\* library, which speaks no HTTP/2 either.
KindsOf(factory, pin, http2) ==
    CASE factory = "client"       -> SelectFlavor(pin) \ (IF http2 THEN {"stdlib"} ELSE {})
      [] factory = "async_client" -> SelectFlavor(pin) \ {"stdlib"}
      [] factory = "session"      -> {"requests"} \cap Installed

\* Whatever cannot be built raises and leaves nothing behind.
Build(c, factory, pin, http2, arg) ==
    /\ client[c] = NoClient
    /\ Resolve(arg) \in sockets
    /\ \E k \in KindsOf(factory, pin, http2) :
         client' = [client EXCEPT ![c] =
             [kind |-> k, mode |-> IF factory = "async_client" THEN "async" ELSE "sync",
              path |-> Resolve(arg)]]
    /\ UNCHANGED <<socksVars, envVars, reqVars>>

RereadPath(c) == IF Resolve(NoPath) = NoPath THEN client[c].path ELSE Resolve(NoPath)  \* mutant
\* The backend, the pool classes and the stdlib client keep the path they were
\* built with.
PathOf(c) == client[c].path

StockProxy == "bypassed"     \* mutant: requests builds its own proxy pool
\* proxy_manager_for raises rather than build one.
ProxyManagerFor == "refused"

Request(c, d) ==
    /\ pc[d] = "new" /\ via[d] = NoClient /\ client[c] # NoClient
    /\ via' = [via EXCEPT ![d] = c]
    /\ IF client[c].kind = "requests" /\ proxied
         THEN /\ result' = [result EXCEPT ![d] = ProxyManagerFor]
              /\ UNCHANGED <<to, socksVars>>
         ELSE /\ to' = [to EXCEPT ![d] = PathOf(c)]
              /\ Begin(d, client[c].mode)
              /\ UNCHANGED result
    /\ UNCHANGED <<envVars, client>>

NoFinally(d) == UNCHANGED stream      \* mutant: the socket is left to the collector
\* The stdlib client has one socket per request and closes it in a finally.
Finally(d) == CloseStream(d)

\* TLS, the request and its response, or whatever of it raises.
StdlibExchange(d) ==
    /\ pc[d] = "done" /\ result[d] = "none" /\ client[via[d]].kind = "stdlib"
    /\ \E how \in {"response", "error"} : result' = [result EXCEPT ![d] = how]
    /\ Finally(d)
    /\ UNCHANGED <<pc, mode, outcome, got, read, script, sent, broker, envVars, client, via, to>>

Driver(d) == /\ DriverStep(d)
             /\ pc[d] = "connect" /\ pc'[d] = "greet" => to[d] \in sockets
             /\ UNCHANGED <<envVars, client, reqVars>>

Next ==
    \/ Change
    \/ \E c \in Clients, pin \in Flavors \cup {"any"}, http2 \in BOOLEAN, arg \in MaybePath,
          factory \in {"client", "async_client", "session"} : Build(c, factory, pin, http2, arg)
    \/ \E c \in Clients, d \in Dials : Request(c, d)
    \/ \E d \in Dials :
         \/ Driver(d) \/ StdlibExchange(d)
         \/ (Interrupt(d) \/ BrokerStep(d)) /\ UNCHANGED <<envVars, client, reqVars>>

Spec     == Init /\ [][Next]_vars
\* A dial's own thread or task runs and its deadline fires; nothing is assumed of
\* the broker.
FairSpec == Spec /\ \A d \in Dials : WF_vars(Driver(d))

-----------------------------------------------------------------------------
(* Properties.                                                             *)

\* No request leaves but through the broker that was resolved, and found to be a
\* socket, when its client was built: not by a proxy that the environment names,
\* nor to a socket it names by now.
OnlyTheBroker == \A d \in Dials :
    /\ result[d] # "bypassed"
    /\ pc[d] # "new" => to[d] = client[via[d]].path

\* A dial that failed left no socket open, whatever raised and wherever; one that
\* returned has its stream until its request is over, and the stdlib client's
\* request leaves none, well ended or not.
StreamKept == \A d \in Dials :
    /\ pc[d] = "failed" => stream[d] # "open"
    /\ pc[d] = "done" => (stream[d] = "open" <=> result[d] = "none")
===============================================================================
