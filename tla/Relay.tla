------------------------------- MODULE Relay -------------------------------
(***************************************************************************)
(* The relay between the web application and the agents on the users'      *)
(* devices: packages/bridge/src/server.ts with its stores, the agent's end *)
(* of the connection (packages/cli/src/agent/bridge-client.ts) and the web *)
(* application's HTTP calls (apps/web/src/lib/actions/transport.ts).       *)
(*                                                                         *)
(* An HTTP request is sent on to the device's WebSocket, kept in           *)
(* pendingRequests, and answered by whichever comes first: the device's    *)
(* command_response or a timer of 30 s.  Every socket has two ends that    *)
(* notice its loss separately.  Messages of a socket form a set: the       *)
(* agent's handlers are asynchronous and answers overtake each other.      *)
(* auth_response only makes the agent print a line and is left out.        *)
(***************************************************************************)
EXTENDS Naturals, SequencesExt

CONSTANTS
    Devices,        \* device ids; each has one device token
    MaxSockets,     \* bound: connections that are ever opened
    SocketOf,       \* the device that opens a socket
    Requests,       \* HTTP requests
    TargetOf,       \* the device a request is for
    StaleAfter,     \* heartbeats without a pong that are tolerated, 2 in the code
    MaxCrashes,     \* bound: deaths of the relay
    None

Sockets == 1 .. MaxSockets

ASSUME RelayAssumption ==
    /\ MaxSockets \in Nat /\ StaleAfter \in Nat /\ MaxCrashes \in Nat
    /\ SocketOf \in [Sockets -> Devices]
    /\ TargetOf \in [Requests -> Devices]
    /\ None \notin Sockets

VARIABLES
    tokens,     \* relay-tokens.json: devices whose token is registered
    registry,   \* relay-devices.json: devices with a record
    socket,     \* the relay's end: "absent", "open", "closing" or "closed"
    authed,     \* sockets whose handler has set its deviceId, in that order
    agentEnd,   \* the agent's end: "absent", "open", "lost" or "dead"
    devices,    \* the relay's map: the socket of each device, or None
    ticks,      \* heartbeats since the device's lastHeartbeat
    toAgent, toRelay,   \* messages under way on each socket
    running,    \* commands an agent process works on, by socket
    carriedOut, \* times a command was carried out on the device
    pending,    \* pendingRequests
    timers,     \* requests whose time-out is armed
    http,       \* what the relay wrote to each HTTP response
    audit,      \* the request's records in relay-requests.json, in order
    crashes

connVars == <<socket, authed, devices, ticks, toAgent, toRelay>>
agentVars == <<agentEnd, running, carriedOut>>
storeVars == <<tokens, registry>>
requestVars == <<pending, timers, http, audit>>
allVars == <<tokens, registry, socket, authed, agentEnd, devices, ticks, toAgent, toRelay,
             running, carriedOut, pending, timers, http, audit, crashes>>

Request(r) == [type |-> "command_request", request |-> r]
Response(r, ok) == [type |-> "command_response", request |-> r, ok |-> ok]
Plain == {[type |-> t] : t \in {"auth", "ping", "pong"}}
Messages == Plain \cup {Request(r) : r \in Requests}
                  \cup {Response(r, ok) : r \in Requests, ok \in BOOLEAN}
Ping == [type |-> "ping"]
Pong == [type |-> "pong"]
Auth == [type |-> "auth"]

RelayInit ==
    /\ tokens = {} /\ registry = {}
    /\ socket = [c \in Sockets |-> "absent"]
    /\ authed = <<>>
    /\ agentEnd = [c \in Sockets |-> "absent"]
    /\ devices = [d \in Devices |-> None]
    /\ ticks = [d \in Devices |-> 0]
    /\ toAgent = [c \in Sockets |-> {}]
    /\ toRelay = [c \in Sockets |-> {}]
    /\ running = [c \in Sockets |-> {}]
    /\ carriedOut = [r \in Requests |-> 0]
    /\ pending = {} /\ timers = {}
    /\ http = [r \in Requests |-> <<>>]
    /\ audit = [r \in Requests |-> <<>>]
    /\ crashes = 0

\* A device the relay can reach: devices.get(deviceId) and readyState OPEN.
Online(d) == devices[d] # None /\ socket[devices[d]] = "open"

-----------------------------------------------------------------------------
(* Registration *)

\* POST /api/register: a token and a device id that are both new.  The token is
\* saved first, then the device's record.
register(d) ==
    /\ d \notin tokens /\ d \notin registry
    /\ tokens' = tokens \cup {d}
    /\ registry' = registry \cup {d}
    /\ UNCHANGED <<connVars, crashes,
                   agentVars, requestVars>>

-----------------------------------------------------------------------------
(* Connections: wss.on('connection') *)

\* The agent process opens its socket and sends its token (connect).  It never opens
\* a second one: a new connection is a new process, and the one before it has died.
connect(c) ==
    /\ socket[c] = "absent"
    /\ \A b \in Sockets : b < c /\ SocketOf[b] = SocketOf[c] => agentEnd[b] = "dead"
    /\ socket' = [socket EXCEPT ![c] = "open"]
    /\ agentEnd' = [agentEnd EXCEPT ![c] = "open"]
    /\ toRelay' = [toRelay EXCEPT ![c] = {Auth}]
    /\ UNCHANGED <<authed, devices, ticks, toAgent, running, carriedOut, crashes,
                   storeVars, requestVars>>

\* Mutant: a connection that is already registered keeps its place.
NewEntryKeepsOld(d, c) == IF devices[d] = None THEN c ELSE devices[d]
\* The socket that serves a device after a connection authenticated.
NewEntry(d, c) == c

\* The message auth.  An unknown token is turned away; a device that is already in the
\* map has its old socket closed and its entry replaced; a device without a record
\* (the relay died while registering it) gets one.
authenticate(c) ==
    LET d == SocketOf[c] IN
    /\ Auth \in toRelay[c] /\ socket[c] = "open"
    /\ toRelay' = [toRelay EXCEPT ![c] = @ \ {Auth}]
    /\ IF d \notin tokens
       THEN /\ socket' = [socket EXCEPT ![c] = "closing"]
            /\ UNCHANGED <<registry, authed, devices, ticks>>
       ELSE /\ authed' = Append(authed, c)
            /\ socket' = IF Online(d) THEN [socket EXCEPT ![devices[d]] = "closing"] ELSE socket
            /\ devices' = [devices EXCEPT ![d] = NewEntry(d, c)]
            /\ ticks' = [ticks EXCEPT ![d] = 0]
            /\ registry' = registry \cup {d}
    /\ UNCHANGED <<tokens, toAgent, crashes, agentVars, requestVars>>

\* The message pong: the entry of the device, whichever socket it names by now.
pong(c) ==
    LET d == SocketOf[c] IN
    /\ Pong \in toRelay[c] /\ socket[c] \in {"open", "closing"}
    /\ toRelay' = [toRelay EXCEPT ![c] = @ \ {Pong}]
    /\ ticks' = IF devices[d] # None THEN [ticks EXCEPT ![d] = 0] ELSE ticks
    /\ UNCHANGED <<socket, authed, devices, toAgent, crashes,
                   agentVars, storeVars, requestVars>>

\* The event 'close' of the relay's end: the other end is gone, or the relay closed it
\* and the closing handshake ended or timed out.  What was under way is lost.  The
\* handler removes the device's entry, whichever socket it names.
closeEvent(c) ==
    LET d == SocketOf[c] IN
    /\ \/ socket[c] = "closing"
       \/ socket[c] = "open" /\ agentEnd[c] \in {"lost", "dead"}
    /\ socket' = [socket EXCEPT ![c] = "closed"]
    /\ devices' = IF c \in ToSet(authed) THEN [devices EXCEPT ![d] = None] ELSE devices
    /\ ticks' = IF c \in ToSet(authed) THEN [ticks EXCEPT ![d] = 0] ELSE ticks
    /\ agentEnd' = [agentEnd EXCEPT ![c] = IF @ = "open" THEN "lost" ELSE @]
    /\ toRelay' = [toRelay EXCEPT ![c] = {}]
    /\ toAgent' = [toAgent EXCEPT ![c] = {}]
    /\ UNCHANGED <<authed, running, carriedOut, crashes, storeVars, requestVars>>

\* Mutant: the time since the last pong is never compared.
StaleNever(d) == FALSE
\* No pong within the time-out window of 60 s.
Stale(d) == ticks[d] = StaleAfter

\* The age of the last pong, in heartbeats.
Aged(d) == IF ticks[d] = StaleAfter THEN StaleAfter ELSE ticks[d] + 1

\* The heartbeat interval: a ping to every device in the map, and the end of the
\* connections whose last pong is too old.
heartbeat ==
    LET up == {d \in Devices : Online(d)}
        of(ds) == {devices[d] : d \in ds}
    IN
    /\ up # {}
    /\ toAgent' = [c \in Sockets |-> IF c \in of(up) THEN toAgent[c] \cup {Ping} ELSE toAgent[c]]
    /\ socket' = [c \in Sockets |-> IF c \in of({d \in up : Stale(d)}) THEN "closing" ELSE socket[c]]
    /\ ticks' = [d \in Devices |-> IF d \in up THEN Aged(d) ELSE ticks[d]]
    /\ UNCHANGED <<authed, devices, toRelay, crashes,
                   agentVars, storeVars, requestVars>>

-----------------------------------------------------------------------------
(* Requests *)

\* The relay writes an HTTP response; whatever it wrote before is still there.
Answered(r, code) == [http EXCEPT ![r] = Append(@, code)]
Logged(r, status) == [audit EXCEPT ![r] = Append(@, status)]
\* The request arrives.
Arrives(r) == http[r] = <<>> /\ audit[r] = <<>>

\* /api/actions/proxy asks for a registered token, /api/commands for nothing more, and
\* /api/commands/session for a session that is not closed: sessions live in memory, touch
\* nothing else, and may be open or closed whenever they are looked at (getSession).
Endpoints == {"proxy", "command", "open session", "closed session"}
Admits(e, d) ==
    /\ e = "proxy" => d \in tokens
    /\ e # "closed session"

\* 401, 404, 410 or 503: not admitted, or the device cannot be reached.
refuse(r, e) ==
    LET d == TargetOf[r] IN
    /\ Arrives(r)
    /\ ~Admits(e, d) \/ ~Online(d)
    /\ http' = Answered(r, "refused")
    /\ UNCHANGED <<connVars, pending, timers, audit, crashes, agentVars, storeVars>>

\* The proxied status command is answered from the map, without asking the device.
answerStatus(r) ==
    LET d == TargetOf[r] IN
    /\ Arrives(r)
    /\ Admits("proxy", d) /\ Online(d)
    /\ audit' = [audit EXCEPT ![r] = <<"pending", "success">>]
    /\ http' = Answered(r, "connected")
    /\ UNCHANGED <<connVars, pending, timers, crashes, agentVars, storeVars>>

\* Mutant: the timer of a session's command is forgotten.
ArmedUnlessSession(r, e) == IF e = "open session" THEN timers ELSE timers \cup {r}
\* setTimeout, 30 s, before the request is sent.
Armed(r, e) == timers \cup {r}

\* The request is logged, registered and sent to the device; a session's is counted.
forward(r, e) ==
    LET d == TargetOf[r] IN
    /\ Arrives(r)
    /\ Admits(e, d) /\ Online(d)
    /\ audit' = Logged(r, "pending")
    /\ pending' = pending \cup {r}
    /\ timers' = Armed(r, e)
    /\ toAgent' = [toAgent EXCEPT ![devices[d]] = @ \cup {Request(r)}]
    /\ UNCHANGED <<socket, authed, devices, ticks, toRelay, http, crashes, agentVars, storeVars>>

\* The timer of a request.
timeoutFires(r) ==
    /\ r \in timers
    /\ timers' = timers \ {r}
    /\ pending' = pending \ {r}
    /\ http' = Answered(r, "timeout")
    /\ audit' = Logged(r, "timeout")
    /\ UNCHANGED <<connVars, crashes,
                   agentVars, storeVars>>

\* Mutants: the timer stays armed; a response answers whatever request is pending.
DisarmedNever(r) == timers
AnswersAnyPending(m) == pending
\* clearTimeout.
Disarmed(r) == timers \ {r}
\* pendingRequests.get(requestId): none once the request timed out.
Correlated(m) == pending \cap {m.request}
Verdict(m) == IF m.ok THEN "success" ELSE "error"

\* The message command_response, on any socket.  The response to a request that is no
\* longer pending is dropped.
commandResponse(c, m) ==
    /\ m \in toRelay[c] /\ m.type = "command_response"
    /\ socket[c] \in {"open", "closing"}
    /\ toRelay' = [toRelay EXCEPT ![c] = @ \ {m}]
    /\ IF Correlated(m) = {}
       THEN UNCHANGED requestVars
       ELSE LET r == CHOOSE q \in Correlated(m) : TRUE IN
            /\ pending' = pending \ {r}
            /\ timers' = Disarmed(r)
            /\ http' = Answered(r, IF m.ok THEN "ok" ELSE "failed")
            /\ audit' = Logged(r, Verdict(m))
    /\ UNCHANGED <<socket, authed, devices, ticks, toAgent, crashes,
                   agentVars, storeVars>>

-----------------------------------------------------------------------------
(* The agent: bridge-client.ts *)

agentPong(c) ==
    /\ agentEnd[c] = "open" /\ Ping \in toAgent[c]
    /\ toAgent' = [toAgent EXCEPT ![c] = @ \ {Ping}]
    /\ toRelay' = [toRelay EXCEPT ![c] = @ \cup {Pong}]
    /\ UNCHANGED <<socket, authed, devices, ticks, crashes,
                   agentVars, storeVars, requestVars>>

\* handleCommandRequest begins; it is not awaited, so others may begin before it ends.
commandBegins(c, r) ==
    /\ agentEnd[c] = "open" /\ Request(r) \in toAgent[c]
    /\ toAgent' = [toAgent EXCEPT ![c] = @ \ {Request(r)}]
    /\ running' = [running EXCEPT ![c] = @ \cup {r}]
    /\ UNCHANGED <<socket, authed, devices, ticks, toRelay, agentEnd, carriedOut, crashes,
                   storeVars, requestVars>>

\* It ends, and the response is sent if the socket is still there.  A command that
\* fails may have changed files before it did (the index could not be rebuilt).
commandEnds(c, r, ok) ==
    /\ r \in running[c]
    /\ running' = [running EXCEPT ![c] = @ \ {r}]
    /\ carriedOut' = [carriedOut EXCEPT ![r] = IF ok THEN @ + 1 ELSE @]
    /\ toRelay' = IF agentEnd[c] = "open"
                  THEN [toRelay EXCEPT ![c] = @ \cup {Response(r, ok)}] ELSE toRelay
    /\ UNCHANGED <<socket, authed, agentEnd, devices, ticks, toAgent, crashes, storeVars, requestVars>>

-----------------------------------------------------------------------------
(* Faults *)

\* The agent loses its connection, or its process dies; the relay may not notice.
agentLoses(c, how) ==
    /\ agentEnd[c] \in {"open", "lost"} \ {how}
    /\ agentEnd' = [agentEnd EXCEPT ![c] = how]
    /\ running' = IF how = "dead" THEN [running EXCEPT ![c] = {}] ELSE running
    /\ UNCHANGED <<connVars, carriedOut, crashes,
                   storeVars, requestVars>>

\* The relay dies and is started again: what it kept in memory is gone, a registration
\* may have reached the token file only.
relayRestarts(unrecorded) ==
    /\ crashes < MaxCrashes
    /\ crashes' = crashes + 1
    /\ unrecorded \subseteq Devices \ (tokens \cup registry)
    /\ tokens' = tokens \cup unrecorded
    /\ socket' = [c \in Sockets |-> IF socket[c] = "absent" THEN "absent" ELSE "closed"]
    /\ agentEnd' = [c \in Sockets |-> IF agentEnd[c] = "open" THEN "lost" ELSE agentEnd[c]]
    /\ authed' = <<>>
    /\ devices' = [d \in Devices |-> None]
    /\ ticks' = [d \in Devices |-> 0]
    /\ toAgent' = [c \in Sockets |-> {}]
    /\ toRelay' = [c \in Sockets |-> {}]
    /\ pending' = {} /\ timers' = {}
    /\ http' = [r \in Requests |-> IF r \in pending THEN Answered(r, "broken")[r] ELSE http[r]]
    /\ UNCHANGED <<registry, running, carriedOut, audit>>

-----------------------------------------------------------------------------
RelayNext ==
    \/ \E d \in Devices :
          register(d)
    \/ \E c \in Sockets :
          \/ connect(c) \/ authenticate(c) \/ pong(c) \/ closeEvent(c) \/ agentPong(c)
          \/ \E m \in toRelay[c] : commandResponse(c, m)
          \/ \E r \in Requests :
                commandBegins(c, r) \/ \E ok \in BOOLEAN : commandEnds(c, r, ok)
          \/ \E how \in {"lost", "dead"} : agentLoses(c, how)
    \/ heartbeat
    \/ \E r \in Requests :
          \/ \E e \in Endpoints : refuse(r, e) \/ forward(r, e)
          \/ answerStatus(r) \/ timeoutFires(r)
    \/ \E unrecorded \in SUBSET Devices : relayRestarts(unrecorded)

RelaySpec == RelayInit /\ [][RelayNext]_allVars

\* The relay's event loop goes on: its timers fire, the heartbeat beats, what arrives is
\* handled, and a socket it closes is closed in the end (the WebSocket library ends the
\* handshake after 30 s).  Nothing is assumed of agents, callers and the network.
FairRelaySpec ==
    /\ RelaySpec
    /\ WF_allVars(heartbeat)
    /\ \A c \in Sockets : WF_allVars(socket[c] = "closing" /\ closeEvent(c))
    /\ \A r \in Requests : WF_allVars(timeoutFires(r))

-----------------------------------------------------------------------------
\* The types of the stores, the map, the sockets and the requests.
RelayTypeOK ==
    /\ tokens \subseteq Devices /\ registry \subseteq Devices
    /\ socket \in [Sockets -> {"absent", "open", "closing", "closed"}]
    /\ authed \in Seq(Sockets)
    /\ agentEnd \in [Sockets -> {"absent", "open", "lost", "dead"}]
    /\ devices \in [Devices -> Sockets \cup {None}]
    /\ ticks \in [Devices -> 0 .. StaleAfter]
    /\ toAgent \in [Sockets -> SUBSET Messages] /\ toRelay \in [Sockets -> SUBSET Messages]
    /\ running \in [Sockets -> SUBSET Requests]
    /\ carriedOut \in [Requests -> Nat]
    /\ pending \subseteq Requests /\ timers \subseteq Requests
    /\ http \in [Requests -> Seq({"refused", "connected", "ok", "failed", "timeout", "broken"})]
    /\ audit \in [Requests -> Seq({"pending", "success", "error", "timeout"})]
    /\ crashes \in 0 .. MaxCrashes

\* The relay writes at most one response to an HTTP request, although the timer and a
\* late command_response race for it; a second writeHead would end the process.
AnsweredOnce == \A r \in Requests : Len(http[r]) <= 1

\* A caller that is told of success was told by the device that carried its own command
\* out, exactly once, whatever was lost, reordered, timed out or reconnected.
SuccessIsTrue ==
    \A r \in Requests : "ok" \in ToSet(http[r]) => carriedOut[r] = 1

\* The audit file tells what happened to every request the relay did not die with: one
\* record when it was accepted and one that agrees with the response it was given.
AuditAgrees ==
    \A r \in Requests : audit[r] # <<>> =>
        \/ r \in pending /\ audit[r] = <<"pending">> /\ http[r] = <<>>
        \/ r \notin pending /\ http[r] = <<"broken">> /\ audit[r] = <<"pending">>
        \/ r \notin pending /\ \E answer \in {<<"connected", "success">>, <<"ok", "success">>, <<"failed", "error">>, <<"timeout", "timeout">>} :
              http[r] = <<answer[1]>> /\ audit[r] = <<"pending", answer[2]>>

\* The connection of a device that authenticated last.
Newest(d) ==
    LET mine == {n \in DOMAIN authed : SocketOf[authed[n]] = d}
    IN  IF mine = {} THEN None ELSE authed[Max(mine)]

\* The map never names a connection that was replaced or has ended: no command is sent
\* into a socket that another has superseded, however late the end of one is noticed.
MapIsCurrent ==
    \A d \in Devices : devices[d] # None =>
        devices[d] = Newest(d) /\ socket[devices[d]] \in {"open", "closing"}

\* Every request the relay receives is answered: a device that dies, hangs, loses its
\* connection or is replaced leaves no caller waiting for ever.
EveryRequestAnswered == \A r \in Requests : r \in pending ~> http[r] # <<>>

\* A connection whose agent is gone leaves the map, although the network reports nothing.
DeadConnectionDropped ==
    \A d \in Devices, c \in Sockets :
        devices[d] = c /\ agentEnd[c] \in {"lost", "dead"} ~> devices[d] # c

\* The connection of a device that authenticated last, and is still open, is the one that
\* serves it: what "replacing stale connection" (server.ts:1112) and the answer "Your
\* device is not connected to the relay" (server.ts:537) say.
ReconnectedIsServed ==
    \A d \in Devices : Newest(d) # None /\ socket[Newest(d)] = "open" => devices[d] = Newest(d)
=============================================================================
