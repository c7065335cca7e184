---------------------------- MODULE RelayProofs ----------------------------
(* Proofs about the relay: an HTTP request is answered once and the audit     *)
(* file agrees with the answer, a success that is reported was carried out    *)
(* exactly once, and the map of devices names no superseded connection.       *)
EXTENDS Relay, TLAPS

\* A request waits exactly while its timer is armed; one that was never accepted has no
\* record, and at most a refusal.
Accounted ==
    /\ timers = pending
    /\ \A r \in Requests :
          /\ r \in pending => audit[r] = <<"pending">> /\ http[r] = <<>>
          /\ audit[r] = <<>> => r \notin pending /\ http[r] \in {<<>>, <<"refused">>}

\* A command is in one place at a time: under way to the agent, being carried out, or
\* over; until it is over nothing has been carried out and nothing has been reported.
Under(r, c) == Request(r) \in toAgent[c]
Works(r, c) == r \in running[c]
OnePlace ==
    \A r \in Requests, c \in Sockets :
        Under(r, c) \/ Works(r, c) =>
            /\ ~Arrives(r)
            /\ carriedOut[r] = 0
            /\ ~(Under(r, c) /\ Works(r, c))
            /\ \A b \in Sockets : Under(r, b) \/ Works(r, b) => b = c

\* A response that reports success follows the command that was carried out.
Reported ==
    \A r \in Requests :
        /\ Arrives(r) => carriedOut[r] = 0
        /\ carriedOut[r] \in {0, 1}
        /\ \A c \in Sockets : Response(r, TRUE) \in toRelay[c] => carriedOut[r] = 1

\* The map names the last connection that authenticated, and it has not ended.
LastOf(d, n) ==
    /\ SocketOf[authed[n]] = d
    /\ \A m \in DOMAIN authed : SocketOf[authed[m]] = d => m <= n
ServedByLast ==
    \A d \in Devices : devices[d] # None =>
        /\ \E n \in DOMAIN authed : authed[n] = devices[d] /\ LastOf(d, n)
        /\ socket[devices[d]] \in {"open", "closing"}

RelayInv ==
    RelayTypeOK /\ Accounted /\ AuditAgrees /\ OnePlace /\ Reported /\ SuccessIsTrue /\ ServedByLast

-----------------------------------------------------------------------------
(* Messages *)

\* A message that carries a verdict is the response to some request.
LEMMA ResponseIsAbout ==
    ASSUME NEW m \in Messages, m.type = "command_response"
    PROVE  \E r \in Requests, ok \in BOOLEAN : m = Response(r, ok)
  BY DEF Messages, Plain, Request, Response

\* What the fields of a response say.
LEMMA ResponseFields ==
    ASSUME NEW r \in Requests, NEW ok \in BOOLEAN
    PROVE  /\ Response(r, ok) \in Messages
           /\ Response(r, ok).type = "command_response"
           /\ Response(r, ok).request = r
           /\ Response(r, ok).ok = ok
  BY DEF Messages, Response

\* Messages of different kinds, or about different requests, are different.
LEMMA MessagesDiffer ==
    ASSUME NEW r \in Requests, NEW q \in Requests, NEW ok \in BOOLEAN, NEW b \in BOOLEAN
    PROVE  /\ Request(r) = Request(q) => r = q
           /\ Response(r, ok) = Response(q, b) => r = q /\ ok = b
           /\ Request(r) # Response(q, b)
           /\ Request(r) # Ping /\ Request(r) # Pong /\ Request(r) # Auth
           /\ Response(r, ok) # Ping /\ Response(r, ok) # Pong /\ Response(r, ok) # Auth
<1>1. /\ Request(r).type = "command_request" /\ Request(r).request = r
      /\ Request(q).request = q
  BY DEF Request
<1>2. /\ Response(r, ok).request = r /\ Response(q, b).request = q
      /\ Response(r, ok).ok = ok /\ Response(q, b).ok = b
      /\ Response(q, b).type = "command_response" /\ Response(r, ok).type = "command_response"
  BY DEF Response
<1>3. Ping.type = "ping" /\ Pong.type = "pong" /\ Auth.type = "auth"
  BY DEF Ping, Pong, Auth
<1>. QED  BY <1>1, <1>2, <1>3

\* The messages that can be on a socket.
LEMMA MessageTypes ==
    /\ Ping \in Messages /\ Pong \in Messages /\ Auth \in Messages
    /\ \A r \in Requests : Request(r) \in Messages
    /\ \A r \in Requests, ok \in BOOLEAN : Response(r, ok) \in Messages
  BY DEF Messages, Plain, Ping, Pong, Auth

\* What a response does: the request it is about is settled if it is still pending.
LEMMA ResponseEffect ==
    ASSUME RelayTypeOK, NEW c \in Sockets, NEW m \in toRelay[c], commandResponse(c, m)
    PROVE  \E r \in Requests, ok \in BOOLEAN :
              /\ m = Response(r, ok) /\ Response(r, ok) \in toRelay[c]
              /\ toRelay' = [toRelay EXCEPT ![c] = @ \ {Response(r, ok)}]
              /\ r \notin pending => UNCHANGED requestVars
              /\ r \in pending =>
                    /\ pending' = pending \ {r} /\ timers' = timers \ {r}
                    /\ http' = [http EXCEPT ![r] = Append(@, IF ok THEN "ok" ELSE "failed")]
                    /\ audit' = [audit EXCEPT ![r] = Append(@, IF ok THEN "success" ELSE "error")]
<1>1. m \in Messages /\ m.type = "command_response"
  BY DEF RelayTypeOK, commandResponse
<1>2. PICK r \in Requests, ok \in BOOLEAN : m = Response(r, ok)
  BY <1>1, ResponseIsAbout
<1>3. m.request = r /\ m.ok = ok
  BY <1>2, ResponseFields
<1>4. Correlated(m) = pending \cap {r}
  BY <1>3 DEF Correlated
<1>5. CASE r \notin pending
  <2>1. Correlated(m) = {}
    BY <1>4, <1>5
  <2>. QED  BY <1>2, <1>5, <2>1 DEF commandResponse
<1>6. CASE r \in pending
  <2>1. Correlated(m) # {} /\ (CHOOSE q \in Correlated(m) : TRUE) = r
    BY <1>4, <1>6
  <2>. QED  BY <1>2, <1>3, <1>6, <2>1 DEF commandResponse, Answered, Logged, Disarmed, Verdict
<1>. QED  BY <1>5, <1>6

-----------------------------------------------------------------------------
(* Types *)

Agent(c) ==
    \/ agentPong(c)
    \/ \E r \in Requests : commandBegins(c, r) \/ \E ok \in BOOLEAN : commandEnds(c, r, ok)
    \/ \E how \in {"lost", "dead"} : agentLoses(c, how)

Connection(c) == connect(c) \/ authenticate(c) \/ pong(c) \/ closeEvent(c)

LEMMA RelayTypeStart == RelayInit => RelayTypeOK
  BY RelayAssumption DEF RelayInit, RelayTypeOK

LEMMA ConnectionKeepsType ==
    ASSUME RelayTypeOK, NEW c \in Sockets, Connection(c)
    PROVE  RelayTypeOK'
<1>. USE MessageTypes, RelayAssumption
<1>1. CASE connect(c)
  BY <1>1 DEF connect, RelayTypeOK, storeVars, requestVars
<1>2. CASE authenticate(c)
  <2>. USE DEF authenticate, RelayTypeOK, agentVars, requestVars
  <2>1. CASE SocketOf[c] \notin tokens
    BY <1>2, <2>1
  <2>2. CASE SocketOf[c] \in tokens
    <3>1. SocketOf[c] \in Devices /\ NewEntry(SocketOf[c], c) \in Sockets
      BY DEF NewEntry
    <3>2. authed' \in Seq(Sockets)
      <4>1. authed' = Append(authed, c) /\ authed \in Seq(Sockets)
        BY <1>2, <2>2
      <4>. QED  BY ONLY <4>1, c \in Sockets
    <3>3. socket' \in [Sockets -> {"absent", "open", "closing", "closed"}]
      <4>1. socket' \in {socket, [socket EXCEPT ![devices[SocketOf[c]]] = "closing"]}
        BY <1>2, <2>2
      <4>2. socket \in [Sockets -> {"absent", "open", "closing", "closed"}]
        OBVIOUS
      <4>. QED  BY ONLY <4>1, <4>2
    <3>4. 0 \in 0 .. StaleAfter
      OBVIOUS
    <3>. QED  BY <1>2, <2>2, <3>1, <3>2, <3>3, <3>4
  <2>. QED  BY <2>1, <2>2
<1>3. CASE pong(c)
  BY <1>3 DEF pong, RelayTypeOK, agentVars, storeVars, requestVars
<1>4. CASE closeEvent(c)
  <2>1. 0 \in 0 .. StaleAfter
    OBVIOUS
  <2>. QED  BY <1>4, <2>1 DEF closeEvent, RelayTypeOK, storeVars, requestVars
<1>. QED  BY <1>1, <1>2, <1>3, <1>4 DEF Connection

LEMMA HeartbeatKeepsType ==
    ASSUME RelayTypeOK, heartbeat
    PROVE  RelayTypeOK'
<1>1. \A d \in Devices : Aged(d) \in 0 .. StaleAfter
  BY RelayAssumption DEF RelayTypeOK, Aged
<1>. QED  BY <1>1, MessageTypes DEF heartbeat, RelayTypeOK, agentVars, storeVars, requestVars

LEMMA AgentKeepsType ==
    ASSUME RelayTypeOK, NEW c \in Sockets, Agent(c)
    PROVE  RelayTypeOK'
<1>. USE MessageTypes, RelayAssumption
<1>1. CASE agentPong(c)
  BY <1>1 DEF agentPong, RelayTypeOK, agentVars, storeVars, requestVars
<1>2. ASSUME NEW r \in Requests, commandBegins(c, r) PROVE RelayTypeOK'
  BY <1>2 DEF commandBegins, RelayTypeOK, storeVars, requestVars
<1>3. ASSUME NEW r \in Requests, NEW ok \in BOOLEAN, commandEnds(c, r, ok) PROVE RelayTypeOK'
  BY <1>3 DEF commandEnds, RelayTypeOK, storeVars, requestVars
<1>4. ASSUME NEW how \in {"lost", "dead"}, agentLoses(c, how) PROVE RelayTypeOK'
  BY <1>4 DEF agentLoses, RelayTypeOK, connVars, storeVars, requestVars
<1>. QED  BY <1>1, <1>2, <1>3, <1>4 DEF Agent

LEMMA RequestKeepsType ==
    ASSUME RelayTypeOK, NEW r \in Requests,
           \/ \E e \in Endpoints : refuse(r, e) \/ forward(r, e)
           \/ answerStatus(r) \/ timeoutFires(r)
    PROVE  RelayTypeOK'
<1>. USE MessageTypes, RelayAssumption
<1>1. ASSUME NEW e \in Endpoints, refuse(r, e) PROVE RelayTypeOK'
  BY <1>1 DEF refuse, Answered, RelayTypeOK, connVars, agentVars, storeVars
<1>2. ASSUME NEW e \in Endpoints, forward(r, e) PROVE RelayTypeOK'
  <2>1. audit' \in [Requests -> Seq({"pending", "success", "error", "timeout"})]
    BY <1>2 DEF forward, Logged, RelayTypeOK
  <2>. QED  BY <1>2, <2>1 DEF forward, Armed, RelayTypeOK, agentVars, storeVars
<1>3. CASE answerStatus(r)
  <2>1. <<"pending", "success">> \in Seq({"pending", "success", "error", "timeout"})
    OBVIOUS
  <2>. QED  BY <1>3, <2>1 DEF answerStatus, Answered, RelayTypeOK, connVars, agentVars, storeVars
<1>4. CASE timeoutFires(r)
  <2>1. audit' \in [Requests -> Seq({"pending", "success", "error", "timeout"})]
    BY <1>4 DEF timeoutFires, Logged, RelayTypeOK
  <2>2. http' \in [Requests -> Seq({"refused", "connected", "ok", "failed", "timeout", "broken"})]
    BY <1>4 DEF timeoutFires, Answered, RelayTypeOK
  <2>. QED  BY <1>4, <2>1, <2>2 DEF timeoutFires, RelayTypeOK, connVars, agentVars, storeVars
<1>. QED  BY <1>1, <1>2, <1>3, <1>4

LEMMA ResponseKeepsType ==
    ASSUME RelayTypeOK, NEW c \in Sockets, NEW m \in toRelay[c], commandResponse(c, m)
    PROVE  RelayTypeOK'
<1>1. PICK r \in Requests, ok \in BOOLEAN :
              /\ toRelay' = [toRelay EXCEPT ![c] = @ \ {Response(r, ok)}]
              /\ r \notin pending => UNCHANGED requestVars
              /\ r \in pending =>
                    /\ pending' = pending \ {r} /\ timers' = timers \ {r}
                    /\ http' = [http EXCEPT ![r] = Append(@, IF ok THEN "ok" ELSE "failed")]
                    /\ audit' = [audit EXCEPT ![r] = Append(@, IF ok THEN "success" ELSE "error")]
  BY ResponseEffect
<1>2. pending' \subseteq Requests /\ timers' \subseteq Requests
  BY <1>1 DEF RelayTypeOK, requestVars
<1>3. http' \in [Requests -> Seq({"refused", "connected", "ok", "failed", "timeout", "broken"})]
  <2>1. Append(http[r], IF ok THEN "ok" ELSE "failed")
            \in Seq({"refused", "connected", "ok", "failed", "timeout", "broken"})
    BY DEF RelayTypeOK
  <2>. QED  BY <1>1, <2>1 DEF RelayTypeOK, requestVars
<1>4. audit' \in [Requests -> Seq({"pending", "success", "error", "timeout"})]
  <2>1. Append(audit[r], IF ok THEN "success" ELSE "error")
            \in Seq({"pending", "success", "error", "timeout"})
    BY DEF RelayTypeOK
  <2>. QED  BY <1>1, <2>1 DEF RelayTypeOK, requestVars
<1>. QED  BY <1>1, <1>2, <1>3, <1>4 DEF commandResponse, RelayTypeOK, agentVars, storeVars

LEMMA RestartKeepsType ==
    ASSUME RelayTypeOK, NEW unrecorded \in SUBSET Devices, relayRestarts(unrecorded)
    PROVE  RelayTypeOK'
<1>1. http' \in [Requests -> Seq({"refused", "connected", "ok", "failed", "timeout", "broken"})]
  <2>1. \A r \in Requests : Answered(r, "broken")[r] = Append(http[r], "broken")
    BY DEF Answered, RelayTypeOK
  <2>2. \A r \in Requests : Append(http[r], "broken")
            \in Seq({"refused", "connected", "ok", "failed", "timeout", "broken"})
    BY DEF RelayTypeOK
  <2>. QED  BY <2>1, <2>2 DEF relayRestarts, RelayTypeOK
<1>2. 0 \in 0 .. StaleAfter /\ crashes' \in 0 .. MaxCrashes
  BY RelayAssumption DEF relayRestarts, RelayTypeOK
<1>3. authed' \in Seq(Sockets)
  BY DEF relayRestarts
<1>. QED  BY <1>1, <1>2, <1>3 DEF relayRestarts, RelayTypeOK

-----------------------------------------------------------------------------
(* Answers and the audit file *)

LEMMA OneAppended ==
    ASSUME NEW x, NEW y
    PROVE  /\ Append(<<>>, x) = <<x>>
           /\ Append(<<x>>, y) = <<x, y>>
           /\ <<x, y>> # <<>> /\ <<x>> # <<>> /\ <<x, y>> # <<x>>
<1>. DEFINE S == {x, y}
<1>1. <<>> \in Seq(S) /\ <<x>> \in Seq(S) /\ <<x, y>> \in Seq(S)
  OBVIOUS
<1>2. Len(<<>>) = 0 /\ Len(<<x>>) = 1 /\ Len(<<x, y>>) = 2
  OBVIOUS
<1>3. Append(<<>>, x) = <<x>>
  BY <1>1
<1>4. Append(<<x>>, y) = <<x, y>>
  <2>1. /\ Append(<<x>>, y) \in Seq(S) /\ Len(Append(<<x>>, y)) = 2
        /\ Append(<<x>>, y)[1] = x /\ Append(<<x>>, y)[2] = y
    BY <1>1, <1>2
  <2>. DEFINE two == Append(<<x>>, y)
  <2>2. two \in [1 .. 2 -> S]
    <3>1. ASSUME NEW s \in Seq(S), Len(s) = 2 PROVE s \in [1 .. 2 -> S]
      BY <3>1
    <3>. HIDE DEF two, S
    <3>2. two \in Seq(S) /\ Len(two) = 2
      BY <2>1 DEF two
    <3>. QED  BY <3>1, <3>2
  <2>3. <<x, y>> \in [1 .. 2 -> S] /\ <<x, y>>[1] = x /\ <<x, y>>[2] = y
    BY <1>1, <1>2
  <2>4. \A n \in 1 .. 2 : n = 1 \/ n = 2
    OBVIOUS
  <2>5. ASSUME NEW f \in [1 .. 2 -> S], NEW g \in [1 .. 2 -> S], f[1] = g[1], f[2] = g[2]
        PROVE  f = g
    BY <2>4, <2>5
  <2>6. two[1] = <<x, y>>[1] /\ two[2] = <<x, y>>[2]
    BY <2>1, <2>3
  <2>. HIDE DEF two, S
  <2>7. two = <<x, y>>
    BY <2>2, <2>3, <2>5, <2>6
  <2>. QED  BY <2>7 DEF two
<1>. QED  BY <1>2, <1>3, <1>4

Answers == {<<"connected", "success">>, <<"ok", "success">>, <<"failed", "error">>,
            <<"timeout", "timeout">>}

\* Settling a pending request: one answer, one record that agrees with it.
LEMMA SettlingKeepsAudit ==
    ASSUME RelayTypeOK, Accounted, AuditAgrees, NEW r \in pending,
           NEW code, NEW status, <<code, status>> \in Answers,
           pending' = pending \ {r}, timers' = timers \ {r},
           http' = [http EXCEPT ![r] = Append(@, code)],
           audit' = [audit EXCEPT ![r] = Append(@, status)]
    PROVE  Accounted' /\ AuditAgrees'
<1>0. r \in Requests /\ http \in [Requests -> Seq({"refused", "connected", "ok", "failed", "timeout", "broken"})]
         /\ audit \in [Requests -> Seq({"pending", "success", "error", "timeout"})]
  BY DEF RelayTypeOK
<1>1. http[r] = <<>> /\ audit[r] = <<"pending">>
  BY <1>0 DEF Accounted
<1>2. http'[r] = <<code>> /\ audit'[r] = <<"pending", status>>
  BY <1>0, <1>1, OneAppended
<1>3. \A q \in Requests : q # r => http'[q] = http[q] /\ audit'[q] = audit[q]
                                   /\ (q \in pending' <=> q \in pending)
  BY <1>0
<1>4. Accounted'
  <2>1. timers' = pending'
    BY DEF Accounted
  <2>2. audit'[r] # <<>> /\ r \notin pending'
    BY <1>2, OneAppended
  <2>. QED  BY <1>3, <2>1, <2>2 DEF Accounted
<1>5. AuditAgrees'
  <2>1. ASSUME NEW q \in Requests, q # r, audit'[q] # <<>>
        PROVE  \/ q \in pending' /\ audit'[q] = <<"pending">> /\ http'[q] = <<>>
               \/ q \notin pending' /\ http'[q] = <<"broken">> /\ audit'[q] = <<"pending">>
               \/ q \notin pending' /\ \E answer \in Answers :
                     http'[q] = <<answer[1]>> /\ audit'[q] = <<"pending", answer[2]>>
    BY <1>3, <2>1 DEF AuditAgrees, Answers
  <2>2. r \notin pending' /\ \E answer \in Answers :
            http'[r] = <<answer[1]>> /\ audit'[r] = <<"pending", answer[2]>>
    <3>1. <<code, status>>[1] = code /\ <<code, status>>[2] = status
      OBVIOUS
    <3>. QED  BY <1>2, <3>1
  <2>. QED  BY <2>1, <2>2 DEF AuditAgrees, Answers
<1>. QED  BY <1>4, <1>5

LEMMA QuietKeepsAudit ==
    ASSUME Accounted, AuditAgrees, UNCHANGED requestVars
    PROVE  Accounted' /\ AuditAgrees'
  BY DEF Accounted, AuditAgrees, requestVars

LEMMA RequestKeepsAudit ==
    ASSUME RelayTypeOK, Accounted, AuditAgrees, NEW r \in Requests,
           \/ \E e \in Endpoints : refuse(r, e) \/ forward(r, e)
           \/ answerStatus(r) \/ timeoutFires(r)
    PROVE  Accounted' /\ AuditAgrees'
<1>0. r \in Requests /\ http \in [Requests -> Seq({"refused", "connected", "ok", "failed", "timeout", "broken"})]
         /\ audit \in [Requests -> Seq({"pending", "success", "error", "timeout"})]
  BY DEF RelayTypeOK
<1>1. ASSUME NEW e \in Endpoints, refuse(r, e) PROVE Accounted' /\ AuditAgrees'
  <2>1. http[r] = <<>> /\ audit[r] = <<>> /\ r \notin pending /\ UNCHANGED <<pending, timers, audit>>
    BY <1>1 DEF refuse, Arrives, Accounted
  <2>2. http' = [http EXCEPT ![r] = <<"refused">>]
    BY <1>0, <1>1, <2>1, OneAppended DEF refuse, Answered
  <2>. QED  BY <1>0, <2>1, <2>2 DEF Accounted, AuditAgrees
<1>2. ASSUME NEW e \in Endpoints, forward(r, e) PROVE Accounted' /\ AuditAgrees'
  <2>1. /\ http[r] = <<>> /\ audit[r] = <<>> /\ r \notin pending /\ UNCHANGED http
        /\ pending' = pending \cup {r} /\ timers' = timers \cup {r}
    BY <1>2 DEF forward, Arrives, Accounted, Armed
  <2>2. audit' = [audit EXCEPT ![r] = <<"pending">>]
    BY <1>0, <1>2, <2>1, OneAppended DEF forward, Logged
  <2>3. <<"pending">> # <<>>
    OBVIOUS
  <2>. QED  BY <1>0, <2>1, <2>2, <2>3 DEF Accounted, AuditAgrees
<1>3. CASE answerStatus(r)
  <2>1. http[r] = <<>> /\ audit[r] = <<>> /\ r \notin pending /\ UNCHANGED <<pending, timers>>
    BY <1>3 DEF answerStatus, Arrives, Accounted
  <2>2. /\ http' = [http EXCEPT ![r] = <<"connected">>]
        /\ audit' = [audit EXCEPT ![r] = <<"pending", "success">>]
    BY <1>0, <1>3, <2>1, OneAppended DEF answerStatus, Answered
  <2>3. <<"pending", "success">> # <<>>
    OBVIOUS
  <2>4. Accounted'
    BY <1>0, <2>1, <2>2, <2>3 DEF Accounted
  <2>5. ASSUME NEW q \in Requests, q # r, audit'[q] # <<>>
        PROVE  \/ q \in pending' /\ audit'[q] = <<"pending">> /\ http'[q] = <<>>
               \/ q \notin pending' /\ http'[q] = <<"broken">> /\ audit'[q] = <<"pending">>
               \/ q \notin pending' /\ \E answer \in Answers :
                     http'[q] = <<answer[1]>> /\ audit'[q] = <<"pending", answer[2]>>
    BY <1>0, <2>1, <2>2, <2>5 DEF AuditAgrees, Answers
  <2>6. r \notin pending' /\ \E answer \in Answers :
            http'[r] = <<answer[1]>> /\ audit'[r] = <<"pending", answer[2]>>
    <3>1. <<"connected", "success">>[1] = "connected" /\ <<"connected", "success">>[2] = "success"
      OBVIOUS
    <3>. QED  BY <1>0, <2>1, <2>2, <3>1 DEF Answers
  <2>7. AuditAgrees'
    BY <2>5, <2>6 DEF AuditAgrees, Answers
  <2>. QED  BY <2>4, <2>7
<1>4. CASE timeoutFires(r)
  <2>1. r \in pending /\ <<"timeout", "timeout">> \in Answers
    BY <1>4 DEF timeoutFires, Accounted, Answers
  <2>. QED  BY <1>4, <2>1, SettlingKeepsAudit DEF timeoutFires, Answered, Logged
<1>. QED  BY <1>1, <1>2, <1>3, <1>4

LEMMA ResponseKeepsAudit ==
    ASSUME RelayTypeOK, Accounted, AuditAgrees,
           NEW c \in Sockets, NEW m \in toRelay[c], commandResponse(c, m)
    PROVE  Accounted' /\ AuditAgrees'
<1>1. PICK r \in Requests, ok \in BOOLEAN :
              /\ r \notin pending => UNCHANGED requestVars
              /\ r \in pending =>
                    /\ pending' = pending \ {r} /\ timers' = timers \ {r}
                    /\ http' = [http EXCEPT ![r] = Append(@, IF ok THEN "ok" ELSE "failed")]
                    /\ audit' = [audit EXCEPT ![r] = Append(@, IF ok THEN "success" ELSE "error")]
  BY ResponseEffect
<1>2. CASE r \notin pending
  BY <1>1, <1>2, QuietKeepsAudit
<1>3. CASE r \in pending
  <2>1. <<IF ok THEN "ok" ELSE "failed", IF ok THEN "success" ELSE "error">> \in Answers
    BY DEF Answers
  <2>. QED  BY <1>1, <1>3, <2>1, SettlingKeepsAudit
<1>. QED  BY <1>2, <1>3

\* A death of the relay breaks the connections of the callers that wait.
LEMMA RestartKeepsAudit ==
    ASSUME RelayTypeOK, Accounted, AuditAgrees,
           NEW unrecorded \in SUBSET Devices, relayRestarts(unrecorded)
    PROVE  Accounted' /\ AuditAgrees'
<1>0. http \in [Requests -> Seq({"refused", "connected", "ok", "failed", "timeout", "broken"})]
  BY DEF RelayTypeOK
<1>1. pending' = {} /\ timers' = {} /\ UNCHANGED audit
  BY DEF relayRestarts
<1>2. \A r \in Requests : http'[r] = IF r \in pending THEN <<"broken">> ELSE http[r]
  <2>1. \A r \in Requests : Answered(r, "broken")[r] = Append(http[r], "broken")
    BY <1>0 DEF Answered
  <2>2. \A r \in pending : Append(http[r], "broken") = <<"broken">>
    <3>1. \A r \in pending : http[r] = <<>>
      BY DEF Accounted, RelayTypeOK
    <3>. QED  BY <3>1, OneAppended
  <2>. QED  BY <2>1, <2>2 DEF relayRestarts
<1>3. Accounted'
  BY <1>1, <1>2 DEF Accounted
<1>4. AuditAgrees'
  BY <1>1, <1>2 DEF Accounted, AuditAgrees
<1>. QED  BY <1>3, <1>4

-----------------------------------------------------------------------------
(* What is reported was carried out *)

\* The messages about requests and the work on them only become fewer.
Fewer ==
    /\ \A r \in Requests, c \in Sockets :
          /\ Under(r, c)' => Under(r, c)
          /\ Works(r, c)' => Works(r, c)
          /\ (Response(r, TRUE) \in toRelay[c])' => Response(r, TRUE) \in toRelay[c]
    /\ carriedOut' = carriedOut
    /\ \A r \in Requests : Arrives(r)' => Arrives(r)

LEMMA FewerKeepsPlaces ==
    ASSUME OnePlace, Reported, Fewer
    PROVE  OnePlace' /\ Reported'
<1>1. OnePlace'
  BY DEF OnePlace, Fewer
<1>2. Reported'
  BY DEF Reported, Fewer
<1>. QED  BY <1>1, <1>2

LEMMA AnswersLast ==
    ASSUME NEW code
    PROVE  ToSet(<<code>>) = {code}
  BY DEF ToSet

\* A request that has arrived has not arrived again.
LEMMA RequestsOnlyGrow ==
    ASSUME RelayTypeOK, UNCHANGED <<http, audit>>
    PROVE  \A r \in Requests : Arrives(r)' => Arrives(r)
  BY DEF Arrives

LEMMA ConnectionIsFewer ==
    ASSUME RelayTypeOK, NEW c \in Sockets, Connection(c)
    PROVE  Fewer
<1>0. UNCHANGED <<http, audit, running, carriedOut>>
  BY DEF Connection, connect, authenticate, pong, closeEvent, agentVars, requestVars
<1>1. \A b \in Sockets : toAgent'[b] \subseteq toAgent[b]
  BY DEF Connection, connect, authenticate, pong, closeEvent, RelayTypeOK
<1>2. \A b \in Sockets : toRelay'[b] \subseteq toRelay[b] \cup {Auth}
  BY DEF Connection, connect, authenticate, pong, closeEvent, RelayTypeOK
<1>3. \A r \in Requests : Response(r, TRUE) # Auth
  BY MessagesDiffer
<1>. QED  BY <1>0, <1>1, <1>2, <1>3, RequestsOnlyGrow DEF Fewer, Under, Works

LEMMA RelayEndsFewer ==
    ASSUME RelayTypeOK, Accounted, AuditAgrees,
           \/ heartbeat
           \/ \E d \in Devices : register(d)
           \/ \E c \in Sockets : agentPong(c) \/ \E how \in {"lost", "dead"} : agentLoses(c, how)
    PROVE  Fewer /\ http' = http
<1>0. UNCHANGED <<http, audit, carriedOut>>
  BY DEF heartbeat, register, agentPong, agentLoses, agentVars, requestVars
<1>1. \A b \in Sockets : toAgent'[b] \subseteq toAgent[b] \cup {Ping}
  <2>1. CASE heartbeat
    <3>1. \A b \in Sockets : toAgent'[b] \in {toAgent[b], toAgent[b] \cup {Ping}}
      BY <2>1 DEF heartbeat
    <3>. QED  BY <3>1
  <2>2. ASSUME NEW c \in Sockets, agentPong(c) PROVE \A b \in Sockets : toAgent'[b] \subseteq toAgent[b] \cup {Ping}
    BY <2>2 DEF agentPong, RelayTypeOK
  <2>3. ASSUME toAgent' = toAgent PROVE \A b \in Sockets : toAgent'[b] \subseteq toAgent[b] \cup {Ping}
    BY <2>3
  <2>. QED  BY <2>1, <2>2, <2>3 DEF register, agentLoses, connVars
<1>2. \A b \in Sockets : toRelay'[b] \subseteq toRelay[b] \cup {Pong}
  BY DEF heartbeat, register, agentPong, agentLoses, RelayTypeOK, connVars
<1>3. \A b \in Sockets : running'[b] \subseteq running[b]
  BY DEF heartbeat, register, agentPong, agentLoses, RelayTypeOK, agentVars
<1>4. \A r \in Requests : Response(r, TRUE) # Pong /\ Request(r) # Ping
  BY MessagesDiffer
<1>. QED  BY <1>0, <1>1, <1>2, <1>3, <1>4, RequestsOnlyGrow DEF Fewer, Under, Works

LEMMA AnsweringIsFewer ==
    ASSUME RelayTypeOK, Accounted, NEW r \in Requests,
           (\E e \in Endpoints : refuse(r, e)) \/ answerStatus(r) \/ timeoutFires(r)
    PROVE  Fewer
<1>0. UNCHANGED <<toAgent, toRelay, running, carriedOut>>
  BY DEF refuse, answerStatus, timeoutFires, connVars, agentVars
<1>1. \A q \in Requests : Arrives(q)' => Arrives(q)
  BY DEF refuse, answerStatus, timeoutFires, Answered, Logged, Arrives, RelayTypeOK, Accounted
<1>. QED  BY <1>0, <1>1 DEF Fewer, Under, Works

LEMMA RestartIsFewer ==
    ASSUME RelayTypeOK, Accounted, NEW unrecorded \in SUBSET Devices, relayRestarts(unrecorded)
    PROVE  Fewer
<1>0. UNCHANGED <<running, carriedOut, audit>>
  BY DEF relayRestarts
<1>1. \A q \in Requests : Arrives(q)' => Arrives(q)
  <2>1. \A q \in Requests : q \in pending => audit[q] # <<>>
    BY DEF Accounted
  <2>. QED  BY <1>0, <2>1 DEF relayRestarts, Arrives, RelayTypeOK
<1>2. \A b \in Sockets : toAgent'[b] = {} /\ toRelay'[b] = {}
  BY DEF relayRestarts
<1>. QED  BY <1>0, <1>1, <1>2 DEF Fewer, Under, Works

LEMMA ResponseIsFewer ==
    ASSUME RelayTypeOK, Accounted, NEW c \in Sockets, NEW m \in toRelay[c], commandResponse(c, m)
    PROVE  Fewer
<1>1. PICK r \in Requests, ok \in BOOLEAN :
              /\ toRelay' = [toRelay EXCEPT ![c] = @ \ {Response(r, ok)}]
              /\ r \notin pending => UNCHANGED requestVars
              /\ r \in pending =>
                    /\ http' = [http EXCEPT ![r] = Append(@, IF ok THEN "ok" ELSE "failed")]
                    /\ audit' = [audit EXCEPT ![r] = Append(@, IF ok THEN "success" ELSE "error")]
  BY ResponseEffect
<1>2. UNCHANGED <<toAgent, running, carriedOut>>
  BY DEF commandResponse, agentVars
<1>3. \A b \in Sockets : toRelay'[b] \subseteq toRelay[b]
  BY <1>1 DEF RelayTypeOK
<1>4. \A q \in Requests : Arrives(q)' => Arrives(q)
  <2>1. r \in pending => Append(audit[r], IF ok THEN "success" ELSE "error") # <<>>
    <3>1. ASSUME NEW s \in Seq({"pending", "success", "error", "timeout"}), NEW x \in STRING
          PROVE  Append(s, x) # <<>>
      OBVIOUS
    <3>2. audit[r] \in Seq({"pending", "success", "error", "timeout"})
      BY DEF RelayTypeOK
    <3>3. Append(audit[r], "success") # <<>> /\ Append(audit[r], "error") # <<>>
      BY <3>1, <3>2
    <3>. QED  BY <3>3
  <2>. QED  BY <1>1, <2>1 DEF Arrives, RelayTypeOK, requestVars
<1>. QED  BY <1>2, <1>3, <1>4 DEF Fewer, Under, Works

\* A request that is sent on is in no other place yet.
LEMMA ForwardKeepsPlaces ==
    ASSUME RelayTypeOK, OnePlace, Reported, NEW r \in Requests, NEW e \in Endpoints, forward(r, e)
    PROVE  OnePlace' /\ Reported'
<1>1. PICK x \in Sockets : x = devices[TargetOf[r]] /\ toAgent' = [toAgent EXCEPT ![x] = @ \cup {Request(r)}]
  BY RelayAssumption DEF forward, Online, RelayTypeOK
<1>2. UNCHANGED <<toRelay, running, carriedOut, http>> /\ Arrives(r)
  BY DEF forward, agentVars
<1>3. \A q \in Requests, b \in Sockets :
        /\ Under(q, b)' <=> Under(q, b) \/ (q = r /\ b = x)
        /\ Works(q, b)' <=> Works(q, b)
  <2>1. \A q \in Requests : Request(q) = Request(r) => q = r
    BY MessagesDiffer
  <2>. QED  BY <1>1, <1>2, <2>1 DEF Under, Works, RelayTypeOK
<1>4. \A q \in Requests : q # r => (Arrives(q)' <=> Arrives(q))
  BY <1>2 DEF forward, Logged, Arrives, RelayTypeOK
<1>5. ~Arrives(r)'
  <2>1. audit'[r] = <<"pending">>
    BY <1>2, OneAppended DEF forward, Logged, Arrives, RelayTypeOK
  <2>. QED  BY <2>1 DEF Arrives
<1>6. carriedOut[r] = 0 /\ \A b \in Sockets : ~Under(r, b) /\ ~Works(r, b)
  BY <1>2 DEF OnePlace, Reported
<1>7. OnePlace'
  <2>. SUFFICES ASSUME NEW q \in Requests, NEW c \in Sockets, Under(q, c)' \/ Works(q, c)'
                PROVE  /\ ~Arrives(q)' /\ carriedOut'[q] = 0
                       /\ ~(Under(q, c)' /\ Works(q, c)')
                       /\ \A b \in Sockets : Under(q, b)' \/ Works(q, b)' => b = c
    BY DEF OnePlace
  <2>1. CASE q = r
    BY <1>2, <1>3, <1>5, <1>6, <2>1
  <2>2. CASE q # r
    BY <1>2, <1>3, <1>4, <2>2 DEF OnePlace
  <2>. QED  BY <2>1, <2>2
<1>8. Reported'
  BY <1>2, <1>4, <1>5 DEF Reported
<1>. QED  BY <1>7, <1>8

LEMMA BeginKeepsPlaces ==
    ASSUME RelayTypeOK, OnePlace, Reported, NEW c \in Sockets, NEW r \in Requests, commandBegins(c, r)
    PROVE  OnePlace' /\ Reported'
<1>1. Under(r, c) /\ UNCHANGED <<toRelay, carriedOut, http, audit>>
  BY DEF commandBegins, Under, requestVars
<1>2. \A q \in Requests, b \in Sockets :
        /\ Under(q, b)' <=> Under(q, b) /\ ~(q = r /\ b = c)
        /\ Works(q, b)' <=> Works(q, b) \/ (q = r /\ b = c)
  <2>1. \A q \in Requests : Request(q) = Request(r) => q = r
    BY MessagesDiffer
  <2>. QED  BY <2>1 DEF commandBegins, Under, Works, RelayTypeOK
<1>3. \A q \in Requests : Arrives(q)' <=> Arrives(q)
  BY <1>1 DEF Arrives
<1>4. OnePlace'
  <2>. SUFFICES ASSUME NEW q \in Requests, NEW x \in Sockets, Under(q, x)' \/ Works(q, x)'
                PROVE  /\ ~Arrives(q)' /\ carriedOut'[q] = 0
                       /\ ~(Under(q, x)' /\ Works(q, x)')
                       /\ \A b \in Sockets : Under(q, b)' \/ Works(q, b)' => b = x
    BY DEF OnePlace
  <2>1. Under(q, x) \/ Works(q, x)
    BY <1>1, <1>2
  <2>. QED  BY <1>1, <1>2, <1>3, <2>1 DEF OnePlace
<1>5. Reported'
  BY <1>1, <1>3 DEF Reported
<1>. QED  BY <1>4, <1>5

LEMMA EndKeepsPlaces ==
    ASSUME RelayTypeOK, OnePlace, Reported, SuccessIsTrue,
           NEW c \in Sockets, NEW r \in Requests, NEW ok \in BOOLEAN, commandEnds(c, r, ok)
    PROVE  OnePlace' /\ Reported' /\ SuccessIsTrue'
<1>1. Works(r, c) /\ UNCHANGED <<toAgent, http, audit>>
  BY DEF commandEnds, Works, requestVars
<1>2. ~Arrives(r) /\ carriedOut[r] = 0
  BY <1>1 DEF OnePlace
<1>3. \A q \in Requests, b \in Sockets :
        /\ Under(q, b)' <=> Under(q, b)
        /\ Works(q, b)' <=> Works(q, b) /\ ~(q = r /\ b = c)
  BY <1>1 DEF commandEnds, Under, Works, RelayTypeOK
<1>4. \A q \in Requests : Arrives(q)' <=> Arrives(q)
  BY <1>1 DEF Arrives
<1>5. \A q \in Requests : q # r => carriedOut'[q] = carriedOut[q]
  BY DEF commandEnds, RelayTypeOK
<1>6. carriedOut'[r] = IF ok THEN 1 ELSE 0
  BY <1>2 DEF commandEnds, RelayTypeOK
<1>7. \A q \in Requests, b \in Sockets :
        (Response(q, TRUE) \in toRelay[b])' => Response(q, TRUE) \in toRelay[b] \/ (q = r /\ ok)
  <2>1. \A q \in Requests : Response(q, TRUE) = Response(r, ok) => q = r /\ ok
    BY MessagesDiffer
  <2>. QED  BY <2>1 DEF commandEnds, RelayTypeOK
<1>8. OnePlace'
  <2>. SUFFICES ASSUME NEW q \in Requests, NEW x \in Sockets, Under(q, x)' \/ Works(q, x)'
                PROVE  /\ ~Arrives(q)' /\ carriedOut'[q] = 0
                       /\ ~(Under(q, x)' /\ Works(q, x)')
                       /\ \A b \in Sockets : Under(q, b)' \/ Works(q, b)' => b = x
    BY DEF OnePlace
  <2>1. CASE q = r
    <3>1. \A b \in Sockets : ~Under(r, b)' /\ ~Works(r, b)'
      BY <1>1, <1>3 DEF OnePlace
    <3>. QED  BY <2>1, <3>1
  <2>2. CASE q # r
    BY <1>3, <1>4, <1>5, <2>2 DEF OnePlace
  <2>. QED  BY <2>1, <2>2
<1>9. \A b \in Sockets : Response(r, TRUE) \notin toRelay[b]
  <2>1. carriedOut[r] # 1
    BY <1>2
  <2>. QED  BY <2>1, Zenon DEF Reported
<1>10. Reported'
  <2>. SUFFICES ASSUME NEW q \in Requests
                PROVE  /\ Arrives(q)' => carriedOut'[q] = 0
                       /\ carriedOut'[q] \in {0, 1}
                       /\ \A b \in Sockets : (Response(q, TRUE) \in toRelay[b])' => carriedOut'[q] = 1
    BY DEF Reported
  <2>1. CASE q = r
    BY <1>2, <1>4, <1>6, <1>7, <1>9, <2>1
  <2>2. CASE q # r
    BY <1>4, <1>5, <1>7, <2>2 DEF Reported
  <2>. QED  BY <2>1, <2>2
<1>11. SuccessIsTrue'
  BY <1>1, <1>2, <1>5 DEF SuccessIsTrue
<1>. QED  BY <1>8, <1>10, <1>11

-----------------------------------------------------------------------------
\* A success that is written was reported by the device.
LEMMA ResponseIsTrue ==
    ASSUME RelayTypeOK, Accounted, Reported, SuccessIsTrue,
           NEW c \in Sockets, NEW m \in toRelay[c], commandResponse(c, m)
    PROVE  SuccessIsTrue'
<1>1. PICK r \in Requests, ok \in BOOLEAN :
              /\ Response(r, ok) \in toRelay[c]
              /\ r \notin pending => UNCHANGED requestVars
              /\ r \in pending =>
                    http' = [http EXCEPT ![r] = Append(@, IF ok THEN "ok" ELSE "failed")]
  BY ResponseEffect
<1>2. carriedOut' = carriedOut
  BY DEF commandResponse, agentVars
<1>3. CASE r \notin pending
  BY <1>1, <1>2, <1>3 DEF SuccessIsTrue, requestVars
<1>4. CASE r \in pending
  <2>1. http[r] = <<>>
    BY <1>4 DEF Accounted
  <2>2. http'[r] = <<IF ok THEN "ok" ELSE "failed">>
    BY <1>1, <1>4, <2>1, OneAppended DEF RelayTypeOK
  <2>3. "ok" \in ToSet(http'[r]) => ok
    BY <2>2, AnswersLast
  <2>4. ok => carriedOut[r] = 1
    <3>1. CASE ok = TRUE
      BY <1>1, <3>1 DEF Reported
    <3>. QED  BY <3>1
  <2>5. \A q \in Requests : q # r => http'[q] = http[q]
    BY <1>1, <1>4 DEF RelayTypeOK
  <2>. QED  BY <1>2, <2>3, <2>4, <2>5 DEF SuccessIsTrue
<1>. QED  BY <1>3, <1>4

LEMMA OtherAnswersTrue ==
    ASSUME RelayTypeOK, Accounted, SuccessIsTrue, carriedOut' = carriedOut,
           \A r \in Requests :
               \/ http'[r] = http[r]
               \/ \E code \in {"refused", "connected", "timeout", "broken"} : http'[r] = <<code>>
    PROVE  SuccessIsTrue'
<1>1. ASSUME NEW r \in Requests, "ok" \in ToSet(http'[r])
      PROVE  http'[r] = http[r]
  <2>1. \A code \in {"refused", "connected", "timeout", "broken"} : "ok" \notin ToSet(<<code>>)
    BY AnswersLast
  <2>. QED  BY <1>1, <2>1
<1>. QED  BY <1>1 DEF SuccessIsTrue

LEMMA RequestIsTrue ==
    ASSUME RelayTypeOK, Accounted, SuccessIsTrue, NEW r \in Requests,
           \/ \E e \in Endpoints : refuse(r, e) \/ forward(r, e)
           \/ answerStatus(r) \/ timeoutFires(r)
    PROVE  SuccessIsTrue'
<1>1. carriedOut' = carriedOut
  BY DEF refuse, forward, answerStatus, timeoutFires, agentVars
<1>2. http[r] = <<>> \/ http' = http
  BY DEF refuse, forward, answerStatus, timeoutFires, Arrives, Accounted
<1>3. \/ http' = http
      \/ \E code \in {"refused", "connected", "timeout", "broken"} :
            http' = [http EXCEPT ![r] = Append(@, code)]
  BY DEF refuse, forward, answerStatus, timeoutFires, Answered
<1>4. http[r] = <<>> => \A code : Append(http[r], code) = <<code>>
  BY OneAppended
<1>5. \A q \in Requests :
          \/ http'[q] = http[q]
          \/ \E code \in {"refused", "connected", "timeout", "broken"} : http'[q] = <<code>>
  BY <1>2, <1>3, <1>4 DEF RelayTypeOK
<1>. QED  BY <1>1, <1>5, OtherAnswersTrue

LEMMA RestartIsTrue ==
    ASSUME RelayTypeOK, Accounted, SuccessIsTrue,
           NEW unrecorded \in SUBSET Devices, relayRestarts(unrecorded)
    PROVE  SuccessIsTrue'
<1>1. carriedOut' = carriedOut
  BY DEF relayRestarts
<1>2. \A r \in Requests : http'[r] = IF r \in pending THEN Append(http[r], "broken") ELSE http[r]
  BY DEF relayRestarts, Answered, RelayTypeOK
<1>3. \A r \in Requests : r \in pending => Append(http[r], "broken") = <<"broken">>
  BY OneAppended DEF Accounted
<1>. QED  BY <1>1, <1>2, <1>3, OtherAnswersTrue

-----------------------------------------------------------------------------
(* The map of devices *)

LEMMA LastIsNewest ==
    ASSUME RelayTypeOK, ServedByLast
    PROVE  MapIsCurrent
<1>. SUFFICES ASSUME NEW d \in Devices, devices[d] # None
              PROVE  devices[d] = Newest(d) /\ socket[devices[d]] \in {"open", "closing"}
  BY DEF MapIsCurrent
<1>1. PICK n \in DOMAIN authed : authed[n] = devices[d] /\ LastOf(d, n)
  BY DEF ServedByLast
<1>. DEFINE mine == {m \in DOMAIN authed : SocketOf[authed[m]] = d}
<1>2. n \in mine /\ (\A m \in mine : m <= n) /\ mine \subseteq Nat
  BY <1>1 DEF LastOf, RelayTypeOK
<1>3. Max(mine) = n
  <2>. HIDE DEF mine
  <2>1. \A x \in mine : (\A y \in mine : x >= y) => x = n
    BY <1>2
  <2>2. n \in mine /\ \A y \in mine : n >= y
    BY <1>2
  <2>. QED  BY <2>1, <2>2 DEF Max
<1>4. devices[d] = Newest(d)
  BY <1>1, <1>2, <1>3 DEF Newest
<1>. QED  BY <1>4 DEF ServedByLast

\* The map, the order of the connections and the ends of the sockets as they were.
LEMMA QuietKeepsMap ==
    ASSUME ServedByLast, UNCHANGED <<authed, devices>>,
           \A d \in Devices : devices[d] # None /\ socket[devices[d]] \in {"open", "closing"}
                                 => socket'[devices[d]] \in {"open", "closing"}
    PROVE  ServedByLast'
  BY DEF ServedByLast, LastOf

LEMMA ServesItsDevice ==
    ASSUME RelayTypeOK, ServedByLast, NEW d \in Devices, devices[d] # None
    PROVE  devices[d] \in ToSet(authed) /\ SocketOf[devices[d]] = d
  BY DEF ServedByLast, LastOf, ToSet

LEMMA AuthenticateKeepsMap ==
    ASSUME RelayTypeOK, ServedByLast, NEW c \in Sockets, authenticate(c)
    PROVE  ServedByLast'
<1>. DEFINE d == SocketOf[c]
<1>0. d \in Devices /\ socket[c] = "open"
  BY RelayAssumption DEF authenticate
<1>1. CASE d \notin tokens
  <2>1. socket' = [socket EXCEPT ![c] = "closing"] /\ UNCHANGED <<authed, devices>>
    BY <1>1 DEF authenticate
  <2>. QED  BY <2>1, QuietKeepsMap DEF RelayTypeOK
<1>2. CASE d \in tokens
  <2>1. /\ authed' = Append(authed, c)
        /\ socket' \in {socket, [socket EXCEPT ![devices[d]] = "closing"]}
        /\ devices' = [devices EXCEPT ![d] = c]
    BY <1>2 DEF authenticate, NewEntry
  <2>2. /\ DOMAIN authed' = 1 .. Len(authed) + 1 /\ DOMAIN authed = 1 .. Len(authed)
        /\ Len(authed) \in Nat
        /\ authed'[Len(authed) + 1] = c
        /\ \A m \in DOMAIN authed : authed'[m] = authed[m]
    BY <2>1 DEF RelayTypeOK
  <2>3. socket'[c] \in {"open", "closing"}
    BY <1>0, <2>1 DEF RelayTypeOK
  <2>. SUFFICES ASSUME NEW f \in Devices, devices'[f] # None
                PROVE  /\ \E n \in DOMAIN authed' : authed'[n] = devices'[f] /\ LastOf(f, n)'
                       /\ socket'[devices'[f]] \in {"open", "closing"}
    BY DEF ServedByLast
  <2>4. CASE f = d
    <3>1. devices'[f] = c
      BY <1>0, <2>1, <2>4 DEF RelayTypeOK
    <3>2. PICK n \in Nat : n = Len(authed) + 1
      BY <2>2
    <3>3. n \in DOMAIN authed' /\ authed'[n] = c
      BY <2>2, <3>2
    <3>4. LastOf(f, n)'
      <4>1. \A m \in DOMAIN authed' : m <= n
        BY <2>2, <3>2
      <4>2. SocketOf[authed'[n]] = f
        BY <2>4, <3>3
      <4>. QED  BY <4>1, <4>2 DEF LastOf
    <3>. QED  BY <2>3, <3>1, <3>3, <3>4
  <2>5. CASE f # d
    <3>1. devices'[f] = devices[f] /\ devices[f] # None
      BY <1>0, <2>1, <2>5 DEF RelayTypeOK
    <3>2. PICK n \in DOMAIN authed : authed[n] = devices[f] /\ LastOf(f, n)
      BY <3>1 DEF ServedByLast
    <3>3. LastOf(f, n)'
      BY <2>2, <2>5, <3>2 DEF LastOf
    <3>4. socket'[devices[f]] \in {"open", "closing"}
      <4>1. socket[devices[f]] \in {"open", "closing"}
        BY <3>1 DEF ServedByLast
      <4>. QED  BY <2>1, <4>1 DEF RelayTypeOK
    <3>. QED  BY <2>2, <3>1, <3>2, <3>3, <3>4
  <2>. QED  BY <2>4, <2>5
<1>. QED  BY <1>1, <1>2

\* The handler of a close removes the entry of the device; a connection that never
\* authenticated serves nobody.
LEMMA CloseKeepsMap ==
    ASSUME RelayTypeOK, ServedByLast, NEW c \in Sockets, closeEvent(c)
    PROVE  ServedByLast'
<1>. DEFINE d == SocketOf[c]
<1>0. d \in Devices
  BY RelayAssumption
<1>1. socket' = [socket EXCEPT ![c] = "closed"] /\ authed' = authed
  BY DEF closeEvent
<1>2. \A f \in Devices : devices'[f] # None => devices'[f] = devices[f] /\ devices[f] # c
  <2>. SUFFICES ASSUME NEW f \in Devices, devices'[f] # None
                PROVE  devices'[f] = devices[f] /\ devices[f] # c
    OBVIOUS
  <2>1. CASE c \in ToSet(authed)
    <3>1. devices' = [devices EXCEPT ![d] = None]
      BY <2>1 DEF closeEvent
    <3>2. f # d /\ devices'[f] = devices[f]
      BY <1>0, <3>1 DEF RelayTypeOK
    <3>. QED  BY <3>2, ServesItsDevice
  <2>2. CASE c \notin ToSet(authed)
    BY <2>2, ServesItsDevice DEF closeEvent
  <2>. QED  BY <2>1, <2>2
<1>3. \A f \in Devices : devices'[f] # None => socket'[devices'[f]] \in {"open", "closing"}
  BY <1>1, <1>2 DEF ServedByLast, RelayTypeOK
<1>4. \A f \in Devices, n \in DOMAIN authed : LastOf(f, n)' <=> LastOf(f, n)
  BY <1>1 DEF LastOf
<1>. QED  BY <1>1, <1>2, <1>3, <1>4 DEF ServedByLast

LEMMA ConnectionKeepsMap ==
    ASSUME RelayTypeOK, ServedByLast, NEW c \in Sockets, Connection(c)
    PROVE  ServedByLast'
<1>1. CASE connect(c)
  BY <1>1, QuietKeepsMap DEF connect, RelayTypeOK
<1>2. CASE pong(c)
  BY <1>2, QuietKeepsMap DEF pong
<1>. QED  BY <1>1, <1>2, AuthenticateKeepsMap, CloseKeepsMap DEF Connection

LEMMA HeartbeatKeepsMap ==
    ASSUME RelayTypeOK, ServedByLast, heartbeat
    PROVE  ServedByLast'
<1>1. UNCHANGED <<authed, devices>>
  BY DEF heartbeat
<1>2. \A c \in Sockets : socket'[c] \in {socket[c], "closing"}
  BY DEF heartbeat
<1>3. \A d \in Devices : devices[d] # None => devices[d] \in Sockets
  BY DEF RelayTypeOK
<1>. QED  BY <1>1, <1>2, <1>3, QuietKeepsMap

-----------------------------------------------------------------------------
LEMMA RelayStart == RelayInit => RelayInv
<1>. SUFFICES ASSUME RelayInit PROVE RelayInv
  OBVIOUS
<1>1. RelayTypeOK
  BY RelayTypeStart
<1>2. Accounted /\ AuditAgrees
  BY DEF RelayInit, Accounted, AuditAgrees
<1>3. OnePlace /\ Reported
  BY DEF RelayInit, OnePlace, Reported, Under, Works
<1>4. ToSet(<<>>) = {}
  BY DEF ToSet
<1>5. SuccessIsTrue
  BY <1>4 DEF RelayInit, SuccessIsTrue
<1>6. ServedByLast
  BY DEF RelayInit, ServedByLast
<1>. QED  BY <1>1, <1>2, <1>3, <1>5, <1>6 DEF RelayInv

LEMMA RelayStep == RelayInv /\ [RelayNext]_allVars => RelayInv'
<1>. SUFFICES ASSUME RelayInv, [RelayNext]_allVars PROVE RelayInv'
  OBVIOUS
<1>0. RelayTypeOK /\ Accounted /\ AuditAgrees /\ OnePlace /\ Reported /\ SuccessIsTrue /\ ServedByLast
  BY DEF RelayInv
<1>1. ASSUME NEW d \in Devices, register(d) PROVE RelayInv'
  <2>1. RelayTypeOK'
    BY <1>0, <1>1 DEF register, RelayTypeOK, connVars, agentVars, requestVars
  <2>2. UNCHANGED requestVars /\ UNCHANGED <<authed, devices, socket, carriedOut>>
    BY <1>1 DEF register, connVars, agentVars
  <2>3. Accounted' /\ AuditAgrees' /\ OnePlace' /\ Reported'
    BY <1>0, <1>1, <2>2, QuietKeepsAudit, RelayEndsFewer, FewerKeepsPlaces
  <2>4. SuccessIsTrue' /\ ServedByLast'
    BY <1>0, <2>2, QuietKeepsMap DEF SuccessIsTrue, requestVars
  <2>. QED  BY <2>1, <2>3, <2>4 DEF RelayInv
<1>2. ASSUME NEW c \in Sockets, Connection(c) PROVE RelayInv'
  <2>1. UNCHANGED requestVars /\ carriedOut' = carriedOut
    BY <1>2 DEF Connection, connect, authenticate, pong, closeEvent, agentVars
  <2>2. Accounted' /\ AuditAgrees' /\ OnePlace' /\ Reported'
    BY <1>0, <1>2, <2>1, QuietKeepsAudit, ConnectionIsFewer, FewerKeepsPlaces
  <2>3. SuccessIsTrue'
    BY <1>0, <2>1 DEF SuccessIsTrue, requestVars
  <2>. QED  BY <1>0, <1>2, <2>2, <2>3, ConnectionKeepsType, ConnectionKeepsMap DEF RelayInv
<1>3. ASSUME NEW c \in Sockets, Agent(c) PROVE RelayInv'
  <2>1. UNCHANGED requestVars /\ UNCHANGED <<authed, devices, socket>>
    BY <1>3 DEF Agent, agentPong, commandBegins, commandEnds, agentLoses, connVars
  <2>2. OnePlace' /\ Reported' /\ SuccessIsTrue'
    <3>1. ASSUME NEW r \in Requests, commandBegins(c, r) PROVE OnePlace' /\ Reported' /\ SuccessIsTrue'
      <4>1. carriedOut' = carriedOut
        BY <3>1 DEF commandBegins
      <4>. QED  BY <1>0, <2>1, <3>1, <4>1, BeginKeepsPlaces DEF SuccessIsTrue, requestVars
    <3>2. ASSUME NEW r \in Requests, NEW ok \in BOOLEAN, commandEnds(c, r, ok)
          PROVE  OnePlace' /\ Reported' /\ SuccessIsTrue'
      BY <1>0, <3>2, EndKeepsPlaces
    <3>3. CASE agentPong(c) \/ \E how \in {"lost", "dead"} : agentLoses(c, how)
      <4>1. Fewer /\ http' = http
        BY <1>0, <3>3, RelayEndsFewer
      <4>2. carriedOut' = carriedOut
        BY <4>1 DEF Fewer
      <4>. QED  BY <1>0, <4>1, <4>2, FewerKeepsPlaces DEF SuccessIsTrue
    <3>. QED  BY <1>3, <3>1, <3>2, <3>3 DEF Agent
  <2>. QED  BY <1>0, <1>3, <2>1, <2>2, AgentKeepsType, QuietKeepsAudit, QuietKeepsMap DEF RelayInv
<1>4. ASSUME NEW c \in Sockets, NEW m \in toRelay[c], commandResponse(c, m) PROVE RelayInv'
  <2>1. ServedByLast'
    BY <1>0, <1>4, QuietKeepsMap DEF commandResponse
  <2>. QED  BY <1>0, <1>4, <2>1, ResponseKeepsType, ResponseKeepsAudit, ResponseIsFewer,
               FewerKeepsPlaces, ResponseIsTrue DEF RelayInv
<1>5. CASE heartbeat
  <2>1. UNCHANGED requestVars
    BY <1>5 DEF heartbeat
  <2>2. Fewer /\ http' = http
    BY <1>0, <1>5, RelayEndsFewer
  <2>3. SuccessIsTrue'
    BY <1>0, <2>2 DEF SuccessIsTrue, Fewer
  <2>. QED  BY <1>0, <1>5, <2>1, <2>2, <2>3, HeartbeatKeepsType, QuietKeepsAudit, FewerKeepsPlaces,
               HeartbeatKeepsMap DEF RelayInv
<1>6. ASSUME NEW r \in Requests,
             \/ \E e \in Endpoints : refuse(r, e) \/ forward(r, e)
             \/ answerStatus(r) \/ timeoutFires(r)
      PROVE  RelayInv'
  <2>1. RelayTypeOK' /\ Accounted' /\ AuditAgrees' /\ SuccessIsTrue'
    BY <1>0, <1>6, RequestKeepsType, RequestKeepsAudit, RequestIsTrue
  <2>2. UNCHANGED <<authed, devices, socket>>
    BY <1>6 DEF refuse, forward, answerStatus, timeoutFires, connVars
  <2>3. ServedByLast'
    BY <1>0, <2>2, QuietKeepsMap
  <2>4. OnePlace' /\ Reported'
    BY <1>0, <1>6, AnsweringIsFewer, FewerKeepsPlaces, ForwardKeepsPlaces
  <2>. QED  BY <2>1, <2>3, <2>4 DEF RelayInv
<1>7. ASSUME NEW unrecorded \in SUBSET Devices, relayRestarts(unrecorded) PROVE RelayInv'
  <2>1. ServedByLast'
    BY <1>7 DEF relayRestarts, ServedByLast
  <2>. QED  BY <1>0, <1>7, <2>1, RestartKeepsType, RestartKeepsAudit, RestartIsFewer,
               FewerKeepsPlaces, RestartIsTrue DEF RelayInv
<1>8. CASE UNCHANGED allVars
  <2>1. UNCHANGED requestVars /\ UNCHANGED <<authed, devices, socket>> /\ RelayTypeOK'
    BY <1>0, <1>8 DEF allVars, requestVars, RelayTypeOK
  <2>2. Fewer
    BY <1>8 DEF allVars, Fewer, Under, Works, Arrives
  <2>3. SuccessIsTrue'
    BY <1>0, <1>8 DEF SuccessIsTrue, allVars
  <2>. QED  BY <1>0, <2>1, <2>2, <2>3, QuietKeepsAudit, FewerKeepsPlaces, QuietKeepsMap DEF RelayInv
<1>. QED  BY <1>1, <1>2, <1>3, <1>4, <1>5, <1>6, <1>7, <1>8 DEF RelayNext, Connection, Agent

-----------------------------------------------------------------------------
\* The types of the relay's state are kept.
THEOREM RelayTypeCorrect == RelaySpec => []RelayTypeOK
<1>1. RelayInv => RelayTypeOK
  BY DEF RelayInv
<1>. QED  BY RelayStart, RelayStep, <1>1, PTL DEF RelaySpec

\* Whatever the order of the timer, late, repeated or reordered responses and a death of
\* the relay, an HTTP response is written once.
THEOREM AnswersWrittenOnce == RelaySpec => []AnsweredOnce
<1>1. RelayInv => AnsweredOnce
  <2>. SUFFICES ASSUME RelayInv, NEW r \in Requests PROVE Len(http[r]) <= 1
    BY DEF AnsweredOnce
  <2>1. Len(<<>>) <= 1 /\ \A code : Len(<<code>>) <= 1
    OBVIOUS
  <2>. QED  BY <2>1 DEF RelayInv, Accounted, AuditAgrees
<1>. QED  BY RelayStart, RelayStep, <1>1, PTL DEF RelaySpec

\* The audit file and the answer to every request the relay did not die with agree.
THEOREM AuditTellsTheAnswer == RelaySpec => []AuditAgrees
<1>1. RelayInv => AuditAgrees
  BY DEF RelayInv
<1>. QED  BY RelayStart, RelayStep, <1>1, PTL DEF RelaySpec

\* Success is reported only of a command the device carried out, once: for any number of
\* devices, connections, requests and deaths of the relay.
THEOREM SuccessCarriedOut == RelaySpec => []SuccessIsTrue
<1>1. RelayInv => SuccessIsTrue
  BY DEF RelayInv
<1>. QED  BY RelayStart, RelayStep, <1>1, PTL DEF RelaySpec

\* No connection that was superseded or has ended is ever in the map.
THEOREM MapNamesNewest == RelaySpec => []MapIsCurrent
<1>1. RelayInv => MapIsCurrent
  BY LastIsNewest DEF RelayInv
<1>. QED  BY RelayStart, RelayStep, <1>1, PTL DEF RelaySpec
=============================================================================
