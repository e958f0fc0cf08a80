---------------------------- MODULE EgressBroker ----------------------------
(***************************************************************************)
(* The host-side egress proxy of aivisor-broker: the sessions and their    *)
(* byte budgets (proxy.rs) and the connections served against them, one    *)
(* thread per connection and two for a CONNECT tunnel (egress.rs).         *)
(*                                                                         *)
(* A request is what read_request parsed: its session token, its method,   *)
(* the host it names as a sequence of labels, its declared body length.    *)
(* Bytes are counted in units; a read returns 1 .. MaxChunk of them.       *)
(***************************************************************************)
EXTENDS Integers, Sequences, FiniteSets, FiniteSetsExt

CONSTANTS
  Tokens,        \* session tokens issue_session may draw; each is used once
  Conns,         \* connections accepted by serve_on
  Requests,      \* the requests clients send
  Routes,        \* EgressPolicy.routes: [hosts, methods] records, in order
  Addrs,         \* addresses DNS may answer with
  Metadata,      \* METADATA_IPS
  Budget,        \* DEFAULT_BYTE_BUDGET
  MaxRequest,    \* max_request_bytes
  MaxChunk       \* the largest read of a pump

\* chunked: it has a Transfer-Encoding.  eager: bytes for the tunnel follow the
\* head in the same segment.
Request == [token : Tokens, method : STRING, host : Seq(STRING), len : Nat,
            chunked : BOOLEAN, eager : BOOLEAN]

ASSUME BrokerAssumption ==
  /\ Budget \in Nat /\ MaxRequest \in Nat /\ MaxChunk \in Nat \ {0}
  /\ IsFiniteSet(Conns) /\ Requests \subseteq Request
  /\ Routes \in Seq([hosts : SUBSET Seq(STRING), methods : SUBSET STRING])

VARIABLES
  session,   \* Broker.sessions: "fresh" (not issued), "live" or "revoked"
  used,      \* SessionState.bytes_used; kept after a revoke as history
  phase,     \* where the thread of a connection is
  req,       \* its request
  addr,      \* the pinned upstream address
  pump,      \* the state of the pump in each direction
  chunk,     \* what a pump has read and charged, and not yet written
  moved,     \* history: bytes written, per connection and direction
  cut,       \* history: a pump of the tunnel was refused for the budget
  lost,      \* history: tunnel bytes that arrived with the request head
  late       \* history: bytes charged to a tunnel after it was cut

brokerVars == <<session, used>>
connVars == <<phase, req, addr>>
pumpVars == <<pump, chunk, moved>>
history == <<cut, lost, late>>
vars == <<brokerVars, connVars, pumpVars, history>>

Dirs == {"up", "down"}
Both(x) == [d \in Dirs |-> x]

\* A thread between its connect to the origin and its end.
UpstreamPhases == {"head", "head_write", "body", "body_write", "relay", "tunnel"}

Init ==
  /\ session = [t \in Tokens |-> "fresh"]
  /\ used = [t \in Tokens |-> 0]
  /\ phase = [k \in Conns |-> "waiting"]
  /\ req \in [Conns -> Requests]
  /\ addr = [k \in Conns |-> "none"]
  /\ pump = [k \in Conns |-> Both("off")]
  /\ chunk = [k \in Conns |-> Both(0)]
  /\ moved = [k \in Conns |-> Both(0)]
  /\ cut = [k \in Conns |-> FALSE]
  /\ lost = [k \in Conns |-> FALSE]
  /\ late = [k \in Conns |-> FALSE]

-----------------------------------------------------------------------------
(* Broker *)

IssueSession(t) ==
  /\ session[t] = "fresh"
  /\ session' = [session EXCEPT ![t] = "live"]
  /\ UNCHANGED <<used, connVars, pumpVars, history>>

RevokeSession(t) ==
  /\ session[t] = "live"
  /\ session' = [session EXCEPT ![t] = "revoked"]
  /\ UNCHANGED <<used, connVars, pumpVars, history>>

\* record_bytes: an unknown token and an exhausted budget are both refused, and
\* a refused charge is not recorded.
Fits_UntilSpent(t, n) == session[t] = "live" /\ used[t] < Budget
Fits(t, n) == session[t] = "live" /\ used[t] + n <= Budget
RecordBytes(t, n) == used' = [used EXCEPT ![t] = @ + n]

-----------------------------------------------------------------------------
(* EgressPolicy *)

\* A pattern that starts with "*." covers every host with one label more than
\* the rest of it, or several; any other pattern only itself.
Covers(pattern, host) ==
  IF Len(pattern) > 1 /\ pattern[1] = "*"
    THEN /\ Len(host) >= Len(pattern)
         /\ SubSeq(host, Len(host) - Len(pattern) + 2, Len(host)) = Tail(pattern)
    ELSE host = pattern
MatchesHost(route, host) == \E p \in route.hosts : Covers(p, host)

\* The first route that covers the host, or 0.
RouteFor(host) ==
  LET covering == {i \in DOMAIN Routes : MatchesHost(Routes[i], host)}
  IN  IF covering # {} THEN Min(covering) ELSE 0

\* serve_plain checks the method too; it cannot see inside a tunnel.
Permits(r) ==
  LET i == RouteFor(r.host)
  IN  i # 0 /\ (r.method = "CONNECT" \/ r.method \in Routes[i].methods)

\* Content-Length, which serve_plain needs and bounds.
BodyRelayable(r) == r.method = "CONNECT" \/ (~r.chunked /\ r.len <= MaxRequest)

\* resolve_pinned: one lookup, refused if any answer is a metadata address.
Resolved_FirstOnly(answers) == answers
Resolved(answers) == IF answers \cap Metadata = {} THEN answers ELSE {}

-----------------------------------------------------------------------------
(* handle_connection *)

Goto(k, p) == phase' = [phase EXCEPT ![k] = p]

\* read_request and the check of the token; whatever else the request says, an
\* unknown token is all its sender learns of.
Authenticate(k) ==
  /\ phase[k] = "waiting"
  /\ \/ session[req[k].token] = "live" /\ Goto(k, "authorised")
     \/ Goto(k, "closed")    \* malformed or oversized head, or no such session
  /\ UNCHANGED <<brokerVars, req, addr, pumpVars, history>>

\* A refusal of serve_plain or serve_connect before the origin is contacted,
\* or a failed lookup or connect.
Refuse(k) ==
  /\ phase[k] = "authorised"
  /\ Goto(k, "closed")
  /\ UNCHANGED <<brokerVars, req, addr, pumpVars, history>>

\* Route, method and size checks, the lookup, and the connect to the address
\* the lookup returned.
Connect(k) ==
  /\ phase[k] = "authorised"
  /\ Permits(req[k]) /\ BodyRelayable(req[k])
  /\ \E answers \in SUBSET Addrs : \E a \in Resolved(answers) : addr' = [addr EXCEPT ![k] = a]
  /\ IF req[k].method = "CONNECT"
       THEN /\ Goto(k, "tunnel")
            /\ pump' = [pump EXCEPT ![k] = Both("read")]
            \* the pumps read the socket; what the BufReader holds stays there
            /\ lost' = [lost EXCEPT ![k] = req[k].eager]
       ELSE Goto(k, "head") /\ UNCHANGED <<pump, lost>>
  /\ UNCHANGED <<brokerVars, req, chunk, moved, cut, late>>

\* serve_plain: the head, then the body, each charged before it is written.
Charge(k, at, n, next) ==
  /\ phase[k] = at
  /\ IF Fits(req[k].token, n)
       THEN RecordBytes(req[k].token, n) /\ Goto(k, next)
       ELSE Goto(k, "closed") /\ UNCHANGED used
  /\ UNCHANGED <<session, req, addr, pumpVars, history>>

ChargeHead(k) == Charge(k, "head", 1, "head_write")
ChargeBody(k) == Charge(k, "body", req[k].len, "body_write")

\* The client does not send the body it announced.
BodyMissing(k) ==
  /\ phase[k] = "body"
  /\ Goto(k, "closed")
  /\ UNCHANGED <<brokerVars, req, addr, pumpVars, history>>

WriteUp(k, n) == moved' = [moved EXCEPT ![k]["up"] = @ + n]

\* Then the answer is pumped back.
StartRelay(k) == Goto(k, "relay") /\ pump' = [pump EXCEPT ![k]["down"] = "read"]

WriteHead(k) ==
  /\ phase[k] = "head_write"
  /\ \/ /\ WriteUp(k, 1)
        /\ IF req[k].len > 0 THEN Goto(k, "body") /\ UNCHANGED pump ELSE StartRelay(k)
     \/ Goto(k, "closed") /\ UNCHANGED <<moved, pump>>
  /\ UNCHANGED <<brokerVars, req, addr, chunk, history>>

WriteBody(k) ==
  /\ phase[k] = "body_write"
  /\ \/ WriteUp(k, req[k].len) /\ StartRelay(k)
     \/ Goto(k, "closed") /\ UNCHANGED <<moved, pump>>
  /\ UNCHANGED <<brokerVars, req, addr, chunk, history>>

-----------------------------------------------------------------------------
(* pump *)

SetPump(k, d, s) == pump' = [pump EXCEPT ![k][d] = s]

\* A read that returns data; a charge that is refused ends this pump.
RefusedPump_Waits == "waiting"
RefusedPump == "done"

PumpRead(k, d, n) ==
  LET t == req[k].token IN
  /\ pump[k][d] = "read"
  /\ IF Fits(t, n)
       THEN /\ RecordBytes(t, n)
            /\ SetPump(k, d, "write")
            /\ chunk' = [chunk EXCEPT ![k][d] = n]
            /\ late' = [late EXCEPT ![k] = @ \/ cut[k]]
            /\ UNCHANGED cut
       ELSE /\ SetPump(k, d, RefusedPump)
            /\ cut' = [cut EXCEPT ![k] = @ \/ (phase[k] = "tunnel" /\ session[t] = "live")]
            /\ UNCHANGED <<used, chunk, late>>
  /\ UNCHANGED <<session, connVars, moved, lost>>

\* End of file, an error, or IO_TIMEOUT.
PumpEof(k, d) ==
  /\ pump[k][d] = "read"
  /\ SetPump(k, d, "done")
  /\ UNCHANGED <<brokerVars, connVars, chunk, moved, history>>

PumpWrite(k, d) ==
  /\ pump[k][d] = "write"
  /\ chunk' = [chunk EXCEPT ![k][d] = 0]
  /\ \/ SetPump(k, d, "read") /\ moved' = [moved EXCEPT ![k][d] = @ + chunk[k][d]]
     \/ SetPump(k, d, "done") /\ UNCHANGED moved
  /\ UNCHANGED <<brokerVars, connVars, history>>

\* The join of the pumps, and the end of the thread.
Close(k) ==
  /\ phase[k] \in {"relay", "tunnel"}
  /\ \A d \in Dirs : pump[k][d] \in {"off", "done"}
  /\ Goto(k, "closed")
  /\ UNCHANGED <<brokerVars, req, addr, pumpVars, history>>

-----------------------------------------------------------------------------
PumpStep(k, d) == PumpEof(k, d) \/ PumpWrite(k, d) \/ \E n \in 1 .. MaxChunk : PumpRead(k, d, n)
ConnStep(k) ==
  \/ Authenticate(k) \/ Refuse(k) \/ Connect(k) \/ ChargeHead(k) \/ WriteHead(k)
  \/ ChargeBody(k) \/ BodyMissing(k) \/ WriteBody(k) \/ Close(k)

Next ==
  \/ \E t \in Tokens : IssueSession(t) \/ RevokeSession(t)
  \/ \E k \in Conns : ConnStep(k) \/ \E d \in Dirs : PumpStep(k, d)

Spec == Init /\ [][Next]_vars

\* Every thread is scheduled, and IO_TIMEOUT bounds each of its reads and writes.
FairSpec ==
  /\ Spec
  /\ \A k \in Conns : WF_vars(ConnStep(k)) /\ \A d \in Dirs : WF_vars(PumpStep(k, d))

-----------------------------------------------------------------------------
MovedFor(t) ==
  MapThenSumSet(LAMBDA k : moved[k]["up"] + moved[k]["down"], {k \in Conns : req[k].token = t})

\* All the connections of a session together, with both pumps of each tunnel
\* running at once, never move more bytes than its budget.
BudgetHolds == \A t \in Tokens : MovedFor(t) <= Budget

\* The hosts a pattern stands for: a proper subdomain of what follows the "*".
Names(pattern, host) ==
  \/ pattern = host
  \/ pattern[1] = "*" /\ \E i \in 2 .. Len(host) : SubSeq(host, i, Len(host)) = Tail(pattern)

\* An origin is contacted only on behalf of a request that some route permits,
\* method included where the proxy sees it, and never at a metadata address,
\* whatever the name server answers.
EgressPermitted ==
  \A k \in Conns : phase[k] \in UpstreamPhases =>
    /\ addr[k] \notin Metadata
    /\ \E i \in DOMAIN Routes :
         /\ \E p \in Routes[i].hosts : Names(p, req[k].host)
         /\ req[k].method = "CONNECT" \/ req[k].method \in Routes[i].methods

\* Revoking a session brings down every connection that uses it.
RevokedConnectionsEnd ==
  \A k \in Conns :
    (session[req[k].token] = "revoked" /\ phase[k] # "waiting") ~> phase[k] = "closed"

\* "A tunnel that outran its budget is cut": once one direction has been refused
\* for the budget, nothing more goes through the tunnel.
TunnelIsCut == \A k \in Conns : ~late[k]

\* "Copy until EOF": the origin gets what the client sent through the tunnel,
\* from the first byte.
TunnelIsComplete == \A k \in Conns : lost[k] => moved[k]["up"] = 0
=============================================================================
