---------------------------- MODULE ServiceProofs ----------------------------
(***************************************************************************)
(* The daemon's services beside the sandboxes.  An audit event that the    *)
(* ring accepts is delivered in order or counted as lost.  In the warm     *)
(* pool a sandbox is single-use and only an expired one is dropped, for    *)
(* every pool, every number of clients and of refill tasks; with one       *)
(* refill task the pool never exceeds its target.  The egress broker       *)
(* contacts only permitted origins and moves no more than the budget of a  *)
(* session, for every set of tokens, connections, requests, routes and     *)
(* addresses.                                                              *)
(***************************************************************************)
EXTENDS WarmPool, EgressBroker, AuditPipeline, SequenceTheorems, FiniteSetTheorems, TLAPS

-----------------------------------------------------------------------------
(* The egress broker *)

\* What the thread of a connection knows once it has left handle_connection's
\* checks: its request passed them, and its address was in a lookup without
\* metadata addresses.
Checked(k) == addr[k] \notin Metadata /\ Permits(req[k])

IInv ==
  /\ DOMAIN phase = Conns /\ DOMAIN addr = Conns
  /\ req \in [Conns -> Requests]
  /\ \A k \in Conns : phase[k] \in UpstreamPhases => Checked(k)

\* A non-empty set of naturals has a least element, and Min chooses it.
LEMMA LeastIn ==
  ASSUME NEW S \in SUBSET Nat, S # {}
  PROVE  \E m \in S : \A y \in S : m <= y
  <1> DEFINE R == OpToRel(<, Nat)
  <1>1. \A x, y \in Nat : y < x => <<y, x>> \in R
    BY Zenon DEF OpToRel
  <1>2. IsWellFoundedOn(R, Nat)
    BY NatLessThanWellFounded, Zenon
  <1> HIDE DEF R
  <1>3. PICK x \in S : \A y \in S : ~(<<y, x>> \in R)
    BY <1>2, WFMin, Zenon
  <1>4. ASSUME NEW y \in S PROVE x <= y
    <2>1. x \in Nat /\ y \in Nat
      BY Zenon
    <2>2. ~(y < x)
      BY <1>1, <1>3, <2>1, Zenon
    <2> QED BY <2>1, <2>2
  <1> QED BY <1>4, Zenon

LEMMA MinIn ==
  ASSUME NEW S \in SUBSET Nat, S # {}
  PROVE  Min(S) \in S
  <1>1. \E m \in S : \A y \in S : m <= y
    BY LeastIn, Zenon
  <1> QED BY <1>1, Zenon DEF Min

\* A host that a pattern covers is the pattern itself or a proper subdomain of
\* what follows its "*".
LEMMA CoversNames ==
  ASSUME NEW pattern \in Seq(STRING), NEW host \in Seq(STRING), Covers(pattern, host)
  PROVE  Names(pattern, host)
  <1>1. CASE Len(pattern) > 1 /\ pattern[1] = "*"
    <2> DEFINE i == Len(host) - Len(pattern) + 2
    <2>1. Len(host) >= Len(pattern) /\ SubSeq(host, i, Len(host)) = Tail(pattern)
      BY <1>1, Zenon DEF Covers
    <2>2. i \in 2 .. Len(host)
      BY <1>1, <2>1
    <2> QED BY <1>1, <2>1, <2>2, Zenon DEF Names
  <1>2. CASE ~(Len(pattern) > 1 /\ pattern[1] = "*")
    BY <1>2, Zenon DEF Covers, Names
  <1> QED BY <1>1, <1>2, Zenon

\* What an origin may be contacted for: EgressPermitted's conclusion.
Permitted(r) ==
  \E i \in DOMAIN Routes :
    /\ \E p \in Routes[i].hosts : Names(p, r.host)
    /\ r.method = "CONNECT" \/ r.method \in Routes[i].methods

LEMMA PermitsPermitted ==
  ASSUME NEW r \in Requests, Permits(r)
  PROVE  Permitted(r)
  <1> DEFINE I == {i \in DOMAIN Routes : MatchesHost(Routes[i], r.host)}
  <1>1. Routes \in Seq([hosts : SUBSET Seq(STRING), methods : SUBSET STRING]) /\ r.host \in Seq(STRING)
    BY BrokerAssumption, Zenon DEF Request
  <1>2. RouteFor(r.host) = IF I # {} THEN Min(I) ELSE 0
    BY Zenon DEF RouteFor
  <1>3. RouteFor(r.host) # 0 /\ (r.method = "CONNECT" \/ r.method \in Routes[RouteFor(r.host)].methods)
    BY Zenon DEF Permits
  <1>4. I # {}
    BY <1>2, <1>3, Zenon
  <1>s. I \in SUBSET Nat
    BY <1>1
  <1>5. Min(I) \in I
    <2> HIDE DEF I
    <2> QED BY <1>s, <1>4, MinIn, Zenon
  <1>6. RouteFor(r.host) \in I
    BY <1>2, <1>4, <1>5, Zenon
  <1>7. PICK p \in Routes[RouteFor(r.host)].hosts : Covers(p, r.host)
    BY <1>6, Zenon DEF MatchesHost
  <1>8. p \in Seq(STRING)
    <2> DEFINE Route == [hosts : SUBSET Seq(STRING), methods : SUBSET STRING]
    <2>1. Routes[RouteFor(r.host)] \in Route
      <3>1. RouteFor(r.host) \in 1 .. Len(Routes)
        BY <1>6
      <3>2. Routes \in Seq(Route)
        BY <1>1, Zenon
      <3> HIDE DEF Route
      <3> QED BY <3>1, <3>2
    <2> QED BY <2>1, <1>7, Zenon
  <1>9. Names(p, r.host)
    BY <1>1, <1>7, <1>8, CoversNames, Zenon
  <1>10. RouteFor(r.host) \in DOMAIN Routes
    BY <1>1, <1>6, Zenon
  <1> QED BY <1>3, <1>7, <1>9, <1>10, Zenon DEF Permitted

LEMMA InitIInv == Init => IInv
  BY Zenon DEF Init, IInv, UpstreamPhases

\* Connect is the only way into the phases that talk to an origin; the other
\* steps of a connection stay inside them or leave them.
LEMMA ConnectKeeps ==
  ASSUME IInv, NEW k \in Conns, Connect(k)
  PROVE  IInv'
  <1>1. PICK answers \in SUBSET Addrs : \E a \in Resolved(answers) : addr' = [addr EXCEPT ![k] = a]
    BY Zenon DEF Connect
  <1>2. PICK a \in Resolved(answers) : addr' = [addr EXCEPT ![k] = a]
    BY <1>1, Zenon
  <1>3. a \notin Metadata
    BY <1>2, Zenon DEF Resolved
  <1>4. req' = req /\ Permits(req[k])
    BY Zenon DEF Connect
  <1>5. \E p \in UpstreamPhases : phase' = [phase EXCEPT ![k] = p]
    BY Zenon DEF Connect, Goto, UpstreamPhases
  <1>6. DOMAIN phase' = Conns /\ DOMAIN addr' = Conns
    BY <1>2, <1>5, Zenon DEF IInv
  <1>7. ASSUME NEW j \in Conns, phase'[j] \in UpstreamPhases PROVE Checked(j)'
    <2>1. CASE j = k
      BY <2>1, <1>2, <1>3, <1>4, Zenon DEF IInv, Checked
    <2>2. CASE j # k
      <3>1. phase[j] \in UpstreamPhases /\ addr'[j] = addr[j]
        BY <2>2, <1>2, <1>5, <1>7, Zenon DEF IInv
      <3> QED BY <3>1, <1>4, Zenon DEF IInv, Checked
    <2> QED BY <2>1, <2>2, Zenon
  <1> QED BY <1>4, <1>6, <1>7, Zenon DEF IInv

\* A step that leaves the request and the address alone and brings no other
\* connection into those phases.
LEMMA OthersKeep ==
  ASSUME IInv, UNCHANGED <<req, addr>>, NEW k \in Conns, NEW p,
         phase' = [phase EXCEPT ![k] = p],
         p \in UpstreamPhases => phase[k] \in UpstreamPhases
  PROVE  IInv'
  <1>1. DOMAIN phase' = Conns
    BY Zenon DEF IInv
  <1>2. ASSUME NEW j \in Conns, phase'[j] \in UpstreamPhases PROVE Checked(j)'
    <2>1. phase[j] \in UpstreamPhases
      BY <1>2, Zenon DEF IInv
    <2>2. Checked(j)
      BY <2>1, Zenon DEF IInv
    <2> QED BY <2>2, Zenon DEF Checked
  <1> QED BY <1>1, <1>2, Zenon DEF IInv

LEMMA ConnStepKeeps ==
  ASSUME IInv, NEW k \in Conns, ConnStep(k)
  PROVE  IInv'
  <1> USE DEF Goto, UpstreamPhases
  <1>1. CASE Authenticate(k)
    BY <1>1, OthersKeep, Zenon DEF Authenticate
  <1>2. CASE Refuse(k)
    BY <1>2, OthersKeep, Zenon DEF Refuse
  <1>3. CASE Connect(k)
    BY <1>3, ConnectKeeps, Zenon
  <1>4. CASE ChargeHead(k)
    BY <1>4, OthersKeep, Zenon DEF ChargeHead, Charge
  <1>5. CASE WriteHead(k)
    BY <1>5, OthersKeep, Zenon DEF WriteHead, StartRelay
  <1>6. CASE ChargeBody(k)
    BY <1>6, OthersKeep, Zenon DEF ChargeBody, Charge
  <1>7. CASE BodyMissing(k)
    BY <1>7, OthersKeep, Zenon DEF BodyMissing
  <1>8. CASE WriteBody(k)
    BY <1>8, OthersKeep, Zenon DEF WriteBody, StartRelay
  <1>9. CASE Close(k)
    BY <1>9, OthersKeep, Zenon DEF Close
  <1> QED BY <1>1, <1>2, <1>3, <1>4, <1>5, <1>6, <1>7, <1>8, <1>9, ZenonT(30) DEF ConnStep

LEMMA NextKeeps ==
  ASSUME IInv, [Next]_vars
  PROVE  IInv'
  <1>1. CASE UNCHANGED <<req, addr, phase>>
    BY <1>1, Zenon DEF IInv, Checked
  <1>2. ASSUME NEW t \in Tokens, IssueSession(t) \/ RevokeSession(t) PROVE IInv'
    BY <1>1, <1>2, Zenon DEF IssueSession, RevokeSession, connVars
  <1>3. ASSUME NEW k \in Conns, ConnStep(k) PROVE IInv'
    BY <1>3, ConnStepKeeps, Zenon
  <1>4. ASSUME NEW k \in Conns, NEW d \in Dirs, PumpStep(k, d) PROVE IInv'
    BY <1>1, <1>4, Zenon DEF PumpStep, PumpEof, PumpWrite, PumpRead, connVars
  <1>5. CASE UNCHANGED vars
    BY <1>1, <1>5, Zenon DEF vars, connVars
  <1> QED BY <1>2, <1>3, <1>4, <1>5, Zenon DEF Next

\* serve_plain and serve_connect contact an origin only for a request that a route
\* permits and never at a metadata address: for every policy, every set of
\* requests and whatever the name server answers.
THEOREM OnlyPermittedEgress == Spec => []EgressPermitted
  <1>1. IInv => EgressPermitted
    <2> SUFFICES ASSUME IInv, NEW k \in Conns, phase[k] \in UpstreamPhases
                 PROVE  addr[k] \notin Metadata /\ Permitted(req[k])
      BY Zenon DEF EgressPermitted, Permitted
    <2>1. Checked(k) /\ req[k] \in Requests
      BY Zenon DEF IInv
    <2> QED BY <2>1, PermitsPermitted, Zenon DEF Checked
  <1>2. IInv /\ [Next]_vars => IInv'
    BY NextKeeps, ZenonT(30)
  <1> QED BY <1>1, <1>2, InitIInv, PTL DEF Spec

-----------------------------------------------------------------------------
\* The sums of f over the sets of a family, as MapThenSumSet goes through them.
Some(T) == CHOOSE x \in T : TRUE
SumAt(f, g, T) == IF T = {} THEN 0 ELSE f[Some(T)] + g[T \ {Some(T)}]
Sums(f, family, g) == g = [T \in family |-> SumAt(f, g, T)]

UpTo(S, n) == {T \in SUBSET S : Cardinality(T) <= n}

\* A set without the element that is taken from it.
LEMMA RestSmaller ==
  ASSUME NEW S, IsFiniteSet(S), NEW T \in SUBSET S, T # {}
  PROVE  /\ Some(T) \in T /\ T \ {Some(T)} \in SUBSET S
         /\ Cardinality(T) \in Nat /\ Cardinality(T \ {Some(T)}) \in Nat
         /\ Cardinality(T \ {Some(T)}) = Cardinality(T) - 1
  <1>1. IsFiniteSet(T)
    BY FS_Subset, Zenon
  <1>2. Some(T) \in T
    BY Zenon DEF Some
  <1>3. Cardinality(T) \in Nat /\ IsFiniteSet(T \ {Some(T)})
    BY <1>1, <1>2, FS_CardinalityType, FS_RemoveElement, Zenon
  <1>4. Cardinality(T \ {Some(T)}) \in Nat /\ Cardinality(T \ {Some(T)}) = Cardinality(T) - 1
    BY <1>1, <1>2, <1>3, FS_CardinalityType, FS_RemoveElement, Zenon
  <1> QED BY <1>2, <1>3, <1>4, Zenon

LEMMA SumsExist ==
  ASSUME NEW S, IsFiniteSet(S), NEW f
  PROVE  \E g : Sums(f, SUBSET S, g)
  <1> DEFINE Bad == {n \in Nat : ~\E g : Sums(f, UpTo(S, n), g)}
  <1>1. Bad = {}
    <2> SUFFICES ASSUME Bad # {} PROVE FALSE
      BY Zenon
    <2>1. Bad \in SUBSET Nat
      BY Zenon
    <2>2. PICK n \in Bad : \A y \in Bad : n <= y
      <3> HIDE DEF Bad
      <3> QED BY <2>1, LeastIn, Zenon
    <2>3. n \in Nat /\ ~\E g : Sums(f, UpTo(S, n), g)
      BY Zenon
    <2>4. n # 0
      <3> SUFFICES ASSUME n = 0 PROVE FALSE
        BY Zenon
      <3> DEFINE zero == [T \in UpTo(S, 0) |-> 0]
      <3>1. ASSUME NEW T \in UpTo(S, 0) PROVE T = {}
        <4> SUFFICES ASSUME T # {} PROVE FALSE
          BY Zenon
        <4>1. T \in SUBSET S /\ Cardinality(T) <= 0
          BY Zenon DEF UpTo
        <4>2. /\ Cardinality(T) \in Nat /\ Cardinality(T \ {Some(T)}) \in Nat
              /\ Cardinality(T \ {Some(T)}) = Cardinality(T) - 1
          BY <4>1, RestSmaller, Zenon
        <4> QED BY <4>1, <4>2
      <3>2. \A T \in UpTo(S, 0) : zero[T] = SumAt(f, zero, T)
        BY <3>1, Zenon DEF SumAt
      <3>3. Sums(f, UpTo(S, 0), zero)
        BY <3>2, Zenon DEF Sums
      <3> QED BY <2>3, <3>3, Zenon
    <2>5. n - 1 \in Nat /\ n - 1 \notin Bad
      <3>1. n - 1 \in Nat /\ ~(n <= n - 1)
        BY <2>3, <2>4
      <3> HIDE DEF Bad
      <3> QED BY <2>2, <3>1, Zenon
    <2>6. PICK g : Sums(f, UpTo(S, n - 1), g)
      BY <2>5, Zenon
    <2> DEFINE h == [T \in UpTo(S, n) |-> SumAt(f, g, T)]
    <2>7. ASSUME NEW T \in UpTo(S, n) PROVE h[T] = SumAt(f, h, T)
      <3>1. CASE T = {}
        BY <3>1, Zenon DEF SumAt
      <3>2. CASE T # {}
        <4> DEFINE R == T \ {Some(T)}
        <4>1. R \in UpTo(S, n - 1) /\ R \in UpTo(S, n)
          BY <2>3, <3>2, RestSmaller DEF UpTo
        <4>2. h[R] = SumAt(f, g, R) /\ g[R] = SumAt(f, g, R)
          BY <2>6, <4>1, Zenon DEF Sums
        <4> QED BY <3>2, <4>2, Zenon DEF SumAt
      <3> QED BY <3>1, <3>2, Zenon
    <2>8. Sums(f, UpTo(S, n), h)
      BY <2>7, Zenon DEF Sums
    <2> QED BY <2>3, <2>8, Zenon
  <1>2. Cardinality(S) \in Nat
    BY FS_CardinalityType, Zenon
  <1>3. UpTo(S, Cardinality(S)) = SUBSET S
    BY FS_Subset, Zenon DEF UpTo
  <1>4. \E g : Sums(f, UpTo(S, Cardinality(S)), g)
    BY <1>1, <1>2, Zenon
  <1> QED BY <1>3, <1>4, Zenon

\* Where no summand but that of k is larger, and that by at most n, the sum is
\* larger by at most n.
LEMMA SumsGrow ==
  ASSUME NEW S, IsFiniteSet(S), NEW f, NEW g, Sums(f, SUBSET S, g), NEW e, NEW h, Sums(e, SUBSET S, h),
         NEW k, NEW n \in Nat,
         \A x \in S : f[x] \in Nat /\ e[x] \in Nat,
         \A x \in S : e[x] <= f[x] + n /\ (x # k => e[x] <= f[x])
  PROVE  g[S] \in Nat /\ h[S] \in Nat /\ h[S] <= g[S] + n
  <1> DEFINE Good(T) == /\ g[T] \in Nat /\ h[T] \in Nat /\ h[T] <= g[T] + n
                        /\ k \notin T => h[T] <= g[T]
             Bad == {m \in Nat : \E T \in SUBSET S : Cardinality(T) = m /\ ~Good(T)}
  <1>0. \A T \in SUBSET S : g[T] = SumAt(f, g, T) /\ h[T] = SumAt(e, h, T)
    BY Zenon DEF Sums
  <1>1. Bad = {}
    <2> SUFFICES ASSUME Bad # {} PROVE FALSE
      BY Zenon
    <2>1. Bad \in SUBSET Nat
      BY Zenon
    <2>2. PICK m \in Bad : \A y \in Bad : m <= y
      <3> HIDE DEF Bad
      <3> QED BY <2>1, LeastIn, Zenon
    <2>3. PICK T \in SUBSET S : Cardinality(T) = m /\ ~Good(T)
      BY Zenon
    <2>4. T # {}
      <3> SUFFICES ASSUME T = {} PROVE FALSE
        BY Zenon
      <3>1. g[T] = 0 /\ h[T] = 0
        BY <1>0, Zenon DEF SumAt
      <3> QED BY <2>3, <3>1
    <2> DEFINE x == Some(T)
               R == T \ {Some(T)}
    <2>5. /\ x \in T /\ x \in S /\ R \in SUBSET S
          /\ Cardinality(R) \in Nat /\ ~(m <= Cardinality(R))
      BY <2>3, <2>4, RestSmaller
    <2>6. Cardinality(R) \notin Bad
      <3> HIDE DEF Bad, R
      <3> QED BY <2>2, <2>5, Zenon
    <2>7. Good(R)
      <3> HIDE DEF Good, R
      <3> QED BY <2>5, <2>6, Zenon
    <2>8. g[T] = f[x] + g[R] /\ h[T] = e[x] + h[R]
      BY <1>0, <2>4, Zenon DEF SumAt
    <2>9. /\ f[x] \in Nat /\ e[x] \in Nat
          /\ e[x] <= f[x] + n /\ (x # k => e[x] <= f[x])
      BY <2>5, Zenon
    <2>10. (k \notin R /\ e[x] <= f[x] + n) \/ e[x] <= f[x]
      BY <2>9, Zenon
    <2>11. k \notin T => k \notin R /\ x # k
      BY <2>5, Zenon
    <2> HIDE DEF x, R
    <2>12. g[T] \in Nat /\ h[T] \in Nat
      BY <2>7, <2>8, <2>9
    <2>13. h[T] <= g[T] + n
      BY <2>7, <2>8, <2>9, <2>10
    <2>14. k \notin T => h[T] <= g[T]
      BY <2>7, <2>8, <2>9, <2>11
    <2> QED BY <2>3, <2>12, <2>13, <2>14, ZenonT(30)
  <1>2. Good(S)
    <2>1. Cardinality(S) \in Nat /\ S \in SUBSET S
      BY FS_CardinalityType, Zenon
    <2> HIDE DEF Good
    <2> QED BY <1>1, <2>1, Zenon
  <1> QED BY <1>2, Zenon

-----------------------------------------------------------------------------
\* What a connection has moved and what it has been charged for and may still
\* move: the chunks its pumps hold, the head or the body before its write.
Moves == [k \in Conns |-> moved[k]["up"] + moved[k]["down"]]
Pending(k) ==
  IF phase[k] = "head_write" THEN 1 ELSE IF phase[k] = "body_write" THEN req[k].len ELSE 0
Owed ==
  [k \in Conns |-> moved[k]["up"] + moved[k]["down"] + chunk[k]["up"] + chunk[k]["down"] + Pending(k)]
Of(t) == {k \in Conns : req[k].token = t}

BudgetTypes ==
  /\ req \in [Conns -> Requests]
  /\ used \in [Tokens -> Nat]
  /\ DOMAIN phase = Conns
  /\ chunk \in [Conns -> [Dirs -> Nat]]
  /\ moved \in [Conns -> [Dirs -> Nat]]

BudgetInv ==
  /\ BudgetTypes
  /\ \A t \in Tokens :
       used[t] <= Budget /\ \E g : Sums(Owed, SUBSET Of(t), g) /\ g[Of(t)] <= used[t]

\* MovedFor is such a sum.
LEMMA MovedIsSum ==
  ASSUME NEW t \in Tokens
  PROVE  \E g : Sums(Moves, SUBSET Of(t), g) /\ MovedFor(t) = g[Of(t)]
  <1> DEFINE S == Of(t)
             Step(g) == g = [T \in SUBSET S |->
                 IF T = {} THEN 0
                 ELSE LET x == CHOOSE y \in T : TRUE
                      IN  (moved[x]["up"] + moved[x]["down"]) + g[T \ {x}]]
             it == CHOOSE g : Step(g)
  <1>1. MovedFor(t) = it[S]
    BY Zenon DEF MovedFor, MapThenSumSet, MapThenFoldSet, Of
  <1>2. ASSUME NEW g, Sums(Moves, SUBSET S, g) PROVE Step(g)
    <2>1. ASSUME NEW T \in SUBSET S, T # {} PROVE Moves[Some(T)] = moved[Some(T)]["up"] + moved[Some(T)]["down"]
      <3>1. Some(T) \in Conns
        BY <2>1, Zenon DEF Some, Of
      <3> QED BY <3>1, Zenon DEF Moves
    <2> QED BY <1>2, <2>1 DEF Sums, SumAt, Some
  <1>3. ASSUME NEW g, Step(g) PROVE Sums(Moves, SUBSET S, g)
    <2>1. ASSUME NEW T \in SUBSET S, T # {} PROVE Moves[Some(T)] = moved[Some(T)]["up"] + moved[Some(T)]["down"]
      <3>1. Some(T) \in Conns
        BY <2>1, ZenonT(30) DEF Some, Of
      <3> QED BY <3>1, ZenonT(30) DEF Moves
    <2> QED BY <1>3, <2>1 DEF Sums, SumAt, Some
  <1>4. IsFiniteSet(S)
    BY BrokerAssumption, FS_Subset, Zenon DEF Of
  <1>5. \E g : Step(g)
    <2>1. PICK g : Sums(Moves, SUBSET S, g)
      <3> HIDE DEF S, Step
      <3> QED BY <1>4, SumsExist, Zenon
    <2>2. Step(g)
      BY <1>2, <2>1, Zenon
    <2> HIDE DEF Step
    <2> QED BY <2>2, Zenon
  <1>6. Step(it)
    <2> HIDE DEF Step
    <2> QED BY <1>5, Zenon
  <1> QED BY <1>1, <1>3, <1>6, Zenon

LEMMA OwedNat ==
  ASSUME BudgetTypes, NEW k \in Conns
  PROVE  /\ Owed[k] \in Nat /\ Moves[k] \in Nat /\ Moves[k] <= Owed[k]
         /\ req[k].token \in Tokens /\ req[k].len \in Nat /\ Pending(k) \in Nat
         /\ moved[k]["up"] \in Nat /\ moved[k]["down"] \in Nat
         /\ chunk[k]["up"] \in Nat /\ chunk[k]["down"] \in Nat
         /\ Owed[k] = moved[k]["up"] + moved[k]["down"] + chunk[k]["up"] + chunk[k]["down"] + Pending(k)
  <1>1. /\ moved[k]["up"] \in Nat /\ moved[k]["down"] \in Nat
        /\ chunk[k]["up"] \in Nat /\ chunk[k]["down"] \in Nat
    BY Zenon DEF BudgetTypes, Dirs
  <1>2. req[k].token \in Tokens /\ req[k].len \in Nat
    BY BrokerAssumption DEF BudgetTypes, Request
  <1>3. Pending(k) \in Nat
    BY <1>2, Zenon DEF Pending
  <1>4. Owed[k] = moved[k]["up"] + moved[k]["down"] + chunk[k]["up"] + chunk[k]["down"] + Pending(k)
    BY Zenon DEF Owed
  <1>5. Moves[k] = moved[k]["up"] + moved[k]["down"]
    BY Zenon DEF Moves
  <1> QED BY <1>1, <1>2, <1>3, <1>4, <1>5

\* The budget is kept by a step that charges n to the session of a connection
\* and lets that connection move n more, and no other.
LEMMA ChargeKeeps ==
  ASSUME BudgetInv, BudgetTypes', req' = req, NEW k \in Conns, NEW n \in Nat,
         used[req[k].token] + n <= Budget,
         used' = [used EXCEPT ![req[k].token] = @ + n],
         \A j \in Conns : j # k => Owed'[j] <= Owed[j],
         Owed'[k] <= Owed[k] + n
  PROVE  BudgetInv'
  <1>1. SUFFICES ASSUME NEW t \in Tokens
                 PROVE  used'[t] <= Budget /\ \E g : Sums(Owed', SUBSET Of(t)', g) /\ g[Of(t)'] <= used'[t]
    BY Zenon DEF BudgetInv
  <1>2. Of(t)' = Of(t)
    BY Zenon DEF Of
  <1>3. PICK g : Sums(Owed, SUBSET Of(t), g) /\ g[Of(t)] <= used[t]
    BY Zenon DEF BudgetInv
  <1>4. IsFiniteSet(Of(t))
    BY BrokerAssumption, FS_Subset, Zenon DEF Of
  <1>5. PICK h : Sums(Owed', SUBSET Of(t), h)
    BY <1>4, SumsExist, Zenon
  <1>6. /\ used[t] \in Nat /\ used[t] <= Budget
        /\ used'[t] = IF t = req[k].token THEN used[t] + n ELSE used[t]
    BY Zenon DEF BudgetInv, BudgetTypes
  <1>7. \A j \in Of(t) : Owed[j] \in Nat /\ Owed'[j] \in Nat
    <2> SUFFICES ASSUME NEW j \in Conns PROVE Owed[j] \in Nat /\ Owed'[j] \in Nat
      BY Zenon DEF Of
    <2>1. Owed[j] \in Nat
      BY OwedNat, Zenon DEF BudgetInv
    <2>2. Owed'[j] \in Nat
      <3>1. /\ moved'[j]["up"] \in Nat /\ moved'[j]["down"] \in Nat
            /\ chunk'[j]["up"] \in Nat /\ chunk'[j]["down"] \in Nat
        BY DEF BudgetTypes, Dirs
      <3>2. req'[j].len \in Nat
        <4>1. req'[j] \in Requests /\ Requests \subseteq Request
          BY BrokerAssumption, Zenon DEF BudgetInv, BudgetTypes
        <4>2. req'[j] \in Request
          BY <4>1, Zenon
        <4> QED BY <4>2, Zenon DEF Request
      <3>3. Pending(j)' \in Nat
        BY <3>2, Zenon DEF Pending
      <3>4. Owed'[j] = moved'[j]["up"] + moved'[j]["down"] + chunk'[j]["up"] + chunk'[j]["down"] + Pending(j)'
        BY Zenon DEF Owed
      <3> QED BY <3>1, <3>3, <3>4
    <2> QED BY <2>1, <2>2, Zenon
  <1>8. CASE t = req[k].token
    <2>1. \A j \in Of(t) : Owed'[j] <= Owed[j] + n /\ (j # k => Owed'[j] <= Owed[j])
      <3> SUFFICES ASSUME NEW j \in Of(t) PROVE Owed'[j] <= Owed[j] + n /\ (j # k => Owed'[j] <= Owed[j])
        BY Zenon
      <3>1. j \in Conns /\ Owed[j] \in Nat /\ Owed'[j] \in Nat
        BY <1>7, Zenon DEF Of
      <3>2. CASE j = k
        BY <3>2, Zenon
      <3>3. CASE j # k
        <4>1. Owed'[j] <= Owed[j]
          BY <3>1, <3>3, Zenon
        <4> QED BY <3>1, <3>3, <4>1
      <3> QED BY <3>2, <3>3, Zenon
    <2>2. g[Of(t)] \in Nat /\ h[Of(t)] \in Nat /\ h[Of(t)] <= g[Of(t)] + n
      BY <1>3, <1>4, <1>5, <1>7, <2>1, SumsGrow, Zenon
    <2>3. h[Of(t)] <= used'[t] /\ used'[t] <= Budget
      BY <1>3, <1>6, <1>8, <2>2, SMTT(20)
    <2> QED BY <1>2, <1>5, <2>3, Zenon
  <1>9. CASE t # req[k].token
    <2>1. \A j \in Of(t) : Owed'[j] <= Owed[j] + 0 /\ (j # k => Owed'[j] <= Owed[j])
      <3> SUFFICES ASSUME NEW j \in Of(t) PROVE Owed'[j] <= Owed[j] + 0 /\ Owed'[j] <= Owed[j]
        BY Zenon
      <3>1. j \in Conns /\ Owed[j] \in Nat /\ Owed'[j] \in Nat /\ j # k
        BY <1>7, <1>9, Zenon DEF Of
      <3>2. Owed'[j] <= Owed[j]
        BY <3>1, Zenon
      <3> QED BY <3>1, <3>2
    <2>2. g[Of(t)] \in Nat /\ h[Of(t)] \in Nat /\ h[Of(t)] <= g[Of(t)] + 0
      <3>1. 0 \in Nat
        BY Zenon
      <3> QED BY <1>3, <1>4, <1>5, <1>7, <2>1, <3>1, SumsGrow, Zenon
    <2>3. h[Of(t)] <= used'[t] /\ used'[t] <= Budget
      BY <1>3, <1>6, <1>9, <2>2
    <2> QED BY <1>2, <1>5, <2>3, ZenonT(30)
  <1> QED BY <1>8, <1>9, Zenon

\* A step of one connection: what it moved, holds and is about to write grows by
\* no more than what its session is charged.
LEMMA ConnKeeps ==
  ASSUME BudgetInv, BudgetTypes', req' = req, NEW k \in Conns, NEW n \in Nat,
         used[req[k].token] + n <= Budget,
         used' = [used EXCEPT ![req[k].token] = @ + n],
         \A j \in Conns : j # k => phase'[j] = phase[j] /\ moved'[j] = moved[j] /\ chunk'[j] = chunk[j],
         moved'[k]["up"] + moved'[k]["down"] + chunk'[k]["up"] + chunk'[k]["down"] + Pending(k)'
           <= moved[k]["up"] + moved[k]["down"] + chunk[k]["up"] + chunk[k]["down"] + Pending(k) + n
  PROVE  BudgetInv'
  <1>1. \A j \in Conns :
          Owed'[j] = moved'[j]["up"] + moved'[j]["down"] + chunk'[j]["up"] + chunk'[j]["down"] + Pending(j)'
    BY Zenon DEF Owed
  <1>2. \A j \in Conns :
          Owed[j] = moved[j]["up"] + moved[j]["down"] + chunk[j]["up"] + chunk[j]["down"] + Pending(j)
    BY Zenon DEF Owed
  <1>3. ASSUME NEW j \in Conns, j # k PROVE Owed'[j] <= Owed[j]
    <2>1. Pending(j)' = Pending(j)
      BY <1>3, Zenon DEF Pending
    <2>2. Owed'[j] = Owed[j]
      BY <1>1, <1>2, <1>3, <2>1, Zenon
    <2>3. Owed[j] \in Nat
      BY OwedNat, Zenon DEF BudgetInv
    <2> QED BY <2>2, <2>3
  <1>4. Owed'[k] <= Owed[k] + n
    BY <1>1, <1>2, Zenon
  <1> QED BY <1>3, <1>4, ChargeKeeps, Zenon

\* ... when nothing is charged.
LEMMA UnchargedKeeps ==
  ASSUME BudgetInv, BudgetTypes', req' = req, NEW k \in Conns, used' = used,
         \A j \in Conns : j # k => phase'[j] = phase[j] /\ moved'[j] = moved[j] /\ chunk'[j] = chunk[j],
         moved'[k]["up"] + moved'[k]["down"] + chunk'[k]["up"] + chunk'[k]["down"] + Pending(k)'
           <= moved[k]["up"] + moved[k]["down"] + chunk[k]["up"] + chunk[k]["down"] + Pending(k)
  PROVE  BudgetInv'
  <1>1. req[k].token \in Tokens
    BY OwedNat, Zenon DEF BudgetInv
  <1>2. used \in [Tokens -> Nat] /\ used[req[k].token] \in Nat /\ used[req[k].token] <= Budget
    BY <1>1, Zenon DEF BudgetInv, BudgetTypes
  <1>3. used[req[k].token] + 0 <= Budget /\ used' = [used EXCEPT ![req[k].token] = @ + 0]
    BY <1>1, <1>2
  <1>4. /\ moved[k]["up"] \in Nat /\ moved[k]["down"] \in Nat
        /\ chunk[k]["up"] \in Nat /\ chunk[k]["down"] \in Nat /\ Pending(k) \in Nat
    BY OwedNat, Zenon DEF BudgetInv
  <1>5. moved'[k]["up"] + moved'[k]["down"] + chunk'[k]["up"] + chunk'[k]["down"] + Pending(k)'
           <= moved[k]["up"] + moved[k]["down"] + chunk[k]["up"] + chunk[k]["down"] + Pending(k) + 0
    BY <1>4
  <1>6. 0 \in Nat
    BY Zenon
  <1> QED BY <1>3, <1>5, <1>6, ConnKeeps, Zenon

\* ... and only the phase changes, to one with nothing left to write.
LEMMA GotoKeeps ==
  ASSUME BudgetInv, NEW k \in Conns, NEW p, p # "head_write", p # "body_write", Goto(k, p),
         UNCHANGED <<req, used, chunk, moved>>
  PROVE  BudgetInv'
  <1>1. BudgetTypes'
    BY Zenon DEF BudgetInv, BudgetTypes, Goto
  <1>2. phase'[k] = p /\ \A j \in Conns : j # k => phase'[j] = phase[j]
    BY Zenon DEF BudgetInv, BudgetTypes, Goto
  <1>3. Pending(k)' = 0
    BY <1>2, Zenon DEF Pending
  <1>4. /\ moved[k]["up"] \in Nat /\ moved[k]["down"] \in Nat
        /\ chunk[k]["up"] \in Nat /\ chunk[k]["down"] \in Nat /\ Pending(k) \in Nat
    BY OwedNat, Zenon DEF BudgetInv
  <1>5. moved'[k]["up"] + moved'[k]["down"] + chunk'[k]["up"] + chunk'[k]["down"] + Pending(k)'
           <= moved[k]["up"] + moved[k]["down"] + chunk[k]["up"] + chunk[k]["down"] + Pending(k)
    BY <1>3, <1>4
  <1> QED BY <1>1, <1>2, <1>5, UnchargedKeeps, Zenon

\* ... and nothing that the budget depends on changes.
LEMMA BudgetStill ==
  ASSUME BudgetInv, UNCHANGED <<used, req, phase, chunk, moved>>
  PROVE  BudgetInv'
  <1>1. BudgetTypes'
    BY Zenon DEF BudgetInv, BudgetTypes
  <1>2. \A k \in Conns : Pending(k)' = Pending(k)
    BY Zenon DEF Pending
  <1>3. Owed' = Owed
    BY <1>2, Zenon DEF Owed
  <1>4. \A t : Of(t)' = Of(t)
    BY Zenon DEF Of
  <1> QED BY <1>1, <1>3, <1>4, Zenon DEF BudgetInv

LEMMA BudgetCharge ==
  ASSUME BudgetInv, NEW k \in Conns, NEW at, NEW n \in Nat, NEW next, Charge(k, at, n, next),
         at \in {"head", "body"},
         (next = "head_write" /\ n = 1) \/ (next = "body_write" /\ n = req[k].len)
  PROVE  BudgetInv'
  <1>1. UNCHANGED <<req, chunk, moved>> /\ phase[k] = at
    BY Zenon DEF Charge, pumpVars
  <1>2. CASE Fits(req[k].token, n)
    <2>1. /\ used' = [used EXCEPT ![req[k].token] = @ + n] /\ phase' = [phase EXCEPT ![k] = next]
          /\ used[req[k].token] + n <= Budget
      BY <1>2, Zenon DEF Charge, RecordBytes, Goto, Fits
    <2>2. req[k].token \in Tokens
      BY OwedNat, Zenon DEF BudgetInv
    <2>3. BudgetTypes'
      BY <1>1, <2>1, <2>2, SMTT(20) DEF BudgetInv, BudgetTypes
    <2>4. phase'[k] = next /\ \A j \in Conns : j # k => phase'[j] = phase[j]
      BY <2>1, Zenon DEF BudgetInv, BudgetTypes
    <2>5. Pending(k)' = n /\ Pending(k) = 0
      BY <1>1, <2>4, Zenon DEF Pending
    <2>6. /\ moved[k]["up"] \in Nat /\ moved[k]["down"] \in Nat
          /\ chunk[k]["up"] \in Nat /\ chunk[k]["down"] \in Nat
      BY OwedNat, Zenon DEF BudgetInv
    <2>7. moved'[k]["up"] + moved'[k]["down"] + chunk'[k]["up"] + chunk'[k]["down"] + Pending(k)'
             <= moved[k]["up"] + moved[k]["down"] + chunk[k]["up"] + chunk[k]["down"] + Pending(k) + n
      BY <1>1, <2>5, <2>6
    <2> QED BY <1>1, <2>1, <2>3, <2>4, <2>7, ConnKeeps, Zenon
  <1>3. CASE ~Fits(req[k].token, n)
    <2>1. Goto(k, "closed") /\ used' = used
      BY <1>3, Zenon DEF Charge
    <2> QED BY <1>1, <2>1, GotoKeeps, Zenon
  <1> QED BY <1>2, <1>3, Zenon

\* The write of the head or of the body: what was pending is moved.
LEMMA WriteUpKeeps ==
  ASSUME BudgetInv, NEW k \in Conns, NEW n \in Nat, Pending(k) = n, WriteUp(k, n),
         NEW p, p # "head_write", p # "body_write", Goto(k, p), UNCHANGED <<req, used, chunk>>
  PROVE  BudgetInv'
  <1>1. moved' = [moved EXCEPT ![k]["up"] = @ + n] /\ moved \in [Conns -> [Dirs -> Nat]]
    BY Zenon DEF WriteUp, BudgetInv, BudgetTypes
  <1>2. moved' \in [Conns -> [Dirs -> Nat]]
    BY <1>1 DEF Dirs
  <1>3. BudgetTypes'
    BY <1>2, Zenon DEF BudgetInv, BudgetTypes, Goto
  <1>4. /\ phase'[k] = p
        /\ \A j \in Conns : j # k => phase'[j] = phase[j] /\ moved'[j] = moved[j] /\ chunk'[j] = chunk[j]
    BY <1>1, Zenon DEF BudgetInv, BudgetTypes, Goto
  <1>5. Pending(k)' = 0
    BY <1>4, Zenon DEF Pending
  <1>6. /\ moved[k]["up"] \in Nat /\ moved[k]["down"] \in Nat
        /\ chunk[k]["up"] \in Nat /\ chunk[k]["down"] \in Nat
    BY OwedNat, Zenon DEF BudgetInv
  <1>7. moved'[k]["up"] = moved[k]["up"] + n /\ moved'[k]["down"] = moved[k]["down"]
    BY <1>1, Zenon DEF Dirs
  <1>e. chunk' = chunk
    BY Zenon
  <1>8. moved'[k]["up"] + moved'[k]["down"] + chunk'[k]["up"] + chunk'[k]["down"] + Pending(k)'
           <= moved[k]["up"] + moved[k]["down"] + chunk[k]["up"] + chunk[k]["down"] + Pending(k)
    BY <1>5, <1>6, <1>7, <1>e
  <1> QED BY <1>3, <1>4, <1>8, UnchargedKeeps, Zenon

LEMMA BudgetConnStep ==
  ASSUME BudgetInv, NEW k \in Conns, ConnStep(k)
  PROVE  BudgetInv'
  <1>1. CASE Authenticate(k)
    <2>1. (Goto(k, "authorised") \/ Goto(k, "closed")) /\ UNCHANGED <<req, used, chunk, moved>>
      BY <1>1, Zenon DEF Authenticate, brokerVars, pumpVars
    <2> QED BY <2>1, GotoKeeps, Zenon
  <1>2. CASE Refuse(k)
    <2>1. Goto(k, "closed") /\ UNCHANGED <<req, used, chunk, moved>>
      BY <1>2, Zenon DEF Refuse, brokerVars, pumpVars
    <2> QED BY <2>1, GotoKeeps, Zenon
  <1>3. CASE Connect(k)
    <2>1. (Goto(k, "tunnel") \/ Goto(k, "head")) /\ UNCHANGED <<req, used, chunk, moved>>
      BY <1>3, Zenon DEF Connect, brokerVars
    <2> QED BY <2>1, GotoKeeps, Zenon
  <1>4. CASE ChargeHead(k)
    <2>1. Charge(k, "head", 1, "head_write") /\ 1 \in Nat
      BY <1>4, Zenon DEF ChargeHead
    <2> QED BY <2>1, BudgetCharge, Zenon
  <1>5. CASE WriteHead(k)
    <2>1. /\ phase[k] = "head_write" /\ UNCHANGED <<req, used, chunk>>
          /\ \/ WriteUp(k, 1) /\ (Goto(k, "body") \/ Goto(k, "relay"))
             \/ Goto(k, "closed") /\ moved' = moved
      BY <1>5, Zenon DEF WriteHead, StartRelay, brokerVars
    <2>2. Pending(k) = 1
      BY <2>1, Zenon DEF Pending
    <2> QED BY <2>1, <2>2, GotoKeeps, WriteUpKeeps, Zenon
  <1>6. CASE ChargeBody(k)
    <2>1. req[k].len \in Nat
      BY OwedNat, Zenon DEF BudgetInv
    <2> QED BY <1>6, <2>1, BudgetCharge, Zenon DEF ChargeBody
  <1>7. CASE BodyMissing(k)
    <2>1. Goto(k, "closed") /\ UNCHANGED <<req, used, chunk, moved>>
      BY <1>7, Zenon DEF BodyMissing, brokerVars, pumpVars
    <2> QED BY <2>1, GotoKeeps, ZenonT(30)
  <1>8. CASE WriteBody(k)
    <2>1. /\ phase[k] = "body_write" /\ UNCHANGED <<req, used, chunk>>
          /\ \/ WriteUp(k, req[k].len) /\ Goto(k, "relay")
             \/ Goto(k, "closed") /\ moved' = moved
      BY <1>8, Zenon DEF WriteBody, StartRelay, brokerVars
    <2>2. Pending(k) = req[k].len
      BY <2>1, ZenonT(30) DEF Pending
    <2>3. req[k].len \in Nat
      BY OwedNat, ZenonT(30) DEF BudgetInv
    <2> QED BY <2>1, <2>2, <2>3, GotoKeeps, WriteUpKeeps, ZenonT(30)
  <1>9. CASE Close(k)
    <2>1. Goto(k, "closed") /\ UNCHANGED <<req, used, chunk, moved>>
      BY <1>9, Zenon DEF Close, brokerVars, pumpVars
    <2> QED BY <2>1, GotoKeeps, ZenonT(30)
  <1> QED BY <1>1, <1>2, <1>3, <1>4, <1>5, <1>6, <1>7, <1>8, <1>9, ZenonT(30) DEF ConnStep

LEMMA BudgetPumpRead ==
  ASSUME BudgetInv, NEW k \in Conns, NEW d \in Dirs, NEW n \in 1 .. MaxChunk, PumpRead(k, d, n)
  PROVE  BudgetInv'
  <1>1. UNCHANGED <<req, phase, moved>> /\ n \in Nat /\ d \in {"up", "down"}
    BY BrokerAssumption DEF PumpRead, connVars, Dirs
  <1>2. CASE Fits(req[k].token, n)
    <2>1. /\ used' = [used EXCEPT ![req[k].token] = @ + n] /\ chunk' = [chunk EXCEPT ![k][d] = n]
          /\ used[req[k].token] + n <= Budget
      BY <1>2, Zenon DEF PumpRead, RecordBytes, Fits
    <2>2. req[k].token \in Tokens
      BY OwedNat, Zenon DEF BudgetInv
    <2>3. used' \in [Tokens -> Nat] /\ chunk' \in [Conns -> [Dirs -> Nat]]
      BY <1>1, <2>1, <2>2, SMTT(20) DEF BudgetInv, BudgetTypes, Dirs
    <2>4. BudgetTypes'
      BY <1>1, <2>3, Zenon DEF BudgetInv, BudgetTypes
    <2>5. \A j \in Conns : j # k => chunk'[j] = chunk[j]
      BY <2>1, Zenon DEF BudgetInv, BudgetTypes
    <2>6. Pending(k)' = Pending(k)
      BY <1>1, Zenon DEF Pending
    <2>7. /\ moved[k]["up"] \in Nat /\ moved[k]["down"] \in Nat
          /\ chunk[k]["up"] \in Nat /\ chunk[k]["down"] \in Nat /\ Pending(k) \in Nat
      BY OwedNat, Zenon DEF BudgetInv
    <2>8. \/ chunk'[k]["up"] = n /\ chunk'[k]["down"] = chunk[k]["down"]
          \/ chunk'[k]["up"] = chunk[k]["up"] /\ chunk'[k]["down"] = n
      BY <1>1, <2>1, Zenon DEF BudgetInv, BudgetTypes, Dirs
    <2>9. moved'[k]["up"] + moved'[k]["down"] + chunk'[k]["up"] + chunk'[k]["down"] + Pending(k)'
             <= moved[k]["up"] + moved[k]["down"] + chunk[k]["up"] + chunk[k]["down"] + Pending(k) + n
      BY <1>1, <2>6, <2>7, <2>8, SMTT(20)
    <2> QED BY <1>1, <2>1, <2>4, <2>5, <2>9, ConnKeeps, Zenon
  <1>3. CASE ~Fits(req[k].token, n)
    <2>1. UNCHANGED <<used, chunk>>
      BY <1>3, Zenon DEF PumpRead
    <2> QED BY <1>1, <2>1, BudgetStill, Zenon
  <1> QED BY <1>2, <1>3, Zenon

LEMMA BudgetPumpWrite ==
  ASSUME BudgetInv, NEW k \in Conns, NEW d \in Dirs, PumpWrite(k, d)
  PROVE  BudgetInv'
  <1>1. UNCHANGED <<req, phase, used>> /\ d \in {"up", "down"}
    BY Zenon DEF PumpWrite, connVars, brokerVars, Dirs
  <1>2. /\ chunk' = [chunk EXCEPT ![k][d] = 0]
        /\ moved' = [moved EXCEPT ![k][d] = @ + chunk[k][d]] \/ moved' = moved
    BY Zenon DEF PumpWrite
  <1>3. chunk \in [Conns -> [Dirs -> Nat]] /\ moved \in [Conns -> [Dirs -> Nat]]
    BY Zenon DEF BudgetInv, BudgetTypes
  <1>4. chunk' \in [Conns -> [Dirs -> Nat]] /\ moved' \in [Conns -> [Dirs -> Nat]]
    <2>1. d \in Dirs /\ chunk[k][d] \in Nat /\ moved[k][d] \in Nat
      BY <1>3, Zenon
    <2>2. chunk' \in [Conns -> [Dirs -> Nat]]
      BY <1>2, <1>3, Zenon
    <2>3. moved[k][d] + chunk[k][d] \in Nat
      BY <2>1
    <2>4. moved' \in [Conns -> [Dirs -> Nat]]
      BY <1>2, <1>3, <2>1, <2>3
    <2> QED BY <2>2, <2>4, Zenon
  <1>5. BudgetTypes'
    BY <1>1, <1>4, Zenon DEF BudgetInv, BudgetTypes
  <1>6. \A j \in Conns : j # k => chunk'[j] = chunk[j] /\ moved'[j] = moved[j]
    BY <1>2, <1>3, Zenon
  <1>7. Pending(k)' = Pending(k)
    BY <1>1, Zenon DEF Pending
  <1>8. /\ moved[k]["up"] \in Nat /\ moved[k]["down"] \in Nat
        /\ chunk[k]["up"] \in Nat /\ chunk[k]["down"] \in Nat /\ Pending(k) \in Nat
    BY OwedNat, Zenon DEF BudgetInv
  <1>9. \/ /\ chunk'[k]["up"] = 0 /\ chunk'[k]["down"] = chunk[k]["down"]
           /\ moved'[k]["up"] \in {moved[k]["up"], moved[k]["up"] + chunk[k]["up"]}
           /\ moved'[k]["down"] = moved[k]["down"]
        \/ /\ chunk'[k]["down"] = 0 /\ chunk'[k]["up"] = chunk[k]["up"]
           /\ moved'[k]["down"] \in {moved[k]["down"], moved[k]["down"] + chunk[k]["down"]}
           /\ moved'[k]["up"] = moved[k]["up"]
    BY <1>1, <1>2, <1>3 DEF Dirs
  <1>10. moved'[k]["up"] + moved'[k]["down"] + chunk'[k]["up"] + chunk'[k]["down"] + Pending(k)'
           <= moved[k]["up"] + moved[k]["down"] + chunk[k]["up"] + chunk[k]["down"] + Pending(k)
    BY <1>7, <1>8, <1>9, SMTT(20)
  <1> QED BY <1>1, <1>5, <1>6, <1>10, UnchargedKeeps, Zenon

LEMMA BudgetInitially == Init => BudgetInv
  <1> SUFFICES ASSUME Init PROVE BudgetInv
    BY ZenonT(30)
  <1>1. BudgetTypes
    BY Zenon DEF Init, BudgetTypes, Both
  <1>2. ASSUME NEW t \in Tokens
        PROVE  used[t] <= Budget /\ \E g : Sums(Owed, SUBSET Of(t), g) /\ g[Of(t)] <= used[t]
    <2>1. used[t] = 0 /\ 0 <= Budget
      BY BrokerAssumption, SMTT(20) DEF Init
    <2>2. IsFiniteSet(Of(t))
      BY BrokerAssumption, FS_Subset, Zenon DEF Of
    <2>3. PICK g : Sums(Owed, SUBSET Of(t), g)
      BY <2>2, SumsExist, Zenon
    <2> DEFINE none == [k \in Conns |-> 0]
               zero == [T \in SUBSET Of(t) |-> 0]
    <2>4. Sums(none, SUBSET Of(t), zero)
      <3>1. ASSUME NEW T \in SUBSET Of(t) PROVE SumAt(none, zero, T) = 0
        <4>1. CASE T = {}
          BY <4>1, Zenon DEF SumAt
        <4>2. CASE T # {}
          <5>1. Some(T) \in Conns
            BY <4>2, Zenon DEF Some, Of
          <5>2. none[Some(T)] = 0 /\ zero[T \ {Some(T)}] = 0
            BY <5>1, Zenon
          <5> QED BY <4>2, <5>2 DEF SumAt
        <4> QED BY <4>1, <4>2, Zenon
      <3> QED BY <3>1, Zenon DEF Sums
    <2>5. \A k \in Of(t) : none[k] \in Nat /\ Owed[k] \in Nat
      BY <1>1, OwedNat, Zenon DEF Of
    <2>6. \A k \in Of(t) : Owed[k] <= none[k] + 0 /\ (k # 0 => Owed[k] <= none[k])
      <3> SUFFICES ASSUME NEW k \in Conns PROVE Owed[k] = 0 /\ none[k] = 0
        BY DEF Of
      <3>1. Pending(k) = 0
        BY Zenon DEF Init, Pending
      <3>2. moved[k]["up"] = 0 /\ moved[k]["down"] = 0 /\ chunk[k]["up"] = 0 /\ chunk[k]["down"] = 0
        BY Zenon DEF Init, Both, Dirs
      <3>3. Owed[k] = moved[k]["up"] + moved[k]["down"] + chunk[k]["up"] + chunk[k]["down"] + Pending(k)
        BY <1>1, OwedNat, Zenon
      <3> QED BY <3>1, <3>2, <3>3
    <2>7. zero[Of(t)] = 0 /\ 0 \in Nat
      BY Zenon
    <2> HIDE DEF none, zero
    <2>8. g[Of(t)] \in Nat /\ g[Of(t)] <= zero[Of(t)] + 0
      BY <2>2, <2>3, <2>4, <2>5, <2>6, <2>7, SumsGrow, Zenon
    <2>9. g[Of(t)] <= used[t]
      BY <2>1, <2>7, <2>8
    <2> QED BY <2>1, <2>3, <2>9, Zenon
  <1> QED BY <1>1, <1>2, Zenon DEF BudgetInv

LEMMA BudgetNext ==
  ASSUME BudgetInv, [Next]_vars
  PROVE  BudgetInv'
  <1>1. ASSUME NEW t \in Tokens, IssueSession(t) \/ RevokeSession(t) PROVE BudgetInv'
    <2>1. UNCHANGED <<used, req, phase, chunk, moved>>
      BY <1>1, Zenon DEF IssueSession, RevokeSession, connVars, pumpVars
    <2> QED BY <2>1, BudgetStill, Zenon
  <1>2. ASSUME NEW k \in Conns, NEW d \in Dirs, PumpStep(k, d) PROVE BudgetInv'
    <2>1. CASE PumpEof(k, d)
      <3>1. UNCHANGED <<used, req, phase, chunk, moved>>
        BY <2>1, Zenon DEF PumpEof, connVars, brokerVars
      <3> QED BY <3>1, BudgetStill, Zenon
    <2> QED BY <1>2, <2>1, BudgetPumpRead, BudgetPumpWrite, Zenon DEF PumpStep
  <1>3. CASE UNCHANGED vars
    <2>1. UNCHANGED <<used, req, phase, chunk, moved>>
      BY <1>3, Zenon DEF vars, connVars, brokerVars, pumpVars
    <2> QED BY <2>1, BudgetStill, Zenon
  <1> QED BY <1>1, <1>2, <1>3, BudgetConnStep, Zenon DEF Next

\* record_bytes charges a session before the bytes move (proxy.rs, egress.rs):
\* whatever the connections that share a session and the two pumps of each
\* tunnel do, together they never move more than its byte budget.
THEOREM BudgetKept == Spec => []BudgetHolds
  <1>1. BudgetInv => BudgetHolds
    <2> SUFFICES ASSUME BudgetInv, NEW t \in Tokens PROVE MovedFor(t) <= Budget
      BY Zenon DEF BudgetHolds
    <2>1. PICK g : Sums(Owed, SUBSET Of(t), g) /\ g[Of(t)] <= used[t]
      BY Zenon DEF BudgetInv
    <2>2. PICK h : Sums(Moves, SUBSET Of(t), h) /\ MovedFor(t) = h[Of(t)]
      BY MovedIsSum, Zenon
    <2>3. IsFiniteSet(Of(t))
      BY BrokerAssumption, FS_Subset, Zenon DEF Of
    <2>4. \A k \in Of(t) : Owed[k] \in Nat /\ Moves[k] \in Nat
      BY OwedNat, Zenon DEF Of, BudgetInv
    <2>5. \A k \in Of(t) : Moves[k] <= Owed[k] + 0 /\ (k # 0 => Moves[k] <= Owed[k])
      <3> SUFFICES ASSUME NEW k \in Conns PROVE Moves[k] <= Owed[k] /\ Moves[k] <= Owed[k] + 0
        BY Zenon DEF Of
      <3>1. Moves[k] <= Owed[k] /\ Owed[k] \in Nat
        BY OwedNat, Zenon DEF BudgetInv
      <3> QED BY <3>1
    <2>6. 0 \in Nat
      BY Zenon
    <2>7. g[Of(t)] \in Nat /\ h[Of(t)] \in Nat /\ h[Of(t)] <= g[Of(t)] + 0
      BY <2>1, <2>2, <2>3, <2>4, <2>5, <2>6, SumsGrow, Zenon
    <2>8. used[t] <= Budget /\ used[t] \in Nat /\ Budget \in Nat
      BY BrokerAssumption, Zenon DEF BudgetInv, BudgetTypes
    <2> QED BY <2>1, <2>2, <2>7, <2>8
  <1>2. BudgetInv /\ [Next]_vars => BudgetInv'
    BY BudgetNext, ZenonT(30)
  <1> QED BY BudgetInitially, <1>1, <1>2, PTL DEF Spec

-----------------------------------------------------------------------------
(* The audit pipeline *)

Stamped == [event : Nat, seq : Nat, dropped : Nat]

AuditTypes ==
  /\ emitted \in Nat /\ seq \in Nat /\ dropped \in Nat /\ malformed \in Nat /\ atStop \in Nat
  /\ ring \in Seq(Nat) /\ chan \in Seq(Stamped) /\ got \in Seq(Stamped)
  /\ thread \in {"check", "poll", "sweep", "done"}
  /\ stream \in {"reading", "stopping", "stopped"} /\ shutdown \in BOOLEAN
  /\ unseen \in SUBSET Nat /\ IsFiniteSet(unseen)

\* Events wait in the ring in the order of their emission, and all that has left
\* it is older.
OrderInv ==
  /\ \A i \in 1 .. Len(ring) : ring[i] <= emitted
  /\ \A i, j \in 1 .. Len(ring) : i < j => ring[i] < ring[j]
  /\ \A i \in 1 .. Len(Past), j \in 1 .. Len(ring) : Past[i].event < ring[j]
  /\ \A i \in 1 .. Len(Past) : Past[i].event <= emitted
  /\ \A x \in unseen : x <= emitted

\* The sequence number counts what was offered: sent or dropped.
CountInv ==
  /\ seq = Len(Past) + dropped
  /\ LossIsInBand
  /\ AcceptedIsAccountedFor

\* The thread leaves its loop only for a stop, and ends with the ring empty of
\* what the stop found in it.
StopInv ==
  /\ thread \in {"sweep", "done"} => shutdown
  /\ shutdown => stream # "reading"
  /\ stream = "stopped" => thread = "done"
  /\ atStop <= emitted
  /\ thread = "done" => \A i \in 1 .. Len(ring) : ring[i] > atStop

AuditInv == AuditTypes /\ OrderInv /\ CountInv /\ StopInv

-----------------------------------------------------------------------------
\* What the arithmetic below needs of the types.
LEMMA TypeFacts ==
  ASSUME AuditTypes
  PROVE  /\ emitted \in Nat /\ seq \in Nat /\ dropped \in Nat /\ malformed \in Nat /\ atStop \in Nat
         /\ Len(ring) \in Nat /\ \A i \in 1 .. Len(ring) : ring[i] \in Nat
         /\ Past \in Seq(Stamped) /\ Len(Past) = Len(got) + Len(chan)
         /\ Len(Past) \in Nat /\ DOMAIN Past = 1 .. Len(Past)
         /\ \A i \in 1 .. Len(Past) : /\ Past[i].event \in Nat
                                      /\ Past[i].seq \in Nat /\ Past[i].dropped \in Nat
         /\ unseen \subseteq Nat /\ IsFiniteSet(unseen) /\ Cardinality(unseen) \in Nat
  <1>1. Past \in Seq(Stamped) /\ Len(Past) = Len(got) + Len(chan)
    BY ConcatProperties, Zenon DEF AuditTypes, Past
  <1>2. Len(Past) \in Nat /\ DOMAIN Past = 1 .. Len(Past)
    BY <1>1, LenProperties, Zenon
  <1>3. \A i \in 1 .. Len(Past) : Past[i] \in Stamped
    BY <1>1, ElementOfSeq, Zenon
  <1>4. IsFiniteSet(unseen) /\ Cardinality(unseen) \in Nat
    BY FS_CardinalityType, Zenon DEF AuditTypes
  <1>5. Len(ring) \in Nat /\ \A i \in 1 .. Len(ring) : ring[i] \in Nat
    BY DEF AuditTypes
  <1> QED BY <1>1, <1>2, <1>3, <1>4, <1>5, Zenon DEF AuditTypes, Stamped

\* emit_event: the new event is younger than all others, and is in the ring or
\* among those the ring had no room for.
LEMMA EmitKeeps ==
  ASSUME AuditInv, Emit
  PROVE  AuditInv'
  <1>1. /\ Past' = Past
        /\ UNCHANGED <<chan, got, seq, dropped, malformed, thread, shutdown, stream, atStop>>
    BY Zenon DEF Emit, Past, senderVars, ownerVars
  <1>i. AuditTypes /\ OrderInv /\ CountInv /\ StopInv
    BY Zenon DEF AuditInv
  <1>n. /\ emitted \in Nat /\ seq \in Nat /\ dropped \in Nat /\ malformed \in Nat /\ atStop \in Nat
        /\ Len(ring) \in Nat /\ Len(Past) \in Nat /\ Cardinality(unseen) \in Nat
    BY <1>i, TypeFacts, Zenon
  <1>r. \A i \in 1 .. Len(ring) : ring[i] \in Nat /\ ring[i] <= emitted
    BY <1>i, TypeFacts, Zenon DEF OrderInv
  <1>p. \A i \in 1 .. Len(Past) : Past[i].event \in Nat /\ Past[i].event <= emitted
    BY <1>i, TypeFacts, Zenon DEF OrderInv
  <1>u. unseen \subseteq Nat /\ IsFiniteSet(unseen) /\ \A x \in unseen : x <= emitted
    BY <1>i, TypeFacts, Zenon DEF OrderInv
  <1>2. emitted' = emitted + 1
    BY Zenon DEF Emit
  <1>l. LossIsInBand'
    BY <1>1, <1>i, Zenon DEF CountInv, LossIsInBand
  <1>a. emitted - Cardinality(unseen) = Len(ring) + Len(Past) + dropped + malformed
    BY <1>i, Zenon DEF CountInv, AcceptedIsAccountedFor
  <1>3. CASE Len(ring) < RingSize
    <2>1. ring' = Append(ring, emitted + 1) /\ unseen' = unseen
      BY <1>3, Zenon DEF Emit
    <2>2. /\ ring' \in Seq(Nat) /\ Len(ring') = Len(ring) + 1
          /\ \A i \in 1 .. Len(ring) : ring'[i] = ring[i]
          /\ ring'[Len(ring) + 1] = emitted + 1
      <3>1. ring \in Seq(Nat) /\ emitted + 1 \in Nat
        BY <1>i, <1>n DEF AuditTypes
      <3> QED BY <2>1, <3>1, AppendProperties
    <2>3. \A i \in 1 .. Len(ring') :
            \/ i \in 1 .. Len(ring) /\ ring'[i] = ring[i]
            \/ i = Len(ring) + 1 /\ ring'[i] = emitted + 1
      BY <1>n, <2>2, SMTT(20)
    <2>4. AuditTypes'
      BY <1>1, <1>2, <1>i, <1>n, <2>1, <2>2 DEF AuditTypes
    <2>5. OrderInv'
      <3>1. \A i \in 1 .. Len(ring') : ring'[i] <= emitted'
        BY <1>2, <1>n, <1>r, <2>3, SMTT(20)
      <3>2. ASSUME NEW i \in 1 .. Len(ring'), NEW j \in 1 .. Len(ring'), i < j
            PROVE  ring'[i] < ring'[j]
        <4>1. i \in 1 .. Len(ring) /\ ring'[i] = ring[i]
          BY <1>n, <2>2, <2>3, <3>2, SMTT(20)
        <4>2. CASE j \in 1 .. Len(ring) /\ ring'[j] = ring[j]
          BY <1>i, <3>2, <4>1, <4>2, Zenon DEF OrderInv
        <4>3. CASE ring'[j] = emitted + 1
          BY <1>n, <1>r, <4>1, <4>3
        <4> QED BY <2>3, <4>2, <4>3, Zenon
      <3>3. ASSUME NEW i \in 1 .. Len(Past), NEW j \in 1 .. Len(ring')
            PROVE  Past[i].event < ring'[j]
        <4>2. CASE j \in 1 .. Len(ring) /\ ring'[j] = ring[j]
          BY <1>i, <3>3, <4>2, Zenon DEF OrderInv
        <4>3. CASE ring'[j] = emitted + 1
          BY <1>n, <1>p, <4>3, SMTT(20)
        <4> QED BY <2>3, <4>2, <4>3, Zenon
      <3>4. \A i \in 1 .. Len(Past) : Past[i].event <= emitted'
        BY <1>2, <1>n, <1>p
      <3>5. \A x \in unseen' : x <= emitted'
        BY <1>2, <1>n, <1>u, <2>1
      <3> QED BY <1>1, <3>1, <3>2, <3>3, <3>4, <3>5, Zenon DEF OrderInv
    <2>6. AcceptedIsAccountedFor'
      <3>1. Len(ring') = Len(ring) + 1 /\ Cardinality(unseen') = Cardinality(unseen)
        BY <2>1, <2>2, Zenon
      <3>2. Len(Past') = Len(Past) /\ dropped' = dropped /\ malformed' = malformed
        BY <1>1, Zenon
      <3> QED BY <1>2, <1>n, <1>a, <3>1, <3>2 DEF AcceptedIsAccountedFor
    <2>7. StopInv'
      <3>1. thread = "done" => \A i \in 1 .. Len(ring') : ring'[i] > atStop
        BY <1>i, <1>n, <2>3, SMTT(20) DEF StopInv
      <3> QED BY <1>1, <1>2, <1>i, <1>n, <3>1 DEF StopInv
    <2> QED BY <1>1, <1>i, <1>l, <2>4, <2>5, <2>6, <2>7, Zenon DEF AuditInv, CountInv
  <1>4. CASE ~(Len(ring) < RingSize)
    <2>1. unseen' = unseen \cup {emitted + 1} /\ ring' = ring
      BY <1>4, Zenon DEF Emit
    <2>2. IsFiniteSet(unseen') /\ Cardinality(unseen') = Cardinality(unseen) + 1
      <3>1. emitted + 1 \notin unseen
        BY <1>n, <1>u
      <3> QED BY <1>u, <2>1, <3>1, FS_AddElement, Zenon
    <2>3. AuditTypes'
      BY <1>1, <1>2, <1>i, <1>n, <2>1, <2>2, SMTT(20) DEF AuditTypes
    <2>4. OrderInv'
      <3>1. \A i \in 1 .. Len(ring) : ring[i] <= emitted + 1
        BY <1>n, <1>r
      <3>2. \A i \in 1 .. Len(Past) : Past[i].event <= emitted + 1
        BY <1>n, <1>p
      <3>3. \A x \in unseen' : x <= emitted + 1
        BY <1>n, <1>u, <2>1
      <3> QED BY <1>1, <1>2, <1>i, <2>1, <3>1, <3>2, <3>3, Zenon DEF OrderInv
    <2>5. AcceptedIsAccountedFor'
      BY <1>1, <1>2, <1>n, <1>a, <2>1, <2>2, SMTT(20) DEF AcceptedIsAccountedFor
    <2>6. StopInv'
      BY <1>1, <1>2, <1>i, <1>n, <2>1 DEF StopInv
    <2> QED BY <1>1, <1>i, <1>l, <2>3, <2>4, <2>5, <2>6, ZenonT(30) DEF AuditInv, CountInv
  <1> QED BY <1>3, <1>4, Zenon

-----------------------------------------------------------------------------
\* Receiving moves the head of the channel to the end of what was received.
LEMMA MoveHead ==
  ASSUME NEW S, NEW s \in Seq(S), NEW t \in Seq(S), t # <<>>
  PROVE  Append(s, Head(t)) \o Tail(t) = s \o t
  <1>1. /\ Head(t) \in S /\ Tail(t) \in Seq(S) /\ Len(Tail(t)) = Len(t) - 1
        /\ \A i \in 1 .. Len(Tail(t)) : Tail(t)[i] = t[i + 1]
    BY HeadTailProperties, Zenon
  <1>2. Head(t) = t[1]
    OBVIOUS
  <1>n. Len(s) \in Nat /\ Len(t) \in Nat \ {0}
    BY EmptySeq
  <1>3. /\ Append(s, Head(t)) \in Seq(S) /\ Len(Append(s, Head(t))) = Len(s) + 1
        /\ \A i \in 1 .. Len(s) : Append(s, Head(t))[i] = s[i]
        /\ Append(s, Head(t))[Len(s) + 1] = Head(t)
    BY <1>1, AppendProperties
  <1> DEFINE u == Append(s, Head(t)) \o Tail(t)
  <1>4. /\ u \in Seq(S) /\ Len(u) = Len(s) + Len(t)
        /\ \A i \in 1 .. Len(u) : u[i] = IF i <= Len(s) + 1 THEN Append(s, Head(t))[i]
                                          ELSE Tail(t)[i - (Len(s) + 1)]
    BY <1>1, <1>3, <1>n, ConcatProperties
  <1>5. /\ s \o t \in Seq(S) /\ Len(s \o t) = Len(s) + Len(t)
        /\ \A i \in 1 .. Len(s) + Len(t) : (s \o t)[i] = IF i <= Len(s) THEN s[i] ELSE t[i - Len(s)]
    BY ConcatProperties, Zenon
  <1>6. ASSUME NEW i \in 1 .. Len(u) PROVE u[i] = (s \o t)[i]
    <2>1. CASE i <= Len(s)
      BY <1>3, <1>4, <1>5, <1>n, <2>1
    <2>2. CASE i = Len(s) + 1
      BY <1>2, <1>3, <1>4, <1>5, <1>n, <2>2
    <2>3. CASE i > Len(s) + 1
      <3>1. u[i] = Tail(t)[i - (Len(s) + 1)] /\ (s \o t)[i] = t[i - Len(s)]
        BY <1>4, <1>5, <1>n, <2>3
      <3>2. i - (Len(s) + 1) \in 1 .. Len(Tail(t)) /\ (i - (Len(s) + 1)) + 1 = i - Len(s)
        BY <1>1, <1>4, <1>n, <2>3
      <3> QED BY <1>1, <3>1, <3>2, Zenon
    <2> QED BY <1>n, <1>4, <2>1, <2>2, <2>3
  <1>7. u = s \o t
    <2> HIDE DEF u
    <2> QED BY <1>4, <1>5, <1>6, SeqEqual, Zenon
  <1> QED BY <1>7, Zenon

LEMMA RecvKeeps ==
  ASSUME AuditInv, Recv
  PROVE  AuditInv'
  <1>1. UNCHANGED <<emitted, ring, unseen, seq, dropped, malformed, thread, shutdown, stream, atStop>>
    BY Zenon DEF Recv, kernelVars, ownerVars
  <1>2. got \in Seq(Stamped) /\ chan \in Seq(Stamped) /\ chan # <<>>
    BY Zenon DEF AuditInv, AuditTypes, Recv
  <1>3. Past' = Past
    BY <1>2, MoveHead, Zenon DEF Recv, Past
  <1>4. got' \in Seq(Stamped) /\ chan' \in Seq(Stamped)
    BY <1>2, HeadTailProperties, AppendProperties, Zenon DEF Recv
  <1>5. AuditTypes'
    BY <1>1, <1>4, Zenon DEF AuditInv, AuditTypes
  <1>6. OrderInv' /\ CountInv' /\ StopInv'
    BY <1>1, <1>3, Zenon DEF AuditInv, OrderInv, CountInv, StopInv, LossIsInBand, AcceptedIsAccountedFor
  <1> QED BY <1>5, <1>6, Zenon DEF AuditInv

\* The owner and the thread's own steps move no event.
LEMMA ControlKeeps ==
  ASSUME AuditInv, Check \/ PollEnds \/ SweepEnds \/ Stop \/ Joined
  PROVE  AuditInv'
  <1>1. UNCHANGED <<emitted, ring, unseen, seq, dropped, malformed, chan, got>>
    BY Zenon DEF Check, PollEnds, SweepEnds, Stop, Joined, kernelVars, senderVars, ownerVars
  <1>2. Past' = Past
    BY <1>1, Zenon DEF Past
  <1>3. OrderInv' /\ CountInv'
    BY <1>1, <1>2, Zenon DEF AuditInv, OrderInv, CountInv, LossIsInBand, AcceptedIsAccountedFor
  <1>4. /\ thread' \in {"check", "poll", "sweep", "done"} /\ shutdown' \in BOOLEAN
        /\ stream' \in {"reading", "stopping", "stopped"} /\ atStop' \in {atStop, emitted}
    BY Zenon DEF AuditInv, AuditTypes, Check, PollEnds, SweepEnds, Stop, Joined, ownerVars
  <1>5. AuditTypes'
    BY <1>1, <1>4, Zenon DEF AuditInv, AuditTypes
  <1>6. StopInv'
    <2>1. CASE Check
      BY <1>1, <2>1, Zenon DEF AuditInv, AuditTypes, StopInv, Check, ownerVars
    <2>2. CASE PollEnds
      BY <1>1, <2>2, Zenon DEF AuditInv, AuditTypes, StopInv, PollEnds, ownerVars
    <2>3. CASE SweepEnds
      <3>1. Len(ring') = 0
        BY <1>1, <2>3, Zenon DEF SweepEnds, SweepDone
      <3>2. \A i \in 1 .. Len(ring') : ring'[i] > atStop'
        BY <3>1
      <3>3. thread' = "done" /\ shutdown' /\ stream' = stream /\ atStop' = atStop /\ stream # "reading"
        BY <2>3, Zenon DEF AuditInv, StopInv, SweepEnds
      <3> QED BY <1>1, <3>2, <3>3, Zenon DEF AuditInv, StopInv
    <2>4. CASE Stop
      <3>1. thread' \notin {"sweep", "done"} /\ shutdown' /\ stream' = "stopping" /\ atStop' = emitted
        BY <2>4, Zenon DEF AuditInv, StopInv, Stop
      <3>2. emitted \in Nat
        BY Zenon DEF AuditInv, AuditTypes
      <3> QED BY <1>1, <3>1, <3>2 DEF StopInv
    <2>5. CASE Joined
      BY <1>1, <2>5, Zenon DEF AuditInv, StopInv, Joined
    <2> QED BY <2>1, <2>2, <2>3, <2>4, <2>5, Zenon
  <1> QED BY <1>3, <1>5, <1>6, Zenon DEF AuditInv

-----------------------------------------------------------------------------
\* A record leaves the ring: the others stay in order, and it was the oldest.
LEMMA RingShrinks ==
  ASSUME AuditTypes, OrderInv, ring # <<>>, ring' = Tail(ring)
  PROVE  /\ Head(ring) \in Nat /\ Head(ring) <= emitted
         /\ ring' \in Seq(Nat) /\ Len(ring') = Len(ring) - 1 /\ Len(ring) \in Nat /\ Len(ring') \in Nat
         /\ \A i \in 1 .. Len(ring') : i + 1 \in 1 .. Len(ring) /\ ring'[i] = ring[i + 1]
         /\ \A i \in 1 .. Len(ring') : ring'[i] \in Nat /\ ring'[i] <= emitted /\ Head(ring) < ring'[i]
         /\ \A i, j \in 1 .. Len(ring') : i < j => ring'[i] < ring'[j]
         /\ \A i \in 1 .. Len(Past) : Past[i].event < Head(ring)
         /\ \A i \in 1 .. Len(Past), j \in 1 .. Len(ring') : Past[i].event < ring'[j]
  <1>1. /\ ring' \in Seq(Nat) /\ Len(ring') = Len(ring) - 1
        /\ \A i \in 1 .. Len(ring') : ring'[i] = ring[i + 1]
    BY HeadTailProperties, Zenon DEF AuditTypes
  <1>2. Len(ring) \in Nat \ {0} /\ Len(ring') \in Nat
    BY <1>1, EmptySeq, LenProperties, Zenon DEF AuditTypes
  <1>3. Head(ring) = ring[1] /\ 1 \in 1 .. Len(ring)
    BY <1>2 DEF AuditTypes
  <1>4. \A i \in 1 .. Len(ring) : ring[i] \in Nat /\ ring[i] <= emitted
    BY TypeFacts, Zenon DEF OrderInv
  <1>5. \A i \in 1 .. Len(ring') : i + 1 \in 1 .. Len(ring) /\ ring'[i] = ring[i + 1]
    BY <1>1, <1>2
  <1>6. \A i \in 1 .. Len(ring') : ring'[i] \in Nat /\ ring'[i] <= emitted /\ Head(ring) < ring'[i]
    <2>1. \A i \in 2 .. Len(ring) : ring[1] < ring[i]
      BY <1>2, <1>3 DEF OrderInv
    <2> QED BY <1>2, <1>3, <1>4, <1>5, <2>1
  <1>7. ASSUME NEW i \in 1 .. Len(ring'), NEW j \in 1 .. Len(ring'), i < j
        PROVE  ring'[i] < ring'[j]
    <2>1. i + 1 < j + 1
      BY <1>2, <1>7
    <2> QED BY <1>5, <2>1, Zenon DEF OrderInv
  <1>8. \A i \in 1 .. Len(Past) : Past[i].event < Head(ring)
    BY <1>3, Zenon DEF OrderInv
  <1>9. \A i \in 1 .. Len(Past), j \in 1 .. Len(ring') : Past[i].event < ring'[j]
    BY <1>5, Zenon DEF OrderInv
  <1> QED BY <1>1, <1>2, <1>3, <1>4, <1>5, <1>6, <1>7, <1>8, <1>9, Zenon

\* EventSender::offer with room in the channel.
LEMMA SendKeepsPast ==
  ASSUME AuditTypes, NEW x \in Stamped, chan' = Append(chan, x), got' = got
  PROVE  /\ chan' \in Seq(Stamped) /\ Len(Past') = Len(Past) + 1 /\ DOMAIN Past' = 1 .. Len(Past')
         /\ \A i \in 1 .. Len(Past) : Past'[i] = Past[i]
         /\ Past'[Len(Past) + 1] = x
  <1>1. /\ chan' \in Seq(Stamped) /\ Len(chan') = Len(chan) + 1
        /\ \A i \in 1 .. Len(chan) : chan'[i] = chan[i]
        /\ chan'[Len(chan) + 1] = x
    BY AppendProperties DEF AuditTypes
  <1>n. Len(chan) \in Nat /\ Len(got) \in Nat
    BY LenProperties, Zenon DEF AuditTypes
  <1>2. /\ Len(Past) = Len(got) + Len(chan)
        /\ \A i \in 1 .. Len(got) + Len(chan) : Past[i] = IF i <= Len(got) THEN got[i] ELSE chan[i - Len(got)]
    BY ConcatProperties, Zenon DEF AuditTypes, Past
  <1>3. /\ Past' \in Seq(Stamped) /\ Len(Past') = Len(got) + Len(chan')
        /\ \A i \in 1 .. Len(got) + Len(chan') : Past'[i] = IF i <= Len(got) THEN got[i] ELSE chan'[i - Len(got)]
    BY <1>1, ConcatProperties, ZenonT(30) DEF AuditTypes, Past
  <1>4. DOMAIN Past' = 1 .. Len(Past')
    BY <1>3, LenProperties, Zenon
  <1>5. ASSUME NEW i \in 1 .. Len(Past) PROVE Past'[i] = Past[i]
    <2>a. /\ Past[i] = IF i <= Len(got) THEN got[i] ELSE chan[i - Len(got)]
          /\ Past'[i] = IF i <= Len(got) THEN got[i] ELSE chan'[i - Len(got)]
      <3>1. i \in 1 .. Len(got) + Len(chan) /\ i \in 1 .. Len(got) + Len(chan')
        BY <1>1, <1>2, <1>n
      <3> QED BY <1>2, <1>3, <3>1, Zenon
    <2>1. CASE i <= Len(got)
      BY <2>a, <2>1, Zenon
    <2>2. CASE ~(i <= Len(got))
      <3>1. i - Len(got) \in 1 .. Len(chan)
        BY <1>2, <1>n, <2>2
      <3>2. chan'[i - Len(got)] = chan[i - Len(got)]
        BY <1>1, <3>1, Zenon
      <3> QED BY <2>a, <2>2, <3>2, Zenon
    <2> QED BY <2>1, <2>2, Zenon
  <1>6. Past'[Len(Past) + 1] = x
    <2>1. Len(Past) + 1 - Len(got) = Len(chan) + 1 /\ Len(Past) + 1 \in 1 .. Len(got) + Len(chan')
          /\ ~(Len(Past) + 1 <= Len(got))
      BY <1>1, <1>2, <1>n
    <2> QED BY <1>1, <1>3, <2>1
  <1> QED BY <1>1, <1>2, <1>3, <1>4, <1>5, <1>6, <1>n, SMTT(20)

\* One record is offered: it is sent with the counters of that moment, or it is
\* counted.
LEMMA DrainKeeps ==
  ASSUME AuditInv, Drain
  PROVE  AuditInv'
  <1>i. AuditTypes /\ OrderInv /\ CountInv /\ StopInv
    BY ZenonT(30) DEF AuditInv
  <1>1. /\ ring # <<>> /\ ring' = Tail(ring)
        /\ UNCHANGED <<emitted, unseen, thread, shutdown, stream, atStop, got>>
        /\ thread # "done"
    BY Zenon DEF Drain, Offer, ownerVars
  <1>2. /\ Head(ring) \in Nat /\ Head(ring) <= emitted
        /\ ring' \in Seq(Nat) /\ Len(ring') = Len(ring) - 1 /\ Len(ring) \in Nat /\ Len(ring') \in Nat
    BY <1>i, <1>1, RingShrinks, Zenon
  <1>r. \A i \in 1 .. Len(ring') : ring'[i] \in Nat /\ ring'[i] <= emitted /\ Head(ring) < ring'[i]
    BY <1>i, <1>1, RingShrinks, Zenon
  <1>s. \A i, j \in 1 .. Len(ring') : i < j => ring'[i] < ring'[j]
    BY <1>i, <1>1, RingShrinks, Zenon
  <1>p. /\ \A i \in 1 .. Len(Past) : Past[i].event < Head(ring)
        /\ \A i \in 1 .. Len(Past), j \in 1 .. Len(ring') : Past[i].event < ring'[j]
    BY <1>i, <1>1, RingShrinks, Zenon
  <1>n. /\ emitted \in Nat /\ seq \in Nat /\ dropped \in Nat /\ malformed \in Nat
        /\ Len(Past) \in Nat /\ Cardinality(unseen) \in Nat
    BY <1>i, TypeFacts, Zenon
  <1>a. /\ emitted - Cardinality(unseen) = Len(ring) + Len(Past) + dropped + malformed
        /\ seq = Len(Past) + dropped
    BY <1>i, Zenon DEF CountInv, AcceptedIsAccountedFor
  <1>t. StopInv'
    BY <1>i, <1>1, Zenon DEF StopInv
  <1>e. (emitted - Cardinality(unseen))' = emitted - Cardinality(unseen)
    BY <1>1, Zenon
  <1>3. CASE chan' = chan /\ \/ malformed' = malformed + 1 /\ seq' = seq /\ dropped' = dropped
                             \/ malformed' = malformed /\ seq' = seq + 1 /\ dropped' = dropped + 1
    <2>1. Past' = Past
      BY <1>1, <1>3, Zenon DEF Past
    <2>2. AuditTypes'
      <3>1. seq' \in Nat /\ dropped' \in Nat /\ malformed' \in Nat
        BY <1>3, <1>n, SMTT(20)
      <3> QED BY <1>i, <1>1, <1>2, <1>3, <3>1, Zenon DEF AuditTypes
    <2>3. OrderInv'
      BY <1>i, <1>1, <1>r, <1>s, <1>p, <2>1, Zenon DEF OrderInv
    <2>4. LossIsInBand'
      BY <1>i, <2>1, Zenon DEF CountInv, LossIsInBand
    <2>5. seq' = Len(Past') + dropped'
      BY <1>3, <1>a, <1>n, <2>1, SMTT(20)
    <2>6. AcceptedIsAccountedFor'
      <3>1. Len(Past') = Len(Past)
        BY <2>1, Zenon
      <3> QED BY <1>2, <1>3, <1>a, <1>e, <1>n, <3>1, SMTT(20) DEF AcceptedIsAccountedFor
    <2> QED BY <1>t, <2>2, <2>3, <2>4, <2>5, <2>6, Zenon DEF AuditInv, CountInv
  <1>4. CASE /\ chan' = Append(chan, Stamp(Head(ring)))
             /\ malformed' = malformed /\ seq' = seq + 1 /\ dropped' = dropped
    <2>x. /\ Stamp(Head(ring)) \in Stamped /\ Stamp(Head(ring)).event = Head(ring)
          /\ Stamp(Head(ring)).seq = seq /\ Stamp(Head(ring)).dropped = dropped
      BY <1>2, <1>n, Zenon DEF Stamped, Stamp
    <2>1. /\ chan' \in Seq(Stamped) /\ Len(Past') = Len(Past) + 1 /\ DOMAIN Past' = 1 .. Len(Past')
          /\ \A i \in 1 .. Len(Past) : Past'[i] = Past[i]
          /\ Past'[Len(Past) + 1] = Stamp(Head(ring))
      BY <1>i, <1>1, <1>4, <2>x, SendKeepsPast, Zenon
    <2>s. \A i \in 1 .. Len(Past') :
            \/ i \in 1 .. Len(Past) /\ Past'[i] = Past[i]
            \/ i = Len(Past) + 1 /\ Past'[i] = Stamp(Head(ring))
      BY <1>n, <2>1
    <2>2. AuditTypes'
      <3>1. seq' \in Nat
        BY <1>4, <1>n, SMTT(20)
      <3> QED BY <1>i, <1>1, <1>2, <1>4, <2>1, <3>1, Zenon DEF AuditTypes
    <2>3. OrderInv'
      <3>1. \A i \in 1 .. Len(Past'), j \in 1 .. Len(ring') : Past'[i].event < ring'[j]
        BY <1>p, <1>r, <2>s, <2>x, Zenon
      <3>2. \A i \in 1 .. Len(Past') : Past'[i].event <= emitted
        <4>1. \A i \in 1 .. Len(Past) : Past[i].event <= emitted
          BY <1>i, Zenon DEF OrderInv
        <4> QED BY <1>2, <2>s, <2>x, <4>1, Zenon
      <3> QED BY <1>i, <1>1, <1>r, <1>s, <3>1, <3>2, Zenon DEF OrderInv
    <2>4. LossIsInBand'
      <3> SUFFICES ASSUME NEW i \in 1 .. Len(Past')
                   PROVE  /\ Past'[i].seq = (i - 1) + Past'[i].dropped
                          /\ i > 1 => Past'[i - 1].event < Past'[i].event
        BY <2>1, Zenon DEF LossIsInBand
      <3>d. DOMAIN Past = 1 .. Len(Past)
        BY <1>i, TypeFacts, Zenon
      <3>1. CASE i \in 1 .. Len(Past) /\ Past'[i] = Past[i]
        <4>1. i > 1 => Past'[i - 1] = Past[i - 1]
          BY <1>n, <2>1, <3>1
        <4>2. /\ Past[i].seq = (i - 1) + Past[i].dropped
              /\ i > 1 => Past[i - 1].event < Past[i].event
          BY <1>i, <3>d, <3>1, Zenon DEF CountInv, LossIsInBand
        <4> QED BY <3>1, <4>1, <4>2, Zenon
      <3>2. CASE i = Len(Past) + 1 /\ Past'[i] = Stamp(Head(ring))
        <4>1. i > 1 => i - 1 \in 1 .. Len(Past) /\ Past'[i - 1] = Past[i - 1]
          BY <1>n, <2>1, <3>2, SMTT(20)
        <4>2. i > 1 => Past'[i - 1].event < Past'[i].event
          BY <1>p, <2>x, <3>2, <4>1, Zenon
        <4>3. Past'[i].seq = (i - 1) + Past'[i].dropped
          BY <1>a, <1>n, <2>x, <3>2, SMTT(20)
        <4> QED BY <4>2, <4>3, Zenon
      <3> QED BY <2>s, <3>1, <3>2, Zenon
    <2>5. seq' = Len(Past') + dropped'
      BY <1>4, <1>a, <1>n, <2>1, SMTT(20)
    <2>6. AcceptedIsAccountedFor'
      <3>1. Len(Past') = Len(Past) + 1
        BY <2>1, Zenon
      <3> QED BY <1>2, <1>4, <1>a, <1>e, <1>n, <3>1, SMTT(20) DEF AcceptedIsAccountedFor
    <2> QED BY <1>t, <2>2, <2>3, <2>4, <2>5, <2>6, ZenonT(30) DEF AuditInv, CountInv
  <1> QED BY <1>3, <1>4, Zenon DEF Drain, Offer, NextSeq, DropCount

-----------------------------------------------------------------------------
LEMMA AuditInitially ==
  ASSUME AuditInit
  PROVE  AuditInv
  <1>1. Past = <<>> /\ Len(Past) = 0 /\ DOMAIN Past = {}
    BY DEF AuditInit, Past
  <1>2. IsFiniteSet(unseen) /\ Cardinality(unseen) = 0
    BY FS_EmptySet, Zenon DEF AuditInit
  <1>3. Len(ring) = 0
    BY Zenon DEF AuditInit
  <1>4. AuditTypes
    BY <1>2, EmptySeq, Zenon DEF AuditInit, AuditTypes
  <1>5. OrderInv
    BY <1>1, <1>3 DEF AuditInit, OrderInv
  <1>6. CountInv
    BY <1>1, <1>2, <1>3 DEF AuditInit, CountInv, LossIsInBand, AcceptedIsAccountedFor
  <1>7. StopInv
    BY DEF AuditInit, StopInv
  <1> QED BY <1>4, <1>5, <1>6, <1>7, Zenon DEF AuditInv

LEMMA AuditKeeps ==
  ASSUME AuditInv, [AuditNext]_auditVars
  PROVE  AuditInv'
  <1>1. CASE AuditNext
    BY <1>1, EmitKeeps, DrainKeeps, RecvKeeps, ControlKeeps, Zenon DEF AuditNext, Consumer
  <1>2. CASE UNCHANGED auditVars
    <2>1. Past' = Past
      BY <1>2, Zenon DEF auditVars, senderVars, Past
    <2> QED BY <1>2, <2>1, Zenon DEF AuditInv, AuditTypes, OrderInv, CountInv, StopInv, LossIsInBand,
            AcceptedIsAccountedFor, auditVars, kernelVars, senderVars, ownerVars
  <1> QED BY <1>1, <1>2, Zenon

LEMMA AuditInductive == AuditSpec => []AuditInv
  <1>1. AuditInit => AuditInv
    BY AuditInitially, Zenon
  <1>2. AuditInv /\ [AuditNext]_auditVars => AuditInv'
    BY AuditKeeps, Zenon
  <1> QED BY <1>1, <1>2, PTL DEF AuditSpec

\* EventSender::offer stamps each record with the losses so far and try_send
\* keeps the order: from what a sink has received it can compute exactly how
\* many records are missing, and they arrive in the order of emission.
THEOREM LossReadable == AuditSpec => []LossIsInBand
  <1>1. AuditInv => LossIsInBand
    BY Zenon DEF AuditInv, CountInv
  <1> QED BY <1>1, AuditInductive, PTL

\* Every event the ring had room for is still in it, on its way, delivered, or
\* in one of the two counters of EventSender, and in one of them only.
THEOREM AcceptedCounted == AuditSpec => []AcceptedIsAccountedFor
  <1>1. AuditInv => AcceptedIsAccountedFor
    BY Zenon DEF AuditInv, CountInv
  <1> QED BY <1>1, AuditInductive, PTL

\* AuditStream::stop returns only after the thread's last sweep: what was in the
\* ring when the flag was raised has been offered.
THEOREM RingSwept == AuditSpec => []SweptAtStop
  <1>1. AuditInv => SweptAtStop
    <2> SUFFICES ASSUME AuditInv, stream = "stopped" PROVE \A i \in DOMAIN ring : ring[i] > atStop
      BY Zenon DEF SweptAtStop
    <2>1. DOMAIN ring = 1 .. Len(ring)
      BY LenProperties, Zenon DEF AuditInv, AuditTypes
    <2> QED BY <2>1, Zenon DEF AuditInv, StopInv
  <1> QED BY <1>1, AuditInductive, PTL

-----------------------------------------------------------------------------
(* The warm pool *)

PoolInv ==
  /\ entries \in Seq(Ids) /\ aged \in 0 .. Len(entries)
  /\ held \in [Clients -> SUBSET Ids]
  /\ SingleUse

\* The step that OnlyExpiredDropped allows.
DropStep ==
  /\ \A i \in 1 .. aged : \A k \in Clients : entries[i] \notin held'[k]
  /\ \A i \in aged + 1 .. Len(entries) :
       entries[i] \in Range(entries') \cup UNION {held'[k] : k \in Clients}

\* The entries that the retain of acquire leaves are some of those it found,
\* each once.
LEMMA RetainedFacts ==
  ASSUME PoolInv
  PROVE  /\ Retained \in Seq(Ids) /\ IsInjective(Retained)
         /\ Len(Retained) = Len(entries) - aged
         /\ \A i \in 1 .. Len(Retained) : /\ aged + i \in 1 .. Len(entries)
                                          /\ Retained[i] = entries[aged + i]
         /\ \A i \in 1 .. Len(Retained) : Retained[i] \in Range(entries)
  <1>1. entries \in Seq(Ids) /\ aged \in 0 .. Len(entries) /\ IsInjective(entries)
    BY Zenon DEF PoolInv, SingleUse
  <1>2. /\ Retained \in Seq(Ids) /\ Len(Retained) = Len(entries) - aged
        /\ \A i \in 1 .. Len(Retained) : Retained[i] = entries[aged + i]
    BY <1>1, SMTT(20) DEF Retained
  <1>3. \A i \in 1 .. Len(Retained) : aged + i \in 1 .. Len(entries)
    BY <1>1, <1>2
  <1>4. IsInjective(Retained)
    <2> SUFFICES ASSUME NEW a \in 1 .. Len(Retained), NEW b \in 1 .. Len(Retained),
                        Retained[a] = Retained[b]
                 PROVE  a = b
      BY <1>2 DEF IsInjective
    <2>1. entries[aged + a] = entries[aged + b]
      BY <1>2, Zenon
    <2>2. aged + a \in DOMAIN entries /\ aged + b \in DOMAIN entries
      BY <1>1, <1>3
    <2>3. aged + a = aged + b
      BY <1>1, <2>1, <2>2, Zenon DEF IsInjective
    <2> QED BY <2>3, <1>1
  <1>5. ASSUME NEW i \in 1 .. Len(Retained)
        PROVE  Retained[i] \in Range(entries)
    <2> DEFINE j == aged + i
    <2>1. j \in DOMAIN entries
      BY <1>1, <1>3
    <2>2. Retained[i] = entries[j]
      BY <1>2, Zenon
    <2> HIDE DEF j
    <2> QED BY <2>1, <2>2, Zenon DEF Range
  <1>6. Retained \in Seq(Ids)
    BY <1>2, Zenon
  <1>7. /\ Len(Retained) = Len(entries) - aged
        /\ \A i \in 1 .. Len(Retained) : /\ aged + i \in 1 .. Len(entries)
                                         /\ Retained[i] = entries[aged + i]
    BY ONLY <1>2, <1>3, Zenon
  <1> QED BY ONLY <1>4, <1>5, <1>6, <1>7, Zenon

\* acquire takes the youngest entry that it has retained.
LEMMA AcquireTakes ==
  ASSUME PoolInv, NEW k \in Clients, Acquire(k), Retained # <<>>
  PROVE  LET n == Len(Retained) IN
         /\ n \in Nat \ {0} /\ Retained[n] \in Ids
         /\ entries' \in Seq(Ids) /\ Len(entries') = n - 1
         /\ \A i \in 1 .. n - 1 : entries'[i] = Retained[i]
         /\ aged' = 0 /\ held' = [held EXCEPT ![k] = @ \cup {Retained[n]}]
  <1> DEFINE R == Retained
             n == Len(R)
             m == n - 1
  <1>1. R \in Seq(Ids) /\ n \in Nat \ {0} /\ R[n] \in Ids
    BY RetainedFacts
  <1>2. /\ entries' = SubSeq(R, 1, n - 1) /\ aged' = 0
        /\ held' = [held EXCEPT ![k] = @ \cup {R[n]}]
    BY Zenon DEF Acquire, Popped
  <1> HIDE DEF R
  <1>3. m \in Nat /\ \A i \in 1 .. m : R[i] \in Ids
    BY <1>1
  <1>4. /\ SubSeq(R, 1, m) \in Seq(Ids)
        /\ Len(SubSeq(R, 1, m)) = IF 1 <= m THEN m - 1 + 1 ELSE 0
        /\ \A i \in 1 .. m - 1 + 1 : SubSeq(R, 1, m)[i] = R[1 + i - 1]
    <2> HIDE DEF m, n
    <2> QED BY <1>3, SubSeqProperties
  <1>5. Len(SubSeq(R, 1, m)) = m
    <2> HIDE DEF m
    <2> QED BY <1>3, <1>4
  <1>6. \A i \in 1 .. m : SubSeq(R, 1, m)[i] = R[i]
    <2> HIDE DEF m
    <2> QED BY <1>3, <1>4
  <1>7. entries' = SubSeq(R, 1, m)
    BY <1>2, Zenon
  <1> QED BY <1>1, <1>2, <1>4, <1>5, <1>6, <1>7, Zenon DEF R

\* What the pool holds after acquire, and what the client gets, do not overlap.
LEMMA AcquireKeeps ==
  ASSUME PoolInv, NEW k \in Clients, Acquire(k)
  PROVE  PoolInv'
  <1>1. CASE Retained = <<>>
    <2>1. entries' = <<>> /\ aged' = 0 /\ held' = held
      BY <1>1, Zenon DEF Acquire
    <2> QED BY <2>1 DEF PoolInv, SingleUse, IsInjective, Range
  <1>2. CASE Retained # <<>>
    <2> DEFINE R == Retained
               n == Len(R)
    <2>1. R \in Seq(Ids) /\ IsInjective(R) /\ n \in Nat \ {0} /\ R[n] \in Ids
      BY <1>2, RetainedFacts
    <2>2. \A i \in 1 .. n : R[i] \in Range(entries)
      BY RetainedFacts, Zenon
    <2>3. aged' = 0 /\ held' = [held EXCEPT ![k] = @ \cup {R[n]}]
      BY <1>2, AcquireTakes, Zenon
    <2>4. /\ entries' \in Seq(Ids) /\ Len(entries') = n - 1
          /\ \A i \in 1 .. n - 1 : entries'[i] = R[i]
      BY <1>2, AcquireTakes, Zenon
    <2> HIDE DEF R
    <2>5. IsInjective(entries')
      BY <2>1, <2>4 DEF IsInjective
    <2>6. Range(entries') \subseteq Range(entries) /\ R[n] \notin Range(entries')
      BY <2>1, <2>2, <2>4 DEF Range, IsInjective
    <2>7. R[n] \in Range(entries)
      BY <2>1, <2>2
    <2>8. held' \in [Clients -> SUBSET Ids]
      BY <2>1, <2>3, Zenon DEF PoolInv
    <2>9. \A j \in Clients : held'[j] = IF j = k THEN held[j] \cup {R[n]} ELSE held[j]
      BY <2>3, Zenon DEF PoolInv
    <2>10. \A j \in Clients : held'[j] \cap Range(entries') = {}
      BY <2>6, <2>9, Zenon DEF PoolInv, SingleUse
    <2>11. \A i, j \in Clients : i # j => held'[i] \cap held'[j] = {}
      <3>1. \A j \in Clients : R[n] \notin held[j]
        BY <2>7, Zenon DEF PoolInv, SingleUse
      <3>2. \A i, j \in Clients : i # j => held[i] \cap held[j] = {}
        BY Zenon DEF PoolInv, SingleUse
      <3> QED BY <2>9, <3>1, <3>2, ZenonT(30)
    <2> QED BY <2>1, <2>3, <2>4, <2>5, <2>8, <2>10, <2>11 DEF PoolInv, SingleUse
  <1> QED BY <1>1, <1>2, Zenon

\* create returns an id that nobody has.
LEMMA ProvisionKeeps ==
  ASSUME PoolInv, NEW r \in Refillers, NEW id \in Ids, Provision(r, id)
  PROVE  PoolInv'
  <1>1. /\ entries' = Append(entries, id) /\ UNCHANGED <<aged, held>>
        /\ id \notin Range(entries) /\ \A k \in Clients : id \notin held[k]
    BY Zenon DEF Provision, InUse
  <1>2. entries \in Seq(Ids) /\ IsInjective(entries)
    BY Zenon DEF PoolInv, SingleUse
  <1>3. /\ entries' \in Seq(Ids) /\ Len(entries') = Len(entries) + 1
        /\ \A i \in 1 .. Len(entries) : entries'[i] = entries[i]
        /\ entries'[Len(entries) + 1] = id
    BY <1>1, <1>2
  <1>4. IsInjective(entries')
    BY <1>1, <1>2, <1>3 DEF IsInjective, Range
  <1>5. Range(entries') = Range(entries) \cup {id}
    BY <1>2, <1>3 DEF Range
  <1>6. aged' \in 0 .. Len(entries')
    BY <1>1, <1>2, <1>3 DEF PoolInv
  <1> QED BY <1>1, <1>3, <1>4, <1>5, <1>6, ZenonT(30) DEF PoolInv, SingleUse

LEMMA PoolNextKeeps ==
  ASSUME PoolInv, [PoolNext]_poolVars
  PROVE  PoolInv'
  <1>1. CASE UNCHANGED <<entries, aged, held>>
    BY <1>1, Zenon DEF PoolInv, SingleUse
  <1>2. ASSUME NEW r \in Refillers, RefillBegin(r) \/ ProvisionFails(r) PROVE PoolInv'
    BY <1>1, <1>2, Zenon DEF RefillBegin, ProvisionFails
  <1>3. CASE GrowOld
    BY <1>3 DEF GrowOld, PoolInv, SingleUse
  <1>4. ASSUME NEW k \in Clients, NEW id \in Ids, Dispose(k, id) PROVE PoolInv'
    BY <1>4, Zenon DEF Dispose, PoolInv, SingleUse
  <1>5. CASE UNCHANGED poolVars
    BY <1>1, <1>5, Zenon DEF poolVars
  <1> QED BY <1>2, <1>3, <1>4, <1>5, AcquireKeeps, ProvisionKeeps, Zenon DEF PoolNext

LEMMA PoolInductive == PoolSpec => []PoolInv
  <1>1. PoolInit => PoolInv
    BY DEF PoolInit, PoolInv, SingleUse, IsInjective, Range
  <1>2. PoolInv /\ [PoolNext]_poolVars => PoolInv'
    BY PoolNextKeeps, ZenonT(30)
  <1> QED BY <1>1, <1>2, PTL DEF PoolSpec

\* "A pooled sandbox is single-use": whatever acquires and refills overlap, an id
\* is at one place in the pool or in the hands of one client.
THEOREM ServedOnce == PoolSpec => []SingleUse
  <1>1. PoolInv => SingleUse
    BY Zenon DEF PoolInv
  <1> QED BY <1>1, PoolInductive, PTL

-----------------------------------------------------------------------------
\* An entry that stays where it is, or in the pool, is not dropped or served.
LEMMA StayIsNoDrop ==
  ASSUME PoolInv, PoolInv', \A k \in Clients : held'[k] \subseteq held[k],
         Range(entries) \subseteq Range(entries')
  PROVE  DropStep
  <1>1. \A i \in 1 .. Len(entries) : entries[i] \in Range(entries)
    BY DEF PoolInv, Range
  <1>2. \A i \in 1 .. Len(entries) : \A k \in Clients : entries[i] \notin held'[k]
    BY <1>1, Zenon DEF PoolInv, SingleUse
  <1>3. aged \in Nat /\ Len(entries) \in Nat /\ aged <= Len(entries)
    BY DEF PoolInv
  <1> QED BY <1>1, <1>2, <1>3 DEF DropStep

\* acquire: retain has removed what is too old before pop takes the youngest.
LEMMA AcquireDrops ==
  ASSUME PoolInv, NEW k \in Clients, Acquire(k)
  PROVE  DropStep
  <1>n. aged \in Nat /\ Len(entries) \in Nat /\ aged <= Len(entries) /\ DOMAIN entries = 1 .. Len(entries)
    BY LenProperties DEF PoolInv
  <1>e. \A i \in 1 .. Len(entries) : \A j \in Clients : entries[i] \notin held[j]
    <2>1. \A i \in 1 .. Len(entries) : entries[i] \in Range(entries)
      BY <1>n, Zenon DEF Range
    <2> QED BY <2>1, Zenon DEF PoolInv, SingleUse
  <1>c. Len(Retained) = Len(entries) - aged
    BY RetainedFacts, Zenon
  <1>r. \A i \in 1 .. Len(Retained) : aged + i \in 1 .. Len(entries) /\ Retained[i] = entries[aged + i]
    BY RetainedFacts, Zenon
  <1>1. CASE Retained = <<>>
    <2>1. held' = held
      BY <1>1, Zenon DEF Acquire
    <2>2. aged = Len(entries)
      <3>1. Len(Retained) = 0 /\ aged \in Nat /\ Len(entries) \in Nat
        BY <1>1, <1>n, Zenon
      <3> QED BY <1>c, <3>1
    <2> QED BY <1>e, <1>n, <2>1, <2>2 DEF DropStep
  <1>2. CASE Retained # <<>>
    <2> DEFINE n == Len(Retained)
    <2>1. n \in Nat \ {0} /\ Len(entries') = n - 1 /\ entries' \in Seq(Ids)
      BY <1>2, AcquireTakes, Zenon
    <2>2. \A i \in 1 .. n - 1 : entries'[i] = Retained[i]
      BY <1>2, AcquireTakes, Zenon
    <2>3. held' = [held EXCEPT ![k] = @ \cup {Retained[n]}]
      BY <1>2, AcquireTakes, Zenon
    <2>h. \A j \in Clients : held'[j] = IF j = k THEN held[j] \cup {Retained[n]} ELSE held[j]
      BY <2>3, Zenon DEF PoolInv
    <2>l. aged + n = Len(entries) /\ Retained[n] = entries[Len(entries)]
      <3>1. aged + n = Len(entries) /\ n \in 1 .. n
        <4>1. aged \in Nat /\ Len(entries) \in Nat /\ n \in Nat \ {0} /\ n = Len(entries) - aged
          BY <1>c, <1>n, <2>1, Zenon
        <4> HIDE DEF n
        <4> QED BY <4>1
      <3> QED BY <1>r, <3>1, Zenon
    <2>4. ASSUME NEW i \in 1 .. aged, NEW j \in Clients PROVE entries[i] \notin held'[j]
      <3>1. i \in DOMAIN entries /\ Len(entries) \in DOMAIN entries /\ i # Len(entries)
        <4>1. aged \in Nat /\ Len(entries) \in Nat /\ n \in Nat \ {0} /\ aged + n = Len(entries)
          BY <1>n, <2>1, <2>l, Zenon
        <4>2. i \in 1 .. Len(entries) /\ Len(entries) \in 1 .. Len(entries) /\ i # Len(entries)
          <5> HIDE DEF n
          <5> QED BY <4>1
        <4> QED BY <1>n, <4>2, Zenon
      <3>2. entries[i] # Retained[n]
        BY <2>l, <3>1, Zenon DEF PoolInv, SingleUse, IsInjective
      <3> QED BY <1>e, <1>n, <2>h, <3>1, <3>2, Zenon
    <2>5. ASSUME NEW i \in aged + 1 .. Len(entries)
          PROVE  entries[i] \in Range(entries') \cup UNION {held'[j] : j \in Clients}
      <3>1. i - aged \in 1 .. n /\ aged + (i - aged) = i
        BY <1>n, <2>1, <2>l
      <3>2. Retained[i - aged] = entries[i]
        BY <1>r, <3>1, Zenon
      <3>3. CASE i - aged = n
        BY <2>h, <3>2, <3>3, Zenon
      <3>4. CASE i - aged # n
        <4>1. i - aged \in 1 .. n - 1
          BY <2>1, <3>1, <3>4, SMTT(20)
        <4>2. i - aged \in DOMAIN entries' /\ entries'[i - aged] = entries[i]
          BY <2>1, <2>2, <3>2, <4>1, LenProperties, Zenon
        <4> QED BY <4>2, Zenon DEF Range
      <3> QED BY <3>3, <3>4, Zenon
    <2> QED BY <2>4, <2>5, Zenon DEF DropStep
  <1> QED BY <1>1, <1>2, Zenon

\* retain and pop are one critical section of acquire, and no other step takes an
\* entry out: an entry too old is never served, a younger one never dropped.
THEOREM DropsOnlyExpired == PoolSpec => OnlyExpiredDropped
  <1>1. ASSUME PoolInv, [PoolNext]_poolVars PROVE [DropStep]_poolVars
    <2>1. PoolInv'
      BY <1>1, PoolNextKeeps, Zenon
    <2>2. ASSUME NEW r \in Refillers, RefillBegin(r) \/ ProvisionFails(r) PROVE DropStep
      BY <1>1, <2>1, <2>2, StayIsNoDrop, Zenon DEF RefillBegin, ProvisionFails
    <2>3. ASSUME NEW r \in Refillers, NEW id \in Ids, Provision(r, id) PROVE DropStep
      <3>1. held' = held /\ entries' = Append(entries, id)
        BY <2>3, Zenon DEF Provision
      <3>2. Range(entries) \subseteq Range(entries')
        <4>1. entries \in Seq(Ids) /\ entries' \in Seq(Ids)
          BY <1>1, <2>1, Zenon DEF PoolInv
        <4>2. \A i \in 1 .. Len(entries) : i \in DOMAIN entries' /\ entries'[i] = entries[i]
          BY <3>1, <4>1
        <4> QED BY <4>1, <4>2 DEF Range
      <3> QED BY <1>1, <2>1, <3>1, <3>2, StayIsNoDrop, Zenon
    <2>4. CASE GrowOld
      BY <1>1, <2>1, <2>4, StayIsNoDrop, Zenon DEF GrowOld
    <2>5. ASSUME NEW k \in Clients, NEW id \in Ids, Dispose(k, id) PROVE DropStep
      <3>1. entries' = entries /\ \A j \in Clients : held'[j] \subseteq held[j]
        BY <1>1, <2>5, Zenon DEF Dispose, PoolInv
      <3> QED BY <1>1, <2>1, <3>1, StayIsNoDrop, Zenon
    <2> QED BY <1>1, <2>2, <2>3, <2>4, <2>5, AcquireDrops, ZenonT(30) DEF PoolNext
  <1> QED BY <1>1, PoolInductive, PTL DEF PoolSpec, OnlyExpiredDropped, DropStep

-----------------------------------------------------------------------------
\* What a refill still owes, and the pool, are within the target together.
DepthInv ==
  /\ needed \in [Refillers -> Nat]
  /\ Len(entries) <= TargetDepth
  /\ \A r \in Refillers : Len(entries) + needed[r] <= TargetDepth

LEMMA DepthKeeps ==
  ASSUME PoolInv, DepthInv, [PoolNext]_poolVars, \A r, s \in Refillers : r = s
  PROVE  DepthInv'
  <1>n. /\ Len(entries) \in Nat /\ aged \in 0 .. Len(entries) /\ TargetDepth \in Nat
        /\ \A r \in Refillers : needed[r] \in Nat
    BY LenProperties, PoolAssumption, Zenon DEF PoolInv, DepthInv
  <1>d. /\ needed \in [Refillers -> Nat] /\ Len(entries) <= TargetDepth
        /\ \A r \in Refillers : Len(entries) + needed[r] <= TargetDepth
    BY Zenon DEF DepthInv
  <1>1. CASE needed' = needed /\ Len(entries') \in Nat /\ Len(entries') <= Len(entries)
    BY <1>1, <1>n, <1>d DEF DepthInv
  <1>2. ASSUME NEW r \in Refillers, RefillBegin(r) PROVE DepthInv'
    <2>1. Missing \in Nat /\ Len(entries) + Missing <= TargetDepth
      BY <1>n, <1>d DEF Missing
    <2>2. needed' = [needed EXCEPT ![r] = Missing] /\ Len(entries') = Len(entries)
      BY <1>2, Zenon DEF RefillBegin
    <2> QED BY <1>d, <2>1, <2>2, Zenon DEF DepthInv
  <1>3. ASSUME NEW r \in Refillers, ProvisionFails(r) PROVE DepthInv'
    <2>1. needed' = [needed EXCEPT ![r] = 0] /\ Len(entries') = Len(entries)
      BY <1>3, Zenon DEF ProvisionFails
    <2> QED BY <1>d, <1>n, <2>1 DEF DepthInv
  <1>4. ASSUME NEW r \in Refillers, NEW id \in Ids, Provision(r, id) PROVE DepthInv'
    <2>1. needed' = [needed EXCEPT ![r] = @ - 1] /\ needed[r] > 0
      BY <1>4, Zenon DEF Provision
    <2>2. Len(entries') = Len(entries) + 1
      <3>1. entries \in Seq(Ids) /\ entries' = Append(entries, id)
        BY <1>4, Zenon DEF Provision, PoolInv
      <3> QED BY <3>1
    <2>3. \A s \in Refillers : s = r
      BY Zenon
    <2>4. needed' \in [Refillers -> Nat] /\ \A s \in Refillers : needed'[s] = needed[r] - 1
      BY <1>d, <1>n, <2>1, <2>3
    <2> QED BY <1>d, <1>n, <2>1, <2>2, <2>3, <2>4 DEF DepthInv
  <1>5. CASE GrowOld
    BY <1>1, <1>n, <1>5 DEF GrowOld
  <1>6. ASSUME NEW k \in Clients, NEW id \in Ids, Dispose(k, id) PROVE DepthInv'
    BY <1>1, <1>n, <1>6 DEF Dispose
  <1>7. ASSUME NEW k \in Clients, Acquire(k) PROVE DepthInv'
    <2>1. needed' = needed
      BY <1>7, Zenon DEF Acquire
    <2>2. CASE Retained = <<>>
      <3>1. Len(entries') = 0
        BY <1>7, <2>2 DEF Acquire
      <3> QED BY <1>1, <1>n, <2>1, <3>1
    <2>3. CASE Retained # <<>>
      <3>1. Len(Retained) = Len(entries) - aged
        BY RetainedFacts, Zenon
      <3>2. Len(Retained) \in Nat \ {0} /\ Len(entries') = Len(Retained) - 1
        BY <1>7, <2>3, AcquireTakes, Zenon
      <3> QED BY <1>1, <1>n, <2>1, <3>1, <3>2, SMTT(20)
    <2> QED BY <2>2, <2>3, Zenon
  <1>8. CASE UNCHANGED poolVars
    BY <1>1, <1>n, <1>8 DEF poolVars
  <1> QED BY <1>2, <1>3, <1>4, <1>5, <1>6, <1>7, <1>8, ZenonT(30) DEF PoolNext

\* daemon.rs starts one refill task: what refill counted as missing before it let
\* go of the lock never makes it push past target_depth.
THEOREM DepthKept ==
  ASSUME \A r, s \in Refillers : r = s
  PROVE  PoolSpec => []DepthBounded
  <1>1. PoolInit => DepthInv
    BY PoolAssumption DEF PoolInit, DepthInv
  <1>2. PoolInv /\ DepthInv /\ [PoolNext]_poolVars => DepthInv'
    BY DepthKeeps, Zenon
  <1>3. DepthInv => DepthBounded
    BY Zenon DEF DepthInv, DepthBounded
  <1> QED BY <1>1, <1>2, <1>3, PoolInductive, PTL DEF PoolSpec
=============================================================================
