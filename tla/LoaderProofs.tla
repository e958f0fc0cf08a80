---------------------------- MODULE LoaderProofs ----------------------------
(***************************************************************************)
(* Loading the BPF programs, for any number of processes, sandboxes and    *)
(* shared maps, whatever loads are killed, fail or run at once.            *)
(***************************************************************************)
EXTENDS Loader, SequenceTheorems, TLAPS

Stages == {"unset", "loading", "opening", "up", "refused"}
Objs == Range(Objects)
HookNames == Range(Hooks)

TypeInv ==
  /\ stage \in [Processes -> Stages] /\ at \in [Processes -> Nat]
  /\ pins \in [Names -> Nat] /\ made \in Nat
  /\ maps \in [Processes -> [Objs -> [Names -> Nat]]]
  /\ links \in [Processes -> SUBSET Objs]
  /\ handle \in [Processes -> [Names -> Nat]]
  /\ DOMAIN progs = HookNames
  /\ DOMAIN state = Cgroups /\ DOMAIN owner = Cgroups /\ DOMAIN book = Cgroups
  /\ DOMAIN hooks = Cgroups /\ \A c \in Cgroups : DOMAIN hooks[c] = HookNames
  /\ disturbed \subseteq Processes

\* Every shared map is pinned, and so will never be created again.
Complete == \A m \in Names : pins[m] # 0

\* There is one map of each name: what any object resolved, any program was pinned
\* or attached with, and any context was written to, are the pinned maps.
OneMapInv ==
  /\ \A p \in Processes, o \in Objs, m \in Names : maps[p][o][m] \in {0, pins[m]}
  /\ \A p \in Processes : \A o \in links[p] : maps[p][o] = pins
  /\ \A p \in Processes : links[p] # {} => Complete
  /\ \A p \in Processes : stage[p] = "up" => handle[p] = pins /\ Complete
  /\ \A h \in HookNames : progs[h] # <<>> => progs[h] = <<pins>> /\ Complete
  /\ \A c \in Cgroups : state[c] \in {"attaching", "live"} => book[c] = pins /\ Complete
  /\ \A c \in Cgroups, h \in HookNames : hooks[c][h] # <<>> => hooks[c][h] = <<pins>> /\ Complete
  /\ \A c \in Cgroups : state[c] = "live" => AllAttached(c)

\* What the steps of a load before its position have left.
ProgressInv ==
  \A p \in Processes :
    /\ stage[p] = "loading" =>
         /\ at[p] \in 1 .. Len(LoadOrder)
         /\ \A k \in 1 .. at[p] - 1 :
              /\ LoadOrder[k][1] = "map" => maps[p][LoadOrder[k][2]][LoadOrder[k][3]] # 0
              /\ LoadOrder[k][1] = "attach" => LoadOrder[k][2] \in links[p]
    /\ stage[p] \in {"opening", "up"} => links[p] = Objs

OwnerInv == \A c \in Cgroups, p \in Processes : owner[c] = <<p>> => stage[p] = "up"

\* A load that nothing disturbed is alone, and finds the pin it is to make removed.
AloneInv ==
  /\ \A p, q \in Processes : p # q /\ stage[p] = "loading" /\ stage[q] = "loading" => p \in disturbed
  /\ \A p \in Processes :
       /\ stage[p] = "loading" /\ p \notin disturbed /\ LoadOrder[at[p]][1] = "pin"
            => progs[LoadOrder[at[p]][3]] = <<>>
       /\ stage[p] = "refused" => p \in disturbed

IInv == TypeInv /\ OneMapInv /\ ProgressInv /\ OwnerInv /\ AloneInv

-----------------------------------------------------------------------------
(* The order of load_and_attach *)

Steps ==
  {<<"map", o, m>> : o \in Objs, m \in Names} \cup {<<"attach", o, o>> : o \in Objs}
    \cup {<<"unpin", o, h>> : o \in Objs, h \in HookNames}
    \cup {<<"pin", o, h>> : o \in Objs, h \in HookNames}

\* An object's programs are attached and pinned after all of its maps are
\* resolved, and a pin directly follows the removal of the stale one.
WellOrdered(s) ==
  /\ s \in Seq(Steps)
  /\ \A k \in 1 .. Len(s) : s[k][1] \in {"attach", "pin"} =>
       \A m \in Names : \E j \in 1 .. k - 1 : s[j] = <<"map", s[k][2], m>>
  /\ \A k \in 1 .. Len(s) : s[k][1] = "pin" => k > 1 /\ s[k - 1] = <<"unpin", s[k][2], s[k][3]>>

LEMMA ConcatWellOrdered ==
  ASSUME NEW s, NEW t, WellOrdered(s), WellOrdered(t)
  PROVE  WellOrdered(s \o t)
  <1> DEFINE u == s \o t
  <1>1. s \in Seq(Steps) /\ t \in Seq(Steps)
    BY Zenon DEF WellOrdered
  <1>2. /\ u \in Seq(Steps) /\ Len(u) = Len(s) + Len(t)
        /\ \A i \in 1 .. Len(s) + Len(t) : u[i] = IF i <= Len(s) THEN s[i] ELSE t[i - Len(s)]
    BY <1>1, ConcatProperties, Zenon
  <1>n. Len(s) \in Nat /\ Len(t) \in Nat
    BY <1>1, LenProperties, Zenon
  <1> HIDE DEF u
  <1>3. \A i \in 1 .. Len(s) : u[i] = s[i]
    BY <1>2, <1>n
  <1>4. \A i \in 1 .. Len(t) : u[Len(s) + i] = t[i]
    <2> TAKE i \in 1 .. Len(t)
    <2>1. Len(s) + i \in 1 .. Len(s) + Len(t) /\ ~(Len(s) + i <= Len(s)) /\ (Len(s) + i) - Len(s) = i
      BY <1>n
    <2> QED BY <1>2, <2>1, Zenon
  <1>5. ASSUME NEW k \in 1 .. Len(u), u[k][1] \in {"attach", "pin"}, NEW m \in Names
        PROVE  \E j \in 1 .. k - 1 : u[j] = <<"map", u[k][2], m>>
    <2>1. CASE k \in 1 .. Len(s)
      <3>1. PICK j \in 1 .. k - 1 : s[j] = <<"map", s[k][2], m>>
        BY <1>3, <1>5, <2>1, Zenon DEF WellOrdered
      <3>2. j \in 1 .. Len(s)
        BY <1>n, <2>1
      <3> QED BY <1>3, <2>1, <3>1, <3>2, Zenon
    <2>2. ASSUME NEW i \in 1 .. Len(t), k = Len(s) + i
          PROVE  \E j \in 1 .. k - 1 : u[j] = <<"map", u[k][2], m>>
      <3>1. PICK j \in 1 .. i - 1 : t[j] = <<"map", t[i][2], m>>
        BY <1>4, <1>5, <2>2, Zenon DEF WellOrdered
      <3>2. j \in 1 .. Len(t) /\ Len(s) + j \in 1 .. k - 1
        BY <1>n, <2>2
      <3> QED BY <1>4, <2>2, <3>1, <3>2, Zenon
    <2>3. k \in 1 .. Len(s) \/ \E i \in 1 .. Len(t) : k = Len(s) + i
      <3>1. ~(k \in 1 .. Len(s)) => k - Len(s) \in 1 .. Len(t) /\ k = Len(s) + (k - Len(s))
        BY <1>2, <1>n
      <3> QED BY <3>1, Zenon
    <2> QED BY <2>1, <2>2, <2>3, Zenon
  <1>6. ASSUME NEW k \in 1 .. Len(u), u[k][1] = "pin"
        PROVE  k > 1 /\ u[k - 1] = <<"unpin", u[k][2], u[k][3]>>
    <2>1. CASE k \in 1 .. Len(s)
      <3>1. k > 1 /\ s[k - 1] = <<"unpin", s[k][2], s[k][3]>>
        BY <1>3, <1>6, <2>1, Zenon DEF WellOrdered
      <3>2. k - 1 \in 1 .. Len(s)
        BY <1>n, <2>1, <3>1
      <3> QED BY <1>3, <2>1, <3>1, <3>2, Zenon
    <2>2. ASSUME NEW i \in 1 .. Len(t), k = Len(s) + i
          PROVE  k > 1 /\ u[k - 1] = <<"unpin", u[k][2], u[k][3]>>
      <3>1. i > 1 /\ t[i - 1] = <<"unpin", t[i][2], t[i][3]>>
        BY <1>4, <1>6, <2>2, Zenon DEF WellOrdered
      <3>2. i - 1 \in 1 .. Len(t) /\ Len(s) + (i - 1) = k - 1 /\ k > 1
        BY <1>n, <2>2, <3>1
      <3>3. u[k - 1] = t[i - 1] /\ u[k] = t[i]
        BY <1>4, <2>2, <3>2, Zenon
      <3> QED BY <3>1, <3>2, <3>3, Zenon
    <2>3. k \in 1 .. Len(s) \/ \E i \in 1 .. Len(t) : k = Len(s) + i
      <3>1. ~(k \in 1 .. Len(s)) => k - Len(s) \in 1 .. Len(t) /\ k = Len(s) + (k - Len(s))
        BY <1>2, <1>n
      <3> QED BY <3>1, Zenon
    <2> QED BY <2>1, <2>2, <2>3, Zenon
  <1>7. WellOrdered(u)
    BY <1>2, <1>5, <1>6, Zenon DEF WellOrdered
  <1> QED BY <1>7, Zenon DEF u

\* The steps of one object: its maps, its programs, its cgroup hooks.
LEMMA ObjectStepsWellOrdered ==
  ASSUME NEW o \in Objs
  PROVE  /\ WellOrdered(ObjectSteps(o))
         /\ \E k \in 1 .. Len(ObjectSteps(o)) : ObjectSteps(o)[k] = <<"attach", o, o>>
  <1> DEFINE n == Len(SharedMaps)
             A == [i \in DOMAIN SharedMaps |-> <<"map", o, SharedMaps[i]>>]
             a == <<"attach", o, o>>
             R == IF o = "net" THEN ReplacePin(o, Hooks[1]) \o ReplacePin(o, Hooks[2]) ELSE <<>>
             B == A \o <<a>>
             u == B \o R
  <1>s. SharedMaps \in Seq(Names) /\ n \in Nat /\ DOMAIN SharedMaps = 1 .. n
    BY LoaderAssumption, LenProperties, Zenon DEF Names
  <1>m. \A m \in Names : \E i \in 1 .. n : SharedMaps[i] = m
    BY <1>s, Zenon DEF Names, Range
  <1>h. HookNames = {"connect4", "connect6"} /\ Hooks[1] = "connect4" /\ Hooks[2] = "connect6"
    BY DEF HookNames, Hooks, Range
  <1>1. /\ A \in Seq(Steps) /\ Len(A) = n
        /\ \A i \in 1 .. n : A[i] = <<"map", o, SharedMaps[i]>>
    BY <1>s DEF Steps
  <1>2. a \in Steps
    BY DEF Steps
  <1> HIDE DEF A, n
  <1>3. /\ B \in Seq(Steps) /\ Len(B) = n + 1
        /\ \A i \in 1 .. n : B[i] = <<"map", o, SharedMaps[i]>>
        /\ B[n + 1] = a
    <2>1. <<a>> \in Seq(Steps) /\ Len(<<a>>) = 1 /\ <<a>>[1] = a
      BY <1>2
    <2> HIDE DEF a
    <2>2. /\ B \in Seq(Steps) /\ Len(B) = n + 1
          /\ \A i \in 1 .. n + 1 : B[i] = IF i <= n THEN A[i] ELSE <<a>>[i - n]
      BY <1>1, <2>1, ConcatProperties, Zenon
    <2>3. n + 1 \in 1 .. n + 1 /\ ~(n + 1 <= n) /\ (n + 1) - n = 1
      BY <1>s
    <2> HIDE DEF B
    <2> QED BY <1>s, <1>1, <2>1, <2>2, <2>3
  <1>4. u = ObjectSteps(o)
    BY Zenon DEF ObjectSteps, A
  <1> HIDE DEF B
  <1>5. CASE o # "net"
    <2>1. u = B
      BY <1>3, <1>5, ConcatEmptySeq, Zenon
    <2>2. \A k \in 1 .. n + 1 : k \in 1 .. n \/ k = n + 1
      BY <1>s
    <2>3. \A k \in 1 .. n + 1 : B[k][1] = "map" \/ k = n + 1
      BY <1>3, <2>2
    <2>4. \A m \in Names : \E j \in 1 .. (n + 1) - 1 : B[j] = <<"map", B[n + 1][2], m>>
      <3>1. (n + 1) - 1 = n /\ B[n + 1][2] = o
        BY <1>s, <1>3
      <3> QED BY <1>3, <1>m, <3>1
    <2>5. WellOrdered(B)
      <3>1. B[n + 1][1] = "attach"
        BY <1>3
      <3> QED BY <1>3, <2>3, <2>4, <3>1, Zenon DEF WellOrdered
    <2>6. n + 1 \in 1 .. Len(B)
      BY <1>s, <1>3
    <2> QED BY <1>3, <1>4, <2>1, <2>5, <2>6, Zenon
  <1>6. CASE o = "net"
    <2> DEFINE u1 == <<"unpin", o, "connect4">>
               p1 == <<"pin", o, "connect4">>
               u2 == <<"unpin", o, "connect6">>
               p2 == <<"pin", o, "connect6">>
    <2>1. R = <<u1, p1>> \o <<u2, p2>>
      BY <1>6, <1>h, Zenon DEF ReplacePin
    <2>2. u1 \in Steps /\ p1 \in Steps /\ u2 \in Steps /\ p2 \in Steps
      BY <1>h DEF Steps
    <2>3. /\ R \in Seq(Steps) /\ Len(R) = 4
          /\ R[1] = u1 /\ R[2] = p1 /\ R[3] = u2 /\ R[4] = p2
      <3> HIDE DEF u1, p1, u2, p2, R
      <3> DEFINE x == <<u1, p1>>
                 y == <<u2, p2>>
      <3>1. /\ x \in Seq(Steps) /\ Len(x) = 2 /\ x[1] = u1 /\ x[2] = p1
            /\ y \in Seq(Steps) /\ Len(y) = 2 /\ y[1] = u2 /\ y[2] = p2
        BY <2>2
      <3>2. R = x \o y
        BY <2>1, Zenon
      <3> HIDE DEF x, y
      <3>3. /\ R \in Seq(Steps) /\ Len(R) = 2 + 2
            /\ \A i \in 1 .. 2 + 2 : R[i] = IF i <= 2 THEN x[i] ELSE y[i - 2]
        BY <3>1, <3>2, ConcatProperties, SMTT(20)
      <3> QED BY <3>1, <3>3
    <2> HIDE DEF R
    <2>4. /\ u \in Seq(Steps) /\ Len(u) = (n + 1) + 4
          /\ \A i \in 1 .. (n + 1) + 4 : u[i] = IF i <= n + 1 THEN B[i] ELSE R[i - (n + 1)]
      <3>1. B \in Seq(Steps) /\ Len(B) = n + 1 /\ R \in Seq(Steps) /\ Len(R) = 4
        BY <1>3, <2>3, Zenon
      <3>2. /\ u \in Seq(Steps) /\ Len(u) = Len(B) + Len(R)
            /\ \A i \in 1 .. Len(B) + Len(R) : u[i] = IF i <= Len(B) THEN B[i] ELSE R[i - Len(B)]
        <4> HIDE DEF n
        <4> QED BY <3>1, ConcatProperties, Zenon
      <3> HIDE DEF u
      <3> QED BY <3>1, <3>2, Zenon
    <2> HIDE DEF u
    <2>5. /\ \A i \in 1 .. n : u[i] = <<"map", o, SharedMaps[i]>>
          /\ u[n + 1] = a
      BY <1>s, <1>3, <2>4
    <2>6. u[n + 2] = u1 /\ u[n + 3] = p1 /\ u[n + 4] = u2 /\ u[n + 5] = p2
      <3>1. \A d \in 1 .. 4 : (n + 1) + d \in 1 .. (n + 1) + 4 /\ ~((n + 1) + d <= n + 1)
                              /\ ((n + 1) + d) - (n + 1) = d
        BY <1>s
      <3>2. \A d \in 1 .. 4 : u[(n + 1) + d] = R[d]
        BY <2>4, <3>1, Zenon
      <3>3. (n + 1) + 1 = n + 2 /\ (n + 1) + 2 = n + 3 /\ (n + 1) + 3 = n + 4 /\ (n + 1) + 4 = n + 5
        BY <1>s
      <3>4. u[(n + 1) + 1] = u1 /\ u[(n + 1) + 2] = p1 /\ u[(n + 1) + 3] = u2 /\ u[(n + 1) + 4] = p2
        BY <2>3, <3>2
      <3> QED BY <3>3, <3>4, Zenon
    <2>7. \A k \in 1 .. Len(u) : k \in 1 .. n \/ k = n + 1 \/ k = n + 2 \/ k = n + 3 \/ k = n + 4 \/ k = n + 5
      BY <1>s, <2>4
    <2>8. ASSUME NEW k \in 1 .. Len(u), u[k][1] \in {"attach", "pin"}, NEW m \in Names
          PROVE  \E j \in 1 .. k - 1 : u[j] = <<"map", u[k][2], m>>
      <3>1. k >= n + 1 /\ u[k][2] = o
        BY <1>s, <2>5, <2>6, <2>7, <2>8
      <3>2. PICK i \in 1 .. n : SharedMaps[i] = m
        BY <1>m, Zenon
      <3>3. i \in 1 .. k - 1
        BY <1>s, <3>1
      <3> QED BY <2>5, <3>1, <3>2, <3>3, Zenon
    <2>9. ASSUME NEW k \in 1 .. Len(u), u[k][1] = "pin"
          PROVE  k > 1 /\ u[k - 1] = <<"unpin", u[k][2], u[k][3]>>
      <3>1. k = n + 3 \/ k = n + 5
        BY <2>5, <2>6, <2>7, <2>9
      <3>2. (n + 3) - 1 = n + 2 /\ (n + 5) - 1 = n + 4 /\ n + 3 > 1 /\ n + 5 > 1
        BY <1>s
      <3>3. u[(n + 3) - 1] = u1 /\ u[(n + 5) - 1] = u2
        BY <2>6, <3>2, Zenon
      <3> QED BY <2>6, <3>1, <3>2, <3>3
    <2>10. WellOrdered(u)
      BY <2>4, <2>8, <2>9, Zenon DEF WellOrdered
    <2>11. n + 1 \in 1 .. Len(u)
      BY <1>s, <2>4
    <2> QED BY <1>4, <2>5, <2>10, <2>11, Zenon
  <1> QED BY <1>5, <1>6, Zenon

\* What the proofs below know of LoadOrder.
LEMMA LoadOrderFacts ==
  /\ Len(LoadOrder) \in Nat \ {0}
  /\ \A k \in 1 .. Len(LoadOrder) : LoadOrder[k] \in Steps
  /\ \A k \in 1 .. Len(LoadOrder) : LoadOrder[k][1] \in {"attach", "pin"} =>
       \A m \in Names : \E j \in 1 .. k - 1 : LoadOrder[j] = <<"map", LoadOrder[k][2], m>>
  /\ \A k \in 1 .. Len(LoadOrder) : LoadOrder[k][1] = "pin" =>
       k > 1 /\ LoadOrder[k - 1] = <<"unpin", LoadOrder[k][2], LoadOrder[k][3]>>
  /\ \A o \in Objs : \E k \in 1 .. Len(LoadOrder) : LoadOrder[k] = <<"attach", o, o>>
  <1> DEFINE S(i) == ObjectSteps(Objects[i])
             L2 == S(1) \o S(2)
             L3 == L2 \o S(3)
             L4 == L3 \o S(4)
             L5 == L4 \o S(5)
             Has(s, o) == \E k \in 1 .. Len(s) : s[k] = <<"attach", o, o>>
  <1>o. /\ Objs = {Objects[1], Objects[2], Objects[3], Objects[4], Objects[5]}
    BY DEF Objs, Objects, Range
  <1>s. \A i \in 1 .. 5 : WellOrdered(S(i)) /\ Has(S(i), Objects[i])
    <2> TAKE i \in 1 .. 5
    <2>1. Objects[i] \in Objs
      BY <1>o
    <2> QED BY <2>1, ObjectStepsWellOrdered, Zenon
  <1> HIDE DEF S
  <1>c. ASSUME NEW s, NEW t, WellOrdered(s), WellOrdered(t), NEW o, Has(s, o) \/ Has(t, o)
        PROVE  Has(s \o t, o)
    <2>1. s \in Seq(Steps) /\ t \in Seq(Steps)
      BY <1>c, Zenon DEF WellOrdered
    <2> DEFINE u == s \o t
    <2>2. /\ u \in Seq(Steps) /\ Len(u) = Len(s) + Len(t)
          /\ \A i \in 1 .. Len(s) + Len(t) : u[i] = IF i <= Len(s) THEN s[i] ELSE t[i - Len(s)]
      BY <2>1, ConcatProperties, Zenon
    <2>n. Len(s) \in Nat /\ Len(t) \in Nat
      BY <2>1, LenProperties, Zenon
    <2> HIDE DEF u
    <2>3. ASSUME NEW k \in 1 .. Len(s), s[k] = <<"attach", o, o>> PROVE Has(u, o)
      <3>1. k \in 1 .. Len(u) /\ u[k] = s[k]
        BY <2>2, <2>n
      <3> QED BY <2>3, <3>1, Zenon
    <2>4. ASSUME NEW k \in 1 .. Len(t), t[k] = <<"attach", o, o>> PROVE Has(u, o)
      <3>1. Len(s) + k \in 1 .. Len(s) + Len(t) /\ ~(Len(s) + k <= Len(s)) /\ (Len(s) + k) - Len(s) = k
        BY <2>n
      <3>2. u[Len(s) + k] = t[k]
        BY <2>2, <3>1, Zenon
      <3> QED BY <2>2, <2>4, <3>1, <3>2, Zenon
    <2> QED BY <1>c, <2>3, <2>4, Zenon DEF u
  <1> HIDE DEF Has
  <1>2. WellOrdered(L2) /\ Has(L2, Objects[1]) /\ Has(L2, Objects[2])
    BY <1>s, <1>c, ConcatWellOrdered
  <1> HIDE DEF L2
  <1>3. WellOrdered(L3) /\ Has(L3, Objects[1]) /\ Has(L3, Objects[2]) /\ Has(L3, Objects[3])
    BY <1>s, <1>c, <1>2, ConcatWellOrdered
  <1> HIDE DEF L3
  <1>4. /\ WellOrdered(L4) /\ Has(L4, Objects[1]) /\ Has(L4, Objects[2]) /\ Has(L4, Objects[3])
        /\ Has(L4, Objects[4])
    BY <1>s, <1>c, <1>3, ConcatWellOrdered
  <1> HIDE DEF L4
  <1>5. /\ WellOrdered(L5) /\ Has(L5, Objects[1]) /\ Has(L5, Objects[2]) /\ Has(L5, Objects[3])
        /\ Has(L5, Objects[4]) /\ Has(L5, Objects[5])
    BY <1>s, <1>c, <1>4, ConcatWellOrdered
  <1>6. L5 = LoadOrder
    BY Zenon DEF L4, L3, L2, S, LoadOrder
  <1> HIDE DEF L5
  <1>7. WellOrdered(LoadOrder) /\ \A o \in Objs : Has(LoadOrder, o)
    BY <1>o, <1>5, <1>6, Zenon
  <1>8. Len(LoadOrder) \in Nat /\ \A k \in 1 .. Len(LoadOrder) : LoadOrder[k] \in Steps
    BY <1>7, LenProperties, ElementOfSeq, Zenon DEF WellOrdered
  <1>9. Len(LoadOrder) # 0
    <2>1. Has(LoadOrder, Objects[1])
      BY <1>o, <1>7, Zenon
    <2> QED BY <2>1, <1>8 DEF Has
  <1> QED BY <1>7, <1>8, <1>9, Zenon DEF WellOrdered, Has

LEMMA StepShape ==
  ASSUME NEW s \in Steps
  PROVE  /\ s[1] = "map" => s[2] \in Objs /\ s[3] \in Names /\ s = <<"map", s[2], s[3]>>
         /\ s[1] = "attach" => s[2] \in Objs
         /\ s[1] \in {"pin", "unpin"} => s[2] \in Objs /\ s[3] \in HookNames
  BY DEF Steps

-----------------------------------------------------------------------------
(* One step of load_and_attach *)

\* The process, its position and its step.
LEMMA LoadStep ==
  ASSUME IInv, NEW p \in Processes, Load(p)
  PROVE  LET s == LoadOrder[at[p]] IN
         /\ stage[p] = "loading" /\ at[p] \in 1 .. Len(LoadOrder) /\ at[p] \in Nat
         /\ s \in Steps
         /\ \/ s[1] = "map" /\ ResolveMap(p, s[2], s[3])
            \/ s[1] = "attach" /\ AttachLsm(p, s[2])
            \/ s[1] = "unpin" /\ RemoveStalePin(s[3])
            \/ s[1] = "pin" /\ PinProgram(p, s[2], s[3])
         /\ at' = [at EXCEPT ![p] = @ + 1]
         /\ stage' = IF at[p] = Len(LoadOrder) THEN [stage EXCEPT ![p] = "opening"] ELSE stage
         /\ UNCHANGED <<handle, state, owner, book, hooks, disturbed>>
  <1>1. stage[p] = "loading" /\ at[p] \in 1 .. Len(LoadOrder) /\ at[p] \in Nat
    BY Zenon DEF Load, Loads, IInv, ProgressInv, TypeInv
  <1>2. LoadOrder[at[p]] \in Steps
    BY <1>1, LoadOrderFacts, Zenon
  <1> QED BY <1>1, <1>2, Zenon DEF Load, Loads, sandboxVars, bounds

\* An object that is attached or pinned has resolved every map, to what is pinned.
LEMMA ResolvedAll ==
  ASSUME IInv, NEW p \in Processes, stage[p] = "loading",
         LoadOrder[at[p]][1] \in {"attach", "pin"}
  PROVE  maps[p][LoadOrder[at[p]][2]] = pins /\ Complete
  <1> DEFINE o == LoadOrder[at[p]][2]
  <1>1. at[p] \in 1 .. Len(LoadOrder)
    BY Zenon DEF IInv, ProgressInv
  <1>2. LoadOrder[at[p]] \in Steps
    BY <1>1, LoadOrderFacts, Zenon
  <1>3. o \in Objs
    BY <1>2, StepShape, Zenon
  <1>4. ASSUME NEW m \in Names PROVE maps[p][o][m] # 0
    <2>1. PICK j \in 1 .. at[p] - 1 : LoadOrder[j] = <<"map", o, m>>
      BY <1>1, LoadOrderFacts, Zenon
    <2>2. LoadOrder[j][1] = "map" /\ LoadOrder[j][2] = o /\ LoadOrder[j][3] = m
      BY <2>1
    <2> QED BY <2>2, Zenon DEF IInv, ProgressInv
  <1>5. ASSUME NEW m \in Names PROVE maps[p][o][m] = pins[m] /\ pins[m] # 0
    <2>1. maps[p][o][m] \in {0, pins[m]}
      BY <1>3, Zenon DEF IInv, OneMapInv
    <2> QED BY <1>4, <2>1, Zenon
  <1>6. maps[p][o] \in [Names -> Nat] /\ pins \in [Names -> Nat]
    BY <1>3 DEF IInv, TypeInv
  <1> HIDE DEF o
  <1>7. maps[p][o] = pins
    BY <1>5, <1>6, SMTT(20)
  <1> QED BY <1>5, <1>7, Zenon DEF Complete, o

\* What a step leaves of the pins and the maps, whichever step it is.
LEMMA LoadMaps ==
  ASSUME IInv, NEW p \in Processes, Load(p)
  PROVE  /\ pins' \in [Names -> Nat] /\ made' \in Nat
         /\ maps' \in [Processes -> [Objs -> [Names -> Nat]]]
         /\ Complete => pins' = pins
         /\ \A q \in Processes, o \in Objs, m \in Names : maps'[q][o][m] \in {0, pins'[m]}
         /\ \A q \in Processes : q # p => maps'[q] = maps[q]
         /\ \A o \in Objs, m \in Names : maps[p][o][m] # 0 => maps'[p][o][m] # 0
         /\ \A o \in Objs : maps[p][o] = pins /\ Complete => maps'[p][o] = pins
         /\ LET s == LoadOrder[at[p]] IN s[1] = "map" => maps'[p][s[2]][s[3]] # 0
  <1> DEFINE s == LoadOrder[at[p]]
             o == s[2]
             m == s[3]
  <1>t. /\ pins \in [Names -> Nat] /\ made \in Nat
        /\ maps \in [Processes -> [Objs -> [Names -> Nat]]]
        /\ \A q \in Processes, oo \in Objs, mm \in Names : maps[q][oo][mm] \in {0, pins[mm]}
    BY Zenon DEF IInv, TypeInv, OneMapInv
  <1>1. CASE s[1] = "map" /\ ResolveMap(p, o, m)
    <2>1. o \in Objs /\ m \in Names
      BY <1>1, LoadStep, StepShape, Zenon
    <2> DEFINE id == Resolves(m)
    <2>2. id \in Nat /\ id # 0 /\ (pins[m] # 0 => id = pins[m])
      BY <1>t, <2>1, SMTT(20) DEF Resolves
    <2>3. /\ maps' = [maps EXCEPT ![p][o][m] = id]
          /\ pins' = IF pins[m] = 0 THEN [pins EXCEPT ![m] = id] ELSE pins
          /\ made' \in {id, made}
      BY <1>1, Zenon DEF ResolveMap
    <2> HIDE DEF id, o, m, s
    <2>4. pins' \in [Names -> Nat] /\ made' \in Nat /\ pins'[m] = id
      BY <1>t, <2>1, <2>2, <2>3, Zenon
    <2>5. /\ maps' \in [Processes -> [Objs -> [Names -> Nat]]]
          /\ \A q \in Processes : q # p => maps'[q] = maps[q]
          /\ \A oo \in Objs, mm \in Names :
               maps'[p][oo][mm] = IF oo = o /\ mm = m THEN id ELSE maps[p][oo][mm]
      BY <1>t, <2>1, <2>2, <2>3
    <2>6. Complete => pins' = pins
      BY <2>1, <2>3, Zenon DEF Complete
    <2>7. ASSUME NEW q \in Processes, NEW oo \in Objs, NEW mm \in Names
          PROVE  maps'[q][oo][mm] \in {0, pins'[mm]}
      <3>1. CASE q = p /\ oo = o /\ mm = m
        BY <2>4, <2>5, <3>1, Zenon
      <3>2. CASE ~(q = p /\ oo = o /\ mm = m)
        <4>1. maps'[q][oo][mm] = maps[q][oo][mm]
          BY <2>5, <3>2, ZenonT(30)
        <4>2. maps[q][oo][mm] # 0 => pins[mm] # 0 /\ maps[q][oo][mm] = pins[mm]
          BY <1>t, Zenon
        <4>3. pins[mm] # 0 => pins'[mm] = pins[mm]
          BY <1>t, <2>1, <2>3, Zenon
        <4> QED BY <4>1, <4>2, <4>3, Zenon
      <3> QED BY <3>1, <3>2, Zenon
    <2>8. ASSUME NEW oo \in Objs, maps[p][oo] = pins, Complete PROVE maps'[p][oo] = pins
      <3>1. \A mm \in Names : maps'[p][oo][mm] = pins[mm]
        BY <2>1, <2>2, <2>5, <2>8, Zenon DEF Complete
      <3>2. maps'[p][oo] \in [Names -> Nat]
        BY <2>5, Zenon
      <3> QED BY <1>t, <3>1, <3>2
    <2>9. \A oo \in Objs, mm \in Names : maps[p][oo][mm] # 0 => maps'[p][oo][mm] # 0
      BY <2>2, <2>5, Zenon
    <2>10. maps'[p][o][m] # 0
      BY <2>1, <2>2, <2>5, Zenon
    <2> QED BY <2>4, <2>5, <2>6, <2>7, <2>8, <2>9, <2>10, Zenon DEF o, m, s
  <1>2. CASE s[1] # "map" /\ UNCHANGED <<maps, made, pins>>
    BY <1>t, <1>2, Zenon
  <1> QED BY <1>1, <1>2, LoadStep, ZenonT(30) DEF AttachLsm, RemoveStalePin, PinProgram

\* What a step leaves of the links and the pinned programs.
LEMMA LoadPrograms ==
  ASSUME IInv, NEW p \in Processes, Load(p)
  PROVE  LET s == LoadOrder[at[p]] IN
         /\ links' \in [Processes -> SUBSET Objs] /\ DOMAIN progs' = HookNames
         /\ \A q \in Processes : q # p => links'[q] = links[q]
         /\ links[p] \subseteq links'[p]
         /\ \A o \in links'[p] : o \in links[p] \/ (maps[p][o] = pins /\ Complete)
         /\ \A h \in HookNames : progs'[h] # <<>> =>
              \/ progs'[h] = progs[h]
              \/ progs'[h] = <<pins>> /\ Complete
         /\ s[1] = "attach" => s[2] \in links'[p]
         /\ s[1] = "unpin" => progs'[s[3]] = <<>>
  <1> DEFINE s == LoadOrder[at[p]]
             o == s[2]
             h == s[3]
  <1>t. links \in [Processes -> SUBSET Objs] /\ DOMAIN progs = HookNames /\ stage[p] = "loading"
    BY LoadStep, Zenon DEF IInv, TypeInv
  <1>1. CASE s[1] = "map" /\ ResolveMap(p, o, h)
    BY <1>t, <1>1, Zenon DEF ResolveMap
  <1>2. CASE s[1] = "attach" /\ AttachLsm(p, o)
    <2>1. o \in Objs
      BY <1>2, LoadStep, StepShape, Zenon
    <2>2. maps[p][o] = pins /\ Complete
      BY <1>t, <1>2, ResolvedAll, Zenon
    <2>3. links' = [links EXCEPT ![p] = @ \cup {o}] /\ progs' = progs
      BY <1>2, Zenon DEF AttachLsm
    <2> HIDE DEF o
    <2>4. /\ links' \in [Processes -> SUBSET Objs] /\ links'[p] = links[p] \cup {o}
          /\ \A q \in Processes : q # p => links'[q] = links[q]
      BY <1>t, <2>1, <2>3, Zenon
    <2> QED BY <1>t, <1>2, <2>2, <2>3, <2>4, Zenon DEF o
  <1>3. CASE s[1] = "unpin" /\ RemoveStalePin(h)
    <2>1. h \in HookNames
      BY <1>3, LoadStep, StepShape, Zenon
    <2>2. links' = links /\ progs' = [progs EXCEPT ![h] = <<>>]
      BY <1>3, Zenon DEF RemoveStalePin, StalePinRemoved
    <2> HIDE DEF h
    <2> QED BY <1>t, <1>3, <2>1, <2>2, Zenon DEF h
  <1>4. CASE s[1] = "pin" /\ PinProgram(p, o, h)
    <2>1. h \in HookNames
      BY <1>4, LoadStep, StepShape, Zenon
    <2>2. maps[p][o] = pins /\ Complete
      BY <1>t, <1>4, ResolvedAll, Zenon
    <2>3. links' = links /\ progs' = [progs EXCEPT ![h] = <<maps[p][o]>>]
      BY <1>4, Zenon DEF PinProgram
    <2> HIDE DEF h, o
    <2> QED BY <1>t, <1>4, <2>1, <2>2, <2>3, Zenon DEF h
  <1> QED BY <1>1, <1>2, <1>3, <1>4, LoadStep, ZenonT(30)

LEMMA LoadKeeps ==
  ASSUME IInv, NEW p \in Processes, Load(p)
  PROVE  IInv'
  <1> DEFINE s == LoadOrder[at[p]]
             last == at[p] = Len(LoadOrder)
  <1>i. TypeInv /\ OneMapInv /\ ProgressInv /\ OwnerInv /\ AloneInv
    BY Zenon DEF IInv
  <1>1. /\ stage[p] = "loading" /\ at[p] \in 1 .. Len(LoadOrder) /\ at[p] \in Nat /\ s \in Steps
        /\ at' = [at EXCEPT ![p] = @ + 1]
        /\ stage' = IF last THEN [stage EXCEPT ![p] = "opening"] ELSE stage
        /\ UNCHANGED <<handle, state, owner, book, hooks, disturbed>>
    BY LoadStep, Zenon
  <1>2. /\ stage' \in [Processes -> Stages] /\ at' \in [Processes -> Nat] /\ at'[p] = at[p] + 1
        /\ stage'[p] = IF last THEN "opening" ELSE "loading"
        /\ \A q \in Processes : q # p => stage'[q] = stage[q] /\ at'[q] = at[q]
    BY <1>1, SMTT(20) DEF IInv, TypeInv, Stages
  <1>m. /\ pins' \in [Names -> Nat] /\ made' \in Nat
        /\ maps' \in [Processes -> [Objs -> [Names -> Nat]]]
        /\ Complete => pins' = pins
        /\ \A q \in Processes, o \in Objs, m \in Names : maps'[q][o][m] \in {0, pins'[m]}
        /\ \A q \in Processes : q # p => maps'[q] = maps[q]
        /\ \A o \in Objs, m \in Names : maps[p][o][m] # 0 => maps'[p][o][m] # 0
        /\ \A o \in Objs : maps[p][o] = pins /\ Complete => maps'[p][o] = pins
        /\ s[1] = "map" => maps'[p][s[2]][s[3]] # 0
    BY LoadMaps, Zenon
  <1>p. /\ links' \in [Processes -> SUBSET Objs] /\ DOMAIN progs' = HookNames
        /\ \A q \in Processes : q # p => links'[q] = links[q]
        /\ links[p] \subseteq links'[p]
        /\ \A o \in links'[p] : o \in links[p] \/ (maps[p][o] = pins /\ Complete)
        /\ \A h \in HookNames : progs'[h] # <<>> =>
             \/ progs'[h] = progs[h]
             \/ progs'[h] = <<pins>> /\ Complete
        /\ s[1] = "attach" => s[2] \in links'[p]
        /\ s[1] = "unpin" => progs'[s[3]] = <<>>
    BY LoadPrograms, Zenon
  <1> HIDE DEF s, last
  <1>c. Complete => Complete' /\ pins' = pins
    BY <1>m, Zenon DEF Complete
  <1>3. TypeInv'
    BY <1>i, <1>1, <1>2, <1>m, <1>p, Zenon DEF TypeInv
  <1>4. OneMapInv'
    <2>1. ASSUME NEW q \in Processes, NEW o \in links'[q]
          PROVE  maps'[q][o] = pins' /\ Complete'
      <3>1. CASE q = p
        <4>1. o \in Objs /\ maps[p][o] = pins /\ Complete
          BY <1>i, <1>p, <2>1, <3>1, Zenon DEF OneMapInv
        <4> QED BY <1>c, <1>m, <3>1, <4>1, Zenon
      <3>2. CASE q # p
        <4>1. maps[q][o] = pins /\ Complete
          BY <1>i, <1>p, <2>1, <3>2, ZenonT(30) DEF OneMapInv
        <4> QED BY <1>c, <1>m, <3>2, <4>1, Zenon
      <3> QED BY <3>1, <3>2, Zenon
    <2>2. ASSUME NEW q \in Processes, stage'[q] = "up" PROVE handle'[q] = pins' /\ Complete'
      <3>1. stage[q] = "up"
        BY <1>1, <1>2, <2>2, Zenon
      <3> QED BY <1>i, <1>1, <1>c, <3>1, Zenon DEF OneMapInv
    <2>3. ASSUME NEW h \in HookNames, progs'[h] # <<>> PROVE progs'[h] = <<pins'>> /\ Complete'
      <3>1. progs'[h] = <<pins>> /\ Complete
        BY <1>i, <1>p, <2>3, Zenon DEF OneMapInv
      <3> QED BY <1>c, <3>1, Zenon
    <2>4. \A c \in Cgroups : state'[c] \in {"attaching", "live"} => book'[c] = pins' /\ Complete'
      BY <1>i, <1>1, <1>c, Zenon DEF OneMapInv
    <2>5. \A c \in Cgroups, h \in HookNames : hooks'[c][h] # <<>> => hooks'[c][h] = <<pins'>> /\ Complete'
      BY <1>i, <1>1, <1>c, ZenonT(30) DEF OneMapInv
    <2>6. \A c \in Cgroups : state'[c] = "live" => AllAttached(c)'
      BY <1>i, <1>1, Zenon DEF OneMapInv, AllAttached, Attached
    <2> QED BY <1>m, <2>1, <2>2, <2>3, <2>4, <2>5, <2>6, Zenon DEF OneMapInv
  <1>5. ProgressInv'
    <2>1. ASSUME NEW k \in 1 .. at[p]
          PROVE  /\ LoadOrder[k][1] = "map" => maps'[p][LoadOrder[k][2]][LoadOrder[k][3]] # 0
                 /\ LoadOrder[k][1] = "attach" => LoadOrder[k][2] \in links'[p]
      <3>1. CASE k = at[p]
        BY <1>m, <1>p, <3>1, Zenon DEF s
      <3>2. CASE k # at[p]
        <4>1. k \in 1 .. at[p] - 1 /\ k \in 1 .. Len(LoadOrder)
          BY <1>1, <3>2, LoadOrderFacts
        <4>2. LoadOrder[k] \in Steps
          BY <4>1, LoadOrderFacts, Zenon
        <4>3. LoadOrder[k][1] = "map" => LoadOrder[k][2] \in Objs /\ LoadOrder[k][3] \in Names
          BY <4>2, StepShape, Zenon
        <4>4. /\ LoadOrder[k][1] = "map" => maps[p][LoadOrder[k][2]][LoadOrder[k][3]] # 0
              /\ LoadOrder[k][1] = "attach" => LoadOrder[k][2] \in links[p]
          BY <1>i, <1>1, <4>1, Zenon DEF ProgressInv
        <4> QED BY <1>m, <1>p, <4>3, <4>4, Zenon
      <3> QED BY <3>1, <3>2, Zenon
    <2>2. stage'[p] = "loading" => at'[p] \in 1 .. Len(LoadOrder) /\ at'[p] - 1 = at[p]
      BY <1>1, <1>2, LoadOrderFacts DEF last
    <2>3. stage'[p] = "opening" => links'[p] = Objs
      <3> SUFFICES ASSUME last, NEW o \in Objs PROVE o \in links'[p]
        BY <1>2, <1>p, Zenon
      <3>1. PICK k \in 1 .. Len(LoadOrder) : LoadOrder[k] = <<"attach", o, o>>
        BY LoadOrderFacts, ZenonT(30)
      <3>2. LoadOrder[k][1] = "attach" /\ LoadOrder[k][2] = o /\ k \in 1 .. at[p]
        BY <3>1 DEF last
      <3> QED BY <2>1, <3>2, Zenon
    <2>4. ASSUME NEW q \in Processes, q # p
          PROVE  /\ stage'[q] = "loading" =>
                      /\ at'[q] \in 1 .. Len(LoadOrder)
                      /\ \A k \in 1 .. at'[q] - 1 :
                           /\ LoadOrder[k][1] = "map" => maps'[q][LoadOrder[k][2]][LoadOrder[k][3]] # 0
                           /\ LoadOrder[k][1] = "attach" => LoadOrder[k][2] \in links'[q]
                 /\ stage'[q] \in {"opening", "up"} => links'[q] = Objs
      <3>1. stage'[q] = stage[q] /\ at'[q] = at[q] /\ maps'[q] = maps[q] /\ links'[q] = links[q]
        BY <1>2, <1>m, <1>p, <2>4, Zenon
      <3> QED BY <1>i, <3>1, Zenon DEF ProgressInv
    <2>5. /\ stage'[p] = "loading" =>
                /\ at'[p] \in 1 .. Len(LoadOrder)
                /\ \A k \in 1 .. at'[p] - 1 :
                     /\ LoadOrder[k][1] = "map" => maps'[p][LoadOrder[k][2]][LoadOrder[k][3]] # 0
                     /\ LoadOrder[k][1] = "attach" => LoadOrder[k][2] \in links'[p]
          /\ stage'[p] \in {"opening", "up"} => links'[p] = Objs
      BY <1>2, <2>1, <2>2, <2>3, Zenon
    <2> QED BY <2>4, <2>5, Zenon DEF ProgressInv
  <1>6. OwnerInv'
    BY <1>i, <1>1, <1>2, ZenonT(30) DEF OwnerInv
  <1>7. AloneInv'
    <2>1. \A q \in Processes : stage'[q] = "loading" => stage[q] = "loading"
      BY <1>1, <1>2, Zenon
    <2>2. \A q, r \in Processes : q # r /\ stage'[q] = "loading" /\ stage'[r] = "loading" => q \in disturbed'
      BY <1>i, <1>1, <2>1, Zenon DEF AloneInv
    <2>3. \A q \in Processes : stage'[q] = "refused" => q \in disturbed'
      BY <1>i, <1>1, <1>2, Zenon DEF AloneInv
    <2>4. ASSUME NEW q \in Processes, stage'[q] = "loading", q \notin disturbed',
                 LoadOrder[at'[q]][1] = "pin"
          PROVE  progs'[LoadOrder[at'[q]][3]] = <<>>
      <3>1. q = p
        BY <1>i, <1>1, <2>1, <2>4, Zenon DEF AloneInv
      <3>2. at'[p] \in 1 .. Len(LoadOrder) /\ at'[p] - 1 = at[p]
        BY <1>1, <1>2, <2>4, <3>1, LoadOrderFacts DEF last
      <3>3. s = <<"unpin", LoadOrder[at'[p]][2], LoadOrder[at'[p]][3]>>
        BY <2>4, <3>1, <3>2, LoadOrderFacts, Zenon DEF s
      <3>4. s[1] = "unpin" /\ s[3] = LoadOrder[at'[p]][3]
        BY <3>3, Zenon
      <3> QED BY <1>p, <3>1, <3>4, Zenon
    <2> QED BY <2>2, <2>3, <2>4, Zenon DEF AloneInv
  <1> QED BY <1>3, <1>4, <1>5, <1>6, <1>7, Zenon DEF IInv

-----------------------------------------------------------------------------
(* The other steps of a process *)

LEMMA StartKeeps ==
  ASSUME IInv, NEW p \in Processes, Start(p)
  PROVE  IInv'
  <1> DEFINE others == {q \in Processes \ {p} : stage[q] = "loading"}
  <1>i. TypeInv /\ OneMapInv /\ ProgressInv /\ OwnerInv /\ AloneInv
    BY ZenonT(30) DEF IInv
  <1>1. /\ stage[p] = "unset"
        /\ stage' = [stage EXCEPT ![p] = "loading"] /\ at' = [at EXCEPT ![p] = 1]
        /\ disturbed' = IF others = {} THEN disturbed \ {p} ELSE disturbed \cup others \cup {p}
        /\ UNCHANGED <<pins, made, maps, links, progs, handle, state, owner, book, hooks>>
    BY Zenon DEF Start, sandboxVars
  <1>2. /\ stage' \in [Processes -> Stages] /\ at' \in [Processes -> Nat]
        /\ stage'[p] = "loading" /\ at'[p] = 1
        /\ \A q \in Processes : q # p => stage'[q] = stage[q] /\ at'[q] = at[q]
    BY <1>1, <1>i, Zenon DEF TypeInv, Stages
  <1>3. TypeInv'
    BY <1>i, <1>1, <1>2, Zenon DEF TypeInv
  <1>4. OneMapInv'
    BY <1>i, <1>1, <1>2, SMTT(20) DEF OneMapInv, Complete, AllAttached, Attached
  <1>5. ProgressInv'
    <2>1. 1 \in 1 .. Len(LoadOrder) /\ \A k \in 1 .. 1 - 1 : FALSE
      BY LoadOrderFacts, SMTT(20)
    <2> QED BY <1>i, <1>1, <1>2, <2>1, ZenonT(30) DEF ProgressInv
  <1>6. OwnerInv'
    BY <1>i, <1>1, <1>2, Zenon DEF OwnerInv
  <1>7. AloneInv'
    <2>1. \A q, r \in Processes : q # r /\ stage'[q] = "loading" /\ stage'[r] = "loading" => q \in disturbed'
      BY <1>i, <1>1, <1>2, ZenonT(30) DEF AloneInv
    <2>2. \A q \in Processes : q # p /\ q \notin disturbed' => q \notin disturbed
      BY <1>1, Zenon
    <2>3. LoadOrder[1][1] # "pin"
      <3>1. 1 \in 1 .. Len(LoadOrder) /\ ~(1 > 1)
        BY LoadOrderFacts
      <3> QED BY <3>1, LoadOrderFacts, Zenon
    <2>4. ASSUME NEW q \in Processes
          PROVE  /\ stage'[q] = "loading" /\ q \notin disturbed' /\ LoadOrder[at'[q]][1] = "pin"
                      => progs'[LoadOrder[at'[q]][3]] = <<>>
                 /\ stage'[q] = "refused" => q \in disturbed'
      <3>1. CASE q = p
        BY <1>2, <2>3, <3>1, Zenon
      <3>2. CASE q # p
        BY <1>i, <1>1, <1>2, <2>2, <3>2, Zenon DEF AloneInv
      <3> QED BY <3>1, <3>2, Zenon
    <2> QED BY <2>1, <2>4, Zenon DEF AloneInv
  <1> QED BY <1>3, <1>4, <1>5, <1>6, <1>7, ZenonT(30) DEF IInv

\* The objects of a load that ends, or of a process that ends, are gone.
LEMMA DropKeeps ==
  ASSUME IInv, NEW p \in Processes, NEW x \in {"refused", "unset"},
         stage' = [stage EXCEPT ![p] = x],
         maps' = [maps EXCEPT ![p] = [o \in Range(Objects) |-> NoMaps]],
         links' = [links EXCEPT ![p] = {}],
         UNCHANGED <<at, pins, made, progs, handle, book, hooks>>,
         DOMAIN owner' = Cgroups, DOMAIN state' = Cgroups,
         \A c \in Cgroups : owner'[c] = owner[c] \/ owner'[c] = <<>>,
         \A c \in Cgroups : owner'[c] # <<p>>,
         \A c \in Cgroups : state'[c] = state[c] \/ state'[c] = "stranded",
         disturbed' \subseteq Processes, disturbed \subseteq disturbed',
         x = "refused" => p \in disturbed'
  PROVE  IInv'
  <1>i. TypeInv /\ OneMapInv /\ ProgressInv /\ OwnerInv /\ AloneInv
    BY Zenon DEF IInv
  <1>1. /\ stage' \in [Processes -> Stages] /\ stage'[p] = x
        /\ \A q \in Processes : q # p => stage'[q] = stage[q]
    BY <1>i, Zenon DEF TypeInv, Stages
  <1>2. /\ maps' \in [Processes -> [Objs -> [Names -> Nat]]]
        /\ \A o \in Objs, m \in Names : maps'[p][o][m] = 0
        /\ \A q \in Processes : q # p => maps'[q] = maps[q]
    BY <1>i, Zenon DEF TypeInv, NoMaps, Objs
  <1>3. /\ links' \in [Processes -> SUBSET Objs] /\ links'[p] = {}
        /\ \A q \in Processes : q # p => links'[q] = links[q]
    BY <1>i, Zenon DEF TypeInv
  <1>4. TypeInv'
    BY <1>i, <1>1, <1>2, <1>3, Zenon DEF TypeInv
  <1>5. OneMapInv'
    <2>1. \A q \in Processes, o \in Objs, m \in Names : maps'[q][o][m] \in {0, pins'[m]}
      BY <1>i, <1>2, SMTT(20) DEF OneMapInv
    <2>2. \A q \in Processes : \A o \in links'[q] : maps'[q][o] = pins' /\ Complete'
      <3> SUFFICES ASSUME NEW q \in Processes, NEW o \in links'[q], q # p
                   PROVE  maps'[q][o] = pins' /\ Complete'
        BY <1>3, Zenon
      <3>1. o \in links[q] /\ maps'[q] = maps[q] /\ pins' = pins
        BY <1>2, <1>3, Zenon
      <3>2. maps[q][o] = pins /\ Complete
        BY <1>i, <3>1, Zenon DEF OneMapInv
      <3> QED BY <3>1, <3>2, Zenon DEF Complete
    <2>3. \A q \in Processes : stage'[q] = "up" => handle'[q] = pins' /\ Complete'
      BY <1>i, <1>1, Zenon DEF OneMapInv, Complete
    <2>4. \A c \in Cgroups : state'[c] \in {"attaching", "live"} => state[c] = state'[c]
      BY Zenon
    <2>5. /\ \A h \in HookNames : progs'[h] # <<>> => progs'[h] = <<pins'>> /\ Complete'
          /\ \A c \in Cgroups : state'[c] \in {"attaching", "live"} => book'[c] = pins' /\ Complete'
          /\ \A c \in Cgroups, h \in HookNames : hooks'[c][h] # <<>> => hooks'[c][h] = <<pins'>> /\ Complete'
          /\ \A c \in Cgroups : state'[c] = "live" => AllAttached(c)'
      BY <1>i, <2>4, SMTT(20) DEF OneMapInv, Complete, AllAttached, Attached
    <2> QED BY <2>1, <2>2, <2>3, <2>5, Zenon DEF OneMapInv
  <1>6. ProgressInv'
    <2>1. stage'[p] \notin {"loading", "opening", "up"}
      BY <1>1, Zenon
    <2>2. ASSUME NEW q \in Processes, q # p
          PROVE  stage'[q] = stage[q] /\ at'[q] = at[q] /\ maps'[q] = maps[q] /\ links'[q] = links[q]
      BY <1>1, <1>2, <1>3, <2>2, Zenon
    <2> QED BY <1>i, <2>1, <2>2, SMTT(20) DEF ProgressInv
  <1>7. OwnerInv'
    <2> SUFFICES ASSUME NEW c \in Cgroups, NEW q \in Processes, owner'[c] = <<q>>
                 PROVE  stage'[q] = "up"
      BY Zenon DEF OwnerInv
    <2>1. q # p /\ owner[c] = <<q>>
      BY SMTT(20)
    <2> QED BY <1>i, <1>1, <2>1, ZenonT(30) DEF OwnerInv
  <1>8. AloneInv'
    BY <1>i, <1>1, ZenonT(30) DEF AloneInv
  <1> QED BY <1>4, <1>5, <1>6, <1>7, <1>8, Zenon DEF IInv

LEMMA LoadFailsKeeps ==
  ASSUME IInv, NEW p \in Processes, LoadFails(p)
  PROVE  IInv'
  <1>1. /\ stage[p] = "loading"
        /\ stage' = [stage EXCEPT ![p] = "refused"]
        /\ maps' = [maps EXCEPT ![p] = [o \in Range(Objects) |-> NoMaps]]
        /\ links' = [links EXCEPT ![p] = {}]
        /\ UNCHANGED <<at, pins, made, progs, handle, book, hooks, owner, state>>
    BY Zenon DEF LoadFails, LoadAborts, sandboxVars
  <1>2. p \in disturbed' /\ disturbed' \subseteq Processes /\ disturbed \subseteq disturbed'
    BY <1>1, Zenon DEF LoadFails, IInv, AloneInv, TypeInv
  <1>3. /\ DOMAIN owner' = Cgroups /\ DOMAIN state' = Cgroups
        /\ \A c \in Cgroups : owner'[c] # <<p>>
    BY <1>1, Zenon DEF IInv, TypeInv, OwnerInv
  <1> QED BY <1>1, <1>2, <1>3, DropKeeps, ZenonT(30)

LEMMA ExitKeeps ==
  ASSUME IInv, NEW p \in Processes, Exit(p)
  PROVE  IInv'
  <1>1. /\ stage' = [stage EXCEPT ![p] = "unset"]
        /\ maps' = [maps EXCEPT ![p] = [o \in Range(Objects) |-> NoMaps]]
        /\ links' = [links EXCEPT ![p] = {}]
        /\ UNCHANGED <<at, pins, made, progs, handle, book, hooks, disturbed>>
        /\ owner' = [c \in Cgroups |-> IF owner[c] = <<p>> THEN <<>> ELSE owner[c]]
        /\ state' = [c \in Cgroups |-> IF owner[c] = <<p>> /\ state[c] = "attaching"
                                       THEN "stranded" ELSE state[c]]
    BY Zenon DEF Exit
  <1>2. /\ DOMAIN owner' = Cgroups /\ DOMAIN state' = Cgroups
        /\ \A c \in Cgroups : owner'[c] = owner[c] \/ owner'[c] = <<>>
        /\ \A c \in Cgroups : state'[c] = state[c] \/ state'[c] = "stranded"
        /\ disturbed' \subseteq Processes /\ disturbed \subseteq disturbed'
    BY <1>1, Zenon DEF IInv, TypeInv
  <1>3. \A c \in Cgroups : owner'[c] # <<p>>
    BY <1>1, Zenon
  <1> HIDE DEF IInv
  <1> QED BY <1>1, <1>2, <1>3, DropKeeps, ZenonT(30)

LEMMA OpenMapsKeeps ==
  ASSUME IInv, NEW p \in Processes, OpenMaps(p)
  PROVE  IInv'
  <1>i. TypeInv /\ OneMapInv /\ ProgressInv /\ OwnerInv /\ AloneInv
    BY ZenonT(30) DEF IInv
  <1>l. links \in [Processes -> SUBSET Objs] /\ links' = links
    BY <1>i, Zenon DEF OpenMaps, LinksKept, TypeInv
  <1>0. stage[p] = "opening" /\ UNCHANGED <<at, pins, made, maps, progs, state, owner, book, hooks>>
    BY Zenon DEF OpenMaps, sandboxVars
  <1>1. CASE /\ \A m \in Names : pins[m] # 0
             /\ stage' = [stage EXCEPT ![p] = "up"]
             /\ handle' = [handle EXCEPT ![p] = pins]
             /\ disturbed' = disturbed
    <2>1. /\ stage' \in [Processes -> Stages] /\ stage'[p] = "up" /\ handle'[p] = pins
          /\ handle' \in [Processes -> [Names -> Nat]]
          /\ \A q \in Processes : q # p => stage'[q] = stage[q] /\ handle'[q] = handle[q]
      BY <1>i, <1>1, Zenon DEF TypeInv, Stages
    <2>2. Complete'
      BY <1>0, <1>1, Zenon DEF Complete
    <2>3. TypeInv'
      BY <1>i, <1>0, <1>l, <1>1, <2>1, Zenon DEF TypeInv
    <2>4. OneMapInv'
      <3>1. \A q \in Processes : stage'[q] = "up" => handle'[q] = pins' /\ Complete'
        BY <1>i, <1>0, <2>1, <2>2, Zenon DEF OneMapInv
      <3> QED BY <1>i, <1>0, <1>l, <2>2, <3>1, ZenonT(30) DEF OneMapInv, AllAttached, Attached
    <2>5. ProgressInv'
      BY <1>i, <1>0, <1>l, <2>1, ZenonT(30) DEF ProgressInv
    <2>6. OwnerInv' /\ AloneInv'
      BY <1>i, <1>0, <1>1, <2>1 DEF OwnerInv, AloneInv
    <2> QED BY <2>3, <2>4, <2>5, <2>6, Zenon DEF IInv
  <1>2. CASE /\ disturbed' = disturbed \cup {p}
             /\ stage' = [stage EXCEPT ![p] = "refused"]
             /\ handle' = handle
    <2>1. /\ stage' \in [Processes -> Stages] /\ stage'[p] = "refused"
          /\ \A q \in Processes : q # p => stage'[q] = stage[q]
      BY <1>i, <1>2, Zenon DEF TypeInv, Stages
    <2>3. TypeInv'
      BY <1>i, <1>0, <1>l, <1>2, <2>1, Zenon DEF TypeInv
    <2>4. OneMapInv'
      <3>1. \A q \in Processes : stage'[q] = "up" => handle'[q] = pins' /\ Complete'
        BY <1>i, <1>0, <1>2, <2>1, Zenon DEF OneMapInv, Complete
      <3> QED BY <1>i, <1>0, <1>l, <3>1, ZenonT(30) DEF OneMapInv, Complete, AllAttached, Attached
    <2>5. ProgressInv'
      BY <1>i, <1>0, <1>l, <2>1, ZenonT(30) DEF ProgressInv
    <2>6. OwnerInv'
      BY <1>i, <1>0, <2>1, ZenonT(30) DEF OwnerInv
    <2>7. AloneInv'
      BY <1>i, <1>0, <1>2, <2>1, ZenonT(30) DEF AloneInv
    <2> QED BY <2>3, <2>4, <2>5, <2>6, <2>7, ZenonT(30) DEF IInv
  <1> QED BY <1>1, <1>2, Zenon DEF OpenMaps

-----------------------------------------------------------------------------
(* The steps of a sandbox *)

\* They leave what the loader set up alone.
LEMMA SandboxSteps ==
  ASSUME IInv,
         UNCHANGED <<stage, at, pins, made, maps, links, progs, handle, disturbed>>,
         DOMAIN state' = Cgroups, DOMAIN owner' = Cgroups, DOMAIN book' = Cgroups,
         DOMAIN hooks' = Cgroups, \A c \in Cgroups : DOMAIN hooks'[c] = HookNames,
         \A c \in Cgroups, p \in Processes : owner'[c] = <<p>> => stage[p] = "up",
         \A c \in Cgroups : state'[c] \in {"attaching", "live"} => book'[c] = pins /\ Complete,
         \A c \in Cgroups, h \in HookNames :
           hooks'[c][h] # <<>> => hooks'[c][h] = <<pins>> /\ Complete,
         \A c \in Cgroups : state'[c] = "live" => AllAttached(c)'
  PROVE  IInv'
  <1>1. TypeInv'
    BY ZenonT(30) DEF IInv, TypeInv
  <1>2. OneMapInv'
    BY Zenon DEF IInv, OneMapInv, Complete
  <1>3. ProgressInv'
    BY ZenonT(30) DEF IInv, ProgressInv
  <1>4. OwnerInv' /\ AloneInv'
    BY Zenon DEF IInv, OwnerInv, AloneInv
  <1> QED BY <1>1, <1>2, <1>3, <1>4, Zenon DEF IInv

LEMMA SandboxFacts ==
  ASSUME IInv
  PROVE  /\ DOMAIN state = Cgroups /\ DOMAIN owner = Cgroups /\ DOMAIN book = Cgroups
         /\ DOMAIN hooks = Cgroups /\ \A c \in Cgroups : DOMAIN hooks[c] = HookNames
         /\ \A c \in Cgroups, p \in Processes : owner[c] = <<p>> => stage[p] = "up"
         /\ \A c \in Cgroups : state[c] \in {"attaching", "live"} => book[c] = pins /\ Complete
         /\ \A c \in Cgroups, h \in HookNames :
              hooks[c][h] # <<>> => hooks[c][h] = <<pins>> /\ Complete
         /\ \A c \in Cgroups : state[c] = "live" => AllAttached(c)
  BY ZenonT(30) DEF IInv, TypeInv, OneMapInv, OwnerInv

LEMMA RegisterKeeps ==
  ASSUME IInv, NEW p \in Processes, NEW c \in Cgroups, Register(p, c)
  PROVE  IInv'
  <1>1. /\ stage[p] = "up"
        /\ state' = [state EXCEPT ![c] = "attaching"]
        /\ owner' = [owner EXCEPT ![c] = <<p>>]
        /\ book' = [book EXCEPT ![c] = handle[p]]
        /\ hooks' = hooks
        /\ UNCHANGED <<stage, at, pins, made, maps, links, progs, handle, disturbed>>
    BY ZenonT(30) DEF Register, loadVars, bounds
  <1>2. handle[p] = pins /\ Complete
    BY <1>1, Zenon DEF IInv, OneMapInv
  <1>3. \A d \in Cgroups, q \in Processes : owner'[d] = <<q>> => stage[q] = "up"
    <2> SUFFICES ASSUME NEW d \in Cgroups, NEW q \in Processes, owner'[d] = <<q>> PROVE stage[q] = "up"
      BY Zenon
    <2>1. CASE d = c
      <3>1. <<p>> = <<q>>
        BY <1>1, <2>1, SandboxFacts, Zenon
      <3>2. p = q
        BY <3>1, Zenon
      <3> QED BY <1>1, <3>2, Zenon
    <2>2. CASE d # c
      BY <1>1, <2>2, SandboxFacts, Zenon
    <2> QED BY <2>1, <2>2, Zenon
  <1>4. \A d \in Cgroups : state'[d] \in {"attaching", "live"} => book'[d] = pins /\ Complete
    BY <1>1, <1>2, SandboxFacts, Zenon
  <1>5. \A d \in Cgroups : state'[d] = "live" => AllAttached(d)'
    BY <1>1, SandboxFacts, Zenon DEF AllAttached, Attached
  <1>6. DOMAIN state' = Cgroups /\ DOMAIN owner' = Cgroups /\ DOMAIN book' = Cgroups
    BY <1>1, SandboxFacts, Zenon
  <1>7. /\ DOMAIN hooks' = Cgroups /\ \A d \in Cgroups : DOMAIN hooks'[d] = HookNames
        /\ \A d \in Cgroups, h \in HookNames : hooks'[d][h] # <<>> => hooks'[d][h] = <<pins>> /\ Complete
    BY <1>1, SandboxFacts, Zenon
  <1> QED BY <1>1, <1>3, <1>4, <1>5, <1>6, <1>7, SandboxSteps, Zenon

\* A hook gets the program pinned under its name, whoever pinned it.
LEMMA AttachHookKeeps ==
  ASSUME IInv, NEW c \in Cgroups, AttachHook(c)
  PROVE  IInv'
  <1> DEFINE n == NextHook(c)
  <1>1. /\ state[c] = "attaching" /\ progs[n] # <<>>
        /\ hooks' = [hooks EXCEPT ![c][n] = progs[n]]
        /\ UNCHANGED <<state, owner, book>>
        /\ UNCHANGED <<stage, at, pins, made, maps, links, progs, handle, disturbed>>
    BY Zenon DEF AttachHook, loadVars, bounds
  <1> HIDE DEF n
  <1>2. n \in HookNames => progs[n] = <<pins>> /\ Complete
    BY <1>1, Zenon DEF IInv, OneMapInv
  <1>3. /\ DOMAIN hooks' = Cgroups
        /\ \A d \in Cgroups : DOMAIN hooks'[d] = HookNames
        /\ \A d \in Cgroups, h \in HookNames :
             hooks'[d][h] = IF d = c /\ h = n THEN progs[n] ELSE hooks[d][h]
    BY <1>1, SandboxFacts, Zenon
  <1>4. \A d \in Cgroups, h \in HookNames : hooks'[d][h] # <<>> => hooks'[d][h] = <<pins>> /\ Complete
    BY <1>2, <1>3, SandboxFacts
  <1>5. \A d \in Cgroups : state'[d] = "live" => AllAttached(d)'
    <2> SUFFICES ASSUME NEW d \in Cgroups, state'[d] = "live" PROVE AllAttached(d)'
      BY Zenon
    <2>1. d # c /\ AllAttached(d)
      BY <1>1, SandboxFacts, Zenon
    <2>2. \A h \in HookNames : hooks'[d][h] = hooks[d][h]
      BY <1>3, <2>1, Zenon
    <2> QED BY <2>1, <2>2, Zenon DEF AllAttached, Attached, HookNames
  <1> QED BY <1>1, <1>3, <1>4, <1>5, SandboxFacts, SandboxSteps, SMTT(20)

LEMMA InsertKeeps ==
  ASSUME IInv, NEW c \in Cgroups, Insert(c)
  PROVE  IInv'
  <1>1. /\ state[c] = "attaching" /\ AllAttached(c)
        /\ state' = [state EXCEPT ![c] = "live"]
        /\ UNCHANGED <<owner, book, hooks>>
        /\ UNCHANGED <<stage, at, pins, made, maps, links, progs, handle, disturbed>>
    BY Zenon DEF Insert, loadVars, bounds
  <1>2. /\ DOMAIN state' = Cgroups
        /\ \A d \in Cgroups : state'[d] \in {"attaching", "live"} => book'[d] = pins /\ Complete
    BY <1>1, SandboxFacts, Zenon
  <1>3. \A d \in Cgroups : state'[d] = "live" => AllAttached(d)'
    BY <1>1, SandboxFacts, Zenon DEF AllAttached, Attached
  <1> QED BY <1>1, <1>2, <1>3, SandboxFacts, SandboxSteps, ZenonT(30)

\* destroy, or a create that fails, takes the sandbox away.
LEMMA RemovedKeeps ==
  ASSUME IInv, NEW c \in Cgroups, Removed(c), book' = book,
         UNCHANGED <<stage, at, pins, made, maps, links, progs, handle, disturbed>>
  PROVE  IInv'
  <1>1. /\ state' = [state EXCEPT ![c] = "gone"]
        /\ owner' = [owner EXCEPT ![c] = <<>>]
        /\ hooks' = [hooks EXCEPT ![c] = [h \in HookNames |-> <<>>]]
    BY Zenon DEF Removed, HookNames
  <1>2. /\ DOMAIN state' = Cgroups /\ DOMAIN owner' = Cgroups /\ DOMAIN book' = Cgroups
        /\ \A d \in Cgroups, p \in Processes : owner'[d] = <<p>> => stage[p] = "up"
        /\ \A d \in Cgroups : state'[d] \in {"attaching", "live"} => book'[d] = pins /\ Complete
    BY <1>1, SandboxFacts, Zenon
  <1>3. /\ DOMAIN hooks' = Cgroups /\ \A d \in Cgroups : DOMAIN hooks'[d] = HookNames
        /\ \A d \in Cgroups, h \in HookNames : hooks'[d][h] # <<>> => hooks'[d][h] = <<pins>> /\ Complete
    BY <1>1, SandboxFacts, Zenon
  <1>4. \A d \in Cgroups : state'[d] = "live" => AllAttached(d)'
    <2> SUFFICES ASSUME NEW d \in Cgroups, state'[d] = "live" PROVE AllAttached(d)'
      BY Zenon
    <2>1. d # c /\ AllAttached(d)
      BY <1>1, SandboxFacts, Zenon
    <2>2. hooks'[d] = hooks[d]
      BY <1>1, <2>1, SandboxFacts, Zenon
    <2> QED BY <2>1, <2>2, Zenon DEF AllAttached, Attached
  <1> QED BY <1>2, <1>3, <1>4, SandboxSteps, Zenon

\* The first policy of a sandbox concerns its rules only.
LEMMA InstallKeeps ==
  ASSUME IInv, NEW c \in Cgroups, Install(c)
  PROVE  IInv'
  <1>1. /\ UNCHANGED <<state, owner, book, hooks>>
        /\ UNCHANGED <<stage, at, pins, made, maps, links, progs, handle, disturbed>>
    BY ZenonT(30) DEF Install, bounds
  <1>2. \A d \in Cgroups : state'[d] = "live" => AllAttached(d)'
    BY <1>1, SandboxFacts, Zenon DEF AllAttached, Attached
  <1> QED BY <1>1, <1>2, SandboxFacts, SandboxSteps, Zenon

-----------------------------------------------------------------------------
LEMMA InitHolds ==
  ASSUME Init
  PROVE  IInv
  <1>1. TypeInv
    BY Zenon DEF Init, TypeInv, Stages, Objs, HookNames, NoMaps
  <1>2. OneMapInv
    BY Zenon DEF Init, OneMapInv, Objs, HookNames, NoMaps
  <1>3. ProgressInv
    BY Zenon DEF Init, ProgressInv
  <1>4. OwnerInv
    BY Zenon DEF Init, OwnerInv
  <1>5. AloneInv
    BY Zenon DEF Init, AloneInv
  <1> QED BY <1>1, <1>2, <1>3, <1>4, <1>5, Zenon DEF IInv

LEMMA NextKeeps ==
  ASSUME IInv, [Next]_vars
  PROVE  IInv'
  <1>1. ASSUME NEW c \in Cgroups, AttachFails(c) \/ Destroy(c) PROVE IInv'
    BY <1>1, RemovedKeeps, Zenon DEF AttachFails, Destroy, loadVars
  <1>2. CASE UNCHANGED vars
    <2>1. /\ UNCHANGED <<state, owner, book, hooks>>
          /\ UNCHANGED <<stage, at, pins, made, maps, links, progs, handle, disturbed>>
      BY <1>2, Zenon DEF vars, loadVars, sandboxVars, bounds
    <2>2. \A d \in Cgroups : state'[d] = "live" => AllAttached(d)'
      BY <2>1, SandboxFacts, Zenon DEF AllAttached, Attached
    <2> QED BY <2>1, <2>2, SandboxFacts, SandboxSteps, Zenon
  <1> QED BY <1>1, <1>2, StartKeeps, LoadKeeps, LoadFailsKeeps, OpenMapsKeeps, ExitKeeps,
          RegisterKeeps, AttachHookKeeps, InsertKeeps, InstallKeeps, Zenon DEF Next

LEMMA Inductive == Spec => []IInv
  <1>1. Init => IInv
    BY InitHolds, Zenon
  <1>2. IInv /\ [Next]_vars => IInv'
    BY NextKeeps, Zenon
  <1> QED BY <1>1, <1>2, PTL DEF Spec

\* load_and_attach sets one pin path for the five objects: whatever loads were
\* killed, failed or ran at once, a live sandbox is registered in the very maps
\* that every attached program of every process consults.
THEOREM SeesSandbox == Spec => []ProgramsSeeSandbox
  <1>1. IInv => ProgramsSeeSandbox
    <2> SUFFICES ASSUME IInv, NEW c \in Cgroups, state[c] = "live"
                 PROVE  /\ \A p \in Processes : \A o \in links[p] : maps[p][o] = book[c]
                        /\ \A h \in Range(Hooks) : hooks[c][h] = <<book[c]>>
      BY Zenon DEF ProgramsSeeSandbox
    <2>1. book[c] = pins /\ AllAttached(c)
      BY SandboxFacts, Zenon
    <2>2. \A p \in Processes : \A o \in links[p] : maps[p][o] = pins
      BY ZenonT(30) DEF IInv, OneMapInv
    <2>3. \A h \in HookNames : hooks[c][h] # <<>>
      BY <2>1, Zenon DEF AllAttached, Attached, HookNames
    <2>4. \A h \in HookNames : hooks[c][h] = <<pins>>
      BY <2>3, SandboxFacts, Zenon
    <2> QED BY <2>1, <2>2, <2>4, Zenon DEF HookNames
  <1> QED BY <1>1, Inductive, PTL

\* enforcement() fails closed and mem::forget keeps the links: a process that
\* manages a sandbox has the programs of all five objects attached.
THEOREM ManagedEnforced == Spec => []EnforcedWhileManaged
  <1>1. IInv => EnforcedWhileManaged
    BY Zenon DEF IInv, OwnerInv, ProgressInv, EnforcedWhileManaged, Objs
  <1> QED BY <1>1, Inductive, PTL

\* load_and_attach removes a stale pin before it pins: a load beside no other, none
\* of whose steps fails, is not refused for what earlier loads left behind.
THEOREM CleanLoads == Spec => []CleanLoadSucceeds
  <1>1. IInv => CleanLoadSucceeds
    BY Zenon DEF IInv, AloneInv, CleanLoadSucceeds
  <1> QED BY <1>1, Inductive, PTL
=============================================================================
