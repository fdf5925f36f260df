------------------------ MODULE FileDescriptorProofs ------------------------
(***************************************************************************)
(* The list of the RTC descriptors, for every number of processes and      *)
(* descriptors, when no kill comes in the middle of open or close.         *)
(***************************************************************************)
EXTENDS FileDescriptors, Induction

----------------------------------------------------------------------------
(* The list alone.  Adding a node that is not in it at its front, and      *)
(* removing one that is, keep the two directions in agreement.             *)
LinkTypes ==
  /\ next \in [Node -> Node \cup {Null}]
  /\ prev \in [Node -> Node \cup {Null}]
  /\ rtc_driver_data_head \in Node \cup {Null}

(* The nodes L come one after the other: the links lead no node back to    *)
(* itself.  Two directions that agree do not say so: a ring would do too.  *)
Ordered(L) ==
  \E r \in [Node -> Nat] : \A n \in L : next[n] # Null => r[n] < r[next[n]]

LEMMA LinkMirrors ==
  ASSUME NEW L \in SUBSET Node, NEW n \in Node \ L, LinkTypes,
         Mirrors(L), Link(n)
  PROVE  Mirrors(L \cup {n})'
<1>. USE NullAssumption
<1>. DEFINE h == rtc_driver_data_head
<1>1. /\ next'[n] = h /\ \A m \in Node : m # n => next'[m] = next[m]
      /\ prev'[n] = Null
      /\ h # Null => prev'[h] = n
      /\ \A m \in Node : m # n /\ m # h => prev'[m] = prev[m]
      /\ rtc_driver_data_head' = n
  BY DEF Link, LinkTypes, Mirrors
<1>2. ASSUME NEW m \in L
      PROVE  /\ (prev'[m] = Null) <=> (m = n)
             /\ prev'[m] # Null
                  => prev'[m] \in L \cup {n} /\ next'[prev'[m]] = m
             /\ next'[m] # Null
                  => next'[m] \in L \cup {n} /\ prev'[next'[m]] = m
  <2>1. m # n /\ m \in Node /\ next'[m] = next[m]
    BY <1>1
  <2>2. next[m] # Null => next[m] \in L /\ next[m] # n /\ prev[next[m]] = m
    BY DEF Mirrors
  <2>3. next[m] # Null => next[m] # h
    BY <2>1, <2>2 DEF Mirrors
  <2>4. next'[m] # Null => next'[m] \in L \cup {n} /\ prev'[next'[m]] = m
    BY <1>1, <2>1, <2>2, <2>3
  <2>5. CASE m = h
    BY <1>1, <2>1, <2>4, <2>5
  <2>6. CASE m # h
    <3>1. prev'[m] = prev[m] /\ prev[m] # Null
      BY <1>1, <2>1, <2>6 DEF Mirrors
    <3>2. prev[m] \in L /\ next[prev[m]] = m /\ prev[m] # n
      BY <3>1 DEF Mirrors
    <3>3. next'[prev'[m]] = m
      BY <1>1, <3>1, <3>2
    <3>4. QED
      BY <2>1, <2>4, <3>1, <3>2, <3>3
  <2>7. QED
    BY <2>5, <2>6
<1>3. /\ prev'[n] = Null
      /\ next'[n] # Null => next'[n] \in L \cup {n} /\ prev'[next'[n]] = n
  BY <1>1 DEF Mirrors
<1>4. QED
  BY <1>1, <1>2, <1>3 DEF Mirrors

LEMMA UnlinkMirrors ==
  ASSUME NEW L \in SUBSET Node, NEW n \in L, LinkTypes,
         Mirrors(L), Unlink(n)
  PROVE  Mirrors(L \ {n})'
<1>. USE NullAssumption
<1>. DEFINE h == rtc_driver_data_head
<1>1. /\ \A m \in Node : next'[m] = IF m = prev[n] THEN next[n] ELSE next[m]
      /\ \A m \in Node : prev'[m] = IF m = next[n] THEN prev[n] ELSE prev[m]
      /\ rtc_driver_data_head' = IF prev[n] = Null THEN next[n] ELSE h
  BY DEF Unlink
<1>2. /\ (prev[n] = Null) <=> (n = h)
      /\ prev[n] # Null => prev[n] \in L /\ next[prev[n]] = n
      /\ next[n] # Null => next[n] \in L /\ prev[next[n]] = n
      /\ h # Null => h \in L
  BY DEF Mirrors
<1>3. rtc_driver_data_head' # Null => rtc_driver_data_head' \in L \ {n}
  BY <1>1, <1>2
<1>4. ASSUME NEW m \in L \ {n}
      PROVE  /\ (prev'[m] = Null) <=> (m = rtc_driver_data_head')
             /\ prev'[m] # Null => prev'[m] \in L \ {n} /\ next'[prev'[m]] = m
             /\ next'[m] # Null => next'[m] \in L \ {n} /\ prev'[next'[m]] = m
  <2>1. /\ (prev[m] = Null) <=> (m = h)
        /\ prev[m] # Null => prev[m] \in L /\ next[prev[m]] = m
        /\ next[m] # Null => next[m] \in L /\ prev[next[m]] = m
    BY DEF Mirrors
  <2>2. CASE m = next[n]
    BY <1>1, <1>2, <2>1, <2>2
  <2>3. CASE m # next[n]
    BY <1>1, <1>2, <2>1, <2>3
  <2>4. QED
    BY <2>2, <2>3
<1>5. QED
  BY <1>3, <1>4 DEF Mirrors

LEMMA LinkOrdered ==
  ASSUME NEW L \in SUBSET Node, NEW n \in Node \ L, LinkTypes,
         Mirrors(L), Ordered(L), Link(n)
  PROVE  Ordered(L \cup {n})'
<1>. USE NullAssumption
<1>1. PICK r \in [Node -> Nat] :
        \A m \in L : next[m] # Null => r[m] < r[next[m]]
  BY DEF Ordered
<1> DEFINE q == [m \in Node |-> IF m = n THEN 0 ELSE r[m] + 1]
<1>2. q \in [Node -> Nat]
  OBVIOUS
<1>3. /\ next'[n] = rtc_driver_data_head
      /\ \A m \in Node : m # n => next'[m] = next[m]
  BY DEF Link, LinkTypes
<1>4. \A m \in L : next[m] # Null => next[m] \in L
  BY DEF Mirrors
<1>5. ASSUME NEW m \in L, next'[m] # Null PROVE q[m] < q[next'[m]]
  <2>1. next'[m] = next[m] /\ next[m] \in L /\ r[m] < r[next[m]]
    BY <1>1, <1>3, <1>4, <1>5
  <2>2. QED
    BY <2>1
<1>6. ASSUME next'[n] # Null PROVE q[n] < q[next'[n]]
  <2>1. next'[n] \in L
    BY <1>3, <1>6 DEF Mirrors
  <2>2. QED
    BY <2>1
<1>7. \A m \in L \cup {n} : next'[m] # Null => q[m] < q[next'[m]]
  BY <1>5, <1>6
<1>8. QED
  <2> HIDE DEF q
  <2>1. QED
    BY <1>2, <1>7 DEF Ordered

LEMMA UnlinkOrdered ==
  ASSUME NEW L \in SUBSET Node, NEW n \in L, LinkTypes,
         Mirrors(L), Ordered(L), Unlink(n)
  PROVE  Ordered(L \ {n})'
<1>. USE NullAssumption
<1>1. PICK r \in [Node -> Nat] :
        \A m \in L : next[m] # Null => r[m] < r[next[m]]
  BY DEF Ordered
<1>2. \A m \in L : next[m] # Null => next[m] \in L
  BY DEF Mirrors
<1>3. ASSUME NEW m \in L \ {n}, next'[m] # Null PROVE r[m] < r[next'[m]]
  <2>1. CASE m = prev[n]
    <3>1. next[m] = n /\ next'[m] = next[n]
      BY <2>1 DEF Mirrors, Unlink
    <3>2. r[m] < r[n] /\ r[n] < r[next[n]] /\ next[n] \in Node
      BY <1>1, <1>2, <1>3, <3>1
    <3>3. QED
      BY <3>1, <3>2
  <2>2. CASE m # prev[n]
    BY <1>1, <1>3, <2>2 DEF Unlink
  <2>3. QED
    BY <2>1, <2>2
<1>4. QED
  BY <1>3 DEF Ordered

----------------------------------------------------------------------------
(* The walk of the interrupt handler.                                      *)
LEMMA FiniteNodes == IsFiniteSet(Node) /\ Cardinality(Node) \in Nat
<1>1. IsFiniteSet(Fd)
  BY SizesAssumption, FS_Interval DEF Fd
<1>2. IsFiniteSet(Node)
  BY <1>1, SizesAssumption, FS_Product DEF Node
<1>3. QED
  BY <1>2, FS_CardinalityType

(* The walk is what its definition says.                                   *)
LEMMA WalkSteps ==
  ASSUME LinkTypes
  PROVE  /\ Walk \in [0 .. Cardinality(Node) -> Node \cup {Null}]
         /\ Walk[0] = rtc_driver_data_head
         /\ \A n \in 1 .. Cardinality(Node) :
              Walk[n] = IF Walk[n - 1] = Null THEN Null ELSE next[Walk[n - 1]]
<1> DEFINE V == Node \cup {Null}
           N == Cardinality(Node)
           step == [w \in Nat \X V |-> IF w[2] = Null THEN Null ELSE next[w[2]]]
<1>1. N \in Nat
  BY FiniteNodes
<1>2. step \in [Nat \X V -> V]
  BY DEF LinkTypes
<1>h. rtc_driver_data_head \in V
  BY DEF LinkTypes
<1>3. PICK g \in [0 .. N -> V] : Recurs(g, rtc_driver_data_head, step, N)
  <2> HIDE DEF V, N, step
  <2>1. QED
    BY <1>1, <1>2, <1>h, Recursion, Zenon
<1>4. \A n \in 0 .. N : n # 0 =>
        step[<<n, g[n - 1]>>] = IF g[n - 1] = Null THEN Null ELSE next[g[n - 1]]
  BY <1>1
<1>5. g = [n \in 0 .. N |-> IF n = 0 THEN rtc_driver_data_head
                             ELSE IF g[n - 1] = Null THEN Null
                                  ELSE next[g[n - 1]]]
  <2> HIDE DEF V, N, step
  <2>1. QED
    BY <1>3, <1>4 DEF Recurs
<1>6. Walk = [n \in 0 .. N |-> IF n = 0 THEN rtc_driver_data_head
                             ELSE IF Walk[n - 1] = Null THEN Null
                                  ELSE next[Walk[n - 1]]]
  <2> HIDE DEF V, step
  <2>1. QED
    BY <1>5, Zenon DEF Walk
<1>7. /\ Walk[0] = rtc_driver_data_head
      /\ \A n \in 1 .. N :
           Walk[n] = IF Walk[n - 1] = Null THEN Null ELSE next[Walk[n - 1]]
  <2> HIDE DEF N, V, step
  <2>1. QED
    BY <1>1, <1>6
<1>8. /\ g[0] = rtc_driver_data_head
      /\ \A n \in 1 .. N :
           g[n] = IF g[n - 1] = Null THEN Null ELSE next[g[n - 1]]
  <2> HIDE DEF N, V, step
  <2>1. QED
    BY <1>1, <1>5
<1>9. \A n \in 0 .. N : Walk[n] = g[n]
  <2> HIDE DEF N, V, step
  <2>1. GoAlike(Walk, g, N)
    BY <1>7, <1>8 DEF GoAlike
  <2>2. QED
    BY <1>1, <2>1, SameValues, Zenon
<1>10. Walk \in [0 .. N -> V]
  <2> HIDE DEF N, V, step
  <2>1. QED
    BY <1>6, <1>9
<1>11. QED
  BY <1>7, <1>10

(* A list of the nodes L that is linked both ways and comes back to no     *)
(* node: the walk ends, and visits just the nodes L.                       *)
LEMMA WalkVisits ==
  ASSUME LinkTypes, NEW L \in SUBSET Node, Mirrors(L), Ordered(L)
  PROVE  ~Cyclic /\ Listed = L
<1>. USE NullAssumption
<1>n. PICK N \in Nat : N = Cardinality(Node)
  BY FiniteNodes
<1>w. PICK W \in [0 .. N -> Node \cup {Null}] :
        /\ W = Walk
        /\ W[0] = rtc_driver_data_head
        /\ \A n \in 1 .. N :
             W[n] = IF W[n - 1] = Null THEN Null ELSE next[W[n - 1]]
  BY <1>n, WalkSteps
<1>r. PICK r \in [Node -> Nat] :
        \A m \in L : next[m] # Null => r[m] < r[next[m]]
  BY DEF Ordered
<1>1. \A n \in 0 .. N : W[n] # Null => W[n] \in L
  <2> DEFINE S == {n \in Nat : n =< N => (W[n] # Null => W[n] \in L)}
  <2>1. 0 \in S
    BY <1>w DEF Mirrors
  <2>2. ASSUME NEW n \in Nat, n \in S PROVE n + 1 \in S
    <3>1. SUFFICES ASSUME n + 1 =< N, W[n + 1] # Null PROVE W[n + 1] \in L
      OBVIOUS
    <3>2. W[n + 1] = IF W[n] = Null THEN Null ELSE next[W[n]]
      BY <1>w, <3>1
    <3>3. W[n] \in L
      BY <2>2, <3>1, <3>2
    <3>4. QED
      BY <3>1, <3>2, <3>3 DEF Mirrors
  <2>3. Nat \subseteq S
    <3> HIDE DEF S
    <3>1. QED
      BY <2>1, <2>2, SetInduction
  <2>4. QED
    BY <2>3
<1>2. \A n \in 1 .. N : W[n] # Null =>
        W[n - 1] \in L /\ W[n] = next[W[n - 1]] /\ r[W[n - 1]] < r[W[n]]
  BY <1>w, <1>r, <1>1
<1>3. Climbs(W, N, r, Null)
  BY <1>2, NullAssumption DEF Climbs
<1>4. W[N] = Null
  BY <1>n, <1>3, FiniteNodes, ClimbEnds
<1>5. ~Cyclic
  BY <1>n, <1>w, <1>4 DEF Cyclic
<1>6. Listed = {W[n] : n \in 0 .. N} \ {Null}
  BY <1>n, <1>w DEF Listed
<1>7. \A n \in L : n \in Listed
  <2>1. SUFFICES ASSUME L \ Listed # {} PROVE FALSE
    OBVIOUS
  <2> DEFINE T == {r[n] : n \in L \ Listed}
  <2>2. T \subseteq Nat /\ T # {}
    BY <2>1
  <2>3. PICK u \in L \ Listed : \A v \in L \ Listed : r[u] =< r[v]
    <3>1. PICK x \in T : \A y \in T : x =< y
      <4> HIDE DEF T
      <4>1. QED
        BY <2>2, LeastNumber
    <3>2. QED
      BY <3>1
  <2>4. u # W[0]
    BY <1>6, <2>3
  <2>5. /\ prev[u] \in L /\ next[prev[u]] = u
    BY <1>w, <2>3, <2>4 DEF Mirrors
  <2>6. r[prev[u]] < r[u] /\ r[prev[u]] \in Nat /\ r[u] \in Nat
    BY <1>r, <2>3, <2>5
  <2>7. prev[u] \in Listed
    BY <2>3, <2>5, <2>6
  <2>8. PICK k \in 0 .. N : W[k] = prev[u]
    BY <1>6, <2>7
  <2>9. k # N /\ prev[u] # Null
    BY <1>4, <2>5, <2>8
  <2>10. k + 1 \in 1 .. N /\ (k + 1) - 1 = k
    BY <2>9
  <2>11. W[k + 1] = u
    BY <1>w, <2>5, <2>8, <2>9, <2>10
  <2>12. QED
    BY <1>6, <2>3, <2>10, <2>11
<1>8. QED
  BY <1>1, <1>5, <1>6, <1>7

----------------------------------------------------------------------------
(* The rates.                                                              *)
LEMMA MaskBound ==
  ASSUME NEW r \in 2 .. BaseRate
  PROVE  freq_to_mask(r) \in 0 .. MaxPeriod - 1
<1>1. PICK b \in Nat : b = BaseRate
  BY SizesAssumption
<1>2. PICK q \in Int : q = b \div r
  BY <1>1
<1>3. r * q =< b /\ b < r * q + r
  BY <1>1, <1>2, SMT
<1>4. q >= 1 /\ 2 * q =< b
  BY <1>1, <1>2, <1>3, SMT
<1>5. q =< b \div 2
  BY <1>1, <1>2, <1>4, SMT
<1>6. QED
  BY <1>1, <1>2, <1>4, <1>5 DEF freq_to_mask, MaxPeriod
----------------------------------------------------------------------------
(* What holds of a descriptor while a system call works on it.  A driver   *)
(* is missing only between the two steps of open.                          *)
Calling == {"opening", "linking", "closing", "reading"}

CallInv ==
  \A p \in Process :
    /\ pc[p] \in Calling => fd[p] \in Fd /\ present[<<p, fd[p]>>]
    /\ pc[p] = "opening" => file_ops[<<p, fd[p]>>] = "none"
    /\ pc[p] = "linking" => file_ops[<<p, fd[p]>>] = "rtc"
    /\ \A i \in Fd :
         present[<<p, i>>] /\ file_ops[<<p, i>>] = "none"
           => KillAnywhere \/ (pc[p] = "opening" /\ fd[p] = i)

(* The inductive invariant.                                                *)
FdInv == TypeOK /\ CallInv /\ LinksMirror /\ Ordered(OpenRtcNodes)

----------------------------------------------------------------------------
(* Type correctness.                                                       *)
LEMMA Nodes ==
  /\ \A n \in Node : n[1] \in Process /\ n[2] \in Fd /\ n = <<n[1], n[2]>>
  /\ \A p \in Process, i \in Fd : <<p, i>> \in Node
  /\ Fd \subseteq 2 .. FdPerProc
  /\ 2 \in 2 .. FdPerProc /\ FdPerProc \in 2 .. FdPerProc
  /\ \A i \in Fd : i + 1 \in 2 .. FdPerProc
BY SizesAssumption DEF Node, Fd

LEMMA Rates ==
  /\ \A r \in Rate : freq_to_mask(r) \in 0 .. MaxPeriod - 1
  /\ freq_to_mask(2) \in 0 .. MaxPeriod - 1
  /\ 0 \in 0 .. MaxPeriod - 1
  /\ \A c \in 0 .. MaxPeriod - 1 : (c + 1) % MaxPeriod \in 0 .. MaxPeriod - 1
<1>1. Rate \subseteq 2 .. BaseRate /\ 2 \in 2 .. BaseRate
  BY SizesAssumption DEF Rate
<1>2. \A r \in Rate : freq_to_mask(r) \in 0 .. MaxPeriod - 1
  BY <1>1, MaskBound
<1>3. freq_to_mask(2) \in 0 .. MaxPeriod - 1
  BY <1>1, MaskBound
<1>4. MaxPeriod \in Nat /\ MaxPeriod >= 1
  BY SizesAssumption DEF MaxPeriod
<1>5. QED
  BY <1>2, <1>3, <1>4

LEMMA LinkTypeOK ==
  ASSUME NEW n \in Node, LinkTypes, Link(n) \/ Unlink(n)
  PROVE  LinkTypes'
<1>1. CASE Link(n)
  <2>1. prev' \in [Node -> Node \cup {Null}]
    <3>1. DOMAIN prev' = Node /\ \A m \in Node : prev'[m] \in Node \cup {Null}
      BY <1>1 DEF Link, LinkTypes
    <3>2. prev' = [m \in Node |-> prev'[m]]
      BY <1>1 DEF Link
    <3>3. QED
      BY <3>1, <3>2
  <2>2. QED
    BY <1>1, <2>1 DEF Link, LinkTypes
<1>2. CASE Unlink(n)
  BY <1>2 DEF Unlink, LinkTypes
<1>3. QED
  BY <1>1, <1>2

LEMMA NextTypeOK ==
  ASSUME TypeOK, CallInv, [Next]_vars
  PROVE  TypeOK'
<1>. USE Nodes, Rates
<1>l. LinkTypes
  BY DEF TypeOK, LinkTypes
<1>c. \A n \in Node : DriverClose(n) => LinkTypes'
  <2>1. \A n \in Node : Unlink(n) => LinkTypes'
    BY <1>l, LinkTypeOK
  <2>2. QED
    BY <1>l, <2>1 DEF DriverClose, LinkTypes, linkVars
<1>n. \A p \in Process : pc[p] \in Calling => <<p, fd[p]>> \in Node
  BY DEF CallInv
<1>1. CASE RtcTick
  <2>1. fired' \in [Node -> BOOLEAN]
    BY <1>1 DEF RtcTick, TypeOK
  <2>2. QED
    BY <1>1, <2>1 DEF RtcTick, TypeOK, Fault, fdVars, linkVars
<1>2. ASSUME NEW p \in Process, Open(p) PROVE TypeOK'
  BY <1>2 DEF Open, Goes, TypeOK, Place, Driver
<1>3. ASSUME NEW p \in Process, OpenFails(p) PROVE TypeOK'
  BY <1>3 DEF OpenFails, Returns, Goes, TypeOK, Place, linkVars
<1>4. ASSUME NEW p \in Process, OpenFile(p) PROVE TypeOK'
  BY <1>4 DEF OpenFile, Returns, Goes, TypeOK, Place, Driver, linkVars
<1>5. ASSUME NEW p \in Process, OpenRtc(p) PROVE TypeOK'
  BY <1>5 DEF OpenRtc, Goes, TypeOK, Place, Driver, linkVars
<1>6. ASSUME NEW p \in Process, LinkRtc(p) PROVE TypeOK'
  <2>1. <<p, fd[p]>> \in Node
    BY <1>6, <1>n DEF LinkRtc, Calling
  <2>2. LinkTypes'
    BY <1>6, <1>l, <2>1, LinkTypeOK DEF LinkRtc
  <2>3. QED
    BY <1>6, <2>2 DEF LinkRtc, Returns, Goes, TypeOK, Place, fdVars, LinkTypes
<1>7. ASSUME NEW p \in Process, Close(p) PROVE TypeOK'
  <2>1. LinkTypes'
    BY <1>7, <1>c DEF Close
  <2>2. QED
    BY <1>7, <2>1 DEF Close, Goes, TypeOK, Place, fdVars, LinkTypes
<1>8. ASSUME NEW p \in Process, Closed(p) PROVE TypeOK'
  BY <1>8 DEF Closed, Returns, Goes, TypeOK, Place, linkVars
<1>9. ASSUME NEW p \in Process, Read(p) PROVE TypeOK'
  BY <1>9 DEF Read, Goes, TypeOK, Place, fdVars, linkVars
<1>10. ASSUME NEW p \in Process, ReadReturns(p) PROVE TypeOK'
  BY <1>10 DEF ReadReturns, Returns, Goes, TypeOK, Place, fdVars, linkVars
<1>11. ASSUME NEW p \in Process, Write(p) PROVE TypeOK'
  BY <1>11 DEF Write, TypeOK, fdVars, linkVars
<1>12. ASSUME NEW p \in Process, Kill(p) PROVE TypeOK'
  BY <1>12 DEF Kill, Goes, TypeOK, Place, fdVars, linkVars
<1>13. ASSUME NEW p \in Process, KillCloses(p) PROVE TypeOK'
  <2>1. LinkTypes'
    BY <1>13, <1>c, <1>l DEF KillCloses, LinkTypes, linkVars
  <2>2. fault' \in Fault
    BY <1>13 DEF KillCloses, TypeOK, Fault
  <2>3. QED
    BY <1>13, <2>1, <2>2 DEF KillCloses, Goes, TypeOK, Place, fdVars, LinkTypes
<1>14. ASSUME NEW p \in Process, KillEnds(p) PROVE TypeOK'
  BY <1>14 DEF KillEnds, Goes, TypeOK, Place, fdVars, linkVars
<1>15. ASSUME NEW p \in Process, Start(p) PROVE TypeOK'
  BY <1>15 DEF Start, Returns, Goes, TypeOK, Place, linkVars
<1>16. CASE UNCHANGED vars
  BY <1>16 DEF vars, TypeOK
<1>17. QED
  BY <1>1, <1>2, <1>3, <1>4, <1>5, <1>6, <1>7, <1>8, <1>9, <1>10, <1>11,
     <1>12, <1>13, <1>14, <1>15, <1>16 DEF Next, KillStep

----------------------------------------------------------------------------
(* The descriptors of the system calls.                                    *)
LEMMA NextCallInv ==
  ASSUME TypeOK, CallInv, [Next]_vars
  PROVE  CallInv'
<1>. USE Nodes
<1>1. CASE RtcTick
  BY <1>1 DEF RtcTick, CallInv, fdVars
<1>2. ASSUME NEW p \in Process, Open(p) PROVE CallInv'
  BY <1>2 DEF Open, Goes, CallInv, Calling, TypeOK
<1>3. ASSUME NEW p \in Process, OpenFails(p) PROVE CallInv'
  BY <1>3 DEF OpenFails, Returns, Goes, CallInv, Calling, TypeOK
<1>4. ASSUME NEW p \in Process, OpenFile(p) PROVE CallInv'
  BY <1>4 DEF OpenFile, Returns, Goes, CallInv, Calling, TypeOK
<1>5. ASSUME NEW p \in Process, OpenRtc(p) PROVE CallInv'
  BY <1>5 DEF OpenRtc, Goes, CallInv, Calling, TypeOK
<1>6. ASSUME NEW p \in Process, LinkRtc(p) PROVE CallInv'
  BY <1>6 DEF LinkRtc, Returns, Goes, fdVars, CallInv, Calling, TypeOK
<1>7. ASSUME NEW p \in Process, Close(p) PROVE CallInv'
  <2>1. PICK i \in Fd : present[<<p, i>>] /\ Goes(p, "closing", i)
    BY <1>7 DEF Close
  <2>2. present' = present /\ file_ops' = file_ops /\ pc[p] = "user"
    BY <1>7 DEF Close, fdVars
  <2>3. /\ pc'[p] = "closing" /\ fd'[p] = i
        /\ \A q \in Process : q # p => pc'[q] = pc[q] /\ fd'[q] = fd[q]
    BY <2>1 DEF Goes, TypeOK
  <2>4. ASSUME NEW q \in Process
        PROVE  /\ pc'[q] \in Calling
                    => fd'[q] \in Fd /\ present[<<q, fd'[q]>>]
               /\ pc'[q] = "opening" => file_ops[<<q, fd'[q]>>] = "none"
               /\ pc'[q] = "linking" => file_ops[<<q, fd'[q]>>] = "rtc"
               /\ \A j \in Fd :
                    present[<<q, j>>] /\ file_ops[<<q, j>>] = "none"
                      => KillAnywhere \/ (pc'[q] = "opening" /\ fd'[q] = j)
    <3>1. CASE q = p
      BY <2>1, <2>2, <2>3, <3>1 DEF CallInv
    <3>2. CASE q # p
      BY <2>3, <3>2 DEF CallInv
    <3>3. QED
      BY <3>1, <3>2
  <2>5. QED
    BY <2>2, <2>4 DEF CallInv
<1>8. ASSUME NEW p \in Process, Closed(p) PROVE CallInv'
  BY <1>8 DEF Closed, Returns, Goes, CallInv, Calling, TypeOK
<1>9. ASSUME NEW p \in Process, Read(p) PROVE CallInv'
  <2>1. PICK i \in Fd : present[<<p, i>>] /\ Goes(p, "reading", i)
    BY <1>9 DEF Read
  <2>2. present' = present /\ file_ops' = file_ops /\ pc[p] = "user"
    BY <1>9 DEF Read, fdVars
  <2>3. /\ pc'[p] = "reading" /\ fd'[p] = i
        /\ \A q \in Process : q # p => pc'[q] = pc[q] /\ fd'[q] = fd[q]
    BY <2>1 DEF Goes, TypeOK
  <2>4. ASSUME NEW q \in Process
        PROVE  /\ pc'[q] \in Calling
                    => fd'[q] \in Fd /\ present[<<q, fd'[q]>>]
               /\ pc'[q] = "opening" => file_ops[<<q, fd'[q]>>] = "none"
               /\ pc'[q] = "linking" => file_ops[<<q, fd'[q]>>] = "rtc"
               /\ \A j \in Fd :
                    present[<<q, j>>] /\ file_ops[<<q, j>>] = "none"
                      => KillAnywhere \/ (pc'[q] = "opening" /\ fd'[q] = j)
    <3>1. CASE q = p
      BY <2>1, <2>2, <2>3, <3>1 DEF CallInv
    <3>2. CASE q # p
      BY <2>3, <3>2 DEF CallInv
    <3>3. QED
      BY <3>1, <3>2
  <2>5. QED
    BY <2>2, <2>4 DEF CallInv
<1>10. ASSUME NEW p \in Process, ReadReturns(p) PROVE CallInv'
  BY <1>10 DEF ReadReturns, Returns, Goes, fdVars, CallInv, Calling, TypeOK
<1>11. ASSUME NEW p \in Process, Write(p) PROVE CallInv'
  BY <1>11 DEF Write, fdVars, CallInv, Calling, TypeOK
<1>12. ASSUME NEW p \in Process, Kill(p) PROVE CallInv'
  BY <1>12 DEF Kill, Goes, fdVars, CallInv, Calling, TypeOK
<1>13. ASSUME NEW p \in Process, KillCloses(p) PROVE CallInv'
  BY <1>13 DEF KillCloses, Goes, fdVars, CallInv, Calling, TypeOK
<1>14. ASSUME NEW p \in Process, KillEnds(p) PROVE CallInv'
  BY <1>14 DEF KillEnds, Goes, fdVars, CallInv, Calling, TypeOK
<1>15. ASSUME NEW p \in Process, Start(p) PROVE CallInv'
  BY <1>15 DEF Start, Returns, Goes, CallInv, Calling, TypeOK
<1>16. CASE UNCHANGED vars
  BY <1>16 DEF vars, CallInv
<1>17. QED
  BY <1>1, <1>2, <1>3, <1>4, <1>5, <1>6, <1>7, <1>8, <1>9, <1>10, <1>11,
     <1>12, <1>13, <1>14, <1>15, <1>16
     DEF Next, KillStep

----------------------------------------------------------------------------
(* The list.  A step keeps the open descriptors of the RTC and their       *)
(* links, or links one more, or unlinks one.                               *)
KeepsList ==
  /\ OpenRtcNodes' = OpenRtcNodes
  /\ rtc_driver_data_head' = rtc_driver_data_head
  /\ \A n \in OpenRtcNodes : next'[n] = next[n] /\ prev'[n] = prev[n]

ListStep ==
  \/ KeepsList
  \/ \E n \in Node \ OpenRtcNodes : OpenRtcNodes' = OpenRtcNodes \cup {n} /\ Link(n)
  \/ \E n \in OpenRtcNodes : OpenRtcNodes' = OpenRtcNodes \ {n} /\ Unlink(n)

LEMMA NextLinks ==
  ASSUME KillAnywhere = FALSE, TypeOK, CallInv, [Next]_vars
  PROVE  ListStep
<1>. USE Nodes
<1>a. PICK L \in SUBSET Node : L = OpenRtcNodes
  BY DEF OpenRtcNodes
<1>c. ASSUME OpenRtcNodes' = L, UNCHANGED linkVars
      PROVE  ListStep
  BY <1>a, <1>c DEF ListStep, KeepsList, linkVars
<1>d. ASSUME NEW n \in Node \ L, OpenRtcNodes' = L \cup {n}, Link(n)
      PROVE  ListStep
  BY <1>a, <1>d DEF ListStep
<1>e. ASSUME NEW n \in L, OpenRtcNodes' = L \ {n}, Unlink(n)
      PROVE  ListStep
  BY <1>a, <1>e DEF ListStep
<1>1. CASE RtcTick
  BY <1>1, <1>a, <1>c DEF RtcTick, OpenRtcNodes, Linked, fdVars
<1>2. ASSUME NEW p \in Process, Open(p) PROVE ListStep
  <2>1. PICK i \in Fd :
          /\ ~present[<<p, i>>]
          /\ present' = [present EXCEPT ![<<p, i>>] = TRUE]
          /\ file_ops' = [file_ops EXCEPT ![<<p, i>>] = "none"]
          /\ next' = [next EXCEPT ![<<p, i>>] = Null]
          /\ prev' = [prev EXCEPT ![<<p, i>>] = Null]
          /\ Goes(p, "opening", i)
    BY <1>2 DEF Open
  <2>2. PICK n \in Node : n = <<p, i>>
    OBVIOUS
  <2>3. /\ n \notin L
        /\ \A m \in L : next'[m] = next[m] /\ prev'[m] = prev[m]
        /\ rtc_driver_data_head' = rtc_driver_data_head
    BY <1>2, <1>a, <2>1, <2>2 DEF Open, OpenRtcNodes, Linked, TypeOK
  <2>4. \A m \in Node : Linked(m)' <=> Linked(m)
    <3>1. pc[p] = "user" /\ ~Linked(n) /\ ~Linked(n)'
      BY <1>2, <2>1, <2>2 DEF Open, Goes, Linked, TypeOK
    <3>2. \A m \in Node : m # n => (Linked(m)' <=> Linked(m))
      BY <2>1, <2>2, <3>1 DEF Goes, Linked, TypeOK
    <3>3. QED
      BY <3>1, <3>2
  <2>5. OpenRtcNodes' = L
    BY <1>a, <2>4 DEF OpenRtcNodes
  <2>6. QED
    BY <1>a, <2>3, <2>5 DEF ListStep, KeepsList
<1>3. ASSUME NEW p \in Process, OpenFails(p) PROVE ListStep
  <2>1. PICK n \in Node : n = <<p, fd[p]>>
    BY <1>3 DEF OpenFails, CallInv, Calling
  <2>2. ~Linked(n) /\ ~Linked(n)'
    BY <1>3, <2>1 DEF OpenFails, Returns, Goes, Linked, CallInv, Calling, TypeOK
  <2>3. \A m \in Node : m # n => (Linked(m)' <=> Linked(m))
    BY <1>3, <2>1 DEF OpenFails, Returns, Goes, Linked, TypeOK
  <2>4. OpenRtcNodes' = L
    BY <1>a, <2>2, <2>3 DEF OpenRtcNodes
  <2>5. QED
    BY <1>3, <1>c, <2>4 DEF OpenFails
<1>4. ASSUME NEW p \in Process, OpenFile(p) PROVE ListStep
  <2>1. PICK n \in Node : n = <<p, fd[p]>>
    BY <1>4 DEF OpenFile, CallInv, Calling
  <2>2. ~Linked(n) /\ ~Linked(n)'
    BY <1>4, <2>1 DEF OpenFile, Returns, Goes, Linked, CallInv, Calling, TypeOK
  <2>3. \A m \in Node : m # n => (Linked(m)' <=> Linked(m))
    BY <1>4, <2>1 DEF OpenFile, Returns, Goes, Linked, TypeOK
  <2>4. OpenRtcNodes' = L
    BY <1>a, <2>2, <2>3 DEF OpenRtcNodes
  <2>5. QED
    BY <1>4, <1>c, <2>4 DEF OpenFile
<1>5. ASSUME NEW p \in Process, OpenRtc(p) PROVE ListStep
  <2>1. PICK n \in Node : n = <<p, fd[p]>>
    BY <1>5 DEF OpenRtc, CallInv, Calling
  <2>2. ~Linked(n) /\ ~Linked(n)'
    BY <1>5, <2>1 DEF OpenRtc, Goes, Linked, CallInv, Calling, TypeOK
  <2>3. \A m \in Node : m # n => (Linked(m)' <=> Linked(m))
    BY <1>5, <2>1 DEF OpenRtc, Goes, Linked, TypeOK
  <2>4. OpenRtcNodes' = L
    BY <1>a, <2>2, <2>3 DEF OpenRtcNodes
  <2>5. QED
    BY <1>5, <1>c, <2>4 DEF OpenRtc
<1>6. ASSUME NEW p \in Process, LinkRtc(p) PROVE ListStep
  <2>1. PICK n \in Node : n = <<p, fd[p]>>
    BY <1>6 DEF LinkRtc, CallInv, Calling
  <2>2. Link(n) /\ pc[p] = "linking" /\ Linked(n)' /\ ~Linked(n)
    BY <1>6, <2>1 DEF LinkRtc, Returns, Goes, Linked, CallInv, Calling,
       TypeOK, fdVars
  <2>3. \A m \in Node : m # n => (Linked(m)' <=> Linked(m))
    BY <1>6, <2>1 DEF LinkRtc, Returns, Goes, Linked, TypeOK, fdVars
  <2>4. OpenRtcNodes' = L \cup {n} /\ n \notin L
    BY <1>a, <2>2, <2>3 DEF OpenRtcNodes
  <2>5. QED
    BY <1>d, <2>2, <2>4
<1>7. ASSUME NEW p \in Process, Close(p) PROVE ListStep
  <2>1. PICK i \in Fd :
          /\ present[<<p, i>>]
          /\ DriverClose(<<p, i>>)
          /\ Goes(p, "closing", i)
    BY <1>7 DEF Close
  <2>2. PICK n \in Node : n = <<p, i>>
    OBVIOUS
  <2>3. pc[p] = "user" /\ present' = present /\ file_ops' = file_ops
    BY <1>7 DEF Close, fdVars
  <2>4. ~Linked(n)' /\ (Linked(n) <=> file_ops[n] = "rtc")
    BY <2>1, <2>2, <2>3 DEF Goes, Linked, TypeOK
  <2>5. \A m \in Node : m # n => (Linked(m)' <=> Linked(m))
    BY <2>1, <2>2, <2>3 DEF Goes, Linked, TypeOK
  <2>6. CASE file_ops[n] = "rtc"
    <3>1. OpenRtcNodes' = L \ {n} /\ n \in L
      BY <1>a, <2>4, <2>5, <2>6 DEF OpenRtcNodes
    <3>2. QED
      BY <1>e, <2>1, <2>2, <2>6, <3>1 DEF DriverClose
  <2>7. CASE file_ops[n] # "rtc"
    <3>1. OpenRtcNodes' = L
      BY <1>a, <2>4, <2>5, <2>7 DEF OpenRtcNodes
    <3>2. QED
      BY <1>c, <2>1, <2>2, <2>7, <3>1 DEF DriverClose
  <2>8. QED
    BY <2>6, <2>7
<1>8. ASSUME NEW p \in Process, Closed(p) PROVE ListStep
  <2>1. OpenRtcNodes' = L
    BY <1>8, <1>a DEF Closed, Returns, Goes, CallInv, Calling, TypeOK,
       OpenRtcNodes, Linked
  <2>2. QED
    BY <1>8, <2>1, <1>c DEF Closed
<1>9. ASSUME NEW p \in Process, Read(p) PROVE ListStep
  <2>1. OpenRtcNodes' = L
    BY <1>9, <1>a DEF Read, Goes, fdVars, CallInv, Calling, TypeOK,
       OpenRtcNodes, Linked
  <2>2. QED
    BY <1>9, <2>1, <1>c DEF Read
<1>10. ASSUME NEW p \in Process, ReadReturns(p) PROVE ListStep
  <2>1. OpenRtcNodes' = L
    BY <1>10, <1>a DEF ReadReturns, Returns, Goes, fdVars, CallInv, Calling,
       TypeOK,
       OpenRtcNodes, Linked
  <2>2. QED
    BY <1>10, <2>1, <1>c DEF ReadReturns
<1>11. ASSUME NEW p \in Process, Write(p) PROVE ListStep
  <2>1. OpenRtcNodes' = L
    BY <1>11, <1>a DEF Write, fdVars, CallInv, Calling, TypeOK,
       OpenRtcNodes, Linked
  <2>2. QED
    BY <1>11, <2>1, <1>c DEF Write
<1>12. ASSUME NEW p \in Process, Kill(p) PROVE ListStep
  <2>1. OpenRtcNodes' = L
    BY <1>12, <1>a DEF Kill, Goes, fdVars, CallInv, Calling, TypeOK,
       OpenRtcNodes, Linked
  <2>2. QED
    BY <1>12, <2>1, <1>c DEF Kill
<1>13. ASSUME NEW p \in Process, KillCloses(p) PROVE ListStep
  <2>1. PICK n \in Node : n = <<p, fd[p]>>
    BY <1>13 DEF KillCloses
  <2>2. /\ pc[p] = "dying" /\ fd[p] \in Fd
        /\ Goes(p, "dying", fd[p] + 1)
        /\ present' = present /\ file_ops' = file_ops
    BY <1>13 DEF KillCloses, fdVars
  <2>3. ~Linked(n)' /\ (Linked(n) <=> present[n] /\ file_ops[n] = "rtc")
    BY <2>1, <2>2 DEF Goes, Linked, TypeOK, Fd
  <2>4. \A m \in Node : m # n => (Linked(m)' <=> Linked(m))
    <3>1. pc'[p] = "dying" /\ fd'[p] = fd[p] + 1
      BY <2>2 DEF Goes, TypeOK
    <3>2. \A q \in Process : q # p => pc'[q] = pc[q] /\ fd'[q] = fd[q]
      BY <2>2 DEF Goes, TypeOK
    <3>3. \A i \in Fd : i # fd[p] => (fd[p] + 1 =< i <=> fd[p] =< i)
      BY <2>2, SizesAssumption DEF Fd
    <3>4. ASSUME NEW m \in Node, m # n PROVE Linked(m)' <=> Linked(m)
      <4>1. CASE m[1] = p
        BY <2>1, <2>2, <3>1, <3>3, <3>4, <4>1 DEF Linked
      <4>2. CASE m[1] # p
        BY <2>2, <3>2, <4>2 DEF Linked
      <4>3. QED
        BY <4>1, <4>2
    <3>5. QED
      BY <3>4
  <2>5. CASE present[n] /\ file_ops[n] = "rtc"
    <3>1. OpenRtcNodes' = L \ {n} /\ n \in L
      BY <1>a, <2>3, <2>4, <2>5 DEF OpenRtcNodes
    <3>2. QED
      BY <1>13, <1>e, <2>1, <2>5, <3>1 DEF KillCloses, DriverClose
  <2>6. CASE ~(present[n] /\ file_ops[n] = "rtc")
    <3>1. OpenRtcNodes' = L
      BY <1>a, <2>3, <2>4, <2>6 DEF OpenRtcNodes
    <3>2. QED
      BY <1>13, <1>c, <2>1, <2>6, <3>1 DEF KillCloses, DriverClose
  <2>7. QED
    BY <2>5, <2>6
<1>14. ASSUME NEW p \in Process, KillEnds(p) PROVE ListStep
  <2>1. OpenRtcNodes' = L
    BY <1>14, <1>a DEF KillEnds, Goes, fdVars, CallInv, Calling, TypeOK,
       OpenRtcNodes, Linked
  <2>2. QED
    BY <1>14, <2>1, <1>c DEF KillEnds
<1>15. ASSUME NEW p \in Process, Start(p) PROVE ListStep
  <2>1. \A m \in Node : m[1] = p => ~Linked(m) /\ ~Linked(m)'
    BY <1>15 DEF Start, Linked
  <2>2. \A m \in Node : m[1] # p => (Linked(m)' <=> Linked(m))
    BY <1>15 DEF Start, Returns, Goes, Linked, TypeOK
  <2>3. OpenRtcNodes' = L
    BY <1>a, <2>1, <2>2 DEF OpenRtcNodes
  <2>4. QED
    BY <1>15, <1>c, <2>3 DEF Start
<1>16. CASE UNCHANGED vars
  BY <1>16, <1>a, <1>c DEF vars, OpenRtcNodes, Linked, linkVars
<1>17. QED
  BY <1>1, <1>2, <1>3, <1>4, <1>5, <1>6, <1>7, <1>8, <1>9, <1>10, <1>11,
     <1>12, <1>13, <1>14, <1>15, <1>16
     DEF Next, KillStep

LEMMA ListStepKeeps ==
  ASSUME LinkTypes, LinksMirror, Ordered(OpenRtcNodes), ListStep
  PROVE  LinksMirror' /\ Ordered(OpenRtcNodes)'
<1>a. PICK L \in SUBSET Node : L = OpenRtcNodes
  BY DEF OpenRtcNodes
<1>b. Mirrors(L) /\ Ordered(L)
  BY <1>a DEF LinksMirror, Mirrors, Ordered
<1>1. CASE KeepsList
  <2>1. LinksMirror'
    BY <1>1, <1>a, <1>b DEF LinksMirror, Mirrors, KeepsList
  <2>2. Ordered(OpenRtcNodes)'
    BY <1>1, <1>a, <1>b DEF Ordered, KeepsList
  <2>3. QED
    BY <2>1, <2>2
<1>2. ASSUME NEW n \in Node \ L, OpenRtcNodes' = L \cup {n}, Link(n)
      PROVE  LinksMirror' /\ Ordered(OpenRtcNodes)'
  <2>1. Mirrors(L \cup {n})' /\ Ordered(L \cup {n})'
    BY <1>b, <1>2, LinkMirrors, LinkOrdered
  <2>2. QED
    BY <1>2, <2>1 DEF LinksMirror, Mirrors, Ordered
<1>3. ASSUME NEW n \in L, OpenRtcNodes' = L \ {n}, Unlink(n)
      PROVE  LinksMirror' /\ Ordered(OpenRtcNodes)'
  <2>1. Mirrors(L \ {n})' /\ Ordered(L \ {n})'
    BY <1>b, <1>3, UnlinkMirrors, UnlinkOrdered
  <2>2. QED
    BY <1>3, <2>1 DEF LinksMirror, Mirrors, Ordered
<1>4. QED
  BY <1>a, <1>1, <1>2, <1>3 DEF ListStep

LEMMA FdInvStep ==
  ASSUME KillAnywhere = FALSE, FdInv, [Next]_vars
  PROVE  FdInv'
<1>1. TypeOK' /\ CallInv'
  BY NextTypeOK, NextCallInv DEF FdInv
<1>2. LinkTypes
  BY DEF FdInv, TypeOK, LinkTypes
<1>3. ListStep
  BY NextLinks DEF FdInv
<1>4. LinksMirror' /\ Ordered(OpenRtcNodes)'
  BY <1>2, <1>3, ListStepKeeps DEF FdInv
<1>5. QED
  BY <1>1, <1>4 DEF FdInv

----------------------------------------------------------------------------
LEMMA InitFdInv == Init => FdInv
<1> SUFFICES ASSUME Init PROVE FdInv
  OBVIOUS
<1>. USE Nodes, Rates
<1>1. TypeOK
  BY DEF Init, TypeOK, Place, Driver, Fault
<1>2. CallInv
  BY DEF Init, CallInv, Calling
<1>3. LinksMirror
  BY DEF Init, LinksMirror, Mirrors, OpenRtcNodes, Linked
<1>4. Ordered(OpenRtcNodes)
  <2>1. [n \in Node |-> 0] \in [Node -> Nat]
    OBVIOUS
  <2>2. \A n \in Node : next[n] = Null
    BY DEF Init
  <2>3. \A n \in OpenRtcNodes : next[n] = Null
    BY <2>2 DEF OpenRtcNodes
  <2>4. QED
    BY <2>1, <2>3 DEF Ordered
<1>5. QED
  BY <1>1, <1>2, <1>3, <1>4 DEF FdInv

(* Every field stays in its type, whenever a kill comes: the periods fit   *)
(* the counter, and a call works on a descriptor that is present.          *)
THEOREM TypeCorrect == Spec => []TypeOK
<1>1. Init => TypeOK /\ CallInv
  BY InitFdInv DEF FdInv
<1>2. TypeOK /\ CallInv /\ [Next]_vars => (TypeOK /\ CallInv)'
  BY NextTypeOK, NextCallInv
<1>3. QED
  BY <1>1, <1>2, PTL DEF Spec

(* The open descriptors of the RTC are linked both ways, in whatever order *)
(* the processes open and close them and are killed, if a kill does not    *)
(* come between the steps of open or close (rtc_open, rtc_close, the close *)
(* loops of process.c).                                                    *)
THEOREM ListLinked ==
  ASSUME KillAnywhere = FALSE
  PROVE  Spec => []LinksMirror
<1>1. Init => FdInv
  BY InitFdInv
<1>2. FdInv /\ [Next]_vars => FdInv'
  BY FdInvStep
<1>3. FdInv => LinksMirror
  BY DEF FdInv
<1>4. QED
  BY <1>1, <1>2, <1>3, PTL DEF Spec

(* The interrupt handler's walk ends, and visits just the open descriptors *)
(* of the RTC: none is forgotten, none is visited after its close, and no  *)
(* order of opens, closes and kills bends the list into a ring (rtc_open,  *)
(* rtc_close, rtc_handler).                                                *)
THEOREM HandlerVisits ==
  ASSUME KillAnywhere = FALSE
  PROVE  Spec => []ListIsOpenRtc
<1>1. Init => FdInv
  BY InitFdInv
<1>2. FdInv /\ [Next]_vars => FdInv'
  BY FdInvStep
<1>3. ASSUME FdInv PROVE ListIsOpenRtc
  <2>1. LinkTypes /\ OpenRtcNodes \in SUBSET Node
    BY <1>3 DEF FdInv, TypeOK, LinkTypes, OpenRtcNodes
  <2>2. Mirrors(OpenRtcNodes) /\ Ordered(OpenRtcNodes)
    BY <1>3 DEF FdInv, LinksMirror
  <2>3. QED
    BY <2>1, <2>2, WalkVisits DEF ListIsOpenRtc
<1>4. QED
  BY <1>1, <1>2, <1>3, PTL DEF Spec
=============================================================================
