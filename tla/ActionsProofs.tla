--------------------------- MODULE ActionsProofs ---------------------------
(***************************************************************************)
(* Proofs about Actions for any host, any process trees, any request and   *)
(* any answer to the prompt.                                               *)
(*                                                                         *)
(* The first part needs no more than the steps of Kill and Restart: who is *)
(* never signalled, what the consent is asked for.  The second part is     *)
(* about the tree that is signalled.  It says what the recursive traversal *)
(* of a table returns, that the table of a host is a forest whatever the   *)
(* host does, and then what the loop has done with the list.  Induction    *)
(* goes by sets of numbers: the set of those for which the statement holds *)
(* has 0 and, with n, n + 1.  The last part is what a success means, which *)
(* needs that the loop tried the owner, too: whoever may not be probed was *)
(* refused the signal.                                                     *)
(***************************************************************************)
EXTENDS Actions, FiniteSetTheorems, SequenceTheorems, WellFoundedInduction, TLAPS

\* The loop of TerminateTree is the only step that signals, and it passes
\* over PID 1 and PortLens wherever they are in the tree.
THEOREM ProtectedSafe == Spec => []ProtectedNeverSignaled
<1>1. Init => ProtectedNeverSignaled
  BY DEF Init, ProtectedNeverSignaled
<1>2. ProtectedNeverSignaled /\ [Next]_vars => ProtectedNeverSignaled'
  <2> SUFFICES ASSUME ProtectedNeverSignaled, [Next]_vars
               PROVE  ProtectedNeverSignaled'
    OBVIOUS
  <2>1. CASE SignalNext
    <3>1. \/ signaled' = signaled
          \/ /\ ~Protected(Head(todo))
             /\ signaled' = signaled \cup {[pid |-> Head(todo), gen |-> gen[Head(todo)]]}
      BY <2>1 DEF SignalNext
    <3> QED
      BY <3>1 DEF ProtectedNeverSignaled, Protected
  <2>2. CASE UNCHANGED signaled
    BY <2>2 DEF ProtectedNeverSignaled, Protected
  <2>3. SignalNext \/ UNCHANGED signaled
    BY DEF Next, Work, Answer, Host, FoundContainer, FoundProcess, FoundLaunch, Agree,
           Decline, Container, Terminate, Signaled, Probe, SignalFailed, Poll, PollAgain, GiveUp,
           Release, Start, Exit, Reap, Fork, Expire, vars, effects
  <2> QED
    BY <2>1, <2>2, <2>3
<1> QED
  BY <1>1, <1>2, PTL DEF Spec

-----------------------------------------------------------------------------
\* The places of the code that lie behind the question.
Committed == {"container", "terminate", "signal", "probe", "wait", "sleep", "release",
              "start"}

\* Every place behind the question was reached through it, or by force.
ConsentInv == /\ AskedFirst
              /\ pc \in Committed => asked \/ op = "force"

LEMMA ConsentStep == ConsentInv /\ [Next]_vars => ConsentInv'
<1> SUFFICES ASSUME ConsentInv, [Next]_vars PROVE ConsentInv'
  OBVIOUS
<1> USE DEF ConsentInv, AskedFirst, Committed, request, effects
<1>1. CASE FoundContainer
  BY <1>1 DEF FoundContainer
<1>2. CASE FoundProcess
  BY <1>2 DEF FoundProcess, Return
<1>3. CASE FoundLaunch
  BY <1>3 DEF FoundLaunch, Return
<1>4. CASE Agree
  BY <1>4 DEF Agree
<1>5. CASE Decline
  BY <1>5 DEF Decline, Return
<1>6. CASE Container
  BY <1>6 DEF Container, Return
<1>7. CASE Terminate
  BY <1>7 DEF Terminate, Return
<1>8. CASE SignalNext
  <2>1. pc = "signal" /\ pc' = pc /\ UNCHANGED <<op, asked, stopped, launched>>
    BY <1>8 DEF SignalNext
  <2> QED
    BY <2>1
<1>9. CASE Signaled
  BY <1>9 DEF Signaled
<1>10. CASE Probe \/ SignalFailed \/ GiveUp
  BY <1>10 DEF Probe, SignalFailed, GiveUp, Return
<1>11. CASE Poll
  BY <1>11 DEF Poll, Return
<1>12. CASE PollAgain
  BY <1>12 DEF PollAgain
<1>13. CASE Release
  BY <1>13 DEF Release
<1>14. CASE Start
  BY <1>14 DEF Start, Return
<1>15. CASE Host \/ UNCHANGED vars
  BY <1>15 DEF Host, Exit, Reap, Fork, Expire, vars
<1> QED
  BY <1>1, <1>2, <1>3, <1>4, <1>5, <1>6, <1>7, <1>8, <1>9, <1>10, <1>11, <1>12, <1>13,
     <1>14, <1>15 DEF Next, Work, Answer

\* No path of Kill or Restart reaches a signal, the runtime or the start of a
\* command without the prompt, --yes or --force.
THEOREM ConsentFirst == Spec => []AskedFirst
<1>1. Init => ConsentInv
  BY DEF Init, ConsentInv, AskedFirst, Committed
<1>2. ConsentInv => AskedFirst
  BY DEF ConsentInv
<1> QED
  BY <1>1, <1>2, ConsentStep, PTL DEF Spec

-----------------------------------------------------------------------------
(* Numbers and enumerations.                                               *)

\* What holds of 0 and passes from each number to the next holds of all.
LEMMA FromZeroUp ==
    ASSUME NEW S, 0 \in S, \A n \in Nat : n \in S => n + 1 \in S
    PROVE  \A n \in Nat : n \in S
<1> SUFFICES ASSUME NEW k \in Nat, k \notin S PROVE FALSE
  OBVIOUS
<1> DEFINE T == Nat \ S
<1>1. T \subseteq Nat /\ T # {}
  OBVIOUS
<1>2. PICK n \in T : \A m \in T : ~(<<m, n>> \in OpToRel(<, Nat))
  BY <1>1, NatLessThanWellFounded, WFMin
<1>3. n \in Nat /\ n # 0 /\ n - 1 \in Nat /\ n - 1 < n
  OBVIOUS
<1>4. n - 1 \notin T
  BY <1>2, <1>3 DEF OpToRel
<1> QED
  BY <1>3, <1>4

\* A set of numbers that has one has a least one.
LEMMA LeastOf ==
    ASSUME NEW K, K \subseteq Nat, K # {}
    PROVE  \E m \in K : \A k \in K : m <= k
<1>1. PICK m \in K : \A k \in K : ~(<<k, m>> \in OpToRel(<, Nat))
  BY NatLessThanWellFounded, WFMin
<1>2. \A k \in K : <<k, m>> \in Nat \X Nat
  BY <1>1
<1>3. \A k \in K : ~(k < m)
  BY <1>1, <1>2 DEF OpToRel
<1>4. m \in Nat /\ \A k \in K : k \in Nat
  BY <1>1
<1>5. ASSUME NEW k \in K PROVE m <= k
  <2>1. k \in Nat /\ ~(k < m)
    BY <1>3, <1>4
  <2> QED
    BY <1>4, <2>1
<1> QED
  BY <1>5

\* The first n of a list, in the order of their numbers.
Rising(s, n) == \A i, j \in 1..n : i < j => s[i] < s[j]

\* Every finite set of numbers can be listed in order.
LEMMA OrderExists ==
    ASSUME NEW K, K \subseteq Nat, IsFiniteSet(K)
    PROVE  \E s \in [1..Cardinality(K) -> K] : Rising(s, Cardinality(K))
<1> DEFINE Good == {n \in Nat : \A L \in SUBSET Nat :
                                  IsFiniteSet(L) /\ Cardinality(L) = n
                                  => \E s \in [1..n -> L] : Rising(s, n)}
<1>1. 0 \in Good
  <2> SUFFICES ASSUME NEW L \in SUBSET Nat PROVE \E s \in [1..0 -> L] : Rising(s, 0)
    OBVIOUS
  <2> DEFINE s == [i \in 1..0 |-> 0]
  <2>1. s \in [1..0 -> L] /\ Rising(s, 0)
    BY DEF Rising
  <2> QED
    BY <2>1
<1>2. ASSUME NEW n \in Nat, n \in Good PROVE n + 1 \in Good
  <2> SUFFICES ASSUME NEW L \in SUBSET Nat, IsFiniteSet(L), Cardinality(L) = n + 1
               PROVE  \E s \in [1..(n + 1) -> L] : Rising(s, n + 1)
    OBVIOUS
  <2>1. L # {}
    BY FS_EmptySet
  <2>2. PICK m \in L : \A k \in L : m <= k
    BY <2>1, LeastOf
  <2>3. IsFiniteSet(L \ {m}) /\ Cardinality(L \ {m}) = n
    <3>1. Cardinality(L \ {m}) = Cardinality(L) - 1
      BY <2>2, FS_RemoveElement
    <3>2. IsFiniteSet(L \ {m})
      BY FS_RemoveElement
    <3> QED
      BY <3>1, <3>2
  <2>4. PICK t \in [1..n -> L \ {m}] : Rising(t, n)
    BY <1>2, <2>3
  <2> DEFINE s == [i \in 1..(n + 1) |-> IF i = 1 THEN m ELSE t[i - 1]]
  <2>5. s \in [1..(n + 1) -> L]
    <3>1. \A i \in 1..(n + 1) : i # 1 => i - 1 \in 1..n
      OBVIOUS
    <3> QED
      BY <3>1
  <2>6. ASSUME NEW i \in 1..(n + 1), NEW j \in 1..(n + 1), i < j PROVE s[i] < s[j]
    <3>1. j # 1 /\ j - 1 \in 1..n /\ s[j] = t[j - 1]
      BY <2>6
    <3>2. t[j - 1] \in L /\ t[j - 1] # m
      BY <3>1, <2>4
    <3>3. CASE i = 1
      <4>1. m \in Nat /\ t[j - 1] \in Nat /\ m <= t[j - 1] /\ s[i] = m
        BY <2>2, <3>2, <3>3
      <4> QED
        BY <3>1, <3>2, <4>1
    <3>4. CASE i # 1
      <4>1. i - 1 \in 1..n /\ s[i] = t[i - 1] /\ i - 1 < j - 1
        BY <3>4, <2>6
      <4> QED
        BY <4>1, <3>1, <2>4 DEF Rising
    <3> QED
      BY <3>3, <3>4
  <2>7. Rising(s, n + 1)
    BY <2>6 DEF Rising
  <2> QED
    BY <2>5, <2>7
<1> HIDE DEF Good
<1>3. \A n \in Nat : n \in Good
  BY <1>1, <1>2, FromZeroUp
<1>4. Cardinality(K) \in Good
  BY <1>3, FS_CardinalityType
<1> QED
  BY <1>4 DEF Good

\* The children in order are a sequence that lists each of them once.
LEMMA InOrderLists ==
    ASSUME NEW K, K \subseteq Nat, IsFiniteSet(K)
    PROVE  /\ InOrder(K) \in [1..Cardinality(K) -> K]
           /\ \A i, j \in 1..Cardinality(K) : i # j => InOrder(K)[i] # InOrder(K)[j]
           /\ \A k \in K : \E i \in 1..Cardinality(K) : InOrder(K)[i] = k
<1> DEFINE n == Cardinality(K)
           s == InOrder(K)
<1>1. n \in Nat
  BY FS_CardinalityType
<1>2. s \in [1..n -> K] /\ \A i, j \in 1..n : i < j => s[i] < s[j]
  BY OrderExists DEF InOrder, Rising
<1> HIDE DEF s, n
<1>3. ASSUME NEW i \in 1..n, NEW j \in 1..n, i # j PROVE s[i] # s[j]
  <2>1. s[i] \in Nat /\ s[j] \in Nat
    BY <1>2
  <2>2. i < j \/ j < i
    BY <1>1, <1>3
  <2> QED
    BY <1>2, <2>1, <2>2
<1>4. ExistsBijection(1..n, Range(s))
  <2>1. s \in Bijection(1..n, Range(s))
    BY <1>2, <1>3 DEF Bijection, Injection, Surjection, IsInjective, Range
  <2> QED
    BY <2>1 DEF ExistsBijection
<1>5. Cardinality(Range(s)) = n
  BY <1>1, <1>4, FS_CountingElements
<1>6. Range(s) \subseteq K
  BY <1>2 DEF Range
<1>7. Range(s) = K
  BY <1>5, <1>6, FS_Subset DEF n
<1>8. \A k \in K : \E i \in 1..n : s[i] = k
  BY <1>2, <1>7 DEF Range
<1> QED
  BY <1>2, <1>3, <1>8 DEF s, n

-----------------------------------------------------------------------------
(* Lists of processes.                                                     *)

\* Everything once, and nothing before what it is the parent of.
LeafFirst(T, s) == \A i, j \in DOMAIN s : i < j => s[i] # s[j] /\ T[s[j]] # s[i]

\* Nothing of the second list is in the first, or has its parent there.
Apart(T, s, t) == \A x \in Range(s), y \in Range(t) : x # y /\ T[y] # x

\* A concatenation lists what either list does.
LEMMA RangeOfConcat ==
    ASSUME NEW S, NEW s \in Seq(S), NEW t \in Seq(S)
    PROVE  Range(s \o t) = Range(s) \cup Range(t)
<1>1. Len(s) \in Nat /\ Len(t) \in Nat
  OBVIOUS
<1>2. DOMAIN (s \o t) = 1..(Len(s) + Len(t))
  OBVIOUS
<1>3. DOMAIN s = 1..Len(s) /\ DOMAIN t = 1..Len(t)
  OBVIOUS
<1>4. \A i \in 1..Len(s) : i \in 1..(Len(s) + Len(t)) /\ (s \o t)[i] = s[i]
  BY <1>1
<1>5. \A i \in 1..Len(t) : Len(s) + i \in 1..(Len(s) + Len(t)) /\ (s \o t)[Len(s) + i] = t[i]
  BY <1>1
<1>6. \A i \in 1..(Len(s) + Len(t)) : \/ i \in 1..Len(s)
                                      \/ i - Len(s) \in 1..Len(t) /\ (s \o t)[i] = t[i - Len(s)]
  BY <1>1
<1>7. ASSUME NEW x \in Range(s \o t) PROVE x \in Range(s) \cup Range(t)
  BY <1>2, <1>3, <1>4, <1>6 DEF Range
<1>8. Range(s) \subseteq Range(s \o t)
  BY <1>2, <1>3, <1>4 DEF Range
<1>9. Range(t) \subseteq Range(s \o t)
  BY <1>2, <1>3, <1>5 DEF Range
<1> QED
  BY <1>7, <1>8, <1>9

\* Two lists in order that are apart are in order one after the other.
LEMMA ConcatLeafFirst ==
    ASSUME NEW T, NEW S, NEW s \in Seq(S), NEW t \in Seq(S),
           LeafFirst(T, s), LeafFirst(T, t), Apart(T, s, t)
    PROVE  LeafFirst(T, s \o t)
<1> DEFINE u == s \o t
<1>1. Len(s) \in Nat /\ Len(t) \in Nat /\ DOMAIN u = 1..(Len(s) + Len(t))
  OBVIOUS
<1>2. DOMAIN s = 1..Len(s) /\ DOMAIN t = 1..Len(t)
  OBVIOUS
<1>3. ASSUME NEW i \in 1..(Len(s) + Len(t)), NEW j \in 1..(Len(s) + Len(t)), i < j
      PROVE  u[i] # u[j] /\ T[u[j]] # u[i]
  <2>1. CASE j \in 1..Len(s)
    <3>1. i \in 1..Len(s) /\ u[i] = s[i] /\ u[j] = s[j]
      BY <1>1, <1>3, <2>1
    <3> QED
      BY <3>1, <2>1, <1>2, <1>3 DEF LeafFirst
  <2>2. CASE i \notin 1..Len(s)
    <3>1. i - Len(s) \in 1..Len(t) /\ j - Len(s) \in 1..Len(t) /\ i - Len(s) < j - Len(s)
      BY <1>1, <1>3, <2>2
    <3>2. u[i] = t[i - Len(s)] /\ u[j] = t[j - Len(s)]
      BY <1>1, <1>3, <2>2
    <3> QED
      BY <3>1, <3>2, <1>2 DEF LeafFirst
  <2>3. CASE i \in 1..Len(s) /\ j \notin 1..Len(s)
    <3>1. u[i] = s[i] /\ u[j] = t[j - Len(s)] /\ j - Len(s) \in 1..Len(t)
      BY <1>1, <1>3, <2>3
    <3>2. u[i] \in Range(s) /\ u[j] \in Range(t)
      BY <3>1, <2>3, <1>2 DEF Range
    <3> QED
      BY <3>2 DEF Apart
  <2> QED
    BY <2>1, <2>2, <2>3
<1> QED
  BY <1>1, <1>3 DEF LeafFirst

\* The concatenation of lists of which each is in order and apart from those
\* that follow it.
LEMMA FlattenLists ==
    ASSUME NEW T, NEW S, NEW n \in Nat, NEW ss \in [1..n -> Seq(S)],
           \A i \in 1..n : LeafFirst(T, ss[i]),
           \A i, j \in 1..n : i < j => Apart(T, ss[i], ss[j])
    PROVE  /\ FlattenSeq(ss) \in Seq(S)
           /\ Range(FlattenSeq(ss)) = UNION {Range(ss[i]) : i \in 1..n}
           /\ LeafFirst(T, FlattenSeq(ss))
<1>1. ss \in Seq(Seq(S)) /\ Len(ss) = n
  OBVIOUS
<1>2. CASE n = 0
  <2>1. FlattenSeq(ss) = ss /\ ss = <<>>
    BY <1>1, <1>2 DEF FlattenSeq
  <2>2. DOMAIN ss = 1..0 /\ 1..0 = {}
    BY <1>2
  <2> QED
    BY <2>1, <2>2, <1>2 DEF Range, LeafFirst
<1>3. CASE n # 0
  <2> DEFINE Body(f, k) == [i \in 1..k |-> IF i = 1 THEN ss[i] ELSE f[i - 1] \o ss[i]]
             Built(k) == \E f : f = Body(f, k)
             Good == {m \in Nat : m + 1 <= n => Built(m + 1)}
  <2> HIDE DEF Built
  <2>1. 0 \in Good
    <3> DEFINE f == [i \in 1..1 |-> ss[i]]
    <3>1. f = Body(f, 1)
      OBVIOUS
    <3>2. Built(1)
      BY <3>1 DEF Built
    <3> QED
      BY <3>2
  <2>2. ASSUME NEW m \in Nat, m \in Good PROVE m + 1 \in Good
    <3> SUFFICES ASSUME m + 2 <= n PROVE Built(m + 2)
      OBVIOUS
    <3>0. Built(m + 1)
      BY <2>2
    <3>1. PICK f : f = Body(f, m + 1)
      BY <3>0 DEF Built
    <3> DEFINE g == [i \in 1..(m + 2) |-> IF i = m + 2 THEN f[m + 1] \o ss[i] ELSE f[i]]
    <3>2. ASSUME NEW i \in 1..(m + 2)
          PROVE  g[i] = IF i = 1 THEN ss[i] ELSE g[i - 1] \o ss[i]
      <4>1. CASE i = 1
        <5>1. i \in 1..(m + 1) /\ i # m + 2
          BY <4>1
        <5>2. g[i] = f[i] /\ f[i] = ss[i]
          BY <3>1, <4>1, <5>1
        <5> QED
          BY <4>1, <5>2
      <4>2. CASE i # 1 /\ i # m + 2
        <5>1. i \in 1..(m + 1) /\ i - 1 \in 1..(m + 1) /\ i - 1 # m + 2 /\ i - 1 \in 1..(m + 2)
          BY <4>2
        <5>2. g[i] = f[i] /\ g[i - 1] = f[i - 1]
          BY <4>2, <5>1
        <5>3. f[i] = f[i - 1] \o ss[i]
          BY <3>1, <4>2, <5>1
        <5> QED
          BY <4>2, <5>2, <5>3
      <4>3. CASE i = m + 2
        <5>1. i # 1 /\ i - 1 = m + 1 /\ i - 1 \in 1..(m + 2) /\ i - 1 # m + 2
          BY <4>3
        <5>2. g[i] = f[m + 1] \o ss[i] /\ g[i - 1] = f[m + 1]
          BY <4>3, <5>1
        <5> QED
          BY <5>1, <5>2
      <4> QED
        BY <4>1, <4>2, <4>3
    <3>3. g = Body(g, m + 2)
      BY <3>2
    <3> QED
      BY <3>3 DEF Built
  <2>3. \E f : f = Body(f, n)
    <3> HIDE DEF Good, Body
    <3>1. \A m \in Nat : m \in Good
      BY <2>1, <2>2, FromZeroUp
    <3>2. n - 1 \in Nat /\ (n - 1) + 1 = n
      BY <1>3
    <3>3. n - 1 \in Good
      BY <3>1, <3>2
    <3> QED
      BY <3>2, <3>3 DEF Good, Built
  <2>4. PICK f : f = Body(f, n) /\ FlattenSeq(ss) = f[n]
    BY <1>1, <1>3, <2>3 DEF FlattenSeq
  <2> DEFINE Lists(k) == /\ f[k] \in Seq(S)
                         /\ Range(f[k]) = UNION {Range(ss[i]) : i \in 1..k}
                         /\ LeafFirst(T, f[k])
             Flat == {m \in Nat : m + 1 <= n => Lists(m + 1)}
  <2> HIDE DEF Lists
  <2>5. 0 \in Flat
    <3>1. f[1] = ss[1] /\ 1 \in 1..n /\ 1..1 = {1}
      BY <1>3, <2>4
    <3>2. Lists(1)
      BY <3>1 DEF Lists
    <3> QED
      BY <3>2
  <2>6. ASSUME NEW m \in Nat, m \in Flat PROVE m + 1 \in Flat
    <3> SUFFICES ASSUME m + 2 <= n PROVE Lists(m + 2)
      OBVIOUS
    <3>0. Lists(m + 1)
      BY <2>6
    <3>1. m + 2 \in 1..n /\ m + 1 \in 1..n /\ m + 2 # 1 /\ (m + 2) - 1 = m + 1
      OBVIOUS
    <3>2. f[m + 2] = f[m + 1] \o ss[m + 2]
      BY <2>4, <3>1
    <3>3. /\ f[m + 1] \in Seq(S)
          /\ Range(f[m + 1]) = UNION {Range(ss[i]) : i \in 1..(m + 1)}
          /\ LeafFirst(T, f[m + 1])
      BY <3>0 DEF Lists
    <3>4. ss[m + 2] \in Seq(S) /\ LeafFirst(T, ss[m + 2])
      BY <3>1
    <3>5. Apart(T, f[m + 1], ss[m + 2])
      <4>1. ASSUME NEW x \in Range(f[m + 1]), NEW y \in Range(ss[m + 2]) PROVE x # y /\ T[y] # x
        <5>1. PICK i \in 1..(m + 1) : x \in Range(ss[i])
          BY <3>3, <4>1
        <5>2. i \in 1..n /\ i < m + 2
          BY <3>1
        <5>3. Apart(T, ss[i], ss[m + 2])
          BY <3>1, <5>2
        <5> QED
          BY <5>1, <5>3, <4>1 DEF Apart
      <4> QED
        BY <4>1 DEF Apart
    <3>6. 1..(m + 2) = 1..(m + 1) \cup {m + 2}
      OBVIOUS
    <3>7. UNION {Range(ss[i]) : i \in 1..(m + 2)}
            = (UNION {Range(ss[i]) : i \in 1..(m + 1)}) \cup Range(ss[m + 2])
      BY <3>6
    <3>8. Range(f[m + 2]) = Range(f[m + 1]) \cup Range(ss[m + 2])
      BY <3>2, <3>3, <3>4, RangeOfConcat
    <3>9. f[m + 2] \in Seq(S)
      BY <3>2, <3>3, <3>4
    <3>10. LeafFirst(T, f[m + 2])
      BY <3>2, <3>3, <3>4, <3>5, ConcatLeafFirst
    <3> QED
      BY <3>3, <3>7, <3>8, <3>9, <3>10 DEF Lists
  <2>7. n - 1 \in Flat
    <3> HIDE DEF Flat
    <3>1. \A m \in Nat : m \in Flat
      BY <2>5, <2>6, FromZeroUp
    <3>2. n - 1 \in Nat
      BY <1>3
    <3> QED
      BY <3>1, <3>2
  <2>8. n - 1 \in Nat /\ (n - 1) + 1 = n
    BY <1>3
  <2>9. Lists(n)
    BY <2>7, <2>8
  <2> QED
    BY <2>4, <2>9 DEF Lists
<1> QED
  BY <1>2, <1>3

-----------------------------------------------------------------------------
(* Trees, as sets of processes.                                            *)

\* A set that has, with a process, its children.
Closed(T, S) == \A q \in Pids : T[q] \in S => q \in S

\* What is below a process, itself included.
Below(T, p) == {x \in Pids : \A S \in SUBSET Pids : p \in S /\ Closed(T, S) => x \in S}

\* Every process has a smaller number in r than its children.
Ranks(T, r) == \A q \in Pids : T[q] \in Pids /\ T[q] # q => r[T[q]] < r[q]

\* Parents of the processes, as a snapshot has them.
Tables == [Pids -> Pids \cup {None}]

\* Below is the least set of processes that has p and is closed.
LEMMA BelowLeast ==
    ASSUME NEW T, NEW p \in Pids
    PROVE  /\ Below(T, p) \subseteq Pids /\ p \in Below(T, p) /\ Closed(T, Below(T, p))
           /\ \A S \in SUBSET Pids : p \in S /\ Closed(T, S) => Below(T, p) \subseteq S
  BY DEF Below, Closed

\* The tree of a child is part of the tree.
LEMMA BelowKid ==
    ASSUME NEW T, NEW p \in Pids, NEW q \in Kids(T, p)
    PROVE  q \in Pids /\ Below(T, q) \subseteq Below(T, p)
<1>1. q \in Pids /\ T[q] = p
  BY DEF Kids
<1>2. q \in Below(T, p) /\ Closed(T, Below(T, p)) /\ Below(T, p) \in SUBSET Pids
  BY <1>1, BelowLeast DEF Closed
<1> QED
  BY <1>1, <1>2, BelowLeast

\* Whoever is below p has his parent there, except p.
LEMMA BelowParent ==
    ASSUME NEW T, NEW p \in Pids, NEW x \in Below(T, p)
    PROVE  x = p \/ T[x] \in Below(T, p)
<1> DEFINE S == {y \in Below(T, p) : y = p \/ T[y] \in Below(T, p)}
<1>1. S \in SUBSET Pids /\ p \in S /\ Closed(T, S)
  BY BelowLeast DEF Closed
<1> QED
  BY <1>1, BelowLeast

\* The tree of a process is the process and the trees of its children.
LEMMA BelowIsKidsBelow ==
    ASSUME NEW T, NEW p \in Pids
    PROVE  Below(T, p) = {p} \cup UNION {Below(T, q) : q \in Kids(T, p)}
<1> DEFINE S == {p} \cup UNION {Below(T, q) : q \in Kids(T, p)}
<1>1. S \subseteq Below(T, p)
  BY BelowLeast, BelowKid
<1>2. Closed(T, S)
  <2> SUFFICES ASSUME NEW x \in Pids, T[x] \in S PROVE x \in S
    BY DEF Closed
  <2>1. CASE T[x] = p
    <3>1. x = p \/ x \in Kids(T, p)
      BY <2>1 DEF Kids
    <3> QED
      BY <3>1, BelowLeast DEF Kids
  <2>2. CASE T[x] # p
    <3>1. PICK q \in Kids(T, p) : T[x] \in Below(T, q)
      BY <2>2
    <3>2. x \in Below(T, q)
      BY <3>1, BelowKid, BelowLeast DEF Closed
    <3> QED
      BY <3>2
  <2> QED
    BY <2>1, <2>2
<1>3. S \in SUBSET Pids
  BY <1>1, BelowLeast
<1> QED
  BY <1>1, <1>2, <1>3, BelowLeast

\* Whoever is below p has a higher rank.
LEMMA BelowRank ==
    ASSUME NEW T \in Tables, NEW r \in [Pids -> Nat], Ranks(T, r), NEW p \in Pids,
           NEW x \in Below(T, p)
    PROVE  x = p \/ r[p] < r[x]
<1> DEFINE S == {y \in Pids : y = p \/ r[p] < r[y]}
<1>1. ASSUME NEW y \in Pids, T[y] \in S PROVE y \in S
  <2>1. CASE T[y] = y
    BY <1>1, <2>1
  <2>2. CASE T[y] # y
    <3>1. r[T[y]] < r[y] /\ r[p] \in Nat /\ r[y] \in Nat /\ r[T[y]] \in Nat
      BY <1>1, <2>2 DEF Ranks
    <3>2. T[y] = p \/ r[p] < r[T[y]]
      BY <1>1
    <3> QED
      BY <3>1, <3>2
  <2> QED
    BY <2>1, <2>2
<1>2. S \in SUBSET Pids /\ p \in S /\ Closed(T, S)
  BY <1>1 DEF Closed
<1> QED
  BY <1>2, BelowLeast

\* The child of a process does not have that process below it.
LEMMA ParentNotBelow ==
    ASSUME NEW T \in Tables, NEW r \in [Pids -> Nat], Ranks(T, r), NEW p \in Pids,
           NEW q \in Kids(T, p)
    PROVE  p \notin Below(T, q)
<1>1. q \in Pids /\ q # p /\ T[q] = p
  BY DEF Kids
<1>2. r[p] < r[q] /\ r[p] \in Nat /\ r[q] \in Nat
  BY <1>1 DEF Ranks
<1>3. ~(r[q] < r[p])
  BY <1>2
<1> QED
  BY <1>1, <1>3, BelowRank

\* Siblings have nothing in common.
LEMMA SiblingsApart ==
    ASSUME NEW T \in Tables, NEW r \in [Pids -> Nat], Ranks(T, r), NEW p \in Pids,
           NEW q1 \in Kids(T, p), NEW q2 \in Kids(T, p), q1 # q2
    PROVE  Below(T, q1) \cap Below(T, q2) = {}
<1> DEFINE S == {x \in Below(T, q1) : x \notin Below(T, q2)}
<1>1. q1 \in Pids /\ q2 \in Pids /\ T[q1] = p /\ T[q2] = p
  BY DEF Kids
<1>2. p \notin Below(T, q1) /\ p \notin Below(T, q2)
  BY ParentNotBelow
<1>3. q1 \in S
  BY <1>1, <1>2, BelowParent, BelowLeast
<1>4. ASSUME NEW x \in Pids, T[x] \in S PROVE x \in S
  <2>1. x \in Below(T, q1)
    BY <1>1, <1>4, BelowLeast DEF Closed
  <2>2. x # q2
    BY <1>1, <1>2, <1>4
  <2>3. x \notin Below(T, q2)
    BY <1>1, <1>4, <2>2, BelowParent
  <2> QED
    BY <2>1, <2>3
<1>5. S \in SUBSET Pids /\ Closed(T, S)
  BY <1>1, <1>4, BelowLeast DEF Closed
<1>6. Below(T, q1) \subseteq S
  BY <1>1, <1>3, <1>5, BelowLeast
<1> QED
  BY <1>6

-----------------------------------------------------------------------------
(* What the traversal returns.                                             *)

\* What the list of one process is like when its tree is followed to depth d:
\* nobody from outside the tree, in order, and with everybody in it unless
\* somebody lives deeper.
ListsTree(T, p, s) ==
    /\ s \in Seq(Pids)
    /\ p \in Range(s) /\ Range(s) \subseteq Below(T, p)
    /\ LeafFirst(T, s)

\* Nobody below p ranks more than d above it.
Deep(T, r, p, d) == \A q \in Below(T, p) : r[q] <= r[p] + d

\* The list has the whole tree.
Whole(T, p, s) == Below(T, p) \subseteq Range(s)

\* The root goes to the end of the lists of its children.
LEMMA AppendRoot ==
    ASSUME NEW T \in Tables, NEW p \in Pids, NEW s \in Seq(Pids),
           LeafFirst(T, s), p \notin Range(s), T[p] \notin Range(s)
    PROVE  /\ s \o <<p>> \in Seq(Pids)
           /\ Range(s \o <<p>>) = Range(s) \cup {p}
           /\ LeafFirst(T, s \o <<p>>)
<1>1. <<p>> \in Seq(Pids) /\ DOMAIN <<p>> = {1} /\ <<p>>[1] = p
  OBVIOUS
<1>2. Range(<<p>>) = {p} /\ LeafFirst(T, <<p>>)
  BY <1>1 DEF Range, LeafFirst
<1>3. Apart(T, s, <<p>>)
  BY <1>2 DEF Apart
<1>4. Range(s \o <<p>>) = Range(s) \cup {p}
  <2> DEFINE e == <<p>>
  <2>1. e \in Seq(Pids) /\ Range(e) = {p}
    BY <1>1, <1>2
  <2> HIDE DEF e
  <2>2. Range(s \o e) = Range(s) \cup Range(e)
    BY <2>1, RangeOfConcat
  <2> QED
    BY <2>1, <2>2 DEF e
<1>5. LeafFirst(T, s \o <<p>>)
  BY <1>1, <1>2, <1>3, ConcatLeafFirst
<1>6. s \o <<p>> \in Seq(Pids)
  BY <1>1
<1> QED
  BY <1>4, <1>5, <1>6

\* One level more.
LEMMA LevelLists ==
    ASSUME NEW T \in Tables, NEW r \in [Pids -> Nat], Ranks(T, r),
           NEW d \in Nat, NEW w, \A p \in Pids : ListsTree(T, p, w[p]),
           NEW p \in Pids
    PROVE  /\ ListsTree(T, p, Level(T, w)[p])
           /\ (\A q \in Kids(T, p) : Whole(T, q, w[q])) => Whole(T, p, Level(T, w)[p])
<1> DEFINE K == Kids(T, p)
           n == Cardinality(K)
           kids == InOrder(K)
           ss == [i \in DOMAIN kids |-> w[kids[i]]]
           flat == FlattenSeq(ss)
<1>1. K \subseteq Nat /\ K \subseteq Pids /\ IsFiniteSet(K) /\ n \in Nat
  <2>1. K \subseteq Pids
    BY DEF Kids
  <2> QED
    BY <2>1, ActionsConstants, FS_Subset, FS_CardinalityType
<1>2. /\ kids \in [1..n -> K]
      /\ \A i, j \in 1..n : i # j => kids[i] # kids[j]
      /\ \A k \in K : \E i \in 1..n : kids[i] = k
  BY <1>1, InOrderLists
<1>3. Level(T, w)[p] = flat \o <<p>>
  BY DEF Level
<1> HIDE DEF kids, n, K
<1>4. /\ ss \in [1..n -> Seq(Pids)]
      /\ \A i \in 1..n : ss[i] = w[kids[i]] /\ kids[i] \in K /\ kids[i] \in Pids
  BY <1>1, <1>2 DEF ListsTree
<1> HIDE DEF ss
<1>5. \A i \in 1..n : LeafFirst(T, ss[i]) /\ Range(ss[i]) \subseteq Below(T, kids[i])
  BY <1>4 DEF ListsTree
<1>6. ASSUME NEW i \in 1..n, NEW j \in 1..n, i < j PROVE Apart(T, ss[i], ss[j])
  <2> SUFFICES ASSUME NEW x \in Range(ss[i]), NEW y \in Range(ss[j])
               PROVE  x # y /\ T[y] # x
    BY DEF Apart
  <2>1. x \in Below(T, kids[i]) /\ y \in Below(T, kids[j])
    BY <1>5
  <2>2. kids[i] # kids[j]
    BY <1>1, <1>2, <1>6
  <2>3. Below(T, kids[i]) \cap Below(T, kids[j]) = {}
    BY <1>4, <2>2, SiblingsApart DEF K
  <2>4. y \in Pids
    BY <1>4, <2>1, BelowLeast
  <2>5. T[y] = x => y \in Below(T, kids[i])
    BY <1>4, <2>1, <2>4, BelowLeast DEF Closed
  <2> QED
    BY <2>1, <2>3, <2>5
<1>7. /\ flat \in Seq(Pids)
      /\ Range(flat) = UNION {Range(ss[i]) : i \in 1..n}
      /\ LeafFirst(T, flat)
  BY <1>1, <1>4, <1>5, <1>6, FlattenLists
<1> HIDE DEF flat
<1>8. ASSUME NEW x \in Range(flat)
      PROVE  x \in Below(T, p) /\ x # p /\ T[p] # x
  <2>1. PICK i \in 1..n : x \in Below(T, kids[i])
    BY <1>5, <1>7
  <2>2. kids[i] \in Kids(T, p)
    BY <1>4 DEF K
  <2>3. p \notin Below(T, kids[i])
    BY <2>2, ParentNotBelow
  <2>4. x # p /\ T[p] # x
    BY <1>4, <2>1, <2>3, BelowLeast DEF Closed
  <2> QED
    BY <2>1, <2>2, <2>4, BelowKid
<1>9. /\ flat \o <<p>> \in Seq(Pids)
      /\ Range(flat \o <<p>>) = Range(flat) \cup {p}
      /\ LeafFirst(T, flat \o <<p>>)
  BY <1>7, <1>8, AppendRoot
<1>10. ListsTree(T, p, Level(T, w)[p])
  BY <1>3, <1>8, <1>9, BelowLeast DEF ListsTree
<1>11. ASSUME \A q \in Kids(T, p) : Whole(T, q, w[q]), NEW x \in Below(T, p)
       PROVE  x \in Range(Level(T, w)[p])
  <2>1. CASE x = p
    BY <2>1, <1>3, <1>9
  <2>2. CASE x # p
    <3>1. PICK q \in Kids(T, p) : x \in Below(T, q)
      BY <1>11, <2>2, BelowIsKidsBelow
    <3>2. PICK i \in 1..n : kids[i] = q
      BY <1>2 DEF K
    <3>3. x \in Range(ss[i])
      BY <3>1, <3>2, <1>4, <1>11 DEF Whole
    <3> QED
      BY <3>3, <1>3, <1>7, <1>9
  <2> QED
    BY <2>1, <2>2
<1> QED
  BY <1>10, <1>11 DEF Whole

\* The recursion of TreePIDs has a solution, which is the one it means.
LEMMA Walks ==
    ASSUME NEW T
    PROVE  \E w : /\ w = [d \in 0..MaxTreeDepth |->
                            IF d = 0 THEN [p \in Pids |-> <<p>>] ELSE Level(T, w[d - 1])]
                  /\ \A root : TreePIDs(T, root) = w[MaxTreeDepth][root]
<1> DEFINE Body(f, k) == [d \in 0..k |-> IF d = 0 THEN [p \in Pids |-> <<p>>]
                                                  ELSE Level(T, f[d - 1])]
           Built(k) == \E f : f = Body(f, k)
           Good == {k \in Nat : Built(k)}
<1>1. Built(0)
  <2> DEFINE f == [d \in 0..0 |-> [p \in Pids |-> <<p>>]]
  <2>1. f = Body(f, 0)
    OBVIOUS
  <2> QED
    BY <2>1
<1>2. ASSUME NEW k \in Nat, Built(k) PROVE Built(k + 1)
  <2>1. PICK f : f = Body(f, k)
    BY <1>2
  <2> DEFINE g == [d \in 0..(k + 1) |-> IF d = k + 1 THEN Level(T, f[k]) ELSE f[d]]
  <2>2. ASSUME NEW d \in 0..(k + 1)
        PROVE  g[d] = IF d = 0 THEN [p \in Pids |-> <<p>>] ELSE Level(T, g[d - 1])
    <3>1. CASE d = 0
      <4>1. d # k + 1 /\ d \in 0..k
        BY <3>1
      <4>2. g[d] = f[d] /\ f[d] = [p \in Pids |-> <<p>>]
        BY <2>1, <3>1, <4>1
      <4> QED
        BY <3>1, <4>2
    <3>2. CASE d # 0 /\ d # k + 1
      <4>1. d \in 0..k /\ d - 1 \in 0..k /\ d - 1 # k + 1 /\ d - 1 \in 0..(k + 1)
        BY <3>2
      <4>2. g[d] = f[d] /\ g[d - 1] = f[d - 1]
        BY <3>2, <4>1
      <4>3. f[d] = Level(T, f[d - 1])
        BY <2>1, <3>2, <4>1
      <4> QED
        BY <3>2, <4>2, <4>3
    <3>3. CASE d = k + 1
      <4>1. d # 0 /\ d - 1 = k /\ d - 1 \in 0..(k + 1) /\ d - 1 # k + 1
        BY <3>3
      <4>2. g[d] = Level(T, f[k]) /\ g[d - 1] = f[k]
        BY <3>3, <4>1
      <4> QED
        BY <4>1, <4>2
    <3> QED
      BY <3>1, <3>2, <3>3
  <2>3. g = Body(g, k + 1)
    BY <2>2
  <2> QED
    BY <2>3
<1>3. Built(MaxTreeDepth)
  <2> HIDE DEF Built
  <2>1. 0 \in Good /\ \A k \in Nat : k \in Good => k + 1 \in Good
    BY <1>1, <1>2
  <2> HIDE DEF Good
  <2>2. \A k \in Nat : k \in Good
    BY <2>1, FromZeroUp
  <2> QED
    BY <2>2, ActionsConstants DEF Good
<1> DEFINE w == CHOOSE f : f = Body(f, MaxTreeDepth)
<1>4. w = Body(w, MaxTreeDepth)
  BY <1>3
<1>5. \A root : TreePIDs(T, root) = w[MaxTreeDepth][root]
  BY DEF TreePIDs
<1> HIDE DEF w
<1> QED
  BY <1>4, <1>5

\* The list of a tree has every member of it once, and before its parent;
\* MaxTreeDepth generations of it.
LEMMA TreeIsListed ==
    ASSUME NEW T \in Tables, NEW r \in [Pids -> Nat], Ranks(T, r), NEW root \in Pids
    PROVE  /\ TreePIDs(T, root) \in Seq(Pids)
           /\ root \in Range(TreePIDs(T, root)) /\ Range(TreePIDs(T, root)) \subseteq Below(T, root)
           /\ LeafFirst(T, TreePIDs(T, root))
           /\ Deep(T, r, root, MaxTreeDepth) => Whole(T, root, TreePIDs(T, root))
<1>1. PICK w : /\ w = [d \in 0..MaxTreeDepth |->
                         IF d = 0 THEN [p \in Pids |-> <<p>>] ELSE Level(T, w[d - 1])]
               /\ TreePIDs(T, root) = w[MaxTreeDepth][root]
  BY Walks
<1> DEFINE Right(d) == \A p \in Pids : /\ ListsTree(T, p, w[d][p])
                                       /\ Deep(T, r, p, d) => Whole(T, p, w[d][p])
           Good == {d \in Nat : d <= MaxTreeDepth => Right(d)}
<1>2. MaxTreeDepth \in Nat
  BY ActionsConstants
<1>3. Right(0)
  <2> SUFFICES ASSUME NEW p \in Pids
               PROVE  /\ ListsTree(T, p, w[0][p])
                      /\ Deep(T, r, p, 0) => Whole(T, p, w[0][p])
    OBVIOUS
  <2>1. 0 \in 0..MaxTreeDepth
    BY <1>2
  <2>2. w[0][p] = <<p>>
    BY <1>1, <2>1
  <2>3. <<p>> \in Seq(Pids) /\ DOMAIN <<p>> = {1} /\ <<p>>[1] = p
    OBVIOUS
  <2>4. ListsTree(T, p, <<p>>) /\ Range(<<p>>) = {p}
    BY <2>3, BelowLeast DEF ListsTree, LeafFirst, Range
  <2>5. ASSUME Deep(T, r, p, 0) PROVE Kids(T, p) = {}
    <3> SUFFICES ASSUME NEW q \in Kids(T, p) PROVE FALSE
      OBVIOUS
    <3>1. q \in Below(T, p)
      BY BelowKid, BelowLeast
    <3>2. q \in Pids /\ r[p] < r[q] /\ r[q] <= r[p] + 0 /\ r[p] \in Nat /\ r[q] \in Nat
      BY <2>5, <3>1 DEF Kids, Ranks, Deep
    <3> QED
      BY <3>2
  <2>6. Deep(T, r, p, 0) => Below(T, p) = {p}
    BY <2>5, BelowIsKidsBelow
  <2> QED
    BY <2>2, <2>4, <2>6 DEF Whole
<1>4. ASSUME NEW d \in Nat, d + 1 <= MaxTreeDepth, Right(d) PROVE Right(d + 1)
  <2> SUFFICES ASSUME NEW p \in Pids
               PROVE  /\ ListsTree(T, p, w[d + 1][p])
                      /\ Deep(T, r, p, d + 1) => Whole(T, p, w[d + 1][p])
    OBVIOUS
  <2>1. d + 1 \in 0..MaxTreeDepth /\ d + 1 # 0 /\ (d + 1) - 1 = d
    BY <1>2, <1>4
  <2>2. w[d + 1] = Level(T, w[d])
    BY <1>1, <2>1
  <2>3. ASSUME Deep(T, r, p, d + 1), NEW q \in Kids(T, p) PROVE Deep(T, r, q, d)
    <3>1. q \in Pids /\ r[p] < r[q] /\ r[p] \in Nat /\ r[q] \in Nat
      BY DEF Kids, Ranks
    <3>2. ASSUME NEW x \in Below(T, q) PROVE r[x] <= r[q] + d
      <4>1. x \in Below(T, p) /\ x \in Pids
        BY <3>1, BelowKid, BelowLeast
      <4>2. r[x] \in Nat /\ r[x] <= r[p] + (d + 1)
        BY <2>3, <4>1 DEF Deep
      <4> QED
        BY <3>1, <4>2
    <3> QED
      BY <3>2 DEF Deep
  <2>4. \A q \in Kids(T, p) : Right(d) /\ Deep(T, r, q, d) => Whole(T, q, w[d][q])
    BY DEF Kids
  <2>5. \A q \in Pids : ListsTree(T, q, w[d][q])
    BY <1>4
  <2> HIDE DEF Right
  <2> QED
    BY <1>4, <2>2, <2>3, <2>4, <2>5, LevelLists
<1>5. Right(MaxTreeDepth)
  <2> HIDE DEF Right
  <2>1. ASSUME NEW d \in Nat, d \in Good PROVE d + 1 \in Good
    BY <1>2, <1>4, <2>1
  <2>2. 0 \in Good
    BY <1>3
  <2> HIDE DEF Good
  <2>3. \A d \in Nat : d \in Good
    BY <2>1, <2>2, FromZeroUp
  <2> QED
    BY <1>2, <2>3 DEF Good
<1> QED
  BY <1>1, <1>5 DEF ListsTree

-----------------------------------------------------------------------------
(* The table of the host stays a tree below PID 1.                         *)

\* The processes of the host: PID 1 runs and has no parent above it, whoever
\* has a number has a running parent, and nobody descends from himself.
HostIsTree ==
    /\ ppid \in Tables /\ state \in [Pids -> {"none", "running", "zombie"}]
    /\ ppid[Launchd] = Launchd /\ state[Launchd] = "running"
    /\ \A p \in Pids : ppid[p] # None <=> state[p] # "none"
    /\ \A p \in Pids : ppid[p] # None => state[ppid[p]] = "running"
    /\ \E r \in [Pids -> Nat] : /\ Ranks(ppid, r)
                                /\ \A p \in Pids \ {Launchd} : r[Launchd] < r[p]

\* The same of a snapshot, which may be older, or have failed.
Forest(T) == /\ T \in Tables
             /\ \A p \in Pids : T[p] # None => T[T[p]] # None
             /\ \E r \in [Pids -> Nat] : Ranks(T, r)

LEMMA PidFacts == /\ Launchd \in Pids /\ None \notin Pids /\ Launchd # None /\ Pids \subseteq Nat
  BY ActionsConstants DEF None, Launchd

\* What a new snapshot finds is a forest.
LEMMA HostForest == HostIsTree => Forest(ppid)
<1> SUFFICES ASSUME HostIsTree PROVE Forest(ppid)
  OBVIOUS
<1>1. ASSUME NEW p \in Pids, ppid[p] # None PROVE ppid[ppid[p]] # None
  <2>1. ppid[p] \in Pids /\ state[ppid[p]] = "running"
    BY <1>1 DEF HostIsTree, Tables
  <2> QED
    BY <2>1 DEF HostIsTree
<1>2. \E r \in [Pids -> Nat] : Ranks(ppid, r)
  BY DEF HostIsTree
<1> QED
  BY <1>1, <1>2 DEF Forest, HostIsTree

LEMMA NothingForest == Forest([p \in Pids |-> None])
<1> DEFINE T == [p \in Pids |-> None]
           r == [p \in Pids |-> 0]
<1>1. T \in Tables /\ r \in [Pids -> Nat]
  BY DEF Tables
<1>2. Ranks(T, r)
  BY PidFacts DEF Ranks
<1> QED
  BY <1>1, <1>2 DEF Forest

\* The host is a tree at the start, while processes exit, are reaped and fork.
LEMMA HostInit == Init => HostIsTree
<1> SUFFICES ASSUME Init PROVE HostIsTree
  OBVIOUS
<1>1. PICK tree \in Trees :
        /\ ppid = tree
        /\ state = [p \in Pids |-> IF tree[p] = None THEN "none" ELSE "running"]
  BY DEF Init
<1>2. tree \in Tables
  BY <1>1, ActionsConstants DEF Tables
<1>3. /\ tree[Launchd] = Launchd
      /\ \A p \in Pids : tree[p] # None => tree[tree[p]] # None
  BY TreesOfProcesses DEF ProcessTree
<1>4. PICK depth \in [Pids -> 0..Cardinality(Pids)] :
         \A p \in Pids : tree[p] \notin {None, p} => depth[tree[p]] < depth[p]
  BY TreesOfProcesses DEF ProcessTree
<1> DEFINE r == [p \in Pids |-> IF p = Launchd THEN 0 ELSE depth[p] + 1]
<1>5. \A p \in Pids : depth[p] \in Nat
  BY <1>4, FS_CardinalityType, ActionsConstants
<1>6. r \in [Pids -> Nat] /\ \A p \in Pids \ {Launchd} : r[Launchd] < r[p]
  BY <1>5, PidFacts
<1>7. Ranks(tree, r)
  <2> SUFFICES ASSUME NEW q \in Pids, tree[q] \in Pids, tree[q] # q PROVE r[tree[q]] < r[q]
    BY DEF Ranks
  <2>1. q # Launchd
    BY <1>3
  <2>2. depth[tree[q]] < depth[q] /\ depth[tree[q]] \in Nat /\ depth[q] \in Nat
    BY <1>4, <1>5, PidFacts
  <2> QED
    BY <2>1, <2>2
<1>8. \A p \in Pids : /\ ppid[p] # None <=> state[p] # "none"
                     /\ ppid[p] # None => state[ppid[p]] = "running"
  BY <1>1, <1>2, <1>3 DEF Tables
<1>9. state \in [Pids -> {"none", "running", "zombie"}] /\ state[Launchd] = "running"
  BY <1>1, <1>3, PidFacts
<1> HIDE DEF r
<1> QED
  BY <1>1, <1>2, <1>3, <1>6, <1>7, <1>8, <1>9 DEF HostIsTree

LEMMA HostExit ==
    ASSUME HostIsTree, NEW p \in Pids, Exit(p)
    PROVE  HostIsTree'
<1>1. /\ p # Launchd /\ state[p] = "running"
      /\ state' = [state EXCEPT ![p] = "zombie"]
      /\ ppid' = [q \in Pids |-> IF ppid[q] = p THEN Launchd ELSE ppid[q]]
  BY DEF Exit
<1> USE DEF HostIsTree, Tables
<1>2. PICK r \in [Pids -> Nat] : Ranks(ppid, r) /\ \A q \in Pids \ {Launchd} : r[Launchd] < r[q]
  OBVIOUS
<1>3. Ranks(ppid', r)
  BY <1>1, <1>2, PidFacts DEF Ranks
<1>4. ppid' \in Tables /\ ppid'[Launchd] = Launchd
  BY <1>1, PidFacts
<1>5. state' \in [Pids -> {"none", "running", "zombie"}] /\ state'[Launchd] = "running"
  BY <1>1, PidFacts
<1>6. ASSUME NEW q \in Pids
      PROVE  /\ ppid'[q] # None <=> state'[q] # "none"
             /\ ppid'[q] # None => state'[ppid'[q]] = "running"
  BY <1>1, PidFacts
<1> QED
  BY <1>2, <1>3, <1>4, <1>5, <1>6

LEMMA HostReap ==
    ASSUME HostIsTree, NEW p \in Pids, Reap(p)
    PROVE  HostIsTree'
<1>1. /\ state[p] = "zombie" /\ state' = [state EXCEPT ![p] = "none"]
      /\ ppid' = [ppid EXCEPT ![p] = None]
  BY DEF Reap
<1> USE DEF HostIsTree, Tables
<1>2. PICK r \in [Pids -> Nat] : Ranks(ppid, r) /\ \A q \in Pids \ {Launchd} : r[Launchd] < r[q]
  OBVIOUS
<1>3. Ranks(ppid', r)
  BY <1>1, <1>2, PidFacts DEF Ranks
<1>4. ppid' \in Tables /\ ppid'[Launchd] = Launchd
  BY <1>1, PidFacts
<1>5. state' \in [Pids -> {"none", "running", "zombie"}] /\ state'[Launchd] = "running"
  BY <1>1, PidFacts
<1>6. ASSUME NEW q \in Pids
      PROVE  /\ ppid'[q] # None <=> state'[q] # "none"
             /\ ppid'[q] # None => state'[ppid'[q]] = "running"
  BY <1>1, PidFacts
<1> QED
  BY <1>2, <1>3, <1>4, <1>5, <1>6

LEMMA HostFork ==
    ASSUME HostIsTree, NEW p \in Pids, NEW q \in Pids, Fork(p, q)
    PROVE  HostIsTree'
<1>1. /\ state[p] = "running" /\ state[q] = "none" /\ q # Launchd /\ p # q
      /\ state' = [state EXCEPT ![q] = "running"]
      /\ ppid' = [ppid EXCEPT ![q] = p]
  BY DEF Fork, HostIsTree
<1> USE DEF HostIsTree, Tables
<1>2. PICK r \in [Pids -> Nat] : Ranks(ppid, r) /\ \A x \in Pids \ {Launchd} : r[Launchd] < r[x]
  OBVIOUS
<1> DEFINE s == [r EXCEPT ![q] = r[p] + 1]
<1>3. ASSUME NEW x \in Pids PROVE ppid[x] # q
  BY <1>1, PidFacts
<1>4. Ranks(ppid', s)
  <2> SUFFICES ASSUME NEW x \in Pids, ppid'[x] \in Pids, ppid'[x] # x PROVE s[ppid'[x]] < s[x]
    BY DEF Ranks
  <2>1. CASE x = q
    BY <1>1, <1>2, <2>1
  <2>2. CASE x # q
    <3>1. ppid'[x] = ppid[x] /\ ppid[x] # q
      BY <1>1, <1>3, <2>2
    <3> QED
      BY <1>2, <2>2, <3>1 DEF Ranks
  <2> QED
    BY <2>1, <2>2
<1>5. s \in [Pids -> Nat] /\ \A x \in Pids \ {Launchd} : s[Launchd] < s[x]
  <2>1. r[Launchd] \in Nat /\ r[p] \in Nat /\ r[Launchd] < r[p] + 1
    BY <1>2, PidFacts
  <2> QED
    BY <1>1, <1>2, <2>1, PidFacts
<1>6. ppid' \in Tables /\ ppid'[Launchd] = Launchd
  BY <1>1, PidFacts
<1>7. state' \in [Pids -> {"none", "running", "zombie"}] /\ state'[Launchd] = "running"
  BY <1>1, PidFacts
<1>8. ASSUME NEW x \in Pids
      PROVE  /\ ppid'[x] # None <=> state'[x] # "none"
             /\ ppid'[x] # None => state'[ppid'[x]] = "running"
  BY <1>1, PidFacts
<1> HIDE DEF s
<1> QED
  BY <1>4, <1>5, <1>6, <1>7, <1>8

-----------------------------------------------------------------------------
(* The loop of TerminateTree.                                              *)

\* Nobody of the owner's tree lives more than MaxTreeDepth generations below
\* the owner.
Shallow == \E depth \in [Pids -> Nat] :
             /\ Ranks(table, depth)
             /\ \A p \in Members : depth[p] <= depth[owner] + MaxTreeDepth

\* Those of a list that may be signalled.
Open(s) == {p \in Range(s) : ~Protected(p)}

\* What was tried and what is still to be tried, before, in and after the loop.
LoopInv ==
    /\ LeafFirst(table, tried)
    /\ pc \in {"lookup", "ask", "askContainer", "container", "terminate"} => tried = <<>>
    /\ pc = "signal" => LeafFirst(table, todo) /\ Apart(table, tried, todo)
    /\ pc \in {"signal", "probe", "wait", "sleep"} =>
         /\ Open(tried) = Range(tried)
         /\ Range(tried) \cup Range(todo) \subseteq Members
         /\ Shallow => \A p \in Members : p \in Range(tried) \cup Range(todo) \/ Protected(p)
    /\ pc \in {"probe", "wait", "sleep"} => todo = <<>>

TreeInv == TypeOK /\ HostIsTree /\ Forest(table) /\ LoopInv

LEMMA MembersAreBelow == Members = Below(table, owner)
  BY DEF Members, Below, Closed

\* What treePIDs returns, with the process in the snapshot or without.
LEMMA TreeOfLists ==
    ASSUME NEW T, Forest(T), NEW root \in Pids
    PROVE  /\ TreeOf(T, root) \in Seq(Pids)
           /\ root \in Range(TreeOf(T, root)) /\ Range(TreeOf(T, root)) \subseteq Below(T, root)
           /\ LeafFirst(T, TreeOf(T, root))
           /\ \A r \in [Pids -> Nat] :
                Ranks(T, r) /\ Deep(T, r, root, MaxTreeDepth) => Whole(T, root, TreeOf(T, root))
<1>1. CASE T[root] # None
  <2>1. TreeOf(T, root) = TreePIDs(T, root) /\ T \in Tables
    BY <1>1 DEF TreeOf, Forest
  <2>2. PICK r \in [Pids -> Nat] : Ranks(T, r)
    BY DEF Forest
  <2>3. /\ TreePIDs(T, root) \in Seq(Pids)
        /\ root \in Range(TreePIDs(T, root)) /\ Range(TreePIDs(T, root)) \subseteq Below(T, root)
        /\ LeafFirst(T, TreePIDs(T, root))
    BY <2>1, <2>2, TreeIsListed
  <2>4. ASSUME NEW q \in [Pids -> Nat], Ranks(T, q), Deep(T, q, root, MaxTreeDepth)
        PROVE  Whole(T, root, TreePIDs(T, root))
    BY <2>1, <2>4, TreeIsListed
  <2> QED
    BY <2>1, <2>3, <2>4
<1>2. CASE T[root] = None
  <2>1. TreeOf(T, root) = <<root>>
    BY <1>2 DEF TreeOf
  <2>2. <<root>> \in Seq(Pids) /\ DOMAIN <<root>> = {1} /\ <<root>>[1] = root
    OBVIOUS
  <2>3. Range(<<root>>) = {root} /\ LeafFirst(T, <<root>>)
    BY <2>2 DEF Range, LeafFirst
  <2>4. Kids(T, root) = {}
    <3> SUFFICES ASSUME NEW q \in Kids(T, root) PROVE FALSE
      OBVIOUS
    <3>1. q \in Pids /\ T[q] = root /\ T[q] # None
      BY PidFacts DEF Kids
    <3>2. T[T[q]] # None
      BY <3>1 DEF Forest
    <3> QED
      BY <3>1, <3>2, <1>2
  <2>5. Below(T, root) = {root}
    BY <2>4, BelowIsKidsBelow
  <2> QED
    BY <2>1, <2>2, <2>3, <2>5 DEF Whole
<1> QED
  BY <1>1, <1>2

LEMMA TreeInit == Init => TreeInv
<1> SUFFICES ASSUME Init PROVE TreeInv
  OBVIOUS
<1>1. PICK tree \in Trees :
        /\ ppid = tree
        /\ state = [p \in Pids |-> IF tree[p] = None THEN "none" ELSE "running"]
  BY DEF Init
<1>2. ppid \in [Pids -> Pids \cup {None}] /\ state \in [Pids -> {"none", "running", "zombie"}]
  BY <1>1, ActionsConstants
<1>3. owner \in Owners /\ launch \in Pids \cup {None}
  BY ActionsConstants DEF Init, Launchers, Above, None
<1>4. TypeOK
  <2>1. gen \in [Pids -> Nat] /\ table \in [Pids -> Pids \cup {None}]
    BY DEF Init
  <2>2. todo \in Seq(Pids) /\ tried \in Seq(Pids) /\ signaled \subseteq [pid : Pids, gen : Nat]
    BY DEF Init
  <2>3. /\ forks \in Nat /\ exits \in Nat /\ op \in Ops /\ consent \in Consents \cup {"bypass"}
        /\ container \in {"none", "attached", "unattached"} /\ pc = "lookup"
        /\ fresh = FALSE /\ firstErr = "none" /\ stopped = FALSE /\ asked = FALSE
        /\ launched = FALSE /\ argv = "none" /\ res = "pending"
    BY DEF Init
  <2> QED
    BY <1>2, <1>3, <2>1, <2>2, <2>3 DEF TypeOK
<1>5. Forest(table)
  BY NothingForest DEF Init
<1>6. LoopInv
  BY DEF Init, LoopInv, LeafFirst
<1> QED
  BY <1>4, <1>5, <1>6, HostInit DEF TreeInv

\* The table stays a forest, cached, new or failed.
LEMMA SnapshotForest ==
    ASSUME HostIsTree, Forest(table), Snapshot
    PROVE  Forest(table')
<1>1. CASE table' = table
  BY <1>1
<1>2. CASE table' = ppid
  BY <1>2, HostForest
<1>3. CASE table' = [p \in Pids |-> None]
  BY <1>3, NothingForest
<1> QED
  BY <1>1, <1>2, <1>3 DEF Snapshot

\* The steps that leave the loop alone.
LEMMA LoopStays ==
    ASSUME LoopInv, UNCHANGED <<table, tried, todo, owner>>,
           \/ pc' = pc
           \/ pc' \in {"lookup", "ask", "askContainer", "container", "terminate"}
              /\ pc \in {"lookup", "ask", "askContainer", "container", "terminate"}
           \/ pc' \in {"probe", "wait", "sleep"} /\ pc \in {"probe", "wait", "sleep"}
           \/ pc' \in {"release", "start", "returned"}
           \/ pc = "signal" /\ todo = <<>> /\ pc' \in {"probe", "wait"}
    PROVE  LoopInv'
<1>1. /\ LeafFirst(table, tried)'
      /\ LeafFirst(table, todo)' = LeafFirst(table, todo)
      /\ Apart(table, tried, todo)' = Apart(table, tried, todo)
  BY DEF LoopInv, LeafFirst, Apart, Range
<1>2. Members' = Members /\ Shallow' = Shallow
  BY DEF Members, Shallow, Ranks
<1>3. Open(tried)' = Open(tried) /\ Range(tried)' = Range(tried) /\ Range(todo)' = Range(todo)
  BY DEF Open, Range, Protected
<1> QED
  BY <1>1, <1>2, <1>3 DEF LoopInv

-----------------------------------------------------------------------------
(* Types.                                                                  *)

\* The host keeps the types of what is its own, and touches nothing else.
LEMMA HostType ==
    ASSUME TypeOK, Host
    PROVE  /\ state' \in [Pids -> {"none", "running", "zombie"}]
           /\ ppid' \in [Pids -> Pids \cup {None}] /\ gen' \in [Pids -> Nat]
           /\ forks' \in Nat /\ exits' \in Nat /\ fresh' \in BOOLEAN
           /\ UNCHANGED <<request, pc, table, todo, firstErr, effects, asked, res>>
<1>1. ASSUME NEW p \in Pids, Reap(p)
      PROVE  /\ state' \in [Pids -> {"none", "running", "zombie"}]
             /\ ppid' \in [Pids -> Pids \cup {None}] /\ gen' \in [Pids -> Nat]
             /\ forks' \in Nat /\ exits' \in Nat /\ fresh' \in BOOLEAN
             /\ UNCHANGED <<request, pc, table, todo, firstErr, effects, asked, res>>
  BY <1>1, PidFacts DEF Reap, TypeOK
<1>4. ASSUME NEW p \in Pids, Exit(p)
      PROVE  /\ state' \in [Pids -> {"none", "running", "zombie"}]
             /\ ppid' \in [Pids -> Pids \cup {None}] /\ gen' \in [Pids -> Nat]
             /\ forks' \in Nat /\ exits' \in Nat /\ fresh' \in BOOLEAN
             /\ UNCHANGED <<request, pc, table, todo, firstErr, effects, asked, res>>
  BY <1>4, PidFacts DEF Exit, TypeOK
<1>2. ASSUME NEW p \in Pids, NEW q \in Pids, Fork(p, q)
      PROVE  /\ state' \in [Pids -> {"none", "running", "zombie"}]
             /\ ppid' \in [Pids -> Pids \cup {None}] /\ gen' \in [Pids -> Nat]
             /\ forks' \in Nat /\ exits' \in Nat /\ fresh' \in BOOLEAN
             /\ UNCHANGED <<request, pc, table, todo, firstErr, effects, asked, res>>
  BY <1>2 DEF Fork, TypeOK
<1>3. CASE Expire
  BY <1>3 DEF Expire, TypeOK, world
<1> QED
  BY <1>1, <1>2, <1>3, <1>4 DEF Host

LEMMA SnapshotType ==
    ASSUME TypeOK, Snapshot
    PROVE  table' \in [Pids -> Pids \cup {None}] /\ fresh' \in BOOLEAN
  BY DEF Snapshot, TypeOK

\* Every step keeps the types.
LEMMA TypeStep == TypeOK /\ Forest(table)' /\ [Next]_vars => TypeOK'
<1> SUFFICES ASSUME TypeOK, Forest(table)', [Next]_vars PROVE TypeOK'
  OBVIOUS
<1> USE DEF world, request, effects
<1>1. CASE Host
  BY <1>1, HostType DEF TypeOK
<1>2. CASE UNCHANGED vars
  BY <1>2 DEF vars, TypeOK
<1>3. CASE Work \/ Answer
  <2>1. CASE FoundContainer
    BY <2>1 DEF FoundContainer, TypeOK
  <2>2. CASE FoundProcess
    <3>1. table' \in [Pids -> Pids \cup {None}] /\ fresh' \in BOOLEAN
      BY <2>2, SnapshotType DEF FoundProcess, TypeOK
    <3>2. /\ UNCHANGED <<world, request, todo, firstErr, effects, asked>>
          /\ pc' \in {"returned", "terminate", "ask"} /\ res' \in {"noProcess", res}
      BY <2>2 DEF FoundProcess, Return
    <3> QED
      BY <3>1, <3>2 DEF TypeOK
  <2>3. CASE FoundLaunch
    BY <2>3 DEF FoundLaunch, Return, TypeOK
  <2>4. CASE Agree
    BY <2>4 DEF Agree, TypeOK
  <2>5. CASE Decline
    BY <2>5 DEF Decline, Return, TypeOK
  <2>6. CASE Container
    <3>1. /\ UNCHANGED <<world, request, table, fresh, todo, firstErr, tried, signaled,
                         launched, argv, asked>>
          /\ pc' = "returned" /\ res' \in {"ok", "containerError"}
      BY <2>6 DEF Container, Return
    <3>2. stopped' \in BOOLEAN
      BY <2>6 DEF Container
    <3> QED
      BY <3>1, <3>2 DEF TypeOK
  <2>7. CASE Terminate
    <3>1. table' \in [Pids -> Pids \cup {None}] /\ fresh' \in BOOLEAN
      BY <2>7, SnapshotType DEF Terminate, TypeOK
    <3>2. /\ UNCHANGED <<world, request, firstErr, effects, asked>>
          /\ pc' \in {"returned", "signal"} /\ res' \in {"protected", res}
      BY <2>7 DEF Terminate, Return
    <3>3. todo' \in Seq(Pids)
      <4>1. CASE Protected(owner)
        BY <2>7, <4>1 DEF Terminate, TypeOK
      <4>2. CASE ~Protected(owner)
        <5>1. owner \in Pids
          BY <4>2, ActionsConstants DEF TypeOK, Protected, None, Launchd
        <5> QED
          BY <2>7, <4>2, <5>1, TreeOfLists DEF Terminate
      <4> QED
        BY <4>1, <4>2
    <3> QED
      BY <3>1, <3>2, <3>3 DEF TypeOK
  <2>8. CASE SignalNext
    <3>1. Head(todo) \in Pids /\ Tail(todo) \in Seq(Pids)
      BY <2>8 DEF SignalNext, TypeOK
    <3>2. todo' \in Seq(Pids) /\ tried' \in Seq(Pids)
      <4>1. tried' = tried \/ tried' = Append(tried, Head(todo))
        BY <2>8 DEF SignalNext
      <4>2. todo' = Tail(todo)
        BY <2>8 DEF SignalNext
      <4>3. Append(tried, Head(todo)) \in Seq(Pids)
        BY <3>1, AppendProperties DEF TypeOK
      <4> QED
        BY <3>1, <4>1, <4>2, <4>3 DEF TypeOK
    <3>3. signaled' \subseteq [pid : Pids, gen : Nat]
      <4>1. \/ signaled' = signaled
            \/ signaled' = signaled \cup {[pid |-> Head(todo), gen |-> gen[Head(todo)]]}
        BY <2>8 DEF SignalNext
      <4>2. [pid |-> Head(todo), gen |-> gen[Head(todo)]] \in [pid : Pids, gen : Nat]
        BY <3>1 DEF TypeOK
      <4> QED
        BY <4>1, <4>2 DEF TypeOK
    <3>4. firstErr' \in {"none", "notFound", "denied"}
      BY <2>8 DEF SignalNext, SignalError, TypeOK
    <3>5. UNCHANGED <<world, request, pc, table, fresh, stopped, launched, argv, asked, res>>
      BY <2>8 DEF SignalNext
    <3> QED
      BY <3>2, <3>3, <3>4, <3>5 DEF TypeOK
  <2>9. CASE Signaled
    BY <2>9 DEF Signaled, TypeOK
  <2>10. CASE Probe
    BY <2>10 DEF Probe, Return, TypeOK
  <2>11. CASE SignalFailed
    BY <2>11 DEF SignalFailed, Return, TypeOK
  <2>12. CASE Poll
    BY <2>12 DEF Poll, Return, TypeOK
  <2>13. CASE PollAgain
    BY <2>13 DEF PollAgain, TypeOK
  <2>14. CASE GiveUp
    BY <2>14 DEF GiveUp, Return, TypeOK
  <2>15. CASE Release
    BY <2>15 DEF Release, TypeOK
  <2>16. CASE Start
    <3>1. /\ UNCHANGED <<world, request, table, fresh, todo, firstErr, tried, signaled,
                         stopped, argv, asked>>
          /\ pc' = "returned" /\ res' \in {"ok", "startError"}
      BY <2>16 DEF Start, Return
    <3>2. launched' \in BOOLEAN
      BY <2>16 DEF Start, TypeOK
    <3> QED
      BY <3>1, <3>2 DEF TypeOK
  <2> QED
    BY <1>3, <2>1, <2>2, <2>3, <2>4, <2>5, <2>6, <2>7, <2>8, <2>9, <2>10, <2>11, <2>12, <2>13,
       <2>14, <2>15, <2>16 DEF Work, Answer
<1> QED
  BY <1>1, <1>2, <1>3 DEF Next

\* Every step keeps the host a tree and the table a forest.
LEMMA HostStep == HostIsTree /\ Forest(table) /\ [Next]_vars => HostIsTree' /\ Forest(table)'
<1> SUFFICES ASSUME HostIsTree, Forest(table), [Next]_vars PROVE HostIsTree' /\ Forest(table)'
  OBVIOUS
<1> USE DEF world
<1>1. CASE Host
  <2>1. Forest(table)'
    <3>1. table' = table
      BY <1>1 DEF Host, Exit, Reap, Fork, Expire
    <3> QED
      BY <3>1
  <2>2. CASE Expire
    BY <2>2, <2>1 DEF Expire, HostIsTree
  <2> QED
    BY <1>1, <2>1, <2>2, HostExit, HostReap, HostFork DEF Host
<1>2. CASE Work \/ Answer \/ UNCHANGED vars
  <2>1. UNCHANGED <<state, ppid>>
    BY <1>2 DEF Work, Answer, FoundContainer, FoundProcess, FoundLaunch, Agree, Decline,
                Container, Terminate, SignalNext, Signaled, Probe, SignalFailed, Poll, PollAgain, GiveUp,
                Release, Start, vars
  <2>2. HostIsTree'
    BY <2>1 DEF HostIsTree
  <2>3. Snapshot \/ table' = table
    BY <1>2 DEF Work, Answer, FoundContainer, FoundProcess, FoundLaunch, Agree, Decline,
                Container, Terminate, SignalNext, Signaled, Probe, SignalFailed, Poll, PollAgain, GiveUp,
                Release, Start, vars
  <2>4. CASE table' = table
    BY <2>2, <2>4
  <2> QED
    BY <2>2, <2>3, <2>4, SnapshotForest
<1> QED
  BY <1>1, <1>2 DEF Next

-----------------------------------------------------------------------------
(* What every turn of the loop keeps.                                      *)

\* What one turn takes from the list.
LEMMA HeadAndTail ==
    ASSUME NEW T, NEW s \in Seq(Pids), s # <<>>, LeafFirst(T, s)
    PROVE  /\ Head(s) \in Pids /\ Tail(s) \in Seq(Pids)
           /\ Range(s) = {Head(s)} \cup Range(Tail(s))
           /\ LeafFirst(T, Tail(s))
           /\ \A y \in Range(Tail(s)) : Head(s) # y /\ T[y] # Head(s)
<1> DEFINE n == Len(s)
           t == Tail(s)
<1>1. n \in Nat \ {0} /\ DOMAIN s = 1..n /\ Head(s) = s[1] /\ Head(s) \in Pids
  BY EmptySeq, LenProperties
<1>2. /\ t \in Seq(Pids) /\ Len(t) = n - 1
      /\ \A i \in 1..(n - 1) : t[i] = s[i + 1]
  BY HeadTailProperties
<1>3. DOMAIN t = 1..(n - 1)
  BY <1>2, LenProperties
<1> HIDE DEF n, t
<1>4. \A i \in 1..(n - 1) : i + 1 \in 1..n /\ 1 < i + 1
  BY <1>1
<1>5. Range(s) = {Head(s)} \cup Range(t)
  <2>1. ASSUME NEW x \in Range(s) PROVE x \in {Head(s)} \cup Range(t)
    <3>1. PICK i \in 1..n : x = s[i]
      BY <1>1 DEF Range
    <3>2. i = 1 \/ (i - 1 \in 1..(n - 1) /\ (i - 1) + 1 = i)
      BY <1>1
    <3>3. i = 1 \/ (i - 1 \in 1..(n - 1) /\ t[i - 1] = s[i])
      BY <1>2, <3>2
    <3> QED
      BY <1>1, <1>3, <3>1, <3>3 DEF Range
  <2>2. ASSUME NEW x \in Range(t) PROVE x \in Range(s)
    <3>1. PICK i \in 1..(n - 1) : x = t[i]
      BY <1>3 DEF Range
    <3>2. x = s[i + 1] /\ i + 1 \in 1..n
      BY <1>2, <1>4, <3>1
    <3> QED
      BY <1>1, <3>2 DEF Range
  <2>3. Head(s) \in Range(s)
    <3>1. 1 \in 1..n
      BY <1>1
    <3> QED
      BY <1>1, <3>1 DEF Range
  <2> QED
    BY <2>1, <2>2, <2>3
<1>6. LeafFirst(T, t)
  <2> SUFFICES ASSUME NEW i \in 1..(n - 1), NEW j \in 1..(n - 1), i < j
               PROVE  t[i] # t[j] /\ T[t[j]] # t[i]
    BY <1>3 DEF LeafFirst
  <2>1. i + 1 \in 1..n /\ j + 1 \in 1..n /\ i + 1 < j + 1
    BY <1>4
  <2>2. s[i + 1] # s[j + 1] /\ T[s[j + 1]] # s[i + 1]
    BY <1>1, <2>1 DEF LeafFirst
  <2> QED
    BY <1>2, <2>2
<1>7. ASSUME NEW y \in Range(t) PROVE Head(s) # y /\ T[y] # Head(s)
  <2>1. PICK j \in 1..(n - 1) : y = t[j]
    BY <1>3 DEF Range
  <2>2. 1 \in 1..n /\ j + 1 \in 1..n /\ 1 < j + 1 /\ y = s[j + 1]
    BY <1>1, <1>2, <1>4, <2>1
  <2> QED
    BY <1>1, <2>2 DEF LeafFirst
<1> QED
  BY <1>1, <1>2, <1>5, <1>6, <1>7 DEF t

\* What one turn adds to those tried.
LEMMA AppendOne ==
    ASSUME NEW T, NEW s \in Seq(Pids), NEW e \in Pids,
           LeafFirst(T, s), \A x \in Range(s) : x # e /\ T[e] # x
    PROVE  /\ Range(Append(s, e)) = Range(s) \cup {e}
           /\ LeafFirst(T, Append(s, e))
<1> DEFINE u == Append(s, e)
           n == Len(s)
<1>1. /\ u \in Seq(Pids) /\ Len(u) = n + 1 /\ n \in Nat
      /\ \A i \in 1..n : u[i] = s[i]
      /\ u[n + 1] = e
  BY AppendProperties
<1>2. DOMAIN s = 1..n /\ DOMAIN u = 1..(n + 1)
  BY <1>1, LenProperties
<1> HIDE DEF u, n
<1>3. \A i \in 1..(n + 1) : i \in 1..n \/ i = n + 1
  BY <1>1
<1>4. n + 1 \in 1..(n + 1) /\ \A i \in 1..n : i \in 1..(n + 1)
  BY <1>1
<1>5. Range(u) = Range(s) \cup {e}
  BY <1>1, <1>2, <1>3, <1>4 DEF Range
<1>6. ASSUME NEW i \in 1..(n + 1), NEW j \in 1..(n + 1), i < j PROVE u[i] # u[j] /\ T[u[j]] # u[i]
  <2>1. i \in 1..n /\ u[i] = s[i] /\ s[i] \in Range(s)
    <3>1. i \in 1..n
      BY <1>1, <1>6
    <3> QED
      BY <3>1, <1>1, <1>2 DEF Range
  <2>2. CASE j = n + 1
    BY <1>1, <2>1, <2>2
  <2>3. CASE j # n + 1
    <3>1. j \in 1..n /\ u[j] = s[j]
      BY <1>1, <1>3, <2>3
    <3> QED
      BY <1>2, <1>6, <2>1, <3>1 DEF LeafFirst
  <2> QED
    BY <2>2, <2>3
<1>7. LeafFirst(T, u)
  BY <1>2, <1>6 DEF LeafFirst
<1> QED
  BY <1>5, <1>7 DEF u

\* TerminateTree starts the loop with the list of the owner's tree.
LEMMA LoopBegins ==
    ASSUME TypeOK, HostIsTree, Forest(table), LoopInv, Terminate, ~Protected(owner)
    PROVE  LoopInv'
<1>1. /\ pc = "terminate" /\ pc' = "signal" /\ UNCHANGED <<owner, tried>>
      /\ todo' = TreeOf(table', owner) /\ Snapshot
  BY DEF Terminate, request, effects
<1>2. owner \in Pids
  BY ActionsConstants DEF TypeOK, Protected, None, Launchd
<1>3. Forest(table')
  BY <1>1, SnapshotForest
<1>4. /\ todo' \in Seq(Pids) /\ Range(todo') \subseteq Below(table', owner)
      /\ LeafFirst(table', todo')
      /\ \A r \in [Pids -> Nat] :
           Ranks(table', r) /\ Deep(table', r, owner, MaxTreeDepth) => Whole(table', owner, todo')
  BY <1>1, <1>2, <1>3, TreeOfLists
<1>5. Members' = Below(table', owner)
  BY <1>1 DEF Members, Below, Closed
<1>6. tried' = <<>> /\ Range(tried') = {}
  BY <1>1 DEF LoopInv, Range
<1>7. LeafFirst(table', tried')
  BY <1>6 DEF LeafFirst
<1>8. ASSUME Shallow' PROVE Members' \subseteq Range(todo')
  <2>1. PICK r \in [Pids -> Nat] : /\ Ranks(table', r)
                                   /\ \A p \in Members' : r[p] <= r[owner] + MaxTreeDepth
    BY <1>8, <1>1 DEF Shallow
  <2>2. Deep(table', r, owner, MaxTreeDepth)
    BY <2>1, <1>5 DEF Deep
  <2> QED
    BY <2>1, <2>2, <1>4, <1>5 DEF Whole
<1>9. Open(tried)' = {} /\ Apart(table', tried', todo')
  BY <1>6 DEF Open, Apart
<1> QED
  BY <1>1, <1>4, <1>5, <1>6, <1>7, <1>8, <1>9 DEF LoopInv

\* One turn of the loop.
LEMMA LoopTurns ==
    ASSUME TypeOK, LoopInv, SignalNext
    PROVE  LoopInv'
<1> DEFINE h == Head(todo)
           rest == Tail(todo)
<1>1. /\ pc = "signal" /\ pc' = "signal" /\ UNCHANGED <<owner, table>> /\ todo # <<>>
      /\ todo' = rest
      /\ \/ Protected(h) /\ tried' = tried
         \/ ~Protected(h) /\ tried' = Append(tried, h)
  BY DEF SignalNext, request
<1>2. todo \in Seq(Pids) /\ tried \in Seq(Pids)
  BY DEF TypeOK
<1>3. /\ LeafFirst(table, tried) /\ LeafFirst(table, todo) /\ Apart(table, tried, todo)
      /\ Open(tried) = Range(tried) /\ Range(tried) \cup Range(todo) \subseteq Members
      /\ Shallow => \A p \in Members : p \in Range(tried) \cup Range(todo) \/ Protected(p)
  BY <1>1 DEF LoopInv
<1>4. /\ h \in Pids /\ rest \in Seq(Pids)
      /\ Range(todo) = {h} \cup Range(rest)
      /\ LeafFirst(table, rest)
      /\ \A y \in Range(rest) : h # y /\ table[y] # h
  BY <1>1, <1>2, <1>3, HeadAndTail
<1> HIDE DEF h, rest
<1>5. Members' = Members /\ (Shallow' <=> Shallow)
  BY <1>1 DEF Members, Shallow, Ranks
<1>6. CASE Protected(h) /\ tried' = tried
  <2>1. Apart(table, tried, rest)
    BY <1>3, <1>4 DEF Apart
  <2>2. Open(tried)' = Open(tried) /\ Range(tried)' = Range(tried) /\ Range(todo)' = Range(rest)
    BY <1>1, <1>6 DEF Open, Range, Protected
  <2>3. Range(tried)' \cup Range(todo)' \subseteq Members
    BY <1>3, <1>4, <2>2
  <2>4. Shallow => \A p \in Members : p \in Range(tried)' \cup Range(todo)' \/ Protected(p)
    BY <1>3, <1>4, <1>6, <2>2
  <2>5. LeafFirst(table, tried)' /\ LeafFirst(table, todo)' /\ Apart(table, tried, todo)'
    BY <1>1, <1>3, <1>4, <1>6, <2>1
  <2> QED
    BY <1>1, <1>3, <1>5, <2>2, <2>3, <2>4, <2>5 DEF LoopInv, Protected
<1>7. CASE ~Protected(h) /\ tried' = Append(tried, h)
  <2>1. \A x \in Range(tried) : x # h /\ table[h] # x
    BY <1>3, <1>4 DEF Apart
  <2>2. Range(tried') = Range(tried) \cup {h} /\ LeafFirst(table, tried')
    BY <1>2, <1>3, <1>4, <1>7, <2>1, AppendOne
  <2>3. Apart(table, tried', rest)
    BY <1>3, <1>4, <2>2 DEF Apart
  <2>4. Open(tried)' = Range(tried)'
    BY <1>3, <1>7, <2>2 DEF Open, Protected
  <2>5. Range(tried)' \cup Range(todo)' = Range(tried) \cup Range(todo)
    BY <1>1, <1>4, <2>2
  <2>6. LeafFirst(table, tried)' /\ LeafFirst(table, todo)' /\ Apart(table, tried, todo)'
    BY <1>1, <1>4, <2>2, <2>3
  <2> QED
    BY <1>1, <1>3, <1>5, <2>4, <2>5, <2>6 DEF LoopInv, Protected
<1> QED
  BY <1>1, <1>6, <1>7

LEMMA LoopStep == TypeOK /\ HostIsTree /\ Forest(table) /\ LoopInv /\ [Next]_vars => LoopInv'
<1> SUFFICES ASSUME TypeOK, HostIsTree, Forest(table), LoopInv, [Next]_vars PROVE LoopInv'
  OBVIOUS
<1> USE DEF world, request, effects
<1>1. CASE FoundProcess
  <2>1. tried' = <<>> /\ pc' \in {"returned", "terminate", "ask"}
    BY <1>1 DEF FoundProcess, Return, LoopInv
  <2> QED
    BY <2>1 DEF LoopInv, LeafFirst
<1>2. CASE Terminate
  <2>1. CASE Protected(owner)
    BY <1>2, <2>1, LoopStays DEF Terminate, Return
  <2> QED
    BY <1>2, <2>1, LoopBegins
<1>3. CASE SignalNext
  BY <1>3, LoopTurns
<1>4. CASE FoundContainer \/ FoundLaunch \/ Agree \/ Decline \/ Container
  BY <1>4, LoopStays DEF FoundContainer, FoundLaunch, Agree, Decline, Container, Return
<1>5. CASE Signaled \/ Probe \/ SignalFailed
  BY <1>5, LoopStays DEF Signaled, Probe, SignalFailed, Return
<1>6. CASE Poll \/ PollAgain \/ GiveUp
  BY <1>6, LoopStays DEF Poll, PollAgain, GiveUp, Return
<1>7. CASE Release \/ Start
  BY <1>7, LoopStays DEF Release, Start, Return
<1>8. CASE Host \/ UNCHANGED vars
  <2>1. UNCHANGED <<pc, table, tried, todo, owner>>
    BY <1>8 DEF Host, Exit, Reap, Fork, Expire, vars
  <2> QED
    BY <2>1, LoopStays
<1> QED
  BY <1>1, <1>2, <1>3, <1>4, <1>5, <1>6, <1>7, <1>8 DEF Next, Work, Answer

LEMMA TreeAlways == Spec => []TreeInv
<1>1. TreeInv /\ [Next]_vars => TreeInv'
  BY HostStep, TypeStep, LoopStep DEF TreeInv
<1> QED
  BY <1>1, TreeInit, PTL DEF Spec

\* Every variable has its type in every state of every host.
THEOREM TypeCorrect == Spec => []TypeOK
<1>1. TreeInv => TypeOK
  BY DEF TreeInv
<1> QED
  BY <1>1, TreeAlways, PTL

\* The processes of the host stay a tree below PID 1 whatever it does, and so
\* does every snapshot of it: the traversal always has an end.
THEOREM SnapshotsAreTrees == Spec => [](HostIsTree /\ Forest(table))
<1>1. TreeInv => HostIsTree /\ Forest(table)
  BY DEF TreeInv
<1> QED
  BY <1>1, TreeAlways, PTL

\* No process is signalled before a child it had in the snapshot, for any
\* host, however deep its trees and whatever it does in the meantime.
THEOREM LeavesComeFirst == Spec => []LeavesFirst
<1>1. TreeInv => LeavesFirst
  BY DEF TreeInv, LoopInv, LeafFirst, LeavesFirst
<1> QED
  BY <1>1, TreeAlways, PTL

\* A list without repetitions is as long as the set of what it lists.
LEMMA LengthOfList ==
    ASSUME NEW T, NEW s \in Seq(Pids), LeafFirst(T, s)
    PROVE  Len(s) = Cardinality(Range(s))
<1>1. Len(s) \in Nat /\ s \in [1..Len(s) -> Pids] /\ DOMAIN s = 1..Len(s)
  BY LenProperties
<1>2. ASSUME NEW i \in 1..Len(s), NEW j \in 1..Len(s), i # j PROVE s[i] # s[j]
  <2>1. i < j \/ j < i
    BY <1>1, <1>2
  <2> QED
    BY <1>1, <2>1 DEF LeafFirst
<1>3. s \in Bijection(1..Len(s), Range(s))
  BY <1>1, <1>2 DEF Bijection, Injection, Surjection, IsInjective, Range
<1> QED
  BY <1>1, <1>3, FS_CountingElements DEF ExistsBijection

\* When the loop is over, every member of the owner's tree was tried, once,
\* and nobody else, unless the tree is cut at MaxTreeDepth generations.
THEOREM TreeIsTried == Spec => [](Shallow => WholeTreeTried)
<1>1. TreeInv => (Shallow => WholeTreeTried)
  <2> SUFFICES ASSUME TreeInv, Shallow, pc \in {"probe", "wait"}
               PROVE  /\ Range(tried) = {p \in Members : ~Protected(p)}
                      /\ Len(tried) = Cardinality(Range(tried))
    BY DEF WholeTreeTried
  <2>1. tried \in Seq(Pids) /\ LeafFirst(table, tried)
    BY DEF TreeInv, TypeOK, LoopInv
  <2>2. Len(tried) = Cardinality(Range(tried))
    BY <2>1, LengthOfList
  <2>3. Range(todo) = {}
    BY DEF TreeInv, LoopInv, Range
  <2>4. /\ Open(tried) = Range(tried) /\ Range(tried) \subseteq Members
        /\ \A p \in Members : p \in Range(tried) \/ Protected(p)
    BY <2>3 DEF TreeInv, LoopInv
  <2> QED
    BY <2>2, <2>4 DEF Open
<1> QED
  BY <1>1, TreeAlways, PTL

\* However deep the tree, nobody outside it is tried.
THEOREM NobodyElseIsTried == Spec => [](pc \in {"probe", "wait"} => Range(tried) \subseteq Members)
<1>1. TreeInv => (pc \in {"probe", "wait"} => Range(tried) \subseteq Members)
  BY DEF TreeInv, LoopInv
<1> QED
  BY <1>1, TreeAlways, PTL

-----------------------------------------------------------------------------
(* What a success means.                                                   *)

\* An owner that may not be probed is still to be signalled, or was refused,
\* and nobody waits for him: after a forced kill there is no waiting at all.
RefusedInv ==
    /\ pc = "signal" => ~Protected(owner)
    /\ pc = "signal" /\ owner \in Foreign => owner \in Range(todo) \/ firstErr # "none"
    /\ pc \in {"wait", "sleep"} => op # "force" /\ (owner \in Foreign => firstErr # "none")
    /\ pc = "probe" => op = "force"

\* What the action goes on to once it took the owner for gone.
Following == pc \in {"release", "start"} \/ launched

\* The one success that is no proof: a forced kill of another user's process.
Blind == op = "force" /\ owner \in Foreign

GoneInv ==
    /\ RefusedInv
    /\ pc \in {"signal", "probe", "wait", "sleep"} => owner \in Pids
    /\ Following => owner \in Pids /\ Gone(owner)
    /\ res = "ok" /\ ~stopped => owner \in Pids /\ (Gone(owner) \/ Blind)

\* A process that is gone stays gone: its number comes back as another one.
LEMMA GoneStays ==
    ASSUME TypeOK, owner \in Pids, Gone(owner), [Next]_vars
    PROVE  Gone(owner)'
<1> USE DEF Gone, request, world
<1>1. ASSUME NEW p \in Pids, Exit(p) PROVE Gone(owner)'
  BY <1>1 DEF Exit, TypeOK
<1>2. ASSUME NEW p \in Pids, Reap(p) PROVE Gone(owner)'
  BY <1>2 DEF Reap, TypeOK
<1>3. ASSUME NEW p \in Pids, NEW q \in Pids, Fork(p, q) PROVE Gone(owner)'
  BY <1>3 DEF Fork, TypeOK
<1>4. CASE UNCHANGED <<state, gen, owner>>
  BY <1>4
<1>5. \/ UNCHANGED <<state, gen, owner>>
      \/ \E p \in Pids : Exit(p) \/ Reap(p)
      \/ \E p, q \in Pids : Fork(p, q)
  BY DEF Next, Work, Answer, Host, FoundContainer, FoundProcess, FoundLaunch, Agree, Decline,
         Container, Terminate, SignalNext, Signaled, Probe, SignalFailed, Poll, PollAgain,
         GiveUp, Release, Start, Expire, vars
<1> QED
  BY <1>1, <1>2, <1>3, <1>4, <1>5

\* A turn of the loop takes the owner from the list, or leaves it on it.
LEMMA OwnerSignalled ==
    ASSUME TypeOK, LoopInv, RefusedInv, SignalNext
    PROVE  RefusedInv'
<1>1. /\ pc = "signal" /\ pc' = "signal" /\ todo # <<>> /\ todo' = Tail(todo)
      /\ UNCHANGED <<owner, op>>
  BY DEF SignalNext, request
<1>2. Range(todo) = {Head(todo)} \cup Range(Tail(todo))
  BY <1>1, HeadAndTail DEF TypeOK, LoopInv
<1>3. ASSUME owner \in Foreign PROVE owner \in Range(todo') \/ firstErr' # "none"
  <2>1. CASE owner = Head(todo)
    <3>1. ~Protected(Head(todo)) /\ SignalError(Head(todo)) # "none"
      BY <1>1, <1>3, <2>1 DEF RefusedInv, SignalError
    <3>2. firstErr' = IF firstErr = "none" THEN SignalError(Head(todo)) ELSE firstErr
      BY <3>1 DEF SignalNext
    <3> QED
      BY <3>1, <3>2
  <2>2. CASE owner # Head(todo) /\ owner \in Range(todo)
    BY <1>1, <1>2, <2>2
  <2>3. CASE firstErr # "none"
    <3>1. firstErr' = firstErr
      BY <2>3 DEF SignalNext
    <3> QED
      BY <2>3, <3>1
  <2> QED
    BY <1>1, <1>3, <2>1, <2>2, <2>3 DEF RefusedInv
<1>4. ~Protected(owner)'
  BY <1>1 DEF RefusedInv, Protected
<1> QED
  BY <1>1, <1>3, <1>4 DEF RefusedInv

\* Every step keeps what is known of an owner that may not be probed.
LEMMA RefusedStep == TreeInv /\ TypeOK' /\ RefusedInv /\ [Next]_vars => RefusedInv'
<1> SUFFICES ASSUME TreeInv, TypeOK', RefusedInv, [Next]_vars PROVE RefusedInv'
  OBVIOUS
<1> USE DEF request, effects, world
<1>1. CASE Terminate
  <2>1. CASE Protected(owner)
    BY <1>1, <2>1 DEF Terminate, Return, RefusedInv
  <2>2. CASE ~Protected(owner)
    <3>1. owner \in Pids
      BY <2>2, ActionsConstants DEF TreeInv, TypeOK, Protected, None, Launchd
    <3>2. /\ pc' = "signal" /\ todo' = TreeOf(table', owner) /\ Snapshot
          /\ UNCHANGED <<owner, firstErr>>
      BY <1>1, <2>2 DEF Terminate
    <3>3. Forest(table')
      BY <3>2, SnapshotForest DEF TreeInv
    <3>4. owner \in Range(todo')
      BY <3>1, <3>2, <3>3, TreeOfLists
    <3>5. ~Protected(owner)'
      BY <2>2, <3>2 DEF Protected
    <3> QED
      BY <3>2, <3>4, <3>5 DEF RefusedInv
  <2> QED
    BY <2>1, <2>2
<1>2. CASE SignalNext
  BY <1>2, OwnerSignalled DEF TreeInv
<1>3. CASE Signaled
  <2>1. Range(todo) = {}
    BY <1>3 DEF Signaled, Range
  <2>2. /\ UNCHANGED <<owner, op, firstErr>> /\ pc = "signal"
        /\ pc' = IF op = "force" THEN "probe" ELSE "wait"
    BY <1>3 DEF Signaled
  <2> QED
    BY <2>1, <2>2 DEF RefusedInv
<1>4. CASE FoundContainer \/ FoundProcess \/ FoundLaunch \/ Agree \/ Decline \/ Container
  <2>1. pc' \notin {"signal", "probe", "wait", "sleep"}
    BY <1>4 DEF FoundContainer, FoundProcess, FoundLaunch, Agree, Decline, Container, Return
  <2> QED
    BY <2>1 DEF RefusedInv
<1>5. CASE Probe \/ SignalFailed \/ GiveUp \/ Release \/ Start
  BY <1>5 DEF Probe, SignalFailed, GiveUp, Release, Start, Return, RefusedInv
<1>6. CASE Poll \/ PollAgain
  BY <1>6 DEF Poll, PollAgain, Return, RefusedInv
<1>7. CASE Host \/ UNCHANGED vars
  <2>1. UNCHANGED <<pc, op, owner, todo, firstErr>>
    BY <1>7 DEF Host, Exit, Reap, Fork, Expire, vars
  <2> QED
    BY <2>1 DEF RefusedInv, Protected
<1> QED
  BY <1>1, <1>2, <1>3, <1>4, <1>5, <1>6, <1>7 DEF Next, Work, Answer

\* A probe that answers "not alive" is right, but for a process it was refused.
LEMMA ProbeIsRight ==
    ASSUME TypeOK, owner \in Pids, ~IsAlive(owner)
    PROVE  Gone(owner) \/ owner \in Foreign
  BY DEF TypeOK, IsAlive, Gone

LEMMA GoneStep == TreeInv /\ TypeOK' /\ GoneInv /\ [Next]_vars => GoneInv'
<1> SUFFICES ASSUME TreeInv, TypeOK', GoneInv, [Next]_vars PROVE GoneInv'
  OBVIOUS
<1> USE DEF request, effects, world
<1>0. TypeOK
  BY DEF TreeInv
<1>1. RefusedInv'
  BY RefusedStep DEF GoneInv
<1>2. UNCHANGED <<owner, op>>
  BY DEF Next, Work, Answer, Host, FoundContainer, FoundProcess, FoundLaunch, Agree, Decline,
         Container, Terminate, SignalNext, Signaled, Probe, SignalFailed, Poll, PollAgain,
         GiveUp, Release, Start, Exit, Reap, Fork, Expire, vars
<1>3. owner \in Pids /\ Gone(owner) => owner' \in Pids /\ Gone(owner)'
  BY <1>0, <1>2, GoneStays
<1>4. pc' \in {"signal", "probe", "wait", "sleep"} => owner' \in Pids
  <2>1. pc' = "signal" => ~Protected(owner)'
    BY <1>1 DEF RefusedInv
  <2>2. ~Protected(owner)' => owner' \in Pids
    BY ActionsConstants DEF TypeOK, Protected, None, Launchd
  <2>3. pc' \in {"probe", "wait", "sleep"} => pc \in {"signal", "probe", "wait", "sleep"}
    BY DEF Next, Work, Answer, Host, FoundContainer, FoundProcess, FoundLaunch, Agree, Decline,
           Container, Terminate, SignalNext, Signaled, Probe, SignalFailed, Poll, PollAgain,
           GiveUp, Release, Start, Return, Exit, Reap, Fork, Expire, vars
  <2> QED
    BY <1>2, <2>1, <2>2, <2>3 DEF GoneInv
<1>5. CASE Probe
  <2>1. /\ owner \in Pids /\ op = "force" /\ pc' = "returned"
        /\ UNCHANGED <<state, gen, launched, stopped>>
        /\ res' = IF IsAlive(owner) THEN "stillRunning" ELSE "ok"
    BY <1>5 DEF Probe, Return, GoneInv, RefusedInv
  <2>2. res' = "ok" => Gone(owner) \/ owner \in Foreign
    BY <1>0, <2>1, ProbeIsRight
  <2>3. Following' => Following
    BY <2>1 DEF Following
  <2> QED
    BY <1>1, <1>2, <1>3, <1>4, <2>1, <2>2, <2>3 DEF GoneInv, Blind
<1>6. CASE Poll
  <2>1. /\ owner \in Pids /\ op # "force" /\ owner \notin Foreign
        /\ UNCHANGED <<launched, stopped>>
    BY <1>6 DEF Poll, GoneInv, RefusedInv
  <2>2. ~IsAlive(owner) => Gone(owner)
    BY <1>0, <2>1, ProbeIsRight
  <2>3. IsAlive(owner) => pc' = "sleep" /\ res' = res
    BY <1>6 DEF Poll
  <2>4. Following' => Gone(owner) \/ Following
    BY <2>1, <2>2, <2>3 DEF Following
  <2>5. res' = "ok" => Gone(owner) \/ res = "ok"
    BY <2>2, <2>3
  <2> QED
    BY <1>1, <1>2, <1>3, <1>4, <2>1, <2>4, <2>5 DEF GoneInv, Blind
<1>7. CASE Release \/ Start
  <2>1. owner \in Pids /\ Gone(owner)
    BY <1>7 DEF Release, Start, GoneInv, Following
  <2> QED
    BY <1>1, <1>2, <1>3, <1>4, <2>1 DEF GoneInv
<1>8. ASSUME Following' => Following, res' = "ok" /\ ~stopped' => res = "ok" /\ ~stopped
      PROVE  GoneInv'
  BY <1>1, <1>2, <1>3, <1>4, <1>8 DEF GoneInv, Blind
<1>9. CASE FoundContainer \/ FoundProcess \/ FoundLaunch \/ Agree \/ Decline \/ Container
  <2>1. /\ launched' = launched /\ pc' \notin {"release", "start"}
        /\ res' = "ok" /\ ~stopped' => res = "ok" /\ ~stopped
    BY <1>9 DEF FoundContainer, FoundProcess, FoundLaunch, Agree, Decline, Container, Return
  <2> QED
    BY <1>8, <2>1 DEF Following
<1>10. CASE Terminate \/ Signaled \/ PollAgain \/ GiveUp \/ SignalFailed
  <2>1. /\ UNCHANGED <<launched, stopped>> /\ pc' \notin {"release", "start"}
        /\ res' = "ok" => res = "ok"
    BY <1>0, <1>10 DEF Terminate, Signaled, PollAgain, GiveUp, SignalFailed, Return, TypeOK
  <2> QED
    BY <1>8, <2>1 DEF Following
<1>11. CASE SignalNext \/ Host \/ UNCHANGED vars
  <2>1. UNCHANGED <<pc, launched, stopped, res>>
    BY <1>11 DEF SignalNext, Host, Exit, Reap, Fork, Expire, vars
  <2> QED
    BY <1>8, <2>1 DEF Following
<1> QED
  BY <1>5, <1>6, <1>7, <1>9, <1>10, <1>11 DEF Next, Work, Answer

LEMMA GoneAlways == Spec => []GoneInv
<1>1. Init => GoneInv
  BY DEF Init, GoneInv, RefusedInv, Following
<1>2. TreeInv => TypeOK
  BY DEF TreeInv
<1>3. TreeInv /\ TreeInv' /\ GoneInv /\ [Next]_vars => GoneInv'
  <2>1. TreeInv' => TypeOK'
    BY DEF TreeInv
  <2> QED
    BY <2>1, GoneStep
<1> QED
  BY <1>1, <1>3, TreeAlways, PTL DEF Spec

\* A restart starts the command only after the owner of the port has gone,
\* another user's process or not.
THEOREM OwnerIsGoneFirst == Spec => []OwnerGoneFirst
<1>1. GoneInv => OwnerGoneFirst
  BY DEF GoneInv, Following, OwnerGoneFirst
<1> QED
  BY <1>1, GoneAlways, PTL

\* "Exited gracefully", "terminated" and "Restarted" are said of a process
\* that has gone, on every host and for every owner; but for the forced kill
\* of another user's process, which the statement names.
THEOREM SuccessIsGone == Spec => []SuccessMeansGone
<1>1. GoneInv => SuccessMeansGone
  BY DEF GoneInv, Blind, SuccessMeansGone
<1> QED
  BY <1>1, GoneAlways, PTL
=============================================================================
