-------------------------- MODULE EventQueueProofs --------------------------
(***************************************************************************)
(* Facts about the event list of a job, for lists of every length: what    *)
(* _event_dedupe() leaves of it, and what it leads to. The operators are   *)
(* recursive functions; LeastNat replaces an induction principle.          *)
(***************************************************************************)
EXTENDS EventQueue, WellFoundedInduction, TLAPS

(* A nonempty set of natural numbers has a least element: what the         *)
(* inductions over an event list below are built on.                       *)
LEMMA LeastNat ==
  ASSUME NEW T, T \subseteq Nat, T # {}
  PROVE  \E m \in T : \A n \in T : m <= n
<1> DEFINE R == OpToRel(<, Nat)
<1>1. IsWellFoundedOn(R, Nat)
  BY NatLessThanWellFounded
<1>2. PICK m \in T : \A n \in T : ~(<<n, m>> \in R)
  BY <1>1, WFMin
<1>3. \A n \in T : ~(n < m)
  BY <1>2 DEF OpToRel
<1> HIDE DEF R
<1> QED BY <1>2, <1>3

(* Induction over Nat for a property given as a set.                       *)
LEMMA SetInduction ==
  ASSUME NEW T, 0 \in T, \A n \in Nat : n \in T => n + 1 \in T
  PROVE  Nat \subseteq T
<1> SUFFICES ASSUME ~(Nat \subseteq T) PROVE FALSE
  OBVIOUS
<1> DEFINE U == Nat \ T
<1>1. PICK m \in U : \A n \in U : m <= n
   <2>1. U \subseteq Nat /\ U # {}
     OBVIOUS
   <2> HIDE DEF U
   <2> QED BY <2>1, LeastNat
<1>2. m \in Nat /\ m # 0
  OBVIOUS
<1>3. m - 1 \in T
  BY <1>1, <1>2
<1> QED BY <1>2, <1>3

-----------------------------------------------------------------------------
(* Recursion along 1..N.                                                   *)

Steps(g, X, N) == N \in Nat /\ g \in [1..N -> [X -> X]]
Solves(f, x0, g, X, N) ==
  f \in [0..N -> X] /\ f[0] = x0 /\ \A i \in 1..N : f[i] = g[i][f[i - 1]]

(* A function defined by a first value and a step exists.                  *)
LEMMA Recursion ==
  ASSUME NEW X, NEW N, NEW g, Steps(g, X, N), NEW x0 \in X
  PROVE  \E f : Solves(f, x0, g, X, N)
<1> USE DEF Steps, Solves
<1> DEFINE Sol(m, f) == f[0] = x0 /\ \A i \in 1..m : f[i] = g[i][f[i - 1]]
           T == {m \in Nat : m <= N => \E f \in [0..m -> X] : Sol(m, f)}
<1>1. 0 \in T
  <2>1. [i \in 0..0 |-> x0] \in [0..0 -> X] /\ Sol(0, [i \in 0..0 |-> x0])
    OBVIOUS
  <2> QED BY <2>1
<1>2. ASSUME NEW m \in Nat, m \in T PROVE m + 1 \in T
  <2> SUFFICES ASSUME m + 1 <= N PROVE \E f \in [0..(m + 1) -> X] : Sol(m + 1, f)
    <3> HIDE DEF Sol
    <3> QED OBVIOUS
  <2>1. PICK f \in [0..m -> X] : Sol(m, f)
    BY <1>2
  <2> DEFINE h == [i \in 0..(m + 1) |-> IF i = m + 1 THEN g[m + 1][f[m]] ELSE f[i]]
  <2>2. g[m + 1][f[m]] \in X
    OBVIOUS
  <2>3. h \in [0..(m + 1) -> X]
    BY <2>2
  <2>4. h[0] = x0 /\ \A i \in 0..m : h[i] = f[i]
    BY <2>1
  <2>5. ASSUME NEW i \in 1..(m + 1) PROVE h[i] = g[i][h[i - 1]]
    <3>1. CASE i = m + 1
      BY <2>4, <3>1
    <3>2. CASE i \in 1..m
      BY <2>1, <2>4, <3>2
    <3> QED BY <3>1, <3>2
  <2> HIDE DEF h
  <2> QED BY <2>3, <2>4, <2>5
<1>3. Nat \subseteq T
  <2> HIDE DEF T
  <2> QED BY <1>1, <1>2, SetInduction
<1>4. N \in T
  BY <1>3
<1> QED BY <1>4

(* A sequence of elements that all are in T.                               *)
LEMMA SeqFrom ==
  ASSUME NEW S, NEW T, NEW q \in Seq(S), \A i \in 1..Len(q) : q[i] \in T
  PROVE  q \in Seq(T)
OBVIOUS

(* A sequence over S is one over any larger set.                           *)
LEMMA SeqWithin ==
  ASSUME NEW S, NEW T, S \subseteq T, NEW q \in Seq(S)
  PROVE  q \in Seq(T)
<1>1. \A i \in 1..Len(q) : q[i] \in S
  OBVIOUS
<1>2. \A i \in 1..Len(q) : q[i] \in T
  BY <1>1
<1> QED BY <1>2

(* A function with that first value and step stays in its range.           *)
LEMMA RecursionIn ==
  ASSUME NEW X, NEW N \in Nat, NEW w, w[0] \in X,
         \A i \in 1..N : w[i - 1] \in X => w[i] \in X
  PROVE  \A i \in 0..N : w[i] \in X
<1> DEFINE T == {m \in Nat : m <= N => w[m] \in X}
<1>1. 0 \in T
  OBVIOUS
<1>2. ASSUME NEW m \in Nat, m \in T PROVE m + 1 \in T
  <2> SUFFICES ASSUME m + 1 <= N PROVE w[m + 1] \in X
    OBVIOUS
  <2>1. m + 1 \in 1..N /\ (m + 1) - 1 = m /\ w[m] \in X
    BY <1>2
  <2> QED BY <2>1
<1>3. Nat \subseteq T
  <2> HIDE DEF T
  <2> QED BY <1>1, <1>2, SetInduction
<1> QED BY <1>3

-----------------------------------------------------------------------------
(* De-duplication.                                                         *)

(* One round of _event_dedupe() removes at most two events and never the   *)
(* whole list.                                                             *)
LEMMA RedundantBounds ==
  ASSUME NEW q, NEW n \in Nat
  PROVE  /\ Redundant(q, n) \in {0, 1, 2}
         /\ n - Redundant(q, n) \in 0..n
         /\ n > 0 => n - Redundant(q, n) > 0
BY DEF Redundant

(* The recursion of Kept has a solution. *)
LEMMA KeptExists ==
  ASSUME NEW S, NEW q \in Seq(S), NEW n \in Nat
  PROVE  \E f \in [0..n -> Nat] : \A i \in 0..n :
            f[i] = IF Redundant(q, i) = 0 THEN i ELSE f[i - Redundant(q, i)]
<1> DEFINE Sol(m, f) == \A i \in 0..m :
              f[i] = IF Redundant(q, i) = 0 THEN i ELSE f[i - Redundant(q, i)]
           T == {m \in Nat : \E f \in [0..m -> Nat] : Sol(m, f)}
<1>1. 0 \in T
  <2>1. [i \in 0..0 |-> 0] \in [0..0 -> Nat] OBVIOUS
  <2>2. Sol(0, [i \in 0..0 |-> 0])
    BY RedundantBounds
  <2> QED BY <2>1, <2>2
<1>2. ASSUME NEW m \in Nat, m \in T PROVE m + 1 \in T
  <2>1. PICK f \in [0..m -> Nat] : Sol(m, f)
    BY <1>2
  <2> DEFINE r == Redundant(q, m + 1)
             v == IF r = 0 THEN m + 1 ELSE f[(m + 1) - r]
             g == [i \in 0..(m + 1) |-> IF i = m + 1 THEN v ELSE f[i]]
  <2>2. r \in {0, 1, 2} /\ (m + 1) - r \in 0..(m + 1)
    BY RedundantBounds, m + 1 \in Nat
  <2>3. v \in Nat
    BY <2>2
  <2>4. g \in [0..(m + 1) -> Nat]
    BY <2>3
  <2>5. ASSUME NEW i \in 0..(m + 1)
        PROVE g[i] = IF Redundant(q, i) = 0 THEN i ELSE g[i - Redundant(q, i)]
    <3>1. CASE i = m + 1
      BY <3>1, <2>2
    <3>2. CASE i \in 0..m
      <4>1. i - Redundant(q, i) \in 0..i
        BY RedundantBounds
      <4> HIDE DEF v
      <4> QED BY <4>1, <3>2, <2>1
    <3> QED BY <3>1, <3>2
  <2>6. Sol(m + 1, g)
    BY <2>5
  <2>7. m + 1 \in Nat
    OBVIOUS
  <2> HIDE DEF g, Sol
  <2> QED BY <2>4, <2>6, <2>7
<1>3. Nat \subseteq T
  <2> HIDE DEF T
  <2> QED BY <1>1, <1>2, SetInduction
<1> QED BY <1>3

(* Kept(q) solves its own recursion equation.                              *)
LEMMA KeptDef ==
  ASSUME NEW S, NEW q \in Seq(S)
  PROVE  /\ Kept(q) = [n \in 0..Len(q) |->
                 IF Redundant(q, n) = 0 THEN n ELSE Kept(q)[n - Redundant(q, n)]]
<1> DEFINE Eq(f) == f = [n \in 0..Len(q) |->
                 IF Redundant(q, n) = 0 THEN n ELSE f[n - Redundant(q, n)]]
<1>1. PICK f \in [0..Len(q) -> Nat] : \A i \in 0..Len(q) :
            f[i] = IF Redundant(q, i) = 0 THEN i ELSE f[i - Redundant(q, i)]
  <2>1. Len(q) \in Nat
    OBVIOUS
  <2> QED BY <2>1, KeptExists, Zenon
<1>2. Eq(f)
  BY <1>1
<1>3. Kept(q) = CHOOSE g : Eq(g)
  BY DEF Kept
<1>4. Eq(Kept(q))
  <2> HIDE DEF Eq
  <2> QED BY <1>2, <1>3
<1> QED BY <1>4

(* Induction along the rounds of the loop: to show something of every      *)
(* prefix, show it where the loop stops and carry it back over one round.  *)
LEMMA RoundInduction ==
  ASSUME NEW S, NEW q \in Seq(S), NEW T,
         \A i \in 0..Len(q) : Redundant(q, i) = 0 => i \in T,
         \A i \in 0..Len(q) : Redundant(q, i) # 0 /\ i - Redundant(q, i) \in T => i \in T
  PROVE  0..Len(q) \subseteq T
<1> DEFINE U == 0..Len(q) \ T
<1> SUFFICES ASSUME U # {} PROVE FALSE
  OBVIOUS
<1>1. Len(q) \in Nat
  OBVIOUS
<1>2. PICK m \in U : \A n \in U : m <= n
  <2>1. U \subseteq Nat /\ U # {}
    BY <1>1
  <2> HIDE DEF U
  <2> QED BY <2>1, LeastNat
<1>3. /\ m \in 0..Len(q) /\ m \in Nat /\ Redundant(q, m) # 0
      /\ m - Redundant(q, m) \notin T
  BY <1>2, <1>1
<1>4. Redundant(q, m) \in {1, 2} /\ m - Redundant(q, m) \in 0..m
  BY <1>3, RedundantBounds
<1>5. m - Redundant(q, m) \in U /\ m - Redundant(q, m) < m
  BY <1>3, <1>4, <1>1
<1> HIDE DEF U
<1> QED BY <1>2, <1>3, <1>4, <1>5

(* What is kept of the first i events is a nonempty prefix of them.        *)
LEMMA KeptRange ==
  ASSUME NEW S, NEW q \in Seq(S)
  PROVE  \A i \in 0..Len(q) : Kept(q)[i] \in 0..i /\ (i > 0 => Kept(q)[i] > 0)
<1> DEFINE T == {i \in 0..Len(q) : Kept(q)[i] \in 0..i /\ (i > 0 => Kept(q)[i] > 0)}
<1>1. Len(q) \in Nat
  OBVIOUS
<1>2. ASSUME NEW i \in 0..Len(q), Redundant(q, i) = 0 PROVE i \in T
  BY <1>1, <1>2, KeptDef
<1>3. ASSUME NEW i \in 0..Len(q), Redundant(q, i) # 0, i - Redundant(q, i) \in T
      PROVE  i \in T
  <2>1. Kept(q)[i] = Kept(q)[i - Redundant(q, i)]
    BY <1>3, KeptDef
  <2>2. /\ i - Redundant(q, i) \in 0..i
        /\ i > 0 => i - Redundant(q, i) > 0
    BY <1>1, RedundantBounds
  <2> QED BY <1>1, <1>3, <2>1, <2>2
<1>4. 0..Len(q) \subseteq T
  <2> HIDE DEF T
  <2> QED BY <1>2, <1>3, RoundInduction
<1> QED BY <1>4

-----------------------------------------------------------------------------
(* The status after a prefix of the list.                                  *)

(* Whatever event a module processes, it is left with a status.            *)
LEMMA StatusAfterType ==
  ASSUME NEW s \in Statuses, NEW t
  PROVE  StatusAfter(s, t) \in Statuses
BY DEF StatusAfter, Statuses

(* The recursion of Outcome, processing one event after the other, has a   *)
(* solution.                                                               *)
LEMMA OutcomeExists ==
  ASSUME NEW q, NEW s \in Statuses, NEW n \in Nat
  PROVE  \E f \in [0..n -> Statuses] : \A i \in 0..n :
            f[i] = IF i = 0 THEN s ELSE StatusAfter(f[i - 1], q[i].type)
<1> DEFINE Sol(m, f) == \A i \in 0..m :
              f[i] = IF i = 0 THEN s ELSE StatusAfter(f[i - 1], q[i].type)
           T == {m \in Nat : \E f \in [0..m -> Statuses] : Sol(m, f)}
<1>1. 0 \in T
  <2>1. [i \in 0..0 |-> s] \in [0..0 -> Statuses]
    OBVIOUS
  <2>2. Sol(0, [i \in 0..0 |-> s])
    OBVIOUS
  <2> QED BY <2>1, <2>2
<1>2. ASSUME NEW m \in Nat, m \in T PROVE m + 1 \in T
  <2>1. PICK f \in [0..m -> Statuses] : Sol(m, f)
    BY <1>2
  <2> DEFINE v == StatusAfter(f[m], q[m + 1].type)
             g == [i \in 0..(m + 1) |-> IF i = m + 1 THEN v ELSE f[i]]
  <2>2. v \in Statuses
    BY StatusAfterType
  <2>3. g \in [0..(m + 1) -> Statuses]
    <3> HIDE DEF v
    <3> QED BY <2>2
  <2>4. ASSUME NEW i \in 0..(m + 1)
        PROVE  g[i] = IF i = 0 THEN s ELSE StatusAfter(g[i - 1], q[i].type)
    <3>1. CASE i = m + 1
      BY <3>1
    <3>2. CASE i \in 0..m
      <4> HIDE DEF v
      <4> QED BY <3>2, <2>1
    <3> QED BY <3>1, <3>2
  <2>5. Sol(m + 1, g)
    BY <2>4
  <2>6. m + 1 \in Nat
    OBVIOUS
  <2> HIDE DEF g, Sol
  <2> QED BY <2>3, <2>5, <2>6
<1>3. Nat \subseteq T
  <2> HIDE DEF T
  <2> QED BY <1>1, <1>2, SetInduction
<1> QED BY <1>3

(* Outcome(s, q) solves its own recursion equation: the status after n     *)
(* events of the list is what the n-th makes of the status before it.      *)
LEMMA OutcomeDef ==
  ASSUME NEW S, NEW q \in Seq(S), NEW s \in Statuses
  PROVE  /\ Outcome(s, q) \in [0..Len(q) -> Statuses]
         /\ Outcome(s, q)[0] = s
         /\ \A i \in 1..Len(q) :
               Outcome(s, q)[i] = StatusAfter(Outcome(s, q)[i - 1], q[i].type)
<1> DEFINE Eq(f) == f = [n \in 0..Len(q) |->
                      IF n = 0 THEN s ELSE StatusAfter(f[n - 1], q[n].type)]
<1>0. Len(q) \in Nat
  OBVIOUS
<1>1. PICK f \in [0..Len(q) -> Statuses] : \A i \in 0..Len(q) :
            f[i] = IF i = 0 THEN s ELSE StatusAfter(f[i - 1], q[i].type)
  BY <1>0, OutcomeExists, Zenon
<1>2. Eq(f)
  BY <1>1
<1>3. Outcome(s, q) = CHOOSE g : Eq(g)
  BY DEF Outcome
<1>4. Eq(Outcome(s, q))
  <2> HIDE DEF Eq
  <2> QED BY <1>2, <1>3
<1> DEFINE o == Outcome(s, q)
<1>5. o = [n \in 0..Len(q) |-> IF n = 0 THEN s ELSE StatusAfter(o[n - 1], q[n].type)]
  BY <1>4
<1> HIDE DEF o
<1>6. /\ o[0] = s
      /\ \A i \in 1..Len(q) : o[i] = StatusAfter(o[i - 1], q[i].type)
  BY <1>5, <1>0
<1> DEFINE T == {n \in Nat : n <= Len(q) => o[n] \in Statuses}
<1>7. 0 \in T
  BY <1>6
<1>8. ASSUME NEW n \in Nat, n \in T PROVE n + 1 \in T
  <2> SUFFICES ASSUME n + 1 <= Len(q) PROVE o[n + 1] \in Statuses
    OBVIOUS
  <2>1. o[n] \in Statuses /\ n + 1 \in 1..Len(q) /\ (n + 1) - 1 = n
    BY <1>8, <1>0
  <2>2. o[n + 1] = StatusAfter(o[n], q[n + 1].type)
    BY <2>1, <1>6
  <2> QED BY <2>1, <2>2, StatusAfterType
<1>9. Nat \subseteq T
  <2> HIDE DEF T
  <2> QED BY <1>7, <1>8, SetInduction
<1>10. o \in [0..Len(q) -> Statuses]
  BY <1>9, <1>5, <1>0
<1> QED BY <1>6, <1>10 DEF o

(* The status after n events depends on these n events only.               *)
LEMMA OutcomePrefix ==
  ASSUME NEW S, NEW p \in Seq(S), NEW q \in Seq(S), NEW s \in Statuses,
         NEW k \in Nat, k <= Len(p), k <= Len(q),
         \A i \in 1..k : p[i] = q[i]
  PROVE  Outcome(s, p)[k] = Outcome(s, q)[k]
<1> DEFINE T == {n \in Nat : n <= k => Outcome(s, p)[n] = Outcome(s, q)[n]}
<1>1. 0 \in T
  BY OutcomeDef
<1>2. ASSUME NEW n \in Nat, n \in T PROVE n + 1 \in T
  <2> SUFFICES ASSUME n + 1 <= k PROVE Outcome(s, p)[n + 1] = Outcome(s, q)[n + 1]
    OBVIOUS
  <2>1. /\ n + 1 \in 1..k /\ n + 1 \in 1..Len(p) /\ n + 1 \in 1..Len(q)
        /\ (n + 1) - 1 = n
    OBVIOUS
  <2>2. Outcome(s, p)[n] = Outcome(s, q)[n]
    BY <1>2, <2>1
  <2>3. /\ Outcome(s, p)[n + 1] = StatusAfter(Outcome(s, p)[n], p[n + 1].type)
        /\ Outcome(s, q)[n + 1] = StatusAfter(Outcome(s, q)[n], q[n + 1].type)
    BY <2>1, OutcomeDef
  <2> QED BY <2>1, <2>2, <2>3
<1>3. Nat \subseteq T
  <2> HIDE DEF T
  <2> QED BY <1>1, <1>2, SetInduction
<1> QED BY <1>3

(* Appending an event makes it the last one to act.                        *)
LEMMA FinalStatusAppend ==
  ASSUME NEW S, NEW q \in Seq(S), NEW e \in S, NEW s \in Statuses
  PROVE  FinalStatus(s, Append(q, e)) = StatusAfter(FinalStatus(s, q), e.type)
<1> DEFINE a == Append(q, e)
           n == Len(q)
<1>1. /\ a \in Seq(S) /\ Len(a) = n + 1 /\ a[n + 1] = e /\ n \in Nat
      /\ \A i \in 1..n : a[i] = q[i]
  OBVIOUS
<1> HIDE DEF a
<1>2. Outcome(s, a)[n] = Outcome(s, q)[n]
  BY <1>1, OutcomePrefix
<1>3. n + 1 \in 1..Len(a) /\ (n + 1) - 1 = n
  BY <1>1
<1>4. Outcome(s, a)[n + 1] = StatusAfter(Outcome(s, a)[n], a[n + 1].type)
  BY <1>1, <1>3, OutcomeDef
<1> QED BY <1>1, <1>2, <1>4 DEF FinalStatus, a

(* Processing the first event and then the rest is processing the list.    *)
LEMMA FinalStatusTail ==
  ASSUME NEW S, NEW q \in Seq(S), q # <<>>, NEW s \in Statuses
  PROVE  FinalStatus(StatusAfter(s, Head(q).type), Tail(q)) = FinalStatus(s, q)
<1> DEFINE t == Tail(q)
           u == StatusAfter(s, Head(q).type)
<1>1. /\ t \in Seq(S) /\ Len(t) \in Nat /\ Len(q) = Len(t) + 1 /\ Head(q) = q[1]
      /\ \A i \in 1..Len(t) : t[i] = q[i + 1]
  OBVIOUS
<1>2. u \in Statuses
  BY StatusAfterType
<1> DEFINE T == {n \in Nat : n <= Len(t) => Outcome(u, t)[n] = Outcome(s, q)[n + 1]}
<1> HIDE DEF t, u
<1>3. 0 \in T
  <2>1. Outcome(u, t)[0] = u
    BY <1>1, <1>2, OutcomeDef
  <2>2. 1 \in 1..Len(q) /\ 1 - 1 = 0
    BY <1>1
  <2>3. Outcome(s, q)[1] = StatusAfter(s, q[1].type)
    BY <2>2, OutcomeDef
  <2> QED BY <2>1, <2>3, <1>1 DEF u
<1>4. ASSUME NEW n \in Nat, n \in T PROVE n + 1 \in T
  <2> SUFFICES ASSUME n + 1 <= Len(t)
               PROVE  Outcome(u, t)[n + 1] = Outcome(s, q)[(n + 1) + 1]
    OBVIOUS
  <2>1. /\ n + 1 \in 1..Len(t) /\ (n + 1) - 1 = n
        /\ (n + 1) + 1 \in 1..Len(q) /\ ((n + 1) + 1) - 1 = n + 1
    BY <1>1
  <2>2. Outcome(u, t)[n] = Outcome(s, q)[n + 1]
    BY <1>4, <2>1, <1>1
  <2>3. Outcome(u, t)[n + 1] = StatusAfter(Outcome(u, t)[n], t[n + 1].type)
    BY <2>1, <1>1, <1>2, OutcomeDef
  <2>4. Outcome(s, q)[(n + 1) + 1] =
           StatusAfter(Outcome(s, q)[n + 1], q[(n + 1) + 1].type)
    BY <2>1, OutcomeDef
  <2> QED BY <2>1, <2>2, <2>3, <2>4, <1>1
<1>5. Nat \subseteq T
  <2> HIDE DEF T
  <2> QED BY <1>3, <1>4, SetInduction
<1>6. Outcome(u, t)[Len(t)] = Outcome(s, q)[Len(t) + 1]
  BY <1>5, <1>1
<1> QED BY <1>6, <1>1 DEF FinalStatus, t, u

-----------------------------------------------------------------------------
(* De-duplication.                                                         *)

(* One round does not change the status the events lead to.                *)
LEMMA RoundKeepsOutcome ==
  ASSUME NEW S, NEW q \in Seq(S), NEW s \in Statuses, NEW i \in 0..Len(q)
  PROVE  Outcome(s, q)[i - Redundant(q, i)] = Outcome(s, q)[i]
<1> DEFINE o == Outcome(s, q)
<1>1. /\ o \in [0..Len(q) -> Statuses] /\ Len(q) \in Nat
      /\ \A j \in 1..Len(q) : o[j] = StatusAfter(o[j - 1], q[j].type)
  BY OutcomeDef
<1> HIDE DEF o
<1>2. CASE Redundant(q, i) = 0
  BY <1>2, <1>1 DEF o
<1>3. CASE i >= 2 /\ q[i] = q[i - 1]
  <2>1. Redundant(q, i) = 1
    BY <1>3 DEF Redundant
  <2>2. /\ o[i] = StatusAfter(o[i - 1], q[i].type)
        /\ o[i - 1] = StatusAfter(o[(i - 1) - 1], q[i - 1].type)
        /\ o[(i - 1) - 1] \in Statuses
    <3>1. i \in 1..Len(q) /\ i - 1 \in 1..Len(q) /\ (i - 1) - 1 \in 0..Len(q)
      BY <1>3, <1>1
    <3> QED BY <3>1, <1>1
  <2>3. o[i] = o[i - 1]
    BY <2>2, <1>3 DEF StatusAfter, Statuses
  <2> QED BY <2>1, <2>3 DEF o
<1>4. CASE ~(i >= 2 /\ q[i] = q[i - 1]) /\ Redundant(q, i) # 0
  <2> DEFINE a == q[i - 1].type
             b == q[i].type
             x == o[i - 4]
  <2>1. /\ Redundant(q, i) = 2 /\ i >= 4 /\ <<a, b>> \in Alternations
        /\ q[i - 3].type = a /\ q[i - 2].type = b
    BY <1>4 DEF Redundant
  <2>2. /\ x \in Statuses
        /\ o[i - 3] = StatusAfter(x, a)
        /\ o[i - 2] = StatusAfter(o[i - 3], b)
        /\ o[i - 1] = StatusAfter(o[i - 2], a)
        /\ o[i] = StatusAfter(o[i - 1], b)
    <3>1. /\ i - 3 \in 1..Len(q) /\ i - 2 \in 1..Len(q)
          /\ i - 1 \in 1..Len(q) /\ i \in 1..Len(q) /\ i - 4 \in 0..Len(q)
          /\ (i - 3) - 1 = i - 4 /\ (i - 2) - 1 = i - 3 /\ (i - 1) - 1 = i - 2
      BY <2>1, <1>1
    <3> QED BY <3>1, <2>1, <1>1
  <2> HIDE DEF a, b, x
  <2>3. StatusAfter(StatusAfter(StatusAfter(StatusAfter(x, a), b), a), b)
          = StatusAfter(StatusAfter(x, a), b)
    BY <2>1, <2>2 DEF StatusAfter, Statuses, Alternations
  <2>4. o[i] = o[i - 2]
    BY <2>2, <2>3
  <2> QED BY <2>1, <2>4 DEF o
<1> QED BY <1>2, <1>3, <1>4

(* All rounds of the loop together: the events left of a prefix lead to    *)
(* the status the prefix leads to.                                         *)
LEMMA KeptOutcome ==
  ASSUME NEW S, NEW q \in Seq(S), NEW s \in Statuses
  PROVE  \A i \in 0..Len(q) : Outcome(s, q)[Kept(q)[i]] = Outcome(s, q)[i]
<1> DEFINE T == {i \in 0..Len(q) : Outcome(s, q)[Kept(q)[i]] = Outcome(s, q)[i]}
<1>1. ASSUME NEW i \in 0..Len(q), Redundant(q, i) = 0 PROVE i \in T
  BY <1>1, KeptDef
<1>2. ASSUME NEW i \in 0..Len(q), Redundant(q, i) # 0, i - Redundant(q, i) \in T
      PROVE  i \in T
  <2>1. Kept(q)[i] = Kept(q)[i - Redundant(q, i)]
    BY <1>2, KeptDef
  <2> QED BY <1>2, <2>1, RoundKeepsOutcome
<1>3. 0..Len(q) \subseteq T
  <2> HIDE DEF T
  <2> QED BY <1>1, <1>2, RoundInduction
<1> QED BY <1>3

(* De-duplication leaves a prefix of the list, nonempty unless the list    *)
(* is, and shorter by exactly the number of events it removes.             *)
LEMMA DedupePrefix ==
  ASSUME NEW S, NEW q \in Seq(S)
  PROVE  LET k == Kept(q)[Len(q)]
         IN  /\ k \in 0..Len(q) /\ (Len(q) > 0 => k > 0)
             /\ Dedupe(q) \in Seq(S) /\ Len(Dedupe(q)) = k
             /\ \A i \in 1..k : Dedupe(q)[i] = q[i]
<1> DEFINE k == Kept(q)[Len(q)]
<1>1. k \in 0..Len(q) /\ (Len(q) > 0 => k > 0) /\ Len(q) \in Nat
  <2>1. Len(q) \in 0..Len(q)
    OBVIOUS
  <2> QED BY <2>1, KeptRange
<1> HIDE DEF k
<1>2. /\ SubSeq(q, 1, k) \in Seq(S) /\ Len(SubSeq(q, 1, k)) = k
      /\ \A i \in 1..k : SubSeq(q, 1, k)[i] = q[i]
  BY <1>1
<1> QED BY <1>1, <1>2 DEF Dedupe, k

(* _event_dedupe() does not change the status the list leads to, whatever  *)
(* the list and the status it starts from.                                 *)
THEOREM DedupeKeepsOutcome ==
  ASSUME NEW S, NEW q \in Seq(S), NEW s \in Statuses
  PROVE  FinalStatus(s, Dedupe(q)) = FinalStatus(s, q)
<1> DEFINE k == Kept(q)[Len(q)]
           d == Dedupe(q)
<1>1. /\ k \in 0..Len(q) /\ Len(q) \in Nat /\ d \in Seq(S) /\ Len(d) = k
      /\ \A i \in 1..k : d[i] = q[i]
  BY DedupePrefix
<1>2. Outcome(s, q)[k] = Outcome(s, q)[Len(q)]
  BY <1>1, KeptOutcome
<1> HIDE DEF k, d
<1>3. Outcome(s, d)[k] = Outcome(s, q)[k]
  BY <1>1, OutcomePrefix
<1> QED BY <1>1, <1>2, <1>3 DEF FinalStatus, d

(* The lists nx_event_add() can build: events that take part in an         *)
(* alternation carry no data, so their types alone tell them apart.        *)
AltTypes == {"PAUSE", "RESUME", "DATA_AVAILABLE", "POLL"}
Dataless(q) == \A i, j \in DOMAIN q : q[i].type \in AltTypes /\ q[i].type = q[j].type
                                       => q[i] = q[j]

(* _event_dedupe() removes no event without leaving an equal one in the    *)
(* list, whatever the list.                                                *)
THEOREM DedupeKeepsEvents ==
  ASSUME NEW S, NEW q \in Seq(S), Dataless(q), NEW j \in 1..Len(q)
  PROVE  \E i \in 1..Len(Dedupe(q)) : Dedupe(q)[i] = q[j]
<1> DEFINE All(n) == \A x \in 1..n : \E y \in 1..Kept(q)[n] : q[y] = q[x]
           T == {n \in 0..Len(q) : All(n)}
<1>0. Len(q) \in Nat
  OBVIOUS
<1>1. ASSUME NEW n \in 0..Len(q), Redundant(q, n) = 0 PROVE n \in T
  BY <1>1, KeptDef
<1>2. ASSUME NEW n \in 0..Len(q), Redundant(q, n) # 0, n - Redundant(q, n) \in T
      PROVE  n \in T
  <2> DEFINE r == Redundant(q, n)
  <2>1. Kept(q)[n] = Kept(q)[n - r]
    BY <1>2, KeptDef
  <2>2. /\ r \in {1, 2} /\ n - r \in 0..n
        /\ r = 1 => n >= 2 /\ q[n] = q[n - 1]
        /\ r = 2 => /\ n >= 4 /\ q[n - 3].type = q[n - 1].type
                    /\ q[n - 2].type = q[n].type
                    /\ <<q[n - 1].type, q[n].type>> \in Alternations
    BY <1>0, <1>2 DEF Redundant
  <2> HIDE DEF r
  <2>3. \A x \in 1..n : \E y \in 1..(n - r) : q[y] = q[x]
    <3> TAKE x \in 1..n
    <3>1. CASE x \in 1..(n - r)
      BY <3>1
    <3>2. CASE r = 1 /\ x = n
      <4>1. n - 1 \in 1..(n - r) /\ q[n - 1] = q[x]
        BY <3>2, <2>2, <1>0
      <4> QED BY <4>1
    <3>3. CASE r = 2 /\ x \in {n - 1, n}
      <4>1. /\ x - 2 \in 1..(n - r) /\ x - 2 \in DOMAIN q /\ x \in DOMAIN q
            /\ q[x - 2].type = q[x].type
        BY <3>3, <2>2, <1>0
      <4>2. q[x].type \in AltTypes
        BY <3>3, <2>2 DEF Alternations, AltTypes
      <4>3. q[x - 2] = q[x]
        BY <4>1, <4>2 DEF Dataless
      <4> QED BY <4>1, <4>3
    <3> QED BY <3>1, <3>2, <3>3, <2>2, <1>0
  <2>4. All(n - r)
    BY <1>2 DEF r
  <2>5. All(n)
    <3> TAKE x \in 1..n
    <3>1. PICK y \in 1..(n - r) : q[y] = q[x]
      BY <2>3
    <3>2. PICK z \in 1..Kept(q)[n - r] : q[z] = q[y]
      BY <2>4
    <3> QED BY <3>1, <3>2, <2>1
  <2> QED BY <2>5
<1>3. 0..Len(q) \subseteq T
  <2> HIDE DEF T
  <2> QED BY <1>1, <1>2, RoundInduction
<1>4. PICK y \in 1..Kept(q)[Len(q)] : q[y] = q[j]
  BY <1>3, <1>0
<1> QED BY <1>4, DedupePrefix

(* The two together, for an event that is appended.                        *)
THEOREM EnqueueFacts ==
  ASSUME NEW S, NEW q \in Seq(S), NEW e \in S, NEW s \in Statuses
  PROVE  /\ Enqueue(q, e) \in Seq(S)
         /\ Len(Enqueue(q, e)) \in 1..(Len(q) + 1)
         /\ FinalStatus(s, Enqueue(q, e)) = StatusAfter(FinalStatus(s, q), e.type)
<1> DEFINE a == Append(q, e)
<1>1. a \in Seq(S) /\ Len(a) = Len(q) + 1 /\ Len(q) \in Nat
  OBVIOUS
<1>2. FinalStatus(s, a) = StatusAfter(FinalStatus(s, q), e.type)
  BY FinalStatusAppend
<1> HIDE DEF a
<1>3. Dedupe(a) \in Seq(S) /\ Len(Dedupe(a)) \in 1..Len(a)
  <2> DEFINE k == Kept(a)[Len(a)]
  <2>1. /\ k \in 0..Len(a) /\ (Len(a) > 0 => k > 0)
        /\ Dedupe(a) \in Seq(S) /\ Len(Dedupe(a)) = k
    BY <1>1, DedupePrefix
  <2> HIDE DEF k
  <2> QED BY <2>1, <1>1
<1>4. FinalStatus(s, Dedupe(a)) = FinalStatus(s, a)
  BY <1>1, DedupeKeepsOutcome
<1> QED BY <1>1, <1>2, <1>3, <1>4 DEF Enqueue, a

-----------------------------------------------------------------------------
(* Removal of the events about one connection.                             *)

(* Sifted(q, d) solves its own recursion equation: an event is dropped if  *)
(* it is about d and appended otherwise.                                   *)
LEMMA SiftedDef ==
  ASSUME NEW S, NEW q \in Seq(S), NEW d
  PROVE  /\ Sifted(q, d)[0] = <<>>
         /\ \A i \in 1..Len(q) :
               Sifted(q, d)[i] = IF q[i].data = d THEN Sifted(q, d)[i - 1]
                                 ELSE Append(Sifted(q, d)[i - 1], q[i])
<1> DEFINE Step(x, i) == IF i = 0 THEN <<>>
                         ELSE IF q[i].data = d THEN x ELSE Append(x, q[i])
           Sol(m, f) == f = [i \in 0..m |-> Step(f[i - 1], i)]
           T == {m \in Nat : \E f : Sol(m, f)}
<1>1. 0 \in T
  <2>1. Sol(0, [i \in 0..0 |-> <<>>])
    OBVIOUS
  <2> QED BY <2>1
<1>2. ASSUME NEW m \in Nat, m \in T PROVE m + 1 \in T
  <2>1. PICK f : Sol(m, f)
    BY <1>2
  <2> DEFINE g == [i \in 0..(m + 1) |-> IF i = m + 1 THEN Step(f[m], m + 1) ELSE f[i]]
  <2> HIDE DEF Step
  <2>2. \A i \in 0..m : g[i] = f[i]
    OBVIOUS
  <2>3. ASSUME NEW i \in 0..(m + 1) PROVE g[i] = Step(g[i - 1], i)
    <3>1. CASE i = m + 1
      BY <3>1, <2>2
    <3>2. CASE i = 0
      BY <3>2, <2>1, <2>2 DEF Step
    <3>3. CASE i \in 1..m
      <4>1. g[i] = f[i] /\ g[i - 1] = f[i - 1] /\ f[i] = Step(f[i - 1], i)
        BY <3>3, <2>1, <2>2
      <4> HIDE DEF g
      <4> QED BY <4>1
    <3> QED BY <3>1, <3>2, <3>3
  <2>4. Sol(m + 1, g)
    BY <2>3
  <2>5. m + 1 \in Nat
    OBVIOUS
  <2> HIDE DEF g, Sol
  <2> QED BY <2>4, <2>5
<1>3. Nat \subseteq T
  <2> HIDE DEF T
  <2> QED BY <1>1, <1>2, SetInduction
<1>4. Len(q) \in T
  <2> HIDE DEF T
  <2> QED BY <1>3
<1> DEFINE w == Sifted(q, d)
<1>5. w = CHOOSE f : Sol(Len(q), f)
  BY DEF Sifted
<1>6. Sol(Len(q), w)
  <2>1. \E f : Sol(Len(q), f)
    BY <1>4
  <2> HIDE DEF Sol, w
  <2> QED BY <2>1, <1>5
<1> HIDE DEF w, Step
<1>7. \A i \in 0..Len(q) : w[i] = Step(w[i - 1], i)
  BY <1>6
<1>8. w[0] = <<>>
  <2>1. w[0] = Step(w[0 - 1], 0)
    BY <1>7
  <2> QED BY <2>1, Zenon DEF Step
<1>9. ASSUME NEW i \in 1..Len(q)
      PROVE  w[i] = IF q[i].data = d THEN w[i - 1] ELSE Append(w[i - 1], q[i])
  <2>1. i # 0 /\ w[i] = Step(w[i - 1], i)
    BY <1>7
  <2> QED BY <2>1, Zenon DEF Step
<1> QED BY <1>8, <1>9 DEF w

(* The events about d set no status; p has every event of q that is not    *)
(* about d.                                                                *)
Neutral(S, d) ==
  \A e \in S : e.data = d => \A x \in Statuses : StatusAfter(x, e.type) = x

KeepsOthers(p, q, d) ==
  \A j \in DOMAIN q : q[j].data # d => \E i \in DOMAIN p : p[i] = q[j]

(* nx_module_remove_events_by_data() keeps every event about something     *)
(* else, and the status the list leads to.                                 *)
THEOREM WithoutFacts ==
  ASSUME NEW S, NEW q \in Seq(S), NEW d, NEW s \in Statuses, Neutral(S, d)
  PROVE  /\ Without(q, d) \in Seq(S)
         /\ Len(Without(q, d)) <= Len(q)
         /\ FinalStatus(s, Without(q, d)) = FinalStatus(s, q)
         /\ KeepsOthers(Without(q, d), q, d)
<1> DEFINE w == Sifted(q, d)
           P(n) == /\ w[n] \in Seq(S) /\ Len(w[n]) <= n
                   /\ FinalStatus(s, w[n]) = Outcome(s, q)[n]
                   /\ \A j \in 1..n : q[j].data # d =>
                        \E i \in 1..Len(w[n]) : w[n][i] = q[j]
           T == {n \in Nat : n <= Len(q) => P(n)}
<1>0. /\ Len(q) \in Nat /\ w[0] = <<>>
      /\ \A i \in 1..Len(q) :
            w[i] = IF q[i].data = d THEN w[i - 1] ELSE Append(w[i - 1], q[i])
  BY SiftedDef
<1>1. /\ Outcome(s, q) \in [0..Len(q) -> Statuses] /\ Outcome(s, q)[0] = s
      /\ \A i \in 1..Len(q) :
            Outcome(s, q)[i] = StatusAfter(Outcome(s, q)[i - 1], q[i].type)
  BY OutcomeDef
<1> HIDE DEF w
<1>2. 0 \in T
  <2>1. <<>> \in Seq(S) /\ Len(<<>>) = 0
    OBVIOUS
  <2>2. FinalStatus(s, <<>>) = s
    BY <2>1, OutcomeDef DEF FinalStatus
  <2>3. P(0)
    BY <2>1, <2>2, <1>0, <1>1
  <2> HIDE DEF P
  <2> QED BY <2>3
<1>3. ASSUME NEW n \in Nat, n \in T PROVE n + 1 \in T
  <2> SUFFICES ASSUME n + 1 <= Len(q) PROVE P(n + 1)
    <3> HIDE DEF P
    <3> QED OBVIOUS
  <2> DEFINE e == q[n + 1]
  <2>1. n + 1 \in 1..Len(q) /\ (n + 1) - 1 = n /\ e \in S /\ n \in 0..Len(q)
    BY <1>0
  <2>2. P(n)
    BY <1>3, <1>0
  <2>3. /\ w[n + 1] = IF e.data = d THEN w[n] ELSE Append(w[n], e)
        /\ Outcome(s, q)[n + 1] = StatusAfter(Outcome(s, q)[n], e.type)
        /\ Outcome(s, q)[n] \in Statuses
    BY <2>1, <1>0, <1>1
  <2>4. CASE e.data = d
    <3>1. w[n + 1] = w[n] /\ Outcome(s, q)[n + 1] = Outcome(s, q)[n]
      BY <2>1, <2>3, <2>4 DEF Neutral
    <3>2. \A j \in 1..(n + 1) : q[j].data # d => j \in 1..n
      BY <2>4
    <3> QED BY <3>1, <3>2, <2>2
  <2>5. CASE e.data # d
    <3> DEFINE v == w[n]
    <3>1. w[n + 1] = Append(v, e)
      BY <2>3, <2>5
    <3>2. v \in Seq(S) /\ Len(v) <= n
      BY <2>2
    <3> HIDE DEF v
    <3>3. /\ Append(v, e) \in Seq(S) /\ Len(Append(v, e)) = Len(v) + 1
          /\ Append(v, e)[Len(v) + 1] = e /\ Len(v) \in Nat
          /\ \A i \in 1..Len(v) : Append(v, e)[i] = v[i]
      BY <3>2, <2>1
    <3>4. FinalStatus(s, Append(v, e)) = Outcome(s, q)[n + 1]
      <4>1. FinalStatus(s, Append(v, e)) = StatusAfter(FinalStatus(s, v), e.type)
        BY <3>2, <2>1, FinalStatusAppend
      <4> QED BY <4>1, <2>2, <2>3 DEF v
    <3>5. ASSUME NEW j \in 1..(n + 1), q[j].data # d
          PROVE  \E i \in 1..Len(Append(v, e)) : Append(v, e)[i] = q[j]
      <4>1. CASE j = n + 1
        <5>1. Len(v) + 1 \in 1..Len(Append(v, e))
          BY <3>3
        <5> QED BY <4>1, <5>1, <3>3
      <4>2. CASE j \in 1..n
        <5>1. PICK i \in 1..Len(v) : v[i] = q[j]
          BY <2>2, <3>5, <4>2 DEF v
        <5>2. i \in 1..Len(Append(v, e)) /\ Append(v, e)[i] = q[j]
          BY <5>1, <3>3
        <5> QED BY <5>2
      <4> QED BY <4>1, <4>2
    <3>6. Len(Append(v, e)) <= n + 1
      BY <3>2, <3>3
    <3> QED BY <3>1, <3>3, <3>4, <3>5, <3>6
  <2> QED BY <2>4, <2>5
<1>4. Nat \subseteq T
  <2> HIDE DEF T
  <2> QED BY <1>2, <1>3, SetInduction
<1>5. P(Len(q))
  BY <1>4, <1>0
<1>6. KeepsOthers(w[Len(q)], q, d)
  <2> SUFFICES ASSUME NEW j \in DOMAIN q, q[j].data # d
               PROVE  \E i \in DOMAIN w[Len(q)] : w[Len(q)][i] = q[j]
    BY DEF KeepsOthers
  <2>1. PICK i \in 1..Len(w[Len(q)]) : w[Len(q)][i] = q[j]
    BY <1>5
  <2> QED BY <2>1, <1>5
<1> QED BY <1>5, <1>6 DEF FinalStatus, Without, w

-----------------------------------------------------------------------------
(* nx_event_to_jobqueue() leaves a beginning of the longer list ...        *)
LEMMA EnqueuePrefix ==
  ASSUME NEW S, NEW q \in Seq(S), NEW e \in S
  PROVE  /\ Enqueue(q, e) \in Seq(S)
         /\ Len(Enqueue(q, e)) \in 0..(Len(q) + 1)
         /\ \A i \in 1..Len(Enqueue(q, e)) :
               Enqueue(q, e)[i] = IF i = Len(q) + 1 THEN e ELSE q[i]
<1> DEFINE a == Append(q, e)
<1>1. /\ a \in Seq(S) /\ Len(a) = Len(q) + 1 /\ Len(q) \in Nat
      /\ \A i \in 1..Len(a) : a[i] = IF i = Len(q) + 1 THEN e ELSE q[i]
  OBVIOUS
<1>2. Enqueue(q, e) = Dedupe(a)
  BY DEF Enqueue
<1> HIDE DEF a
<1>3. /\ Kept(a)[Len(a)] \in 0..Len(a)
      /\ Dedupe(a) \in Seq(S) /\ Len(Dedupe(a)) = Kept(a)[Len(a)]
      /\ \A i \in 1..Kept(a)[Len(a)] : Dedupe(a)[i] = a[i]
  BY <1>1, DedupePrefix
<1> QED BY <1>1, <1>2, <1>3

(* ... in which every event still is, the new one included.                *)
LEMMA EnqueueKeeps ==
  ASSUME NEW S, NEW q \in Seq(S), NEW e \in S, Dataless(Append(q, e))
  PROVE  /\ \A j \in 1..Len(q) : \E i \in 1..Len(Enqueue(q, e)) : Enqueue(q, e)[i] = q[j]
         /\ \E i \in 1..Len(Enqueue(q, e)) : Enqueue(q, e)[i] = e
<1> DEFINE a == Append(q, e)
<1>1. /\ a \in Seq(S) /\ Len(a) = Len(q) + 1 /\ Len(q) \in Nat
      /\ a[Len(q) + 1] = e /\ \A i \in 1..Len(q) : a[i] = q[i]
  OBVIOUS
<1>2. Enqueue(q, e) = Dedupe(a) /\ Dataless(a)
  BY DEF Enqueue
<1> HIDE DEF a
<1>3. \A j \in 1..Len(a) : \E i \in 1..Len(Dedupe(a)) : Dedupe(a)[i] = a[j]
  BY <1>1, <1>2, DedupeKeepsEvents
<1>4. Len(q) + 1 \in 1..Len(a) /\ \A j \in 1..Len(q) : j \in 1..Len(a)
  BY <1>1
<1> QED BY <1>1, <1>2, <1>3, <1>4

(* _event_dedupe() keeps an order: an event of an alternation that is      *)
(* behind one of another kind has, if that one stays, an equal behind it.  *)
LEMMA DedupeBehind ==
  ASSUME NEW S, NEW q \in Seq(S),
         NEW x \in 1..Len(Dedupe(q)), q[x].type \notin AltTypes,
         NEW z \in x + 1..Len(q), q[z].type \in AltTypes
  PROVE  \E y \in x + 1..Len(Dedupe(q)) : Dedupe(q)[y].type = q[z].type
<1> DEFINE All(n) == x <= Kept(q)[n] =>
                       \A v \in x + 1..n : q[v].type \in AltTypes =>
                          \E y \in x + 1..Kept(q)[n] : q[y].type = q[v].type
           T == {n \in 0..Len(q) : All(n)}
<1>0. Len(q) \in Nat /\ x \in Nat
  BY DedupePrefix
<1>1. ASSUME NEW n \in 0..Len(q), Redundant(q, n) = 0 PROVE n \in T
  BY <1>1, KeptDef
<1>2. ASSUME NEW n \in 0..Len(q), Redundant(q, n) # 0, n - Redundant(q, n) \in T
      PROVE  n \in T
  <2> DEFINE r == Redundant(q, n)
  <2>1. Kept(q)[n] = Kept(q)[n - r] /\ All(n - r)
    BY <1>2, KeptDef
  <2>2. /\ r \in {1, 2} /\ n - r \in 0..n
        /\ r = 1 => n >= 2 /\ q[n] = q[n - 1]
        /\ r = 2 => /\ n >= 4 /\ q[n - 3].type = q[n - 1].type
                    /\ q[n - 2].type = q[n].type
                    /\ <<q[n - 1].type, q[n].type>> \in Alternations
    BY <1>0, <1>2 DEF Redundant
  <2>3. Kept(q)[n - r] \in 0..n - r
    BY <1>0, <2>2, KeptRange
  <2> HIDE DEF r
  <2>4. ASSUME NEW v \in x + 1..n, q[v].type \in AltTypes, x <= Kept(q)[n]
        PROVE  \E u \in x + 1..n - r : q[u].type = q[v].type
    <3>0. x <= n - r
      BY <1>0, <2>1, <2>2, <2>3, <2>4
    <3>1. CASE v <= n - r
      BY <1>0, <2>2, <3>1
    <3>2. CASE r = 1 /\ v = n
      <4>1. x # n - 1
        BY <2>2, <2>4, <3>2
      <4>2. n - 1 \in x + 1..n - r /\ q[n - 1].type = q[v].type
        BY <1>0, <2>2, <3>0, <3>2, <4>1
      <4> QED BY <4>2
    <3>3. CASE r = 2 /\ v \in {n - 1, n}
      <4>1. q[n - 3].type \in AltTypes /\ q[n - 2].type \in AltTypes
        BY <2>2, <3>3 DEF Alternations, AltTypes
      <4>2. x # n - 3 /\ x # n - 2
        BY <4>1
      <4>3. v - 2 \in x + 1..n - r /\ q[v - 2].type = q[v].type
        BY <1>0, <2>2, <3>0, <3>3, <4>2
      <4> QED BY <4>3
    <3> QED BY <1>0, <2>2, <3>1, <3>2, <3>3
  <2>5. All(n)
    <3> SUFFICES ASSUME x <= Kept(q)[n], NEW v \in x + 1..n, q[v].type \in AltTypes
                 PROVE  \E y \in x + 1..Kept(q)[n] : q[y].type = q[v].type
      OBVIOUS
    <3>1. PICK u \in x + 1..n - r : q[u].type = q[v].type
      BY <2>4
    <3> QED BY <2>1, <3>1
  <2> QED BY <2>5
<1>3. 0..Len(q) \subseteq T
  <2> HIDE DEF T
  <2> QED BY <1>1, <1>2, RoundInduction
<1>4. /\ Len(Dedupe(q)) = Kept(q)[Len(q)] /\ Len(Dedupe(q)) \in 0..Len(q)
      /\ \A i \in 1..Len(Dedupe(q)) : Dedupe(q)[i] = q[i]
  BY DedupePrefix
<1>5. All(Len(q))
  BY <1>0, <1>3
<1>6. PICK y \in x + 1..Len(Dedupe(q)) : q[y].type = q[z].type
  BY <1>0, <1>4, <1>5
<1> QED BY <1>0, <1>4, <1>6
=============================================================================
