--------------------------- MODULE TcpLinkProofs ---------------------------
(***************************************************************************)
(* om_tcp and im_tcp over connections that break, for any number and       *)
(* length of records, any window and any number of faults: the types, what *)
(* is handed over and read, and that neither side waits for an event that  *)
(* does not come or handles one whose connection is gone.                  *)
(***************************************************************************)
EXTENDS TcpLink, EventQueueProofs, FiniteSetTheorems

-----------------------------------------------------------------------------
(* The sender: what its handler relies on, and that the queue holds the    *)
(* records from the one at hand to the last one pushed.                    *)
RecordInv ==
  /\ pc # "idle" => status = "RUNNING"
  /\ Len(queue) <= pushed
  /\ \A i \in 1..Len(queue) : queue[i] = pushed - Len(queue) + i
  /\ \/ output = Empty
     \/ /\ queue # <<>> /\ output.logdata = Head(queue)
        /\ output.buflen > 0 /\ output.bufstart + output.buflen = RecLen

SenderInv == TypeOK /\ RecordInv /\ HandedOverOnce

(* An event left from an earlier connection: om_tcp_read() stops polling   *)
(* for POLLOUT because of it, but the DATA_AVAILABLE of om_tcp_start() is  *)
(* always behind it.                                                       *)
FollowedIn(q) ==
  \A x \in 1..Len(q) : q[x].type = "READ" =>
     \E y \in x + 1..Len(q) : q[y].type = "DATA_AVAILABLE"

Followed == status = "RUNNING" /\ link[sock] = "up" => FollowedIn(events)

GoesOnInv == SenderInv /\ SenderGoesOn /\ Followed

(* The receiver: a connection it knows has been made.                      *)
Unused ==
  \A c \in Conns : link[c] = "none" =>
     c \notin connections /\ wire[c] = <<>> /\ partial[c] = <<>> /\ lines[c] = <<>>

InputsInv == TypeOK /\ EventsHaveInputs /\ Unused

-----------------------------------------------------------------------------
(* One byte after the other: the byte behind b, and the one that is sent   *)
(* next.                                                                   *)
After(b) == IF IsLF(b) THEN <<b[1] + 1, 1>> ELSE <<b[1], b[2] + 1>>
Upcoming == <<pushed - Len(queue) + 1, output.bufstart + 1>>

Torn(l, i) ==
  \E r \in 1..NumRecords, k \in 1..RecLen :
     l = [j \in 1..RecLen - k |-> <<r, k + j - 1>>] /\ (i > 1 => k = 1)

(* The lines ls, the incomplete line ctx and the bytes of w behind the     *)
(* n-th are a piece of the stream.                                         *)
Reading(ls, ctx, w, n) ==
  /\ \A i \in 1..Len(ls) : Torn(ls[i], i)
  /\ \A j \in 1..Len(ctx) : ctx[j] = <<ctx[1][1], ctx[1][2] + j - 1>> /\ ~IsLF(ctx[j])
  /\ \A j \in n + 1..Len(w) - 1 : w[j + 1] = After(w[j])
  /\ ctx # <<>> /\ n < Len(w) => w[n + 1] = After(ctx[Len(ctx)])
  /\ ls # <<>> /\ ctx # <<>> => ctx[1][2] = 1
  /\ ls # <<>> /\ ctx = <<>> /\ n < Len(w) => w[n + 1][2] = 1

(* The byte u continues it.                                                *)
Continues(ls, ctx, w, n, u) ==
  /\ n < Len(w) => u = After(w[Len(w)])
  /\ n = Len(w) /\ ctx # <<>> => u = After(ctx[Len(ctx)])
  /\ n = Len(w) /\ ctx = <<>> /\ ls # <<>> => u[2] = 1

Streams ==
  /\ \A c \in Conns : Reading(lines[c], partial[c], wire[c], 0)
  /\ sock # 0 /\ link[sock] = "up" =>
        Continues(lines[sock], partial[sock], wire[sock], 0, Upcoming)

-----------------------------------------------------------------------------
(* A set of numbers has its least one in it.                               *)
LEMMA MinFacts ==
  ASSUME NEW S, S \subseteq Nat, S # {}
  PROVE  Min(S) \in S /\ \A x \in S : Min(S) <= x
<1>1. \E m \in S : \A n \in S : m <= n
  BY LeastNat
<1> QED BY <1>1 DEF Min

(* nx_module_remove_events_by_data() leaves only events about others.      *)
LEMMA WithoutOnly ==
  ASSUME NEW S, NEW q \in Seq(S), NEW d
  PROVE  Without(q, d) \in Seq({e \in S : e.data # d})
<1> DEFINE w == Sifted(q, d)
           R == {e \in S : e.data # d}
           T == {n \in Nat : n <= Len(q) => w[n] \in Seq(R)}
<1>0. /\ Len(q) \in Nat /\ w[0] = <<>>
      /\ \A i \in 1..Len(q) :
            w[i] = IF q[i].data = d THEN w[i - 1] ELSE Append(w[i - 1], q[i])
  BY SiftedDef
<1> HIDE DEF w
<1>1. 0 \in T
  <2> HIDE DEF R
  <2>1. w[0] \in Seq(R)
    BY <1>0
  <2> QED BY <2>1
<1>2. ASSUME NEW n \in Nat, n \in T PROVE n + 1 \in T
  <2> SUFFICES ASSUME n + 1 <= Len(q) PROVE w[n + 1] \in Seq(R)
    OBVIOUS
  <2>1. /\ n + 1 \in 1..Len(q) /\ q[n + 1] \in S /\ w[n] \in Seq(R)
        /\ w[n + 1] = IF q[n + 1].data = d THEN w[n] ELSE Append(w[n], q[n + 1])
    BY <1>0, <1>2
  <2> QED BY <2>1
<1>3. Nat \subseteq T
  <2> HIDE DEF T
  <2> QED BY <1>1, <1>2, SetInduction
<1> QED BY <1>0, <1>3 DEF Without, w

(* im_tcp_free_input() for every connection in cs.                         *)
LEMMA FreedFacts ==
  ASSUME NEW S, NEW q \in Seq(S), NEW cs, cs \subseteq Conns
  PROVE  Freed(q, cs)[MaxConns] \in Seq({e \in S : e.data \notin cs})
<1> DEFINE Eq(f) == f = [n \in 0..MaxConns |->
                 IF n = 0 THEN q ELSE IF n \in cs THEN Without(f[n - 1], n) ELSE f[n - 1]]
           w == Freed(q, cs)
           R(n) == {e \in S : e.data \notin cs \cap 1..n}
           T == {n \in Nat : n <= MaxConns => w[n] \in Seq(S) /\ w[n] \in Seq(R(n))}
<1>0. MaxConns \in Nat
  BY TcpAssumption
<1>2. ASSUME NEW p \in Seq(S), NEW n PROVE Without(p, n) \in Seq(S)
  <2> DEFINE U == {e \in S : e.data # n}
  <2>1. Without(p, n) \in Seq(U) /\ U \subseteq S
    BY WithoutOnly
  <2> HIDE DEF U
  <2> QED BY <2>1, SeqWithin
<1>3. \E f : Eq(f)
  <2> DEFINE X == Seq(S)
             g == [n \in 1..MaxConns |-> [p \in X |-> IF n \in cs THEN Without(p, n) ELSE p]]
  <2>1. g \in [1..MaxConns -> [X -> X]]
    BY <1>2
  <2>2. PICK f \in [0..MaxConns -> X] : f[0] = q /\ \A i \in 1..MaxConns : f[i] = g[i][f[i - 1]]
    <3> HIDE DEF g, X
    <3>1. q \in X
      BY DEF X
    <3>2. Steps(g, X, MaxConns)
      BY <1>0, <2>1 DEF Steps
    <3>3. PICK f : Solves(f, q, g, X, MaxConns)
      BY <3>1, <3>2, Recursion
    <3> QED BY <3>3 DEF Solves
  <2>3. ASSUME NEW i \in 1..MaxConns
        PROVE  f[i] = IF i \in cs THEN Without(f[i - 1], i) ELSE f[i - 1]
    <3>1. f[i - 1] \in X /\ f[i] = g[i][f[i - 1]]
      <4>1. i - 1 \in 0..MaxConns
        BY <1>0
      <4> HIDE DEF X, g
      <4> QED BY <2>2, <4>1
    <3> QED BY <3>1
  <2>4. Eq(f)
    <3> HIDE DEF X
    <3> QED BY <1>0, <2>2, <2>3
  <2> QED BY <2>4
<1>4. Eq(w)
  <2>1. w = CHOOSE f : Eq(f)
    BY DEF Freed
  <2> HIDE DEF Eq, w
  <2> QED BY <1>3, <2>1
<1>5. /\ w[0] = q
      /\ \A n \in 1..MaxConns : w[n] = IF n \in cs THEN Without(w[n - 1], n) ELSE w[n - 1]
  <2> HIDE DEF w
  <2> QED BY <1>0, <1>4
<1> HIDE DEF w
<1>6. 0 \in T
  BY <1>5
<1>7. ASSUME NEW n \in Nat, n \in T PROVE n + 1 \in T
  <2> SUFFICES ASSUME n + 1 <= MaxConns PROVE w[n + 1] \in Seq(S) /\ w[n + 1] \in Seq(R(n + 1))
    OBVIOUS
  <2>1. /\ w[n] \in Seq(S) /\ w[n] \in Seq(R(n))
        /\ w[n + 1] = IF n + 1 \in cs THEN Without(w[n], n + 1) ELSE w[n]
    BY <1>0, <1>5, <1>7
  <2>2. CASE n + 1 \in cs
    <3> DEFINE v == Without(w[n], n + 1)
               U == {e \in R(n) : e.data # n + 1}
    <3>1. v \in Seq(U) /\ v \in Seq(S)
      BY <1>2, <2>1, WithoutOnly
    <3>2. U \subseteq R(n + 1)
      OBVIOUS
    <3> HIDE DEF v, U, R
    <3>3. v \in Seq(R(n + 1))
      BY <3>1, <3>2, SeqWithin
    <3> QED BY <2>1, <2>2, <3>1, <3>3 DEF v
  <2>3. CASE n + 1 \notin cs
    <3>1. R(n) \subseteq R(n + 1)
      BY <2>3
    <3> HIDE DEF R
    <3>2. w[n] \in Seq(R(n + 1))
      BY <2>1, <3>1, SeqWithin
    <3> QED BY <2>1, <2>3, <3>2
  <2> QED BY <2>2, <2>3
<1>8. Nat \subseteq T
  <2> HIDE DEF T
  <2> QED BY <1>6, <1>7, SetInduction
<1>9. w[MaxConns] \in Seq(S) /\ w[MaxConns] \in Seq(R(MaxConns))
  BY <1>0, <1>8
<1>10. R(MaxConns) \subseteq {e \in S : e.data \notin cs}
  BY DEF Conns
<1> DEFINE V == {e \in S : e.data \notin cs}
           U == R(MaxConns)
<1>11. w[MaxConns] \in Seq(U) /\ U \subseteq V
  BY <1>9, <1>10
<1> HIDE DEF U, V
<1>12. w[MaxConns] \in Seq(V)
  BY <1>11, SeqWithin
<1> QED BY <1>12 DEF w, V

(* The events posted for the descriptors poll() has found ready.           *)
LEMMA AnnouncedFacts ==
  ASSUME NEW S, NEW q \in Seq(S), NEW D, NEW order \in Seq(D), NEW hup,
         \A d \in D : EvOn("READ", d) \in S,
         \A d \in D : d \in hup => EvOn("DISCONNECT", d) \in S
  PROVE  Announced(q, order, hup)[Len(order)] \in Seq(S)
<1> DEFINE N == Len(order)
           X == Seq(S)
           Step(p, d) == PostIf(Enqueue(p, EvOn("READ", d)), d \in hup, EvOn("DISCONNECT", d))
           Eq(f) == f = [n \in 0..N |-> IF n = 0 THEN q ELSE Step(f[n - 1], order[n])]
           w == Announced(q, order, hup)
<1>0. N \in Nat /\ q \in X /\ \A n \in 1..N : order[n] \in D
  OBVIOUS
<1>1. ASSUME NEW p \in X, NEW d \in D PROVE Step(p, d) \in X
  <2>1. Enqueue(p, EvOn("READ", d)) \in Seq(S)
    BY EnqueuePrefix
  <2> QED BY <2>1, EnqueuePrefix DEF PostIf
<1>2. w = CHOOSE f : Eq(f)
  BY DEF Announced
<1> HIDE DEF N, X, Step
<1>3. \E f : Eq(f)
  <2> DEFINE g == [n \in 1..N |-> [p \in X |-> Step(p, order[n])]]
  <2>1. g \in [1..N -> [X -> X]]
    BY <1>0, <1>1
  <2>2. PICK f \in [0..N -> X] : f[0] = q /\ \A i \in 1..N : f[i] = g[i][f[i - 1]]
    <3> HIDE DEF g
    <3>1. Steps(g, X, N)
      BY <1>0, <2>1 DEF Steps
    <3>2. PICK f : Solves(f, q, g, X, N)
      BY <1>0, <3>1, Recursion
    <3> QED BY <3>2 DEF Solves
  <2>3. ASSUME NEW i \in 1..N PROVE f[i] = Step(f[i - 1], order[i])
    <3>1. f[i - 1] \in X /\ f[i] = g[i][f[i - 1]]
      <4>1. i - 1 \in 0..N
        BY <1>0
      <4> HIDE DEF g
      <4> QED BY <2>2, <4>1
    <3> QED BY <3>1
  <2>4. Eq(f)
    BY <1>0, <2>2, <2>3
  <2> QED BY <2>4
<1>4. Eq(w)
  <2> HIDE DEF Eq, w
  <2> QED BY <1>2, <1>3
<1> HIDE DEF w
<1>5. w[0] = q /\ \A n \in 1..N : w[n] = Step(w[n - 1], order[n])
  BY <1>0, <1>4
<1>6. \A n \in 1..N : w[n - 1] \in X => w[n] \in X
  BY <1>0, <1>1, <1>5
<1>7. \A n \in 0..N : w[n] \in X
  BY <1>0, <1>5, <1>6, RecursionIn
<1> QED BY <1>0, <1>7 DEF w, N, X

(* What nx_module_input_func_linereader() has made of the first n bytes.   *)
Inputs == [lines : Seq(Seq(Bytes)), ctx : Seq(Bytes)]

(* The line reader's state after n bytes is its state after n - 1 bytes,   *)
(* fed with byte n: the recursive function Fed satisfies its defining      *)
(* equation.                                                               *)
LEMMA FedFacts ==
  ASSUME NEW r \in Inputs, NEW bytes \in Seq(Bytes)
  PROVE  /\ Fed(r, bytes)[0] = r
         /\ \A n \in 1..Len(bytes) :
               Fed(r, bytes)[n] = Feed(Fed(r, bytes)[n - 1], bytes[n])
         /\ \A n \in 0..Len(bytes) : Fed(r, bytes)[n] \in Inputs
<1> DEFINE N == Len(bytes)
           Eq(f) == f = [n \in 0..N |-> IF n = 0 THEN r ELSE Feed(f[n - 1], bytes[n])]
           w == Fed(r, bytes)
<1>0. N \in Nat /\ \A n \in 1..N : bytes[n] \in Bytes
  OBVIOUS
<1>1. ASSUME NEW x \in Inputs, NEW b \in Bytes PROVE Feed(x, b) \in Inputs
  <2>1. x.lines \in Seq(Seq(Bytes)) /\ x.ctx \in Seq(Bytes)
    BY DEF Inputs
  <2> DEFINE B == Bytes
             C == Seq(B)
  <2> HIDE DEF B
  <2>2. Append(x.ctx, b) \in C /\ <<>> \in C
    BY <2>1 DEF B
  <2> HIDE DEF C
  <2>3. Append(x.lines, x.ctx) \in Seq(C)
    BY <2>1 DEF C, B
  <2> QED BY <2>2, <2>3 DEF Feed, Inputs, C, B
<1>2. w = CHOOSE f : Eq(f)
  BY DEF Fed
<1> HIDE DEF N
<1>3. \E f : Eq(f)
  <2> DEFINE g == [n \in 1..N |-> [x \in Inputs |-> Feed(x, bytes[n])]]
  <2>1. g \in [1..N -> [Inputs -> Inputs]]
    BY <1>0, <1>1
  <2>2. PICK f \in [0..N -> Inputs] : f[0] = r /\ \A i \in 1..N : f[i] = g[i][f[i - 1]]
    <3> HIDE DEF g
    <3>1. Steps(g, Inputs, N)
      BY <1>0, <2>1 DEF Steps
    <3>2. PICK f : Solves(f, r, g, Inputs, N)
      BY <1>0, <3>1, Recursion
    <3> QED BY <3>2 DEF Solves
  <2>3. ASSUME NEW i \in 1..N PROVE f[i] = Feed(f[i - 1], bytes[i])
    <3>1. f[i - 1] \in Inputs /\ f[i] = g[i][f[i - 1]]
      <4>1. i - 1 \in 0..N
        BY <1>0
      <4> HIDE DEF g
      <4> QED BY <2>2, <4>1
    <3> QED BY <3>1
  <2>4. Eq(f)
    BY <1>0, <2>2, <2>3
  <2> QED BY <2>4
<1>4. Eq(w)
  <2> HIDE DEF Eq, w
  <2> QED BY <1>2, <1>3
<1> HIDE DEF w
<1>5. w[0] = r /\ \A n \in 1..N : w[n] = Feed(w[n - 1], bytes[n])
  BY <1>0, <1>4
<1>6. \A n \in 1..N : w[n - 1] \in Inputs => w[n] \in Inputs
  BY <1>0, <1>1, <1>5
<1>7. \A n \in 0..N : w[n] \in Inputs
  BY <1>0, <1>5, <1>6, RecursionIn
<1> QED BY <1>0, <1>5, <1>7 DEF w, N

-----------------------------------------------------------------------------
(* The sender's events.                                                    *)

(* What an event of the sender is, by its type.                            *)
LEMMA SenderEventsAre ==
  ASSUME NEW e \in SenderEvents
  PROVE  /\ e.type \in {"START", "RECONNECT", "DISCONNECT", "DATA_AVAILABLE", "POLL",
                        "READ", "WRITE"}
         /\ e.type \in AltTypes => e = Ev(e.type)
BY DEF SenderEvents, Ev, EvOn, AltTypes

(* An event is posted: nothing that was waited for is lost, and a READ     *)
(* that had a DATA_AVAILABLE behind it still has one.                      *)
LEMMA Posting ==
  ASSUME NEW q \in Seq(SenderEvents), NEW e \in SenderEvents
  PROVE  /\ Enqueue(q, e) \in Seq(SenderEvents)
         /\ \A types : Pending(q, types) \/ e.type \in types => Pending(Enqueue(q, e), types)
         /\ e.type # "READ" /\ (FollowedIn(q) \/ e.type = "DATA_AVAILABLE") =>
               FollowedIn(Enqueue(q, e))
<1> DEFINE S == SenderEvents
           a == Append(q, e)
           p == Enqueue(q, e)
<1>1. /\ a \in Seq(S) /\ Len(a) = Len(q) + 1 /\ Len(q) \in Nat
      /\ a[Len(q) + 1] = e /\ \A i \in 1..Len(q) : a[i] = q[i]
      /\ DOMAIN a = 1..Len(a)
  OBVIOUS
<1>2. p = Dedupe(a)
  BY DEF Enqueue
<1> HIDE DEF a
<1>3. Dataless(a)
  <2>1. \A i \in DOMAIN a : a[i].type \in AltTypes => a[i] = Ev(a[i].type)
    BY <1>1, SenderEventsAre
  <2> QED BY <2>1 DEF Dataless
<1>4. /\ p \in Seq(S) /\ Len(p) \in 0..Len(a) /\ DOMAIN p = 1..Len(p)
      /\ \A i \in 1..Len(p) : p[i] = a[i]
  BY <1>1, <1>2, DedupePrefix
<1> HIDE DEF p
<1>5. ASSUME NEW types, Pending(q, types) \/ e.type \in types PROVE Pending(p, types)
  <2>1. PICK j \in 1..Len(a) : a[j].type \in types
    <3>1. CASE Pending(q, types)
      BY <1>1, <3>1 DEF Pending
    <3>2. CASE e.type \in types
      BY <1>1, <3>2
    <3> QED BY <1>5, <3>1, <3>2
  <2>2. PICK i \in 1..Len(p) : p[i] = a[j]
    <3> HIDE DEF S
    <3> QED BY <1>1, <1>2, <1>3, DedupeKeepsEvents
  <2> QED BY <1>4, <2>1, <2>2 DEF Pending
<1>6. ASSUME e.type # "READ", FollowedIn(q) \/ e.type = "DATA_AVAILABLE" PROVE FollowedIn(p)
  <2> SUFFICES ASSUME NEW x \in 1..Len(p), p[x].type = "READ"
               PROVE  \E y \in x + 1..Len(p) : p[y].type = "DATA_AVAILABLE"
    BY DEF FollowedIn
  <2>1. x \in 1..Len(q) /\ a[x].type = "READ" /\ q[x].type = "READ"
    BY <1>1, <1>4, <1>6
  <2>2. PICK z \in x + 1..Len(a) : a[z].type = "DATA_AVAILABLE"
    BY <1>1, <1>6, <2>1 DEF FollowedIn
  <2>3. a[x].type \notin AltTypes /\ a[z].type \in AltTypes
    BY <2>1, <2>2 DEF AltTypes
  <2> HIDE DEF S
  <2> QED BY <1>1, <1>2, <2>2, <2>3, DedupeBehind, SMTT(40)
<1> QED BY <1>4, <1>5, <1>6 DEF p

(* A worker takes the first event.                                         *)
LEMMA Taking ==
  ASSUME NEW q \in Seq(SenderEvents), q # <<>>
  PROVE  /\ Tail(q) \in Seq(SenderEvents) /\ Head(q) \in SenderEvents
         /\ \A types : Pending(q, types) /\ Head(q).type \notin types => Pending(Tail(q), types)
         /\ FollowedIn(q) => FollowedIn(Tail(q))
         /\ FollowedIn(q) /\ Head(q).type = "READ" => Pending(Tail(q), {"DATA_AVAILABLE"})
<1> DEFINE S == SenderEvents
           t == Tail(q)
<1> HIDE DEF S
<1>1. /\ t \in Seq(S) /\ Head(q) \in S /\ Len(q) \in Nat /\ Len(q) >= 1
      /\ Len(t) = Len(q) - 1 /\ Head(q) = q[1]
      /\ \A i \in 1..Len(t) : t[i] = q[i + 1]
      /\ DOMAIN t = 1..Len(t) /\ DOMAIN q = 1..Len(q)
  BY DEF S
<1> HIDE DEF t
<1>2. ASSUME NEW types, Pending(q, types), Head(q).type \notin types PROVE Pending(t, types)
  <2>1. PICK i \in 1..Len(q) : q[i].type \in types
    BY <1>1, <1>2 DEF Pending
  <2>2. i - 1 \in 1..Len(t) /\ t[i - 1] = q[i]
    BY <1>1, <1>2, <2>1
  <2> QED BY <1>1, <2>1, <2>2 DEF Pending
<1>3. ASSUME FollowedIn(q) PROVE FollowedIn(t)
  <2> SUFFICES ASSUME NEW x \in 1..Len(t), t[x].type = "READ"
               PROVE  \E y \in x + 1..Len(t) : t[y].type = "DATA_AVAILABLE"
    BY DEF FollowedIn
  <2>1. PICK z \in (x + 1) + 1..Len(q) : q[z].type = "DATA_AVAILABLE"
    BY <1>1, <1>3 DEF FollowedIn
  <2>2. z - 1 \in x + 1..Len(t) /\ t[z - 1] = q[z]
    BY <1>1, <2>1
  <2> QED BY <2>1, <2>2
<1>4. ASSUME FollowedIn(q), Head(q).type = "READ" PROVE Pending(t, {"DATA_AVAILABLE"})
  <2>1. PICK z \in 1 + 1..Len(q) : q[z].type = "DATA_AVAILABLE"
    BY <1>1, <1>4 DEF FollowedIn
  <2>2. z - 1 \in 1..Len(t) /\ t[z - 1] = q[z]
    BY <1>1, <2>1
  <2> QED BY <1>1, <2>1, <2>2 DEF Pending
<1> QED BY <1>1, <1>2, <1>3, <1>4 DEF t, S

(* The events either side posts.                                           *)
LEMMA PostedEvents ==
  /\ \A t \in {"START", "RECONNECT", "DISCONNECT", "DATA_AVAILABLE", "POLL"} :
        Ev(t) \in SenderEvents /\ Ev(t).type = t
  /\ \A t \in {"READ", "WRITE", "DISCONNECT"}, c \in Conns :
        EvOn(t, c) \in SenderEvents /\ EvOn(t, c).type = t
<1> DEFINE T == {"START", "RECONNECT", "DISCONNECT", "DATA_AVAILABLE", "POLL"}
           U == {"READ", "WRITE", "DISCONNECT"}
<1>0. SenderEvents = {Ev(t) : t \in T} \cup {EvOn(t, c) : t \in U, c \in Conns}
  BY DEF SenderEvents
<1> HIDE DEF T, U
<1>1. \A t \in T : Ev(t) \in SenderEvents
  BY <1>0
<1>2. \A t \in U, c \in Conns : EvOn(t, c) \in SenderEvents
  BY <1>0
<1>3. \A t, c : Ev(t).type = t /\ EvOn(t, c).type = t
  BY DEF Ev, EvOn
<1> QED BY <1>1, <1>2, <1>3 DEF T, U

(* Posting under a condition.                                              *)
LEMMA PostingIf ==
  ASSUME NEW q \in Seq(SenderEvents), NEW cond, NEW e, cond => e \in SenderEvents
  PROVE  /\ PostIf(q, cond, e) \in Seq(SenderEvents)
         /\ \A types : Pending(q, types) \/ (cond /\ e.type \in types) =>
               Pending(PostIf(q, cond, e), types)
         /\ (cond => e.type # "READ") /\ FollowedIn(q) => FollowedIn(PostIf(q, cond, e))
<1>1. CASE cond
  BY <1>1, Posting DEF PostIf
<1>2. CASE ~cond
  BY <1>2 DEF PostIf
<1> QED BY <1>1, <1>2

(* The waiting time of om_tcp_add_reconnect_event() keeps its limit.       *)
LEMMA BackoffRange ==
  ASSUME NEW r \in 0..MaxInterval PROVE Backoff(r) \in 0..MaxInterval
<1> DEFINE d == IF r = 0 THEN 1 ELSE 2 * r
<1>0. MaxInterval \in Nat
  BY TcpAssumption
<1>1. d \in Nat
  BY <1>0
<1> HIDE DEF d
<1> DEFINE S == {d, MaxInterval}
<1>2. S \subseteq Nat /\ S # {} /\ MaxInterval \in S
  BY <1>0, <1>1
<1> HIDE DEF S
<1>3. Min(S) \in S /\ Min(S) <= MaxInterval
  BY <1>2, MinFacts
<1>4. Min(S) \in 0..MaxInterval
  <2>1. Min(S) \in Nat
    BY <1>2, <1>3
  <2> QED BY <1>0, <1>3, <2>1
<1> QED BY <1>4 DEF Backoff, S, d

(* The descriptors poll() of the receiver reports, in any order.           *)
LEMMA OrderFacts ==
  ASSUME connections \subseteq Conns, NEW order \in SetToSeqs(RReady)
  PROVE  order \in Seq(RReady) /\ RReady \subseteq Conns \cup {Listen}
<1>0. MaxConns \in Nat
  BY TcpAssumption
<1>1. RReady \subseteq Conns \cup {Listen}
  BY DEF RReady
<1>2. Conns \cup {Listen} = 1..MaxConns + 1
  BY <1>0 DEF Conns, Listen
<1>3. IsFiniteSet(1..MaxConns + 1)
  BY <1>0, FS_Interval
<1>4. IsFiniteSet(RReady)
  BY <1>1, <1>2, <1>3, FS_Subset
<1>5. Cardinality(RReady) \in Nat
  BY <1>4, FS_CardinalityType
<1>6. order \in [1..Cardinality(RReady) -> RReady]
  BY DEF SetToSeqs
<1>7. order \in Seq(RReady)
  BY <1>5, <1>6
<1> QED BY <1>1, <1>7

-----------------------------------------------------------------------------
(* The sender's records.                                                   *)

(* Steps that touch no record.                                             *)
LEMMA RecordsKept ==
  ASSUME RecordInv, HandedOverOnce, UNCHANGED <<queue, pushed, output, sent>>,
         pc' # "idle" => status' = "RUNNING"
  PROVE  RecordInv' /\ HandedOverOnce'
BY DEF RecordInv, HandedOverOnce, Empty

(* Initially nothing was pushed or sent.                                   *)
LEMMA SenderInitially == Init => SenderInv
<1> SUFFICES ASSUME Init PROVE SenderInv
  OBVIOUS
<1>0. /\ NumRecords \in Nat /\ RecLen \in Nat /\ Window \in Nat /\ MaxConns \in Nat
      /\ MaxInterval \in Nat /\ MaxFaults \in Nat
  BY TcpAssumption
<1>1. Ev("START") \in SenderEvents /\ Ev("START") \in ReceiverEvents
  BY DEF SenderEvents, ReceiverEvents
<1> DEFINE S == SenderEvents
           R == ReceiverEvents
<1>2. <<Ev("START")>> \in Seq(S) /\ <<Ev("START")>> \in Seq(R)
  <2> HIDE DEF S, R
  <2> QED BY <1>1 DEF S, R
<1> HIDE DEF S, R
<1>3. TypeOK
  <2>1. events \in Seq(SenderEvents) /\ revents \in Seq(ReceiverEvents)
    BY <1>2 DEF Init, S, R
  <2>2. output \in [logdata : 0..NumRecords, bufstart : 0..RecLen, buflen : 0..RecLen]
    BY <1>0 DEF Init, Empty
  <2> DEFINE B == Bytes
  <2>3. <<>> \in Seq(B) /\ <<>> \in Seq(Seq(B))
    <3> HIDE DEF B
    <3> QED OBVIOUS
  <2>4. /\ wire \in [Conns -> Seq(Bytes)] /\ partial \in [Conns -> Seq(Bytes)]
        /\ lines \in [Conns -> Seq(Seq(Bytes))] /\ sent \in Seq(Bytes)
        /\ \A c \in Conns : wire[c] = <<>>
    BY <2>3 DEF Init
  <2>5. \A c \in Conns : Len(wire[c]) <= Window
    BY <1>0, <2>4
  <2>6. /\ status \in {"STOPPED", "RUNNING"} /\ pc \in {"idle", "write", "poll"}
        /\ queue \in Seq(1..NumRecords) /\ pushed \in 0..NumRecords
        /\ sock \in 0..MaxConns /\ want \subseteq {"IN", "OUT", "HUP"}
        /\ reconnect \in 0..MaxInterval /\ delayed \in Nat
        /\ link \in [Conns -> {"none", "up", "fin", "cut"}]
        /\ faults \in 0..MaxFaults /\ ((status = "RUNNING") <=> (sock # 0))
    BY <1>0 DEF Init
  <2>7. listening \in BOOLEAN /\ connections \subseteq Conns /\ rpoll \in BOOLEAN
    BY Zenon DEF Init
  <2> QED BY <2>1, <2>2, <2>4, <2>5, <2>6, <2>7, Zenon DEF TypeOK
<1>4. RecordInv
  BY DEF Init, RecordInv
<1>5. HandedOverOnce
  BY <1>0 DEF Init, HandedOverOnce, Empty
<1> QED BY <1>3, <1>4, <1>5 DEF SenderInv

-----------------------------------------------------------------------------
(* The steps of both sides preserve SenderInv.                             *)
SenderTypes ==
  /\ events \in Seq(SenderEvents)
  /\ status \in {"STOPPED", "RUNNING"} /\ pc \in {"idle", "write", "poll"}
  /\ queue \in Seq(1..NumRecords) /\ pushed \in 0..NumRecords
  /\ output \in [logdata : 0..NumRecords, bufstart : 0..RecLen, buflen : 0..RecLen]
  /\ sock \in 0..MaxConns /\ want \subseteq {"IN", "OUT", "HUP"}
  /\ reconnect \in 0..MaxInterval /\ delayed \in Nat /\ sent \in Seq(Bytes)
  /\ (status = "RUNNING") <=> (sock # 0)

NetworkTypes ==
  /\ link \in [Conns -> {"none", "up", "fin", "cut"}]
  /\ wire \in [Conns -> Seq(Bytes)] /\ \A c \in Conns : Len(wire[c]) <= Window

ReceiverTypes ==
  /\ revents \in Seq(ReceiverEvents)
  /\ listening \in BOOLEAN /\ connections \subseteq Conns /\ rpoll \in BOOLEAN
  /\ partial \in [Conns -> Seq(Bytes)] /\ lines \in [Conns -> Seq(Seq(Bytes))]

(* The type invariant by its parts.                                        *)
LEMMA TypeParts ==
  TypeOK <=> SenderTypes /\ NetworkTypes /\ ReceiverTypes /\ faults \in 0..MaxFaults
BY Zenon DEF TypeOK, SenderTypes, NetworkTypes, ReceiverTypes

(* What the invariant says of a handler that runs.                         *)
LEMMA RunningFacts ==
  ASSUME SenderInv
  PROVE  /\ SenderTypes /\ NetworkTypes /\ ReceiverTypes /\ faults \in 0..MaxFaults
         /\ status = "RUNNING" => sock \in Conns
         /\ pc # "idle" => status = "RUNNING" /\ sock \in Conns
         /\ NumRecords \in Nat /\ RecLen \in Nat /\ RecLen >= 2 /\ Window \in Nat
         /\ MaxConns \in Nat /\ MaxInterval \in Nat /\ MaxFaults \in Nat
<1>1. /\ SenderTypes /\ NetworkTypes /\ ReceiverTypes /\ faults \in 0..MaxFaults
  BY TypeParts DEF SenderInv
<1>2. /\ NumRecords \in Nat /\ RecLen \in Nat /\ RecLen >= 2 /\ Window \in Nat
      /\ MaxConns \in Nat /\ MaxInterval \in Nat /\ MaxFaults \in Nat
  BY TcpAssumption
<1>3. status = "RUNNING" => sock \in Conns
  BY <1>1, <1>2 DEF SenderTypes, Conns
<1>4. pc # "idle" => status = "RUNNING"
  BY DEF SenderInv, RecordInv
<1> QED BY <1>1, <1>2, <1>3, <1>4

(* Steps of which the network and the receiver see nothing.                *)
LEMMA SenderOnly ==
  ASSUME SenderInv, UNCHANGED <<network, receiver>>, faults' \in 0..MaxFaults,
         SenderTypes', RecordInv', HandedOverOnce'
  PROVE  SenderInv'
<1>1. NetworkTypes' /\ ReceiverTypes'
  BY RunningFacts DEF NetworkTypes, ReceiverTypes, network, receiver
<1>2. TypeOK'
  BY <1>1, Zenon DEF TypeOK, SenderTypes, NetworkTypes, ReceiverTypes
<1> QED BY <1>2 DEF SenderInv

(* Steps that only take and post events.                                   *)
LEMMA EventSteps ==
  ASSUME SenderInv,
         Due \/ ReconnectProc \/ AlreadyRunning \/ Ignore \/ Write \/ PollEnter \/ PollReturn
  PROVE  SenderInv'
<1>1. /\ SenderTypes /\ faults \in 0..MaxFaults /\ MaxFaults \in Nat
      /\ pc # "idle" => status = "RUNNING" /\ sock \in Conns
  BY RunningFacts
<1>2. RecordInv /\ HandedOverOnce
  BY DEF SenderInv
<1>3. /\ UNCHANGED <<status, queue, pushed, output, sock, want, reconnect, sent>>
      /\ UNCHANGED <<network, receiver>>
      /\ delayed' \in Nat /\ faults' \in 0..MaxFaults
      /\ pc' \in {"idle", "write", "poll"} /\ (pc' # "idle" => status = "RUNNING")
  <2> USE <1>1 DEF SenderTypes
  <2>1. CASE Due
    BY <2>1 DEF Due
  <2>2. CASE ReconnectProc
    BY <2>2 DEF ReconnectProc
  <2>3. CASE AlreadyRunning
    BY <2>3 DEF AlreadyRunning
  <2>4. CASE Ignore
    BY <2>4 DEF Ignore
  <2>5. CASE Write
    BY <2>5 DEF Write
  <2>6. CASE PollEnter
    BY <2>6 DEF PollEnter, Handling
  <2>7. CASE PollReturn
    BY <2>7 DEF PollReturn
  <2> QED BY <2>1, <2>2, <2>3, <2>4, <2>5, <2>6, <2>7
<1>4. events' \in Seq(SenderEvents)
  <2>0. events \in Seq(SenderEvents)
    BY <1>1 DEF SenderTypes
  <2>1. CASE Due \/ ReconnectProc
    <3>1. Ev("RECONNECT") \in SenderEvents /\ Ev("DISCONNECT") \in SenderEvents
      BY PostedEvents
    <3>2. events' = Enqueue(events, Ev("RECONNECT")) \/ events' = Enqueue(events, Ev("DISCONNECT"))
      BY <2>1 DEF Due, ReconnectProc
    <3> QED BY <2>0, <3>1, <3>2, Posting, Zenon
  <2>2. CASE AlreadyRunning \/ Ignore \/ Write
    BY <2>0, <2>2, Taking DEF AlreadyRunning, Ignore, Write, Handling
  <2>3. CASE PollEnter
    <3>1. events # <<>> /\ Tail(events) \in Seq(SenderEvents)
      BY <2>0, <2>3, Taking DEF PollEnter, Handling
    <3>2. Enqueue(Tail(events), Ev("POLL")) \in Seq(SenderEvents)
      BY <3>1, Posting, PostedEvents
    <3>3. events' = Tail(events) \/ events' = Enqueue(Tail(events), Ev("POLL"))
      BY <2>3 DEF PollEnter
    <3> QED BY <3>1, <3>2, <3>3
  <2>4. CASE PollReturn
    <3>1. PICK hup \in BOOLEAN :
            events' = IF link[sock] = "cut" \/ Writable
                      THEN PostIf(PostIf(PostIf(events, link[sock] = "cut", EvOn("READ", sock)),
                                         Writable, EvOn("WRITE", sock)),
                                  hup, EvOn("DISCONNECT", sock))
                      ELSE Enqueue(events, Ev("POLL"))
      BY <2>4 DEF PollReturn
    <3>2. sock \in Conns
      BY <1>1, <2>4 DEF PollReturn
    <3>3. /\ Ev("POLL") \in SenderEvents /\ EvOn("READ", sock) \in SenderEvents
          /\ EvOn("WRITE", sock) \in SenderEvents /\ EvOn("DISCONNECT", sock) \in SenderEvents
      BY <3>2, PostedEvents
    <3> DEFINE p == PostIf(events, link[sock] = "cut", EvOn("READ", sock))
               r == PostIf(p, Writable, EvOn("WRITE", sock))
    <3>4. p \in Seq(SenderEvents)
      BY <2>0, <3>3, PostingIf
    <3>5. r \in Seq(SenderEvents)
      <4> HIDE DEF p
      <4> QED BY <3>4, <3>3, PostingIf
    <3>6. PostIf(r, hup, EvOn("DISCONNECT", sock)) \in Seq(SenderEvents)
      <4> HIDE DEF r
      <4> QED BY <3>5, <3>3, PostingIf
    <3>7. Enqueue(events, Ev("POLL")) \in Seq(SenderEvents)
      BY <2>0, <3>3, Posting
    <3> QED BY <3>1, <3>6, <3>7
  <2> QED BY <2>1, <2>2, <2>3, <2>4
<1>5. SenderTypes'
  BY <1>1, <1>3, <1>4 DEF SenderTypes
<1>6. RecordInv' /\ HandedOverOnce'
  BY <1>2, <1>3, RecordsKept
<1> QED BY <1>3, <1>5, <1>6, SenderOnly

(* A record is pushed.                                                     *)
LEMMA PushStep ==
  ASSUME SenderInv, Push PROVE SenderInv'
<1>1. SenderTypes /\ faults \in 0..MaxFaults /\ NumRecords \in Nat
  BY RunningFacts
<1>2. RecordInv /\ HandedOverOnce
  BY DEF SenderInv
<1>3. /\ queue \in Seq(1..NumRecords) /\ pushed \in 0..NumRecords /\ pushed < NumRecords
      /\ pushed' = pushed + 1 /\ queue' = Append(queue, pushed + 1)
      /\ UNCHANGED <<status, pc, output, sock, want, reconnect, delayed, sent, network,
                     receiver, faults>>
  BY <1>1 DEF Push, SenderTypes
<1>4. events' \in Seq(SenderEvents)
  BY <1>1, Posting, PostedEvents DEF Push, SenderTypes
<1>5. /\ queue' \in Seq(1..NumRecords) /\ pushed' \in 0..NumRecords
      /\ Len(queue') = Len(queue) + 1 /\ Len(queue) \in Nat
      /\ \A i \in 1..Len(queue) : queue'[i] = queue[i]
      /\ queue'[Len(queue) + 1] = pushed + 1
  BY <1>1, <1>3
<1>6. SenderTypes'
  BY <1>1, <1>3, <1>4, <1>5 DEF SenderTypes
<1>7. pushed' - Len(queue') = pushed - Len(queue) /\ Len(queue') <= pushed'
  BY <1>2, <1>3, <1>5 DEF RecordInv
<1>8. \A i \in 1..Len(queue') : queue'[i] = pushed' - Len(queue') + i
  <2> TAKE i \in 1..Len(queue')
  <2>1. CASE i \in 1..Len(queue)
    BY <1>2, <1>5, <1>7, <2>1 DEF RecordInv
  <2>2. CASE i = Len(queue) + 1
    BY <1>3, <1>5, <2>2
  <2> QED BY <1>5, <2>1, <2>2
<1>9. queue # <<>> => queue' # <<>> /\ Head(queue') = Head(queue)
  BY <1>3
<1>10. RecordInv'
  <2>1. output = Empty \/ /\ queue' # <<>> /\ output.logdata = Head(queue')
                          /\ output.buflen > 0 /\ output.bufstart + output.buflen = RecLen
    BY <1>2, <1>9 DEF RecordInv
  <2> QED BY <1>2, <1>3, <1>7, <1>8, <2>1 DEF RecordInv, Empty
<1>11. HandedOverOnce'
  BY <1>2, <1>3, <1>7 DEF HandedOverOnce
<1> QED BY <1>1, <1>3, <1>6, <1>10, <1>11, SenderOnly

(* The parts put together.                                                 *)
LEMMA Together ==
  ASSUME SenderTypes', NetworkTypes', ReceiverTypes', faults' \in 0..MaxFaults,
         RecordInv', HandedOverOnce'
  PROVE  SenderInv'
<1>1. TypeOK'
  BY Zenon DEF TypeOK, SenderTypes, NetworkTypes, ReceiverTypes
<1> QED BY <1>1 DEF SenderInv

(* The connection is given up, or om_tcp_read() finds nothing.             *)
LEMMA FaultSteps ==
  ASSUME SenderInv, ConnectFails \/ Disconnect \/ SendFails \/ Read
  PROVE  SenderInv'
<1>1. /\ SenderTypes /\ NetworkTypes /\ ReceiverTypes /\ faults \in 0..MaxFaults
      /\ MaxFaults \in Nat
  BY RunningFacts
<1>2. RecordInv /\ HandedOverOnce
  BY DEF SenderInv
<1>3. events \in Seq(SenderEvents)
  BY <1>1 DEF SenderTypes
<1>4. UNCHANGED <<queue, pushed, sent, wire, receiver>> /\ faults' \in 0..MaxFaults
  <2>1. CASE ConnectFails
    BY <1>1, <2>1 DEF ConnectFails, IoErr
  <2>2. CASE Disconnect
    BY <1>1, <2>2 DEF Disconnect
  <2>3. CASE SendFails
    BY <1>1, <2>3 DEF SendFails, IoErr
  <2>4. CASE Read
    BY <1>1, <2>4 DEF Read, IoErr, network
  <2> QED BY <2>1, <2>2, <2>3, <2>4
<1>5. events' \in Seq(SenderEvents)
  <2>1. CASE ConnectFails \/ Disconnect
    BY <1>3, <2>1, Taking DEF ConnectFails, Starting, Handling, Disconnect
  <2>2. CASE SendFails
    BY <1>3, <2>2 DEF SendFails
  <2>3. CASE Read
    <3>1. events # <<>> /\ (events' = Tail(events) \/ events' = Enqueue(Tail(events), Ev("POLL")))
      BY <2>3 DEF Read, Handling
    <3>2. Tail(events) \in Seq(SenderEvents)
      BY <1>3, <3>1, Taking
    <3>3. Enqueue(Tail(events), Ev("POLL")) \in Seq(SenderEvents)
      BY <3>2, Posting, PostedEvents
    <3> QED BY <3>1, <3>2, <3>3
  <2> QED BY <2>1, <2>2, <2>3
<1>6. \/ /\ status' = "STOPPED" /\ CloseSock /\ AddReconnectEvent /\ pc' = "idle"
      \/ /\ want' = {"IN", "HUP"} /\ status = "RUNNING" /\ pc = "idle"
         /\ UNCHANGED <<status, pc, output, sock, reconnect, delayed, link>>
  <2>1. CASE ConnectFails
    BY <2>1 DEF ConnectFails, IoErr
  <2>2. CASE Disconnect
    BY <2>2 DEF Disconnect, Handling
  <2>3. CASE SendFails
    BY <2>3 DEF SendFails, IoErr
  <2>4. CASE Read
    BY <2>4 DEF Read, IoErr, network, Handling
  <2> QED BY <2>1, <2>2, <2>3, <2>4
<1>7. CASE status' = "STOPPED" /\ CloseSock /\ AddReconnectEvent /\ pc' = "idle"
  <2>1. /\ sock' = 0 /\ want' = {} /\ output' = output
        /\ link' = [c \in Conns |-> IF c = sock /\ link[c] = "up" THEN "fin" ELSE link[c]]
        /\ reconnect' = Backoff(reconnect) /\ delayed' = delayed + 1
    BY <1>7 DEF CloseSock, AddReconnectEvent
  <2>2. reconnect' \in 0..MaxInterval /\ delayed' \in Nat /\ 0 \in 0..MaxConns
    BY <1>1, <2>1, BackoffRange, TcpAssumption, SMTT(40) DEF SenderTypes
  <2>3. SenderTypes'
    BY <1>1, <1>4, <1>5, <1>7, <2>1, <2>2 DEF SenderTypes
  <2>4. NetworkTypes'
    BY <1>1, <1>4, <2>1 DEF NetworkTypes
  <2>5. ReceiverTypes'
    BY <1>1, <1>4 DEF ReceiverTypes, receiver
  <2>6. RecordInv' /\ HandedOverOnce'
    BY <1>2, <1>4, <1>7, <2>1, RecordsKept
  <2> QED BY <1>4, <2>3, <2>4, <2>5, <2>6, Together
<1>8. CASE /\ want' = {"IN", "HUP"} /\ status = "RUNNING" /\ pc = "idle"
           /\ UNCHANGED <<status, pc, output, sock, reconnect, delayed, link>>
  <2>1. SenderTypes'
    BY <1>1, <1>4, <1>5, <1>8 DEF SenderTypes
  <2>2. RecordInv' /\ HandedOverOnce'
    BY <1>2, <1>4, <1>8, RecordsKept
  <2> QED BY <1>4, <1>8, <2>1, <2>2, SenderOnly DEF network
<1> QED BY <1>6, <1>7, <1>8

(* A connection is made.                                                   *)
LEMMA ConnectStep ==
  ASSUME SenderInv, Connect
  PROVE  SenderInv'
<1>1. /\ SenderTypes /\ NetworkTypes /\ ReceiverTypes /\ faults \in 0..MaxFaults
      /\ MaxConns \in Nat /\ MaxInterval \in Nat
  BY RunningFacts
<1>2. RecordInv /\ HandedOverOnce
  BY DEF SenderInv
<1>3. events' \in Seq(SenderEvents)
  <2> DEFINE p == Enqueue(Tail(events), Ev("DATA_AVAILABLE"))
             r == Enqueue(p, Ev("POLL"))
  <2>0. events' = PostIf(r, queue # <<>>, Ev("DATA_AVAILABLE"))
    BY DEF Connect
  <2>1. Tail(events) \in Seq(SenderEvents)
    BY <1>1, Taking DEF Connect, Starting, Handling, SenderTypes
  <2>2. p \in Seq(SenderEvents)
    BY <2>1, Posting, PostedEvents
  <2>3. r \in Seq(SenderEvents)
    <3> HIDE DEF p
    <3> QED BY <2>2, Posting, PostedEvents
  <2> HIDE DEF r
  <2>4. Ev("DATA_AVAILABLE") \in SenderEvents
    BY PostedEvents
  <2> QED BY <2>0, <2>3, <2>4, PostingIf
<1>4. PICK c \in Conns : link' = [link EXCEPT ![c] = "up"] /\ sock' = c
  BY DEF Connect
<1>5. /\ want' = {"IN", "HUP"} /\ reconnect' = 0 /\ status' = "RUNNING"
      /\ UNCHANGED <<pc, queue, pushed, output, delayed, sent, wire, receiver, faults>>
  BY DEF Connect
<1>6. sock' \in 0..MaxConns /\ sock' # 0 /\ 0 \in 0..MaxInterval
  BY <1>1, <1>4 DEF Conns
<1>7. SenderTypes'
  BY <1>1, <1>3, <1>5, <1>6 DEF SenderTypes
<1>8. NetworkTypes'
  BY <1>1, <1>4, <1>5 DEF NetworkTypes
<1>9. ReceiverTypes'
  BY <1>1, <1>5 DEF ReceiverTypes, receiver
<1>10. RecordInv' /\ HandedOverOnce'
  BY <1>2, <1>5, RecordsKept
<1> QED BY <1>1, <1>5, <1>7, <1>8, <1>9, <1>10, Together

(* nx_module_logqueue_peek(): with the queue q left, of which nothing has  *)
(* been sent, the next record is taken up.                                 *)
LEMMA PeekFacts ==
  ASSUME NEW q \in Seq(1..NumRecords), Peek(q), SenderTypes, status = "RUNNING",
         UNCHANGED <<status, pushed>>, Len(q) <= pushed,
         \A i \in 1..Len(q) : q[i] = pushed - Len(q) + i
  PROVE  /\ RecordInv' /\ queue' = q /\ output'.bufstart = 0
         /\ output' \in [logdata : 0..NumRecords, bufstart : 0..RecLen, buflen : 0..RecLen]
         /\ events' \in Seq(SenderEvents) /\ pc' \in {"idle", "write", "poll"}
<1>0. NumRecords \in Nat /\ RecLen \in Nat /\ RecLen >= 2
  BY TcpAssumption
<1>1. queue' = q
  BY DEF Peek
<1>2. CASE q = <<>>
  <2>1. pc' = "idle" /\ output' = Empty /\ events' = events
    BY <1>2 DEF Peek
  <2>2. RecordInv'
    BY <1>1, <2>1 DEF RecordInv, Empty
  <2> QED BY <1>0, <1>1, <2>1, <2>2 DEF SenderTypes, Empty
<1>3. CASE q # <<>>
  <2>1. /\ events' = Enqueue(events, Ev("DATA_AVAILABLE")) /\ pc' = pc
        /\ output' = [logdata |-> Head(q), bufstart |-> 0, buflen |-> RecLen]
    BY <1>3 DEF Peek
  <2> DEFINE R == 1..NumRecords
  <2>2. Head(q) \in R
    <3> HIDE DEF R
    <3>1. q \in Seq(R)
      BY DEF R
    <3> QED BY <1>3, <3>1
  <2>3. /\ output' \in [logdata : 0..NumRecords, bufstart : 0..RecLen, buflen : 0..RecLen]
        /\ output'.bufstart = 0 /\ output'.buflen = RecLen /\ output'.logdata = Head(q)
    BY <1>0, <2>1, <2>2
  <2>4. RecordInv'
    BY <1>0, <1>1, <1>3, <2>3 DEF RecordInv
  <2>5. events' \in Seq(SenderEvents)
    BY <2>1, Posting, PostedEvents DEF SenderTypes
  <2> QED BY <1>1, <2>1, <2>3, <2>4, <2>5 DEF SenderTypes
<1> QED BY <1>2, <1>3

(* om_tcp_write() begins with an empty buffer.                             *)
LEMMA FirstPeekStep ==
  ASSUME SenderInv, FirstPeek
  PROVE  SenderInv'
<1>1. SenderTypes /\ faults \in 0..MaxFaults /\ status = "RUNNING" /\ RecLen \in Nat
  BY RunningFacts DEF FirstPeek
<1>2. RecordInv /\ HandedOverOnce
  BY DEF SenderInv
<1>3. /\ queue \in Seq(1..NumRecords) /\ Peek(queue) /\ want' = {"IN", "HUP"}
      /\ UNCHANGED <<status, pushed, sock, reconnect, delayed, sent>>
      /\ UNCHANGED <<network, receiver, faults>> /\ output.buflen = 0
  BY <1>1 DEF FirstPeek, SenderTypes
<1>4. Len(queue) <= pushed /\ \A i \in 1..Len(queue) : queue[i] = pushed - Len(queue) + i
  BY <1>2 DEF RecordInv
<1>5. /\ RecordInv' /\ queue' = queue /\ output'.bufstart = 0
      /\ output' \in [logdata : 0..NumRecords, bufstart : 0..RecLen, buflen : 0..RecLen]
      /\ events' \in Seq(SenderEvents) /\ pc' \in {"idle", "write", "poll"}
  BY <1>1, <1>3, <1>4, PeekFacts
<1>6. SenderTypes'
  BY <1>1, <1>3, <1>5 DEF SenderTypes
<1>7. output.bufstart = 0
  BY <1>2, <1>3 DEF RecordInv, Empty
<1>8. HandedOverOnce'
  BY <1>2, <1>3, <1>5, <1>7 DEF HandedOverOnce
<1> QED BY <1>1, <1>3, <1>5, <1>6, <1>8, SenderOnly

(* The record at hand, and the bytes u of it that send() takes.            *)
RecordAtHand ==
  /\ output.logdata \in 0..NumRecords /\ output.bufstart \in 0..RecLen
  /\ output.buflen \in 0..RecLen /\ output.buflen > 0
  /\ queue \in Seq(1..NumRecords) /\ pushed \in 0..NumRecords
  /\ wire[sock] \in Seq(Bytes) /\ sent \in Seq(Bytes) /\ Window - Len(wire[sock]) \in Nat
  /\ queue # <<>> /\ output.logdata = Head(queue)
  /\ output.bufstart + output.buflen = RecLen
  /\ Len(queue) \in Nat /\ Len(queue) >= 1 /\ Len(queue) <= pushed
  /\ pushed - Len(queue) \in Nat /\ output.logdata = (pushed - Len(queue)) + 1

Sending(n, u) ==
  /\ n \in 0..output.buflen /\ (link[sock] = "up" => n <= Window - Len(wire[sock]))
  /\ u \in Seq(Bytes) /\ Len(u) = n
  /\ \A i \in 1..n : u[i] = <<output.logdata, output.bufstart + i>>
  /\ wire' = IF link[sock] = "up" THEN [wire EXCEPT ![sock] = @ \o u] ELSE wire
  /\ sent' = sent \o u
  /\ IF n < output.buflen THEN Blocked(n) ELSE Sent
  /\ UNCHANGED <<status, pushed, sock, reconnect, delayed, link, receiver, faults>>

(* One round of the send loop of om_tcp_write(): the record in the buffer  *)
(* is the first of the queue, and the bytes that go out are its next ones, *)
(* at most as many as fit.                                                 *)
LEMMA SentBytes ==
  ASSUME SenderInv, Send
  PROVE  RecordAtHand /\ \E n, u : Sending(n, u)
<1>1. /\ SenderTypes /\ NetworkTypes /\ ReceiverTypes /\ faults \in 0..MaxFaults
      /\ status = "RUNNING" /\ sock \in Conns
      /\ NumRecords \in Nat /\ RecLen \in Nat /\ RecLen >= 2 /\ Window \in Nat
  BY RunningFacts DEF Send
<1>2. RecordInv /\ HandedOverOnce
  BY DEF SenderInv
<1> DEFINE room == Window - Len(wire[sock])
           n == IF link[sock] = "up" THEN Min({output.buflen, room}) ELSE output.buflen
           u == SubSeq(Unsent, 1, n)
           k == pushed - Len(queue)
<1>3. /\ output.logdata \in 0..NumRecords /\ output.bufstart \in 0..RecLen
      /\ output.buflen \in 0..RecLen /\ output.buflen > 0
      /\ queue \in Seq(1..NumRecords) /\ pushed \in 0..NumRecords
      /\ wire[sock] \in Seq(Bytes) /\ sent \in Seq(Bytes) /\ room \in Nat
  BY <1>1 DEF Send, SenderTypes, NetworkTypes
<1>4. /\ queue # <<>> /\ output.logdata = Head(queue)
      /\ output.bufstart + output.buflen = RecLen
  BY <1>2, <1>3 DEF RecordInv, Empty
<1>5. /\ Len(queue) \in Nat /\ Len(queue) >= 1 /\ Len(queue) <= pushed /\ k \in Nat
      /\ output.logdata = k + 1
  BY <1>2, <1>3, <1>4 DEF RecordInv
<1>6. n \in 0..output.buflen /\ (link[sock] = "up" => n <= room)
  <2> DEFINE S == {output.buflen, room}
  <2>1. S \subseteq Nat /\ S # {} /\ output.buflen \in S /\ room \in S
    BY <1>3
  <2>2. Min(S) \in S /\ \A x \in S : Min(S) <= x
    <3> HIDE DEF S
    <3> QED BY <2>1, MinFacts
  <2>3. Min(S) \in Nat /\ Min(S) <= output.buflen /\ Min(S) <= room
    <3> HIDE DEF S
    <3> QED BY <2>1, <2>2
  <2> QED BY <1>3, <2>3
<1>7. /\ wire' = IF link[sock] = "up" THEN [wire EXCEPT ![sock] = @ \o u] ELSE wire
      /\ sent' = sent \o u
      /\ IF n < output.buflen THEN Blocked(n) ELSE Sent
      /\ UNCHANGED <<status, pushed, sock, reconnect, delayed, link, receiver, faults>>
  BY DEF Send
<1> HIDE DEF n
<1>8. /\ u \in Seq(Bytes) /\ Len(u) = n
      /\ \A i \in 1..n : u[i] = <<output.logdata, output.bufstart + i>>
  <2>1. \A i \in 1..output.buflen : <<output.logdata, output.bufstart + i>> \in Bytes
    <3> DEFINE s == output.bufstart
               b == output.buflen
               d == output.logdata
    <3>1. s \in Nat /\ b \in Nat /\ s + b = RecLen /\ d \in 1..NumRecords
      BY <1>3, <1>4, <1>5
    <3> HIDE DEF s, b, d
    <3>2. \A i \in 1..b : s + i \in 1..RecLen
      BY ONLY <1>1, <3>1
    <3>3. \A i \in 1..b : <<d, s + i>> \in Bytes
      BY <3>1, <3>2 DEF Bytes
    <3> QED BY <3>3 DEF s, b, d
  <2>2. Unsent = [i \in 1..output.buflen |-> <<output.logdata, output.bufstart + i>>]
    BY DEF Unsent
  <2> DEFINE b == output.buflen
             B == Bytes
  <2>3. Unsent \in Seq(B) /\ Len(Unsent) = b
    <3>1. Unsent \in [1..b -> B] /\ b \in Nat
      BY <1>3, <2>1, <2>2
    <3> HIDE DEF b, B
    <3> QED BY <3>1
  <2>4. \A i \in 1..b : Unsent[i] = <<output.logdata, output.bufstart + i>>
    BY <2>2
  <2> HIDE DEF b, B
  <2>5. n \in 0..b /\ b \in Nat
    BY <1>3, <1>6 DEF b
  <2>6. u \in Seq(B) /\ Len(u) = n /\ \A i \in 1..n : u[i] = Unsent[i]
    BY <2>3, <2>5
  <2> QED BY <2>4, <2>5, <2>6 DEF B
<1> HIDE DEF u
<1>9. RecordAtHand
  BY <1>3, <1>4, <1>5 DEF RecordAtHand
<1>10. Sending(n, u)
  BY <1>6, <1>7, <1>8 DEF Sending
<1> QED BY <1>9, <1>10

(* One send(): n more bytes of the record at hand are sent.                *)
LEMMA SendStep ==
  ASSUME SenderInv, Send
  PROVE  SenderInv'
<1>1. /\ SenderTypes /\ NetworkTypes /\ ReceiverTypes /\ faults \in 0..MaxFaults
      /\ status = "RUNNING" /\ sock \in Conns
      /\ NumRecords \in Nat /\ RecLen \in Nat /\ RecLen >= 2 /\ Window \in Nat
  BY RunningFacts DEF Send
<1>2. RecordInv /\ HandedOverOnce
  BY DEF SenderInv
<1> DEFINE room == Window - Len(wire[sock])
           k == pushed - Len(queue)
<1>0. RecordAtHand
  BY SentBytes
<1>3. /\ output.logdata \in 0..NumRecords /\ output.bufstart \in 0..RecLen
      /\ output.buflen \in 0..RecLen /\ output.buflen > 0
      /\ queue \in Seq(1..NumRecords) /\ pushed \in 0..NumRecords
      /\ wire[sock] \in Seq(Bytes) /\ sent \in Seq(Bytes) /\ room \in Nat
  BY <1>0 DEF RecordAtHand
<1>4. /\ queue # <<>> /\ output.logdata = Head(queue)
      /\ output.bufstart + output.buflen = RecLen
  BY <1>0 DEF RecordAtHand
<1>5. /\ Len(queue) \in Nat /\ Len(queue) >= 1 /\ Len(queue) <= pushed /\ k \in Nat
      /\ output.logdata = k + 1
  BY <1>0 DEF RecordAtHand
<1>16. PICK n, u : Sending(n, u)
  BY SentBytes
<1>6. n \in 0..output.buflen /\ (link[sock] = "up" => n <= room)
  BY <1>16 DEF Sending
<1>7. /\ wire' = IF link[sock] = "up" THEN [wire EXCEPT ![sock] = @ \o u] ELSE wire
      /\ sent' = sent \o u
      /\ IF n < output.buflen THEN Blocked(n) ELSE Sent
      /\ UNCHANGED <<status, pushed, sock, reconnect, delayed, link, receiver, faults>>
  BY <1>16 DEF Sending
<1>8. /\ u \in Seq(Bytes) /\ Len(u) = n
      /\ \A i \in 1..n : u[i] = <<output.logdata, output.bufstart + i>>
  BY <1>16 DEF Sending
<1>9. NetworkTypes'
  <2> DEFINE B == Bytes
             x == wire[sock] \o u
  <2>1. x \in Seq(B) /\ Len(x) = Len(wire[sock]) + n
    <3>1. wire[sock] \in Seq(B) /\ u \in Seq(B) /\ Len(u) = n
      BY <1>3, <1>8
    <3> HIDE DEF B
    <3> QED BY <3>1
  <2>2. link[sock] = "up" => Len(x) <= Window
    <3>1. Len(wire[sock]) \in Nat
      BY <1>3
    <3> QED BY <1>1, <1>6, <2>1, <3>1
  <2> HIDE DEF x, B
  <2>3. CASE link[sock] = "up"
    <3>1. wire' = [wire EXCEPT ![sock] = x]
      BY <1>7, <2>3 DEF x
    <3> QED BY <1>1, <1>7, <2>1, <2>2, <2>3, <3>1 DEF NetworkTypes, B
  <2>4. CASE link[sock] # "up"
    BY <1>1, <1>7, <2>4 DEF NetworkTypes
  <2> QED BY <2>3, <2>4
<1>10. ReceiverTypes'
  BY <1>1, <1>7 DEF ReceiverTypes, receiver
<1>11. /\ sent' \in Seq(Bytes) /\ Len(sent') = Len(sent) + n /\ Len(sent) \in Nat
       /\ \A i \in 1..Len(sent) : sent'[i] = sent[i]
       /\ \A i \in 1..n : sent'[Len(sent) + i] = <<output.logdata, output.bufstart + i>>
  <2> DEFINE B == Bytes
  <2>1. sent \in Seq(B) /\ u \in Seq(B) /\ Len(u) = n /\ n \in Nat
    BY <1>3, <1>6, <1>8
  <2> HIDE DEF B
  <2>2. /\ sent \o u \in Seq(B) /\ Len(sent \o u) = Len(sent) + n /\ Len(sent) \in Nat
        /\ \A i \in 1..Len(sent) : (sent \o u)[i] = sent[i]
        /\ \A i \in 1..n : (sent \o u)[Len(sent) + i] = u[i]
    BY <2>1
  <2> QED BY <1>7, <1>8, <2>2 DEF B
<1>12. Len(sent) = RecLen * k + output.bufstart
  BY <1>2 DEF HandedOverOnce
<1>13. \A i \in DOMAIN sent' :
          sent'[i] \in Bytes /\ i = RecLen * (sent'[i][1] - 1) + sent'[i][2]
  <2> TAKE i \in DOMAIN sent'
  <2>1. i \in 1..Len(sent) + n /\ sent'[i] \in Bytes
    BY <1>6, <1>11
  <2>2. CASE i \in 1..Len(sent)
    BY <1>2, <1>3, <1>11, <2>1, <2>2 DEF HandedOverOnce
  <2>3. CASE i \notin 1..Len(sent)
    <3> DEFINE j == i - Len(sent)
    <3>1. j \in 1..n /\ i = Len(sent) + j
      BY <1>6, <1>11, <2>1, <2>3
    <3>2. sent'[i] = <<output.logdata, output.bufstart + j>>
      BY <1>11, <3>1
    <3>3. sent'[i][1] - 1 = k /\ sent'[i][2] = output.bufstart + j
      BY <1>5, <3>2
    <3> HIDE DEF j, k
    <3>4. RecLen * k \in Nat
      BY <1>1, <1>5
    <3>5. i = RecLen * k + (output.bufstart + j)
      BY <1>3, <1>6, <1>12, <3>1, <3>4
    <3> QED BY <2>1, <3>3, <3>5
  <2> QED BY <2>2, <2>3
<1>14. CASE n < output.buflen
  <2>1. /\ output' = [output EXCEPT !.bufstart = @ + n, !.buflen = @ - n]
        /\ want' = {"IN", "OUT", "HUP"} /\ pc' = "idle" /\ queue' = queue
        /\ events' = Enqueue(events, Ev("POLL"))
    BY <1>7, <1>14 DEF Blocked
  <2>2. /\ output'.logdata = output.logdata /\ output'.bufstart = output.bufstart + n
        /\ output'.buflen = output.buflen - n
        /\ output' \in [logdata : 0..NumRecords, bufstart : 0..RecLen, buflen : 0..RecLen]
    <3>1. output \in [logdata : 0..NumRecords, bufstart : 0..RecLen, buflen : 0..RecLen]
      BY <1>1 DEF SenderTypes
    <3>2. output.bufstart + n \in 0..RecLen /\ output.buflen - n \in 0..RecLen
      <4> DEFINE s == output.bufstart
                 b == output.buflen
      <4>1. s \in Nat /\ b \in Nat /\ n \in Nat /\ n <= b /\ s + b = RecLen
        BY <1>3, <1>4, <1>6
      <4> HIDE DEF s, b
      <4>2. s + n \in 0..RecLen /\ b - n \in 0..RecLen
        BY ONLY <1>1, <4>1
      <4> QED BY <4>2 DEF s, b
    <3> QED BY <2>1, <3>1, <3>2
  <2>3. events' \in Seq(SenderEvents)
    BY <1>1, <2>1, Posting, PostedEvents DEF SenderTypes
  <2>4. SenderTypes'
    BY <1>1, <1>7, <1>11, <2>1, <2>2, <2>3 DEF SenderTypes
  <2>5. RecordInv'
    BY <1>2, <1>3, <1>4, <1>6, <1>7, <1>14, <2>1, <2>2 DEF RecordInv
  <2>6. Len(sent') = RecLen * (pushed' - Len(queue')) + output'.bufstart
    <3>1. pushed' - Len(queue') = k
      BY <1>7, <2>1
    <3>2. RecLen * k \in Nat
      BY <1>1, <1>5
    <3> HIDE DEF k
    <3> QED BY <1>3, <1>6, <1>11, <1>12, <2>2, <3>1, <3>2, SMTT(40)
  <2>7. HandedOverOnce'
    BY <1>13, <2>6 DEF HandedOverOnce
  <2> QED BY <1>1, <1>7, <1>9, <1>10, <2>4, <2>5, <2>7, Together
<1>15. CASE ~(n < output.buflen)
  <2>1. n = output.buflen /\ Peek(Tail(queue)) /\ want' = want
    BY <1>3, <1>6, <1>7, <1>15 DEF Sent
  <2> DEFINE q == Tail(queue)
             R == 1..NumRecords
  <2>2. /\ q \in Seq(R) /\ Len(q) = Len(queue) - 1
        /\ \A i \in 1..Len(q) : q[i] = queue[i + 1]
    <3>1. queue \in Seq(R)
      BY <1>3
    <3> HIDE DEF R
    <3> QED BY <1>4, <3>1
  <2> HIDE DEF q
  <2>3. Len(q) <= pushed /\ \A i \in 1..Len(q) : q[i] = pushed - Len(q) + i
    <3>1. Len(q) <= pushed
      BY <1>3, <1>5, <2>2
    <3>2. ASSUME NEW i \in 1..Len(q) PROVE q[i] = pushed - Len(q) + i
      <4>1. i + 1 \in 1..Len(queue)
        BY <1>5, <2>2
      <4>2. queue[i + 1] = pushed - Len(queue) + (i + 1)
        BY <1>2, <4>1 DEF RecordInv
      <4> QED BY <1>3, <1>5, <2>2, <4>2
    <3> QED BY <3>1, <3>2
  <2>4. /\ RecordInv' /\ queue' = q /\ output'.bufstart = 0
        /\ output' \in [logdata : 0..NumRecords, bufstart : 0..RecLen, buflen : 0..RecLen]
        /\ events' \in Seq(SenderEvents) /\ pc' \in {"idle", "write", "poll"}
    <3>1. q \in Seq(1..NumRecords) /\ Peek(q) /\ UNCHANGED <<status, pushed>>
      BY <1>7, <2>1, <2>2 DEF q
    <3> QED BY <1>1, <2>3, <3>1, PeekFacts
  <2>5. SenderTypes'
    BY <1>1, <1>7, <1>11, <2>1, <2>2, <2>4 DEF SenderTypes
  <2>6. Len(sent') = RecLen * (pushed' - Len(queue')) + output'.bufstart
    <3>1. pushed' - Len(queue') = k + 1
      <4>1. pushed' = pushed /\ Len(queue') = Len(queue) - 1
        BY <1>7, <2>2, <2>4
      <4> QED BY <1>3, <1>5, <4>1
    <3>2. RecLen * k \in Nat /\ RecLen * (k + 1) = RecLen * k + RecLen
      BY <1>1, <1>5
    <3> DEFINE m == RecLen * k
    <3>3. /\ Len(sent') = Len(sent) + n /\ Len(sent) = m + output.bufstart
          /\ output.bufstart + n = RecLen /\ m \in Nat
          /\ RecLen * (pushed' - Len(queue')) = m + RecLen /\ output'.bufstart = 0
      BY <1>4, <1>11, <1>12, <2>1, <2>4, <3>1, <3>2
    <3>4. n \in Nat /\ output.bufstart \in Nat
      BY <1>3, <1>6
    <3> HIDE DEF k, m
    <3> QED BY <1>1, <3>3, <3>4, SMTT(40)
  <2>7. HandedOverOnce'
    BY <1>13, <2>6 DEF HandedOverOnce
  <2> QED BY <1>1, <1>7, <1>9, <1>10, <2>4, <2>5, <2>7, Together
<1> QED BY <1>14, <1>15

-----------------------------------------------------------------------------
(* The receiver's events.                                                  *)
(* Only the events of the list, START, STOP and those poll() finds are in  *)
(* the list afterwards, and none about an input that was freed.            *)
LEMMA ReceiverQueue ==
  ASSUME NEW S, revents \in Seq(S), Ev("START") \in S, Ev("STOP") \in S,
         connections \subseteq Conns,
         \A d \in RReady : EvOn("READ", d) \in S,
         \A d \in connections : EvOn("DISCONNECT", d) \in S
  PROVE  /\ RStart \/ RStopPosted \/ RRestart \/ RPollEnter \/ RPollReturn \/ RAccept \/ RRead
               => revents' \in Seq(S)
         /\ RStop => revents' \in Seq({e \in S : e.data \notin connections})
         /\ REnd /\ About \in Conns => revents' \in Seq({e \in S : e.data # About})
<1>1. revents # <<>> => Tail(revents) \in Seq(S)
  OBVIOUS
<1>2. RStart \/ RAccept \/ RRead => revents' \in Seq(S)
  BY <1>1 DEF RStart, RAccept, RRead, RHandling
<1>3. RStopPosted => revents' \in Seq(S)
  BY EnqueuePrefix DEF RStopPosted
<1>4. RRestart => revents' \in Seq(S)
  <2>1. <<Ev("START")>> \in Seq(S)
    OBVIOUS
  <2> QED BY <2>1 DEF RRestart
<1>5. RPollEnter => revents' \in Seq(S)
  BY DEF RPollEnter
<1>6. ASSUME RPollReturn PROVE revents' \in Seq(S)
  <2>1. PICK order \in SetToSeqs(RReady), hup \in SUBSET {c \in connections : link[c] = "cut"} :
          revents' = Announced(revents, order, hup)[Len(order)]
    BY <1>6 DEF RPollReturn
  <2>2. order \in Seq(RReady)
    BY OrderFacts
  <2>3. \A d \in RReady : d \in hup => EvOn("DISCONNECT", d) \in S
    OBVIOUS
  <2>4. Announced(revents, order, hup)[Len(order)] \in Seq(S)
    BY <2>2, <2>3, AnnouncedFacts
  <2> QED BY <2>1, <2>4
<1>7. ASSUME RStop PROVE revents' \in Seq({e \in S : e.data \notin connections})
  <2>1. revents # <<>> /\ revents' = Freed(Tail(revents), connections)[MaxConns]
    BY <1>7 DEF RStop, RHandling, FreeInputs
  <2> DEFINE t == Tail(revents)
  <2>2. t \in Seq(S)
    BY <1>1, <2>1
  <2> HIDE DEF t
  <2>3. Freed(t, connections)[MaxConns] \in Seq({e \in S : e.data \notin connections})
    BY <2>2, FreedFacts
  <2> QED BY <2>1, <2>3 DEF t
<1>8. ASSUME REnd, About \in Conns PROVE revents' \in Seq({e \in S : e.data # About})
  <2>1. revents # <<>> /\ revents' = Freed(Tail(revents), {About})[MaxConns]
    BY <1>8 DEF REnd, RHandling, FreeInputs
  <2>2. revents' \in Seq({e \in S : e.data \notin {About}})
    <3> DEFINE t == Tail(revents)
               d == About
               cs == {d}
    <3>1. t \in Seq(S) /\ cs \subseteq Conns
      BY <1>1, <1>8, <2>1
    <3> HIDE DEF t, d, cs
    <3>2. Freed(t, cs)[MaxConns] \in Seq({e \in S : e.data \notin cs})
      BY <3>1, FreedFacts
    <3> QED BY <2>1, <3>2 DEF t, d, cs
  <2>3. {e \in S : e.data \notin {About}} = {e \in S : e.data # About}
    OBVIOUS
  <2> QED BY <2>2, <2>3
<1> QED BY <1>2, <1>3, <1>4, <1>5, <1>6, <1>7, <1>8

(* What the event at hand is about.                                        *)
LEMMA AboutFacts ==
  ASSUME revents \in Seq(ReceiverEvents), revents # <<>>
  PROVE  /\ Head(revents).type = "DISCONNECT" => About \in Conns
         /\ Head(revents).type = "READ" => About \in Conns \cup {Listen}
<1> DEFINE S == ReceiverEvents
<1>1. Head(revents) \in S
  <2> HIDE DEF S
  <2> QED BY DEF S
<1> QED BY <1>1 DEF ReceiverEvents, Ev, EvOn, About

(* The events the receiver's code posts are of its types.                  *)
LEMMA ReceivedEvents ==
  /\ Ev("START") \in ReceiverEvents /\ Ev("STOP") \in ReceiverEvents
  /\ EvOn("READ", Listen) \in ReceiverEvents
  /\ \A c \in Conns : EvOn("READ", c) \in ReceiverEvents /\ EvOn("DISCONNECT", c) \in ReceiverEvents
<1> DEFINE T == {"READ", "DISCONNECT"}
<1>0. ReceiverEvents = {Ev("START"), Ev("STOP"), EvOn("READ", Listen)}
                          \cup {EvOn(t, c) : t \in T, c \in Conns}
  BY DEF ReceiverEvents
<1>1. "READ" \in T /\ "DISCONNECT" \in T
  OBVIOUS
<1> HIDE DEF T
<1> QED BY <1>0, <1>1

(* Steps of the network and of the receiver, which the sender does not     *)
(* notice at once.                                                         *)
LEMMA ReceiverSteps ==
  ASSUME SenderInv, ReceiverStep \/ RRestart \/ RStopPosted \/ \E c \in Conns : Cut(c)
  PROVE  SenderInv'
<1>1. /\ SenderTypes /\ NetworkTypes /\ ReceiverTypes /\ faults \in 0..MaxFaults
      /\ MaxFaults \in Nat /\ Window \in Nat /\ MaxConns \in Nat
  BY RunningFacts
<1>2. RecordInv /\ HandedOverOnce
  BY DEF SenderInv
<1>3. UNCHANGED sender
  BY DEF ReceiverStep, RRestart, RStopPosted, Cut, RStart, RStop, RPollEnter, RPollReturn,
         RAccept, RRead, REnd
<1>4. SenderTypes' /\ RecordInv' /\ HandedOverOnce'
  <2>1. SenderTypes'
    BY <1>1, <1>3 DEF SenderTypes, sender
  <2>2. UNCHANGED <<queue, pushed, output, sent, pc, status>>
    BY <1>3 DEF sender
  <2> QED BY <1>2, <2>1, <2>2, RecordsKept DEF RecordInv
<1>5. faults' \in 0..MaxFaults
  <2>1. faults' = faults \/ (faults > 0 /\ faults' = faults - 1)
    BY DEF ReceiverStep, RRestart, RStopPosted, Cut, RStart, RStop, RPollEnter, RPollReturn,
           RAccept, RRead, REnd
  <2> QED BY <1>1, <2>1
<1>6. revents' \in Seq(ReceiverEvents)
  <2>1. revents \in Seq(ReceiverEvents) /\ connections \subseteq Conns
    BY <1>1 DEF ReceiverTypes
  <2>2. \A d \in RReady : EvOn("READ", d) \in ReceiverEvents
    BY <2>1, ReceivedEvents DEF RReady
  <2> DEFINE S == ReceiverEvents
             U == {e \in S : e.data \notin connections}
             V == {e \in S : e.data # About}
  <2>3. /\ RStart \/ RStopPosted \/ RRestart \/ RPollEnter \/ RPollReturn \/ RAccept \/ RRead
              => revents' \in Seq(S)
        /\ RStop => revents' \in Seq(U)
        /\ REnd /\ About \in Conns => revents' \in Seq(V)
    BY <2>1, <2>2, ReceivedEvents, ReceiverQueue
  <2>4. U \subseteq S /\ V \subseteq S
    OBVIOUS
  <2>5. REnd => About \in Conns
    BY <2>1, AboutFacts DEF REnd, RHandling
  <2> HIDE DEF S, U, V
  <2>6. RStop \/ REnd => revents' \in Seq(S)
    BY <2>3, <2>4, <2>5, SeqWithin
  <2>7. ASSUME NEW c \in Conns, Cut(c) PROVE revents' \in Seq(S)
    BY <2>1, <2>7 DEF Cut, receiver, S
  <2> QED BY <2>3, <2>6, <2>7 DEF S, ReceiverStep
<1>7. NetworkTypes'
  <2> DEFINE B == Bytes
  <2>0. <<>> \in Seq(B) /\ Len(<<>>) <= Window
    <3> HIDE DEF B
    <3> QED BY <1>1
  <2> HIDE DEF B
  <2>1. CASE RStart \/ RPollEnter \/ RPollReturn \/ RAccept \/ RRestart \/ RStopPosted
    BY <1>1, <2>1 DEF RStart, RPollEnter, RPollReturn, RAccept, RRestart, RStopPosted,
                      network, NetworkTypes
  <2>2. ASSUME NEW gone, NEW cs, FreeInputs(cs, gone) PROVE NetworkTypes'
    <3>1. /\ link' = [c \in Conns |-> IF c \in gone THEN "cut" ELSE link[c]]
          /\ wire' = [c \in Conns |-> IF c \in gone THEN <<>> ELSE wire[c]]
      BY <2>2 DEF FreeInputs
    <3>2. link' \in [Conns -> {"none", "up", "fin", "cut"}]
      BY <1>1, <3>1 DEF NetworkTypes
    <3>3. \A c \in Conns : wire'[c] \in Seq(B) /\ Len(wire'[c]) <= Window
      BY <1>1, <2>0, <3>1 DEF NetworkTypes, B
    <3>4. wire' \in [Conns -> Seq(B)]
      BY <3>1, <3>3
    <3> QED BY <3>2, <3>3, <3>4 DEF NetworkTypes, B
  <2>3. CASE RStop \/ REnd
    BY <2>2, <2>3 DEF RStop, REnd
  <2>4. CASE RRead
    <3> DEFINE w == wire[About]
    <3>1. PICK n \in 1..Len(w) :
            wire' = [wire EXCEPT ![About] = SubSeq(@, n + 1, Len(@))]
      BY <2>4 DEF RRead
    <3>2. About \in Conns /\ link' = link
      BY <1>1, <2>4 DEF RRead, ReceiverTypes
    <3>3. w \in Seq(B) /\ Len(w) \in Nat /\ Len(w) <= Window
      BY <1>1, <3>2 DEF NetworkTypes, B
    <3> DEFINE v == SubSeq(w, n + 1, Len(w))
    <3>4. v \in Seq(B) /\ Len(v) = Len(w) - n
      <4> HIDE DEF w
      <4> QED BY <3>1, <3>3
    <3>5. Len(v) <= Window
      <4> HIDE DEF v, w
      <4> QED BY <1>1, <3>1, <3>3, <3>4
    <3>6. wire' = [wire EXCEPT ![About] = v]
      BY <3>1
    <3> HIDE DEF v
    <3> QED BY <1>1, <3>2, <3>4, <3>5, <3>6 DEF NetworkTypes, B
  <2>5. ASSUME NEW c \in Conns, Cut(c) PROVE NetworkTypes'
    <3>1. link' = [link EXCEPT ![c] = "cut"] /\ wire' = [wire EXCEPT ![c] = <<>>]
      BY <2>5 DEF Cut
    <3> QED BY <1>1, <2>0, <3>1 DEF NetworkTypes, B
  <2> QED BY <2>1, <2>3, <2>4, <2>5 DEF ReceiverStep
<1>8. ReceiverTypes'
  <2> DEFINE B == Bytes
  <2>0. <<>> \in Seq(B)
    <3> HIDE DEF B
    <3> QED OBVIOUS
  <2> HIDE DEF B
  <2>1. CASE RStart \/ RPollEnter \/ RPollReturn \/ RRestart \/ RStopPosted \/ RStop
    <3>1. listening' \in BOOLEAN /\ rpoll' \in BOOLEAN
      BY <1>1, <2>1, Zenon DEF RStart, RPollEnter, RPollReturn, RRestart, RStopPosted, RStop,
                               ReceiverTypes
    <3>2. connections' \subseteq connections /\ partial' = partial /\ lines' = lines
      BY <2>1 DEF RStart, RPollEnter, RPollReturn, RRestart, RStopPosted, RStop, FreeInputs
    <3> QED BY <1>1, <1>6, <3>1, <3>2 DEF ReceiverTypes
  <2>2. CASE RAccept
    <3>1. UNCHANGED <<listening, rpoll, partial, lines>>
      BY <2>2 DEF RAccept
    <3>2. Backlog # {} => Min(Backlog) \in Conns
      <4>1. Backlog \subseteq Conns /\ Conns \subseteq Nat
        BY <1>1 DEF Backlog, Conns
      <4>2. Backlog \subseteq Nat
        BY <4>1
      <4> QED BY <4>1, <4>2, MinFacts
    <3>3. connections' \subseteq Conns
      BY <1>1, <2>2, <3>2 DEF RAccept, ReceiverTypes
    <3> QED BY <1>1, <1>6, <3>1, <3>3 DEF ReceiverTypes
  <2>3. CASE REnd
    <3>1. UNCHANGED <<listening, rpoll, lines>> /\ connections' \subseteq connections
      BY <2>3 DEF REnd, FreeInputs
    <3>2. partial' = [partial EXCEPT ![About] = <<>>]
      BY <2>3 DEF REnd
    <3>3. partial' \in [Conns -> Seq(B)]
      BY <1>1, <2>0, <3>2 DEF ReceiverTypes, B
    <3> QED BY <1>1, <1>6, <3>1, <3>3 DEF ReceiverTypes, B
  <2>4. CASE RRead
    <3> DEFINE x == [lines |-> lines[About], ctx |-> partial[About]]
    <3>0. About \in Conns /\ UNCHANGED <<listening, connections, rpoll>>
      BY <1>1, <2>4 DEF RRead, ReceiverTypes
    <3>1. PICK n \in 1..Len(wire[About]) :
            /\ lines' = [lines EXCEPT ![About] = Fed(x, wire[About])[n].lines]
            /\ partial' = [partial EXCEPT ![About] = Fed(x, wire[About])[n].ctx]
      BY <2>4 DEF RRead
    <3>2. x \in Inputs /\ wire[About] \in Seq(Bytes)
      BY <1>1, <3>0 DEF Inputs, ReceiverTypes, NetworkTypes
    <3> HIDE DEF x
    <3>3. Fed(x, wire[About])[n] \in Inputs
      <4>1. n \in 0..Len(wire[About])
        BY <3>1
      <4> QED BY <3>2, <4>1, FedFacts
    <3> DEFINE y == Fed(x, wire[About])[n]
               C == Seq(B)
    <3>4. y.lines \in Seq(C) /\ y.ctx \in C
      BY <3>3 DEF Inputs, B
    <3>5. lines' = [lines EXCEPT ![About] = y.lines] /\ partial' = [partial EXCEPT ![About] = y.ctx]
      BY <3>1
    <3>6. lines \in [Conns -> Seq(C)] /\ partial \in [Conns -> C]
      BY <1>1 DEF ReceiverTypes, B
    <3> HIDE DEF y, C
    <3>7. lines' \in [Conns -> Seq(C)] /\ partial' \in [Conns -> C]
      BY <3>4, <3>5, <3>6
    <3> QED BY <1>1, <1>6, <3>0, <3>7 DEF ReceiverTypes, B, C
  <2>5. ASSUME NEW c \in Conns, Cut(c) PROVE ReceiverTypes'
    BY <1>1, <2>5 DEF Cut, receiver, ReceiverTypes
  <2> QED BY <2>1, <2>2, <2>3, <2>4, <2>5 DEF ReceiverStep
<1> QED BY <1>4, <1>5, <1>7, <1>8, Together

(* Stuttering.                                                             *)
LEMMA SenderStutters ==
  ASSUME SenderInv, UNCHANGED vars PROVE SenderInv'
<1>1. UNCHANGED <<sender, network, receiver, faults>>
  BY DEF vars
<1>2. UNCHANGED <<queue, pushed, output, sent, pc, status>>
  BY <1>1 DEF sender
<1>3. RecordInv' /\ HandedOverOnce'
  BY <1>2, RecordsKept DEF SenderInv, RecordInv
<1>4. SenderTypes'
  BY <1>1, RunningFacts DEF SenderTypes, sender
<1> QED BY <1>1, <1>3, <1>4, RunningFacts, SenderOnly

(* Every step preserves SenderInv.                                         *)
LEMMA SenderNext == SenderInv /\ [Next]_vars => SenderInv'
<1> SUFFICES ASSUME SenderInv, [Next]_vars PROVE SenderInv'
  OBVIOUS
<1>1. CASE Due \/ ReconnectProc \/ AlreadyRunning \/ Ignore \/ Write \/ PollEnter \/ PollReturn
  BY <1>1, EventSteps
<1>2. CASE ConnectFails \/ Disconnect \/ SendFails \/ Read
  BY <1>2, FaultSteps
<1>3. CASE Connect
  BY <1>3, ConnectStep
<1>4. CASE Send
  BY <1>4, SendStep
<1>5. CASE FirstPeek
  BY <1>5, FirstPeekStep
<1>6. CASE Push
  BY <1>6, PushStep
<1>7. CASE ReceiverStep \/ RRestart \/ RStopPosted \/ \E c \in Conns : Cut(c)
  BY <1>7, ReceiverSteps
<1>8. CASE UNCHANGED vars
  BY <1>8, SenderStutters
<1> QED BY <1>1, <1>2, <1>3, <1>4, <1>5, <1>6, <1>7, <1>8, Zenon DEF Next, SenderStep

(* The sender's inductive invariant holds in every reachable state.        *)
LEMMA SenderAlways == Spec => []SenderInv
BY SenderInitially, SenderNext, PTL DEF Spec

(* The events, buffers, connections and histories of both sides always     *)
(* are what the code takes them for: the data of an event fits its type,   *)
(* no connection holds more than its window, and the sender is running     *)
(* exactly while it has a socket.                                          *)
THEOREM TypeCorrect == Spec => []TypeOK
<1>1. SenderInv => TypeOK
  BY DEF SenderInv
<1> QED BY <1>1, SenderAlways, PTL

(* Over short writes, EAGAIN, errors and reconnections om_tcp_write()      *)
(* hands every byte of the records to send() exactly once and in order,    *)
(* and a record leaves the queue exactly with its last byte.               *)
THEOREM BytesHandedOver == Spec => []HandedOverOnce
<1>1. SenderInv => HandedOverOnce
  BY DEF SenderInv
<1> QED BY <1>1, SenderAlways, PTL

-----------------------------------------------------------------------------
(* The receiver's inputs.                                                  *)

(* Connections that were not made yet are in nobody's hands.               *)
LEMMA UnusedNext ==
  ASSUME SenderInv, Unused, [Next]_vars
  PROVE  Unused'
<1>1. /\ NetworkTypes /\ ReceiverTypes /\ (pc # "idle" => sock \in Conns)
      /\ MaxConns \in Nat
  BY RunningFacts
<1>2. \A c \in Conns : link'[c] = "none" => link[c] = "none"
  <2>1. CASE Connect
    BY <1>1, <2>1 DEF Connect, NetworkTypes
  <2>2. CASE CloseSock
    BY <1>1, <2>2 DEF CloseSock, NetworkTypes
  <2>3. ASSUME NEW d \in Conns, Cut(d) PROVE \A c \in Conns : link'[c] = "none" => link[c] = "none"
    BY <1>1, <2>3 DEF Cut, NetworkTypes
  <2>4. CASE RStop \/ REnd
    BY <1>1, <2>4 DEF RStop, REnd, FreeInputs, NetworkTypes
  <2>5. CASE UNCHANGED link
    BY <2>5
  <2>6. Connect \/ CloseSock \/ (\E d \in Conns : Cut(d)) \/ RStop \/ REnd \/ UNCHANGED link
    <3>1. ConnectFails \/ SendFails \/ Read => CloseSock \/ UNCHANGED link
      BY DEF ConnectFails, SendFails, Read, IoErr, network
    <3>2. Disconnect => CloseSock
      BY DEF Disconnect
    <3>3. AlreadyRunning \/ Ignore \/ Write \/ Send \/ FirstPeek \/ PollEnter \/ PollReturn
             \/ Due \/ Push \/ ReconnectProc => UNCHANGED link
      BY DEF AlreadyRunning, Ignore, Write, Send, FirstPeek, PollEnter, PollReturn, Due, Push,
             ReconnectProc, network
    <3>4. RStart \/ RPollEnter \/ RPollReturn \/ RAccept \/ RRead \/ RRestart \/ RStopPosted
             \/ UNCHANGED vars => UNCHANGED link
      BY DEF RStart, RPollEnter, RPollReturn, RAccept, RRead, RRestart, RStopPosted, network, vars
    <3> QED BY <3>1, <3>2, <3>3, <3>4, Zenon DEF Next, SenderStep, ReceiverStep
  <2> QED BY <2>1, <2>2, <2>3, <2>4, <2>5, <2>6
<1>3. ASSUME NEW c \in Conns, link[c] = "none"
      PROVE  /\ c \notin connections' /\ wire'[c] = <<>>
             /\ partial'[c] = <<>> /\ lines'[c] = <<>>
  <2>0. c \notin connections /\ wire[c] = <<>> /\ partial[c] = <<>> /\ lines[c] = <<>>
    BY <1>3 DEF Unused
  <2>1. CASE UNCHANGED <<wire, receiver>>
    BY <2>0, <2>1 DEF receiver
  <2>2. CASE Send
    <3>1. link[sock] # "up" \/ sock # c
      BY <1>3
    <3>2. wire'[c] = <<>> /\ UNCHANGED receiver
      BY <1>1, <2>0, <2>2, <3>1 DEF Send, NetworkTypes
    <3> QED BY <2>0, <3>2 DEF receiver
  <2>3. CASE RStart \/ RPollEnter \/ RPollReturn \/ RRestart \/ RStopPosted
    BY <2>0, <2>3 DEF RStart, RPollEnter, RPollReturn, RRestart, RStopPosted, network
  <2>4. CASE RAccept
    <3>1. Backlog # {} => Min(Backlog) \in Backlog
      <4>1. Backlog \subseteq Nat
        BY <1>1 DEF Backlog, Conns
      <4> QED BY <4>1, MinFacts
    <3>2. c \notin Backlog
      BY <1>3 DEF Backlog
    <3> QED BY <2>0, <2>4, <3>1, <3>2 DEF RAccept, network
  <2>5. CASE RRead
    <3>1. About # c
      BY <2>0, <2>5 DEF RRead
    <3>2. UNCHANGED connections /\ wire'[c] = wire[c] /\ partial'[c] = partial[c] /\ lines'[c] = lines[c]
      BY <1>1, <2>5, <3>1 DEF RRead, NetworkTypes, ReceiverTypes
    <3> QED BY <2>0, <3>2
  <2>6. CASE RStop \/ REnd
    <3>1. c \notin connections' /\ wire'[c] = <<>> /\ lines' = lines
      BY <1>1, <2>0, <2>6 DEF RStop, REnd, FreeInputs
    <3>2. partial'[c] = <<>>
      BY <1>1, <2>0, <2>6 DEF RStop, REnd, ReceiverTypes
    <3> QED BY <2>0, <3>1, <3>2
  <2>7. ASSUME NEW d \in Conns, Cut(d)
        PROVE  wire'[c] = <<>> /\ UNCHANGED receiver
    BY <1>1, <2>0, <2>7 DEF Cut, NetworkTypes
  <2>8. Connect \/ ConnectFails \/ AlreadyRunning \/ Disconnect \/ Ignore \/ Read \/ Write
           \/ SendFails \/ FirstPeek \/ PollEnter \/ PollReturn \/ Due \/ Push \/ ReconnectProc
           \/ UNCHANGED vars => UNCHANGED <<wire, receiver>>
    BY DEF Connect, ConnectFails, AlreadyRunning, Disconnect, Ignore, Read, Write, SendFails,
           FirstPeek, PollEnter, PollReturn, Due, Push, ReconnectProc, IoErr, network, vars
  <2>9. CASE \E d \in Conns : Cut(d)
    BY <2>0, <2>7, <2>9 DEF receiver
  <2> QED BY <2>1, <2>2, <2>3, <2>4, <2>5, <2>6, <2>8, <2>9, Zenon
          DEF Next, SenderStep, ReceiverStep
<1> QED BY <1>2, <1>3 DEF Unused

(* The events a receiver with the inputs cs may hold.                      *)
EventsAbout(cs) == {e \in ReceiverEvents : e.data \in cs \cup {0, Listen}}

(* EventsHaveInputs says that the list is one of events about the present  *)
(* inputs.                                                                 *)
LEMMA InputsMeans ==
  ASSUME revents \in Seq(ReceiverEvents)
  PROVE  EventsHaveInputs <=> revents \in Seq(EventsAbout(connections))
<1>1. DOMAIN revents = 1..Len(revents) /\ \A i \in 1..Len(revents) : revents[i] \in ReceiverEvents
  OBVIOUS
<1> DEFINE E == EventsAbout(connections)
<1>2. \A e \in ReceiverEvents : e \in E <=> e.data \in connections \cup {0, Listen}
  BY DEF EventsAbout
<1>3. ASSUME EventsHaveInputs PROVE revents \in Seq(E)
  <2>1. \A i \in 1..Len(revents) : revents[i] \in E
    BY <1>1, <1>2, <1>3 DEF EventsHaveInputs
  <2> HIDE DEF E
  <2> QED BY <2>1, SeqFrom
<1>4. ASSUME revents \in Seq(E) PROVE EventsHaveInputs
  <2>1. \A i \in 1..Len(revents) : revents[i] \in E
    <3> HIDE DEF E
    <3> QED BY <1>4
  <2> QED BY <1>1, <1>2, <2>1 DEF EventsHaveInputs
<1> QED BY <1>3, <1>4

(* An event is removed with the connection it is about.                    *)
LEMMA InputsNext ==
  ASSUME SenderInv, SenderInv', EventsHaveInputs, [Next]_vars
  PROVE  EventsHaveInputs'
<1>1. /\ revents \in Seq(ReceiverEvents) /\ connections \subseteq Conns
      /\ MaxConns \in Nat
  BY RunningFacts DEF ReceiverTypes
<1>2. revents' \in Seq(ReceiverEvents)
  BY DEF SenderInv, TypeOK
<1> DEFINE E == EventsAbout(connections)
           F == EventsAbout(connections')
<1>3. revents \in Seq(E)
  BY <1>1, InputsMeans
<1>4. revents' \in Seq(F) => EventsHaveInputs'
  <2>1. ASSUME revents' \in Seq(F), NEW i \in DOMAIN revents'
        PROVE  revents'[i].data \in connections' \cup {0, Listen}
    <3>1. revents'[i] \in F
      <4> HIDE DEF F
      <4> QED BY <2>1
    <3> QED BY <3>1 DEF EventsAbout
  <2> QED BY <2>1 DEF EventsHaveInputs
<1> SUFFICES revents' \in Seq(F)
  BY <1>4
<1>5. connections \subseteq connections' => E \subseteq F
  BY DEF EventsAbout
<1>6. CASE UNCHANGED receiver
  BY <1>3, <1>6 DEF receiver
<1>7. /\ Ev("START") \in E /\ Ev("STOP") \in E
      /\ \A d \in RReady : EvOn("READ", d) \in E
      /\ \A d \in connections : EvOn("DISCONNECT", d) \in E
  <2>1. \A t, d : EvOn(t, d).data = d /\ Ev(t).data = 0
    BY DEF Ev, EvOn
  <2>2. RReady \subseteq connections \cup {Listen}
    BY DEF RReady
  <2> QED BY <1>1, <2>1, <2>2, ReceivedEvents DEF EventsAbout
<1>8. /\ RStart \/ RStopPosted \/ RRestart \/ RPollEnter \/ RPollReturn \/ RAccept \/ RRead
            => revents' \in Seq(E)
      /\ RStop => revents' \in Seq({e \in E : e.data \notin connections})
      /\ REnd /\ About \in Conns => revents' \in Seq({e \in E : e.data # About})
  <2> HIDE DEF E
  <2> QED BY <1>1, <1>3, <1>7, ReceiverQueue
<1>9. CASE RStart \/ RStopPosted \/ RRestart \/ RPollEnter \/ RPollReturn \/ RAccept \/ RRead
  <2>1. connections \subseteq connections'
    BY <1>9 DEF RStart, RStopPosted, RRestart, RPollEnter, RPollReturn, RAccept, RRead
  <2> HIDE DEF E, F
  <2> QED BY <1>5, <1>8, <1>9, <2>1, SeqWithin
<1>10. CASE RStop
  <2> DEFINE V == {e \in E : e.data \notin connections}
  <2>1. connections' = connections \ connections
    BY <1>10 DEF RStop, FreeInputs
  <2>2. V \subseteq F
    BY <2>1 DEF EventsAbout
  <2>3. revents' \in Seq(V)
    BY <1>8, <1>10
  <2> HIDE DEF V, F
  <2> QED BY <2>2, <2>3, SeqWithin
<1>11. CASE REnd
  <2> DEFINE V == {e \in E : e.data # About}
  <2>1. connections' = connections \ {About}
    BY <1>11 DEF REnd, FreeInputs
  <2>2. V \subseteq F
    BY <2>1 DEF EventsAbout
  <2>3. About \in Conns
    BY <1>1, <1>11, AboutFacts DEF REnd, RHandling
  <2>4. revents' \in Seq(V)
    BY <1>8, <1>11, <2>3
  <2> HIDE DEF V, F
  <2> QED BY <2>2, <2>4, SeqWithin
<1>12. \/ ReceiverStep \/ RRestart \/ RStopPosted \/ UNCHANGED receiver
  <2>1. SenderStep => UNCHANGED receiver
    <3>1. Connect \/ ConnectFails \/ AlreadyRunning \/ Disconnect \/ Ignore \/ Read \/ Write
             \/ SendFails \/ FirstPeek \/ PollEnter \/ PollReturn \/ Send => UNCHANGED receiver
      BY DEF Connect, ConnectFails, AlreadyRunning, Disconnect, Ignore, Read, Write, SendFails,
             FirstPeek, PollEnter, PollReturn, Send, IoErr
    <3> QED BY <3>1, Zenon DEF SenderStep
  <2>2. Due \/ Push \/ ReconnectProc \/ (\E c \in Conns : Cut(c)) \/ UNCHANGED vars
           => UNCHANGED receiver
    BY DEF Due, Push, ReconnectProc, Cut, vars
  <2> QED BY <2>1, <2>2, Zenon DEF Next
<1> HIDE DEF E, F
<1> QED BY <1>6, <1>9, <1>10, <1>11, <1>12, Zenon DEF ReceiverStep

(* No event of im_tcp is about an input that was freed, and a connection   *)
(* not yet used has no input: together inductive.                          *)
LEMMA InputsAlways == Spec => []InputsInv
<1>1. Init => EventsHaveInputs /\ Unused
  <2> SUFFICES ASSUME Init PROVE EventsHaveInputs /\ Unused
    OBVIOUS
  <2>1. EventsHaveInputs
    BY DEF Init, EventsHaveInputs, Ev
  <2> QED BY <2>1 DEF Init, Unused
<1>2. SenderInv /\ SenderInv' /\ EventsHaveInputs /\ Unused /\ [Next]_vars
        => EventsHaveInputs' /\ Unused'
  BY UnusedNext, InputsNext
<1>3. SenderInv /\ EventsHaveInputs /\ Unused => InputsInv
  BY DEF SenderInv, InputsInv
<1> QED BY <1>1, <1>2, <1>3, SenderAlways, PTL DEF Spec

(* im_tcp never handles the event of a connection after the connection was *)
(* freed: the assertion of im_tcp_read(), "if this is null there is a      *)
(* race/double free in event handling", holds.                             *)
THEOREM InputsOfEvents == Spec => []EventsHaveInputs
<1>1. InputsInv => EventsHaveInputs
  BY DEF InputsInv
<1> QED BY <1>1, InputsAlways, PTL

-----------------------------------------------------------------------------
(* The sender goes on.                                                     *)

(* What makes om_tcp write again, and what makes it connect again.         *)
Moves == {"WRITE", "DATA_AVAILABLE", "READ", "DISCONNECT"}
Opens == {"START", "RECONNECT", "DISCONNECT"}

(* A step that only posts an event e other than READ.                      *)
LEMMA PostingGoesOn ==
  ASSUME GoesOnInv, NEW e \in SenderEvents, e.type # "READ",
         events' = Enqueue(events, e), UNCHANGED <<status, pc, output, sock, want, network>>,
         delayed' >= delayed \/ e.type \in Opens, delayed' \in Nat
  PROVE  SenderGoesOn' /\ Followed'
<1>1. /\ events \in Seq(SenderEvents) /\ delayed \in Nat
  BY RunningFacts DEF GoesOnInv, SenderTypes
<1>2. /\ \A types : Pending(events, types) \/ e.type \in types => Pending(events', types)
      /\ FollowedIn(events) => FollowedIn(events')
  BY <1>1, Posting
<1>3. NeverStranded'
  BY <1>1, <1>2 DEF GoesOnInv, SenderGoesOn, NeverStranded, Opens
<1>4. BlockedIsWatched'
  BY <1>2 DEF GoesOnInv, SenderGoesOn, BlockedIsWatched
<1>5. Followed'
  BY <1>2 DEF GoesOnInv, Followed, network
<1> QED BY <1>3, <1>4, <1>5 DEF SenderGoesOn

(* A step that only takes an event that asks for nothing.                  *)
LEMMA TakingGoesOn ==
  ASSUME GoesOnInv, AlreadyRunning \/ Ignore \/ Write
  PROVE  SenderGoesOn' /\ Followed'
<1>1. events \in Seq(SenderEvents)
  BY RunningFacts DEF GoesOnInv, SenderTypes
<1>2. /\ events # <<>> /\ pc = "idle" /\ events' = Tail(events)
      /\ UNCHANGED <<status, output, sock, want, delayed, network>>
  BY DEF AlreadyRunning, Ignore, Write, Handling
<1>3. /\ \A types : Pending(events, types) /\ Head(events).type \notin types
            => Pending(events', types)
      /\ FollowedIn(events) => FollowedIn(events')
  BY <1>1, <1>2, Taking
<1>4. Followed'
  BY <1>2, <1>3 DEF GoesOnInv, Followed, network
<1>5. NeverStranded'
  <2>1. CASE Ignore
    <3>1. Head(events).type \notin Opens
      BY <2>1 DEF Ignore, Handling, Opens
    <3> QED BY <1>2, <1>3, <3>1 DEF GoesOnInv, SenderGoesOn, NeverStranded, Opens
  <2>2. CASE AlreadyRunning \/ Write
    <3>1. status' = "RUNNING"
      BY <1>2, <2>2 DEF AlreadyRunning, Write
    <3> QED BY <3>1 DEF NeverStranded
  <2> QED BY <2>1, <2>2
<1>6. BlockedIsWatched'
  <2>1. CASE Ignore
    <3>1. status' # "RUNNING"
      BY <1>2, <2>1 DEF Ignore
    <3> QED BY <3>1 DEF BlockedIsWatched
  <2>2. CASE AlreadyRunning
    <3>1. pc' = "idle" /\ Head(events).type \notin Moves /\ Head(events).type \notin {"POLL"}
      BY <1>2, <2>2 DEF AlreadyRunning, Handling, Moves
    <3> QED BY <1>2, <1>3, <3>1 DEF GoesOnInv, SenderGoesOn, BlockedIsWatched, Moves
  <2>3. CASE Write
    BY <2>3 DEF Write, BlockedIsWatched
  <2> QED BY <2>1, <2>2, <2>3
<1> QED BY <1>4, <1>5, <1>6 DEF SenderGoesOn

(* A step after which the sender waits for its RECONNECT.                  *)
LEMMA StoppedGoesOn ==
  ASSUME GoesOnInv, status' = "STOPPED", AddReconnectEvent
  PROVE  SenderGoesOn' /\ Followed'
<1>1. delayed' > 0
  BY RunningFacts, SMTT(40) DEF GoesOnInv, SenderTypes, AddReconnectEvent
<1> QED BY <1>1 DEF SenderGoesOn, NeverStranded, BlockedIsWatched, Followed

(* om_tcp_read() stops polling for POLLOUT, but a DATA_AVAILABLE follows.  *)
LEMMA ReadGoesOn ==
  ASSUME GoesOnInv, Read
  PROVE  SenderGoesOn' /\ Followed'
<1>1. events \in Seq(SenderEvents)
  BY RunningFacts DEF GoesOnInv, SenderTypes
<1>2. CASE IoErr
  BY <1>2, StoppedGoesOn DEF IoErr
<1>3. CASE /\ link[sock] = "up" /\ events' = Enqueue(Tail(events), Ev("POLL"))
           /\ UNCHANGED <<status, pc, output, sock, delayed, network>>
  <2>1. status = "RUNNING" /\ events # <<>> /\ Head(events).type = "READ"
    BY DEF Read, Handling
  <2>2. FollowedIn(events)
    BY <1>3, <2>1 DEF GoesOnInv, Followed
  <2> DEFINE t == Tail(events)
  <2>3. t \in Seq(SenderEvents) /\ FollowedIn(t) /\ Pending(t, {"DATA_AVAILABLE"})
    BY <1>1, <2>1, <2>2, Taking
  <2> HIDE DEF t
  <2>4. Ev("POLL") \in SenderEvents /\ Ev("POLL").type # "READ"
    BY PostedEvents
  <2>5. FollowedIn(Enqueue(t, Ev("POLL"))) /\ Pending(Enqueue(t, Ev("POLL")), {"DATA_AVAILABLE"})
    BY <2>3, <2>4, Posting
  <2>6. FollowedIn(events') /\ Pending(events', {"DATA_AVAILABLE"})
    BY <1>3, <2>5 DEF t
  <2>7. Pending(events', Moves)
    BY <2>6 DEF Pending, Moves
  <2> QED BY <1>3, <2>1, <2>6, <2>7
          DEF SenderGoesOn, NeverStranded, BlockedIsWatched, Followed, Moves
<1> QED BY <1>2, <1>3 DEF Read

(* om_tcp_start() posts DATA_AVAILABLE behind everything that was left.    *)
LEMMA ConnectGoesOn ==
  ASSUME GoesOnInv, Connect
  PROVE  SenderGoesOn' /\ Followed'
<1>1. events \in Seq(SenderEvents) /\ events # <<>>
  BY RunningFacts DEF GoesOnInv, SenderTypes, Connect, Starting, Handling
<1> DEFINE t == Tail(events)
           p == Enqueue(t, Ev("DATA_AVAILABLE"))
           r == Enqueue(p, Ev("POLL"))
<1>2. events' = PostIf(r, queue # <<>>, Ev("DATA_AVAILABLE")) /\ status' = "RUNNING"
  BY DEF Connect
<1>3. t \in Seq(SenderEvents)
  BY <1>1, Taking
<1>4. /\ Ev("DATA_AVAILABLE") \in SenderEvents /\ Ev("DATA_AVAILABLE").type = "DATA_AVAILABLE"
      /\ Ev("POLL") \in SenderEvents /\ Ev("POLL").type = "POLL"
  BY PostedEvents
<1> HIDE DEF t
<1>5. p \in Seq(SenderEvents) /\ FollowedIn(p) /\ Pending(p, Moves)
  BY <1>3, <1>4, Posting, SMTT(40) DEF Moves
<1> HIDE DEF p
<1>6. r \in Seq(SenderEvents) /\ FollowedIn(r) /\ Pending(r, Moves)
  BY <1>4, <1>5, Posting
<1> HIDE DEF r
<1>7. FollowedIn(events') /\ Pending(events', Moves)
  BY <1>2, <1>4, <1>6, PostingIf
<1> QED BY <1>2, <1>7 DEF SenderGoesOn, NeverStranded, BlockedIsWatched, Followed, Moves

(* A round of om_tcp_write().                                              *)
LEMMA WritingGoesOn ==
  ASSUME GoesOnInv, Send \/ FirstPeek
  PROVE  SenderGoesOn' /\ Followed'
<1>1. events \in Seq(SenderEvents) /\ status = "RUNNING"
  BY RunningFacts DEF GoesOnInv, SenderTypes, Send, FirstPeek
<1>2. UNCHANGED <<status, sock, link, delayed>>
  BY DEF Send, FirstPeek, network
<1>3. (\E n : Blocked(n)) \/ (\E q : Peek(q))
  BY DEF Send, FirstPeek, Sent
<1>4. ASSUME NEW e \in SenderEvents, e.type # "READ", events' = Enqueue(events, e)
      PROVE  Followed' /\ \A types : e.type \in types => Pending(events', types)
  BY <1>1, <1>2, <1>4, Posting DEF GoesOnInv, Followed
<1>5. NeverStranded'
  BY <1>1, <1>2 DEF NeverStranded
<1>6. ASSUME NEW n, Blocked(n) PROVE BlockedIsWatched' /\ Followed'
  <2>1. events' = Enqueue(events, Ev("POLL")) /\ "OUT" \in want'
    BY <1>6 DEF Blocked
  <2>2. Ev("POLL") \in SenderEvents /\ Ev("POLL").type = "POLL"
    BY PostedEvents
  <2>3. Followed' /\ Pending(events', {"POLL"})
    BY <1>4, <2>1, <2>2
  <2> QED BY <2>1, <2>3 DEF BlockedIsWatched
<1>7. ASSUME NEW q, Peek(q) PROVE BlockedIsWatched' /\ Followed'
  <2>1. CASE q = <<>>
    <3>1. output' = Empty /\ events' = events
      BY <1>7, <2>1 DEF Peek
    <3> QED BY <1>2, <3>1 DEF BlockedIsWatched, Empty, Followed, GoesOnInv
  <2>2. CASE q # <<>>
    <3>1. events' = Enqueue(events, Ev("DATA_AVAILABLE"))
      BY <1>7, <2>2 DEF Peek
    <3>2. Ev("DATA_AVAILABLE") \in SenderEvents /\ Ev("DATA_AVAILABLE").type = "DATA_AVAILABLE"
      BY PostedEvents
    <3>3. Followed' /\ Pending(events', Moves)
      BY <1>4, <3>1, <3>2 DEF Moves
    <3> QED BY <3>3 DEF BlockedIsWatched, Moves
  <2> QED BY <2>1, <2>2
<1> QED BY <1>3, <1>5, <1>6, <1>7 DEF SenderGoesOn

(* poll() is entered and returns.                                          *)
LEMMA PollingGoesOn ==
  ASSUME GoesOnInv, PollEnter \/ PollReturn
  PROVE  SenderGoesOn' /\ Followed'
<1>1. /\ events \in Seq(SenderEvents) /\ status = "RUNNING" /\ (pc # "idle" => sock \in Conns)
  BY RunningFacts DEF GoesOnInv, SenderTypes, PollEnter, PollReturn
<1>2. UNCHANGED <<status, sock, link, output, want, delayed>>
  BY DEF PollEnter, PollReturn, network
<1>3. NeverStranded'
  BY <1>1, <1>2 DEF NeverStranded
<1>4. Ev("POLL") \in SenderEvents /\ Ev("POLL").type = "POLL"
  BY PostedEvents
<1>5. output.buflen > 0 =>
         \/ pc = "write" \/ Pending(events, Moves)
         \/ "OUT" \in want /\ (pc = "poll" \/ Pending(events, {"POLL"}))
  BY <1>1 DEF GoesOnInv, SenderGoesOn, BlockedIsWatched, Moves
<1>6. CASE PollEnter
  <2> DEFINE t == Tail(events)
  <2>1. pc = "idle" /\ events # <<>> /\ Head(events).type = "POLL"
    BY <1>6 DEF PollEnter, Handling
  <2>2. /\ t \in Seq(SenderEvents)
        /\ Pending(events, Moves) => Pending(t, Moves)
        /\ FollowedIn(events) => FollowedIn(t)
    BY <1>1, <2>1, Taking DEF Moves
  <2>3. CASE t = <<>>
    <3>1. events' = <<>> /\ pc' = "poll"
      BY <1>6, <2>3 DEF PollEnter
    <3>2. ~Pending(events, Moves)
      BY <2>2, <2>3 DEF Pending
    <3>3. BlockedIsWatched'
      BY <1>2, <1>5, <2>1, <3>1, <3>2 DEF BlockedIsWatched
    <3>4. Followed'
      BY <3>1 DEF Followed, FollowedIn
    <3> QED BY <1>3, <3>3, <3>4 DEF SenderGoesOn
  <2>4. CASE t # <<>>
    <3>1. events' = Enqueue(t, Ev("POLL")) /\ pc' = pc
      BY <1>6, <2>4 DEF PollEnter
    <3> HIDE DEF t
    <3>2. /\ Pending(t, Moves) => Pending(events', Moves)
          /\ Pending(events', {"POLL"}) /\ (FollowedIn(t) => FollowedIn(events'))
      BY <1>4, <2>2, <3>1, Posting
    <3>3. BlockedIsWatched'
      BY <1>2, <1>5, <2>1, <2>2, <3>1, <3>2 DEF BlockedIsWatched, Moves
    <3>4. Followed'
      BY <1>2, <2>2, <3>2 DEF Followed, GoesOnInv
    <3> QED BY <1>3, <3>3, <3>4 DEF SenderGoesOn
  <2> QED BY <2>3, <2>4
<1>7. CASE PollReturn
  <2>0. pc = "poll" /\ pc' = "idle" /\ sock \in Conns
    BY <1>1, <1>7 DEF PollReturn
  <2> DEFINE cut == link[sock] = "cut"
             p == PostIf(events, cut, EvOn("READ", sock))
             r == PostIf(p, Writable, EvOn("WRITE", sock))
  <2>1. PICK hup \in BOOLEAN :
          /\ hup => cut
          /\ events' = IF cut \/ Writable THEN PostIf(r, hup, EvOn("DISCONNECT", sock))
                       ELSE Enqueue(events, Ev("POLL"))
    BY <1>7 DEF PollReturn
  <2>2. /\ EvOn("READ", sock) \in SenderEvents /\ EvOn("READ", sock).type = "READ"
        /\ EvOn("WRITE", sock) \in SenderEvents /\ EvOn("WRITE", sock).type = "WRITE"
        /\ EvOn("DISCONNECT", sock) \in SenderEvents
        /\ EvOn("DISCONNECT", sock).type = "DISCONNECT"
    BY <2>0, PostedEvents
  <2>3. CASE cut \/ Writable
    <3>1. /\ p \in Seq(SenderEvents) /\ (cut => Pending(p, Moves))
          /\ ~cut /\ FollowedIn(events) => FollowedIn(p)
      <4> HIDE DEF cut
      <4> QED BY <1>1, <2>2, PostingIf DEF Moves
    <3> HIDE DEF p
    <3>2. /\ r \in Seq(SenderEvents) /\ (cut \/ Writable => Pending(r, Moves))
          /\ ~cut /\ FollowedIn(events) => FollowedIn(r)
      <4> HIDE DEF cut
      <4> QED BY <2>2, <3>1, PostingIf DEF Moves
    <3> HIDE DEF r
    <3>3. Pending(events', Moves) /\ (~cut /\ FollowedIn(events) => FollowedIn(events'))
      <4> HIDE DEF cut
      <4> QED BY <2>1, <2>2, <2>3, <3>2, PostingIf
    <3>4. BlockedIsWatched'
      BY <3>3 DEF BlockedIsWatched, Moves
    <3>5. Followed'
      BY <1>2, <3>3 DEF Followed, GoesOnInv
    <3> QED BY <1>3, <3>4, <3>5 DEF SenderGoesOn
  <2>4. CASE ~(cut \/ Writable)
    <3>1. events' = Enqueue(events, Ev("POLL"))
      BY <2>1, <2>4
    <3>2. /\ Pending(events, Moves) => Pending(events', Moves)
          /\ Pending(events', {"POLL"}) /\ (FollowedIn(events) => FollowedIn(events'))
      BY <1>1, <1>4, <3>1, Posting
    <3>3. BlockedIsWatched'
      BY <1>2, <1>5, <2>0, <3>2 DEF BlockedIsWatched, Moves
    <3>4. Followed'
      BY <1>2, <3>2 DEF Followed, GoesOnInv
    <3> QED BY <1>3, <3>3, <3>4 DEF SenderGoesOn
  <2> QED BY <2>3, <2>4
<1> QED BY <1>6, <1>7

(* Every step leaves the sender with something that will bring it on.      *)
LEMMA GoesOnNext ==
  ASSUME GoesOnInv, [Next]_vars
  PROVE  SenderGoesOn' /\ Followed'
<1>0. /\ delayed \in Nat /\ NetworkTypes /\ sock \in 0..MaxConns
      /\ (status = "RUNNING" => sock \in Conns)
  BY RunningFacts DEF GoesOnInv, SenderTypes
<1>1. CASE Push \/ Due \/ ReconnectProc
  <2> DEFINE ev == IF Push THEN Ev("DATA_AVAILABLE")
                  ELSE IF Due THEN Ev("RECONNECT") ELSE Ev("DISCONNECT")
  <2>1. ev \in SenderEvents /\ ev.type # "READ" /\ (~Push => ev.type \in Opens)
    BY PostedEvents DEF Opens
  <2>2. UNCHANGED <<status, pc, output, sock, want, network>> /\ events' = Enqueue(events, ev)
    BY <1>1 DEF Push, Due, ReconnectProc
  <2>3. delayed' \in Nat /\ (Push => delayed' = delayed)
    BY <1>0, <1>1 DEF Push, Due, ReconnectProc
  <2>4. delayed' >= delayed \/ ev.type \in Opens
    BY <1>0, <2>1, <2>3
  <2> HIDE DEF ev
  <2> QED BY <2>1, <2>2, <2>3, <2>4, PostingGoesOn
<1>2. CASE AlreadyRunning \/ Ignore \/ Write
  BY <1>2, TakingGoesOn
<1>3. CASE ConnectFails \/ Disconnect \/ SendFails
  BY <1>3, StoppedGoesOn DEF ConnectFails, Disconnect, SendFails, IoErr
<1>4. CASE Read
  BY <1>4, ReadGoesOn
<1>5. CASE Connect
  BY <1>5, ConnectGoesOn
<1>6. CASE Send \/ FirstPeek
  BY <1>6, WritingGoesOn
<1>7. CASE PollEnter \/ PollReturn
  BY <1>7, PollingGoesOn
<1>8. CASE ReceiverStep \/ RRestart \/ RStopPosted \/ (\E c \in Conns : Cut(c)) \/ UNCHANGED vars
  <2>1. UNCHANGED sender
    BY <1>8 DEF ReceiverStep, RRestart, RStopPosted, Cut, RStart, RStop, RPollEnter,
                RPollReturn, RAccept, RRead, REnd, vars
  <2>2. UNCHANGED <<status, events, pc, output, sock, want, delayed>>
    BY <2>1 DEF sender
  <2>3. \A c \in Conns : link'[c] = "up" => link[c] = "up"
    <3>1. CASE RStop \/ REnd
      BY <1>0, <3>1 DEF RStop, REnd, FreeInputs, NetworkTypes
    <3>2. ASSUME NEW d \in Conns, Cut(d) PROVE \A c \in Conns : link'[c] = "up" => link[c] = "up"
      BY <1>0, <3>2 DEF Cut, NetworkTypes
    <3>3. CASE RStart \/ RPollEnter \/ RPollReturn \/ RAccept \/ RRead \/ RRestart \/ RStopPosted
                 \/ UNCHANGED vars
      BY <3>3 DEF RStart, RPollEnter, RPollReturn, RAccept, RRead, RRestart, RStopPosted,
                  network, vars
    <3> QED BY <1>8, <3>1, <3>2, <3>3, Zenon DEF ReceiverStep
  <2>4. SenderGoesOn'
    BY <2>2 DEF GoesOnInv, SenderGoesOn, NeverStranded, BlockedIsWatched
  <2>5. Followed'
    BY <1>0, <2>2, <2>3 DEF GoesOnInv, Followed
  <2> QED BY <2>4, <2>5
<1> QED BY <1>1, <1>2, <1>3, <1>4, <1>5, <1>6, <1>7, <1>8, Zenon DEF Next, SenderStep

(* om_tcp is never left waiting for nothing: without a connection it has a *)
(* START or RECONNECT coming, and with part of a record unsent it has an   *)
(* event that makes it write, or polls for POLLOUT.                        *)
THEOREM SenderNeverStuck == Spec => []SenderGoesOn
<1>1. Init => SenderGoesOn /\ Followed
  <2> SUFFICES ASSUME Init PROVE SenderGoesOn /\ Followed
    OBVIOUS
  <2>1. Pending(events, Opens)
    BY DEF Init, Pending, Ev, Opens
  <2> QED BY <2>1 DEF Init, SenderGoesOn, NeverStranded, BlockedIsWatched, Followed, Opens
<1>2. SenderInv /\ SenderGoesOn /\ Followed /\ [Next]_vars => SenderGoesOn' /\ Followed'
  BY GoesOnNext DEF GoesOnInv
<1> QED BY <1>1, <1>2, SenderAlways, PTL DEF Spec

-----------------------------------------------------------------------------
(* The stream of a connection.                                             *)

(* A byte and the one behind it.                                           *)
LEMMA ByteFacts ==
  ASSUME NEW b \in Bytes
  PROVE  /\ b = <<b[1], b[2]>> /\ b[1] \in 1..NumRecords /\ b[2] \in 1..RecLen
         /\ RecLen \in Nat /\ RecLen >= 2 /\ NumRecords \in Nat
         /\ IsLF(b) => b[2] = RecLen /\ After(b)[2] = 1
         /\ ~IsLF(b) => b[2] < RecLen /\ After(b) = <<b[1], b[2] + 1>>
BY TcpAssumption DEF Bytes, IsLF, After

(* A line feed ends a line that is the end of a record, or all of it.      *)
LEMMA LineEnds ==
  ASSUME NEW ls \in Seq(Seq(Bytes)), NEW ctx \in Seq(Bytes), NEW w \in Seq(Bytes),
         NEW n \in 1..Len(w), Reading(ls, ctx, w, n - 1), IsLF(w[n])
  PROVE  Torn(ctx, Len(ls) + 1)
<1> DEFINE b == w[n]
<1>0. n \in Nat /\ Len(w) \in Nat /\ n - 1 < Len(w) /\ (n - 1) + 1 = n /\ Len(ls) \in Nat
  OBVIOUS
<1>1. b \in Bytes
  OBVIOUS
<1>2. /\ b = <<b[1], b[2]>> /\ b[1] \in 1..NumRecords /\ b[2] = RecLen
      /\ RecLen \in Nat /\ RecLen >= 2 /\ NumRecords \in Nat
  BY <1>1, ByteFacts
<1>3. /\ ctx # <<>> => b = After(ctx[Len(ctx)])
      /\ ls # <<>> /\ ctx # <<>> => ctx[1][2] = 1
      /\ ls # <<>> /\ ctx = <<>> => b[2] = 1
      /\ \A j \in 1..Len(ctx) : ctx[j] = <<ctx[1][1], ctx[1][2] + j - 1>> /\ ~IsLF(ctx[j])
  BY <1>0 DEF Reading
<1> HIDE DEF b
<1>4. Len(ls) + 1 > 1 => ls # <<>>
  BY <1>0
<1>5. CASE ctx = <<>>
  <2>1. RecLen \in 1..RecLen /\ ~(Len(ls) + 1 > 1)
    BY <1>2, <1>3, <1>4, <1>5
  <2>2. ctx = [j \in 1..RecLen - RecLen |-> <<b[1], RecLen + j - 1>>]
    <3>1. RecLen - RecLen = 0
      BY <1>2
    <3>2. 1..0 = {}
      OBVIOUS
    <3>3. <<>> = [j \in 1..0 |-> <<b[1], RecLen + j - 1>>]
      BY <3>2
    <3> QED BY <1>5, <3>1, <3>3
  <2> QED BY <1>2, <2>1, <2>2 DEF Torn
<1>6. CASE ctx # <<>>
  <2> DEFINE m == Len(ctx)
             r == ctx[1][1]
             k == ctx[1][2]
  <2>1. /\ m \in Nat /\ m >= 1 /\ ctx[m] \in Bytes /\ ctx[1] \in Bytes
        /\ DOMAIN ctx = 1..m /\ ctx = [j \in 1..m |-> ctx[j]]
    BY <1>6
  <2>2. r \in 1..NumRecords /\ k \in 1..RecLen
    BY <2>1, ByteFacts
  <2>3. ctx[m] = <<r, k + m - 1>> /\ ~IsLF(ctx[m])
    BY <1>3, <2>1
  <2>4. b = <<ctx[m][1], ctx[m][2] + 1>>
    BY <1>3, <1>6, <2>1, <2>3, ByteFacts
  <2>5. ctx[m][2] = k + m - 1
    BY <2>3
  <2>6. \A j \in 1..m : ctx[j] = <<r, k + j - 1>>
    BY <1>3
  <2>7. ls # <<>> => k = 1
    BY <1>3, <1>6
  <2> HIDE DEF m, r, k
  <2>8. m = RecLen - k
    <3>1. b[2] = ctx[m][2] + 1
      BY <2>4
    <3> QED BY <1>2, <2>1, <2>2, <2>5, <3>1, SMTT(40)
  <2>9. ctx = [j \in 1..m |-> <<r, k + j - 1>>]
    BY <2>1, <2>6
  <2> QED BY <1>4, <2>2, <2>7, <2>8, <2>9 DEF Torn
<1> QED BY <1>5, <1>6

(* nx_module_input_func_linereader() goes on by one byte.                  *)
LEMMA FeedReads ==
  ASSUME NEW r \in Inputs, NEW w \in Seq(Bytes), NEW n \in 1..Len(w),
         Reading(r.lines, r.ctx, w, n - 1)
  PROVE  /\ Reading(Feed(r, w[n]).lines, Feed(r, w[n]).ctx, w, n)
         /\ \A u : Continues(r.lines, r.ctx, w, n - 1, u) =>
                   Continues(Feed(r, w[n]).lines, Feed(r, w[n]).ctx, w, n, u)
<1> DEFINE b == w[n]
           ls == r.lines
           ctx == r.ctx
<1>0. /\ n \in Nat /\ Len(w) \in Nat /\ n - 1 < Len(w) /\ (n - 1) + 1 = n
      /\ ls \in Seq(Seq(Bytes)) /\ ctx \in Seq(Bytes)
  BY DEF Inputs
<1>1. b \in Bytes
  OBVIOUS
<1>2. /\ b = <<b[1], b[2]>> /\ b[1] \in 1..NumRecords /\ b[2] \in 1..RecLen
      /\ IsLF(b) => After(b)[2] = 1
  BY <1>1, ByteFacts
<1>3. \A i \in 1..Len(ls) : Torn(ls[i], i)
  BY DEF Reading
<1>4. \A j \in 1..Len(ctx) : ctx[j] = <<ctx[1][1], ctx[1][2] + j - 1>> /\ ~IsLF(ctx[j])
  BY DEF Reading
<1>5. \A j \in n..Len(w) - 1 : w[j + 1] = After(w[j])
  BY <1>0 DEF Reading
<1>6. /\ ctx # <<>> => b = After(ctx[Len(ctx)])
      /\ ls # <<>> /\ ctx # <<>> => ctx[1][2] = 1
      /\ ls # <<>> /\ ctx = <<>> => b[2] = 1
  BY <1>0 DEF Reading
<1>7. n < Len(w) => w[n + 1] = After(b)
  BY <1>0, <1>5
<1>8. \A u : Continues(ls, ctx, w, n - 1, u) => (u = After(w[Len(w)])) /\ (n = Len(w) => u = After(b))
  BY <1>0 DEF Continues
<1>9. CASE IsLF(b)
  <2> DEFINE l2 == Append(ls, ctx)
             C == Seq(Bytes)
  <2>1. Feed(r, b).lines = l2 /\ Feed(r, b).ctx = <<>>
    BY <1>9 DEF Feed
  <2>2. Torn(ctx, Len(ls) + 1)
    BY <1>0, <1>9, LineEnds
  <2>3. /\ Len(l2) = Len(ls) + 1 /\ Len(ls) \in Nat /\ l2[Len(ls) + 1] = ctx /\ l2 # <<>>
        /\ \A i \in 1..Len(ls) : l2[i] = ls[i]
    <3>1. ls \in Seq(C) /\ ctx \in C
      BY <1>0
    <3> HIDE DEF ls, ctx, C
    <3> QED BY <3>1
  <2> HIDE DEF l2, ls, ctx, b
  <2>4. \A i \in 1..Len(l2) : Torn(l2[i], i)
    <3> TAKE i \in 1..Len(l2)
    <3>1. CASE i \in 1..Len(ls)
      BY <1>3, <2>3, <3>1
    <3>2. CASE i = Len(ls) + 1
      BY <2>2, <2>3, <3>2
    <3> QED BY <2>3, <3>1, <3>2
  <2>5. Reading(l2, <<>>, w, n)
    <3>1. n < Len(w) => w[n + 1][2] = 1
      BY <1>2, <1>7, <1>9
    <3>2. \A j \in n + 1..Len(w) - 1 : w[j + 1] = After(w[j])
      BY <1>0, <1>5
    <3> QED BY <2>4, <3>1, <3>2 DEF Reading
  <2>6. \A u : Continues(ls, ctx, w, n - 1, u) => Continues(l2, <<>>, w, n, u)
    BY <1>2, <1>8, <1>9 DEF Continues
  <2> QED BY <2>1, <2>5, <2>6 DEF ls, ctx, b
<1>10. CASE ~IsLF(b)
  <2> DEFINE c2 == Append(ctx, b)
             B == Bytes
             m == Len(ctx)
  <2>1. Feed(r, b).lines = ls /\ Feed(r, b).ctx = c2
    BY <1>10 DEF Feed, Inputs
  <2>2. /\ Len(c2) = m + 1 /\ m \in Nat /\ c2[m + 1] = b /\ c2 # <<>>
        /\ \A i \in 1..m : c2[i] = ctx[i] /\ ctx[i] \in B
        /\ (m = 0 => ctx = <<>>) /\ (m > 0 => ctx # <<>>)
    <3>1. ctx \in Seq(B) /\ b \in B
      BY <1>0, <1>1
    <3> HIDE DEF ctx, b, B
    <3> QED BY <3>1
  <2>3. m > 0 => ctx[m] \in Bytes /\ ctx[1] \in Bytes
    BY <2>2
  <2> HIDE DEF c2, ls, ctx, b, m
  <2>4. m > 0 => b = <<ctx[1][1], ctx[1][2] + m>>
    <3> SUFFICES ASSUME m > 0 PROVE b = <<ctx[1][1], ctx[1][2] + m>>
      OBVIOUS
    <3>1. m \in 1..m /\ ctx # <<>>
      BY <2>2
    <3>2. ctx[m] = <<ctx[1][1], ctx[1][2] + m - 1>> /\ ~IsLF(ctx[m])
      BY <1>4, <3>1 DEF m
    <3>3. After(ctx[m]) = <<ctx[m][1], ctx[m][2] + 1>>
      BY <2>3, <3>2, ByteFacts
    <3>4. ctx[m][1] = ctx[1][1] /\ ctx[m][2] = ctx[1][2] + m - 1
      BY <3>2
    <3>5. ctx[1][2] \in Nat
      BY <2>3, ByteFacts
    <3>6. (ctx[1][2] + m - 1) + 1 = ctx[1][2] + m
      BY <2>2, <3>5
    <3> QED BY <1>6, <3>1, <3>3, <3>4, <3>6 DEF m
  <2>5. c2[1] = IF m = 0 THEN b ELSE ctx[1]
    BY <2>2
  <2>6. \A j \in 1..Len(c2) : c2[j] = <<c2[1][1], c2[1][2] + j - 1>> /\ ~IsLF(c2[j])
    <3> TAKE j \in 1..Len(c2)
    <3>1. CASE j \in 1..m
      <4>1. c2[j] = ctx[j] /\ c2[1] = ctx[1]
        BY <2>2, <2>5, <3>1
      <4>2. ctx[j] = <<ctx[1][1], ctx[1][2] + j - 1>> /\ ~IsLF(ctx[j])
        BY <1>4, <3>1 DEF m
      <4> QED BY <4>1, <4>2
    <3>2. CASE j = m + 1 /\ m > 0
      <4>1. ctx[1][2] \in Nat
        BY <2>3, <3>2, ByteFacts, SMTT(40)
      <4>2. ctx[1][2] + m = ctx[1][2] + j - 1
        BY <2>2, <3>2, <4>1
      <4> QED BY <1>10, <2>2, <2>4, <2>5, <3>2, <4>2
    <3>3. CASE j = m + 1 /\ m = 0
      <4>1. c2[j] = b /\ c2[1] = b /\ j = 1
        BY <2>2, <2>5, <3>3
      <4>2. b[2] + j - 1 = b[2]
        BY <1>2, <4>1
      <4> QED BY <1>2, <1>10, <4>1, <4>2
    <3> QED BY <2>2, <3>1, <3>2, <3>3
  <2>7. ls # <<>> => c2[1][2] = 1
    BY <1>6, <2>2, <2>5
  <2>8. Reading(ls, c2, w, n)
    <3>1. n < Len(w) => w[n + 1] = After(c2[Len(c2)])
      BY <1>7, <2>2
    <3>2. \A j \in n + 1..Len(w) - 1 : w[j + 1] = After(w[j])
      BY <1>0, <1>5
    <3> QED BY <1>3, <2>2, <2>6, <2>7, <3>1, <3>2 DEF Reading
  <2>9. \A u : Continues(ls, ctx, w, n - 1, u) => Continues(ls, c2, w, n, u)
    BY <1>8, <2>2 DEF Continues
  <2> QED BY <2>1, <2>8, <2>9 DEF ls, ctx, b
<1> QED BY <1>9, <1>10

(* Any number of bytes.                                                    *)
LEMMA FedReads ==
  ASSUME NEW r \in Inputs, NEW w \in Seq(Bytes), NEW n \in 0..Len(w),
         Reading(r.lines, r.ctx, w, 0)
  PROVE  /\ Reading(Fed(r, w)[n].lines, Fed(r, w)[n].ctx, w, n)
         /\ \A u : Continues(r.lines, r.ctx, w, 0, u) =>
                   Continues(Fed(r, w)[n].lines, Fed(r, w)[n].ctx, w, n, u)
<1> DEFINE f == Fed(r, w)
           P(m) == /\ Reading(f[m].lines, f[m].ctx, w, m)
                   /\ \A u : Continues(r.lines, r.ctx, w, 0, u) =>
                             Continues(f[m].lines, f[m].ctx, w, m, u)
           T == {m \in Nat : m <= Len(w) => P(m)}
<1>0. /\ f[0] = r /\ \A m \in 1..Len(w) : f[m] = Feed(f[m - 1], w[m])
      /\ \A m \in 0..Len(w) : f[m] \in Inputs
  BY FedFacts
<1>1. Len(w) \in Nat
  OBVIOUS
<1> HIDE DEF f
<1>2. 0 \in T
  BY <1>0
<1>3. ASSUME NEW m \in Nat, m \in T PROVE m + 1 \in T
  <2> SUFFICES ASSUME m + 1 <= Len(w) PROVE P(m + 1)
    <3> HIDE DEF P
    <3> QED OBVIOUS
  <2>1. m \in 0..Len(w) /\ m + 1 \in 1..Len(w) /\ (m + 1) - 1 = m /\ P(m)
    <3> HIDE DEF P
    <3> QED BY <1>1, <1>3
  <2> DEFINE y == f[m]
  <2>2. y \in Inputs /\ f[m + 1] = Feed(y, w[m + 1])
    BY <1>0, <2>1
  <2>3. Reading(y.lines, y.ctx, w, (m + 1) - 1)
    BY <2>1
  <2>4. \A u : Continues(r.lines, r.ctx, w, 0, u) => Continues(y.lines, y.ctx, w, (m + 1) - 1, u)
    BY <2>1
  <2> HIDE DEF y
  <2>5. /\ Reading(Feed(y, w[m + 1]).lines, Feed(y, w[m + 1]).ctx, w, m + 1)
        /\ \A u : Continues(y.lines, y.ctx, w, (m + 1) - 1, u) =>
                  Continues(Feed(y, w[m + 1]).lines, Feed(y, w[m + 1]).ctx, w, m + 1, u)
    BY <2>1, <2>2, <2>3, FeedReads
  <2> QED BY <2>2, <2>4, <2>5
<1>4. Nat \subseteq T
  <2> HIDE DEF T
  <2> QED BY <1>2, <1>3, SetInduction
<1>5. P(n)
  <2> HIDE DEF P
  <2> QED BY <1>1, <1>4
<1> QED BY <1>5 DEF f

(* What was read is no longer in flight.                                   *)
LEMMA Shifted ==
  ASSUME NEW ls, NEW ctx, NEW w \in Seq(Bytes), NEW n \in 0..Len(w), Reading(ls, ctx, w, n)
  PROVE  /\ Reading(ls, ctx, SubSeq(w, n + 1, Len(w)), 0)
         /\ \A u : Continues(ls, ctx, w, n, u) => Continues(ls, ctx, SubSeq(w, n + 1, Len(w)), 0, u)
<1> DEFINE B == Bytes
           v == SubSeq(w, n + 1, Len(w))
<1>0. w \in Seq(B) /\ Len(w) \in Nat /\ n \in Nat /\ n <= Len(w)
  OBVIOUS
<1>1. /\ v \in Seq(B) /\ Len(v) = Len(w) - n
      /\ \A i \in 1..Len(v) : v[i] = w[n + i]
  <2> HIDE DEF B
  <2> QED BY <1>0
<1> HIDE DEF v
<1>2. (0 < Len(v) <=> n < Len(w)) /\ (0 = Len(v) <=> n = Len(w))
  BY <1>0, <1>1
<1>3. 0 < Len(v) => v[0 + 1] = w[n + 1] /\ v[Len(v)] = w[Len(w)]
  BY <1>0, <1>1
<1>4. \A j \in 0 + 1..Len(v) - 1 : v[j + 1] = After(v[j])
  <2> TAKE j \in 0 + 1..Len(v) - 1
  <2>1. /\ j \in 1..Len(v) /\ j + 1 \in 1..Len(v) /\ n + j \in n + 1..Len(w) - 1
        /\ n + (j + 1) = (n + j) + 1
    BY <1>0, <1>1
  <2>2. w[(n + j) + 1] = After(w[n + j])
    BY <2>1 DEF Reading
  <2> QED BY <1>1, <2>1, <2>2
<1>5. Reading(ls, ctx, v, 0)
  BY <1>2, <1>3, <1>4 DEF Reading
<1>6. \A u : Continues(ls, ctx, w, n, u) => Continues(ls, ctx, v, 0, u)
  BY <1>2, <1>3 DEF Continues
<1> QED BY <1>5, <1>6 DEF v

(* What was in flight, or in an incomplete line too, is lost.              *)
LEMMA Emptied ==
  ASSUME NEW ls, NEW ctx, NEW w, Reading(ls, ctx, w, 0)
  PROVE  Reading(ls, ctx, <<>>, 0) /\ Reading(ls, <<>>, <<>>, 0)
BY DEF Reading

(* The next bytes of the stream are sent.                                  *)
LEMMA Extended ==
  ASSUME NEW ls, NEW ctx, NEW w \in Seq(Bytes), NEW v \in Seq(Bytes), NEW u, NEW u2,
         Reading(ls, ctx, w, 0), Continues(ls, ctx, w, 0, u),
         Len(v) > 0 => v[1] = u /\ u2 = After(v[Len(v)]),
         Len(v) = 0 => u2 = u,
         \A i \in 1..Len(v) - 1 : v[i + 1] = After(v[i])
  PROVE  Reading(ls, ctx, w \o v, 0) /\ Continues(ls, ctx, w \o v, 0, u2)
<1> DEFINE B == Bytes
           x == w \o v
<1>0. w \in Seq(B) /\ v \in Seq(B) /\ Len(w) \in Nat /\ Len(v) \in Nat
  OBVIOUS
<1>1. /\ x \in Seq(B) /\ Len(x) = Len(w) + Len(v)
      /\ \A i \in 1..Len(w) : x[i] = w[i]
      /\ \A i \in 1..Len(v) : x[Len(w) + i] = v[i]
  <2> HIDE DEF B
  <2> QED BY <1>0
<1> HIDE DEF x
<1>2. /\ 0 < Len(w) => u = After(w[Len(w)])
      /\ Len(w) = 0 /\ ctx # <<>> => u = After(ctx[Len(ctx)])
      /\ Len(w) = 0 /\ ctx = <<>> /\ ls # <<>> => u[2] = 1
  BY <1>0 DEF Continues
<1>3. ASSUME NEW j \in 0 + 1..Len(x) - 1 PROVE x[j + 1] = After(x[j])
  <2>0. j \in Nat /\ j >= 1 /\ j + 1 <= Len(w) + Len(v)
    BY <1>0, <1>1
  <2>1. CASE j < Len(w)
    <3>1. j \in 0 + 1..Len(w) - 1 /\ j \in 1..Len(w) /\ j + 1 \in 1..Len(w)
      BY <1>0, <2>0, <2>1
    <3>2. w[j + 1] = After(w[j])
      BY <3>1 DEF Reading
    <3> QED BY <1>1, <3>1, <3>2
  <2>2. CASE j = Len(w)
    <3>1. Len(w) > 0 /\ Len(v) > 0 /\ 1 \in 1..Len(v) /\ j \in 1..Len(w)
      BY <1>0, <2>0, <2>2
    <3>2. x[j + 1] = v[1] /\ x[j] = w[Len(w)]
      BY <1>1, <2>2, <3>1
    <3> QED BY <1>2, <3>1, <3>2
  <2>3. CASE j > Len(w)
    <3> DEFINE i == j - Len(w)
    <3>1. /\ i \in 1..Len(v) - 1 /\ i \in 1..Len(v) /\ i + 1 \in 1..Len(v)
          /\ j = Len(w) + i /\ j + 1 = Len(w) + (i + 1)
      BY <1>0, <2>0, <2>3
    <3> HIDE DEF i
    <3>2. x[Len(w) + i] = v[i] /\ x[Len(w) + (i + 1)] = v[i + 1]
      BY <1>1, <3>1
    <3>3. v[i + 1] = After(v[i])
      BY <3>1
    <3> QED BY <3>1, <3>2, <3>3
  <2> QED BY <1>0, <2>0, <2>1, <2>2, <2>3
<1>4. CASE Len(v) = 0
  <2>1. /\ Len(x) = Len(w) /\ (Len(w) > 0 => x[1] = w[1] /\ x[Len(x)] = w[Len(w)])
    BY <1>0, <1>1, <1>4
  <2>2. Reading(ls, ctx, x, 0)
    <3>1. 0 < Len(x) => x[0 + 1] = w[0 + 1] /\ 0 < Len(w)
      BY <2>1
    <3> QED BY <1>3, <3>1 DEF Reading
  <2>3. Continues(ls, ctx, x, 0, u2)
    BY <1>0, <1>2, <1>4, <2>1 DEF Continues
  <2> QED BY <2>2, <2>3 DEF x
<1>5. CASE Len(v) > 0
  <2>1. /\ Len(x) > 0 /\ x[Len(x)] = v[Len(v)]
        /\ (Len(w) > 0 => x[1] = w[1]) /\ (Len(w) = 0 => x[1] = v[1])
    <3>1. Len(v) \in 1..Len(v) /\ 1 \in 1..Len(v) /\ (Len(w) > 0 => 1 \in 1..Len(w))
      BY <1>0, <1>5
    <3>2. Len(w) = 0 => Len(w) + 1 = 1
      OBVIOUS
    <3> QED BY <1>0, <1>1, <1>5, <3>1, <3>2
  <2>2. Reading(ls, ctx, x, 0)
    <3>1. ctx # <<>> => x[0 + 1] = After(ctx[Len(ctx)])
      <4>1. CASE Len(w) > 0
        BY <2>1, <4>1 DEF Reading
      <4>2. CASE Len(w) = 0
        BY <1>2, <1>5, <2>1, <4>2
      <4> QED BY <1>0, <4>1, <4>2
    <3>2. ls # <<>> /\ ctx = <<>> => x[0 + 1][2] = 1
      <4>1. CASE Len(w) > 0
        BY <2>1, <4>1 DEF Reading
      <4>2. CASE Len(w) = 0
        BY <1>2, <1>5, <2>1, <4>2
      <4> QED BY <1>0, <4>1, <4>2
    <3> QED BY <1>3, <3>1, <3>2 DEF Reading
  <2>3. Continues(ls, ctx, x, 0, u2)
    BY <1>5, <2>1 DEF Continues
  <2> QED BY <2>2, <2>3 DEF x
<1> QED BY <1>0, <1>4, <1>5

(* Steps that neither send nor read, and make no connection.               *)
LEMMA StreamsKept ==
  ASSUME Streams, UNCHANGED <<wire, partial, lines>>,
         sock' # 0 /\ link'[sock'] = "up" =>
            sock' = sock /\ link[sock] = "up" /\ Upcoming' = Upcoming
  PROVE  Streams'
<1>1. \A c \in Conns : Reading(lines'[c], partial'[c], wire'[c], 0)
  BY DEF Streams
<1>2. sock' # 0 /\ link'[sock'] = "up" =>
         Continues(lines'[sock'], partial'[sock'], wire'[sock'], 0, Upcoming')
  BY DEF Streams
<1> QED BY <1>1, <1>2 DEF Streams

(* The byte that is sent next changes only with send().                    *)
LEMMA UpcomingKept ==
  ASSUME SenderInv, [Next]_vars, ~Send
  PROVE  Upcoming' = Upcoming
<1>1. CASE UNCHANGED <<queue, pushed, output>>
  BY <1>1 DEF Upcoming
<1>2. CASE Push
  <2>1. /\ queue \in Seq(1..NumRecords) /\ pushed \in 0..NumRecords /\ NumRecords \in Nat
    BY RunningFacts DEF SenderTypes
  <2>2. pushed' = pushed + 1 /\ queue' = Append(queue, pushed + 1) /\ output' = output
    BY <1>2 DEF Push
  <2>3. Len(queue') = Len(queue) + 1 /\ Len(queue) \in Nat
    BY <2>1, <2>2
  <2>4. pushed' - Len(queue') = pushed - Len(queue)
    BY <2>1, <2>2, <2>3
  <2> QED BY <2>2, <2>4 DEF Upcoming
<1>3. CASE FirstPeek
  <2>1. output.bufstart = 0
    BY <1>3 DEF SenderInv, RecordInv, Empty, FirstPeek
  <2>2. queue' = queue /\ pushed' = pushed /\ output'.bufstart = 0
    BY <1>3 DEF FirstPeek, Peek, Empty
  <2> QED BY <2>1, <2>2 DEF Upcoming
<1>4. Connect \/ ConnectFails \/ AlreadyRunning \/ Disconnect \/ Ignore \/ Read \/ Write
         \/ SendFails \/ PollEnter \/ PollReturn \/ Due \/ ReconnectProc
         => UNCHANGED <<queue, pushed, output>>
  BY DEF Connect, ConnectFails, AlreadyRunning, Disconnect, Ignore, Read, Write, SendFails,
         PollEnter, PollReturn, Due, ReconnectProc, IoErr, CloseSock
<1>5. ReceiverStep \/ RRestart \/ RStopPosted \/ (\E c \in Conns : Cut(c)) \/ UNCHANGED vars
         => UNCHANGED <<queue, pushed, output>>
  BY DEF ReceiverStep, RRestart, RStopPosted, Cut, RStart, RStop, RPollEnter,
         RPollReturn, RAccept, RRead, REnd, vars, sender
<1> QED BY <1>1, <1>2, <1>3, <1>4, <1>5, Zenon DEF Next, SenderStep

(* send() continues the stream where it was left.                          *)
LEMMA SendStreams ==
  ASSUME SenderInv, Streams, Send
  PROVE  Streams'
<1>1. NetworkTypes /\ sock \in Conns /\ sock # 0 /\ RecLen \in Nat /\ RecLen >= 2
  BY RunningFacts DEF Send, Conns
<1>2. RecordAtHand
  BY SentBytes
<1>3. PICK n, u : Sending(n, u)
  BY SentBytes
<1>4. /\ wire' = IF link[sock] = "up" THEN [wire EXCEPT ![sock] = @ \o u] ELSE wire
      /\ UNCHANGED <<pushed, sock, link, partial, lines>>
  BY <1>3 DEF Sending, receiver
<1>5. CASE link[sock] # "up"
  <2>1. wire' = wire
    BY <1>4, <1>5
  <2> QED BY <1>4, <1>5, <2>1, StreamsKept
<1>6. CASE link[sock] = "up"
  <2> DEFINE k == pushed - Len(queue)
             s == output.bufstart
             b == output.buflen
  <2>1. /\ n \in 0..b /\ Len(u) = n /\ u \in Seq(Bytes)
        /\ \A i \in 1..n : u[i] = <<k + 1, s + i>>
    BY <1>2, <1>3 DEF Sending, RecordAtHand
  <2>2. k \in Nat /\ s \in Nat /\ b \in Nat /\ s + b = RecLen /\ b > 0 /\ n \in Nat /\ n <= b
    BY <1>2, <2>1 DEF RecordAtHand
  <2>3. Upcoming = <<k + 1, s + 1>>
    BY DEF Upcoming
  <2>4. Upcoming' = IF n < b THEN <<k + 1, s + n + 1>> ELSE <<k + 2, 1>>
    <3>1. CASE n < b
      <4>1. queue' = queue /\ pushed' = pushed /\ output' = [output EXCEPT !.bufstart = @ + n, !.buflen = @ - n]
        BY <1>3, <3>1 DEF Sending, Blocked
      <4>2. output \in [logdata : 0..NumRecords, bufstart : 0..RecLen, buflen : 0..RecLen]
        BY RunningFacts DEF SenderTypes
      <4>3. output'.bufstart = s + n
        BY <4>1, <4>2
      <4> QED BY <3>1, <4>1, <4>3 DEF Upcoming
    <3>2. CASE ~(n < b)
      <4>1. Peek(Tail(queue)) /\ pushed' = pushed
        BY <1>3, <3>2 DEF Sending, Sent
      <4>2. queue' = Tail(queue) /\ output'.bufstart = 0
        BY <4>1 DEF Peek, Empty
      <4>3. Len(queue') = Len(queue) - 1 /\ Len(queue) \in Nat /\ Len(queue) <= pushed /\ pushed \in Nat
        BY <1>2, <4>2 DEF RecordAtHand
      <4>4. pushed' - Len(queue') + 1 = k + 2
        BY <4>1, <4>3
      <4> QED BY <3>2, <4>2, <4>4 DEF Upcoming
    <3> QED BY <3>1, <3>2
  <2> DEFINE w == wire[sock]
             ls == lines[sock]
             ctx == partial[sock]
  <2>5. w \in Seq(Bytes) /\ Reading(ls, ctx, w, 0) /\ Continues(ls, ctx, w, 0, Upcoming)
    BY <1>1, <1>6 DEF Streams, NetworkTypes
  <2> HIDE DEF k, s, b
  <2>6. \A i \in 1..n : After(u[i]) = IF s + i = RecLen THEN <<k + 2, 1>> ELSE <<k + 1, s + i + 1>>
    <3> TAKE i \in 1..n
    <3>1. u[i] = <<k + 1, s + i>>
      BY <2>1
    <3>2. u[i][1] = k + 1 /\ u[i][2] = s + i /\ (k + 1) + 1 = k + 2
      BY <2>2, <3>1
    <3> QED BY <3>2 DEF After, IsLF
  <2>7. \A i \in 1..Len(u) - 1 : u[i + 1] = After(u[i])
    <3> TAKE i \in 1..Len(u) - 1
    <3>1. i \in 1..n /\ i + 1 \in 1..n /\ s + i # RecLen /\ s + (i + 1) = s + i + 1
      BY <1>1, <2>1, <2>2
    <3> QED BY <2>1, <2>6, <3>1
  <2>8. Len(u) > 0 => u[1] = Upcoming /\ Upcoming' = After(u[Len(u)])
    <3> SUFFICES ASSUME Len(u) > 0 PROVE u[1] = Upcoming /\ Upcoming' = After(u[Len(u)])
      OBVIOUS
    <3>1. n \in 1..n /\ 1 \in 1..n /\ Len(u) = n
      BY <2>1, <2>2
    <3>2. n < b <=> s + n # RecLen
      BY <1>1, <2>2
    <3> QED BY <2>1, <2>3, <2>4, <2>6, <3>1, <3>2
  <2>9. Len(u) = 0 => Upcoming' = Upcoming
    <3> SUFFICES ASSUME Len(u) = 0 PROVE Upcoming' = Upcoming
      OBVIOUS
    <3>1. n = 0 /\ n < b /\ s + n + 1 = s + 1
      BY <2>1, <2>2
    <3> QED BY <2>3, <2>4, <3>1
  <2>10. /\ wire' = [wire EXCEPT ![sock] = w \o u]
    BY <1>4, <1>6
  <2> HIDE DEF w, ls, ctx
  <2>11. Reading(ls, ctx, w \o u, 0) /\ Continues(ls, ctx, w \o u, 0, Upcoming')
    <3> DEFINE x == Upcoming
               y == Upcoming'
    <3>1. /\ Continues(ls, ctx, w, 0, x) /\ (Len(u) > 0 => u[1] = x /\ y = After(u[Len(u)]))
          /\ Len(u) = 0 => y = x
      BY <2>5, <2>8, <2>9
    <3> HIDE DEF x, y
    <3>2. Reading(ls, ctx, w \o u, 0) /\ Continues(ls, ctx, w \o u, 0, y)
      BY <2>1, <2>5, <2>7, <3>1, Extended
    <3> QED BY <3>2 DEF y
  <2>12. wire'[sock] = w \o u /\ \A c \in Conns : c # sock => wire'[c] = wire[c]
    BY <1>1, <2>10 DEF NetworkTypes
  <2>13. \A c \in Conns : Reading(lines'[c], partial'[c], wire'[c], 0)
    BY <1>4, <2>11, <2>12 DEF Streams, ls, ctx
  <2>14. Continues(lines'[sock'], partial'[sock'], wire'[sock'], 0, Upcoming')
    BY <1>4, <2>11, <2>12 DEF ls, ctx
  <2> QED BY <2>13, <2>14 DEF Streams
<1> QED BY <1>5, <1>6

(* im_tcp_read() takes some of the bytes in flight.                        *)
LEMMA ReadStreams ==
  ASSUME SenderInv, Streams, RRead
  PROVE  Streams'
<1>1. NetworkTypes /\ ReceiverTypes /\ sock \in 0..MaxConns /\ MaxConns \in Nat
  BY RunningFacts DEF SenderTypes
<1> DEFINE a == About
           w == wire[a]
           r == [lines |-> lines[a], ctx |-> partial[a]]
<1>2. a \in Conns
  BY <1>1 DEF RRead, ReceiverTypes
<1>3. PICK n \in 1..Len(w) :
        /\ lines' = [lines EXCEPT ![a] = Fed(r, w)[n].lines]
        /\ partial' = [partial EXCEPT ![a] = Fed(r, w)[n].ctx]
        /\ wire' = [wire EXCEPT ![a] = SubSeq(w, n + 1, Len(w))]
  BY DEF RRead
<1>4. UNCHANGED <<sock, link>> /\ Upcoming' = Upcoming
  BY DEF RRead, sender, Upcoming
<1>5. w \in Seq(Bytes) /\ r \in Inputs /\ r.lines = lines[a] /\ r.ctx = partial[a]
  BY <1>1, <1>2 DEF NetworkTypes, ReceiverTypes, Inputs
<1>6. Reading(r.lines, r.ctx, w, 0)
  BY <1>2, <1>5 DEF Streams
<1> DEFINE f == Fed(r, w)[n]
           v == SubSeq(w, n + 1, Len(w))
<1>7. n \in 0..Len(w)
  BY <1>3
<1> HIDE DEF a, w, r
<1>8. /\ Reading(f.lines, f.ctx, w, n)
      /\ \A u : Continues(r.lines, r.ctx, w, 0, u) => Continues(f.lines, f.ctx, w, n, u)
  BY <1>5, <1>6, <1>7, FedReads
<1> HIDE DEF f
<1>9. /\ Reading(f.lines, f.ctx, v, 0)
      /\ \A u : Continues(f.lines, f.ctx, w, n, u) => Continues(f.lines, f.ctx, v, 0, u)
  <2> DEFINE fl == f.lines
             fc == f.ctx
  <2>1. Reading(fl, fc, w, n)
    BY <1>8
  <2> HIDE DEF fl, fc
  <2>2. /\ Reading(fl, fc, v, 0)
        /\ \A u : Continues(fl, fc, w, n, u) => Continues(fl, fc, v, 0, u)
    BY <1>5, <1>7, <2>1, Shifted
  <2> QED BY <2>2 DEF fl, fc
<1>10. /\ lines'[a] = f.lines /\ partial'[a] = f.ctx /\ wire'[a] = v
       /\ \A c \in Conns : c # a =>
             lines'[c] = lines[c] /\ partial'[c] = partial[c] /\ wire'[c] = wire[c]
  BY <1>1, <1>2, <1>3 DEF NetworkTypes, ReceiverTypes, f
<1> HIDE DEF v
<1>11. \A c \in Conns : Reading(lines'[c], partial'[c], wire'[c], 0)
  BY <1>9, <1>10 DEF Streams
<1>12. ASSUME sock' # 0, link'[sock'] = "up"
       PROVE  Continues(lines'[sock'], partial'[sock'], wire'[sock'], 0, Upcoming')
  <2>1. sock \in Conns /\ Continues(lines[sock], partial[sock], wire[sock], 0, Upcoming)
    BY <1>1, <1>4, <1>12 DEF Streams, Conns
  <2>2. CASE sock = a
    <3>1. Continues(r.lines, r.ctx, w, 0, Upcoming)
      BY <1>5, <2>1, <2>2 DEF w
    <3>2. Continues(f.lines, f.ctx, v, 0, Upcoming)
      BY <1>8, <1>9, <3>1
    <3> QED BY <1>4, <1>10, <2>2, <3>2
  <2>3. CASE sock # a
    BY <1>4, <1>10, <2>1, <2>3
  <2> QED BY <2>2, <2>3
<1> QED BY <1>11, <1>12 DEF Streams

(* Connections end: what is in flight on them is lost, and nothing can     *)
(* be sent on them any more.                                               *)
LEMMA EndStreams ==
  ASSUME SenderInv, Streams, RStop \/ REnd \/ \E c \in Conns : Cut(c)
  PROVE  Streams'
<1>1. NetworkTypes /\ ReceiverTypes /\ sock \in 0..MaxConns /\ MaxConns \in Nat
  BY RunningFacts DEF SenderTypes
<1>2. UNCHANGED sock /\ Upcoming' = Upcoming /\ lines' = lines
  BY DEF RStop, REnd, Cut, sender, receiver, Upcoming
<1>3. \A c \in Conns : /\ wire'[c] = wire[c] \/ (wire'[c] = <<>> /\ link'[c] = "cut")
                       /\ partial'[c] = partial[c] \/ (partial'[c] = <<>> /\ wire'[c] = <<>>
                                                        /\ link'[c] = "cut")
                       /\ link'[c] = "up" => link[c] = "up"
  <2>1. CASE RStop
    <3>1. /\ partial' = partial
          /\ link' = [c \in Conns |-> IF c \in connections \cup Backlog THEN "cut" ELSE link[c]]
          /\ wire' = [c \in Conns |-> IF c \in connections \cup Backlog THEN <<>> ELSE wire[c]]
      BY <2>1 DEF RStop, FreeInputs
    <3> QED BY <3>1
  <2>2. CASE REnd
    <3>1. /\ partial' = [partial EXCEPT ![About] = <<>>]
          /\ link' = [c \in Conns |-> IF c \in {About} THEN "cut" ELSE link[c]]
          /\ wire' = [c \in Conns |-> IF c \in {About} THEN <<>> ELSE wire[c]]
      BY <2>2 DEF REnd, FreeInputs
    <3> QED BY <1>1, <3>1 DEF ReceiverTypes
  <2>3. CASE \E c \in Conns : Cut(c)
    BY <1>1, <2>3 DEF Cut, receiver, NetworkTypes
  <2> QED BY <2>1, <2>2, <2>3
<1>4. ASSUME NEW c \in Conns PROVE Reading(lines'[c], partial'[c], wire'[c], 0)
  <2>1. Reading(lines[c], partial[c], wire[c], 0)
    BY DEF Streams
  <2>2. Reading(lines[c], partial[c], <<>>, 0) /\ Reading(lines[c], <<>>, <<>>, 0)
    BY <2>1, Emptied
  <2> QED BY <1>2, <1>3, <2>1, <2>2
<1>5. ASSUME sock' # 0, link'[sock'] = "up"
      PROVE  Continues(lines'[sock'], partial'[sock'], wire'[sock'], 0, Upcoming')
  <2>1. sock \in Conns /\ link[sock] = "up" /\ link'[sock] # "cut"
    BY <1>1, <1>2, <1>3, <1>5 DEF Conns
  <2>2. partial'[sock] = partial[sock] /\ wire'[sock] = wire[sock]
    BY <1>3, <2>1
  <2>3. Continues(lines[sock], partial[sock], wire[sock], 0, Upcoming)
    BY <1>2, <1>5, <2>1 DEF Streams
  <2> QED BY <1>2, <2>2, <2>3
<1> QED BY <1>4, <1>5 DEF Streams

(* A new connection: nothing was read from it.                             *)
LEMMA ConnectStreams ==
  ASSUME SenderInv, Unused, Streams, Connect
  PROVE  Streams'
<1>1. PICK c \in Conns : link[c] = "none" /\ sock' = c
  BY DEF Connect
<1>2. UNCHANGED <<wire, partial, lines>>
  BY DEF Connect, receiver
<1>3. wire[c] = <<>> /\ partial[c] = <<>> /\ lines[c] = <<>>
  BY <1>1 DEF Unused
<1>4. Continues(lines'[sock'], partial'[sock'], wire'[sock'], 0, Upcoming')
  BY <1>1, <1>2, <1>3 DEF Continues
<1>5. \A d \in Conns : Reading(lines'[d], partial'[d], wire'[d], 0)
  BY <1>2 DEF Streams
<1> QED BY <1>4, <1>5 DEF Streams

(* Every step keeps the streams.                                           *)
LEMMA StreamsNext ==
  ASSUME SenderInv, Unused, Streams, [Next]_vars
  PROVE  Streams'
<1>0. NetworkTypes /\ sock \in 0..MaxConns /\ MaxConns \in Nat
  BY RunningFacts DEF SenderTypes
<1>1. CASE Send
  BY <1>1, SendStreams
<1>2. CASE Connect
  BY <1>2, ConnectStreams
<1>3. CASE RRead
  BY <1>3, ReadStreams
<1>4. CASE RStop \/ REnd \/ \E c \in Conns : Cut(c)
  BY <1>4, EndStreams
<1>5. CASE ~Send /\ UNCHANGED <<wire, partial, lines>> /\ (sock' = 0 \/ UNCHANGED <<sock, link>>)
  <2>1. Upcoming' = Upcoming
    BY <1>5, UpcomingKept
  <2> QED BY <1>5, <2>1, StreamsKept
<1>6. ConnectFails \/ Disconnect \/ SendFails \/ Read
         => UNCHANGED <<wire, partial, lines>> /\ (sock' = 0 \/ UNCHANGED <<sock, link>>)
  BY DEF ConnectFails, Disconnect, SendFails, Read, IoErr, CloseSock, network, receiver
<1>7. AlreadyRunning \/ Ignore \/ Write \/ FirstPeek \/ PollEnter \/ PollReturn \/ Due
         \/ ReconnectProc \/ Push \/ UNCHANGED vars
         => UNCHANGED <<wire, partial, lines>> /\ (sock' = 0 \/ UNCHANGED <<sock, link>>)
  BY DEF AlreadyRunning, Ignore, Write, FirstPeek, PollEnter, PollReturn, Due, ReconnectProc,
         Push, vars, sender, network, receiver
<1>8. RStart \/ RPollEnter \/ RPollReturn \/ RAccept \/ RRestart \/ RStopPosted
         => UNCHANGED <<wire, partial, lines>> /\ (sock' = 0 \/ UNCHANGED <<sock, link>>)
  BY DEF RStart, RPollEnter, RPollReturn, RAccept, RRestart, RStopPosted, sender, network
<1> QED BY <1>1, <1>2, <1>3, <1>4, <1>5, <1>6, <1>7, <1>8, Zenon
        DEF Next, SenderStep, ReceiverStep

(* Only the end of a connection splits a record: of the lines im_tcp reads *)
(* from a connection, all but the first are whole records, and the first   *)
(* one is the end of a record.                                             *)
THEOREM LinesAreRecords == Spec => []OnlyFirstTorn
<1>1. Init => Streams
  <2> SUFFICES ASSUME Init PROVE Streams
    OBVIOUS
  <2>1. \A c \in Conns : lines[c] = <<>> /\ partial[c] = <<>> /\ wire[c] = <<>>
    BY DEF Init
  <2>2. \A c \in Conns : Reading(lines[c], partial[c], wire[c], 0)
    BY <2>1 DEF Reading
  <2>3. sock = 0
    BY DEF Init
  <2> QED BY <2>2, <2>3 DEF Streams
<1>2. SenderInv /\ InputsInv /\ Streams /\ [Next]_vars => Streams'
  BY StreamsNext DEF InputsInv
<1>3. SenderInv /\ Streams => OnlyFirstTorn
  <2> SUFFICES ASSUME SenderInv, Streams, NEW c \in Conns, NEW i \in DOMAIN lines[c]
               PROVE  Torn(lines[c][i], i)
    BY DEF OnlyFirstTorn, Torn
  <2> DEFINE C == Seq(Bytes)
  <2>1. lines[c] \in Seq(C)
    BY RunningFacts DEF ReceiverTypes
  <2> HIDE DEF C
  <2>2. i \in 1..Len(lines[c])
    BY <2>1
  <2> QED BY <2>2 DEF Streams, Reading
<1> QED BY <1>1, <1>2, <1>3, SenderAlways, InputsAlways, PTL DEF Spec
=============================================================================
