--------------------------- MODULE PipelineProofs ---------------------------
(***************************************************************************)
(* Records along routes, for every configuration: the types, and what the  *)
(* handlers rely on while others run between their critical sections.      *)
(* The record a receiver has peeked stays the first one of its queue; the  *)
(* pointer of an input to its READ event is valid; a module with records   *)
(* in its queue is always notified of them; and, where no processor is in  *)
(* between, a sender that is paused is watched by an output that will      *)
(* resume it, so that nobody stays paused in front of free queues.  Where  *)
(* there is one way only from an input to an output, no record is lost,    *)
(* duplicated or overtaken by a later one on it.                           *)
(***************************************************************************)
EXTENDS Pipeline, EventQueueProofs, FiniteSetTheorems, SequenceTheorems

Evs == {Ev(t) : t \in EventTypes}

-----------------------------------------------------------------------------
(* What holds of a module's handler at p with the local variables l.       *)
InputLabels   == {"start_cb", "pause_cb", "resume_cb", "generate", "repost"}
SenderLabels  == {"check_sender", "resume_sender", "sender_status", "notify_sender"}
PeekedLabels  == {"self_notify", "exec", "pop"} \cup SenderLabels
ReceiveLabels == {"peek", "resume_queued"} \cup PeekedLabels

Handler(m, p, l) ==
  /\ p \in InputLabels => m \in Inputs
  /\ p \in ReceiveLabels => m \notin Inputs
  /\ p \in Sending => m \notin Outputs /\ l.t \in 1..Len(Targets[m])
  /\ p \in Sending \cup {"exec", "pop"} => l.rec # None
  /\ p \in SenderLabels => l.s \in 1..Len(Senders[m])
  /\ p = "check_sender" => l.k \in 1..Len(Checked[Senders[m][l.s]])
  /\ p \in {"sender_status", "notify_sender"} => Senders[m][l.s] \notin Inputs
  /\ m \in Inputs => /\ p \in Sending \cup {"generate"} => l.done < Batch
                     /\ p \notin Sending \cup {"generate", "repost"} => l.done = 0

HandlerInv == \A m \in Modules : Handler(m, pc[m], loc[m])

(* The record at hand has a number below MaxCount.                         *)
CounterInv == \A i \in Inputs : pc[i] \in Sending => counter[i] < MaxCount

(* Only inputs are told to read, only the others that there are records.   *)
Foreign(m) == IF m \in Inputs THEN "DATA_AVAILABLE" ELSE "READ"
Suits(m, q) == \A x \in 1..Len(q) : q[x].type # Foreign(m)
EventsInv == \A m \in Modules : Suits(m, events[m])

(* An input has no queue.                                                  *)
QueueInv == \A i \in Inputs : queue[i] = <<>>

TypeInv == TypeOK /\ HandlerInv /\ CounterInv /\ EventsInv /\ QueueInv

-----------------------------------------------------------------------------
(* What was peeked is the first record until it is removed.                *)
Peeked(p, rec, need, q) ==
  p \in PeekedLabels /\ rec # None => need /\ q # <<>> /\ Head(q) = rec

PeekedInv == TypeInv /\ \A m \in Modules : Peeked(pc[m], loc[m].rec, needpop[m], queue[m])

-----------------------------------------------------------------------------
(* The READ events of a list.  While the batch is made there is none, and  *)
(* none before the input is started.                                       *)
ReadIn(q)    == \E x \in 1..Len(q) : q[x].type = "READ"
OneReadIn(q) == \A x, y \in 1..Len(q) : q[x].type = "READ" /\ q[y].type = "READ" => x = y

Pointer(r, p, s, q) ==
  /\ r \in BOOLEAN
  /\ r <=> ReadIn(q)
  /\ OneReadIn(q)
  /\ p \in Sending \cup {"generate", "repost", "start_cb"} => ~r
  /\ s = "STOPPED" /\ p # "start" => ~r /\ p # "resume_cb"

PointerInv == PeekedInv /\ \A i \in Inputs : Pointer(readev[i], pc[i], status[i], events[i])

-----------------------------------------------------------------------------
(* The senders that will notify m, or find that they need not.  A module   *)
(* that runs and has no DATA_AVAILABLE has no more records than those.     *)
Told(q) == \E x \in 1..Len(q) : q[x] = Ev("DATA_AVAILABLE")

Pushers(m, pcs, locs) ==
  {s \in Modules : pcs[s] \in {"can_send", "notify"} /\ Targets[s][locs[s].t] = m}

Relies(p) == p \notin {"peek", "self_notify", "start_queued", "resume_queued"}

Noticed(m) ==
  (status[m] = "RUNNING" /\ Relies(pc[m]) /\ ~Told(events[m])) =>
     Len(queue[m]) <= Cardinality(Pushers(m, pc, loc))

NotifiedInv == PeekedInv /\ \A m \in Modules \ Inputs : Noticed(m)

-----------------------------------------------------------------------------
(* The events are records that their type tells apart.                     *)
LEMMA EvFacts ==
  /\ \A t : Ev(t).type = t
  /\ \A t \in EventTypes : Ev(t) \in Evs
  /\ \A e \in Evs : e.type \in EventTypes /\ e = Ev(e.type)
  /\ {"READ", "DATA_AVAILABLE", "START", "PAUSE", "RESUME"} \subseteq EventTypes
BY DEF Ev, Evs, EventTypes

(* What posting an event does to a list.                                   *)
Posted(q, t, d) ==
  /\ d \in Seq(Evs)
  /\ \A x \in 1..Len(d) : \/ x \in 1..Len(q) /\ d[x] = q[x]
                          \/ x = Len(q) + 1 /\ d[x] = Ev(t)
  /\ \A x \in 1..Len(q) : \E y \in 1..Len(d) : d[y] = q[x]
  /\ \E y \in 1..Len(d) : d[y] = Ev(t)

(* nx_event_to_jobqueue() of an event without data leaves each event of    *)
(* the list in it, has the new one in it and moves nothing: the list is a  *)
(* beginning of the appended one.                                          *)
LEMMA PostedFacts ==
  ASSUME NEW q \in Seq(Evs), NEW t \in EventTypes
  PROVE  Posted(q, t, Enqueue(q, Ev(t)))
<1> DEFINE e == Ev(t)
           d == Enqueue(q, e)
           a == Append(q, e)
<1>1. e \in Evs /\ a \in Seq(Evs)
  BY EvFacts
<1>2. Dataless(a)
  <2>1. \A x \in DOMAIN a : a[x] = Ev(a[x].type)
    BY <1>1, EvFacts
  <2> HIDE DEF a
  <2> QED BY <2>1 DEF Dataless
<1> HIDE DEF e
<1>3. /\ d \in Seq(Evs) /\ Len(d) \in 0..(Len(q) + 1)
      /\ \A x \in 1..Len(d) : d[x] = IF x = Len(q) + 1 THEN e ELSE q[x]
  BY ONLY q \in Seq(Evs), <1>1, EnqueuePrefix
<1>4. /\ \A x \in 1..Len(q) : \E y \in 1..Len(d) : d[y] = q[x]
      /\ \E y \in 1..Len(d) : d[y] = e
  BY ONLY q \in Seq(Evs), <1>1, <1>2, EnqueueKeeps
<1>5. Len(q) \in Nat
  OBVIOUS
<1> HIDE DEF d
<1>6. \A x \in 1..Len(d) : \/ x \in 1..Len(q) /\ d[x] = q[x]
                           \/ x = Len(q) + 1 /\ d[x] = e
  BY <1>3, <1>5
<1> QED BY <1>3, <1>4, <1>6 DEF Posted, d, e

(* A list that suits its module is told nothing foreign.                   *)
LEMMA EnqueueSuits ==
  ASSUME NEW q \in Seq(Evs), NEW t \in EventTypes, NEW m, t # Foreign(m), Suits(m, q)
  PROVE  Suits(m, Enqueue(q, Ev(t)))
<1> DEFINE d == Enqueue(q, Ev(t))
<1>0. Posted(q, t, d)
  BY PostedFacts
<1> HIDE DEF d
<1>1. /\ \A x \in 1..Len(d) : \/ x \in 1..Len(q) /\ d[x] = q[x]
                              \/ x = Len(q) + 1 /\ d[x] = Ev(t)
      /\ Ev(t).type = t
  BY <1>0, EvFacts DEF Posted
<1> QED BY <1>1 DEF Suits, d

(* What has been told stays so.                                            *)
LEMMA EnqueueTold ==
  ASSUME NEW q \in Seq(Evs), NEW t \in EventTypes
  PROVE  /\ Told(q) => Told(Enqueue(q, Ev(t)))
         /\ t = "DATA_AVAILABLE" => Told(Enqueue(q, Ev(t)))
<1> DEFINE d == Enqueue(q, Ev(t))
<1>0. Posted(q, t, d)
  BY PostedFacts
<1> HIDE DEF d
<1>1. /\ \A x \in 1..Len(q) : \E y \in 1..Len(d) : d[y] = q[x]
      /\ \E y \in 1..Len(d) : d[y] = Ev(t)
  BY <1>0 DEF Posted
<1> QED BY <1>1 DEF Told, d

(* READ events come and go only as such.                                   *)
LEMMA EnqueueRead ==
  ASSUME NEW q \in Seq(Evs), NEW t \in EventTypes
  PROVE  /\ t # "READ" => /\ ReadIn(Enqueue(q, Ev(t))) <=> ReadIn(q)
                          /\ OneReadIn(q) => OneReadIn(Enqueue(q, Ev(t)))
         /\ t = "READ" /\ ~ReadIn(q) => /\ ReadIn(Enqueue(q, Ev(t)))
                                        /\ OneReadIn(Enqueue(q, Ev(t)))
<1> DEFINE d == Enqueue(q, Ev(t))
<1>0. Posted(q, t, d)
  BY PostedFacts
<1> HIDE DEF d
<1>1. /\ \A x \in 1..Len(d) : \/ x \in 1..Len(q) /\ d[x] = q[x]
                              \/ x = Len(q) + 1 /\ d[x] = Ev(t)
      /\ \A x \in 1..Len(q) : \E y \in 1..Len(d) : d[y] = q[x]
      /\ \E y \in 1..Len(d) : d[y] = Ev(t)
      /\ Ev(t).type = t
  BY <1>0, EvFacts DEF Posted
<1>2. ASSUME t # "READ" PROVE (ReadIn(d) <=> ReadIn(q)) /\ (OneReadIn(q) => OneReadIn(d))
  <2>1. \A x \in 1..Len(d) : d[x].type = "READ" => x \in 1..Len(q) /\ d[x] = q[x]
    BY <1>1, <1>2
  <2>2. ReadIn(d) => ReadIn(q)
    BY <2>1 DEF ReadIn
  <2>3. ReadIn(q) => ReadIn(d)
    BY <1>1 DEF ReadIn
  <2>4. OneReadIn(q) => OneReadIn(d)
    BY <2>1 DEF OneReadIn
  <2> QED BY <2>2, <2>3, <2>4
<1>3. ASSUME t = "READ", ~ReadIn(q) PROVE ReadIn(d) /\ OneReadIn(d)
  <2>1. \A x \in 1..Len(d) : d[x].type = "READ" => x = Len(q) + 1
    BY <1>1, <1>3 DEF ReadIn
  <2> QED BY <1>1, <1>3, <2>1 DEF ReadIn, OneReadIn
<1> QED BY <1>2, <1>3 DEF d

(* Taking the first event off a list.                                      *)
LEMMA TailFacts ==
  ASSUME NEW q \in Seq(Evs), q # <<>>, NEW m
  PROVE  /\ Tail(q) \in Seq(Evs) /\ Head(q) \in Evs /\ Head(q).type \in EventTypes
         /\ Suits(m, q) => Suits(m, Tail(q)) /\ Head(q).type # Foreign(m)
         /\ Told(q) => Told(Tail(q)) \/ Head(q).type = "DATA_AVAILABLE"
         /\ OneReadIn(q) => OneReadIn(Tail(q))
         /\ OneReadIn(q) /\ Head(q).type = "READ" => ~ReadIn(Tail(q)) /\ ReadIn(q)
         /\ Head(q).type # "READ" => (ReadIn(Tail(q)) <=> ReadIn(q))
<1> DEFINE u == Tail(q)
<1>1. /\ u \in Seq(Evs) /\ Head(q) \in Evs /\ Head(q) = q[1] /\ Len(q) \in Nat \ {0}
      /\ Len(u) = Len(q) - 1 /\ \A i \in 1..Len(u) : u[i] = q[i + 1]
  OBVIOUS
<1>2. \A i \in 1..Len(u) : i + 1 \in 1..Len(q) /\ i + 1 # 1
  BY <1>1
<1>3. \A i \in 1..Len(q) : i = 1 \/ (i - 1 \in 1..Len(u) /\ u[i - 1] = q[i])
  BY <1>1
<1>4. Head(q).type \in EventTypes /\ Ev("DATA_AVAILABLE").type = "DATA_AVAILABLE"
  BY <1>1, EvFacts
<1> HIDE DEF u
<1>5. Suits(m, q) => Suits(m, u) /\ Head(q).type # Foreign(m)
  BY <1>1, <1>2 DEF Suits
<1>6. Told(q) => Told(u) \/ Head(q).type = "DATA_AVAILABLE"
  BY <1>1, <1>3, <1>4 DEF Told
<1>7. OneReadIn(q) => OneReadIn(u)
  BY <1>1, <1>2, SMTT(40) DEF OneReadIn
<1>8. OneReadIn(q) /\ Head(q).type = "READ" => ~ReadIn(u) /\ ReadIn(q)
  BY <1>1, <1>2 DEF OneReadIn, ReadIn
<1>9. Head(q).type # "READ" => (ReadIn(u) <=> ReadIn(q))
  BY <1>1, <1>2, <1>3 DEF ReadIn
<1> QED BY <1>1, <1>4, <1>5, <1>6, <1>7, <1>8, <1>9 DEF u

(* The READ events among them.                                             *)
LEMMA TailReads ==
  ASSUME NEW q \in Seq(Evs), q # <<>>, OneReadIn(q)
  PROVE  /\ OneReadIn(Tail(q))
         /\ Head(q).type = "READ" => ~ReadIn(Tail(q))
         /\ Head(q).type # "READ" => (ReadIn(Tail(q)) <=> ReadIn(q))
BY TailFacts, Zenon

(* nx_event_remove() of the READ event: the list without its k-th event.   *)
Removed(q, r, k) ==
  /\ r \in Seq(Evs) /\ Len(r) = Len(q) - 1
  /\ \A x \in 1..Len(r) : r[x] = IF x < k THEN q[x] ELSE q[x + 1]

(* It unlinks one READ event, or finds none.                               *)
LEMMA RemoveShape ==
  ASSUME NEW q \in Seq(Evs)
  PROVE  \/ RemoveFirst(q, Ev("READ")) = q /\ \A x \in 1..Len(q) : q[x] # Ev("READ")
         \/ \E k \in 1..Len(q) : q[k] = Ev("READ") /\ Removed(q, RemoveFirst(q, Ev("READ")), k)
<1> DEFINE e == Ev("READ")
           I == {i \in 1..Len(q) : q[i] = e}
           r == RemoveFirst(q, e)
<1>0. Len(q) \in Nat
  OBVIOUS
<1>2. CASE I = {}
  <2>1. r = q
    BY <1>2 DEF RemoveFirst
  <2> QED BY <1>2, <2>1
<1>3. CASE I # {}
  <2>0. I \subseteq Nat
    BY <1>0
  <2>1. PICK k \in I : \A j \in I : k <= j
    <3> HIDE DEF I
    <3> QED BY ONLY <2>0, <1>3, LeastNat
  <2>2. Min(I) = k
    BY <2>1 DEF Min
  <2>3. r = SubSeq(q, 1, k - 1) \o SubSeq(q, k + 1, Len(q))
    BY <1>3, <2>2 DEF RemoveFirst, RemoveAt, SelectInSeq
  <2> DEFINE a == SubSeq(q, 1, k - 1)
             b == SubSeq(q, k + 1, Len(q))
  <2>4. /\ a \in Seq(Evs) /\ Len(a) = k - 1 /\ \A x \in 1..(k - 1) : a[x] = q[x]
        /\ b \in Seq(Evs) /\ Len(b) = Len(q) - k /\ \A x \in 1..(Len(q) - k) : b[x] = q[x + k]
    BY <1>0
  <2> HIDE DEF a, b
  <2>5. /\ r \in Seq(Evs) /\ Len(r) = Len(q) - 1
        /\ \A x \in 1..Len(r) : r[x] = IF x < k THEN q[x] ELSE q[x + 1]
    <3>1. r = a \o b
      BY <2>3 DEF a, b
    <3>2. k \in 1..Len(q)
      OBVIOUS
    <3>3. /\ a \o b \in Seq(Evs) /\ Len(a \o b) = Len(a) + Len(b)
          /\ \A x \in 1..(Len(a) + Len(b)) :
                (a \o b)[x] = IF x <= Len(a) THEN a[x] ELSE b[x - Len(a)]
      BY ONLY <2>4, ConcatProperties
    <3> DEFINE c == a \o b
    <3> HIDE DEF c
    <3>4. c \in Seq(Evs) /\ Len(c) = Len(q) - 1
      BY <1>0, <2>4, <3>2, <3>3 DEF c
    <3>5. ASSUME NEW x \in 1..Len(c) PROVE c[x] = IF x < k THEN q[x] ELSE q[x + 1]
      <4>1. c[x] = IF x <= Len(a) THEN a[x] ELSE b[x - Len(a)]
        BY <3>3, <3>5 DEF c
      <4> QED BY <1>0, <2>4, <3>2, <3>4, <4>1
    <3> QED BY <3>1, <3>4, <3>5 DEF c
  <2>6. Removed(q, r, k)
    BY <2>5 DEF Removed
  <2> HIDE DEF r
  <2>7. k \in 1..Len(q) /\ q[k] = e
    OBVIOUS
  <2> QED BY <2>6, <2>7 DEF r
<1> QED BY <1>2, <1>3

(* So the list stays what it is, but has no READ any more.                 *)
LEMMA RemoveFacts ==
  ASSUME NEW q \in Seq(Evs), NEW m
  PROVE  /\ RemoveFirst(q, Ev("READ")) \in Seq(Evs)
         /\ Suits(m, q) => Suits(m, RemoveFirst(q, Ev("READ")))
         /\ OneReadIn(q) => ~ReadIn(RemoveFirst(q, Ev("READ")))
<1> DEFINE r == RemoveFirst(q, Ev("READ"))
<1>0. Len(q) \in Nat
  OBVIOUS
<1>1. \A x \in 1..Len(q) : q[x].type = "READ" <=> q[x] = Ev("READ")
  BY EvFacts
<1>2. CASE r = q /\ \A x \in 1..Len(q) : q[x] # Ev("READ")
  BY <1>1, <1>2 DEF ReadIn
<1>3. ASSUME NEW k \in 1..Len(q), q[k] = Ev("READ"), Removed(q, r, k)
      PROVE  r \in Seq(Evs) /\ (Suits(m, q) => Suits(m, r)) /\ (OneReadIn(q) => ~ReadIn(r))
  <2> HIDE DEF r
  <2>1. /\ r \in Seq(Evs) /\ Len(r) = Len(q) - 1
        /\ \A x \in 1..Len(r) : r[x] = IF x < k THEN q[x] ELSE q[x + 1]
    BY <1>3 DEF Removed
  <2>2. Suits(m, q) => Suits(m, r)
    BY <1>0, <2>1 DEF Suits
  <2>3. OneReadIn(q) => ~ReadIn(r)
    <3>1. q[k].type = "READ"
      BY <1>1, <1>3
    <3>2. \A x \in 1..Len(r) : \E y \in 1..Len(q) : y # k /\ r[x] = q[y]
      BY <1>0, <2>1
    <3> QED BY <3>1, <3>2 DEF OneReadIn, ReadIn
  <2> QED BY <2>1, <2>2, <2>3
<1>4. (r = q /\ \A x \in 1..Len(q) : q[x] # Ev("READ"))
      \/ \E k \in 1..Len(q) : q[k] = Ev("READ") /\ Removed(q, r, k)
  BY RemoveShape
<1> QED BY <1>2, <1>3, <1>4

-----------------------------------------------------------------------------
(* The elements of a sequence that are in a set: f has the places in s of  *)
(* the elements of p, which are those of the first n elements that are in  *)
(* S, in their order.                                                      *)
Picks(f, p, s, S, n) ==
  /\ f \in [1..Len(p) -> 1..n]
  /\ \A x, y \in 1..Len(p) : x < y => f[x] < f[y]
  /\ \A x \in 1..Len(p) : p[x] = s[f[x]] /\ p[x] \in S
  /\ \A j \in 1..n : s[j] \in S => \E x \in 1..Len(p) : f[x] = j

(* One more element in S.                                                  *)
LEMMA PicksAppend ==
  ASSUME NEW T, NEW s \in Seq(T), NEW S, NEW p \in Seq(T), NEW n \in Nat, NEW f,
         n + 1 <= Len(s), s[n + 1] \in S, Picks(f, p, s, S, n)
  PROVE  \E g : Picks(g, Append(p, s[n + 1]), s, S, n + 1)
<1> DEFINE e == s[n + 1]
           r == Append(p, e)
           L == Len(p)
           g == [x \in 1..L + 1 |-> IF x = L + 1 THEN n + 1 ELSE f[x]]
<1>0. /\ e \in T /\ L \in Nat /\ r \in Seq(T) /\ Len(r) = L + 1 /\ r[L + 1] = e
      /\ \A x \in 1..L : r[x] = p[x]
  OBVIOUS
<1>1. f \in [1..L -> 1..n] /\ \A x \in 1..L : f[x] \in 1..n
  BY DEF Picks
<1>2. /\ \A x \in 1..L : g[x] = f[x]
      /\ g[L + 1] = n + 1
      /\ g \in [1..L + 1 -> 1..n + 1]
  BY <1>0, <1>1
<1> HIDE DEF g, r, L
<1>3. \A x, y \in 1..L + 1 : x < y => g[x] < g[y]
  <2> SUFFICES ASSUME NEW x \in 1..L + 1, NEW y \in 1..L + 1, x < y PROVE g[x] < g[y]
    OBVIOUS
  <2>1. x \in 1..L
    BY <1>0
  <2>2. CASE y = L + 1
    BY <1>1, <1>2, <2>1, <2>2
  <2>3. CASE y \in 1..L
    <3>1. f[x] < f[y]
      BY <2>1, <2>3 DEF Picks, L
    <3> QED BY <3>1, <1>2, <2>1, <2>3
  <2> QED BY <1>0, <2>2, <2>3
<1>4. ASSUME NEW x \in 1..L + 1 PROVE r[x] = s[g[x]] /\ r[x] \in S
  <2>1. CASE x = L + 1
    BY <2>1, <1>0, <1>2
  <2>2. CASE x \in 1..L
    <3>1. p[x] = s[f[x]] /\ p[x] \in S
      BY <2>2 DEF Picks, L
    <3> QED BY <3>1, <2>2, <1>0, <1>2
  <2> QED BY <1>0, <2>1, <2>2
<1>5. ASSUME NEW j \in 1..n + 1, s[j] \in S PROVE \E x \in 1..L + 1 : g[x] = j
  <2>1. CASE j = n + 1
    <3>1. L + 1 \in 1..L + 1
      BY <1>0
    <3> QED BY <3>1, <2>1, <1>2
  <2>2. CASE j \in 1..n
    <3>1. PICK x \in 1..L : f[x] = j
      BY <2>2, <1>5 DEF Picks, L
    <3>2. x \in 1..L + 1 /\ g[x] = j
      BY <3>1, <1>0, <1>2
    <3> QED BY <3>2
  <2> QED BY <2>1, <2>2
<1>6. Picks(g, r, s, S, n + 1)
  BY <1>0, <1>2, <1>3, <1>4, <1>5 DEF Picks
<1> QED BY <1>6 DEF r

(* One more element that is not in S.                                      *)
LEMMA PicksSkip ==
  ASSUME NEW T, NEW s \in Seq(T), NEW S, NEW p \in Seq(T), NEW n \in Nat, NEW f,
         n + 1 <= Len(s), s[n + 1] \notin S, Picks(f, p, s, S, n)
  PROVE  Picks(f, p, s, S, n + 1)
<1>1. Len(p) \in Nat
  OBVIOUS
<1> DEFINE L == Len(p)
<1> HIDE DEF L
<1>2. f \in [1..L -> 1..n + 1]
  BY DEF Picks, L
<1>3. \A j \in 1..n + 1 : s[j] \in S => j \in 1..n
  OBVIOUS
<1>4. \A j \in 1..n + 1 : s[j] \in S => \E x \in 1..L : f[x] = j
  BY <1>3 DEF Picks, L
<1> QED BY <1>2, <1>4 DEF Picks, L

(* Only(s, S) has the elements of s that are in S, in their order.         *)
LEMMA OnlyPicks ==
  ASSUME NEW T, NEW s \in Seq(T), NEW S
  PROVE  Only(s, S) \in Seq(T) /\ \E f : Picks(f, Only(s, S), s, S, Len(s))
<1> DEFINE N == Len(s)
           X == Seq(T)
           Step(p, n) == IF s[n] \in S THEN Append(p, s[n]) ELSE p
           Eq(f) == f = [n \in 0..N |-> IF n = 0 THEN <<>> ELSE Step(f[n - 1], n)]
           w == CHOOSE f : Eq(f)
<1>0. N \in Nat /\ <<>> \in X /\ \A n \in 1..N : s[n] \in T
  OBVIOUS
<1>1. \A p \in X : \A n \in 1..N : Step(p, n) \in X
  BY <1>0
<1>2. Only(s, S) = w[N]
  BY DEF Only
<1> HIDE DEF N, X, Step
<1>3. \E f : Eq(f)
  <2> DEFINE g == [n \in 1..N |-> [p \in X |-> Step(p, n)]]
  <2>1. g \in [1..N -> [X -> X]]
    BY <1>0, <1>1
  <2>2. PICK f \in [0..N -> X] : f[0] = <<>> /\ \A i \in 1..N : f[i] = g[i][f[i - 1]]
    <3> HIDE DEF g
    <3>1. Steps(g, X, N)
      BY <1>0, <2>1 DEF Steps
    <3>2. PICK f : Solves(f, <<>>, g, X, N)
      BY <1>0, <3>1, Recursion
    <3> QED BY <3>2 DEF Solves
  <2>3. ASSUME NEW i \in 1..N PROVE f[i] = Step(f[i - 1], i)
    <3>1. f[i - 1] \in X /\ f[i] = g[i][f[i - 1]]
      <4>1. i - 1 \in 0..N
        BY <1>0
      <4> HIDE DEF g
      <4> QED BY <2>2, <4>1
    <3> QED BY <3>1
  <2>4. Eq(f)
    BY <1>0, <2>2, <2>3
  <2> QED BY <2>4
<1>4. Eq(w)
  <2> HIDE DEF Eq
  <2> QED BY <1>3
<1> HIDE DEF w
<1>5. w[0] = <<>> /\ \A n \in 1..N : w[n] = Step(w[n - 1], n)
  BY <1>0, <1>4
<1> DEFINE P(n) == w[n] \in X /\ \E f : Picks(f, w[n], s, S, n)
           K == {n \in Nat : n <= N => P(n)}
<1>6. 0 \in K
  <2>1. Picks([x \in 1..0 |-> 0], <<>>, s, S, 0)
    BY DEF Picks
  <2> QED BY <2>1, <1>0, <1>5
<1>7. ASSUME NEW n \in Nat, n \in K PROVE n + 1 \in K
  <2> SUFFICES ASSUME n + 1 <= N PROVE P(n + 1)
    <3> HIDE DEF P
    <3> QED OBVIOUS
  <2>1. n + 1 \in 1..N /\ (n + 1) - 1 = n /\ P(n)
    BY <1>0, <1>7
  <2>2. w[n + 1] = Step(w[n], n + 1) /\ w[n + 1] \in X
    BY <1>1, <1>5, <2>1
  <2>3. PICK f : Picks(f, w[n], s, S, n)
    BY <2>1
  <2>4. CASE s[n + 1] \in S
    <3>1. w[n + 1] = Append(w[n], s[n + 1])
      BY <2>2, <2>4 DEF Step
    <3>2. \E g : Picks(g, Append(w[n], s[n + 1]), s, S, n + 1)
      BY <2>1, <2>3, <2>4, PicksAppend DEF X, N
    <3> QED BY <2>2, <3>1, <3>2
  <2>5. CASE s[n + 1] \notin S
    <3>1. w[n + 1] = w[n]
      BY <2>2, <2>5 DEF Step
    <3>2. Picks(f, w[n], s, S, n + 1)
      BY <2>1, <2>3, <2>5, PicksSkip DEF X, N
    <3> QED BY <2>2, <3>1, <3>2
  <2> QED BY <2>4, <2>5
<1>8. Nat \subseteq K
  <2> HIDE DEF K
  <2> QED BY <1>6, <1>7, SetInduction
<1>9. P(N)
  BY <1>0, <1>8
<1> QED BY <1>2, <1>9 DEF N, X

(* What it contains, and what it begins with.                              *)
LEMMA OnlyFacts ==
  ASSUME NEW T, NEW s \in Seq(T), NEW S
  PROVE  /\ Only(s, S) \in Seq(T \cap S)
         /\ Range(Only(s, S)) = Range(s) \cap S
         /\ Only(s, S) # <<>> => \E j \in 1..Len(s) :
               /\ Head(Only(s, S)) = s[j] /\ s[j] \in S
               /\ \A k \in 1..j - 1 : s[k] \notin S
         /\ (\E j \in 1..Len(s) : s[j] \in S) => Only(s, S) # <<>>
<1> DEFINE p == Only(s, S)
<1>1. PICK f : Picks(f, p, s, S, Len(s))
  BY OnlyPicks
<1>2. p \in Seq(T)
  BY OnlyPicks
<1> HIDE DEF p
<1>3. Len(p) \in Nat /\ Len(s) \in Nat /\ DOMAIN p = 1..Len(p) /\ DOMAIN s = 1..Len(s)
  BY <1>2
<1>4. \A x \in 1..Len(p) : f[x] \in 1..Len(s) /\ p[x] = s[f[x]] /\ p[x] \in S /\ p[x] \in T
  BY <1>1, <1>2 DEF Picks
<1>5. p \in Seq(T \cap S)
  BY <1>2, <1>4, SeqFrom
<1>6. \A j \in 1..Len(s) : s[j] \in S => \E x \in 1..Len(p) : f[x] = j /\ p[x] = s[j]
  BY <1>1, <1>4 DEF Picks
<1>7. Range(p) = Range(s) \cap S
  BY <1>3, <1>4, <1>6 DEF Range
<1>8. ASSUME p # <<>> PROVE \E j \in 1..Len(s) :
               Head(p) = s[j] /\ s[j] \in S /\ \A k \in 1..j - 1 : s[k] \notin S
  <2>1. 1 \in 1..Len(p) /\ Head(p) = p[1]
    BY <1>2, <1>8
  <2>2. f[1] \in 1..Len(s) /\ Head(p) = s[f[1]] /\ s[f[1]] \in S
    BY <1>4, <2>1
  <2>3. ASSUME NEW k \in 1..f[1] - 1, s[k] \in S PROVE FALSE
    <3>1. k \in 1..Len(s) /\ k < f[1]
      BY <1>3, <2>2
    <3>2. PICK x \in 1..Len(p) : f[x] = k
      BY <1>6, <2>3, <3>1
    <3>3. x = 1 \/ 1 < x
      BY <1>3
    <3>4. 1 < x => f[1] < f[x]
      BY <1>1, <2>1 DEF Picks
    <3> QED BY <3>1, <3>2, <3>3, <3>4, <2>2
  <2> QED BY <2>2, <2>3
<1>9. ASSUME NEW j \in 1..Len(s), s[j] \in S PROVE p # <<>>
  <2>1. PICK x \in 1..Len(p) : f[x] = j
    BY <1>6, <1>9
  <2> QED BY <2>1
<1> QED BY <1>5, <1>7, <1>8, <1>9 DEF p

(* FlattenSeq puts the sequences of u behind each other.                   *)
LEMMA FlattenFacts ==
  ASSUME NEW T, NEW u \in Seq(Seq(T))
  PROVE  /\ FlattenSeq(u) \in Seq(T)
         /\ Range(FlattenSeq(u)) = UNION {Range(u[i]) : i \in 1..Len(u)}
<1> DEFINE N == Len(u)
           X == Seq(T)
           Eq(f) == f = [i \in 1..N |-> IF i = 1 THEN u[i] ELSE f[i - 1] \o u[i]]
           w == CHOOSE f : Eq(f)
<1>0. N \in Nat /\ \A i \in 1..N : u[i] \in X
  OBVIOUS
<1>1. CASE N = 0
  <2>1. u = <<>> /\ FlattenSeq(u) = u
    BY <1>1 DEF FlattenSeq
  <2>2. 1..N = {} /\ DOMAIN u = 1..N /\ u \in Seq(T)
    BY <2>1, <1>1
  <2>3. Range(u) = {} /\ UNION {Range(u[i]) : i \in 1..N} = {}
    BY <2>2 DEF Range
  <2> QED BY <2>1, <2>2, <2>3
<1>2. CASE N # 0
  <2>1. FlattenSeq(u) = w[N]
    BY <1>2 DEF FlattenSeq
  <2>2. \A p, r \in X : p \o r \in X /\ Range(p \o r) = Range(p) \cup Range(r)
    <3> SUFFICES ASSUME NEW p \in X, NEW r \in X
                 PROVE  p \o r \in X /\ Range(p \o r) = Range(p) \cup Range(r)
      OBVIOUS
    <3>1. /\ p \o r \in X /\ Len(p \o r) = Len(p) + Len(r) /\ Len(p) \in Nat /\ Len(r) \in Nat
          /\ \A i \in 1..Len(p) + Len(r) :
                (p \o r)[i] = IF i <= Len(p) THEN p[i] ELSE r[i - Len(p)]
      OBVIOUS
    <3>2. DOMAIN (p \o r) = 1..Len(p) + Len(r) /\ DOMAIN p = 1..Len(p) /\ DOMAIN r = 1..Len(r)
      BY <3>1
    <3>3. \A i \in 1..Len(p) : (p \o r)[i] = p[i] /\ i \in 1..Len(p) + Len(r)
      BY <3>1
    <3>4. \A i \in 1..Len(r) : (p \o r)[Len(p) + i] = r[i] /\ Len(p) + i \in 1..Len(p) + Len(r)
      BY <3>1
    <3>5. \A i \in 1..Len(p) + Len(r) :
             \/ i \in 1..Len(p) /\ (p \o r)[i] = p[i]
             \/ i - Len(p) \in 1..Len(r) /\ (p \o r)[i] = r[i - Len(p)]
      BY <3>1
    <3>6. Range(p \o r) \subseteq Range(p) \cup Range(r)
      BY <3>2, <3>5 DEF Range
    <3>7. Range(p) \cup Range(r) \subseteq Range(p \o r)
      BY <3>2, <3>3, <3>4 DEF Range
    <3> QED BY <3>1, <3>6, <3>7
  <2> HIDE DEF N, X
  <2>3. \E f : Eq(f)
    <3> DEFINE g == [i \in 1..N |-> [p \in X |-> IF i = 1 THEN u[1] ELSE p \o u[i]]]
    <3>0. 1 \in 1..N
      BY <1>0, <1>2
    <3>1. g \in [1..N -> [X -> X]]
      BY <1>0, <2>2, <3>0
    <3>2. PICK f \in [0..N -> X] : f[0] = u[1] /\ \A i \in 1..N : f[i] = g[i][f[i - 1]]
      <4> HIDE DEF g
      <4>1. Steps(g, X, N)
        BY <1>0, <3>1 DEF Steps
      <4>2. PICK f : Solves(f, u[1], g, X, N)
        BY <1>0, <3>0, <4>1, Recursion
      <4> QED BY <4>2 DEF Solves
    <3>3. ASSUME NEW i \in 1..N PROVE f[i] = IF i = 1 THEN u[i] ELSE f[i - 1] \o u[i]
      <4>1. f[i - 1] \in X /\ f[i] = g[i][f[i - 1]]
        <5>1. i - 1 \in 0..N
          BY <1>0
        <5> HIDE DEF g
        <5> QED BY <3>2, <5>1
      <4> QED BY <4>1
    <3> DEFINE h == [i \in 1..N |-> f[i]]
    <3>4. ASSUME NEW i \in 1..N PROVE h[i] = IF i = 1 THEN u[i] ELSE h[i - 1] \o u[i]
      <4>1. i # 1 => i - 1 \in 1..N
        BY <1>0
      <4> QED BY <3>3, <4>1
    <3>5. Eq(h)
      BY <3>4
    <3> QED BY <3>5
  <2>4. Eq(w)
    <3> HIDE DEF Eq
    <3> QED BY <2>3
  <2> HIDE DEF w
  <2>5. \A i \in 1..N : w[i] = IF i = 1 THEN u[i] ELSE w[i - 1] \o u[i]
    BY <2>4
  <2> DEFINE P(n) == w[n] \in X /\ Range(w[n]) = UNION {Range(u[i]) : i \in 1..n}
             K == {n \in Nat : n + 1 <= N => P(n + 1)}
  <2>6. 0 \in K
    <3>1. w[1] = u[1] /\ u[1] \in X
      BY <1>0, <1>2, <2>5
    <3>2. 1..1 = {1} /\ 0 + 1 = 1
      OBVIOUS
    <3> QED BY <3>1, <3>2
  <2>7. ASSUME NEW n \in Nat, n \in K PROVE n + 1 \in K
    <3> DEFINE k == n + 1
    <3> SUFFICES ASSUME k + 1 <= N PROVE P(k + 1)
      <4> HIDE DEF P
      <4> QED OBVIOUS
    <3>1. k + 1 \in 1..N /\ (k + 1) - 1 = k /\ k + 1 # 1 /\ P(k) /\ k \in Nat
      BY <1>0, <2>7
    <3>2. w[k + 1] = w[k] \o u[k + 1]
      BY <2>5, <3>1
    <3>3. w[k + 1] \in X /\ Range(w[k + 1]) = Range(w[k]) \cup Range(u[k + 1])
      BY <1>0, <2>2, <3>1, <3>2
    <3>4. 1..k + 1 = 1..k \cup {k + 1}
      BY <3>1
    <3> HIDE DEF k
    <3> QED BY <3>1, <3>3, <3>4
  <2>8. Nat \subseteq K
    <3> HIDE DEF K
    <3> QED BY <2>6, <2>7, SetInduction
  <2>9. N - 1 \in K /\ (N - 1) + 1 = N
    <3>1. N - 1 \in Nat
      BY <1>0, <1>2
    <3> HIDE DEF K
    <3> QED BY <1>0, <2>8, <3>1
  <2>10. P(N)
    BY <1>0, <2>9
  <2> QED BY <2>1, <2>10 DEF N, X
<1> QED BY <1>1, <1>2

(* A sequence read backwards.                                              *)
LEMMA ReverseFacts ==
  ASSUME NEW T, NEW s \in Seq(T)
  PROVE  Reverse(s) \in Seq(T) /\ Range(Reverse(s)) = Range(s)
<1> DEFINE L == Len(s)
<1>1. L \in Nat /\ DOMAIN s = 1..L /\ \A i \in 1..L : s[i] \in T
  OBVIOUS
<1>2. Reverse(s) = [i \in 1..L |-> s[(L - i) + 1]]
  BY DEF Reverse
<1> HIDE DEF L
<1>3. \A i \in 1..L : (L - i) + 1 \in 1..L /\ (L - ((L - i) + 1)) + 1 = i
  BY <1>1
<1>4. Reverse(s) \in Seq(T) /\ DOMAIN Reverse(s) = 1..L
  BY <1>1, <1>2, <1>3
<1>5. Range(s) \subseteq Range(Reverse(s))
  <2> SUFFICES ASSUME NEW i \in 1..L PROVE s[i] \in Range(Reverse(s))
    BY <1>1 DEF Range
  <2>1. Reverse(s)[(L - i) + 1] = s[i]
    BY <1>2, <1>3
  <2> QED BY <2>1, <1>3, <1>4 DEF Range
<1>6. Range(Reverse(s)) \subseteq Range(s)
  BY <1>1, <1>2, <1>3, <1>4 DEF Range
<1> QED BY <1>4, <1>5, <1>6

-----------------------------------------------------------------------------
(* A route, and where a module sits in it.                                 *)
LEMMA RouteFacts ==
  ASSUME NEW r \in Range(Routes)
  PROVE  /\ r \in Seq(Modules) /\ Len(r) \in Nat /\ DOMAIN r = 1..Len(r)
         /\ \A x \in 1..Len(r) : r[x] \in Modules
         /\ \E x \in 1..Len(r) : r[x] \in Inputs
         /\ \E x \in 1..Len(r) : r[x] \in Outputs
         /\ \A x, y \in 1..Len(r) : r[x] \in Inputs /\ r[y] \notin Inputs => x < y
         /\ \A x, y \in 1..Len(r) : r[x] \notin Outputs /\ r[y] \in Outputs => x < y
         /\ \A x, y \in 1..Len(r) : r[x] \in Processors /\ r[x] = r[y] => x = y
<1>1. PICK k \in DOMAIN Routes : r = Routes[k]
  BY DEF Range
<1>2. r \in Seq(Modules) /\ Len(r) \in Nat /\ DOMAIN r = 1..Len(r)
  BY <1>1, TypeAssumption
<1>3. \A x \in 1..Len(r) : r[x] \in Modules
  BY <1>2
<1>4. /\ Range(r) \cap Inputs # {} /\ Range(r) \cap Outputs # {}
      /\ \A x, y \in 1..Len(r) : x < y => Stage[r[x]] <= Stage[r[y]]
  BY <1>2, RoutesAssumption
<1>5. /\ \E x \in 1..Len(r) : r[x] \in Inputs
      /\ \E x \in 1..Len(r) : r[x] \in Outputs
  BY <1>2, <1>4 DEF Range
<1>6. \A x, y \in 1..Len(r) : r[x] \in Processors /\ r[x] = r[y] => x = y
  BY <1>1, <1>2, RoutesAssumption
<1>7. \A m \in Modules : /\ m \in Inputs => Stage[m] = 1
                         /\ m \notin Inputs => Stage[m] \in {2, 3}
                         /\ m \in Outputs => Stage[m] = 3
                         /\ m \notin Outputs => Stage[m] \in {1, 2}
  <2> SUFFICES ASSUME NEW m \in Modules
               PROVE /\ m \in Inputs => Stage[m] = 1
                     /\ m \notin Inputs => Stage[m] \in {2, 3}
                     /\ m \in Outputs => Stage[m] = 3
                     /\ m \notin Outputs => Stage[m] \in {1, 2}
    OBVIOUS
  <2>1. Type[m] \in {"INPUT", "PROCESSOR", "OUTPUT"}
    BY TypeAssumption
  <2> QED BY <2>1 DEF Stage, Inputs, Outputs
<1>8. ASSUME NEW x \in 1..Len(r), NEW y \in 1..Len(r), r[x] \in Inputs, r[y] \notin Inputs
      PROVE  x < y
  BY <1>2, <1>3, <1>4, <1>7, <1>8
<1>9. ASSUME NEW x \in 1..Len(r), NEW y \in 1..Len(r), r[x] \notin Outputs, r[y] \in Outputs
      PROVE  x < y
  BY <1>2, <1>3, <1>4, <1>7, <1>9
<1> QED BY <1>2, <1>3, <1>5, <1>6, <1>8, <1>9

(* A module is of one of the three kinds only, and a record is not NULL.   *)
LEMMA KindFacts ==
  /\ Inputs \subseteq Modules /\ Outputs \subseteq Modules /\ Inputs \cap Outputs = {}
  /\ \A m \in Modules \ Inputs : m \in Processors \/ m \in Outputs
  /\ \A m \in Processors : m \in Modules \ Inputs /\ m \notin Outputs
  /\ None \notin Records
BY TypeAssumption DEF Inputs, Outputs, Processors, Records, None

(* The first element of a sequence that is not empty.                      *)
LEMMA HeadOnly ==
  ASSUME NEW T, NEW s \in Seq(T), s # <<>>
  PROVE  <<Head(s)>> \in Seq(T) /\ <<Head(s)>> # <<>> /\ Range(<<Head(s)>>) = {Head(s)} /\ Head(s) \in T
<1>1. Head(s) \in T
  OBVIOUS
<1> DEFINE h == Head(s)
<1> HIDE DEF h
<1>2. <<h>> \in Seq(T) /\ DOMAIN <<h>> = {1} /\ <<h>>[1] = h
  BY <1>1 DEF h
<1> QED BY <1>1, <1>2 DEF Range, h

(* The modules a record goes to next in a route: the first of the          *)
(* processors that follow or, when none does, every output.                *)
LEMMA NextFacts ==
  ASSUME NEW r \in Range(Routes), NEW m \in Modules
  PROVE  /\ NextInRoute(m, r) \in Seq(Modules \ Inputs)
         /\ NextInRoute(m, r) # <<>>
         /\ Range(NextInRoute(m, r)) \subseteq Range(r)
         /\ IF \E p \in Processors : Follows(m, p, r)
            THEN \E j \in 1..Len(r) :
                    /\ Range(NextInRoute(m, r)) = {r[j]}
                    /\ r[j] \in Processors /\ Follows(m, r[j], r)
                    /\ \A k \in 1..j - 1 : ~(r[k] \in Processors /\ Follows(m, r[k], r))
            ELSE Range(NextInRoute(m, r)) = Range(r) \cap Outputs
<1> DEFINE S == {p \in Processors : Follows(m, p, r)}
           l == Only(r, S)
           o == Only(r, Outputs)
<1>0. NextInRoute(m, r) = IF l # <<>> THEN <<Head(l)>> ELSE o
  BY DEF NextInRoute
<1>1. /\ r \in Seq(Modules) /\ Len(r) \in Nat /\ DOMAIN r = 1..Len(r)
      /\ \E x \in 1..Len(r) : r[x] \in Outputs
  BY RouteFacts
<1>2. /\ o \in Seq(Modules \cap Outputs) /\ Range(o) = Range(r) \cap Outputs /\ o # <<>>
  BY <1>1, OnlyFacts
<1>3. /\ l \in Seq(Modules \cap S)
      /\ l # <<>> => \E j \in 1..Len(r) :
               /\ Head(l) = r[j] /\ r[j] \in S
               /\ \A k \in 1..j - 1 : r[k] \notin S
      /\ (\E j \in 1..Len(r) : r[j] \in S) => l # <<>>
  BY <1>1, OnlyFacts
<1>4. \A p \in Processors : Follows(m, p, r) => \E j \in 1..Len(r) : r[j] \in S
  BY <1>1 DEF Follows
<1>5. S \subseteq Processors /\ \A p : p \in S => Follows(m, p, r)
  OBVIOUS
<1>55. \A p : p \in S <=> p \in Processors /\ Follows(m, p, r)
  OBVIOUS
<1> HIDE DEF l, o, S
<1>6. CASE l # <<>>
  <2>1. PICK j \in 1..Len(r) : Head(l) = r[j] /\ r[j] \in S /\ \A k \in 1..j - 1 : r[k] \notin S
    BY <1>3, <1>6
  <2>2. NextInRoute(m, r) = <<Head(l)>>
    BY <1>0, <1>6
  <2>3. <<Head(l)>> \in Seq(Modules \cap S) /\ <<Head(l)>> # <<>> /\ Range(<<Head(l)>>) = {Head(l)}
    BY <1>3, <1>6, HeadOnly
  <2>4. Modules \cap S \subseteq Modules \ Inputs
    BY <1>5, KindFacts
  <2>5. <<Head(l)>> \in Seq(Modules \ Inputs)
    BY <2>3, <2>4, SeqWithin
  <2>6. r[j] \in Range(r)
    BY <1>1 DEF Range
  <2>7. /\ r[j] \in Processors /\ Follows(m, r[j], r)
        /\ \A k \in 1..j - 1 : ~(r[k] \in Processors /\ Follows(m, r[k], r))
    BY <2>1, <1>55
  <2> QED BY <2>1, <2>2, <2>3, <2>5, <2>6, <2>7
<1>7. CASE l = <<>>
  <2>1. ~ \E p \in Processors : Follows(m, p, r)
    BY <1>3, <1>4, <1>7
  <2>2. NextInRoute(m, r) = o
    BY <1>0, <1>7
  <2>3. Modules \cap Outputs \subseteq Modules \ Inputs
    BY KindFacts
  <2>4. o \in Seq(Modules \ Inputs)
    BY <1>2, <2>3, SeqWithin
  <2> QED BY <2>1, <2>2, <2>4, <1>2
<1> QED BY <1>6, <1>7

(* The modules resume_senders(m) considers in a route.                     *)
LEMMA SendersInFacts ==
  ASSUME NEW r \in Range(Routes), NEW m \in Modules
  PROVE  /\ SendersInRoute(m, r) \in Seq(Modules \ Outputs)
         /\ SendersInRoute(m, r) # <<>>
         /\ LET B == {p \in Range(r) \cap Processors : m \in Range(NextInRoute(p, r))}
            IN  Range(SendersInRoute(m, r)) = IF B # {} THEN B ELSE Range(r) \cap Inputs
<1> DEFINE S == {p \in Processors : m \in Range(NextInRoute(p, r))}
           B == {p \in Range(r) \cap Processors : m \in Range(NextInRoute(p, r))}
           b == Only(r, S)
           i == Only(r, Inputs)
           v == Reverse(i)
<1>0. SendersInRoute(m, r) = IF b # <<>> THEN b ELSE v
  BY DEF SendersInRoute
<1>1. /\ r \in Seq(Modules) /\ Len(r) \in Nat /\ DOMAIN r = 1..Len(r)
      /\ \E x \in 1..Len(r) : r[x] \in Inputs
  BY RouteFacts
<1>2. i \in Seq(Modules \cap Inputs) /\ Range(i) = Range(r) \cap Inputs /\ i # <<>>
  BY <1>1, OnlyFacts
<1>3. v \in Seq(Modules \cap Inputs) /\ Range(v) = Range(r) \cap Inputs
  <2> HIDE DEF i
  <2> QED BY <1>2, ReverseFacts
<1>4. Range(r) \cap Inputs # {}
  BY <1>1 DEF Range
<1>5. b \in Seq(Modules \cap S) /\ Range(b) = Range(r) \cap S
  BY <1>1, OnlyFacts
<1>6. Range(r) \cap S = B /\ Modules \cap S \subseteq Modules \ Outputs
  BY KindFacts
<1>7. Modules \cap Inputs \subseteq Modules \ Outputs
  BY KindFacts
<1> HIDE DEF b, v, S, B
<1>8. \A T : \A s \in Seq(T) : s = <<>> <=> Range(s) = {}
  <2> SUFFICES ASSUME NEW T, NEW s \in Seq(T) PROVE s = <<>> <=> Range(s) = {}
    OBVIOUS
  <2>1. DOMAIN s = 1..Len(s) /\ Len(s) \in Nat
    OBVIOUS
  <2>2. s # <<>> => s[1] \in Range(s)
    <3>1. s # <<>> => 1 \in DOMAIN s
      OBVIOUS
    <3> QED BY <3>1 DEF Range
  <2>3. s = <<>> => DOMAIN s = {}
    BY <2>1
  <2>4. DOMAIN s = {} => Range(s) = {}
    BY DEF Range
  <2> QED BY <2>2, <2>3, <2>4
<1>9. CASE b # <<>>
  <2>1. SendersInRoute(m, r) = b /\ B # {}
    BY <1>0, <1>5, <1>6, <1>8, <1>9
  <2>2. b \in Seq(Modules \ Outputs)
    BY <1>5, <1>6, SeqWithin
  <2> QED BY <2>1, <2>2, <1>5, <1>6, <1>9 DEF B
<1>10. CASE b = <<>>
  <2>1. SendersInRoute(m, r) = v /\ B = {}
    BY <1>0, <1>5, <1>6, <1>8, <1>10
  <2>2. v \in Seq(Modules \ Outputs)
    BY <1>3, <1>7, SeqWithin
  <2>3. v # <<>>
    BY <1>3, <1>4, <1>8
  <2> QED BY <2>1, <2>2, <2>3, <1>3 DEF B
<1> QED BY <1>9, <1>10

(* Whoever sends to a module is one of those it wakes up.                  *)
LEMMA SenderOfNext ==
  ASSUME NEW r \in Range(Routes), NEW m \in Range(r), m \notin Outputs,
         NEW n \in Range(NextInRoute(m, r))
  PROVE  m \in Range(SendersInRoute(n, r))
<1>0. /\ r \in Seq(Modules) /\ Len(r) \in Nat /\ DOMAIN r = 1..Len(r)
      /\ \A x \in 1..Len(r) : r[x] \in Modules
      /\ \A x, y \in 1..Len(r) : r[x] \in Inputs /\ r[y] \notin Inputs => x < y
      /\ \A x, y \in 1..Len(r) : r[x] \in Processors /\ r[x] = r[y] => x = y
  BY RouteFacts
<1>1. m \in Modules
  BY <1>0 DEF Range
<1>2. n \in Modules /\ n \in Range(r)
  <2>1. n \in Range(r)
    BY <1>1, NextFacts
  <2> QED BY <2>1, <1>0 DEF Range
<1> DEFINE B == {p \in Range(r) \cap Processors : n \in Range(NextInRoute(p, r))}
<1>3. Range(SendersInRoute(n, r)) = IF B # {} THEN B ELSE Range(r) \cap Inputs
  BY <1>2, SendersInFacts
<1>4. CASE m \in Processors
  BY <1>3, <1>4
<1>5. CASE m \in Inputs
  <2> SUFFICES ASSUME NEW p \in B PROVE FALSE
    BY <1>3, <1>5
  <2>1. p \in Processors /\ p \in Modules
    BY KindFacts
  <2>2. PICK x \in 1..Len(r) : r[x] = m
    BY <1>0 DEF Range
  <2>3. PICK y \in 1..Len(r) : r[y] = p
    BY <1>0 DEF Range
  <2>4. Follows(m, p, r)
    BY <1>0, <1>5, <2>1, <2>2, <2>3, KindFacts DEF Follows
  <2>5. PICK j \in 1..Len(r) :
            /\ Range(NextInRoute(m, r)) = {r[j]} /\ r[j] \in Processors
            /\ \A k \in 1..j - 1 : ~(r[k] \in Processors /\ Follows(m, r[k], r))
    BY <1>1, <2>1, <2>4, NextFacts
  <2>6. n = r[j] /\ n \in Processors /\ n \notin Outputs
    BY <2>5, KindFacts
  <2>7. Follows(p, n, r)
    <3>1. n \in Range(NextInRoute(p, r))
      OBVIOUS
    <3>2. ~(Range(NextInRoute(p, r)) = Range(r) \cap Outputs)
      BY <2>6, <3>1
    <3> QED BY <2>1, <3>1, <3>2, NextFacts
  <2>8. PICK a \in 1..Len(r), b \in 1..Len(r) : a < b /\ r[a] = p /\ r[b] = n
    BY <1>0, <2>7 DEF Follows
  <2>9. b = j
    BY <1>0, <2>6, <2>8
  <2>10. a \in 1..j - 1
    BY <1>0, <2>8, <2>9
  <2> QED BY <2>1, <2>4, <2>5, <2>8, <2>10
<1> QED BY <1>1, <1>4, <1>5, KindFacts

(* The routes a module is in, and what is collected over them.             *)
LEMMA RoutesOfFacts ==
  ASSUME NEW m \in Modules
  PROVE  /\ RoutesOf(m) \in Seq(Range(Routes)) /\ Len(RoutesOf(m)) \in Nat \ {0}
         /\ DOMAIN RoutesOf(m) = 1..Len(RoutesOf(m))
         /\ Range(RoutesOf(m)) = {r \in Range(Routes) : m \in Range(r)}
<1> DEFINE S == {r \in Range(Routes) : m \in Range(r)}
           p == RoutesOf(m)
<1>1. Routes \in Seq(Range(Routes))
  <2>1. \A i \in 1..Len(Routes) : Routes[i] \in Range(Routes)
    BY TypeAssumption DEF Range
  <2> QED BY <2>1, TypeAssumption, SeqFrom
<1>2. p = Only(Routes, S)
  BY DEF RoutesOf
<1>3. p \in Seq(Range(Routes) \cap S) /\ Range(p) = Range(Routes) \cap S
  <2> HIDE DEF S, p
  <2> QED BY <1>1, <1>2, OnlyFacts
<1>4. Range(Routes) \cap S = S /\ S \subseteq Range(Routes) /\ S # {}
  BY RoutesAssumption
<1> HIDE DEF S, p
<1>5. p \in Seq(Range(Routes))
  BY <1>3, <1>4, SeqWithin
<1>6. p # <<>>
  <2>1. p = <<>> => DOMAIN p = {}
    OBVIOUS
  <2>2. DOMAIN p = {} => Range(p) = {}
    BY DEF Range
  <2> QED BY <2>1, <2>2, <1>3, <1>4
<1> QED BY <1>3, <1>4, <1>5, <1>6 DEF S, p

(* Collecting the sequences g[1], ... that are not empty.                  *)
LEMMA Collected ==
  ASSUME NEW T, NEW N \in Nat \ {0}, NEW g, g = [i \in 1..N |-> g[i]],
         \A i \in 1..N : g[i] \in Seq(T) /\ g[i] # <<>>
  PROVE  /\ FlattenSeq(g) \in Seq(T) /\ FlattenSeq(g) # <<>>
         /\ \A n : n \in Range(FlattenSeq(g)) <=> \E i \in 1..N : n \in Range(g[i])
<1>1. g \in Seq(Seq(T)) /\ Len(g) = N
  OBVIOUS
<1>2. FlattenSeq(g) \in Seq(T) /\ Range(FlattenSeq(g)) = UNION {Range(g[i]) : i \in 1..N}
  BY <1>1, FlattenFacts
<1>3. g[1][1] \in Range(g[1])
  <2>1. 1 \in DOMAIN g[1]
    OBVIOUS
  <2> QED BY <2>1 DEF Range
<1>4. Range(FlattenSeq(g)) # {}
  <2>1. 1 \in 1..N
    OBVIOUS
  <2> QED BY <1>2, <1>3, <2>1
<1>5. FlattenSeq(g) # <<>>
  <2>1. FlattenSeq(g) = <<>> => DOMAIN FlattenSeq(g) = {}
    BY <1>2
  <2>2. DOMAIN FlattenSeq(g) = {} => Range(FlattenSeq(g)) = {}
    BY DEF Range
  <2> QED BY <2>1, <2>2, <1>4
<1> QED BY <1>2, <1>5

(* The modules records go to, the queues a sender looks at and the         *)
(* modules a receiver wakes up, for any routes: there is always somebody   *)
(* to send to and somebody to wake up, and whoever sends to a module is    *)
(* one of those it wakes up.                                               *)
LEMMA Wiring ==
  /\ Targets \in [Modules -> Seq(Modules \ Inputs)]
  /\ Checked \in [Modules -> Seq(Modules \ Inputs)]
  /\ Senders \in [Modules -> Seq(Modules \ Outputs)]
  /\ \A m \in Modules : Targets[m] # <<>> /\ Checked[m] # <<>> /\ Senders[m] # <<>>
  /\ \A m, n \in Modules : /\ n \in Range(Targets[m]) <=>
                                 \E r \in Range(Routes) : m \in Range(r) /\ n \in Range(NextInRoute(m, r))
                           /\ n \in Range(Senders[m]) <=>
                                 \E r \in Range(Routes) : m \in Range(r) /\ n \in Range(SendersInRoute(m, r))
                           /\ m \in Inputs => 
                              (n \in Range(Checked[m]) <=>
                                 \E r \in Range(Routes) : m \in Range(r) /\ n \in Range(r) \ Inputs)
  /\ \A m \in Modules \ Outputs : \A n \in Range(Targets[m]) : m \in Range(Senders[n])
<1>1. ASSUME NEW m \in Modules
      PROVE  /\ Targets[m] \in Seq(Modules \ Inputs) /\ Targets[m] # <<>>
             /\ Checked[m] \in Seq(Modules \ Inputs) /\ Checked[m] # <<>>
             /\ Senders[m] \in Seq(Modules \ Outputs) /\ Senders[m] # <<>>
             /\ \A n : n \in Range(Targets[m]) <=>
                   \E r \in Range(Routes) : m \in Range(r) /\ n \in Range(NextInRoute(m, r))
             /\ \A n : n \in Range(Senders[m]) <=>
                   \E r \in Range(Routes) : m \in Range(r) /\ n \in Range(SendersInRoute(m, r))
             /\ m \in Inputs => \A n : n \in Range(Checked[m]) <=>
                   \E r \in Range(Routes) : m \in Range(r) /\ n \in Range(r) \ Inputs
  <2> DEFINE R == RoutesOf(m)
             N == Len(R)
             gt == [i \in 1..N |-> NextInRoute(m, R[i])]
             gs == [i \in 1..N |-> SendersInRoute(m, R[i])]
             gc == [i \in 1..N |-> Only(R[i], Modules \ Inputs)]
  <2>1. /\ R \in Seq(Range(Routes)) /\ N \in Nat \ {0} /\ DOMAIN R = 1..N
        /\ Range(R) = {r \in Range(Routes) : m \in Range(r)}
    BY RoutesOfFacts
  <2>2. /\ Targets[m] = FlattenSeq(gt)
        /\ Senders[m] = FlattenSeq(gs)
        /\ Checked[m] = IF m \in Inputs THEN FlattenSeq(gc) ELSE Targets[m]
    BY <2>1 DEF Targets, Senders, Checked, OverRoutes
  <2> HIDE DEF R, N
  <2>3. \A i \in 1..N : R[i] \in Range(Routes)
    BY <2>1
  <2>4. \A r : (r \in Range(Routes) /\ m \in Range(r)) <=> \E i \in 1..N : r = R[i]
    BY <2>1 DEF Range
  <2>5. /\ FlattenSeq(gt) \in Seq(Modules \ Inputs) /\ FlattenSeq(gt) # <<>>
        /\ \A n : n \in Range(FlattenSeq(gt)) <=> \E i \in 1..N : n \in Range(NextInRoute(m, R[i]))
    <3>1. \A i \in 1..N : gt[i] = NextInRoute(m, R[i]) /\ gt[i] \in Seq(Modules \ Inputs) /\ gt[i] # <<>>
      BY <2>3, NextFacts
    <3>2. gt = [i \in 1..N |-> gt[i]]
      OBVIOUS
    <3> HIDE DEF gt
    <3> QED BY <2>1, <3>1, <3>2, Collected
  <2>6. /\ FlattenSeq(gs) \in Seq(Modules \ Outputs) /\ FlattenSeq(gs) # <<>>
        /\ \A n : n \in Range(FlattenSeq(gs)) <=> \E i \in 1..N : n \in Range(SendersInRoute(m, R[i]))
    <3>1. \A i \in 1..N : gs[i] = SendersInRoute(m, R[i]) /\ gs[i] \in Seq(Modules \ Outputs) /\ gs[i] # <<>>
      BY <2>3, SendersInFacts
    <3>2. gs = [i \in 1..N |-> gs[i]]
      OBVIOUS
    <3> HIDE DEF gs
    <3> QED BY <2>1, <3>1, <3>2, Collected
  <2>7. /\ FlattenSeq(gc) \in Seq(Modules \ Inputs) /\ FlattenSeq(gc) # <<>>
        /\ \A n : n \in Range(FlattenSeq(gc)) <=> \E i \in 1..N : n \in Range(R[i]) \ Inputs
    <3>1. \A i \in 1..N : /\ gc[i] \in Seq(Modules \ Inputs) /\ gc[i] # <<>>
                          /\ Range(gc[i]) = Range(R[i]) \ Inputs
      <4> SUFFICES ASSUME NEW i \in 1..N
                   PROVE  LET c == Only(R[i], Modules \ Inputs)
                          IN  /\ c \in Seq(Modules \ Inputs) /\ c # <<>>
                              /\ Range(c) = Range(R[i]) \ Inputs
        OBVIOUS
      <4> DEFINE r == R[i]
      <4>1. r \in Range(Routes)
        BY <2>3
      <4> HIDE DEF r
      <4>2. /\ r \in Seq(Modules) /\ DOMAIN r = 1..Len(r)
            /\ \A x \in 1..Len(r) : r[x] \in Modules
            /\ \E x \in 1..Len(r) : r[x] \in Outputs
        BY <4>1, RouteFacts
      <4>3. \E x \in 1..Len(r) : r[x] \in Modules \ Inputs
        BY <4>2, KindFacts
      <4>4. Range(r) \subseteq Modules
        BY <4>2 DEF Range
      <4>5. Range(r) \cap (Modules \ Inputs) = Range(r) \ Inputs
        BY <4>4
      <4>6. Modules \cap (Modules \ Inputs) = Modules \ Inputs
        OBVIOUS
      <4>7. /\ Only(r, Modules \ Inputs) \in Seq(Modules \cap (Modules \ Inputs))
            /\ Range(Only(r, Modules \ Inputs)) = Range(r) \cap (Modules \ Inputs)
            /\ Only(r, Modules \ Inputs) # <<>>
        BY <4>2, <4>3, OnlyFacts
      <4> QED BY <4>5, <4>6, <4>7 DEF r
    <3>2. gc = [i \in 1..N |-> gc[i]]
      OBVIOUS
    <3> HIDE DEF gc
    <3>3. /\ FlattenSeq(gc) \in Seq(Modules \ Inputs) /\ FlattenSeq(gc) # <<>>
          /\ \A n : n \in Range(FlattenSeq(gc)) <=> \E i \in 1..N : n \in Range(gc[i])
      BY <2>1, <3>1, <3>2, Collected
    <3>4. \A n : (\E i \in 1..N : n \in Range(gc[i])) <=> \E i \in 1..N : n \in Range(R[i]) \ Inputs
      BY <3>1, Zenon
    <3> QED BY <3>3, <3>4, Zenon
  <2>8. \A n : n \in Range(Targets[m]) <=>
               \E r \in Range(Routes) : m \in Range(r) /\ n \in Range(NextInRoute(m, r))
    BY <2>2, <2>4, <2>5
  <2>9. \A n : n \in Range(Senders[m]) <=>
               \E r \in Range(Routes) : m \in Range(r) /\ n \in Range(SendersInRoute(m, r))
    BY <2>2, <2>4, <2>6
  <2>10. m \in Inputs => \A n : n \in Range(Checked[m]) <=>
                   \E r \in Range(Routes) : m \in Range(r) /\ n \in Range(r) \ Inputs
    BY <2>2, <2>4, <2>7
  <2> QED BY <2>2, <2>5, <2>6, <2>7, <2>8, <2>9, <2>10
<1>2. Targets = [m \in Modules |-> Targets[m]]
  BY DEF Targets
<1>3. Senders = [m \in Modules |-> Senders[m]]
  BY DEF Senders
<1>4. Checked = [m \in Modules |-> Checked[m]]
  BY DEF Checked
<1>5. ASSUME NEW m \in Modules \ Outputs, NEW n \in Range(Targets[m])
      PROVE  m \in Range(Senders[n])
  <2>1. PICK r \in Range(Routes) : m \in Range(r) /\ n \in Range(NextInRoute(m, r))
    BY <1>1
  <2>2. m \in Range(SendersInRoute(n, r))
    BY <2>1, SenderOfNext
  <2>3. n \in Range(r) /\ n \in Modules
    <3>1. n \in Range(r)
      BY <2>1, NextFacts
    <3> QED BY <3>1, RouteFacts DEF Range
  <2> QED BY <1>1, <2>1, <2>2, <2>3
<1> QED BY <1>1, <1>2, <1>3, <1>4, <1>5

-----------------------------------------------------------------------------
(* The modules before and behind one.                                      *)
LEMMA WiringFacts ==
  /\ \A m \in Modules \ Outputs :
        /\ Len(Targets[m]) \in Nat \ {0} /\ Len(Checked[m]) \in Nat \ {0}
        /\ \A x \in 1..Len(Targets[m]) : Targets[m][x] \in Modules \ Inputs
        /\ \A x \in 1..Len(Checked[m]) : Checked[m][x] \in Modules \ Inputs
  /\ \A m \in Modules \ Inputs :
        /\ Len(Senders[m]) \in Nat \ {0}
        /\ \A x \in 1..Len(Senders[m]) : Senders[m][x] \in Modules \ Outputs
<1>1. ASSUME NEW m \in Modules \ Outputs
      PROVE  /\ Targets[m] \in Seq(Modules \ Inputs) /\ Targets[m] # <<>>
             /\ Checked[m] \in Seq(Modules \ Inputs) /\ Checked[m] # <<>>
  BY <1>1, Wiring
<1>2. ASSUME NEW m \in Modules \ Inputs
      PROVE  Senders[m] \in Seq(Modules \ Outputs) /\ Senders[m] # <<>>
  BY <1>2, Wiring
<1>3. \A S : \A s \in Seq(S) : s # <<>> => Len(s) \in Nat \ {0} /\ \A x \in 1..Len(s) : s[x] \in S
  OBVIOUS
<1> QED BY <1>1, <1>2, <1>3

(* What is known when a handler of module m makes a step.                  *)
LEMMA HandlerFacts ==
  ASSUME TypeInv, NEW m \in Modules
  PROVE  /\ TypeOK /\ pc[m] \in Labels /\ loc[m] \in Locals /\ Handler(m, pc[m], loc[m])
         /\ events \in [Modules -> Seq(Evs)]
BY DEF TypeInv, HandlerInv, TypeOK, Evs

-----------------------------------------------------------------------------
(* Where the pieces of handlers that several actions share lead.           *)
Moves(m, p, l) ==
  /\ p \in Labels /\ l \in Locals /\ Handler(m, p, l)
  /\ pc' = [pc EXCEPT ![m] = p]
  /\ loc' = [loc EXCEPT ![m] = l]

(* A handler that leaves its local variables alone.                        *)
LEMMA StaysMoves ==
  ASSUME TypeInv, NEW m \in Modules, NEW p \in Labels, Handler(m, p, loc[m]),
         Goto(m, p), UNCHANGED loc
  PROVE  Moves(m, p, loc[m])
<1>1. loc \in [Modules -> Locals] /\ loc[m] \in Locals
  BY DEF TypeInv, TypeOK
<1> HIDE DEF Locals
<1>2. loc' = [loc EXCEPT ![m] = loc[m]]
  BY <1>1
<1> QED BY <1>1, <1>2 DEF Moves, Goto

(* The local variables at the beginning.                                   *)
LEMMA ClearFacts ==
  /\ Clear \in Locals /\ Clear.rec = None /\ Clear.done = 0
  /\ \A m : Handler(m, "idle", Clear)
BY BoundsAssumption DEF Clear, Locals, Handler, InputLabels, ReceiveLabels, PeekedLabels,
   SenderLabels, Sending

(* The end of a handler.                                                   *)
LEMMA FinishMoves ==
  ASSUME NEW m \in Modules, Finish(m)
  PROVE  Moves(m, "idle", Clear)
BY ClearFacts DEF Finish, Goto, Moves, Labels

(* On to the next sender, or behind resume_senders().                      *)
LEMMA NextSenderMoves ==
  ASSUME TypeInv, NEW m \in Modules, pc[m] \in SenderLabels, NextSender(m)
  PROVE  \E p \in {"check_sender", "exec", "idle"}, l \in Locals :
            Moves(m, p, l) /\ l.rec = loc[m].rec
<1>1. /\ loc[m] \in Locals /\ m \notin Inputs /\ loc[m].s \in 1..Len(Senders[m])
      /\ Len(Senders[m]) \in Nat
  BY HandlerFacts, WiringFacts DEF Handler, ReceiveLabels, PeekedLabels
<1>2. CASE loc[m].s < Len(Senders[m])
  <2> DEFINE l == [loc[m] EXCEPT !.s = loc[m].s + 1, !.k = 1]
             n == Senders[m][loc[m].s + 1]
  <2>1. loc[m].s + 1 \in 1..Len(Senders[m])
    BY <1>1, <1>2
  <2>2. n \in Modules \ Outputs
    BY <1>1, <2>1, WiringFacts
  <2>3. 1 \in 1..Len(Checked[n])
    BY <2>2, WiringFacts
  <2>4. /\ l \in Locals /\ l.s = loc[m].s + 1 /\ l.k = 1 /\ l.rec = loc[m].rec
        /\ loc' = [loc EXCEPT ![m] = l] /\ pc' = [pc EXCEPT ![m] = "check_sender"]
    <3>1. l \in Locals /\ l.s = loc[m].s + 1 /\ l.k = 1 /\ l.rec = loc[m].rec
      <4>1. loc[m].s + 1 \in Nat
        BY <1>1
      <4> QED BY <1>1, <4>1 DEF Locals
    <3>2. loc' = [loc EXCEPT ![m] = l] /\ pc' = [pc EXCEPT ![m] = "check_sender"]
      BY <1>2 DEF NextSender, Goto
    <3> QED BY <3>1, <3>2
  <2> HIDE DEF l
  <2>5. Handler(m, "check_sender", l)
    BY <1>1, <2>1, <2>3, <2>4 DEF Handler, InputLabels, ReceiveLabels, PeekedLabels, SenderLabels,
       Sending
  <2> QED BY <2>4, <2>5 DEF Moves, Labels
<1>3. CASE ~(loc[m].s < Len(Senders[m])) /\ loc[m].rec = None
  BY <1>3, FinishMoves, ClearFacts DEF NextSender
<1>4. CASE ~(loc[m].s < Len(Senders[m])) /\ loc[m].rec # None
  <2>1. Handler(m, "exec", loc[m])
    BY <1>1, <1>4 DEF Handler, InputLabels, ReceiveLabels, PeekedLabels, SenderLabels, Sending
  <2> QED BY <1>1, <1>4, <2>1, StaysMoves DEF NextSender, Labels
<1> QED BY <1>2, <1>3, <1>4

(* On to the next target, or behind the last one.                          *)
LEMMA NextTargetMoves ==
  ASSUME TypeInv, NEW m \in Modules, pc[m] \in Sending, NextTarget(m, loc[m])
  PROVE  \E p \in {"push", "size", "sent"}, l \in Locals : Moves(m, p, l)
<1>1. /\ loc[m] \in Locals /\ loc[m].t \in 1..Len(Targets[m]) /\ m \notin Outputs
      /\ loc[m].rec # None /\ (m \in Inputs => loc[m].done < Batch)
      /\ Len(Targets[m]) \in Nat
  BY HandlerFacts, WiringFacts DEF Handler
<1>2. CASE loc[m].t < Len(Targets[m])
  <2> DEFINE l == [loc[m] EXCEPT !.t = loc[m].t + 1]
  <2>1. /\ l \in Locals /\ l.t = loc[m].t + 1 /\ l.rec = loc[m].rec /\ l.done = loc[m].done
        /\ loc' = [loc EXCEPT ![m] = l] /\ pc' = [pc EXCEPT ![m] = FirstTarget(m)]
    BY <1>1, <1>2 DEF NextTarget, Goto, Locals
  <2> HIDE DEF l
  <2>2. FirstTarget(m) \in {"push", "size"}
    BY DEF FirstTarget
  <2>3. \A p \in {"push", "size"} : Handler(m, p, l)
    BY <1>1, <1>2, <2>1 DEF Handler, InputLabels, ReceiveLabels, PeekedLabels, SenderLabels, Sending
  <2> QED BY <2>1, <2>2, <2>3 DEF Moves, Labels
<1>3. CASE ~(loc[m].t < Len(Targets[m]))
  <2>1. Handler(m, "sent", loc[m])
    BY <1>1 DEF Handler, InputLabels, ReceiveLabels, PeekedLabels, SenderLabels, Sending
  <2> QED BY <1>1, <1>3, <2>1 DEF NextTarget, Goto, Moves, Labels
<1> QED BY <1>2, <1>3

(* The end of a round of im_testgen_read().                                *)
LEMMA NextRoundMoves ==
  ASSUME TypeInv, NEW m \in Inputs, loc[m].done < Batch, NextRound(m)
  PROVE  \E p \in {"generate", "repost"}, l \in Locals : Moves(m, p, l)
<1> DEFINE l == [Clear EXCEPT !.done = loc[m].done + 1]
<1>1. m \in Modules /\ loc[m] \in Locals /\ loc[m].done \in 0..Batch
  BY HandlerFacts, KindFacts DEF Locals
<1>2. l \in Locals /\ l.done = loc[m].done + 1 /\ loc' = [loc EXCEPT ![m] = l]
  <2>1. loc' = [loc EXCEPT ![m] = l]
    BY DEF NextRound
  <2>2. loc[m].done + 1 \in 0..Batch
    BY <1>1, BoundsAssumption
  <2> QED BY <2>1, <2>2, ClearFacts DEF Locals
<1> HIDE DEF l
<1>3. CASE loc[m].done + 1 < Batch
  <2>1. Handler(m, "generate", l)
    BY <1>2, <1>3 DEF Handler, InputLabels, ReceiveLabels, PeekedLabels, SenderLabels, Sending
  <2> QED BY <1>2, <1>3, <2>1 DEF NextRound, Goto, Moves, Labels
<1>4. CASE ~(loc[m].done + 1 < Batch)
  <2>1. Handler(m, "repost", l)
    BY <1>2 DEF Handler, InputLabels, ReceiveLabels, PeekedLabels, SenderLabels, Sending
  <2> QED BY <1>2, <1>4, <2>1 DEF NextRound, Goto, Moves, Labels
<1> QED BY <1>3, <1>4

-----------------------------------------------------------------------------
(* Every step of module m's handler, and where it leads.  Outs are the     *)
(* labels a step may lead to.                                              *)
Leads(m, Outs) == \E p \in Outs, l \in Locals : Moves(m, p, l)

(* nxlog_worker_thread() takes the first event of the list: the handler    *)
(* begins where the type of the event says.                                *)
LEMMA TakeMoves ==
  ASSUME TypeInv, NEW m \in Modules, Take(m)
  PROVE  Moves(m, Entry(m, Head(events[m]).type), loc[m])
<1> DEFINE type == Head(events[m]).type
           p == Entry(m, type)
<1>1. /\ loc[m] \in Locals /\ Handler(m, "idle", loc[m]) /\ type # Foreign(m)
      /\ Goto(m, p) /\ UNCHANGED loc
  <2>1. events[m] \in Seq(Evs) /\ events[m] # <<>> /\ Suits(m, events[m])
    BY HandlerFacts DEF Take, TypeInv, EventsInv
  <2> QED BY <2>1, TailFacts, HandlerFacts DEF Take
<1>2. /\ p \in {"start_cb", "start", "pause_cb", "pause", "resume_cb", "resume", "peek", "generate", "idle"}
      /\ p \in {"start_cb", "pause_cb", "resume_cb"} => m \in Inputs
      /\ p = "peek" => type = "DATA_AVAILABLE"
      /\ p = "generate" => type = "READ"
  BY DEF Entry
<1> HIDE DEF p, type
<1>3. Handler(m, p, loc[m])
  <2>1. m \in Inputs => loc[m].done = 0 /\ 0 < Batch
    BY <1>1, BoundsAssumption DEF Handler, Sending
  <2>2. (p = "peek" => m \notin Inputs) /\ (p = "generate" => m \in Inputs)
    BY <1>1, <1>2 DEF Foreign
  <2> QED BY <1>1, <1>2, <2>1, <2>2 DEF Handler, InputLabels, ReceiveLabels, PeekedLabels,
             SenderLabels, Sending
<1>4. p \in Labels
  BY <1>2 DEF Labels
<1> QED BY <1>1, <1>3, <1>4, StaysMoves DEF p, type

(* Starting, pausing and resuming.                                         *)
LEMMA ControlMoves ==
  ASSUME TypeInv, NEW m \in Modules, ControlStep(m)
  PROVE  /\ UNCHANGED loc
         /\ \E p \in {"start", "start_queued", "idle", "pause", "resume", "resume_queued"} :
               Moves(m, p, loc[m])
<1>1. UNCHANGED loc
  BY DEF ControlStep, StartCallback, StartSelf, StartQueued, PauseCallback, PauseSelf,
     ResumeCallback, ResumeSelf, ResumeQueued, StatusVars
<1>2. pc[m] \in {"start_cb", "start", "start_queued", "pause_cb", "pause", "resume_cb", "resume",
                 "resume_queued"}
  BY DEF ControlStep, StartCallback, StartSelf, StartQueued, PauseCallback, PauseSelf,
     ResumeCallback, ResumeSelf, ResumeQueued
<1>3. \E p \in {"start", "start_queued", "idle", "pause", "resume", "resume_queued"} :
         Goto(m, p) /\ (p = "resume_queued" => m \notin Inputs)
  BY DEF ControlStep, StartCallback, StartSelf, StartQueued, PauseCallback, PauseSelf,
     ResumeCallback, ResumeSelf, ResumeQueued
<1>4. PICK p \in {"start", "start_queued", "idle", "pause", "resume", "resume_queued"} :
         Goto(m, p) /\ (p = "resume_queued" => m \notin Inputs)
  BY <1>3
<1>5. Handler(m, p, loc[m])
  <2>1. m \in Inputs => loc[m].done = 0
    BY <1>2, HandlerFacts DEF Handler, Sending
  <2> QED BY <1>4, <2>1 DEF Handler, InputLabels, ReceiveLabels, PeekedLabels, SenderLabels, Sending
<1>6. p \in Labels
  BY DEF Labels
<1> QED BY <1>1, <1>4, <1>5, <1>6, StaysMoves

(* Receiving: from the peek to the call of the Exec block.                 *)
LEMMA ReceiveMoves ==
  ASSUME TypeInv, NEW m \in Modules, ReceiveStep(m)
  PROVE  m \notin Inputs /\ Leads(m, Labels \ {"can_send", "notify"})
<1>1. loc[m] \in Locals /\ pc[m] \in ReceiveLabels /\ m \notin Inputs /\ Handler(m, pc[m], loc[m])
  <2>1. pc[m] \in ReceiveLabels
    BY DEF ReceiveStep, Peek, SelfNotify, CheckSender, ResumeSender, SenderStatus, NotifySender,
       Exec, ExecDrop, Pop, ReceiveLabels, PeekedLabels, SenderLabels
  <2> QED BY <2>1, HandlerFacts DEF Handler
<1> DEFINE Outs == Labels \ {"can_send", "notify"}
<1> SUFFICES Leads(m, Outs)
  BY <1>1
<1>2. CASE Peek(m)
  <2> DEFINE r == IF queue[m] = <<>> THEN None ELSE Head(queue[m])
             l == [loc[m] EXCEPT !.rec = r]
  <2>1. r \in Records \cup {None}
    <3>1. queue[m] \in Seq(Records)
      BY HandlerFacts DEF TypeOK
    <3> QED BY <3>1
  <2>2. l \in Locals
    BY <1>1, <2>1 DEF Locals
  <2>3. loc' = [loc EXCEPT ![m] = l] /\ pc' = [pc EXCEPT ![m] = "self_notify"]
    BY <1>2 DEF Peek, Goto
  <2>4. Handler(m, "self_notify", l)
    BY <1>1 DEF Handler, InputLabels, ReceiveLabels, PeekedLabels, SenderLabels, Sending
  <2> QED BY <1>2, <2>2, <2>3, <2>4 DEF Moves, Leads, Labels
<1>3. CASE SelfNotify(m)
  <2> DEFINE l == [loc[m] EXCEPT !.s = 1, !.k = 1]
  <2>1. l \in Locals /\ l.s = 1 /\ l.k = 1
    BY <1>1 DEF Locals
  <2>2. loc' = [loc EXCEPT ![m] = l] /\ pc' = [pc EXCEPT ![m] = "check_sender"]
    BY <1>3 DEF SelfNotify, Goto
  <2> HIDE DEF l
  <2>3. 1 \in 1..Len(Senders[m]) /\ 1 \in 1..Len(Checked[Senders[m][1]])
    BY <1>1, WiringFacts
  <2>4. Handler(m, "check_sender", l)
    BY <1>1, <2>1, <2>3 DEF Handler, InputLabels, ReceiveLabels, PeekedLabels, SenderLabels, Sending
  <2> QED BY <2>1, <2>2, <2>4 DEF Moves, Leads, Labels
<1>4. ASSUME pc[m] \in SenderLabels, NextSender(m) PROVE Leads(m, Outs)
  <2>1. {"check_sender", "exec", "idle"} \subseteq Outs
    BY DEF Labels
  <2> QED BY <1>4, <2>1, NextSenderMoves DEF Leads
<1>5. CASE CheckSender(m)
  <2>1. CASE NextSender(m)
    BY <1>4, <1>5, <2>1 DEF CheckSender, SenderLabels
  <2>2. CASE loc' = [loc EXCEPT ![m].k = @ + 1] /\ UNCHANGED pc /\ loc[m].k < Len(Checked[Sender(m)])
    <3> DEFINE l == [loc[m] EXCEPT !.k = loc[m].k + 1]
    <3>1. pc[m] = "check_sender" /\ Sender(m) = Senders[m][loc[m].s]
      BY <1>5 DEF CheckSender, Sender
    <3>2. /\ loc[m].s \in 1..Len(Senders[m])
          /\ loc[m].k \in 1..Len(Checked[Senders[m][loc[m].s]])
          /\ Len(Checked[Senders[m][loc[m].s]]) \in Nat
      BY <1>1, <3>1, WiringFacts DEF Handler, SenderLabels
    <3>3. l \in Locals /\ l.k = loc[m].k + 1 /\ l.s = loc[m].s
      BY <1>1 DEF Locals
    <3>4. loc' = [loc EXCEPT ![m] = l] /\ pc' = [pc EXCEPT ![m] = "check_sender"]
      <4>1. pc \in [Modules -> Labels]
        BY HandlerFacts DEF TypeOK
      <4> QED BY <2>2, <3>1, <4>1
    <3> HIDE DEF l
    <3>5. Handler(m, "check_sender", l)
      BY <1>1, <2>2, <3>1, <3>2, <3>3 DEF Handler, InputLabels, ReceiveLabels, PeekedLabels,
         SenderLabels, Sending
    <3> QED BY <3>3, <3>4, <3>5 DEF Moves, Leads, Labels
  <2>3. CASE Goto(m, "resume_sender") /\ UNCHANGED loc
    <3>1. Handler(m, "resume_sender", loc[m])
      BY <1>1, <1>5 DEF CheckSender, Handler, InputLabels, ReceiveLabels, PeekedLabels,
         SenderLabels, Sending
    <3>2. "resume_sender" \in Labels
      BY DEF Labels
    <3> QED BY <1>1, <2>3, <3>1, <3>2, StaysMoves DEF Leads
  <2> QED BY <1>5, <2>1, <2>2, <2>3 DEF CheckSender
<1>6. CASE ResumeSender(m)
  <2>1. CASE NextSender(m)
    BY <1>4, <1>6, <2>1 DEF ResumeSender, SenderLabels
  <2>2. CASE Sender(m) \in Processors /\ Goto(m, "sender_status") /\ UNCHANGED loc
    <3>1. Senders[m][loc[m].s] \notin Inputs
      BY <2>2, KindFacts DEF Sender
    <3>2. Handler(m, "sender_status", loc[m])
      BY <1>1, <1>6, <3>1 DEF ResumeSender, Handler, InputLabels, ReceiveLabels, PeekedLabels,
         SenderLabels, Sending
    <3>3. "sender_status" \in Labels
      BY DEF Labels
    <3> QED BY <1>1, <2>2, <3>2, <3>3, StaysMoves DEF Leads
  <2> QED BY <1>6, <2>1, <2>2 DEF ResumeSender
<1>7. CASE SenderStatus(m)
  <2>1. CASE NextSender(m)
    BY <1>4, <1>7, <2>1 DEF SenderStatus, SenderLabels
  <2>2. CASE Goto(m, "notify_sender") /\ UNCHANGED loc
    <3>1. Handler(m, "notify_sender", loc[m])
      BY <1>1, <1>7 DEF SenderStatus, Handler, InputLabels, ReceiveLabels, PeekedLabels,
         SenderLabels, Sending
    <3>2. "notify_sender" \in Labels
      BY DEF Labels
    <3> QED BY <1>1, <2>2, <3>1, <3>2, StaysMoves DEF Leads
  <2> QED BY <1>7, <2>1, <2>2 DEF SenderStatus
<1>8. CASE NotifySender(m)
  BY <1>4, <1>8 DEF NotifySender, SenderLabels
<1>9. CASE Exec(m)
  <2>1. Handler(m, "pop", loc[m])
    BY <1>1, <1>9 DEF Exec, Handler, InputLabels, ReceiveLabels, PeekedLabels, SenderLabels, Sending
  <2>2. "pop" \in Labels
    BY DEF Labels
  <2> QED BY <1>1, <1>9, <2>1, <2>2, StaysMoves DEF Exec, Leads
<1>10. CASE Finish(m)
  <2>1. "idle" \in Labels
    BY DEF Labels
  <2> QED BY <1>10, <2>1, FinishMoves, ClearFacts DEF Leads
<1>11. CASE Pop(m) /\ m \notin Outputs
  <2> DEFINE l == [loc[m] EXCEPT !.t = 1]
  <2>1. l \in Locals /\ l.t = 1 /\ l.rec = loc[m].rec
    BY <1>1 DEF Locals
  <2>2. loc' = [loc EXCEPT ![m] = l] /\ pc' = [pc EXCEPT ![m] = FirstTarget(m)]
    BY <1>11 DEF Pop, Goto
  <2>3. l.rec # None
    BY <1>1, <1>11, <2>1 DEF Pop, Handler
  <2> HIDE DEF l
  <2>4. 1 \in 1..Len(Targets[m])
    BY <1>11, WiringFacts
  <2>5. \A p \in {"push", "size"} : Handler(m, p, l) /\ p \in Labels
    BY <1>1, <1>11, <2>1, <2>3, <2>4 DEF Handler, InputLabels, ReceiveLabels, PeekedLabels,
       SenderLabels, Sending, Labels
  <2>6. FirstTarget(m) \in {"push", "size"}
    BY DEF FirstTarget
  <2> QED BY <2>1, <2>2, <2>5, <2>6 DEF Moves, Leads
<1> QED BY <1>2, <1>3, <1>5, <1>6, <1>7, <1>8, <1>9, <1>10, <1>11 DEF ReceiveStep, ExecDrop, Pop

(* Sending: from the record at hand to the last of its targets.            *)
LEMMA SendMoves ==
  ASSUME TypeInv, NEW m \in Modules, SendStep(m)
  PROVE  m \notin Outputs /\ Leads(m, Labels \ ReceiveLabels)
<1>1. /\ loc[m] \in Locals /\ pc[m] \in Sending \cup {"generate", "repost"}
      /\ Handler(m, pc[m], loc[m])
  <2>1. pc[m] \in Sending \cup {"generate", "repost"}
    BY DEF SendStep, Generate, GenerateDrop, MaxCountReached, Repost, Push, PausePosted, CanSend,
       Notify, LookAtSize, PushSized, Sent, Sending
  <2> QED BY <2>1, HandlerFacts
<1>2. m \notin Outputs /\ (pc[m] \in {"generate", "repost"} => m \in Inputs)
  BY <1>1, KindFacts DEF Handler, InputLabels
<1> DEFINE Outs == Labels \ ReceiveLabels
<1> SUFFICES Leads(m, Outs)
  BY <1>2
<1>3. {"idle", "generate", "repost"} \cup Sending \subseteq Outs
  BY DEF Labels, ReceiveLabels, PeekedLabels, SenderLabels, Sending
<1> HIDE DEF Outs
<1>4. CASE Finish(m)
  BY <1>3, <1>4, FinishMoves, ClearFacts DEF Leads
<1>5. CASE Generate(m)
  <2> DEFINE l == [loc[m] EXCEPT !.rec = <<m, counter[m]>>, !.t = 1]
  <2>1. <<m, counter[m]>> \in Records
    <3>1. counter[m] \in 0..MaxCount /\ counter[m] < MaxCount /\ m \in Inputs
      BY <1>2, <1>5, HandlerFacts DEF Generate, TypeOK
    <3> QED BY <3>1, BoundsAssumption DEF Records
  <2>2. /\ l \in Locals /\ l.t = 1 /\ l.rec = <<m, counter[m]>> /\ l.done = loc[m].done
    BY <1>1, <2>1 DEF Locals
  <2>3. loc' = [loc EXCEPT ![m] = l] /\ pc' = [pc EXCEPT ![m] = FirstTarget(m)]
    BY <1>5 DEF Generate, Goto
  <2> HIDE DEF l
  <2>4. 1 \in 1..Len(Targets[m]) /\ l.rec # None /\ loc[m].done < Batch
    BY <1>1, <1>2, <1>5, <2>1, <2>2, WiringFacts, KindFacts DEF Generate, Handler, Sending
  <2>5. FirstTarget(m) \in {"push", "size"}
    BY DEF FirstTarget
  <2>6. \A p \in {"push", "size"} : Handler(m, p, l) /\ p \in Labels /\ p \in Outs
    BY <1>2, <1>3, <2>2, <2>4 DEF Handler, InputLabels, ReceiveLabels, PeekedLabels,
       SenderLabels, Sending, Labels
  <2> QED BY <2>2, <2>3, <2>5, <2>6 DEF Moves, Leads
<1>6. CASE GenerateDrop(m)
  <2>1. m \in Inputs /\ loc[m].done < Batch /\ NextRound(m)
    BY <1>1, <1>2, <1>6 DEF GenerateDrop, Handler, Sending
  <2> QED BY <1>3, <2>1, NextRoundMoves DEF Leads
<1>7. ASSUME pc[m] \in Sending, NextTarget(m, loc[m]) PROVE Leads(m, Outs)
  <2>1. {"push", "size", "sent"} \subseteq Outs
    BY <1>3 DEF Sending
  <2> QED BY <1>7, <2>1, NextTargetMoves DEF Leads
<1>8. ASSUME NEW p \in Sending, pc[m] \in Sending, Goto(m, p), UNCHANGED loc
      PROVE  Leads(m, Outs)
  <2>1. Handler(m, p, loc[m])
    BY <1>1, <1>2, <1>8 DEF Handler, InputLabels, ReceiveLabels, PeekedLabels, SenderLabels, Sending
  <2>2. p \in Labels /\ p \in Outs
    BY <1>3 DEF Labels, Sending
  <2> QED BY <1>1, <1>8, <2>1, <2>2, StaysMoves DEF Leads
<1>9. ASSUME NEW p \in Sending, pc[m] \in Sending, Goto(m, p), loc' = [loc EXCEPT ![m].sent = TRUE]
      PROVE  Leads(m, Outs)
  <2> DEFINE l == [loc[m] EXCEPT !.sent = TRUE]
  <2>1. l \in Locals /\ l.t = loc[m].t /\ l.rec = loc[m].rec /\ l.done = loc[m].done
    BY <1>1 DEF Locals
  <2>2. loc' = [loc EXCEPT ![m] = l]
    BY <1>9
  <2> HIDE DEF l
  <2>3. Handler(m, p, l)
    BY <1>1, <1>2, <1>9, <2>1 DEF Handler, InputLabels, ReceiveLabels, PeekedLabels, SenderLabels,
       Sending
  <2>4. p \in Labels /\ p \in Outs
    BY <1>3 DEF Labels, Sending
  <2> QED BY <1>9, <2>1, <2>2, <2>3, <2>4 DEF Moves, Leads, Goto
<1>10. CASE Push(m) \/ PushSized(m)
  BY <1>9, <1>10 DEF Push, PushSized, Sending
<1>11. CASE PausePosted(m) \/ CanSend(m) \/ Notify(m)
  BY <1>7, <1>8, <1>11 DEF PausePosted, CanSend, Notify, Sending
<1>12. CASE LookAtSize(m)
  BY <1>8, <1>12 DEF LookAtSize, Sending
<1>13. CASE Sent(m) /\ m \in Inputs
  <2>1. m \in Inputs /\ loc[m].done < Batch /\ NextRound(m)
    BY <1>1, <1>13 DEF Sent, Handler, Sending
  <2> QED BY <1>3, <2>1, NextRoundMoves DEF Leads
<1> QED BY <1>4, <1>5, <1>6, <1>10, <1>11, <1>12, <1>13 DEF SendStep, MaxCountReached, Repost, Sent

(* So a step of one module keeps all handlers where they may be.           *)
LEMMA HandlersKept ==
  ASSUME TypeInv, NEW m \in Modules, Take(m) \/ HandlerStep(m)
  PROVE  /\ pc' \in [Modules -> Labels] /\ loc' \in [Modules -> Locals] /\ HandlerInv'
         /\ \A n \in Modules \ {m} : pc'[n] = pc[n] /\ loc'[n] = loc[n]
<1>1. PICK p \in Labels, l \in Locals : Moves(m, p, l)
  <2>1. CASE Take(m)
    BY <2>1, TakeMoves, HandlerFacts DEF Moves
  <2>2. CASE ControlStep(m)
    BY <2>2, ControlMoves, HandlerFacts DEF Moves
  <2>3. CASE ReceiveStep(m)
    BY <2>3, ReceiveMoves DEF Leads
  <2>4. CASE SendStep(m)
    BY <2>4, SendMoves DEF Leads
  <2> QED BY <2>1, <2>2, <2>3, <2>4 DEF HandlerStep
<1>2. pc \in [Modules -> Labels] /\ loc \in [Modules -> Locals] /\ HandlerInv
  BY DEF TypeInv, TypeOK
<1> HIDE DEF Labels, Locals
<1>3. /\ pc' = [pc EXCEPT ![m] = p] /\ loc' = [loc EXCEPT ![m] = l] /\ Handler(m, p, l)
  BY <1>1 DEF Moves
<1>4. \A n \in Modules : Handler(n, pc'[n], loc'[n])
  BY <1>2, <1>3 DEF HandlerInv
<1> QED BY <1>2, <1>3, <1>4 DEF HandlerInv

-----------------------------------------------------------------------------
(* The events that are posted: each step posts at most one, and never one  *)
(* that its receiver does not handle.                                      *)
PostsTo(n, t) == n \in Modules /\ t \in EventTypes /\ Post(n, t) /\ t # Foreign(n)

(* Which event module m posts, to whom, and where.                         *)
PostsAs(m, n, t) ==
  \/ t = "DATA_AVAILABLE" /\ n = m /\ (StartQueued(m) \/ ResumeQueued(m) \/ SelfNotify(m))
  \/ t = "DATA_AVAILABLE" /\ n = Target(m) /\ Notify(m)
  \/ t = "DATA_AVAILABLE" /\ n = Sender(m) /\ NotifySender(m)
  \/ t = "RESUME" /\ n = Sender(m) /\ ResumeSender(m)
  \/ t = "PAUSE" /\ n = m /\ PausePosted(m)

(* Unlinks and replaces the READ event.                                    *)
Unlinks(m) == PauseCallback(m) \/ ResumeCallback(m)

(* No step of a handler but the pause and resume callbacks posts more than *)
(* one event, to a module that handles it; a READ is only posted by an     *)
(* input to itself, when it sets its pointer to it.                        *)
LEMMA StepPosts ==
  ASSUME TypeInv, NEW m \in Modules, HandlerStep(m), ~Unlinks(m)
  PROVE  \/ UNCHANGED <<events, readev>>
         \/ \E n, t : PostsTo(n, t) /\ t # "READ" /\ UNCHANGED readev /\ PostsAs(m, n, t)
         \/ /\ m \in Inputs /\ PostsTo(m, "READ") /\ readev' = [readev EXCEPT ![m] = TRUE]
            /\ StartCallback(m) \/ (Repost(m) /\ status[m] = "RUNNING")
<1>1. pc[m] \in Labels /\ loc[m] \in Locals /\ Handler(m, pc[m], loc[m]) /\ QueueInv
  BY HandlerFacts DEF TypeInv
<1>2. {"READ", "DATA_AVAILABLE", "PAUSE", "RESUME"} \subseteq EventTypes
  BY EvFacts
<1>3. \A n : /\ "PAUSE" # Foreign(n) /\ "RESUME" # Foreign(n)
             /\ n \in Inputs => "READ" # Foreign(n)
             /\ n \notin Inputs => "DATA_AVAILABLE" # Foreign(n)
  BY DEF Foreign
<1>4. CASE StartCallback(m) \/ Repost(m)
  <2>1. m \in Inputs
    BY <1>1, <1>4 DEF StartCallback, Repost, Handler, InputLabels
  <2> QED BY <1>2, <1>3, <1>4, <2>1 DEF StartCallback, Repost, PostsTo
<1>5. CASE StartQueued(m)
  BY <1>1, <1>2, <1>3, <1>5 DEF StartQueued, PostsTo, PostsAs, QueueInv
<1>6. CASE ResumeQueued(m) \/ SelfNotify(m)
  <2>1. m \notin Inputs
    BY <1>1, <1>6 DEF ResumeQueued, SelfNotify, Handler, ReceiveLabels, PeekedLabels
  <2>2. UNCHANGED readev
    BY <1>6 DEF ResumeQueued, SelfNotify, DataVars
  <2> QED BY <1>2, <1>3, <1>6, <2>1, <2>2 DEF ResumeQueued, SelfNotify, PostsTo, PostsAs
<1>7. CASE ResumeSender(m) \/ NotifySender(m)
  <2>1. /\ pc[m] \in {"resume_sender", "notify_sender"} /\ UNCHANGED readev
        /\ \/ Post(Sender(m), "RESUME") /\ ResumeSender(m)
           \/ /\ Post(Sender(m), "DATA_AVAILABLE") /\ NotifySender(m)
              /\ pc[m] = "notify_sender"
    BY <1>7 DEF ResumeSender, NotifySender, DataVars
  <2>2. /\ m \notin Inputs /\ loc[m].s \in 1..Len(Senders[m])
        /\ pc[m] = "notify_sender" => Sender(m) \notin Inputs
    BY <1>1, <2>1 DEF Handler, SenderLabels, Sender, ReceiveLabels, PeekedLabels
  <2>3. Sender(m) \in Modules
    BY <2>2, WiringFacts DEF Sender
  <2> QED BY <1>2, <1>3, <2>1, <2>2, <2>3 DEF PostsTo, PostsAs
<1>8. CASE PausePosted(m)
  BY <1>2, <1>3, <1>8 DEF PausePosted, SendVars, PostsTo, PostsAs
<1>9. CASE Notify(m)
  <2>1. m \notin Outputs /\ loc[m].t \in 1..Len(Targets[m])
    BY <1>1, <1>9 DEF Notify, Handler, Sending
  <2>2. Target(m) \in Modules \ Inputs
    BY <2>1, WiringFacts DEF Target
  <2> QED BY <1>2, <1>3, <1>9, <2>2 DEF Notify, SendVars, PostsTo, PostsAs
<1>10. CASE StartSelf(m) \/ PauseSelf(m) \/ ResumeSelf(m)
  BY <1>10 DEF StartSelf, PauseSelf, ResumeSelf
<1>11. CASE Peek(m) \/ CheckSender(m) \/ SenderStatus(m) \/ Exec(m) \/ ExecDrop(m) \/ Pop(m)
  BY <1>11 DEF Peek, CheckSender, SenderStatus, Exec, ExecDrop, Pop, DataVars
<1>12. CASE Generate(m) \/ GenerateDrop(m) \/ MaxCountReached(m)
  BY <1>12 DEF Generate, GenerateDrop, MaxCountReached
<1>13. CASE Push(m) \/ CanSend(m) \/ LookAtSize(m) \/ PushSized(m) \/ Sent(m)
  BY <1>13 DEF Push, CanSend, LookAtSize, PushSized, Sent, SendVars
<1> QED BY <1>4, <1>5, <1>6, <1>7, <1>8, <1>9, <1>10, <1>11, <1>12, <1>13
           DEF HandlerStep, ControlStep, ReceiveStep, SendStep, Unlinks

(* The module that a step of nx_ctx_start_modules() posts to.              *)
LEMMA StartPosts ==
  ASSUME TypeInv, StartModule
  PROVE  PostsTo(Head(starting), "START") /\ UNCHANGED readev /\ starting' \in Seq(Modules)
<1>1. starting \in Seq(Modules) /\ starting # <<>>
  BY DEF TypeInv, TypeOK, StartModule
<1>2. Head(starting) \in Modules /\ Tail(starting) \in Seq(Modules)
  BY <1>1
<1>3. "START" \in EventTypes /\ "START" # Foreign(Head(starting))
  BY EvFacts DEF Foreign
<1> QED BY <1>2, <1>3 DEF StartModule, PostsTo

(* Posting keeps the lists what they are.                                  *)
LEMMA PostKeeps ==
  ASSUME TypeInv, NEW n, NEW t, PostsTo(n, t)
  PROVE  events' \in [Modules -> Seq(Evs)] /\ EventsInv'
<1>1. /\ events \in [Modules -> Seq(Evs)] /\ EventsInv /\ n \in Modules /\ t \in EventTypes
      /\ events' = [events EXCEPT ![n] = Enqueue(events[n], Ev(t))] /\ t # Foreign(n)
  BY DEF TypeInv, TypeOK, Evs, PostsTo, Post
<1> DEFINE d == Enqueue(events[n], Ev(t))
<1>2. Posted(events[n], t, d)
  BY <1>1, PostedFacts
<1>3. d \in Seq(Evs)
  BY <1>2 DEF Posted
<1>4. Suits(n, d)
  BY <1>1, EnqueueSuits DEF EventsInv
<1> HIDE DEF d, Evs
<1>5. events' = [events EXCEPT ![n] = d]
  BY <1>1 DEF d
<1>6. \A m \in Modules : Suits(m, events'[m])
  BY <1>1, <1>4, <1>5 DEF EventsInv
<1> QED BY <1>1, <1>3, <1>5, <1>6 DEF EventsInv

(* So does every step.                                                     *)
LEMMA EventsKept ==
  ASSUME TypeInv, Next
  PROVE  events' \in [Modules -> Seq(Evs)] /\ EventsInv'
<1>1. events \in [Modules -> Seq(Evs)] /\ EventsInv
  BY DEF TypeInv, TypeOK, Evs
<1>2. CASE UNCHANGED events
  BY <1>1, <1>2 DEF EventsInv
<1>3. CASE StartModule
  BY <1>3, StartPosts, PostKeeps
<1>4. ASSUME NEW m \in Modules, NEW d \in Seq(Evs), Suits(m, d), events' = [events EXCEPT ![m] = d]
      PROVE  events' \in [Modules -> Seq(Evs)] /\ EventsInv'
  <2> HIDE DEF Evs
  <2>1. \A n \in Modules : Suits(n, events'[n])
    BY <1>1, <1>4 DEF EventsInv
  <2> QED BY <1>1, <1>4, <2>1 DEF EventsInv
<1>5. ASSUME NEW m \in Modules, Take(m)
      PROVE  events' \in [Modules -> Seq(Evs)] /\ EventsInv'
  <2>1. events[m] \in Seq(Evs) /\ events[m] # <<>> /\ Suits(m, events[m])
    BY <1>1, <1>5 DEF Take, EventsInv
  <2>2. Tail(events[m]) \in Seq(Evs) /\ Suits(m, Tail(events[m]))
    BY <2>1, TailFacts
  <2> QED BY <1>4, <1>5, <2>2 DEF Take
<1>6. ASSUME NEW m \in Modules, Unlinks(m)
      PROVE  events' \in [Modules -> Seq(Evs)] /\ EventsInv'
  <2> DEFINE r == RemoveFirst(events[m], Ev("READ"))
             a == IF readev[m] THEN r ELSE events[m]
             d == Enqueue(a, Ev("READ"))
  <2>1. events[m] \in Seq(Evs) /\ Suits(m, events[m])
    BY <1>1 DEF EventsInv
  <2>2. r \in Seq(Evs) /\ Suits(m, r)
    BY <2>1, RemoveFacts
  <2>3. a \in Seq(Evs) /\ Suits(m, a)
    BY <2>1, <2>2
  <2>4. m \in Inputs
    BY <1>6, HandlerFacts DEF Unlinks, PauseCallback, ResumeCallback, Handler, InputLabels
  <2>5. "READ" \in EventTypes /\ "READ" # Foreign(m)
    BY <2>4, EvFacts DEF Foreign
  <2>6. d \in Seq(Evs) /\ Suits(m, d)
    <3> HIDE DEF a
    <3>1. Posted(a, "READ", d)
      BY <2>3, <2>5, PostedFacts
    <3> QED BY <2>3, <2>5, <3>1, EnqueueSuits DEF Posted
  <2>7. CASE PauseCallback(m)
    <3>1. CASE readev[m]
      <4>1. events' = [events EXCEPT ![m] = r]
        BY <2>7, <3>1 DEF PauseCallback
      <4> HIDE DEF r
      <4> QED BY <1>4, <2>2, <4>1
    <3>2. CASE ~readev[m]
      BY <1>2, <2>7, <3>2 DEF PauseCallback
    <3> QED BY <3>1, <3>2
  <2>8. CASE ResumeCallback(m)
    <3>1. events' = [events EXCEPT ![m] = d]
      BY <2>8 DEF ResumeCallback
    <3> HIDE DEF d
    <3> QED BY <1>4, <2>6, <3>1
  <2> QED BY <1>6, <2>7, <2>8 DEF Unlinks
<1>7. ASSUME NEW m \in Modules, HandlerStep(m), ~Unlinks(m)
      PROVE  events' \in [Modules -> Seq(Evs)] /\ EventsInv'
  BY <1>2, <1>7, StepPosts, PostKeeps
<1> QED BY <1>3, <1>5, <1>6, <1>7 DEF Next

-----------------------------------------------------------------------------
(* The rest of the state.                                                  *)
StoreOK ==
  /\ status \in [Modules -> Statuses]
  /\ queue \in [Modules -> Seq(Records)]
  /\ needpop \in [Modules -> BOOLEAN]
  /\ recvd \in [Modules -> Nat] /\ fwd \in [Modules -> Nat]
  /\ counter \in [Inputs -> 0..MaxCount]
  /\ readev \in [Inputs -> BOOLEAN]
  /\ starting \in Seq(Modules)
  /\ delivered \in [Outputs -> Seq(Records)]
  /\ dropped \in [Modules -> SUBSET Records]
  /\ QueueInv
  /\ CounterInv

(* Its parts, for a step that changes few of them.                         *)
LEMMA StoreFacts ==
  TypeInv => StoreOK
BY DEF TypeInv, TypeOK, StoreOK

(* The target of a sender, and the record it sends.                        *)
LEMMA TargetFacts ==
  ASSUME TypeInv, NEW m \in Modules, pc[m] \in Sending
  PROVE  /\ m \notin Outputs /\ Target(m) \in Modules \ Inputs
         /\ loc[m].rec \in Records
         /\ m \in Range(Senders[Target(m)])
<1>1. /\ loc[m] \in Locals /\ m \notin Outputs /\ loc[m].t \in 1..Len(Targets[m])
      /\ loc[m].rec # None
  BY HandlerFacts DEF Handler
<1>2. loc[m].rec \in Records
  BY <1>1 DEF Locals
<1>3. Target(m) \in Modules \ Inputs
  BY <1>1, WiringFacts DEF Target
<1>4. Targets[m] \in Seq(Modules \ Inputs)
  BY <1>1, Wiring
<1>5. Target(m) \in Range(Targets[m])
  BY <1>1, <1>4 DEF Target, Range
<1> QED BY <1>1, <1>2, <1>3, <1>5, Wiring

(* The number of the record an input has made stays below MaxCount until   *)
(* it counts it.                                                           *)
LEMMA CounterKept ==
  ASSUME TypeInv, NEW m \in Modules, Take(m) \/ HandlerStep(m)
  PROVE  counter' \in [Inputs -> 0..MaxCount] /\ CounterInv'
<1>1. counter \in [Inputs -> 0..MaxCount] /\ CounterInv /\ MaxCount \in Nat \ {0}
  BY BoundsAssumption DEF TypeInv, TypeOK
<1>2. \A i \in Inputs \ {m} : pc'[i] = pc[i]
  BY HandlersKept, KindFacts
<1>3. ASSUME UNCHANGED counter, m \in Inputs => pc'[m] \notin Sending \/ counter[m] < MaxCount
      PROVE  counter' \in [Inputs -> 0..MaxCount] /\ CounterInv'
  BY <1>1, <1>2, <1>3 DEF CounterInv
<1>4. pc \in [Modules -> Labels]
  BY DEF TypeInv, TypeOK
<1>5. ASSUME NextRound(m), m \in Inputs, counter[m] < MaxCount
      PROVE  counter' \in [Inputs -> 0..MaxCount] /\ CounterInv'
  <2>1. counter' = [counter EXCEPT ![m] = counter[m] + 1] /\ counter[m] + 1 \in 0..MaxCount
    BY <1>1, <1>5 DEF NextRound
  <2>2. pc'[m] \notin Sending
    BY <1>4, <1>5 DEF NextRound, Goto, Sending
  <2> QED BY <1>1, <1>2, <2>1, <2>2 DEF CounterInv
<1>6. CASE Take(m)
  <2>1. UNCHANGED counter /\ pc'[m] = Entry(m, Head(events[m]).type)
    BY <1>4, <1>6 DEF Take, Goto
  <2>2. pc'[m] \notin Sending
    BY <2>1 DEF Entry, Sending
  <2> QED BY <1>3, <2>1, <2>2
<1>7. CASE ControlStep(m)
  <2>1. UNCHANGED counter
    BY <1>7 DEF ControlStep, StartCallback, StartSelf, StartQueued, PauseCallback, PauseSelf,
       ResumeCallback, ResumeSelf, ResumeQueued, StatusVars
  <2>2. pc'[m] \notin Sending
    BY <1>4, <1>7, ControlMoves DEF Moves, Sending
  <2> QED BY <1>3, <2>1, <2>2
<1>8. CASE ReceiveStep(m)
  <2>1. UNCHANGED counter
    BY <1>8 DEF ReceiveStep, Peek, SelfNotify, CheckSender, ResumeSender, SenderStatus,
       NotifySender, Exec, ExecDrop, Pop, DataVars
  <2> QED BY <1>3, <1>8, <2>1, ReceiveMoves
<1>9. CASE SendStep(m)
  <2>1. m \in Inputs => (pc[m] \in Sending => counter[m] < MaxCount)
    BY <1>1 DEF CounterInv
  <2>2. CASE Generate(m)
    BY <1>3, <2>2 DEF Generate
  <2>3. CASE GenerateDrop(m)
    <3>1. m \in Inputs
      BY <2>3, HandlerFacts DEF GenerateDrop, Handler, InputLabels
    <3> QED BY <1>5, <2>3, <3>1 DEF GenerateDrop
  <2>4. CASE MaxCountReached(m) \/ Repost(m)
    <3>1. UNCHANGED counter /\ pc'[m] = "idle"
      BY <1>4, <2>4 DEF MaxCountReached, Repost, Finish, Goto
    <3> QED BY <1>3, <3>1 DEF Sending
  <2>5. CASE Push(m) \/ PausePosted(m) \/ CanSend(m) \/ Notify(m) \/ LookAtSize(m) \/ PushSized(m)
    <3>1. UNCHANGED counter /\ pc[m] \in Sending
      BY <2>5 DEF Push, PausePosted, CanSend, Notify, LookAtSize, PushSized, Sending
    <3> QED BY <1>3, <2>1, <3>1
  <2>6. CASE Sent(m)
    <3>1. pc[m] \in Sending
      BY <2>6 DEF Sent, Sending
    <3> QED BY <1>3, <1>5, <2>1, <2>6, <3>1 DEF Sent
  <2> QED BY <1>9, <2>2, <2>3, <2>4, <2>5, <2>6 DEF SendStep
<1> QED BY <1>6, <1>7, <1>8, <1>9 DEF HandlerStep

(* What happens to the queues: a record is put at the end of a target's    *)
(* queue, or taken from the head of the module's own.                      *)
QueueStep(m) ==
  \/ UNCHANGED <<queue, needpop>>
  \/ Peek(m) /\ UNCHANGED queue /\ needpop' = [needpop EXCEPT ![m] = needpop[m] \/ queue[m] # <<>>]
  \/ /\ pc[m] \in {"push", "push_sized"} /\ UNCHANGED needpop
     /\ queue' = [queue EXCEPT ![Target(m)] = Append(queue[Target(m)], loc[m].rec)]
  \/ /\ pc[m] \in {"exec", "pop"} /\ m \notin Inputs /\ (ExecDrop(m) \/ Pop(m))
     /\ queue' = [queue EXCEPT ![m] = Tail(queue[m])]
     /\ needpop' = [needpop EXCEPT ![m] = FALSE]

(* Every step of a handler treats the queues in one of these ways.         *)
LEMMA QueueSteps ==
  ASSUME TypeInv, NEW m \in Modules, Take(m) \/ HandlerStep(m)
  PROVE  QueueStep(m)
<1>1. CASE Take(m)
  BY <1>1 DEF Take, QueueStep
<1>2. CASE ControlStep(m)
  BY <1>2 DEF ControlStep, StartCallback, StartSelf, StartQueued, PauseCallback, PauseSelf,
     ResumeCallback, ResumeSelf, ResumeQueued, StatusVars, QueueStep
<1>3. CASE Peek(m)
  BY <1>3 DEF Peek, QueueStep
<1>4. CASE ExecDrop(m) \/ Pop(m)
  <2>1. pc[m] \in {"exec", "pop"}
    BY <1>4 DEF ExecDrop, Pop
  <2>2. m \notin Inputs
    BY <2>1, HandlerFacts DEF Handler, ReceiveLabels, PeekedLabels
  <2> QED BY <1>4, <2>1, <2>2 DEF ExecDrop, Pop, QueueStep
<1>5. CASE SelfNotify(m) \/ CheckSender(m) \/ ResumeSender(m) \/ SenderStatus(m) \/ NotifySender(m)
           \/ Exec(m)
  BY <1>5 DEF SelfNotify, CheckSender, ResumeSender, SenderStatus, NotifySender, Exec, QueueStep
<1>6. CASE Push(m) \/ PushSized(m)
  BY <1>6 DEF Push, PushSized, SendVars, QueueStep
<1>7. CASE Generate(m) \/ GenerateDrop(m) \/ MaxCountReached(m) \/ Repost(m)
  BY <1>7 DEF Generate, GenerateDrop, MaxCountReached, Repost, InputVars, QueueStep
<1>8. CASE PausePosted(m) \/ CanSend(m) \/ Notify(m) \/ LookAtSize(m) \/ Sent(m)
  BY <1>8 DEF PausePosted, CanSend, Notify, LookAtSize, Sent, SendVars, QueueStep
<1> QED BY <1>1, <1>2, <1>3, <1>4, <1>5, <1>6, <1>7, <1>8
           DEF HandlerStep, ReceiveStep, SendStep

(* The queues keep their types: what is taken is there.                    *)
LEMMA QueueKept ==
  ASSUME PeekedInv, NEW m \in Modules, Take(m) \/ HandlerStep(m)
  PROVE  queue' \in [Modules -> Seq(Records)] /\ needpop' \in [Modules -> BOOLEAN] /\ QueueInv'
<1>0. TypeInv
  BY DEF PeekedInv
<1>1. queue \in [Modules -> Seq(Records)] /\ needpop \in [Modules -> BOOLEAN] /\ QueueInv
  BY <1>0 DEF TypeInv, TypeOK
<1>2. ASSUME NEW n \in Modules \ Inputs, NEW q \in Seq(Records), queue' = [queue EXCEPT ![n] = q]
      PROVE  queue' \in [Modules -> Seq(Records)] /\ QueueInv'
  <2> HIDE DEF Records
  <2> QED BY <1>1, <1>2, KindFacts DEF QueueInv
<1>3. CASE UNCHANGED <<queue, needpop>>
  BY <1>1, <1>3 DEF QueueInv
<1>4. CASE UNCHANGED queue /\ needpop' = [needpop EXCEPT ![m] = needpop[m] \/ queue[m] # <<>>]
  <2>1. needpop' \in [Modules -> BOOLEAN]
    BY <1>1, <1>4
  <2> QED BY <1>1, <1>4, <2>1 DEF QueueInv
<1>5. CASE /\ pc[m] \in {"push", "push_sized"} /\ UNCHANGED needpop
           /\ queue' = [queue EXCEPT ![Target(m)] = Append(queue[Target(m)], loc[m].rec)]
  <2>1. Target(m) \in Modules \ Inputs /\ loc[m].rec \in Records
    BY <1>0, <1>5, TargetFacts DEF Sending
  <2>2. Append(queue[Target(m)], loc[m].rec) \in Seq(Records)
    BY <1>1, <2>1
  <2> QED BY <1>1, <1>2, <1>5, <2>1, <2>2
<1>6. CASE /\ pc[m] \in {"exec", "pop"} /\ m \notin Inputs
           /\ queue' = [queue EXCEPT ![m] = Tail(queue[m])]
           /\ needpop' = [needpop EXCEPT ![m] = FALSE]
  <2>1. loc[m].rec # None
    BY <1>0, <1>6, HandlerFacts DEF Handler
  <2>2. queue[m] # <<>>
    BY <1>6, <2>1 DEF PeekedInv, Peeked, PeekedLabels
  <2>3. Tail(queue[m]) \in Seq(Records)
    BY <1>1, <2>2
  <2>4. needpop' \in [Modules -> BOOLEAN]
    BY <1>1, <1>6
  <2> QED BY <1>2, <1>6, <2>3, <2>4
<1>7. QueueStep(m)
  BY <1>0, QueueSteps
<1> QED BY <1>3, <1>4, <1>5, <1>6, <1>7 DEF QueueStep

(* The status and the counters of module m, and its pointer.               *)
LEMMA StatusKept ==
  ASSUME TypeInv, NEW m \in Modules, Take(m) \/ HandlerStep(m)
  PROVE  /\ status' \in [Modules -> Statuses]
         /\ readev' \in [Inputs -> BOOLEAN]
         /\ UNCHANGED starting
<1>1. status \in [Modules -> Statuses] /\ readev \in [Inputs -> BOOLEAN]
  BY DEF TypeInv, TypeOK
<1>2. CASE Take(m)
  <2>1. readev' \in [Inputs -> BOOLEAN]
    BY <1>1, <1>2 DEF Take
  <2> QED BY <1>1, <1>2, <2>1 DEF Take
<1>3. CASE ControlStep(m)
  <2>1. UNCHANGED starting
    BY <1>3 DEF ControlStep, StartCallback, StartSelf, StartQueued, PauseCallback, PauseSelf,
       ResumeCallback, ResumeSelf, ResumeQueued, StatusVars
  <2>2. /\ UNCHANGED status \/ \E s \in Statuses : status' = [status EXCEPT ![m] = s]
        /\ UNCHANGED readev \/ \E b \in BOOLEAN : readev' = [readev EXCEPT ![m] = b]
    BY <1>3 DEF ControlStep, StartCallback, StartSelf, StartQueued, PauseCallback, PauseSelf,
       ResumeCallback, ResumeSelf, ResumeQueued, Statuses
  <2> HIDE DEF Statuses
  <2>3. status' \in [Modules -> Statuses]
    BY <1>1, <2>2
  <2>4. readev' \in [Inputs -> BOOLEAN]
    BY <1>1, <2>2
  <2> QED BY <2>1, <2>3, <2>4
<1>4. CASE ReceiveStep(m)
  BY <1>1, <1>4 DEF ReceiveStep, Peek, SelfNotify, CheckSender, ResumeSender, SenderStatus,
     NotifySender, Exec, ExecDrop, Pop, DataVars
<1>5. CASE SendStep(m)
  <2>1. UNCHANGED <<status, starting>>
    BY <1>5 DEF SendStep, Generate, GenerateDrop, MaxCountReached, Repost, Push, PausePosted,
       CanSend, Notify, LookAtSize, PushSized, Sent, SendVars, InputVars
  <2>2. UNCHANGED readev \/ \E b \in BOOLEAN : readev' = [readev EXCEPT ![m] = b]
    BY <1>5 DEF SendStep, Generate, GenerateDrop, MaxCountReached, Repost, Push, PausePosted,
       CanSend, Notify, LookAtSize, PushSized, Sent, SendVars, InputVars
  <2>3. readev' \in [Inputs -> BOOLEAN]
    BY <1>1, <2>2
  <2> QED BY <1>1, <2>1, <2>3
<1> QED BY <1>2, <1>3, <1>4, <1>5 DEF HandlerStep

(* The statistics and the history.                                         *)
LEMMA HistoryKept ==
  ASSUME TypeInv, NEW m \in Modules, Take(m) \/ HandlerStep(m)
  PROVE  /\ recvd' \in [Modules -> Nat] /\ fwd' \in [Modules -> Nat]
         /\ delivered' \in [Outputs -> Seq(Records)]
         /\ dropped' \in [Modules -> SUBSET Records]
<1>1. /\ recvd \in [Modules -> Nat] /\ fwd \in [Modules -> Nat]
      /\ delivered \in [Outputs -> Seq(Records)]
      /\ dropped \in [Modules -> SUBSET Records]
  BY DEF TypeInv, TypeOK
<1>2. CASE Take(m)
  BY <1>1, <1>2 DEF Take
<1>3. CASE ControlStep(m)
  BY <1>1, <1>3 DEF ControlStep, StartCallback, StartSelf, StartQueued, PauseCallback, PauseSelf,
     ResumeCallback, ResumeSelf, ResumeQueued, StatusVars
<1>4. CASE /\ Peek(m) \/ SelfNotify(m) \/ CheckSender(m) \/ ResumeSender(m) \/ SenderStatus(m)
              \/ NotifySender(m)
  BY <1>1, <1>4 DEF Peek, SelfNotify, CheckSender, ResumeSender, SenderStatus, NotifySender
<1>5. \A x \in Modules : recvd[x] + 1 \in Nat /\ fwd[x] + 1 \in Nat
  BY <1>1
<1>6. pc[m] \in {"exec", "pop"} => loc[m].rec \in Records
  BY HandlerFacts DEF Handler, Locals
<1> HIDE DEF Records
<1>7. CASE Exec(m)
  <2>1. recvd' \in [Modules -> Nat]
    BY <1>1, <1>5, <1>7 DEF Exec
  <2>2. fwd' \in [Modules -> Nat]
    BY <1>1, <1>5, <1>7 DEF Exec
  <2> QED BY <1>1, <1>7, <2>1, <2>2 DEF Exec
<1>8. CASE ExecDrop(m)
  <2>1. recvd' \in [Modules -> Nat]
    BY <1>1, <1>5, <1>8 DEF ExecDrop
  <2>2. dropped' \in [Modules -> SUBSET Records]
    BY <1>1, <1>6, <1>8 DEF ExecDrop
  <2> QED BY <1>1, <1>8, <2>1, <2>2 DEF ExecDrop
<1>9. CASE Pop(m)
  <2>1. delivered' \in [Outputs -> Seq(Records)]
    <3>1. CASE m \in Outputs
      <4>1. delivered' = [delivered EXCEPT ![m] = Append(delivered[m], loc[m].rec)]
        BY <1>9, <3>1 DEF Pop
      <4>2. Append(delivered[m], loc[m].rec) \in Seq(Records)
        BY <1>1, <1>6, <1>9, <3>1 DEF Pop
      <4> QED BY <1>1, <4>1, <4>2
    <3>2. CASE m \notin Outputs
      BY <1>1, <1>9, <3>2 DEF Pop
    <3> QED BY <3>1, <3>2
  <2> QED BY <1>1, <1>9, <2>1 DEF Pop
<1>10. CASE Generate(m) \/ GenerateDrop(m)
  <2>1. recvd' \in [Modules -> Nat]
    BY <1>1, <1>5, <1>10 DEF Generate, GenerateDrop
  <2>2. <<m, counter[m]>> \in Records
    <3>1. counter[m] \in 0..MaxCount /\ counter[m] < MaxCount /\ m \in Inputs
      BY <1>10, HandlerFacts DEF Generate, GenerateDrop, TypeOK, Handler, InputLabels
    <3> QED BY <3>1, BoundsAssumption DEF Records
  <2>3. dropped' \in [Modules -> SUBSET Records]
    <3>1. dropped[m] \cup {<<m, counter[m]>>} \in SUBSET Records
      BY <1>1, <2>2
    <3>2. \/ UNCHANGED dropped
          \/ dropped' = [dropped EXCEPT ![m] = dropped[m] \cup {<<m, counter[m]>>}]
      BY <1>10 DEF Generate, GenerateDrop
    <3> QED BY <1>1, <3>1, <3>2
  <2> QED BY <1>1, <1>10, <2>1, <2>3 DEF Generate, GenerateDrop, InputVars
<1>11. CASE MaxCountReached(m) \/ Repost(m)
  BY <1>1, <1>11 DEF MaxCountReached, Repost, InputVars
<1>12. CASE Push(m) \/ PausePosted(m) \/ CanSend(m) \/ Notify(m) \/ PushSized(m)
  BY <1>1, <1>12 DEF Push, PausePosted, CanSend, Notify, PushSized, SendVars
<1>13. CASE LookAtSize(m)
  <2>1. Target(m) \in Modules /\ loc[m].rec \in Records
    BY <1>13, TargetFacts DEF LookAtSize, Sending
  <2>2. dropped' \in [Modules -> SUBSET Records]
    BY <1>1, <1>13, <2>1 DEF LookAtSize
  <2> QED BY <1>1, <1>13, <2>2 DEF LookAtSize, SendVars
<1>14. CASE Sent(m)
  <2>1. fwd' \in [Modules -> Nat]
    BY <1>1, <1>5, <1>14 DEF Sent
  <2> QED BY <1>1, <1>14, <2>1 DEF Sent, SendVars
<1> QED BY <1>2, <1>3, <1>4, <1>7, <1>8, <1>9, <1>10, <1>11, <1>12, <1>13, <1>14
           DEF HandlerStep, ReceiveStep, SendStep

(* A receiver past the peek leaves its record and its queue alone until it *)
(* removes the record.                                                     *)
LEMMA ReceiverKeeps ==
  ASSUME TypeInv, NEW m \in Modules, Take(m) \/ HandlerStep(m), ~Peek(m), pc'[m] \in PeekedLabels
  PROVE  /\ pc[m] \in PeekedLabels /\ loc'[m].rec = loc[m].rec
         /\ UNCHANGED <<queue, needpop>>
<1>1. pc \in [Modules -> Labels] /\ loc \in [Modules -> Locals]
  BY DEF TypeInv, TypeOK
<1>2. ASSUME NEW p, Goto(m, p) PROVE p \in PeekedLabels
  BY <1>1, <1>2 DEF Goto
<1>3. ~Finish(m)
  BY <1>2 DEF Finish, PeekedLabels, SenderLabels
<1>4. ASSUME NextSender(m), pc[m] \in SenderLabels
      PROVE  pc[m] \in PeekedLabels /\ loc'[m].rec = loc[m].rec
  <2>1. pc[m] \in PeekedLabels
    BY <1>4 DEF PeekedLabels
  <2>2. PICK p \in {"check_sender", "exec", "idle"}, l \in Locals : Moves(m, p, l) /\ l.rec = loc[m].rec
    BY <1>4, NextSenderMoves
  <2> HIDE DEF Locals
  <2>3. loc'[m] = l
    BY <1>1, <2>2 DEF Moves
  <2> QED BY <2>1, <2>2, <2>3
<1>5. CASE Take(m)
  <2>1. Entry(m, Head(events[m]).type) \notin PeekedLabels
    BY DEF Entry, PeekedLabels, SenderLabels
  <2> QED BY <1>2, <1>5, <2>1 DEF Take
<1>6. CASE ControlStep(m)
  BY <1>2, <1>6, ControlMoves DEF Moves, Goto, PeekedLabels, SenderLabels
<1>7. CASE SendStep(m)
  <2>1. pc'[m] \notin ReceiveLabels
    BY <1>1, <1>7, SendMoves DEF Leads, Moves
  <2> QED BY <2>1 DEF ReceiveLabels
<1>8. CASE SelfNotify(m)
  <2>1. loc'[m].rec = loc[m].rec
    <3>1. loc'[m] = [loc[m] EXCEPT !.s = 1, !.k = 1] /\ loc[m] \in Locals
      BY <1>1, <1>8 DEF SelfNotify
    <3> QED BY <3>1 DEF Locals
  <2> QED BY <1>8, <2>1 DEF SelfNotify, PeekedLabels
<1>9. CASE CheckSender(m)
  <2>1. pc[m] \in SenderLabels /\ pc[m] \in PeekedLabels /\ UNCHANGED <<queue, needpop>>
    BY <1>9 DEF CheckSender, SenderLabels, PeekedLabels
  <2>2. CASE loc' = [loc EXCEPT ![m].k = @ + 1]
    <3>1. loc'[m] = [loc[m] EXCEPT !.k = @ + 1] /\ loc[m] \in Locals
      BY <1>1, <2>2
    <3>2. loc'[m].rec = loc[m].rec
      BY <3>1 DEF Locals
    <3> QED BY <2>1, <3>2
  <2> QED BY <1>4, <1>9, <2>1, <2>2 DEF CheckSender
<1>10. CASE ResumeSender(m) \/ SenderStatus(m) \/ NotifySender(m)
  <2>1. /\ pc[m] \in SenderLabels /\ pc[m] \in PeekedLabels /\ UNCHANGED <<queue, needpop>>
        /\ NextSender(m) \/ UNCHANGED loc
    BY <1>10 DEF ResumeSender, SenderStatus, NotifySender, SenderLabels, PeekedLabels
  <2> QED BY <1>4, <2>1
<1>11. CASE Exec(m)
  BY <1>11 DEF Exec, PeekedLabels
<1>12. CASE ExecDrop(m)
  BY <1>3, <1>12 DEF ExecDrop
<1>13. CASE Pop(m)
  <2>1. Goto(m, "idle") \/ Goto(m, FirstTarget(m))
    BY <1>13 DEF Pop, Finish
  <2> QED BY <1>2, <2>1 DEF FirstTarget, PeekedLabels, SenderLabels
<1> QED BY <1>5, <1>6, <1>7, <1>8, <1>9, <1>10, <1>11, <1>12, <1>13 DEF HandlerStep, ReceiveStep

(* The peeked record stays the first one, whatever the others push.        *)
LEMMA PeekedKept ==
  ASSUME PeekedInv, NEW m \in Modules, Take(m) \/ HandlerStep(m), NEW n \in Modules
  PROVE  Peeked(pc'[n], loc'[n].rec, needpop'[n], queue'[n])
<1>0. TypeInv /\ Peeked(pc[n], loc[n].rec, needpop[n], queue[n])
  BY DEF PeekedInv
<1>1. /\ queue \in [Modules -> Seq(Records)] /\ needpop \in [Modules -> BOOLEAN]
      /\ pc \in [Modules -> Labels] /\ loc \in [Modules -> Locals]
  BY <1>0 DEF TypeInv, TypeOK
<1>2. CASE n = m /\ ~Peek(m)
  BY <1>0, <1>2, ReceiverKeeps DEF Peeked
<1>3. CASE n = m /\ Peek(m)
  <2>1. /\ UNCHANGED queue /\ needpop' = [needpop EXCEPT ![m] = needpop[m] \/ queue[m] # <<>>]
        /\ loc' = [loc EXCEPT ![m].rec = IF queue[m] = <<>> THEN None ELSE Head(queue[m])]
    BY <1>3 DEF Peek
  <2>2. loc'[m].rec = IF queue[m] = <<>> THEN None ELSE Head(queue[m])
    <3>1. loc'[m] = [loc[m] EXCEPT !.rec = IF queue[m] = <<>> THEN None ELSE Head(queue[m])]
      BY <1>1, <2>1
    <3>2. loc[m] \in Locals
      BY <1>1
    <3> QED BY <3>1, <3>2 DEF Locals
  <2>3. needpop'[m] = (needpop[m] \/ queue[m] # <<>>)
    BY <1>1, <2>1
  <2>4. CASE queue[m] = <<>>
    BY <1>3, <2>2, <2>4 DEF Peeked
  <2>5. CASE queue[m] # <<>>
    BY <1>3, <2>1, <2>2, <2>3, <2>5 DEF Peeked
  <2> QED BY <2>4, <2>5
<1>4. CASE n # m
  <2>1. pc'[n] = pc[n] /\ loc'[n] = loc[n] /\ n \in Modules \ {m}
    BY <1>0, <1>4, HandlersKept
  <2>2. needpop'[n] = needpop[n] /\ (queue'[n] = queue[n] \/ \E r : queue'[n] = Append(queue[n], r))
    <3>1. CASE UNCHANGED <<queue, needpop>>
      BY <3>1
    <3>2. CASE UNCHANGED queue /\ needpop' = [needpop EXCEPT ![m] = needpop[m] \/ queue[m] # <<>>]
      BY <1>1, <1>4, <3>2
    <3>3. CASE /\ UNCHANGED needpop /\ pc[m] \in {"push", "push_sized"}
               /\ queue' = [queue EXCEPT ![Target(m)] = Append(queue[Target(m)], loc[m].rec)]
      BY <1>1, <3>3
    <3>4. CASE /\ queue' = [queue EXCEPT ![m] = Tail(queue[m])]
               /\ needpop' = [needpop EXCEPT ![m] = FALSE]
      BY <1>1, <1>4, <3>4
    <3> QED BY <1>0, <3>1, <3>2, <3>3, <3>4, QueueSteps DEF QueueStep
  <2>3. ASSUME NEW r, queue'[n] = Append(queue[n], r), queue[n] # <<>>
        PROVE  queue'[n] # <<>> /\ Head(queue'[n]) = Head(queue[n])
    <3>1. queue[n] \in Seq(Records)
      BY <1>1
    <3> QED BY <2>3, <3>1
  <2> QED BY <1>0, <2>1, <2>2, <2>3 DEF Peeked
<1> QED BY <1>2, <1>3, <1>4

(* Init, and every step, establish the invariant.                          *)
LEMMA PeekedInit ==
  Init => PeekedInv
<1> SUFFICES ASSUME Init PROVE PeekedInv
  OBVIOUS
<1>1. TypeOK
  <2>1. "idle" \in Labels /\ "STOPPED" \in Statuses /\ 0 \in 0..MaxCount /\ Clear \in Locals
    BY ClearFacts, BoundsAssumption DEF Labels, Statuses
  <2>2. starting \in Seq(Modules)
    BY TypeAssumption DEF Init
  <2> HIDE DEF Labels, Statuses, Locals, Records, EventTypes, Modules, Inputs, Outputs, Clear
  <2> QED BY <2>1, <2>2 DEF Init, TypeOK
<1>2. \A m \in Modules : pc[m] = "idle" /\ loc[m] = Clear /\ events[m] = <<>> /\ queue[m] = <<>>
  BY DEF Init
<1>3. HandlerInv
  BY <1>2, ClearFacts DEF HandlerInv
<1>4. CounterInv /\ EventsInv /\ QueueInv
  BY <1>2, KindFacts DEF CounterInv, EventsInv, Suits, QueueInv, Sending
<1>5. \A m \in Modules : Peeked(pc[m], loc[m].rec, needpop[m], queue[m])
  BY <1>2 DEF Peeked, PeekedLabels, SenderLabels
<1> QED BY <1>1, <1>3, <1>4, <1>5 DEF PeekedInv, TypeInv

(* Every step keeps the record a receiver has peeked at the head of its    *)
(* queue: a sender appends behind it and only the receiver itself removes  *)
(* it.                                                                     *)
LEMMA PeekedNext ==
  PeekedInv /\ [Next]_vars => PeekedInv'
<1> SUFFICES ASSUME PeekedInv, [Next]_vars PROVE PeekedInv'
  OBVIOUS
<1>0. TypeInv
  BY DEF PeekedInv
<1>1. CASE UNCHANGED vars
  BY <1>1 DEF PeekedInv, TypeInv, TypeOK, HandlerInv, CounterInv, EventsInv, QueueInv, vars
<1>2. CASE StartModule
  <2>1. starting' \in Seq(Modules)
    BY <1>0, <1>2, StartPosts
  <2>2. events' \in [Modules -> Seq(Evs)] /\ EventsInv'
    BY <1>0, <1>2, EventsKept DEF Next
  <2>3. UNCHANGED <<status, queue, needpop, recvd, fwd, counter, readev, pc, loc, delivered, dropped>>
    BY <1>2 DEF StartModule
  <2>4. TypeOK'
    BY <1>0, <2>1, <2>2, <2>3 DEF TypeInv, TypeOK, Evs
  <2>5. HandlerInv' /\ CounterInv' /\ QueueInv'
    BY <1>0, <2>3 DEF TypeInv, HandlerInv, CounterInv, QueueInv
  <2> QED BY <2>2, <2>3, <2>4, <2>5 DEF PeekedInv, TypeInv
<1>3. ASSUME NEW m \in Modules, Take(m) \/ HandlerStep(m) PROVE PeekedInv'
  <2>1. pc' \in [Modules -> Labels] /\ loc' \in [Modules -> Locals] /\ HandlerInv'
    BY <1>0, <1>3, HandlersKept
  <2>2. events' \in [Modules -> Seq(Evs)] /\ EventsInv'
    BY <1>0, <1>3, EventsKept DEF Next
  <2>3. counter' \in [Inputs -> 0..MaxCount] /\ CounterInv'
    BY <1>0, <1>3, CounterKept
  <2>4. queue' \in [Modules -> Seq(Records)] /\ needpop' \in [Modules -> BOOLEAN] /\ QueueInv'
    BY <1>3, QueueKept
  <2>5. /\ status' \in [Modules -> Statuses] /\ readev' \in [Inputs -> BOOLEAN]
        /\ starting' \in Seq(Modules)
    BY <1>0, <1>3, StatusKept DEF TypeInv, TypeOK
  <2>6. /\ recvd' \in [Modules -> Nat] /\ fwd' \in [Modules -> Nat]
        /\ delivered' \in [Outputs -> Seq(Records)] /\ dropped' \in [Modules -> SUBSET Records]
    BY <1>0, <1>3, HistoryKept
  <2>7. TypeOK'
    BY <2>1, <2>2, <2>3, <2>4, <2>5, <2>6 DEF TypeOK, Evs
  <2>8. \A n \in Modules : Peeked(pc'[n], loc'[n].rec, needpop'[n], queue'[n])
    BY <1>3, PeekedKept
  <2> QED BY <2>1, <2>2, <2>3, <2>4, <2>7, <2>8 DEF PeekedInv, TypeInv
<1> QED BY <1>1, <1>2, <1>3 DEF Next

(* Every component of the pipeline keeps its type: statuses, the event     *)
(* lists and log queues, the positions of the handlers.                    *)
THEOREM TypeCorrect ==
  Spec => []TypeOK
<1>1. PeekedInv => TypeOK
  BY DEF PeekedInv, TypeInv
<1> QED BY <1>1, PeekedInit, PeekedNext, PTL DEF Spec

(* nx_logqueue_pop() finds what nx_logqueue_peek() returned: its           *)
(* assertions hold however many senders push in between, for every set of  *)
(* routes, every limit and with Exec blocks that drop.                     *)
THEOREM PoppedIsPeeked ==
  Spec => []PeekedStaysFirst
<1>1. PeekedInv => PeekedStaysFirst
  <2> SUFFICES ASSUME PeekedInv, NEW m \in Modules, pc[m] \in {"exec", "pop"}
               PROVE  needpop[m] /\ queue[m] # <<>> /\ Head(queue[m]) = loc[m].rec
    BY DEF PeekedStaysFirst
  <2>1. loc[m].rec # None
    BY HandlerFacts DEF PeekedInv, Handler
  <2> QED BY <2>1 DEF PeekedInv, Peeked, PeekedLabels
<1> QED BY <1>1, PeekedInit, PeekedNext, PTL DEF Spec

-----------------------------------------------------------------------------
(* Posting anything but READ changes nothing for the pointers.             *)
LEMMA PostKeepsPointers ==
  ASSUME PointerInv, NEW n, NEW t, PostsTo(n, t), t # "READ", NEW i \in Inputs
  PROVE  (ReadIn(events'[i]) <=> ReadIn(events[i])) /\ OneReadIn(events'[i])
<1>1. events \in [Modules -> Seq(Evs)] /\ i \in Modules /\ OneReadIn(events[i])
  BY KindFacts DEF PointerInv, PeekedInv, TypeInv, TypeOK, Evs, Pointer
<1>2. events' = [events EXCEPT ![n] = Enqueue(events[n], Ev(t))] /\ t \in EventTypes
  BY DEF PostsTo, Post
<1> HIDE DEF Evs, EventTypes
<1>3. CASE i = n
  <2>1. events'[i] = Enqueue(events[i], Ev(t))
    BY <1>1, <1>2, <1>3
  <2> QED BY <1>1, <1>2, <2>1, EnqueueRead
<1>4. CASE i # n
  <2>1. events'[i] = events[i]
    BY <1>1, <1>2, <1>4
  <2> QED BY <1>1, <2>1
<1> QED BY <1>3, <1>4

(* What an input's own step does to where it is: it begins a batch, or     *)
(* starts, only when its list says so.                                     *)
LEMMA PointerSteps ==
  ASSUME TypeInv, NEW m \in Inputs, HandlerStep(m), ~Unlinks(m), ~StartCallback(m), ~Repost(m)
  PROVE  /\ pc'[m] \in Sending \cup {"generate", "repost", "start_cb"} =>
               pc[m] \in Sending \cup {"generate", "repost", "start_cb"}
         /\ status'[m] = "STOPPED" /\ pc'[m] # "start" =>
               status[m] = "STOPPED" /\ pc[m] # "start"
         /\ pc'[m] # "resume_cb"
<1>0. m \in Modules
  BY KindFacts
<1>1. pc \in [Modules -> Labels] /\ status \in [Modules -> Statuses]
  BY DEF TypeInv, TypeOK
<1>2. CASE ControlStep(m)
  <2>1. CASE StartSelf(m) \/ PauseSelf(m) \/ ResumeSelf(m)
    <3>1. /\ pc'[m] \in {"start_queued", "idle", "resume_queued"}
          /\ status'[m] \in {"RUNNING", "PAUSED"}
      BY <1>0, <1>1, <2>1 DEF StartSelf, PauseSelf, ResumeSelf, Goto
    <3> QED BY <3>1 DEF Sending
  <2>2. CASE StartQueued(m) \/ ResumeQueued(m)
    <3>1. pc'[m] = "idle" /\ UNCHANGED status /\ pc[m] # "start"
      BY <1>0, <1>1, <2>2 DEF StartQueued, ResumeQueued, Goto
    <3> QED BY <3>1 DEF Sending
  <2> QED BY <1>2, <2>1, <2>2 DEF ControlStep, Unlinks
<1>3. CASE ReceiveStep(m)
  BY <1>0, <1>3, ReceiveMoves
<1>4. CASE SendStep(m)
  <2>1. UNCHANGED status
    BY <1>4 DEF SendStep, Generate, GenerateDrop, MaxCountReached, Repost, Push, PausePosted,
       CanSend, Notify, LookAtSize, PushSized, Sent, SendVars, InputVars
  <2>2. pc[m] \in Sending \cup {"generate", "repost"}
    BY <1>4 DEF SendStep, Generate, GenerateDrop, MaxCountReached, Repost, Push, PausePosted,
       CanSend, Notify, LookAtSize, PushSized, Sent, Sending
  <2>3. pc'[m] # "resume_cb"
    <3>1. \/ Goto(m, "idle") \/ Goto(m, FirstTarget(m))
          \/ \E p \in {"generate", "repost", "sent", "can_send", "notify", "push_sized", "pause_self"} :
                Goto(m, p)
      BY <1>4 DEF SendStep, Generate, GenerateDrop, MaxCountReached, Push, PausePosted,
         CanSend, Notify, LookAtSize, PushSized, Sent, NextRound, NextTarget, Finish
    <3> QED BY <1>0, <1>1, <3>1 DEF Goto, FirstTarget
  <2> QED BY <2>1, <2>2, <2>3 DEF Sending
<1> QED BY <1>2, <1>3, <1>4 DEF HandlerStep

(* Every step keeps the pointers valid.                                    *)
LEMMA PointerNext ==
  PointerInv /\ [Next]_vars => PointerInv'
<1> SUFFICES ASSUME PointerInv, [Next]_vars PROVE PointerInv'
  OBVIOUS
<1>0. PeekedInv /\ TypeInv /\ PeekedInv'
  BY PeekedNext DEF PointerInv, PeekedInv
<1> SUFFICES ASSUME NEW i \in Inputs
             PROVE  Pointer(readev'[i], pc'[i], status'[i], events'[i])
  BY <1>0 DEF PointerInv
<1>1. /\ i \in Modules /\ events \in [Modules -> Seq(Evs)] /\ readev \in [Inputs -> BOOLEAN]
      /\ status \in [Modules -> Statuses] /\ pc \in [Modules -> Labels]
      /\ Pointer(readev[i], pc[i], status[i], events[i])
  BY <1>0, KindFacts DEF PointerInv, TypeInv, TypeOK, Evs
<1>2. CASE UNCHANGED vars
  BY <1>1, <1>2 DEF vars
<1>3. CASE StartModule
  <2>1. PostsTo(Head(starting), "START") /\ UNCHANGED <<readev, pc, status>>
    BY <1>0, <1>3, StartPosts DEF StartModule
  <2>2. (ReadIn(events'[i]) <=> ReadIn(events[i])) /\ OneReadIn(events'[i])
    BY <2>1, PostKeepsPointers
  <2> QED BY <1>1, <2>1, <2>2 DEF Pointer
<1>4. ASSUME NEW m \in Modules, Take(m)
      PROVE  Pointer(readev'[i], pc'[i], status'[i], events'[i])
  <2> DEFINE e == Head(events[m]).type
  <2>1. /\ readev'[i] = (readev[i] /\ ~(i = m /\ e = "READ")) /\ UNCHANGED status
        /\ pc[m] = "idle" /\ events[m] # <<>> /\ events' = [events EXCEPT ![m] = Tail(events[m])]
        /\ pc' = [pc EXCEPT ![m] = Entry(m, e)]
    BY <1>4 DEF Take, Goto
  <2>2. CASE i # m
    <3>1. readev'[i] = readev[i] /\ events'[i] = events[i] /\ pc'[i] = pc[i]
      BY <1>1, <2>1, <2>2
    <3> QED BY <1>1, <2>1, <3>1
  <2>3. CASE i = m
    <3>1. /\ events'[m] = Tail(events[m]) /\ events[m] \in Seq(Evs) /\ pc'[m] = Entry(m, e)
      BY <1>1, <1>4, <2>1
    <3>2. /\ OneReadIn(events'[m])
          /\ e = "READ" => ~ReadIn(events'[m])
          /\ e # "READ" => (ReadIn(events'[m]) <=> ReadIn(events[m]))
      <4>1. OneReadIn(events[m]) /\ events[m] # <<>>
        BY <1>1, <2>1, <2>3 DEF Pointer
      <4> QED BY <3>1, <4>1, TailReads
    <3>3. /\ Entry(m, e) \in Sending \cup {"generate", "repost"} => e = "READ"
          /\ Entry(m, e) = "start_cb" => status[m] = "STOPPED"
          /\ Entry(m, e) = "resume_cb" => status[m] = "PAUSED"
      BY DEF Entry, Sending
    <3>4. status[m] = "STOPPED" => ~readev[m]
      BY <1>1, <2>1, <2>3 DEF Pointer
    <3> HIDE DEF e
    <3>5. CASE e = "READ"
      <4>1. readev'[m] = FALSE
        BY <2>1, <2>3, <3>5
      <4> QED BY <2>1, <2>3, <3>1, <3>2, <3>3, <3>5, <4>1 DEF Pointer
    <3>6. CASE e # "READ"
      <4>1. readev'[m] = readev[m]
        BY <1>1, <2>1, <2>3, <3>6
      <4> QED BY <1>1, <2>1, <2>3, <3>1, <3>2, <3>3, <3>4, <3>6, <4>1 DEF Pointer
    <3> QED BY <3>5, <3>6
  <2> QED BY <2>2, <2>3
<1>5. ASSUME NEW m \in Modules, Unlinks(m)
      PROVE  Pointer(readev'[i], pc'[i], status'[i], events'[i])
  <2> DEFINE r == RemoveFirst(events[m], Ev("READ"))
             a == IF readev[m] THEN r ELSE events[m]
             d == Enqueue(a, Ev("READ"))
  <2>1. HandlerStep(m) /\ UNCHANGED status
    BY <1>5 DEF Unlinks, HandlerStep, ControlStep, PauseCallback, ResumeCallback
  <2>2. CASE i # m
    <3>1. pc'[i] = pc[i]
      BY <1>0, <1>1, <2>1, <2>2, HandlersKept
    <3>2. readev'[i] = readev[i] /\ events'[i] = events[i]
      BY <1>1, <1>5, <2>2 DEF Unlinks, PauseCallback, ResumeCallback
    <3> QED BY <1>1, <2>1, <3>1, <3>2
  <2>3. CASE i = m
    <3>1. r \in Seq(Evs) /\ ~ReadIn(r)
      BY <1>1, <2>3, RemoveFacts DEF Pointer
    <3>2. OneReadIn(r)
      BY <3>1 DEF ReadIn, OneReadIn
    <3>3. a \in Seq(Evs) /\ ~ReadIn(a) /\ OneReadIn(a)
      BY <1>1, <2>3, <3>1, <3>2 DEF Pointer
    <3>4. CASE PauseCallback(m)
      <4>1. events'[m] = a /\ readev'[m] = FALSE /\ pc'[m] = "pause"
        BY <1>1, <2>3, <3>4 DEF PauseCallback, Goto
      <4> HIDE DEF a
      <4> QED BY <2>3, <3>3, <4>1 DEF Pointer, Sending
    <3>5. CASE ResumeCallback(m)
      <4>1. events'[m] = d /\ readev'[m] = TRUE /\ pc'[m] = "resume" /\ pc[m] = "resume_cb"
        BY <1>1, <2>3, <3>5 DEF ResumeCallback, Goto
      <4>2. status'[m] # "STOPPED"
        BY <1>1, <2>1, <2>3, <4>1 DEF Pointer
      <4>3. "READ" \in EventTypes
        BY EvFacts
      <4> HIDE DEF a
      <4>4. ReadIn(d) /\ OneReadIn(d)
        BY <3>3, <4>3, EnqueueRead
      <4> HIDE DEF d
      <4> QED BY <2>3, <4>1, <4>2, <4>4 DEF Pointer, Sending
    <3> QED BY <1>5, <3>4, <3>5 DEF Unlinks
  <2> QED BY <2>2, <2>3
<1>6. ASSUME NEW m \in Modules, HandlerStep(m), ~Unlinks(m)
      PROVE  Pointer(readev'[i], pc'[i], status'[i], events'[i])
  <2>1. CASE /\ m \in Inputs /\ PostsTo(m, "READ") /\ readev' = [readev EXCEPT ![m] = TRUE]
             /\ StartCallback(m) \/ (Repost(m) /\ status[m] = "RUNNING")
    <3> DEFINE d == Enqueue(events[m], Ev("READ"))
    <3>1. events' = [events EXCEPT ![m] = d] /\ "READ" \in EventTypes /\ UNCHANGED status
      BY <2>1 DEF PostsTo, Post, StartCallback, Repost, InputVars
    <3>2. CASE i # m
      <4>1. pc'[i] = pc[i]
        BY <1>0, <1>1, <1>6, <3>2, HandlersKept
      <4>2. readev'[i] = readev[i] /\ events'[i] = events[i]
        BY <1>1, <2>1, <3>1, <3>2
      <4> QED BY <1>1, <3>1, <4>1, <4>2
    <3>3. CASE i = m
      <4>1. ~ReadIn(events[m]) /\ events[m] \in Seq(Evs)
        BY <1>1, <2>1, <3>3 DEF Pointer, StartCallback, Repost
      <4>2. ReadIn(d) /\ OneReadIn(d)
        BY <3>1, <4>1, EnqueueRead
      <4>3. events'[m] = d /\ readev'[m] = TRUE
        BY <1>1, <2>1, <3>1
      <4>4. \/ pc'[m] = "start"
            \/ pc'[m] = "idle" /\ status[m] = "RUNNING"
        BY <1>1, <2>1 DEF StartCallback, Repost, Finish, Goto
      <4> HIDE DEF d
      <4>5. status'[m] = status[m]
        BY <3>1
      <4>6. "start" \notin Sending /\ "idle" \notin Sending
        BY DEF Sending
      <4> QED BY <3>3, <4>2, <4>3, <4>4, <4>5, <4>6 DEF Pointer
    <3> QED BY <3>2, <3>3
  <2>2. CASE /\ UNCHANGED readev
             /\ UNCHANGED events \/ \E n, t : PostsTo(n, t) /\ t # "READ"
    <3>1. (ReadIn(events'[i]) <=> ReadIn(events[i])) /\ OneReadIn(events'[i])
      BY <1>1, <2>2, PostKeepsPointers DEF Pointer
    <3>2. CASE i # m
      <4>1. pc'[i] = pc[i]
        BY <1>0, <1>1, <1>6, <3>2, HandlersKept
      <4>2. status'[i] = status[i]
        <5>1. UNCHANGED status \/ \E s : status' = [status EXCEPT ![m] = s]
          BY <1>6 DEF HandlerStep, ControlStep, StartCallback, StartSelf, StartQueued, PauseCallback,
             PauseSelf, ResumeCallback, ResumeSelf, ResumeQueued, ReceiveStep, Peek, SelfNotify,
             CheckSender, ResumeSender, SenderStatus, NotifySender, Exec, ExecDrop, Pop, DataVars,
             SendStep, Generate, GenerateDrop, MaxCountReached, Repost, Push, PausePosted, CanSend,
             Notify, LookAtSize, PushSized, Sent, SendVars, InputVars
        <5> QED BY <1>1, <3>2, <5>1
      <4> QED BY <1>1, <2>2, <3>1, <4>1, <4>2 DEF Pointer
    <3>3. CASE i = m /\ StartCallback(m)
      <4>1. readev' = [readev EXCEPT ![m] = TRUE] /\ readev[m] = FALSE
        BY <1>1, <3>3 DEF StartCallback, Pointer
      <4> QED BY <1>1, <2>2, <3>3, <4>1
    <3>4. CASE i = m /\ Repost(m)
      <4>1. readev[m] = FALSE /\ pc'[m] = "idle" /\ readev'[m] = readev[m]
        BY <1>1, <2>2, <3>4 DEF Repost, Finish, Goto, Pointer
      <4> QED BY <1>1, <3>1, <3>4, <4>1 DEF Pointer, Sending
    <3>5. CASE i = m /\ ~StartCallback(m) /\ ~Repost(m)
      <4>1. /\ pc'[m] \in Sending \cup {"generate", "repost", "start_cb"} =>
                  pc[m] \in Sending \cup {"generate", "repost", "start_cb"}
            /\ status'[m] = "STOPPED" /\ pc'[m] # "start" =>
                  status[m] = "STOPPED" /\ pc[m] # "start"
            /\ pc'[m] # "resume_cb"
        BY <1>0, <1>6, <3>5, PointerSteps
      <4> QED BY <1>1, <2>2, <3>1, <3>5, <4>1 DEF Pointer
    <3> QED BY <3>2, <3>3, <3>4, <3>5
  <2> QED BY <1>0, <1>6, <2>1, <2>2, StepPosts
<1> QED BY <1>2, <1>3, <1>4, <1>5, <1>6 DEF Next

(* im_testgen never unlinks an event that is gone, nor has it two: the     *)
(* pointer it keeps to its READ event and the event list agree, whatever   *)
(* pauses and resumes the modules behind it post.                          *)
THEOREM PointerAgrees ==
  Spec => []ReadPointerValid
<1>1. PointerInv => ReadPointerValid
  <2> SUFFICES ASSUME PointerInv, NEW i \in Inputs
               PROVE  LET reads == {x \in DOMAIN events[i] : events[i][x].type = "READ"}
                      IN  (readev[i] <=> reads # {}) /\ \A x, y \in reads : x = y
    BY DEF ReadPointerValid
  <2>1. events[i] \in Seq(Evs) /\ Pointer(readev[i], pc[i], status[i], events[i])
    BY KindFacts DEF PointerInv, PeekedInv, TypeInv, TypeOK, Evs
  <2>2. DOMAIN events[i] = 1..Len(events[i])
    BY <2>1
  <2> QED BY <2>1, <2>2 DEF Pointer, ReadIn, OneReadIn
<1>2. Init => PointerInv
  <2> SUFFICES ASSUME Init PROVE PointerInv
    OBVIOUS
  <2>1. \A i \in Inputs : i \in Modules /\ readev[i] = FALSE /\ pc[i] = "idle" /\ events[i] = <<>>
    BY KindFacts DEF Init
  <2>2. \A i \in Inputs : Pointer(readev[i], pc[i], status[i], events[i])
    <3>1. ~ReadIn(<<>>) /\ OneReadIn(<<>>)
      BY DEF ReadIn, OneReadIn
    <3> QED BY <2>1, <3>1 DEF Pointer
  <2> QED BY <2>2, PeekedInit DEF PointerInv
<1> QED BY <1>1, <1>2, PointerNext, PTL DEF Spec

-----------------------------------------------------------------------------
(* Who is about to notify n is one of the senders that n wakes up: there   *)
(* are fewer of them than places in its queue.                             *)
LEMMA PushersFacts ==
  ASSUME TypeInv, NEW n \in Modules \ Inputs
  PROVE  /\ Pushers(n, pc, loc) \subseteq Range(Senders[n])
         /\ IsFiniteSet(Pushers(n, pc, loc))
         /\ Cardinality(Pushers(n, pc, loc)) \in Nat
         /\ Cardinality(Pushers(n, pc, loc)) < Limit
         /\ \A m \in Range(Senders[n]) \ Pushers(n, pc, loc) :
               Cardinality(Pushers(n, pc, loc)) + 1 < Limit
<1> DEFINE R == Range(Senders[n])
           P == Pushers(n, pc, loc)
<1>1. P \subseteq R
  <2> SUFFICES ASSUME NEW s \in P PROVE s \in R
    OBVIOUS
  <2>1. s \in Modules /\ pc[s] \in Sending /\ Target(s) = n
    BY DEF Pushers, Sending, Target
  <2> QED BY <2>1, TargetFacts
<1>2. IsFiniteSet(R) /\ Cardinality(R) \in Nat /\ Cardinality(R) < Limit
  <2>1. Senders[n] \in Seq(Modules \ Outputs)
    BY Wiring
  <2> DEFINE q == Senders[n]
  <2> HIDE DEF q
  <2>2. q \in Seq(Modules \ Outputs) /\ R = Range(q)
    BY <2>1 DEF q
  <2>3. Len(q) \in Nat /\ q \in Surjection(1..Len(q), Range(q))
    BY <2>2 DEF Surjection, Range
  <2>4. IsFiniteSet(1..Len(q))
    BY <2>3, FS_Interval
  <2>5. IsFiniteSet(Range(q))
    BY <2>3, <2>4, FS_Surjection
  <2> QED BY <2>2, <2>5, FS_CardinalityType, FewSenders
<1> HIDE DEF P, R
<1>3. IsFiniteSet(P) /\ Cardinality(P) <= Cardinality(R) /\ Cardinality(P) \in Nat
  BY <1>1, <1>2, FS_Subset, FS_CardinalityType
<1>4. Limit \in Nat
  BY BoundsAssumption
<1>5. ASSUME NEW m \in R \ P PROVE Cardinality(P) + 1 < Limit
  <2>1. Cardinality(P \cup {m}) = Cardinality(P) + 1
    BY <1>3, <1>5, FS_AddElement
  <2>2. Cardinality(P \cup {m}) <= Cardinality(R)
    BY <1>1, <1>2, <1>5, FS_Subset
  <2> QED BY <1>2, <1>3, <1>4, <2>1, <2>2
<1> QED BY <1>1, <1>2, <1>3, <1>4, <1>5 DEF P, R

(* Only m joins or leaves by a step of m.                                  *)
LEMMA PushersStep ==
  ASSUME TypeInv, NEW m \in Modules, Take(m) \/ HandlerStep(m), NEW n \in Modules \ Inputs
  PROVE  LET P == Pushers(n, pc, loc)
             Q == Pushers(n, pc', loc')
         IN  /\ IsFiniteSet(Q) /\ Cardinality(Q) \in Nat
             /\ m \notin P \/ m \in Q => Cardinality(P) <= Cardinality(Q)
             /\ m \notin P /\ m \in Q => Cardinality(P) + 1 = Cardinality(Q)
<1> DEFINE P == Pushers(n, pc, loc)
           Q == Pushers(n, pc', loc')
<1>1. \A s \in Modules \ {m} : pc'[s] = pc[s] /\ loc'[s] = loc[s]
  BY HandlersKept
<1>2. \A s \in Modules \ {m} : s \in P <=> s \in Q
  BY <1>1 DEF Pushers
<1>3. P \subseteq Modules /\ Q \subseteq Modules
  BY DEF Pushers
<1>4. IsFiniteSet(P) /\ Cardinality(P) \in Nat
  BY PushersFacts
<1> HIDE DEF P, Q
<1>5. /\ IsFiniteSet(P \cup {m})
      /\ Cardinality(P \cup {m}) = IF m \in P THEN Cardinality(P) ELSE Cardinality(P) + 1
  BY <1>4, FS_AddElement
<1>6. Q \subseteq P \cup {m}
  BY <1>2, <1>3
<1>7. IsFiniteSet(Q) /\ Cardinality(Q) \in Nat
  BY <1>5, <1>6, FS_Subset, FS_CardinalityType
<1>8. m \notin P \/ m \in Q => Cardinality(P) <= Cardinality(Q)
  <2>1. m \notin P \/ m \in Q => P \subseteq Q
    BY <1>2, <1>3
  <2> QED BY <1>7, <2>1, FS_Subset
<1>9. m \notin P /\ m \in Q => Cardinality(P) + 1 = Cardinality(Q)
  <2>1. m \notin P /\ m \in Q => Q = P \cup {m}
    BY <1>2, <1>3
  <2> QED BY <1>5, <2>1
<1> QED BY <1>7, <1>8, <1>9 DEF P, Q

(* What a module was told stays in its list until it takes it.             *)
LEMMA ToldKept ==
  ASSUME TypeInv, NEW m \in Modules, HandlerStep(m) \/ Take(m), NEW n \in Modules \ Inputs,
         n # m \/ ~Take(m), Told(events[n])
  PROVE  Told(events'[n])
<1>1. events \in [Modules -> Seq(Evs)]
  BY DEF TypeInv, TypeOK, Evs
<1>2. CASE Take(m)
  <2>1. events'[n] = events[n]
    BY <1>1, <1>2 DEF Take
  <2> QED BY <2>1
<1>3. CASE Unlinks(m)
  <2>1. m \in Inputs
    BY <1>3, HandlerFacts DEF Unlinks, PauseCallback, ResumeCallback, Handler, InputLabels
  <2>2. events'[n] = events[n]
    BY <1>1, <1>3, <2>1 DEF Unlinks, PauseCallback, ResumeCallback
  <2> QED BY <2>2
<1>4. ASSUME NEW k, NEW t, PostsTo(k, t) PROVE Told(events'[n])
  <2>1. events' = [events EXCEPT ![k] = Enqueue(events[k], Ev(t))] /\ t \in EventTypes
    BY <1>4 DEF PostsTo, Post
  <2> HIDE DEF Evs, EventTypes
  <2>2. CASE n = k
    <3>1. events'[n] = Enqueue(events[n], Ev(t))
      BY <1>1, <2>1, <2>2
    <3> QED BY <1>1, <2>1, <3>1, EnqueueTold
  <2>3. CASE n # k
    BY <1>1, <2>1, <2>3
  <2> QED BY <2>2, <2>3
<1>5. CASE HandlerStep(m) /\ ~Unlinks(m)
  BY <1>4, <1>5, StepPosts
<1> QED BY <1>2, <1>3, <1>5

(* Posting DATA_AVAILABLE tells its receiver.                              *)
LEMMA PostTells ==
  ASSUME TypeInv, NEW n \in Modules, Post(n, "DATA_AVAILABLE")
  PROVE  Told(events'[n])
<1>1. events \in [Modules -> Seq(Evs)] /\ "DATA_AVAILABLE" \in EventTypes
  BY EvFacts DEF TypeInv, TypeOK, Evs
<1> HIDE DEF Evs, EventTypes
<1>2. events'[n] = Enqueue(events[n], Ev("DATA_AVAILABLE"))
  BY <1>1 DEF Post
<1> QED BY <1>1, <1>2, EnqueueTold

(* A step that changes no queue but perhaps takes a record from one, and   *)
(* after which everybody who was about to notify n still is.               *)
LEMMA NoticedStays ==
  ASSUME PeekedInv, NEW m \in Modules, Take(m) \/ HandlerStep(m), NEW n \in Modules \ Inputs,
         Noticed(n), n # m \/ ~Take(m),
         status'[n] = "RUNNING" /\ Relies(pc'[n]) => status[n] = "RUNNING" /\ Relies(pc[n]),
         Len(queue'[n]) <= Len(queue[n]),
         m \notin Pushers(n, pc, loc) \/ m \in Pushers(n, pc', loc')
  PROVE  Noticed(n)'
<1> SUFFICES ASSUME status'[n] = "RUNNING" /\ Relies(pc'[n]) /\ ~Told(events'[n])
             PROVE  Len(queue'[n]) <= Cardinality(Pushers(n, pc', loc'))
  BY DEF Noticed
<1>0. TypeInv
  BY DEF PeekedInv
<1>1. ~Told(events[n])
  BY <1>0, ToldKept
<1>2. Len(queue[n]) <= Cardinality(Pushers(n, pc, loc))
  BY <1>1 DEF Noticed
<1>3. /\ Cardinality(Pushers(n, pc, loc)) <= Cardinality(Pushers(n, pc', loc'))
      /\ Cardinality(Pushers(n, pc', loc')) \in Nat
  BY <1>0, PushersStep
<1>4. Cardinality(Pushers(n, pc, loc)) \in Nat
  BY <1>0, PushersFacts
<1>5. Len(queue[n]) \in Nat /\ Len(queue'[n]) \in Nat
  <2>1. queue \in [Modules -> Seq(Records)] /\ queue' \in [Modules -> Seq(Records)]
    BY <1>0, QueueKept DEF TypeInv, TypeOK
  <2> QED BY <2>1
<1> QED BY <1>2, <1>3, <1>4, <1>5

(* Taking an event, changing the status, receiving.                        *)
LEMMA NoticedReceiving ==
  ASSUME PeekedInv, NEW m \in Modules, Take(m) \/ ControlStep(m) \/ ReceiveStep(m),
         NEW n \in Modules \ Inputs, Noticed(n)
  PROVE  Noticed(n)'
<1>0. TypeInv /\ (Take(m) \/ HandlerStep(m))
  BY DEF PeekedInv, HandlerStep
<1>1. /\ queue \in [Modules -> Seq(Records)] /\ pc \in [Modules -> Labels]
      /\ status \in [Modules -> Statuses] /\ events \in [Modules -> Seq(Evs)]
  BY <1>0 DEF TypeInv, TypeOK, Evs
<1>2. m \notin Pushers(n, pc, loc)
  BY DEF Pushers, Take, ControlStep, ReceiveStep, StartCallback, StartSelf, StartQueued,
     PauseCallback, PauseSelf, ResumeCallback, ResumeSelf, ResumeQueued, Peek, SelfNotify,
     CheckSender, ResumeSender, SenderStatus, NotifySender, Exec, ExecDrop, Pop
<1>3. CASE n # m
  <2>1. pc'[n] = pc[n]
    BY <1>0, <1>3, HandlersKept
  <2>2. status'[n] = status[n]
    <3>1. UNCHANGED status \/ \E s : status' = [status EXCEPT ![m] = s]
      BY DEF Take, ControlStep, StartCallback, StartSelf, StartQueued, PauseCallback,
         PauseSelf, ResumeCallback, ResumeSelf, ResumeQueued, ReceiveStep, Peek, SelfNotify,
         CheckSender, ResumeSender, SenderStatus, NotifySender, Exec, ExecDrop, Pop, DataVars
    <3> QED BY <1>1, <1>3, <3>1
  <2>3. queue'[n] = queue[n]
    <3>1. UNCHANGED queue \/ \E q : queue' = [queue EXCEPT ![m] = q]
      BY DEF Take, ControlStep, StartCallback, StartSelf, StartQueued, PauseCallback,
         PauseSelf, ResumeCallback, ResumeSelf, ResumeQueued, ReceiveStep, Peek, SelfNotify,
         CheckSender, ResumeSender, SenderStatus, NotifySender, Exec, ExecDrop, Pop, StatusVars
    <3> QED BY <1>1, <1>3, <3>1
  <2>4. Len(queue'[n]) <= Len(queue[n])
    BY <1>1, <2>3
  <2> QED BY <1>0, <1>2, <1>3, <2>1, <2>2, <2>4, NoticedStays
<1>4. CASE n = m /\ Take(m)
  <2> DEFINE e == Head(events[m]).type
  <2>1. /\ pc[m] = "idle" /\ events[m] # <<>> /\ events'[m] = Tail(events[m])
        /\ pc'[m] = Entry(m, e) /\ UNCHANGED <<status, queue, loc>>
    BY <1>1, <1>4 DEF Take, Goto
  <2>2. Told(events[m]) => Told(events'[m]) \/ e = "DATA_AVAILABLE"
    <3>1. events[m] \in Seq(Evs)
      BY <1>1
    <3> HIDE DEF Evs
    <3>2. Told(events[m]) => Told(Tail(events[m])) \/ Head(events[m]).type = "DATA_AVAILABLE"
      BY <2>1, <3>1, TailFacts
    <3> QED BY <2>1, <3>2
  <2>3. e = "DATA_AVAILABLE" /\ status[m] = "RUNNING" => Entry(m, e) = "peek"
    BY DEF Entry
  <2>4. /\ Cardinality(Pushers(n, pc, loc)) <= Cardinality(Pushers(n, pc', loc'))
        /\ Cardinality(Pushers(n, pc, loc)) \in Nat /\ Cardinality(Pushers(n, pc', loc')) \in Nat
        /\ Len(queue[n]) \in Nat
    <3>1. Len(queue[n]) \in Nat
      BY <1>1
    <3> QED BY <1>0, <1>2, <3>1, PushersStep, PushersFacts
  <2>5. Relies("idle") /\ ~Relies("peek")
    BY DEF Relies
  <2> HIDE DEF e
  <2>6. SUFFICES ASSUME status'[m] = "RUNNING" /\ Relies(pc'[m]) /\ ~Told(events'[m])
                 PROVE  Len(queue'[m]) <= Cardinality(Pushers(m, pc', loc'))
    BY <1>4 DEF Noticed
  <2>7. status[m] = "RUNNING" /\ Relies(pc[m]) /\ ~Told(events[m])
    BY <2>1, <2>2, <2>3, <2>5, <2>6
  <2> QED BY <1>4, <2>1, <2>4, <2>7 DEF Noticed
<1>5. ASSUME n = m, \/ status'[m] # "RUNNING"
                    \/ ~Relies(pc'[m])
                    \/ Post(m, "DATA_AVAILABLE")
                    \/ queue'[m] = <<>>
      PROVE  Noticed(n)'
  <2>1. Post(m, "DATA_AVAILABLE") => Told(events'[m])
    BY <1>0, PostTells
  <2>2. Cardinality(Pushers(n, pc', loc')) \in Nat /\ Len(<<>>) = 0
    BY <1>0, PushersStep
  <2> QED BY <1>5, <2>1, <2>2 DEF Noticed
<1>6. CASE n = m /\ ControlStep(m)
  <2>1. ~StartCallback(m) /\ ~PauseCallback(m) /\ ~ResumeCallback(m)
    BY <1>0, <1>6, HandlerFacts DEF StartCallback, PauseCallback, ResumeCallback, Handler, InputLabels
  <2>2. CASE StartSelf(m) \/ ResumeSelf(m)
    <3>1. pc'[m] \in {"start_queued", "resume_queued"}
      BY <1>1, <1>6, <2>2 DEF StartSelf, ResumeSelf, Goto
    <3> QED BY <1>5, <1>6, <3>1 DEF Relies
  <2>3. CASE PauseSelf(m)
    BY <1>1, <1>5, <1>6, <2>3 DEF PauseSelf
  <2>4. CASE StartQueued(m) \/ ResumeQueued(m)
    <3>1. Post(m, "DATA_AVAILABLE") \/ queue'[m] = <<>>
      BY <2>4 DEF StartQueued, ResumeQueued, StatusVars
    <3> QED BY <1>5, <1>6, <3>1
  <2> QED BY <1>6, <2>1, <2>2, <2>3, <2>4 DEF ControlStep
<1>7. CASE n = m /\ Peek(m)
  <2>1. pc'[m] = "self_notify"
    BY <1>1, <1>7 DEF Peek, Goto
  <2> QED BY <1>5, <1>7, <2>1 DEF Relies
<1>8. CASE n = m /\ SelfNotify(m)
  <2>1. Post(m, "DATA_AVAILABLE") \/ queue'[m] = <<>>
    BY <1>8 DEF SelfNotify
  <2> QED BY <1>5, <1>8, <2>1
<1>9. CASE n = m /\ ReceiveStep(m) /\ ~Peek(m) /\ ~SelfNotify(m)
  <2>1. UNCHANGED status /\ pc[m] \in SenderLabels \cup {"exec", "pop"}
    BY <1>9 DEF ReceiveStep, CheckSender, ResumeSender, SenderStatus, NotifySender, Exec,
       ExecDrop, Pop, DataVars, SenderLabels
  <2>2. Relies(pc[m])
    BY <2>1 DEF Relies, SenderLabels
  <2>3. Len(queue'[m]) <= Len(queue[m])
    <3>1. CASE UNCHANGED queue
      BY <1>1, <3>1
    <3>2. CASE ExecDrop(m) \/ Pop(m)
      <4>1. queue'[m] = Tail(queue[m]) /\ pc[m] \in {"exec", "pop"}
        BY <1>1, <3>2 DEF ExecDrop, Pop
      <4>2. loc[m].rec # None
        BY <1>0, <4>1, HandlerFacts DEF Handler
      <4>3. queue[m] # <<>>
        BY <4>1, <4>2 DEF PeekedInv, Peeked, PeekedLabels
      <4>4. queue[m] \in Seq(Records)
        BY <1>1
      <4> QED BY <4>1, <4>3, <4>4
    <3> QED BY <1>9, <3>1, <3>2 DEF ReceiveStep, CheckSender, ResumeSender, SenderStatus,
               NotifySender, Exec
  <2>4. ~Take(m)
    BY <2>1 DEF Take, SenderLabels
  <2> QED BY <1>0, <1>2, <1>9, <2>1, <2>2, <2>3, <2>4, NoticedStays
<1> QED BY <1>3, <1>4, <1>6, <1>7, <1>8, <1>9

(* Sending.  When n has been told nothing, fewer records are queued than   *)
(* it has senders: a push does not fill the queue, and a sender does not   *)
(* find it full.                                                           *)
LEMMA NoticedSending ==
  ASSUME PeekedInv, NEW m \in Modules, SendStep(m), NEW n \in Modules \ Inputs, Noticed(n)
  PROVE  Noticed(n)'
<1> DEFINE P == Pushers(n, pc, loc)
           Q == Pushers(n, pc', loc')
<1>0. TypeInv /\ HandlerStep(m)
  BY DEF PeekedInv, HandlerStep
<1>1. /\ queue \in [Modules -> Seq(Records)] /\ pc \in [Modules -> Labels]
      /\ loc \in [Modules -> Locals] /\ Limit \in Nat
  BY <1>0, BoundsAssumption DEF TypeInv, TypeOK
<1>2. UNCHANGED status /\ pc[m] \in Sending \cup {"generate", "repost"}
  BY DEF SendStep, Generate, GenerateDrop, MaxCountReached, Repost, Push, PausePosted, CanSend,
     Notify, LookAtSize, PushSized, Sent, SendVars, InputVars, Sending
<1>3. ~Take(m) /\ Relies(pc[m])
  BY <1>2 DEF Take, Relies, Sending
<1>4. Relies(pc'[n]) => Relies(pc[n])
  <2>1. n # m => pc'[n] = pc[n]
    BY <1>0, HandlersKept
  <2> QED BY <1>3, <2>1
<1>5. ASSUME queue'[n] = queue[n], m \notin P \/ m \in Q
      PROVE  Noticed(n)'
  <2>1. Len(queue'[n]) <= Len(queue[n])
    BY <1>1, <1>5
  <2> QED BY <1>0, <1>2, <1>3, <1>4, <1>5, <2>1, NoticedStays
<1>6. m \in P <=> pc[m] \in {"can_send", "notify"} /\ Target(m) = n
  BY DEF Pushers, Target
<1>7. CASE Generate(m) \/ GenerateDrop(m) \/ MaxCountReached(m) \/ Repost(m)
  <2>1. UNCHANGED queue /\ pc[m] \notin {"can_send", "notify"}
    BY <1>7 DEF Generate, GenerateDrop, MaxCountReached, Repost, InputVars
  <2> QED BY <1>5, <1>6, <2>1
<1>8. CASE PausePosted(m) \/ LookAtSize(m) \/ Sent(m)
  <2>1. UNCHANGED queue /\ pc[m] \notin {"can_send", "notify"}
    BY <1>8 DEF PausePosted, LookAtSize, Sent
  <2> QED BY <1>5, <1>6, <2>1
<1>9. (status[n] = "RUNNING" /\ Relies(pc[n]) /\ ~Told(events[n])) =>
         Len(queue[n]) <= Cardinality(P)
  BY DEF Noticed
<1>10. /\ Cardinality(P) \in Nat /\ Cardinality(P) < Limit /\ Len(queue[n]) \in Nat
       /\ m \in Range(Senders[n]) /\ m \notin P => Cardinality(P) + 1 < Limit
       /\ Cardinality(Q) \in Nat
       /\ m \notin P /\ m \in Q => Cardinality(P) + 1 = Cardinality(Q)
  <2>1. Len(queue[n]) \in Nat
    BY <1>1
  <2> QED BY <1>0, <2>1, PushersFacts, PushersStep
<1>11. ~Told(events'[n]) => ~Told(events[n])
  BY <1>0, <1>3, ToldKept
<1>12. ASSUME n # Target(m), m \notin P PROVE Noticed(n)'
  <2>1. CASE UNCHANGED queue
    BY <1>5, <1>12, <2>1
  <2>2. CASE queue' = [queue EXCEPT ![Target(m)] = Append(queue[Target(m)], loc[m].rec)]
    <3>1. queue'[n] = queue[n]
      BY <1>1, <1>12, <2>2
    <3> QED BY <1>5, <1>12, <3>1
  <2> QED BY <2>1, <2>2 DEF SendStep, Generate, GenerateDrop, MaxCountReached, Repost, Push,
             PausePosted, CanSend, Notify, LookAtSize, PushSized, Sent, InputVars
<1>13. CASE Push(m) \/ PushSized(m)
  <2>1. /\ queue' = [queue EXCEPT ![Target(m)] = Append(queue[Target(m)], loc[m].rec)]
        /\ pc[m] \in {"push", "push_sized"} /\ loc' = [loc EXCEPT ![m].sent = TRUE]
    BY <1>13 DEF Push, PushSized
  <2>2. m \notin P
    BY <1>6, <2>1
  <2>3. CASE Target(m) = n
    <3>1. m \in Range(Senders[n]) /\ loc[m].rec \in Records
      BY <1>0, <2>1, <2>3, TargetFacts DEF Sending
    <3>2. Len(queue'[n]) = Len(queue[n]) + 1
      <4>1. queue'[n] = Append(queue[n], loc[m].rec) /\ queue[n] \in Seq(Records)
        BY <1>1, <2>1, <2>3
      <4> QED BY <3>1, <4>1
    <3>3. SUFFICES ASSUME status'[n] = "RUNNING" /\ Relies(pc'[n]) /\ ~Told(events'[n])
                   PROVE  Len(queue'[n]) <= Cardinality(Q)
      BY DEF Noticed
    <3>4. Len(queue[n]) <= Cardinality(P)
      BY <1>2, <1>4, <1>9, <1>11, <3>3
    <3>5. Len(queue[n]) + 1 < Limit
      BY <1>1, <1>10, <2>2, <3>1, <3>4
    <3>6. pc'[m] \in {"can_send", "notify"}
      BY <1>1, <1>13, <2>3, <3>5 DEF Push, PushSized, Goto
    <3>7. loc'[m].t = loc[m].t
      <4>1. loc'[m] = [loc[m] EXCEPT !.sent = TRUE] /\ loc[m] \in Locals
        BY <1>1, <2>1
      <4> QED BY <4>1 DEF Locals
    <3>8. m \in Q
      BY <2>3, <3>6, <3>7 DEF Pushers, Target
    <3> HIDE DEF P, Q
    <3> QED BY <1>10, <2>2, <3>2, <3>4, <3>8
  <2> QED BY <1>12, <2>2, <2>3
<1>14. CASE CanSend(m)
  <2>1. CASE Target(m) = n /\ Len(queue[n]) >= Limit
    <3>1. Noticed(n)' \/ (status[n] = "RUNNING" /\ Relies(pc[n]) /\ ~Told(events[n]))
      BY <1>2, <1>4, <1>11 DEF Noticed
    <3> HIDE DEF P, Q
    <3> QED BY <1>1, <1>9, <1>10, <2>1, <3>1
  <2>2. CASE Target(m) = n /\ ~(Len(queue[n]) >= Limit)
    <3>1. Goto(m, "notify") /\ UNCHANGED <<loc, queue>>
      BY <1>14, <2>2 DEF CanSend
    <3>2. m \in Q
      BY <1>1, <2>2, <3>1 DEF Pushers, Target, Goto
    <3> QED BY <1>5, <3>1, <3>2
  <2>3. CASE Target(m) # n
    BY <1>6, <1>12, <2>3
  <2> QED BY <2>1, <2>2, <2>3
<1>15. CASE Notify(m)
  <2>1. CASE Target(m) = n
    <3>1. Told(events'[n])
      BY <1>0, <1>15, <2>1, PostTells DEF Notify
    <3> QED BY <3>1 DEF Noticed
  <2>2. CASE Target(m) # n
    BY <1>6, <1>12, <2>2
  <2> QED BY <2>1, <2>2
<1> QED BY <1>7, <1>8, <1>13, <1>14, <1>15 DEF SendStep

(* Every step keeps the receivers notified.                                *)
LEMMA NotifiedNext ==
  NotifiedInv /\ [Next]_vars => NotifiedInv'
<1> SUFFICES ASSUME NotifiedInv, [Next]_vars PROVE NotifiedInv'
  OBVIOUS
<1>0. PeekedInv /\ TypeInv /\ PeekedInv'
  BY PeekedNext DEF NotifiedInv, PeekedInv
<1> SUFFICES ASSUME NEW n \in Modules \ Inputs PROVE Noticed(n)'
  BY <1>0 DEF NotifiedInv
<1>1. Noticed(n)
  BY DEF NotifiedInv
<1>2. CASE UNCHANGED vars
  BY <1>1, <1>2 DEF vars, Noticed
<1>3. CASE StartModule
  <2>1. PostsTo(Head(starting), "START") /\ UNCHANGED <<status, pc, loc, queue>>
    BY <1>0, <1>3, StartPosts DEF StartModule
  <2>2. Told(events[n]) => Told(events'[n])
    <3> DEFINE k == Head(starting)
    <3>1. /\ events' = [events EXCEPT ![k] = Enqueue(events[k], Ev("START"))]
          /\ "START" \in EventTypes /\ events \in [Modules -> Seq(Evs)]
      BY <1>0, <2>1 DEF PostsTo, Post, TypeInv, TypeOK, Evs
    <3> HIDE DEF k, Evs, EventTypes
    <3>2. CASE n = k
      <4>1. events'[n] = Enqueue(events[n], Ev("START"))
        BY <3>1, <3>2
      <4> QED BY <3>1, <4>1, EnqueueTold
    <3>3. CASE n # k
      BY <3>1, <3>3
    <3> QED BY <3>2, <3>3
  <2> QED BY <1>1, <2>1, <2>2 DEF Noticed
<1>4. ASSUME NEW m \in Modules, Take(m) \/ HandlerStep(m) PROVE Noticed(n)'
  BY <1>0, <1>1, <1>4, NoticedReceiving, NoticedSending DEF HandlerStep
<1> QED BY <1>2, <1>3, <1>4 DEF Next

(* Nothing is queued for anybody when the program starts.                  *)
LEMMA NotifiedInit ==
  Init => NotifiedInv
<1> SUFFICES ASSUME Init PROVE NotifiedInv
  OBVIOUS
<1>1. \A m \in Modules : status[m] = "STOPPED"
  BY DEF Init
<1> QED BY <1>1, PeekedInit DEF NotifiedInv, Noticed

(* No record is forgotten in a queue: a running, idle module whose queue   *)
(* is not empty has a DATA_AVAILABLE pending or a sender about to post     *)
(* one, although a push that fills the queue does not notify and the       *)
(* event lists drop duplicates; for every set of routes in which no queue  *)
(* has as many senders as places.                                          *)
THEOREM NeverForgotten ==
  Spec => []Notified
<1>1. NotifiedInv => Notified
  <2> SUFFICES ASSUME NotifiedInv, NEW m \in Modules \ Inputs,
                      status[m] = "RUNNING", pc[m] = "idle", queue[m] # <<>>,
                      ~(Ev("DATA_AVAILABLE") \in Range(events[m]))
               PROVE  \E s \in Modules : pc[s] \in {"can_send", "notify"} /\ Target(s) = m
    BY DEF Notified
  <2>0. TypeInv /\ Noticed(m)
    BY DEF NotifiedInv, PeekedInv
  <2>1. events[m] \in Seq(Evs) /\ queue[m] \in Seq(Records)
    BY <2>0 DEF TypeInv, TypeOK, Evs
  <2>2. ~Told(events[m])
    BY <2>1 DEF Told, Range
  <2>3. Len(queue[m]) <= Cardinality(Pushers(m, pc, loc)) /\ Len(queue[m]) \in Nat \ {0}
    BY <2>0, <2>1, <2>2 DEF Noticed, Relies
  <2>4. Cardinality(Pushers(m, pc, loc)) \in Nat
    BY <2>0, PushersFacts
  <2>5. Pushers(m, pc, loc) # {}
    <3> DEFINE P == Pushers(m, pc, loc)
    <3> HIDE DEF P
    <3>1. Cardinality(P) # 0
      BY <2>3, <2>4 DEF P
    <3> QED BY <3>1, FS_EmptySet DEF P
  <2> QED BY <2>5 DEF Pushers, Target
<1> QED BY <1>1, NotifiedInit, NotifiedNext, PTL DEF Spec

-----------------------------------------------------------------------------
(* The status a module comes to when its handler and its events are done.  *)
Heading(s, p) ==
  CASE p \in {"pause_cb", "pause"} -> "PAUSED"
    [] p \in {"resume_cb", "resume", "start_cb", "start"} -> "RUNNING"
    [] OTHER -> s

Fate(m) == FinalStatus(Heading(status[m], pc[m]), events[m])

(* Every module is started, and nothing stops it.                          *)
HasEvent(q, t) == \E x \in 1..Len(q) : q[x] = Ev(t)

Begun(m) ==
  /\ ~HasEvent(events[m], "STOP")
  /\ status[m] = "STOPPED" =>
        /\ pc[m] \in {"idle", "start_cb", "start"}
        /\ \/ m \in Range(starting) \/ HasEvent(events[m], "START")
           \/ pc[m] \in {"start_cb", "start"}

(* An output is not paused, and has records before it is told of them.     *)
Offers(o, pcs, locs) ==
  {s \in Modules : pcs[s] \in {"pause_self", "can_send", "notify"} /\ Targets[s][locs[s].t] = o}

Open(o) ==
  /\ status[o] # "PAUSED" /\ ~HasEvent(events[o], "PAUSE")
  /\ pc[o] \notin {"pause", "resume", "resume_queued"}
  /\ status[o] = "STOPPED" /\ (Told(events[o]) \/ Offers(o, pc, loc) # {}) => queue[o] # <<>>

(* Output o will look at its senders, and has still to come to input i.    *)
Alert(o) ==
  \/ Told(events[o])
  \/ Pushers(o, pc, loc) # {}
  \/ pc[o] \in {"peek", "self_notify"}
  \/ queue[o] # <<>> /\ (status[o] = "STOPPED" \/ pc[o] = "start_queued")

InLoop(o, i) ==
  /\ pc[o] \in {"check_sender", "resume_sender"}
  /\ \E x \in 1..Len(Senders[o]) : loc[o].s <= x /\ Senders[o][x] = i

Watched(i) == \E o \in Range(Checked[i]) : Alert(o) \/ InLoop(o, i)

QueuedAlerts == \A o \in Outputs : Open(o) /\ queue[o] # <<>> => Alert(o)

SuspendInv ==
  /\ \A m \in Modules : Begun(m)
  /\ \A o \in Outputs : Open(o)
  /\ \A i \in Inputs : Fate(i) = "PAUSED" => Watched(i)

-----------------------------------------------------------------------------
(* What happens to the events of one type.                                 *)
LEMMA HasPosted ==
  ASSUME NEW q \in Seq(Evs), NEW t \in EventTypes
  PROVE  \A u : HasEvent(Enqueue(q, Ev(t)), u) <=> HasEvent(q, u) \/ Ev(u) = Ev(t)
<1> DEFINE d == Enqueue(q, Ev(t))
<1>0. Posted(q, t, d)
  BY PostedFacts
<1> HIDE DEF d
<1>1. /\ \A x \in 1..Len(d) : \/ x \in 1..Len(q) /\ d[x] = q[x]
                              \/ x = Len(q) + 1 /\ d[x] = Ev(t)
      /\ \A x \in 1..Len(q) : \E y \in 1..Len(d) : d[y] = q[x]
      /\ \E y \in 1..Len(d) : d[y] = Ev(t)
  BY <1>0 DEF Posted
<1> QED BY <1>1 DEF HasEvent, d

(* The first event is taken.                                               *)
LEMMA HasTail ==
  ASSUME NEW q \in Seq(Evs), q # <<>>
  PROVE  \A u : HasEvent(q, u) <=> HasEvent(Tail(q), u) \/ Head(q) = Ev(u)
<1> DEFINE r == Tail(q)
<1>1. /\ Head(q) = q[1] /\ Len(q) \in Nat \ {0}
      /\ Len(r) = Len(q) - 1 /\ \A i \in 1..Len(r) : r[i] = q[i + 1]
  OBVIOUS
<1>2. \A i \in 1..Len(r) : i + 1 \in 1..Len(q)
  BY <1>1
<1>3. \A i \in 1..Len(q) : i = 1 \/ (i - 1 \in 1..Len(r) /\ r[i - 1] = q[i])
  BY <1>1
<1>4. 1 \in 1..Len(q)
  BY <1>1
<1> HIDE DEF r
<1> QED BY <1>1, <1>2, <1>3, <1>4 DEF HasEvent, r

(* The READ event is unlinked.                                             *)
LEMMA HasRemoved ==
  ASSUME NEW q \in Seq(Evs), NEW s \in Statuses
  PROVE  /\ \A u : u # "READ" => (HasEvent(RemoveFirst(q, Ev("READ")), u) <=> HasEvent(q, u))
         /\ FinalStatus(s, RemoveFirst(q, Ev("READ"))) = FinalStatus(s, q)
<1> DEFINE r == RemoveFirst(q, Ev("READ"))
<1>0. Len(q) \in Nat /\ Ev("READ").type = "READ" /\ \A u : Ev(u).type = u
  BY EvFacts
<1> SUFFICES ASSUME NEW k \in 1..Len(q), q[k] = Ev("READ"), Removed(q, r, k)
             PROVE  /\ \A u : u # "READ" => (HasEvent(r, u) <=> HasEvent(q, u))
                    /\ FinalStatus(s, r) = FinalStatus(s, q)
  BY RemoveShape
<1> HIDE DEF r
<1>1. /\ r \in Seq(Evs) /\ Len(r) = Len(q) - 1
      /\ \A x \in 1..Len(r) : r[x] = IF x < k THEN q[x] ELSE q[x + 1]
  BY DEF Removed
<1>2. \A x \in 1..Len(r) : \E y \in 1..Len(q) : r[x] = q[y]
  BY <1>0, <1>1
<1>3. ASSUME NEW y \in 1..Len(q), y # k PROVE \E x \in 1..Len(r) : r[x] = q[y]
  <2>1. CASE y < k
    <3>1. y \in 1..Len(r) /\ r[y] = q[y]
      BY <1>0, <1>1, <2>1
    <3> QED BY <3>1
  <2>2. CASE k < y
    <3>1. y - 1 \in 1..Len(r) /\ r[y - 1] = q[y]
      BY <1>0, <1>1, <2>2
    <3> QED BY <3>1
  <2> QED BY <1>0, <1>3, <2>1, <2>2
<1>4. \A u : u # "READ" => (HasEvent(r, u) <=> HasEvent(q, u))
  <2>1. \A u : u # "READ" => Ev(u) # Ev("READ")
    BY <1>0
  <2>2. \A u : HasEvent(r, u) => HasEvent(q, u)
    BY <1>2 DEF HasEvent
  <2>3. \A u : u # "READ" /\ HasEvent(q, u) => HasEvent(r, u)
    BY <1>3, <2>1 DEF HasEvent
  <2> QED BY <2>2, <2>3
<1> DEFINE f == Outcome(s, q)
           g == Outcome(s, r)
<1>5. /\ f \in [0..Len(q) -> Statuses] /\ f[0] = s
      /\ \A i \in 1..Len(q) : f[i] = StatusAfter(f[i - 1], q[i].type)
      /\ g[0] = s
      /\ \A i \in 1..Len(r) : g[i] = StatusAfter(g[i - 1], r[i].type)
  BY <1>1, OutcomeDef
<1>6. \A x : StatusAfter(x, "READ") = x
  BY DEF StatusAfter
<1> HIDE DEF f, g
<1>7. f[k] = f[k - 1]
  BY <1>0, <1>5, <1>6
<1> DEFINE at(x) == IF x < k THEN x ELSE x + 1
           T == {x \in Nat : x <= Len(r) => g[x] = f[at(x)]}
<1>8. 0 \in T
  <2>1. 0 < k /\ at(0) = 0
    BY <1>0
  <2> QED BY <1>5, <2>1
<1>9. ASSUME NEW x \in Nat, x \in T PROVE x + 1 \in T
  <2> SUFFICES ASSUME x + 1 <= Len(r) PROVE g[x + 1] = f[at(x + 1)]
    <3> HIDE DEF at
    <3> QED OBVIOUS
  <2>1. x + 1 \in 1..Len(r) /\ (x + 1) - 1 = x /\ x <= Len(r) /\ g[x] = f[at(x)]
    BY <1>0, <1>1, <1>9
  <2>2. g[x + 1] = StatusAfter(f[at(x)], r[x + 1].type)
    BY <1>5, <2>1
  <2>3. CASE x + 1 < k
    <3>1. at(x) = x /\ at(x + 1) = x + 1 /\ r[x + 1] = q[x + 1] /\ x + 1 \in 1..Len(q)
      BY <1>0, <1>1, <2>1, <2>3, SMTT(40)
    <3> QED BY <1>5, <2>1, <2>2, <3>1
  <2>4. CASE ~(x + 1 < k)
    <3>1. /\ at(x + 1) = x + 2 /\ r[x + 1] = q[x + 2] /\ x + 2 \in 1..Len(q)
          /\ (x + 2) - 1 = x + 1
      BY <1>0, <1>1, <2>1, <2>4
    <3>2. f[at(x)] = f[x + 1]
      <4>1. CASE x < k
        <5>1. x + 1 = k /\ at(x) = x /\ k - 1 = x
          BY <1>0, <2>4, <4>1
        <5> QED BY <5>1, <1>7
      <4>2. CASE ~(x < k)
        BY <4>2
      <4> QED BY <4>1, <4>2
    <3>3. f[x + 2] = StatusAfter(f[x + 1], q[x + 2].type)
      BY <1>5, <3>1
    <3> QED BY <2>2, <3>1, <3>2, <3>3
  <2> QED BY <2>3, <2>4
<1>10. Nat \subseteq T
  <2> HIDE DEF T
  <2> QED BY <1>8, <1>9, SetInduction
<1>11. g[Len(r)] = f[at(Len(r))]
  BY <1>0, <1>1, <1>10
<1>12. f[at(Len(r))] = f[Len(q)]
  <2>1. CASE k = Len(q)
    BY <1>0, <1>1, <1>7, <2>1
  <2>2. CASE k # Len(q)
    <3>1. at(Len(r)) = Len(q)
      BY <1>0, <1>1, <2>2
    <3> QED BY <3>1
  <2> QED BY <2>1, <2>2
<1> QED BY <1>4, <1>11, <1>12 DEF FinalStatus, f, g, r

-----------------------------------------------------------------------------
(* A step of module m leaves another one's handler and status alone and    *)
(* takes nothing from its queue.                                           *)
LEMMA OtherStays ==
  ASSUME PeekedInv, NEW m \in Modules, Take(m) \/ HandlerStep(m), NEW n \in Modules \ {m}
  PROVE  /\ status'[n] = status[n] /\ pc'[n] = pc[n] /\ loc'[n] = loc[n]
         /\ \/ queue'[n] = queue[n]
            \/ /\ pc[m] \in {"push", "push_sized"} /\ n = Target(m)
               /\ queue'[n] = Append(queue[n], loc[m].rec)
         /\ queue[n] # <<>> => queue'[n] # <<>>
<1>0. TypeInv
  BY DEF PeekedInv
<1>1. /\ queue \in [Modules -> Seq(Records)] /\ status \in [Modules -> Statuses]
  BY <1>0 DEF TypeInv, TypeOK
<1>2. pc'[n] = pc[n] /\ loc'[n] = loc[n]
  BY <1>0, HandlersKept
<1>3. status'[n] = status[n]
  <2>1. UNCHANGED status \/ \E s : status' = [status EXCEPT ![m] = s]
    BY DEF Take, HandlerStep, ControlStep, StartCallback, StartSelf, StartQueued, PauseCallback,
       PauseSelf, ResumeCallback, ResumeSelf, ResumeQueued, ReceiveStep, Peek, SelfNotify,
       CheckSender, ResumeSender, SenderStatus, NotifySender, Exec, ExecDrop, Pop, DataVars,
       SendStep, Generate, GenerateDrop, MaxCountReached, Repost, Push, PausePosted,
       CanSend, Notify, LookAtSize, PushSized, Sent, SendVars, InputVars
  <2> QED BY <1>1, <2>1
<1>4. \/ queue'[n] = queue[n]
      \/ /\ pc[m] \in {"push", "push_sized"} /\ n = Target(m)
         /\ queue'[n] = Append(queue[n], loc[m].rec)
  <2>1. \/ UNCHANGED queue
        \/ queue' = [queue EXCEPT ![m] = Tail(queue[m])]
        \/ /\ pc[m] \in {"push", "push_sized"}
           /\ queue' = [queue EXCEPT ![Target(m)] = Append(queue[Target(m)], loc[m].rec)]
    BY <1>0, QueueSteps, Zenon DEF QueueStep
  <2> QED BY <1>1, <2>1
<1>5. queue[n] # <<>> => queue'[n] # <<>>
  <2>1. CASE queue'[n] = queue[n]
    BY <2>1
  <2>2. CASE pc[m] \in {"push", "push_sized"} /\ queue'[n] = Append(queue[n], loc[m].rec)
    <3>1. loc[m].rec \in Records /\ queue[n] \in Seq(Records)
      BY <1>0, <1>1, <2>2, TargetFacts DEF Sending
    <3> QED BY <2>2, <3>1
  <2> QED BY <1>4, <2>1, <2>2
<1> QED BY <1>2, <1>3, <1>4, <1>5

(* What a step of a handler of m that unlinks nothing does to the events   *)
(* of n.                                                                   *)
LEMMA EventChange ==
  ASSUME TypeInv, NEW m \in Modules, HandlerStep(m), ~Unlinks(m), NEW n \in Modules
  PROVE  \/ events'[n] = events[n]
         \/ \E t \in {"READ", "DATA_AVAILABLE", "RESUME", "PAUSE"} :
               /\ events'[n] = Enqueue(events[n], Ev(t))
               /\ PostsAs(m, n, t) \/ (t = "READ" /\ n = m /\ m \in Inputs)
<1>1. events \in [Modules -> Seq(Evs)]
  BY DEF TypeInv, TypeOK, Evs
<1> HIDE DEF Evs
<1>2. CASE UNCHANGED events
  BY <1>2
<1>3. ASSUME NEW k, NEW t, PostsTo(k, t), PostsAs(m, k, t)
      PROVE  \/ events'[n] = events[n]
             \/ \E u \in {"READ", "DATA_AVAILABLE", "RESUME", "PAUSE"} :
                   events'[n] = Enqueue(events[n], Ev(u)) /\ PostsAs(m, n, u)
  <2>1. k \in Modules /\ events' = [events EXCEPT ![k] = Enqueue(events[k], Ev(t))]
    BY <1>3 DEF PostsTo, Post
  <2>2. t \in {"DATA_AVAILABLE", "RESUME", "PAUSE"}
    BY <1>3 DEF PostsAs
  <2>3. CASE n = k
    BY <1>1, <1>3, <2>1, <2>2, <2>3
  <2>4. CASE n # k
    BY <1>1, <2>1, <2>4
  <2> QED BY <2>3, <2>4
<1>4. CASE m \in Inputs /\ PostsTo(m, "READ")
  <2>1. events' = [events EXCEPT ![m] = Enqueue(events[m], Ev("READ"))]
    BY <1>4 DEF PostsTo, Post
  <2>2. CASE n = m
    BY <1>1, <1>4, <2>1, <2>2
  <2>3. CASE n # m
    BY <1>1, <2>1, <2>3
  <2> QED BY <2>2, <2>3
<1> QED BY <1>2, <1>3, <1>4, StepPosts

(* The lists of the pause and resume callbacks.                            *)
LEMMA UnlinkChange ==
  ASSUME TypeInv, NEW m \in Modules, Unlinks(m)
  PROVE  /\ m \in Inputs
         /\ \A n \in Modules \ {m} : events'[n] = events[n]
         /\ \A u : u # "READ" => (HasEvent(events'[m], u) <=> HasEvent(events[m], u))
         /\ \A s \in Statuses : FinalStatus(s, events'[m]) = FinalStatus(s, events[m])
<1>1. events \in [Modules -> Seq(Evs)] /\ events[m] \in Seq(Evs)
  BY DEF TypeInv, TypeOK, Evs
<1>2. m \in Inputs
  BY HandlerFacts DEF Unlinks, PauseCallback, ResumeCallback, Handler, InputLabels
<1> DEFINE q == events[m]
           r == RemoveFirst(q, Ev("READ"))
           a == IF readev[m] THEN r ELSE q
           d == Enqueue(a, Ev("READ"))
<1> HIDE DEF Evs
<1>3. events' = [events EXCEPT ![m] = a] \/ events' = [events EXCEPT ![m] = d]
  BY <1>1 DEF Unlinks, PauseCallback, ResumeCallback
<1>4. "READ" \in EventTypes /\ Ev("READ") \in Evs /\ \A u : Ev(u).type = u
  BY EvFacts
<1>5. /\ r \in Seq(Evs)
      /\ \A s \in Statuses : FinalStatus(s, r) = FinalStatus(s, q)
      /\ \A u : u # "READ" => (HasEvent(r, u) <=> HasEvent(q, u))
  <2>1. "RUNNING" \in Statuses
    BY DEF Statuses
  <2> HIDE DEF Statuses
  <2> QED BY <1>1, <2>1, RemoveFacts, HasRemoved
<1> HIDE DEF r, q, Statuses, EventTypes
<1>6. /\ a \in Seq(Evs)
      /\ \A s \in Statuses : FinalStatus(s, a) = FinalStatus(s, q)
      /\ \A u : u # "READ" => (HasEvent(a, u) <=> HasEvent(q, u))
  BY <1>1, <1>5 DEF q
<1> HIDE DEF a
<1>7. ASSUME NEW u, u # "READ" PROVE HasEvent(d, u) <=> HasEvent(q, u)
  <2>1. Ev(u) # Ev("READ")
    BY <1>4, <1>7
  <2> QED BY <1>4, <1>6, <1>7, <2>1, HasPosted
<1>8. ASSUME NEW s \in Statuses PROVE FinalStatus(s, d) = FinalStatus(s, q)
  <2>1. FinalStatus(s, d) = StatusAfter(FinalStatus(s, a), "READ")
    BY <1>4, <1>6, EnqueueFacts
  <2>2. \A x : StatusAfter(x, "READ") = x
    BY DEF StatusAfter
  <2> QED BY <1>6, <2>1, <2>2
<1> HIDE DEF d
<1>9. \A n \in Modules \ {m} : events'[n] = events[n]
  BY <1>1, <1>3
<1>10. events'[m] = a \/ events'[m] = d
  BY <1>1, <1>3
<1> QED BY <1>2, <1>6, <1>7, <1>8, <1>9, <1>10 DEF q

-----------------------------------------------------------------------------
(* Every module has been started, or is going to be.                       *)
LEMMA BegunKept ==
  ASSUME PeekedInv, NEW m \in Modules, Take(m) \/ HandlerStep(m), NEW n \in Modules, Begun(n)
  PROVE  Begun(n)'
<1>0. TypeInv /\ UNCHANGED starting
  BY StatusKept DEF PeekedInv
<1>1. /\ events \in [Modules -> Seq(Evs)] /\ events[n] \in Seq(Evs)
      /\ status \in [Modules -> Statuses] /\ pc \in [Modules -> Labels]
  BY <1>0 DEF TypeInv, TypeOK, Evs
<1>2. \A t : Ev(t).type = t
  BY EvFacts
<1>3. ~HasEvent(events'[n], "STOP") /\ (HasEvent(events[n], "START") /\ ~(n = m /\ Take(m)) => HasEvent(events'[n], "START"))
  <2> HIDE DEF Evs, Statuses, Labels
  <2>1. ~HasEvent(events[n], "STOP")
    BY DEF Begun
  <2>2. CASE events'[n] = events[n]
    BY <2>1, <2>2
  <2>3. CASE n = m /\ Take(m)
    <3>1. events[n] # <<>> /\ events'[n] = Tail(events[n])
      BY <1>1, <2>3 DEF Take
    <3> QED BY <1>1, <2>1, <2>3, <3>1, HasTail
  <2>4. CASE n # m /\ Take(m)
    BY <1>1, <2>2, <2>4 DEF Take
  <2>5. CASE Unlinks(m)
    <3>1. n = m \/ events'[n] = events[n]
      BY <1>0, <2>5, UnlinkChange
    <3> QED BY <1>0, <2>1, <2>2, <2>5, <3>1, UnlinkChange
  <2>6. ASSUME NEW t \in {"READ", "DATA_AVAILABLE", "RESUME", "PAUSE"},
               events'[n] = Enqueue(events[n], Ev(t))
        PROVE  /\ ~HasEvent(events'[n], "STOP")
               /\ HasEvent(events[n], "START") => HasEvent(events'[n], "START")
    <3>1. t \in EventTypes /\ Ev(t) # Ev("STOP")
      BY <1>2, <2>6, EvFacts
    <3> QED BY <1>1, <2>1, <2>6, <3>1, HasPosted
  <2>7. CASE HandlerStep(m) /\ ~Unlinks(m)
    BY <1>0, <2>2, <2>6, <2>7, EventChange
  <2> QED BY <2>3, <2>4, <2>5, <2>7
<1> SUFFICES ASSUME status'[n] = "STOPPED"
             PROVE  /\ pc'[n] \in {"idle", "start_cb", "start"}
                    /\ \/ n \in Range(starting') \/ HasEvent(events'[n], "START")
                       \/ pc'[n] \in {"start_cb", "start"}
  BY <1>3 DEF Begun
<1>4. CASE n # m
  <2>1. status'[n] = status[n] /\ pc'[n] = pc[n]
    BY <1>4, OtherStays
  <2> QED BY <1>0, <1>3, <1>4, <2>1 DEF Begun
<1>5. CASE n = m
  <2>1. status[m] = "STOPPED"
    BY <1>1, <1>5 DEF Take, HandlerStep, ControlStep, StartCallback, StartSelf, StartQueued, PauseCallback,
       PauseSelf, ResumeCallback, ResumeSelf, ResumeQueued, ReceiveStep, Peek, SelfNotify,
       CheckSender, ResumeSender, SenderStatus, NotifySender, Exec, ExecDrop, Pop, DataVars,
       SendStep, Generate, GenerateDrop, MaxCountReached, Repost, Push, PausePosted,
       CanSend, Notify, LookAtSize, PushSized, Sent, SendVars, InputVars
  <2>2. /\ pc[m] \in {"idle", "start_cb", "start"}
        /\ \/ m \in Range(starting) \/ HasEvent(events[m], "START")
           \/ pc[m] \in {"start_cb", "start"}
    BY <1>5, <2>1 DEF Begun
  <2>3. CASE Take(m)
    <3> DEFINE e == Head(events[m])
    <3>1. /\ events[m] # <<>> /\ events'[m] = Tail(events[m]) /\ pc'[m] = Entry(m, e.type)
          /\ pc[m] = "idle"
      BY <1>1, <2>3 DEF Take, Goto
    <3>2. HasEvent(events[m], "START") => HasEvent(events'[m], "START") \/ e = Ev("START")
      <4> HIDE DEF Evs
      <4> QED BY <1>1, <1>5, <3>1, HasTail
    <3>3. e.type = "START" => pc'[m] \in {"start_cb", "start"}
      BY <2>1, <3>1 DEF Entry
    <3>4. e.type # "START" => pc'[m] = "idle"
      BY <2>1, <3>1 DEF Entry
    <3>5. e = Ev("START") => e.type = "START"
      BY <1>2
    <3> HIDE DEF e
    <3> QED BY <1>0, <1>5, <2>2, <3>1, <3>2, <3>3, <3>4, <3>5
  <2>4. CASE HandlerStep(m)
    <3>1. StartCallback(m) \/ StartSelf(m)
      BY <2>2, <2>4 DEF HandlerStep, ControlStep, StartQueued, PauseCallback,
       PauseSelf, ResumeCallback, ResumeSelf, ResumeQueued, ReceiveStep, Peek, SelfNotify,
       CheckSender, ResumeSender, SenderStatus, NotifySender, Exec, ExecDrop, Pop,
       SendStep, Generate, GenerateDrop, MaxCountReached, Repost, Push, PausePosted,
       CanSend, Notify, LookAtSize, PushSized, Sent
    <3>2. ~StartSelf(m)
      BY <1>1, <1>5 DEF StartSelf
    <3>3. pc'[m] = "start"
      BY <1>1, <3>1, <3>2 DEF StartCallback, Goto
    <3> QED BY <1>5, <3>3
  <2> QED BY <2>3, <2>4
<1> QED BY <1>4, <1>5

(* Nobody posts a PAUSE to an output.  It is first told of a record that   *)
(* is in its queue.                                                        *)
LEMMA OpenKept ==
  ASSUME PeekedInv, NEW m \in Modules, Take(m) \/ HandlerStep(m), NEW o \in Outputs,
         Begun(o), Open(o)
  PROVE  Open(o)'
<1>0. TypeInv /\ o \in Modules /\ o \notin Inputs
  BY KindFacts DEF PeekedInv
<1>1. /\ events \in [Modules -> Seq(Evs)] /\ events[o] \in Seq(Evs)
      /\ status \in [Modules -> Statuses] /\ pc \in [Modules -> Labels]
      /\ queue \in [Modules -> Seq(Records)] /\ loc \in [Modules -> Locals]
  BY <1>0 DEF TypeInv, TypeOK, Evs
<1>2. \A t : Ev(t).type = t
  BY EvFacts
<1>3. /\ ~HasEvent(events[o], "PAUSE") /\ status[o] # "PAUSED"
      /\ pc[o] \notin {"pause", "resume", "resume_queued"}
      /\ status[o] = "STOPPED" /\ (Told(events[o]) \/ Offers(o, pc, loc) # {}) => queue[o] # <<>>
  BY DEF Open
<1>35. pc[o] \notin Sending
  BY <1>0, HandlerFacts DEF Handler
<1>4. CASE o # m
  <2>1. /\ status'[o] = status[o] /\ pc'[o] = pc[o]
        /\ queue[o] # <<>> => queue'[o] # <<>>
        /\ \/ queue'[o] = queue[o]
           \/ o = Target(m) /\ queue'[o] = Append(queue[o], loc[m].rec)
    BY <1>0, <1>4, OtherStays
  <2>2. /\ ~HasEvent(events'[o], "PAUSE")
        /\ Told(events'[o]) => Told(events[o]) \/ (pc[m] = "notify" /\ Target(m) = o)
    <3>1. CASE events'[o] = events[o]
      BY <1>3, <3>1
    <3>2. CASE Take(m)
      BY <1>1, <1>4, <3>1, <3>2 DEF Take
    <3>3. CASE Unlinks(m)
      BY <1>0, <1>4, <3>1, <3>3, UnlinkChange
    <3>4. ASSUME NEW t \in {"READ", "DATA_AVAILABLE", "RESUME", "PAUSE"},
                 events'[o] = Enqueue(events[o], Ev(t)),
                 PostsAs(m, o, t) \/ (t = "READ" /\ o = m)
          PROVE  /\ ~HasEvent(events'[o], "PAUSE")
                 /\ Told(events'[o]) => Told(events[o]) \/ (pc[m] = "notify" /\ Target(m) = o)
      <4>1. CASE t = "DATA_AVAILABLE" /\ Notify(m) /\ o = Target(m)
        <5>1. Ev(t) # Ev("PAUSE") /\ t \in EventTypes
          BY <1>2, <4>1, EvFacts
        <5>2. ~HasEvent(events'[o], "PAUSE")
          <6> HIDE DEF Evs
          <6> QED BY <1>1, <1>3, <3>4, <5>1, HasPosted
        <5> QED BY <4>1, <5>2 DEF Notify
      <4>2. CASE t \in {"DATA_AVAILABLE", "RESUME"} /\ (NotifySender(m) \/ ResumeSender(m)) /\ o = Sender(m)
        <5>1. pc[m] \in SenderLabels
          BY <4>2 DEF NotifySender, ResumeSender, SenderLabels
        <5>2. m \notin Inputs /\ loc[m].s \in 1..Len(Senders[m])
          BY <1>0, <5>1, HandlerFacts DEF Handler, ReceiveLabels, PeekedLabels
        <5>3. Sender(m) \notin Outputs
          BY <5>2, WiringFacts DEF Sender
        <5> QED BY <4>2, <5>3
      <4> QED BY <1>4, <3>4, <4>1, <4>2 DEF PostsAs
    <3>5. CASE HandlerStep(m) /\ ~Unlinks(m)
      BY <1>0, <3>1, <3>4, <3>5, EventChange
    <3> QED BY <3>2, <3>3, <3>5
  <2>3. ASSUME Offers(o, pc', loc') # {}
        PROVE  Offers(o, pc, loc) # {} \/ queue'[o] # <<>>
    <3>1. PICK s \in Modules : /\ pc'[s] \in {"pause_self", "can_send", "notify"}
                               /\ Targets[s][loc'[s].t] = o
      BY <2>3 DEF Offers
    <3>2. CASE s # m
      <4>1. pc'[s] = pc[s] /\ loc'[s] = loc[s]
        BY <1>0, <3>2, HandlersKept
      <4> QED BY <3>1, <4>1 DEF Offers
    <3>3. CASE s = m
      <4>1. \/ /\ pc[m] \in {"push", "push_sized"} /\ loc' = [loc EXCEPT ![m].sent = TRUE]
               /\ queue' = [queue EXCEPT ![Target(m)] = Append(@, loc[m].rec)]
            \/ /\ pc[m] \in {"pause_self", "can_send"} /\ UNCHANGED loc
            \/ /\ LookAtSize(m) /\ Len(queue[Target(m)]) >= Limit
        BY <1>1, <3>1, <3>3 DEF Take, Entry, Goto, HandlerStep, ControlStep, StartCallback, StartSelf, StartQueued, PauseCallback,
       PauseSelf, ResumeCallback, ResumeSelf, ResumeQueued, ReceiveStep, Peek, SelfNotify,
       CheckSender, ResumeSender, SenderStatus, NotifySender, Exec, ExecDrop, Pop, Finish, NextSender, FirstTarget,
       SendStep, Generate, GenerateDrop, MaxCountReached, Repost, Push, PausePosted,
       CanSend, Notify, LookAtSize, PushSized, Sent, NextRound, NextTarget
      <4>2. CASE pc[m] \in {"push", "push_sized"} /\ loc' = [loc EXCEPT ![m].sent = TRUE]
                 /\ queue' = [queue EXCEPT ![Target(m)] = Append(@, loc[m].rec)]
        <5>1. loc'[m].t = loc[m].t
          <6>1. loc'[m] = [loc[m] EXCEPT !.sent = TRUE] /\ loc[m] \in Locals
            BY <1>1, <4>2
          <6> QED BY <6>1 DEF Locals
        <5>2. Target(m) = o
          BY <3>1, <3>3, <5>1 DEF Target
        <5>3. loc[m].rec \in Records /\ queue[o] \in Seq(Records)
          BY <1>0, <1>1, <4>2, TargetFacts DEF Sending
        <5>4. queue'[o] = Append(queue[o], loc[m].rec)
          BY <1>0, <1>1, <4>2, <5>2
        <5> QED BY <5>3, <5>4
      <4>3. CASE pc[m] \in {"pause_self", "can_send"} /\ UNCHANGED loc
        BY <3>1, <3>3, <4>3 DEF Offers
      <4>4. CASE LookAtSize(m) /\ Len(queue[Target(m)]) >= Limit
        <5>1. UNCHANGED <<loc, queue>>
          BY <4>4 DEF LookAtSize
        <5>2. Len(queue'[o]) >= Limit
          BY <3>1, <3>3, <4>4, <5>1 DEF Target
        <5> QED BY <5>2, BoundsAssumption
      <4> QED BY <4>1, <4>2, <4>3, <4>4
    <3> QED BY <3>2, <3>3
  <2>4. pc[m] = "notify" /\ Target(m) = o => Offers(o, pc, loc) # {}
    BY DEF Offers, Target
  <2> QED BY <1>3, <2>1, <2>2, <2>3, <2>4 DEF Open
<1>5. CASE o = m /\ Take(m)
  <2> DEFINE e == Head(events[o])
  <2>1. /\ events[o] # <<>> /\ events'[o] = Tail(events[o]) /\ pc'[o] = Entry(o, e.type)
        /\ UNCHANGED <<status, queue, loc>> /\ pc[o] = "idle" /\ e \in Evs
    BY <1>1, <1>5 DEF Take, Goto
  <2>2. /\ ~HasEvent(events'[o], "PAUSE") /\ e # Ev("PAUSE") /\ (Told(events'[o]) => Told(events[o]))
    <3> HIDE DEF Evs
    <3> QED BY <1>1, <1>3, <2>1, HasTail DEF Told, HasEvent
  <2>3. e.type # "PAUSE"
    BY <2>1, <2>2, EvFacts
  <2>4. pc'[o] \notin {"pause", "resume", "resume_queued", "pause_self", "can_send", "notify"}
    BY <1>3, <2>1, <2>3 DEF Entry
  <2>5. Offers(o, pc', loc') \subseteq Offers(o, pc, loc)
    <3> SUFFICES ASSUME NEW s \in Offers(o, pc', loc') PROVE s \in Offers(o, pc, loc)
      OBVIOUS
    <3>1. s \in Modules /\ s # o
      BY <2>4 DEF Offers
    <3>2. pc'[s] = pc[s] /\ loc'[s] = loc[s]
      BY <1>0, <1>5, <3>1, HandlersKept
    <3> QED BY <3>1, <3>2 DEF Offers
  <2> QED BY <1>3, <2>1, <2>2, <2>4, <2>5 DEF Open
<1>6. CASE o = m /\ HandlerStep(m)
  <2>1. ~Unlinks(m)
    BY <1>0, <1>6, UnlinkChange
  <2>2. ~HasEvent(events'[o], "PAUSE")
    <3>1. CASE events'[o] = events[o]
      BY <1>3, <3>1
    <3>2. ASSUME NEW t \in {"READ", "DATA_AVAILABLE", "RESUME", "PAUSE"},
                 events'[o] = Enqueue(events[o], Ev(t)), t # "PAUSE"
          PROVE  ~HasEvent(events'[o], "PAUSE")
      <4>1. t \in EventTypes /\ Ev(t) # Ev("PAUSE")
        BY <1>2, <3>2, EvFacts
      <4> HIDE DEF Evs
      <4> QED BY <1>1, <1>3, <3>2, <4>1, HasPosted
    <3>3. ~PausePosted(m)
      BY <1>35, <1>6 DEF PausePosted, Sending
    <3>4. ~PostsAs(m, o, "PAUSE")
      BY <3>3 DEF PostsAs
    <3> QED BY <1>0, <1>6, <2>1, <3>1, <3>2, <3>4, EventChange
  <2>3. CASE status[o] = "STOPPED"
    <3>1. pc[o] = "start" \/ pc[o] = "start_cb"
      BY <1>6, <2>3 DEF Begun, HandlerStep, ControlStep, StartCallback, StartSelf, StartQueued, PauseCallback,
       PauseSelf, ResumeCallback, ResumeSelf, ResumeQueued, ReceiveStep, Peek, SelfNotify,
       CheckSender, ResumeSender, SenderStatus, NotifySender, Exec, ExecDrop, Pop,
       SendStep, Generate, GenerateDrop, MaxCountReached, Repost, Push, PausePosted,
       CanSend, Notify, LookAtSize, PushSized, Sent
    <3>2. StartSelf(m)
      BY <1>0, <1>6, <3>1, HandlerFacts DEF HandlerStep, Handler, InputLabels, ControlStep, StartCallback, StartSelf, StartQueued, PauseCallback,
       PauseSelf, ResumeCallback, ResumeSelf, ResumeQueued, ReceiveStep, Peek, SelfNotify,
       CheckSender, ResumeSender, SenderStatus, NotifySender, Exec, ExecDrop, Pop,
       SendStep, Generate, GenerateDrop, MaxCountReached, Repost, Push, PausePosted,
       CanSend, Notify, LookAtSize, PushSized, Sent
    <3>3. status'[o] = "RUNNING" /\ pc'[o] = "start_queued"
      BY <1>0, <1>1, <1>6, <3>2 DEF StartSelf, Goto
    <3> QED BY <2>2, <3>3 DEF Open
  <2>4. CASE status[o] = "RUNNING"
    <3>1. ~PauseSelf(m) /\ ~ResumeSelf(m)
      BY <1>3, <1>6 DEF PauseSelf, ResumeSelf
    <3>2. status'[o] = "RUNNING"
      BY <1>0, <1>1, <1>6, <2>4, <3>1 DEF HandlerStep, ControlStep, StartCallback, StartSelf, StartQueued, PauseCallback,
         ResumeCallback, ResumeQueued, ReceiveStep, Peek, SelfNotify,
         CheckSender, ResumeSender, SenderStatus, NotifySender, Exec, ExecDrop, Pop, DataVars,
         SendStep, Generate, GenerateDrop, MaxCountReached, Repost, Push, PausePosted,
         CanSend, Notify, LookAtSize, PushSized, Sent, SendVars, InputVars
    <3>3. pc[o] \notin InputLabels
      BY <1>0, HandlerFacts DEF Handler
    <3>4. pc'[o] \notin {"pause", "resume", "resume_queued"}
      BY <1>0, <1>1, <1>6, <3>1, <3>3 DEF InputLabels, HandlerStep, ControlStep, StartCallback, StartSelf, StartQueued, PauseCallback,
         ResumeCallback, ResumeQueued, ReceiveStep, Peek, SelfNotify, Goto, Finish, NextSender, FirstTarget, NextRound, NextTarget,
         CheckSender, ResumeSender, SenderStatus, NotifySender, Exec, ExecDrop, Pop,
         SendStep, Generate, GenerateDrop, MaxCountReached, Repost, Push, PausePosted,
         CanSend, Notify, LookAtSize, PushSized, Sent
    <3> QED BY <2>2, <3>2, <3>4 DEF Open
  <2> QED BY <1>1, <1>0, <1>3, <2>3, <2>4 DEF Statuses
<1> QED BY <1>4, <1>5, <1>6

-----------------------------------------------------------------------------
(* The status a module comes to changes when it posts a PAUSE to itself    *)
(* and when somebody posts it a RESUME.                                    *)
LEMMA FateKept ==
  ASSUME TypeInv, NEW m \in Modules, Take(m) \/ HandlerStep(m),
         NEW i \in Inputs, Begun(i), Fate(i)' = "PAUSED"
  PROVE  \/ m = i /\ PausePosted(m)
         \/ Fate(i) = "PAUSED" /\ ~(ResumeSender(m) /\ Sender(m) = i)
<1>0. i \in Modules
  BY KindFacts
<1>1. /\ events \in [Modules -> Seq(Evs)] /\ events[i] \in Seq(Evs)
      /\ status \in [Modules -> Statuses] /\ pc \in [Modules -> Labels]
  BY <1>0 DEF TypeInv, TypeOK, Evs
<1> DEFINE h == Heading(status[i], pc[i])
           k == Heading(status'[i], pc'[i])
<1>2. h \in Statuses
  BY <1>0, <1>1 DEF Heading, Statuses
<1>3. FinalStatus(k, events'[i]) = "PAUSED" /\ Fate(i) = FinalStatus(h, events[i])
  BY DEF Fate
<1>4. ASSUME Take(m), m = i PROVE Fate(i) = "PAUSED"
  <2> DEFINE e == Head(events[i])
  <2>1. /\ events[i] # <<>> /\ events'[i] = Tail(events[i]) /\ pc'[i] = Entry(i, e.type)
        /\ UNCHANGED status /\ pc[i] = "idle"
    BY <1>0, <1>1, <1>4 DEF Take, Goto
  <2>2. e \in Evs /\ e # Ev("STOP")
    <3>1. e \in Evs
      BY <1>1, <2>1
    <3> HIDE DEF Evs
    <3> QED BY <1>1, <2>1, <3>1, HasTail DEF Begun
  <2>3. e.type # "STOP"
    BY <2>2, EvFacts
  <2>4. h = status[i] /\ status[i] \in Statuses
    BY <1>0, <1>1, <2>1 DEF Heading
  <2>5. k = StatusAfter(status[i], e.type)
    BY <2>1, <2>3, <2>4 DEF Heading, Entry, StatusAfter, Statuses
  <2> HIDE DEF h, k, Evs
  <2>6. FinalStatus(StatusAfter(status[i], e.type), Tail(events[i])) = FinalStatus(status[i], events[i])
    BY <1>1, <2>1, <2>4, FinalStatusTail
  <2> QED BY <1>3, <2>1, <2>4, <2>5, <2>6
<1>5. CASE Take(m)
  <2>1. CASE m # i
    <3>1. events'[i] = events[i] /\ pc'[i] = pc[i] /\ status'[i] = status[i]
      BY <1>0, <1>1, <1>5, <2>1 DEF Take, Goto
    <3>2. ~ResumeSender(m)
      BY <1>5 DEF Take, ResumeSender
    <3> QED BY <1>3, <3>1, <3>2
  <2>2. ~ResumeSender(m)
    BY <1>5 DEF Take, ResumeSender
  <2> QED BY <1>4, <1>5, <2>1, <2>2
<1>6. CASE HandlerStep(m)
  <2>1. k = h
    <3>1. CASE m # i
      <4>1. UNCHANGED status \/ \E s : status' = [status EXCEPT ![m] = s]
        BY <1>6 DEF HandlerStep, ControlStep, StartCallback, StartSelf, StartQueued, PauseCallback,
           PauseSelf, ResumeCallback, ResumeSelf, ResumeQueued, ReceiveStep, Peek, SelfNotify,
           CheckSender, ResumeSender, SenderStatus, NotifySender, Exec, ExecDrop, Pop, DataVars,
           SendStep, Generate, GenerateDrop, MaxCountReached, Repost, Push, PausePosted,
           CanSend, Notify, LookAtSize, PushSized, Sent, SendVars, InputVars
      <4>2. status'[i] = status[i]
        BY <1>0, <1>1, <3>1, <4>1
      <4>3. pc'[i] = pc[i]
        BY <1>0, <3>1, HandlersKept
      <4> QED BY <4>2, <4>3
    <3>2. CASE m = i /\ ControlStep(m)
      BY <1>0, <1>1, <3>2 DEF ControlStep, StartCallback, StartSelf, StartQueued, PauseCallback,
           PauseSelf, ResumeCallback, ResumeSelf, ResumeQueued, Heading, Goto
    <3>3. CASE m = i /\ (ReceiveStep(m) \/ SendStep(m))
      <4>1. UNCHANGED status
        BY <3>3 DEF ReceiveStep, Peek, SelfNotify,
           CheckSender, ResumeSender, SenderStatus, NotifySender, Exec, ExecDrop, Pop, DataVars,
           SendStep, Generate, GenerateDrop, MaxCountReached, Repost, Push, PausePosted,
           CanSend, Notify, LookAtSize, PushSized, Sent, SendVars, InputVars
      <4> DEFINE Q == {"pause_cb", "pause", "resume_cb", "resume", "start_cb", "start"}
      <4>2. pc[i] \notin Q
        BY <3>3 DEF ReceiveStep, Peek, SelfNotify,
           CheckSender, ResumeSender, SenderStatus, NotifySender, Exec, ExecDrop, Pop,
           SendStep, Generate, GenerateDrop, MaxCountReached, Repost, Push, PausePosted,
           CanSend, Notify, LookAtSize, PushSized, Sent
      <4>3. pc'[i] \notin Q
        BY <1>0, <1>1, <3>3, <4>2 DEF ReceiveStep, Peek, SelfNotify, Goto, Finish, NextSender, FirstTarget,
           NextRound, NextTarget,
           CheckSender, ResumeSender, SenderStatus, NotifySender, Exec, ExecDrop, Pop,
           SendStep, Generate, GenerateDrop, MaxCountReached, Repost, Push, PausePosted,
           CanSend, Notify, LookAtSize, PushSized, Sent
      <4> QED BY <4>1, <4>2, <4>3 DEF Heading
    <3> QED BY <1>6, <3>1, <3>2, <3>3 DEF HandlerStep
  <2>2. FinalStatus(h, events'[i]) = "PAUSED"
    BY <1>3, <2>1
  <2> HIDE DEF h, k, Statuses, Evs
  <2>3. CASE Unlinks(m)
    <3>1. FinalStatus(h, events'[i]) = FinalStatus(h, events[i])
      BY <1>0, <1>2, <2>3, UnlinkChange
    <3>2. ~ResumeSender(m)
      BY <2>3 DEF Unlinks, PauseCallback, ResumeCallback, ResumeSender
    <3> QED BY <1>3, <2>2, <3>1, <3>2
  <2>4. CASE events'[i] = events[i]
    <3>1. ASSUME ResumeSender(m), Sender(m) = i PROVE FALSE
      <4>1. events' = [events EXCEPT ![i] = Enqueue(events[i], Ev("RESUME"))]
        BY <3>1 DEF ResumeSender, Post
      <4> DEFINE e == Ev("RESUME")
      <4>2. events[i] = Enqueue(events[i], e) /\ e \in Evs /\ e.type = "RESUME"
        BY <1>0, <1>1, <2>4, <4>1, EvFacts
      <4> HIDE DEF e
      <4>3. FinalStatus(h, events[i]) = StatusAfter(FinalStatus(h, events[i]), e.type)
        BY <1>1, <1>2, <4>2, EnqueueFacts, SMTT(40)
      <4> QED BY <2>2, <2>4, <4>2, <4>3 DEF StatusAfter
    <3> QED BY <1>3, <2>2, <2>4, <3>1
  <2>5. ASSUME NEW t \in {"READ", "DATA_AVAILABLE", "RESUME", "PAUSE"},
               events'[i] = Enqueue(events[i], Ev(t)),
               PostsAs(m, i, t) \/ (t = "READ" /\ i = m /\ m \in Inputs)
        PROVE  \/ m = i /\ PausePosted(m)
               \/ Fate(i) = "PAUSED" /\ ~(ResumeSender(m) /\ Sender(m) = i)
    <3>1. Ev(t) \in Evs /\ Ev(t).type = t
      BY EvFacts
    <3>2. FinalStatus(h, events'[i]) = StatusAfter(FinalStatus(h, events[i]), t)
      <4> DEFINE e == Ev(t)
      <4> HIDE DEF e
      <4>1. e \in Evs
        BY <3>1 DEF e
      <4>2. FinalStatus(h, Enqueue(events[i], e)) = StatusAfter(FinalStatus(h, events[i]), e.type)
        BY <1>1, <1>2, <4>1, EnqueueFacts
      <4> QED BY <2>5, <3>1, <4>2 DEF e
    <3>3. CASE t = "PAUSE"
      BY <2>5, <3>3 DEF PostsAs
    <3>4. CASE t = "RESUME"
      BY <2>2, <3>2, <3>4 DEF StatusAfter
    <3>5. CASE t \in {"READ", "DATA_AVAILABLE"}
      <4>1. FinalStatus(h, events[i]) = "PAUSED"
        BY <2>2, <3>2, <3>5 DEF StatusAfter
      <4>2. ASSUME ResumeSender(m), Sender(m) = i PROVE FALSE
        <5>1. m \notin Inputs
          BY <4>2, HandlerFacts DEF ResumeSender, Handler, ReceiveLabels, PeekedLabels, SenderLabels
        <5>2. PostsAs(m, i, t)
          BY <2>5, <5>1
        <5> QED BY <3>5, <4>2, <5>2 DEF PostsAs, ResumeSender, StartQueued, ResumeQueued, SelfNotify, Notify, NotifySender
      <4> QED BY <1>3, <4>1, <4>2
    <3> QED BY <3>3, <3>4, <3>5
  <2>6. CASE ~Unlinks(m)
    BY <1>0, <1>6, <2>4, <2>5, <2>6, EventChange
  <2> QED BY <2>3, <2>6
<1> QED BY <1>5, <1>6

-----------------------------------------------------------------------------
(* Without processors, the queues an input looks at are those of outputs   *)
(* that wake it up, and it hands its records to these.                     *)
LEMMA Direct ==
  ASSUME Processors = {}, NEW i \in Inputs
  PROVE  /\ \A o \in Range(Checked[i]) : o \in Outputs /\ i \in Range(Senders[o])
         /\ \A x \in 1..Len(Checked[i]) : Checked[i][x] \in Range(Checked[i])
         /\ \A x \in 1..Len(Targets[i]) : Targets[i][x] \in Range(Checked[i])
<1>1. i \in Modules /\ i \notin Outputs
  BY KindFacts
<1>2. Checked[i] \in Seq(Modules \ Inputs) /\ Targets[i] \in Seq(Modules \ Inputs)
  BY <1>1, Wiring
<1>3. DOMAIN Checked[i] = 1..Len(Checked[i]) /\ DOMAIN Targets[i] = 1..Len(Targets[i])
  BY <1>2
<1>4. \A s, S : s \in Seq(S) => Range(s) \subseteq S
  BY DEF Range
<1>5. /\ Range(Checked[i]) \subseteq Modules \ Inputs /\ Range(Targets[i]) \subseteq Modules \ Inputs
  BY <1>2, <1>4
<1>6. \A o \in Modules \ Inputs : o \in Outputs
  BY KindFacts
<1>7. ASSUME NEW o \in Range(Checked[i]) PROVE i \in Range(Senders[o])
  <2>1. o \in Modules /\ o \in Outputs
    BY <1>5, <1>6
  <2>2. PICK r \in Range(Routes) : i \in Range(r) /\ o \in Range(r) \ Inputs
    BY <1>1, <2>1, <1>7, Wiring
  <2>3. Range(SendersInRoute(o, r)) = Range(r) \cap Inputs
    BY <2>1, SendersInFacts
  <2> QED BY <1>1, <2>1, <2>2, <2>3, Wiring
<1>8. ASSUME NEW o \in Range(Targets[i]) PROVE o \in Range(Checked[i])
  <2>1. o \in Modules /\ o \notin Inputs
    BY <1>5
  <2>2. PICK r \in Range(Routes) : i \in Range(r) /\ o \in Range(NextInRoute(i, r))
    BY <1>1, <2>1, <1>8, Wiring
  <2>3. o \in Range(r)
    BY <1>1, <2>2, NextFacts
  <2> QED BY <1>1, <2>1, <2>2, <2>3, Wiring
<1>9. /\ \A x \in 1..Len(Checked[i]) : Checked[i][x] \in Range(Checked[i])
      /\ \A x \in 1..Len(Targets[i]) : Targets[i][x] \in Range(Targets[i])
  BY <1>3 DEF Range
<1> QED BY <1>5, <1>6, <1>7, <1>8, <1>9

(* An output with records in its queue will look at its senders.           *)
LEMMA QueuedAlert == NotifiedInv => QueuedAlerts
<1> SUFFICES ASSUME NEW o \in Outputs, NotifiedInv, Open(o), queue[o] # <<>> PROVE Alert(o)
  BY DEF QueuedAlerts
<1>0. TypeInv /\ Noticed(o) /\ o \in Modules \ Inputs
  BY KindFacts DEF NotifiedInv, PeekedInv
<1>1. status[o] \in Statuses /\ queue[o] \in Seq(Records)
  BY <1>0 DEF TypeInv, TypeOK
<1> SUFFICES ASSUME ~Alert(o) PROVE FALSE
  OBVIOUS
<1>2. status[o] = "RUNNING" /\ Relies(pc[o]) /\ ~Told(events[o])
  BY <1>1 DEF Alert, Open, Relies, Statuses
<1>3. Len(queue[o]) <= Cardinality(Pushers(o, pc, loc)) /\ Len(queue[o]) \in Nat \ {0}
  BY <1>0, <1>1, <1>2 DEF Noticed
<1>4. Pushers(o, pc, loc) = {}
  BY DEF Alert
<1>5. Cardinality({}) = 0
  BY FS_EmptySet
<1> QED BY <1>3, <1>4, <1>5

(* An output that will look at its senders, or is looking at them, goes    *)
(* on to do so until it has come to input i, and then either wakes it or   *)
(* finds a queue full whose owner will look at its senders.                *)
LEMMA WatchedStep ==
  ASSUME Processors = {}, NotifiedInv, NEW m \in Modules, Take(m) \/ HandlerStep(m),
         NotifiedInv', \A n \in Modules : Begun(n), \A n \in Outputs : Open(n),
         \A n \in Outputs : Open(n)',
         NEW i \in Inputs, NEW o \in Range(Checked[i]), Alert(o) \/ InLoop(o, i),
         ~(ResumeSender(m) /\ Sender(m) = i)
  PROVE  Watched(i)'
<1>0. PeekedInv /\ TypeInv
  BY DEF NotifiedInv, PeekedInv
<1>1. /\ o \in Outputs /\ i \in Range(Senders[o]) /\ o \in Modules \ Inputs /\ i \in Modules
  BY Direct, KindFacts
<1>2. \A n \in Outputs : queue'[n] # <<>> => Alert(n)'
  <2>1. QueuedAlerts'
    BY QueuedAlert, PTL
  <2> QED BY <2>1 DEF QueuedAlerts
<1> SUFFICES ASSUME queue'[o] = <<>> PROVE Alert(o)' \/ InLoop(o, i)' \/ Watched(i)'
  BY <1>1, <1>2 DEF Watched
<1>3. /\ events \in [Modules -> Seq(Evs)] /\ events[o] \in Seq(Evs)
      /\ status \in [Modules -> Statuses] /\ pc \in [Modules -> Labels]
      /\ queue \in [Modules -> Seq(Records)] /\ loc \in [Modules -> Locals]
  BY <1>0, <1>1 DEF TypeInv, TypeOK, Evs
<1>4. CASE Told(events[o])
  <2>1. CASE o = m /\ Take(m)
    <3> DEFINE e == Head(events[o])
    <3>1. /\ events[o] # <<>> /\ events'[o] = Tail(events[o]) /\ pc'[o] = Entry(o, e.type)
          /\ UNCHANGED <<status, queue>>
      BY <1>1, <1>3, <2>1 DEF Take, Goto
    <3>2. status[o] = "RUNNING"
      BY <1>1, <1>3, <1>4, <3>1 DEF Open, Statuses
    <3>3. Told(events'[o]) \/ e.type = "DATA_AVAILABLE"
      <4> DEFINE q == events[o]
      <4>1. q \in Seq(Evs) /\ q # <<>> /\ Told(q) /\ events'[o] = Tail(q) /\ e = Head(q)
        BY <1>3, <1>4, <3>1
      <4> HIDE DEF q, e, Evs
      <4>2. Told(Tail(q)) \/ Head(q).type = "DATA_AVAILABLE"
        BY <4>1, TailFacts, Zenon
      <4> QED BY <4>1, <4>2, Zenon
    <3>4. e.type = "DATA_AVAILABLE" => pc'[o] = "peek"
      BY <3>1, <3>2 DEF Entry
    <3> QED BY <3>3, <3>4 DEF Alert
  <2>2. CASE ~(o = m /\ Take(m))
    BY <1>0, <1>1, <1>4, <2>2, ToldKept DEF Alert
  <2> QED BY <2>1, <2>2
<1>5. ASSUME NEW s \in Pushers(o, pc, loc) PROVE Alert(o)'
  <2>1. s \in Modules /\ pc[s] \in {"can_send", "notify"} /\ Target(s) = o
    BY DEF Pushers, Target
  <2>2. CASE s # m
    <3>1. pc'[s] = pc[s] /\ loc'[s] = loc[s]
      BY <1>0, <2>1, <2>2, HandlersKept
    <3>2. s \in Pushers(o, pc', loc')
      BY <2>1, <3>1 DEF Pushers, Target
    <3> QED BY <3>2 DEF Alert
  <2>3. CASE s = m
    <3>1. CanSend(m) \/ Notify(m)
      BY <2>1, <2>3 DEF Take, HandlerStep, ControlStep, StartCallback, StartSelf, StartQueued, PauseCallback,
         PauseSelf, ResumeCallback, ResumeSelf, ResumeQueued, ReceiveStep, Peek, SelfNotify,
         CheckSender, ResumeSender, SenderStatus, NotifySender, Exec, ExecDrop, Pop,
         SendStep, Generate, GenerateDrop, MaxCountReached, Repost, Push, PausePosted,
         LookAtSize, PushSized, Sent
    <3>2. CASE Notify(m)
      <4>1. Told(events'[o])
        BY <1>0, <1>1, <2>1, <2>3, <3>2, PostTells DEF Notify
      <4> QED BY <4>1 DEF Alert
    <3>3. CASE CanSend(m)
      <4>1. queue[o] = <<>>
        BY <3>3 DEF CanSend
      <4>2. ~(Len(queue[o]) >= Limit)
        BY <4>1, BoundsAssumption
      <4>3. Goto(m, "notify") /\ UNCHANGED loc
        BY <2>1, <2>3, <3>3, <4>2 DEF CanSend
      <4>4. m \in Pushers(o, pc', loc')
        BY <1>3, <2>1, <2>3, <4>3 DEF Pushers, Target, Goto
      <4> QED BY <4>4 DEF Alert
    <3> QED BY <3>1, <3>2, <3>3
  <2> QED BY <2>2, <2>3
<1>6. CASE pc[o] \in {"peek", "self_notify"}
  <2>1. CASE o # m
    BY <1>0, <1>1, <1>6, <2>1, OtherStays DEF Alert
  <2>2. CASE o = m
    <3>1. Peek(m) \/ SelfNotify(m)
      BY <1>6, <2>2 DEF Take, HandlerStep, ControlStep, StartCallback, StartSelf, StartQueued, PauseCallback,
         PauseSelf, ResumeCallback, ResumeSelf, ResumeQueued, ReceiveStep,
         CheckSender, ResumeSender, SenderStatus, NotifySender, Exec, ExecDrop, Pop,
         SendStep, Generate, GenerateDrop, MaxCountReached, Repost, Push, PausePosted,
         CanSend, Notify, LookAtSize, PushSized, Sent
    <3>2. CASE Peek(m)
      <4>1. pc'[o] = "self_notify"
        BY <1>3, <2>2, <3>2 DEF Peek, Goto
      <4> QED BY <4>1 DEF Alert
    <3>3. CASE SelfNotify(m)
      <4>1. pc'[o] = "check_sender" /\ loc'[o] = [loc[o] EXCEPT !.s = 1, !.k = 1] /\ loc[o] \in Locals
        BY <1>3, <2>2, <3>3 DEF SelfNotify, Goto
      <4>2. loc'[o].s = 1
        BY <4>1 DEF Locals
      <4>3. Senders[o] \in Seq(Modules \ Outputs)
        BY <1>1, Wiring
      <4>4. PICK x \in 1..Len(Senders[o]) : Senders[o][x] = i
        BY <1>1, <4>3 DEF Range
      <4>5. loc'[o].s <= x
        BY <4>2
      <4> QED BY <4>1, <4>4, <4>5 DEF InLoop
    <3> QED BY <3>1, <3>2, <3>3
  <2> QED BY <2>1, <2>2
<1>7. ASSUME queue[o] # <<>>, status[o] = "STOPPED" \/ pc[o] = "start_queued" PROVE FALSE
  <2>1. o = m
    BY <1>0, <1>1, <1>7, OtherStays
  <2>2. pc[o] \notin {"exec", "pop"}
    BY <1>1, <1>7 DEF Begun
  <2>3. queue'[o] # queue[o]
    BY <1>7
  <2>4. pc[m] \in {"push", "push_sized"}
    BY <1>0, <2>1, <2>2, <2>3, QueueSteps DEF QueueStep
  <2> QED BY <1>0, <1>1, <2>1, <2>4, TargetFacts DEF Sending
<1>8. CASE InLoop(o, i)
  <2>1. PICK x \in 1..Len(Senders[o]) : loc[o].s <= x /\ Senders[o][x] = i
    BY <1>8 DEF InLoop
  <2>2. pc[o] \in {"check_sender", "resume_sender"}
    BY <1>8 DEF InLoop
  <2>3. CASE o # m
    <3>1. pc'[o] = pc[o] /\ loc'[o] = loc[o]
      BY <1>0, <1>1, <2>3, HandlersKept
    <3> QED BY <2>1, <2>2, <3>1 DEF InLoop
  <2>4. CASE o = m
    <3>1. CheckSender(m) \/ ResumeSender(m)
      BY <2>2, <2>4 DEF Take, HandlerStep, ControlStep, StartCallback, StartSelf, StartQueued, PauseCallback,
         PauseSelf, ResumeCallback, ResumeSelf, ResumeQueued, ReceiveStep, Peek, SelfNotify,
         SenderStatus, NotifySender, Exec, ExecDrop, Pop,
         SendStep, Generate, GenerateDrop, MaxCountReached, Repost, Push, PausePosted,
         CanSend, Notify, LookAtSize, PushSized, Sent
    <3>2. /\ loc[o] \in Locals /\ loc[o].s \in 1..Len(Senders[o]) /\ Senders[o] \in Seq(Modules \ Outputs)
          /\ pc[o] = "check_sender" => loc[o].k \in 1..Len(Checked[Sender(o)])
      <4>1. loc[o] \in Locals /\ Handler(o, pc[o], loc[o])
        BY <1>0, <1>1, HandlerFacts
      <4>2. Senders[o] \in Seq(Modules \ Outputs)
        BY <1>1, Wiring
      <4> QED BY <2>2, <4>1, <4>2 DEF Handler, SenderLabels, Sender
    <3>3. ASSUME NextSender(m), Sender(m) # i PROVE InLoop(o, i)'
      <4>1. x # loc[o].s
        BY <2>1, <2>4, <3>3 DEF Sender
      <4>2. loc[o].s < x /\ loc[o].s < Len(Senders[o]) /\ loc[o].s + 1 <= x
        BY <2>1, <3>2, <4>1
      <4>3. loc' = [loc EXCEPT ![o] = [loc[o] EXCEPT !.s = loc[o].s + 1, !.k = 1]] /\ Goto(o, "check_sender")
        BY <2>4, <3>3, <4>2 DEF NextSender
      <4>4. loc'[o].s = loc[o].s + 1 /\ pc'[o] = "check_sender"
        BY <1>1, <1>3, <3>2, <4>3 DEF Goto, Locals
      <4> QED BY <2>1, <4>2, <4>4 DEF InLoop
    <3>4. CASE ResumeSender(m)
      <4>1. Sender(m) \notin Processors /\ Sender(m) # i
        BY <3>4
      <4>2. NextSender(m)
        BY <3>4, <4>1 DEF ResumeSender
      <4> QED BY <3>3, <4>1, <4>2
    <3>5. CASE CheckSender(m)
      <4> DEFINE c == Checked[Sender(m)][loc[m].k]
      <4>1. CASE Congested(c) /\ NextSender(m)
        <5>1. CASE Sender(m) # i
          BY <3>3, <4>1, <5>1
        <5>2. CASE Sender(m) = i
          <6>1. PICK d \in Outputs : d \in Range(Checked[i]) /\ d = c
            BY <2>4, <3>2, <3>5, <5>2, Direct DEF CheckSender
          <6>2. queue[d] # <<>>
            <7>1. 10 * Len(queue[d]) >= 7 * Limit /\ Len(<<>>) = 0
              BY <4>1, <6>1 DEF Congested
            <7> QED BY <7>1, BoundsAssumption
          <6>3. Alert(d)'
            BY <1>2, <3>5, <6>1, <6>2 DEF CheckSender
          <6> QED BY <6>1, <6>3 DEF Watched
        <5> QED BY <5>1, <5>2
      <4>2. CASE ~(Congested(c) /\ NextSender(m))
        <5>1. /\ loc' = [loc EXCEPT ![m].k = loc[m].k + 1] \/ UNCHANGED loc
              /\ UNCHANGED pc \/ Goto(m, "resume_sender")
          BY <3>5, <4>2 DEF CheckSender
        <5>2. loc'[o].s = loc[o].s /\ pc'[o] \in {"check_sender", "resume_sender"}
          <6>1. loc'[o] = loc[o] \/ loc'[o] = [loc[o] EXCEPT !.k = loc[o].k + 1]
            BY <1>1, <1>3, <2>4, <5>1
          <6>2. loc'[o].s = loc[o].s
            BY <3>2, <6>1 DEF Locals
          <6>3. pc'[o] \in {"check_sender", "resume_sender"}
            BY <1>1, <1>3, <2>2, <2>4, <5>1 DEF Goto
          <6> QED BY <6>2, <6>3
        <5> QED BY <2>1, <5>2 DEF InLoop
      <4> QED BY <4>1, <4>2
    <3> QED BY <3>1, <3>4, <3>5
  <2> QED BY <2>3, <2>4
<1> QED BY <1>4, <1>5, <1>6, <1>7, <1>8 DEF Alert

-----------------------------------------------------------------------------
(* When nx_ctx_start_modules() begins, nobody is paused.                   *)
LEMMA SuspendInit ==
  Init => SuspendInv
<1> SUFFICES ASSUME Init PROVE SuspendInv
  OBVIOUS
<1>1. /\ \A m \in Modules : status[m] = "STOPPED" /\ pc[m] = "idle" /\ events[m] = <<>>
      /\ Range(starting) = Modules
  BY DEF Init, Modules
<1>2. \A m \in Modules : Begun(m)
  BY <1>1 DEF Begun, HasEvent
<1>3. ASSUME NEW o \in Outputs PROVE Open(o)
  <2>1. o \in Modules
    BY KindFacts
  <2>2. Offers(o, pc, loc) = {}
    BY <1>1 DEF Offers
  <2>3. events[o] = <<>> /\ Len(<<>>) = 0
    BY <1>1, <2>1
  <2>4. ~Told(events[o]) /\ ~HasEvent(events[o], "PAUSE")
    BY <2>3 DEF Told, HasEvent
  <2> QED BY <1>1, <2>1, <2>2, <2>4 DEF Open
<1>4. ASSUME NEW i \in Inputs PROVE Fate(i) # "PAUSED"
  <2>1. Fate(i) = FinalStatus("STOPPED", <<>>)
    BY <1>1, KindFacts DEF Fate, Heading
  <2>2. FinalStatus("STOPPED", <<>>) = "STOPPED"
    <3>1. <<>> \in Seq(Evs) /\ Len(<<>>) = 0 /\ "STOPPED" \in Statuses
      BY DEF Statuses
    <3> HIDE DEF Evs, Statuses
    <3> QED BY <3>1, OutcomeDef DEF FinalStatus
  <2> QED BY <2>1, <2>2
<1> QED BY <1>2, <1>3, <1>4 DEF SuspendInv

(* The main thread's START wakes a module that is stopped.                 *)
LEMMA SuspendStart ==
  ASSUME TypeInv, StartModule, SuspendInv
  PROVE  SuspendInv'
<1> DEFINE k == Head(starting)
<1>1. /\ k \in Modules /\ "START" \in EventTypes /\ Ev("START") \in Evs /\ Ev("START").type = "START"
      /\ events \in [Modules -> Seq(Evs)] /\ status \in [Modules -> Statuses] /\ pc \in [Modules -> Labels]
      /\ events' = [events EXCEPT ![k] = Enqueue(events[k], Ev("START"))]
      /\ UNCHANGED <<status, queue, pc, loc>>
  BY StartPosts, EvFacts DEF StartModule, PostsTo, Post, TypeInv, TypeOK, Evs
<1>2. /\ starting \in Seq(Modules) /\ starting # <<>> /\ starting' = Tail(starting)
  BY DEF StartModule, TypeInv, TypeOK
<1>3. \A n \in Range(starting) : n = k \/ n \in Range(starting')
  <2>1. /\ Len(starting) \in Nat \ {0} /\ Len(starting') = Len(starting) - 1 /\ k = starting[1]
        /\ \A x \in 1..Len(starting') : starting'[x] = starting[x + 1]
        /\ DOMAIN starting = 1..Len(starting) /\ DOMAIN starting' = 1..Len(starting')
    BY <1>2
  <2>2. \A x \in 1..Len(starting) : x = 1 \/ (x - 1 \in 1..Len(starting') /\ starting'[x - 1] = starting[x])
    BY <2>1
  <2> HIDE DEF k
  <2> QED BY <2>1, <2>2 DEF Range
<1> HIDE DEF k, Evs, EventTypes
<1>4. ASSUME NEW n \in Modules
      PROVE  /\ \A u : HasEvent(events[n], u) => HasEvent(events'[n], u)
             /\ \A u : HasEvent(events'[n], u) => HasEvent(events[n], u) \/ u = "START"
             /\ n = k => HasEvent(events'[n], "START")
             /\ Told(events'[n]) <=> Told(events[n])
  <2>1. CASE n # k
    <3>1. events'[n] = events[n]
      BY <1>1, <2>1
    <3> QED BY <2>1, <3>1
  <2>2. CASE n = k
    <3>1. events'[n] = Enqueue(events[n], Ev("START")) /\ events[n] \in Seq(Evs)
      BY <1>1, <2>2
    <3>2. \A u : HasEvent(events'[n], u) <=> HasEvent(events[n], u) \/ Ev(u) = Ev("START")
      BY <1>1, <3>1, HasPosted
    <3>3. \A u : Ev(u) = Ev("START") => u = "START"
      BY EvFacts
    <3>4. \A q : Told(q) <=> HasEvent(q, "DATA_AVAILABLE")
      BY DEF Told, HasEvent
    <3> QED BY <3>2, <3>3, <3>4
  <2> QED BY <2>1, <2>2
<1>5. ASSUME NEW n \in Modules PROVE Begun(n)'
  <2>1. Begun(n)
    BY DEF SuspendInv
  <2> QED BY <1>1, <1>3, <1>4, <2>1 DEF Begun
<1>6. ASSUME NEW o \in Outputs PROVE Open(o)'
  <2>1. Open(o) /\ o \in Modules
    BY KindFacts DEF SuspendInv
  <2> QED BY <1>1, <1>4, <2>1 DEF Open
<1>7. ASSUME NEW i \in Inputs, Fate(i)' = "PAUSED" PROVE Watched(i)'
  <2>0. i \in Modules
    BY KindFacts
  <2> DEFINE h == Heading(status[i], pc[i])
  <2>1. h \in Statuses /\ Fate(i) = FinalStatus(h, events[i]) /\ FinalStatus(h, events'[i]) = "PAUSED"
    BY <1>1, <1>7, <2>0 DEF Heading, Statuses, Fate
  <2> HIDE DEF h, Statuses
  <2>2. FinalStatus(h, events[i]) = "PAUSED"
    <3>1. CASE i # k
      BY <1>1, <2>0, <2>1, <3>1
    <3>2. CASE i = k
      <4> DEFINE e == Ev("START")
      <4>1. events'[i] = Enqueue(events[i], e) /\ events[i] \in Seq(Evs) /\ e \in Evs /\ e.type = "START"
        BY <1>1, <3>2
      <4> HIDE DEF e
      <4>2. FinalStatus(h, events'[i]) = StatusAfter(FinalStatus(h, events[i]), e.type)
        BY <2>1, <4>1, EnqueueFacts
      <4> QED BY <2>1, <4>1, <4>2 DEF StatusAfter
    <3> QED BY <3>1, <3>2
  <2>3. PICK o \in Range(Checked[i]) : Alert(o) \/ InLoop(o, i)
    BY <2>1, <2>2 DEF SuspendInv, Watched
  <2>4. o \in Modules
    BY <2>0, Wiring DEF Range
  <2>5. Alert(o)' \/ InLoop(o, i)'
    BY <1>1, <1>4, <2>3, <2>4 DEF Alert, InLoop
  <2> QED BY <2>5 DEF Watched
<1> QED BY <1>5, <1>6, <1>7 DEF SuspendInv

(* Without processors, every step keeps a paused input watched.            *)
LEMMA SuspendNext ==
  ASSUME Processors = {}, NotifiedInv, SuspendInv, [Next]_vars
  PROVE  SuspendInv'
<1>0. PeekedInv /\ TypeInv /\ NotifiedInv'
  BY NotifiedNext DEF NotifiedInv, PeekedInv
<1>1. CASE UNCHANGED vars
  BY <1>1 DEF SuspendInv, Begun, Open, Fate, Watched, Alert, InLoop, vars
<1>2. CASE StartModule
  BY <1>0, <1>2, SuspendStart
<1>3. ASSUME NEW m \in Modules, Take(m) \/ HandlerStep(m) PROVE SuspendInv'
  <2>1. /\ \A n \in Modules : Begun(n) /\ Begun(n)'
        /\ \A o \in Outputs : Open(o) /\ Open(o)'
    BY <1>0, <1>3, BegunKept, OpenKept, KindFacts DEF SuspendInv
  <2>2. ASSUME NEW i \in Inputs, Fate(i)' = "PAUSED" PROVE Watched(i)'
    <3>0. i \in Modules /\ Begun(i)
      BY <2>1, KindFacts
    <3>1. CASE Fate(i) = "PAUSED" /\ ~(ResumeSender(m) /\ Sender(m) = i)
      <4>1. PICK o \in Range(Checked[i]) : Alert(o) \/ InLoop(o, i)
        BY <3>1 DEF SuspendInv, Watched
      <4> QED BY <1>0, <1>3, <2>1, <3>1, <4>1, WatchedStep
    <3>2. CASE m = i /\ PausePosted(m)
      <4> DEFINE o == Target(i)
      <4>1. loc[i].t \in 1..Len(Targets[i])
        BY <1>0, <3>0, <3>2, HandlerFacts DEF PausePosted, Handler, Sending
      <4>2. o \in Range(Checked[i]) /\ o \in Outputs
        BY <4>1, Direct DEF Target
      <4>3. Goto(i, "can_send") /\ UNCHANGED loc /\ pc \in [Modules -> Labels]
        BY <1>0, <3>2, <4>2 DEF PausePosted, Recheck, TypeInv, TypeOK
      <4>4. i \in Pushers(o, pc', loc')
        BY <3>0, <4>3 DEF Pushers, Target, Goto
      <4> QED BY <4>2, <4>4 DEF Watched, Alert
    <3> QED BY <1>0, <1>3, <2>2, <3>0, <3>1, <3>2, FateKept
  <2> QED BY <2>1, <2>2 DEF SuspendInv
<1> QED BY <1>1, <1>2, <1>3 DEF Next

(* In a configuration without processors nobody is paused for good: when   *)
(* nothing is left to do, a sender that nx_module_pause() suspended has a  *)
(* congested queue in front of it.  However the pushes, the PAUSE an       *)
(* input posts to itself, the second look of nx_module_can_send() and the  *)
(* RESUME of resume_senders() interleave, and whatever the event list      *)
(* drops as a duplicate.  (With a processor it is false: PipelineStall.)   *)
THEOREM NobodyStranded ==
  ASSUME Processors = {}
  PROVE  Spec => []SuspendedOnlyIfFull
<1>1. NotifiedInv /\ SuspendInv => SuspendedOnlyIfFull
  <2> SUFFICES ASSUME NotifiedInv, SuspendInv, Quiescent, NEW m \in Modules, status[m] = "PAUSED"
               PROVE  FALSE
    BY DEF SuspendedOnlyIfFull
  <2>0. TypeInv /\ starting \in Seq(Modules) /\ status \in [Modules -> Statuses]
    BY DEF NotifiedInv, PeekedInv, TypeInv, TypeOK
  <2>1. \A n \in Modules : pc[n] = "idle" /\ events[n] = <<>> /\ Len(events[n]) = 0
    BY DEF Quiescent
  <2>2. m \in Inputs
    <3>1. m \notin Outputs
      BY DEF SuspendInv, Open
    <3> QED BY <3>1, KindFacts
  <2>3. Fate(m) = "PAUSED"
    <3>1. Fate(m) = FinalStatus("PAUSED", <<>>)
      BY <2>1 DEF Fate, Heading
    <3>2. FinalStatus("PAUSED", <<>>) = "PAUSED"
      <4>1. <<>> \in Seq(Evs) /\ Len(<<>>) = 0 /\ "PAUSED" \in Statuses
        BY DEF Statuses
      <4> HIDE DEF Evs, Statuses
      <4> QED BY <4>1, OutcomeDef DEF FinalStatus
    <3> QED BY <3>1, <3>2
  <2>4. PICK o \in Range(Checked[m]) : Alert(o) \/ InLoop(o, m)
    BY <2>2, <2>3 DEF SuspendInv, Watched
  <2>5. o \in Modules
    BY Wiring DEF Range
  <2>6. ~InLoop(o, m) /\ Pushers(o, pc, loc) = {} /\ ~Told(events[o])
    BY <2>1, <2>5 DEF InLoop, Pushers, Told
  <2>7. status[o] # "STOPPED"
    <3>1. Range(starting) = {}
      BY DEF Quiescent, Range
    <3> QED BY <2>1, <2>5, <3>1 DEF SuspendInv, Begun, HasEvent
  <2> QED BY <2>1, <2>4, <2>5, <2>6, <2>7 DEF Alert
<1>2. Init => NotifiedInv
  BY NotifiedInit
<1>3. NotifiedInv /\ SuspendInv /\ [Next]_vars => SuspendInv'
  BY SuspendNext
<1> QED BY <1>1, <1>2, <1>3, SuspendInit, NotifiedNext, PTL DEF Spec

-----------------------------------------------------------------------------
(* Records in places.  A place is a sequence of records, L a sequence of   *)
(* places.                                                                 *)
Lanes(L, K) == K \in Nat /\ L \in [1..K -> Seq(Records)]

(* What records and places are.                                            *)
LEMMA LaneFacts ==
  ASSUME NEW K, NEW L, Lanes(L, K)
  PROVE  /\ DOMAIN L = 1..K
         /\ \A z \in 1..K : /\ L[z] \in Seq(Records) /\ DOMAIN L[z] = 1..Len(L[z]) /\ Len(L[z]) \in Nat
                            /\ \A a \in 1..Len(L[z]) : L[z][a] \in Records
BY DEF Lanes

(* A record is its input and its number.                                   *)
LEMMA RecordFacts ==
  ASSUME NEW c \in Records
  PROVE  /\ c[1] \in Inputs /\ c[2] \in 0..MaxCount - 1 /\ c[2] \in Nat /\ c = <<c[1], c[2]>>
BY BoundsAssumption DEF Records


(* Of two records of i, the one in front is older.                         *)
LEMMA Older ==
  ASSUME NEW i, NEW K, NEW L, Lanes(L, K), InOrder(i, L), NEW y \in 1..K, NEW z \in 1..K,
         NEW a \in 1..Len(L[y]), NEW b \in 1..Len(L[z]), y > z \/ (y = z /\ a < b),
         L[y][a][1] = i, L[z][b][1] = i
  PROVE  L[y][a][2] < L[z][b][2]
<1>1. /\ DOMAIN L = 1..K /\ DOMAIN L[y] = 1..Len(L[y]) /\ DOMAIN L[z] = 1..Len(L[z])
  BY LaneFacts
<1> QED BY <1>1 DEF InOrder

(* What is somewhere is at some position.                                  *)
LEMMA Somewhere ==
  ASSUME NEW K, NEW L, Lanes(L, K)
  PROVE  \A y \in 1..K : \A c : c \in Range(L[y]) <=> \E a \in 1..Len(L[y]) : L[y][a] = c
<1>1. \A y \in 1..K : DOMAIN L[y] = 1..Len(L[y])
  BY LaneFacts
<1> QED BY <1>1 DEF Range

(* The first record of a place goes to the end of the next one.            *)
LEMMA Shift ==
  ASSUME NEW i, NEW K, NEW L, NEW M, Lanes(L, K), Lanes(M, K), NEW z \in 1..K - 1, L[z] # <<>>,
         M[z] = Tail(L[z]), M[z + 1] = Append(L[z + 1], Head(L[z])),
         \A x \in 1..K \ {z, z + 1} : M[x] = L[x]
  PROVE  /\ InOrder(i, L) => InOrder(i, M)
         /\ Present(i, L) = Present(i, M)
<1>0. /\ K \in Nat /\ z \in Nat /\ z \in 1..K /\ z + 1 \in 1..K /\ z + 1 # z
      /\ DOMAIN L = 1..K /\ DOMAIN M = 1..K
      /\ \A x \in 1..K : /\ DOMAIN L[x] = 1..Len(L[x]) /\ Len(L[x]) \in Nat
                         /\ DOMAIN M[x] = 1..Len(M[x]) /\ Len(M[x]) \in Nat
                         /\ \A a \in 1..Len(L[x]) : L[x][a] \in Records
  BY LaneFacts, SMTT(40) DEF Lanes
<1>1. /\ L[z] \in Seq(Records) /\ L[z + 1] \in Seq(Records)
  BY <1>0 DEF Lanes
<1>2. /\ Len(L[z]) \in Nat \ {0} /\ Len(M[z]) = Len(L[z]) - 1
      /\ \A a \in 1..Len(M[z]) : M[z][a] = L[z][a + 1] /\ a + 1 \in 1..Len(L[z])
      /\ 1 \in 1..Len(L[z]) /\ Head(L[z]) = L[z][1]
  BY <1>1
<1>3. /\ Len(M[z + 1]) = Len(L[z + 1]) + 1
      /\ \A a \in 1..Len(L[z + 1]) : M[z + 1][a] = L[z + 1][a] /\ a \in 1..Len(M[z + 1])
      /\ M[z + 1][Len(L[z + 1]) + 1] = L[z][1]
  BY <1>0, <1>1, <1>2
<1> DEFINE F(y, a) == IF y = z + 1 /\ a = Len(L[z + 1]) + 1 THEN z ELSE y
           G(y, a) == IF y = z + 1 /\ a = Len(L[z + 1]) + 1 THEN 1 ELSE IF y = z THEN a + 1 ELSE a
<1>4. ASSUME NEW y \in 1..K, NEW a \in 1..Len(M[y])
      PROVE  F(y, a) \in 1..K /\ G(y, a) \in 1..Len(L[F(y, a)]) /\ L[F(y, a)][G(y, a)] = M[y][a]
  <2>1. CASE y = z
    BY <1>0, <1>2, <2>1
  <2>2. CASE y = z + 1 /\ a = Len(L[z + 1]) + 1
    BY <1>0, <1>2, <1>3, <2>2
  <2>3. CASE y = z + 1 /\ a # Len(L[z + 1]) + 1
    <3>1. a \in 1..Len(L[z + 1])
      <4>1. Len(L[z + 1]) \in Nat
        BY <1>0
      <4>2. a \in 1..Len(L[z + 1]) + 1
        BY <1>3, <2>3
      <4> QED BY <2>3, <4>1, <4>2
    <3> QED BY <1>0, <1>3, <2>3, <3>1
  <2>4. CASE y \notin {z, z + 1}
    BY <2>4
  <2> QED BY <2>1, <2>2, <2>3, <2>4
<1>5. ASSUME NEW y \in 1..K, NEW a \in 1..Len(M[y]), NEW x \in 1..K, NEW b \in 1..Len(M[x]),
             y > x \/ (y = x /\ a < b)
      PROVE  F(y, a) > F(x, b) \/ (F(y, a) = F(x, b) /\ G(y, a) < G(x, b))
  <2>1. a \in Nat \ {0} /\ b \in Nat \ {0} /\ x \in Nat /\ y \in Nat /\ z \in Nat
    <3>1. Len(M[y]) \in Nat /\ Len(M[x]) \in Nat /\ K \in Nat /\ z \in Nat
      BY <1>0
    <3> QED BY <3>1
  <2>2. x = z + 1 => b <= Len(L[z + 1]) + 1
    BY <1>0, <1>3
  <2>3. Len(L[z + 1]) \in Nat
    BY <1>0
  <2> QED BY <1>5, <2>1, <2>2, <2>3
<1>6. ASSUME InOrder(i, L) PROVE InOrder(i, M)
  <2> HIDE DEF F, G
  <2> SUFFICES ASSUME NEW y \in 1..K, NEW x \in 1..K, NEW a \in 1..Len(M[y]), NEW b \in 1..Len(M[x]),
                      y > x \/ (y = x /\ a < b), M[y][a][1] = i, M[x][b][1] = i
               PROVE  M[y][a][2] < M[x][b][2]
    BY <1>0 DEF InOrder
  <2>1. /\ F(y, a) \in 1..K /\ G(y, a) \in 1..Len(L[F(y, a)]) /\ L[F(y, a)][G(y, a)] = M[y][a]
        /\ F(x, b) \in 1..K /\ G(x, b) \in 1..Len(L[F(x, b)]) /\ L[F(x, b)][G(x, b)] = M[x][b]
    BY <1>4
  <2>2. F(y, a) > F(x, b) \/ (F(y, a) = F(x, b) /\ G(y, a) < G(x, b))
    BY <1>5
  <2> DEFINE f == F(y, a)
             g == G(y, a)
             h == F(x, b)
             k == G(x, b)
  <2> HIDE DEF f, g, h, k
  <2>3. /\ f \in 1..K /\ g \in 1..Len(L[f]) /\ L[f][g] = M[y][a]
        /\ h \in 1..K /\ k \in 1..Len(L[h]) /\ L[h][k] = M[x][b]
        /\ f > h \/ (f = h /\ g < k)
        /\ L[f][g][1] = i /\ L[h][k][1] = i
    BY <2>1, <2>2 DEF f, g, h, k
  <2>4. L[f][g][2] < L[h][k][2]
    BY <1>6, <2>3, Older, Zenon
  <2> QED BY <2>3, <2>4
<1>7. ASSUME NEW y \in 1..K, NEW c \in Range(M[y]) PROVE \E x \in 1..K : c \in Range(L[x])
  <2>1. PICK a \in 1..Len(M[y]) : M[y][a] = c
    <3> HIDE DEF F, G
    <3>1. \A d : d \in Range(M[y]) <=> \E a \in 1..Len(M[y]) : M[y][a] = d
      BY <1>0 DEF Range
    <3> QED BY <1>7, <3>1, Zenon
  <2> DEFINE f == F(y, a)
             g == G(y, a)
  <2>2. f \in 1..K /\ g \in 1..Len(L[f]) /\ L[f][g] = c
    BY <1>4, <2>1
  <2> HIDE DEF f, g
  <2> QED BY <2>2, Somewhere
<1>8. ASSUME NEW y \in 1..K, NEW a \in 1..Len(L[y]) PROVE \E x \in 1..K : L[y][a] \in Range(M[x])
  <2>1. CASE y = z /\ a = 1
    <3>1. Len(L[z + 1]) + 1 \in 1..Len(M[z + 1]) /\ M[z + 1][Len(L[z + 1]) + 1] = L[y][a]
      BY <1>0, <1>3, <2>1
    <3> QED BY <1>0, <3>1 DEF Range
  <2>2. CASE y = z /\ a # 1
    <3>1. a - 1 \in 1..Len(M[z]) /\ M[z][a - 1] = L[z][a]
      BY <1>2, <2>2
    <3> QED BY <1>0, <2>2, <3>1 DEF Range
  <2>3. CASE y = z + 1
    BY <1>0, <1>3, <2>3 DEF Range
  <2>4. CASE y \notin {z, z + 1}
    BY <1>0, <2>4 DEF Range
  <2> QED BY <2>1, <2>2, <2>3, <2>4
<1>9. ASSUME NEW y \in 1..K, NEW c \in Range(L[y]) PROVE \E x \in 1..K : c \in Range(M[x])
  <2>1. PICK a \in 1..Len(L[y]) : L[y][a] = c
    BY Somewhere
  <2> QED BY <1>8, <2>1
<1> QED BY <1>0, <1>6, <1>7, <1>9 DEF Present

(* The first record of a place is taken out.  It was nowhere else.         *)
LEMMA Dropped ==
  ASSUME NEW i, NEW K, NEW L, NEW M, Lanes(L, K), Lanes(M, K), NEW z \in 1..K, L[z] # <<>>,
         M[z] = Tail(L[z]), \A x \in 1..K \ {z} : M[x] = L[x], InOrder(i, L)
  PROVE  /\ InOrder(i, M)
         /\ Present(i, M) = {n \in Present(i, L) : <<i, n>> # Head(L[z])}
<1>0. /\ K \in Nat
      /\ DOMAIN L = 1..K /\ DOMAIN M = 1..K
      /\ \A x \in 1..K : /\ DOMAIN L[x] = 1..Len(L[x]) /\ Len(L[x]) \in Nat
                         /\ DOMAIN M[x] = 1..Len(M[x]) /\ Len(M[x]) \in Nat
                         /\ \A a \in 1..Len(L[x]) : L[x][a] \in Records
  BY LaneFacts, SMTT(40) DEF Lanes
<1>1. L[z] \in Seq(Records)
  BY <1>0 DEF Lanes
<1>2. /\ Len(L[z]) \in Nat \ {0} /\ Len(M[z]) = Len(L[z]) - 1
      /\ \A a \in 1..Len(M[z]) : M[z][a] = L[z][a + 1] /\ a + 1 \in 1..Len(L[z])
      /\ 1 \in 1..Len(L[z]) /\ Head(L[z]) = L[z][1]
  BY <1>1
<1> DEFINE G(y, a) == IF y = z THEN a + 1 ELSE a
<1>3. ASSUME NEW y \in 1..K, NEW a \in 1..Len(M[y])
      PROVE  G(y, a) \in 1..Len(L[y]) /\ L[y][G(y, a)] = M[y][a] /\ (y = z => G(y, a) # 1)
  <2>1. CASE y = z
    <3>1. G(y, a) = a + 1 /\ a \in 1..Len(M[z]) /\ a + 1 # 1
      BY <1>0, <1>2, <2>1
    <3> HIDE DEF G
    <3> QED BY <1>2, <2>1, <3>1
  <2>2. CASE y # z
    BY <2>2
  <2> QED BY <2>1, <2>2
<1>4. InOrder(i, M)
  <2> SUFFICES ASSUME NEW y \in 1..K, NEW x \in 1..K, NEW a \in 1..Len(M[y]), NEW b \in 1..Len(M[x]),
                      y > x \/ (y = x /\ a < b), M[y][a][1] = i, M[x][b][1] = i
               PROVE  M[y][a][2] < M[x][b][2]
    BY <1>0 DEF InOrder
  <2>1. /\ G(y, a) \in 1..Len(L[y]) /\ L[y][G(y, a)] = M[y][a]
        /\ G(x, b) \in 1..Len(L[x]) /\ L[x][G(x, b)] = M[x][b]
    BY <1>3
  <2>2. y > x \/ (y = x /\ G(y, a) < G(x, b))
    BY <1>0
  <2> DEFINE g == G(y, a)
             k == G(x, b)
  <2> HIDE DEF G, g, k
  <2>3. /\ g \in 1..Len(L[y]) /\ L[y][g] = M[y][a]
        /\ k \in 1..Len(L[x]) /\ L[x][k] = M[x][b]
        /\ y > x \/ (y = x /\ g < k)
        /\ L[y][g][1] = i /\ L[x][k][1] = i
    BY <2>1, <2>2 DEF g, k
  <2>4. L[y][g][2] < L[x][k][2]
    BY <2>3, Older, Zenon
  <2> QED BY <2>3, <2>4
<1>5. ASSUME NEW n \in 0..MaxCount - 1
      PROVE  (\E y \in 1..K : <<i, n>> \in Range(M[y])) <=>
                /\ \E y \in 1..K : <<i, n>> \in Range(L[y])
                /\ <<i, n>> # Head(L[z])
  <2> DEFINE c == <<i, n>>
  <2>1. c[1] = i /\ c[2] = n /\ n \in Int
    OBVIOUS
  <2> HIDE DEF c
  <2>2. ASSUME NEW y \in 1..K, NEW a \in 1..Len(M[y]), M[y][a] = c
        PROVE  c \in Range(L[y]) /\ c # Head(L[z])
    <3> HIDE DEF G
    <3>1. G(y, a) \in 1..Len(L[y]) /\ L[y][G(y, a)] = c /\ (y = z => G(y, a) # 1)
      BY <1>3, <2>2
    <3>2. c \in Range(L[y])
      BY <1>0, <3>1 DEF Range
    <3>3. ASSUME L[z][1] = c PROVE FALSE
      <4> DEFINE g == G(y, a)
      <4>1. g \in 1..Len(L[y]) /\ L[y][g] = c /\ (y = z => g # 1) /\ g \in Nat
        BY <1>0, <3>1
      <4> HIDE DEF g
      <4>2. y > z \/ z > y \/ (y = z /\ 1 < g)
        BY <1>0, <4>1
      <4>3. /\ g \in 1..Len(L[y]) /\ 1 \in 1..Len(L[z]) /\ L[y][g] = c /\ L[z][1] = c
            /\ L[y][g][1] = i /\ L[z][1][1] = i
        BY <1>2, <2>1, <3>3, <4>1
      <4>4. CASE y > z \/ (y = z /\ 1 < g)
        <5>1. L[y][g][2] < L[z][1][2]
          <6>1. CASE y > z
            BY <4>3, <6>1, Older
          <6>2. CASE y = z /\ 1 < g
            <7>1. L[z][1][2] < L[y][g][2]
              BY <4>3, <6>2, Older
            <7> QED BY <2>1, <4>3, <7>1
          <6> QED BY <4>4, <6>1, <6>2
        <5> QED BY <2>1, <4>3, <5>1
      <4>5. CASE z > y
        <5>1. L[z][1][2] < L[y][g][2]
          BY <4>5, <4>3, Older
        <5> QED BY <2>1, <4>3, <5>1
      <4> QED BY <4>2, <4>4, <4>5
    <3> QED BY <1>2, <3>2, <3>3
  <2>3. ASSUME NEW y \in 1..K, NEW a \in 1..Len(L[y]), L[y][a] = c, c # Head(L[z])
        PROVE  c \in Range(M[y])
    <3>1. CASE y = z
      <4>1. a # 1
        BY <1>2, <2>3, <3>1
      <4>2. a - 1 \in 1..Len(M[z]) /\ M[z][a - 1] = c
        BY <1>2, <2>3, <3>1, <4>1
      <4> QED BY <1>0, <3>1, <4>2 DEF Range
    <3>2. CASE y # z
      BY <1>0, <2>3, <3>2 DEF Range
    <3> QED BY <3>1, <3>2
  <2> QED BY <1>0, <2>2, <2>3 DEF Range, c
<1> QED BY <1>0, <1>4, <1>5 DEF Present

(* A record that is not of i comes to a place.                             *)
LEMMA Joined ==
  ASSUME NEW i, NEW K, NEW L, NEW M, Lanes(L, K), Lanes(M, K), NEW z \in 1..K, NEW c, c[1] # i,
         M[z] = Append(L[z], c), \A x \in 1..K \ {z} : M[x] = L[x], InOrder(i, L)
  PROVE  InOrder(i, M) /\ Present(i, M) = Present(i, L)
<1>0. /\ K \in Nat
      /\ DOMAIN L = 1..K /\ DOMAIN M = 1..K
      /\ \A x \in 1..K : /\ DOMAIN L[x] = 1..Len(L[x]) /\ Len(L[x]) \in Nat
                         /\ DOMAIN M[x] = 1..Len(M[x]) /\ Len(M[x]) \in Nat
  BY LaneFacts, SMTT(40) DEF Lanes
<1>1. /\ Len(M[z]) = Len(L[z]) + 1 /\ M[z][Len(L[z]) + 1] = c
      /\ \A a \in 1..Len(L[z]) : M[z][a] = L[z][a] /\ a \in 1..Len(M[z])
  <2>1. L[z] \in Seq(Records)
    BY DEF Lanes
  <2> QED BY <2>1
<1>2. ASSUME NEW y \in 1..K, NEW a \in 1..Len(M[y]), M[y][a][1] = i
      PROVE  a \in 1..Len(L[y]) /\ M[y][a] = L[y][a]
  <2>1. CASE y = z
    <3>1. a # Len(L[z]) + 1 /\ a \in 1..Len(L[z]) + 1 /\ Len(L[z]) \in Nat
      BY <1>0, <1>1, <1>2, <2>1
    <3>2. a \in 1..Len(L[z])
      BY <3>1
    <3> QED BY <1>1, <2>1, <3>2
  <2>2. CASE y # z
    BY <2>2
  <2> QED BY <2>1, <2>2
<1>3. InOrder(i, M)
  <2> SUFFICES ASSUME NEW y \in 1..K, NEW x \in 1..K, NEW a \in 1..Len(M[y]), NEW b \in 1..Len(M[x]),
                      y > x \/ (y = x /\ a < b), M[y][a][1] = i, M[x][b][1] = i
               PROVE  M[y][a][2] < M[x][b][2]
    BY <1>0 DEF InOrder
  <2>1. a \in 1..Len(L[y]) /\ M[y][a] = L[y][a] /\ b \in 1..Len(L[x]) /\ M[x][b] = L[x][b]
    BY <1>2
  <2>2. L[y][a][1] = i /\ L[x][b][1] = i
    BY <2>1
  <2>3. L[y][a][2] < L[x][b][2]
    BY <2>1, <2>2, Older, Zenon
  <2> QED BY <2>1, <2>3
<1>4. ASSUME NEW n PROVE (\E y \in 1..K : <<i, n>> \in Range(M[y])) <=> \E y \in 1..K : <<i, n>> \in Range(L[y])
  <2> DEFINE e == <<i, n>>
  <2>1. e[1] = i
    OBVIOUS
  <2> HIDE DEF e
  <2>2. ASSUME NEW y \in 1..K, NEW a \in 1..Len(M[y]), M[y][a] = e PROVE e \in Range(L[y])
    BY <1>0, <1>2, <2>1, <2>2 DEF Range
  <2>3. ASSUME NEW y \in 1..K, NEW a \in 1..Len(L[y]), L[y][a] = e PROVE e \in Range(M[y])
    <3>1. a \in 1..Len(M[y]) /\ M[y][a] = e
      BY <1>0, <1>1, <2>3
    <3> QED BY <1>0, <3>1 DEF Range
  <2> QED BY <1>0, <2>2, <2>3 DEF Range, e
<1> QED BY <1>0, <1>3, <1>4 DEF Present

(* A new record of i comes to the first place.                             *)
LEMMA Entered ==
  ASSUME NEW i, NEW K, NEW L, NEW M, Lanes(L, K), Lanes(M, K), NEW n \in 0..MaxCount - 1, 1 \in 1..K,
         L[1] = <<>>, M[1] = << <<i, n>> >>, \A x \in 1..K \ {1} : M[x] = L[x], InOrder(i, L),
         \A k \in Present(i, L) : k < n
  PROVE  InOrder(i, M) /\ Present(i, M) = Present(i, L) \cup {n}
<1> DEFINE e == <<i, n>>
<1>0. /\ K \in Nat
      /\ DOMAIN L = 1..K /\ DOMAIN M = 1..K
      /\ \A x \in 1..K : /\ DOMAIN L[x] = 1..Len(L[x]) /\ Len(L[x]) \in Nat
                         /\ DOMAIN M[x] = 1..Len(M[x]) /\ Len(M[x]) \in Nat
                         /\ \A a \in 1..Len(L[x]) : L[x][a] \in Records
  BY LaneFacts, SMTT(40) DEF Lanes
<1>1. Len(L[1]) = 0 /\ Len(M[1]) = 1 /\ M[1][1] = e /\ e[1] = i /\ e[2] = n /\ n \in Int
  OBVIOUS
<1>2. Range(L[1]) = {} /\ Range(M[1]) = {e}
  BY <1>0, <1>1 DEF Range
<1>3. ASSUME NEW y \in 1..K, NEW a \in 1..Len(L[y]), L[y][a][1] = i
      PROVE  L[y][a][2] < n
  <2>1. L[y][a] \in Records
    BY <1>0
  <2>2. L[y][a] = <<i, L[y][a][2]>> /\ L[y][a][2] \in 0..MaxCount - 1
    BY <1>3, <2>1, RecordFacts
  <2>3. <<i, L[y][a][2]>> \in Range(L[y])
    BY <1>0, <2>2 DEF Range
  <2> QED BY <1>0, <2>2, <2>3 DEF Present
<1> HIDE DEF e
<1>4. InOrder(i, M)
  <2> SUFFICES ASSUME NEW y \in 1..K, NEW x \in 1..K, NEW a \in 1..Len(M[y]), NEW b \in 1..Len(M[x]),
                      y > x \/ (y = x /\ a < b), M[y][a][1] = i, M[x][b][1] = i
               PROVE  M[y][a][2] < M[x][b][2]
    BY <1>0 DEF InOrder
  <2>1. y # 1
    BY <1>0, <1>1
  <2>2. CASE x = 1
    <3>1. M[x][b] = e
      BY <1>0, <1>1, <2>2
    <3>2. M[y][a] = L[y][a] /\ a \in 1..Len(L[y])
      BY <2>1
    <3> QED BY <1>1, <1>3, <3>1, <3>2
  <2>3. CASE x # 1
    BY <1>0, <2>1, <2>3 DEF InOrder
  <2> QED BY <2>2, <2>3
<1>5. \A c : (\E y \in 1..K : c \in Range(M[y])) <=> (c = e \/ \E y \in 1..K : c \in Range(L[y]))
  BY <1>2
<1>6. \A k : <<i, k>> = e <=> k = n
  BY DEF e
<1>7. \A k \in 0..MaxCount - 1 : k \in Present(i, M) <=> k = n \/ k \in Present(i, L)
  BY <1>0, <1>5, <1>6 DEF Present
<1>8. Present(i, M) \subseteq 0..MaxCount - 1 /\ Present(i, L) \subseteq 0..MaxCount - 1
  BY DEF Present
<1> QED BY <1>4, <1>7, <1>8

-----------------------------------------------------------------------------
(* The way from an input to an output along a route.                       *)
Shares(m, i) == \E s \in Range(Routes) : m \in Range(s) /\ i \in Range(s)

Way(p, i, o) ==
  /\ p \in Seq(Modules) /\ Len(p) \in Nat /\ 2 <= Len(p) /\ p[1] = i /\ p[Len(p)] = o
  /\ \A x \in 2..Len(p) - 1 : p[x] \in Processors
  /\ \A x, y \in 1..Len(p) : p[x] = p[y] => x = y
  /\ \A x \in 1..Len(p) - 1, y \in 1..Len(p) : p[y] \in Range(Targets[p[x]]) <=> y = x + 1
  /\ \A m \in Processors : Shares(m, i) /\ (\E y \in 1..Len(p) : p[y] \in Range(Targets[m]))
                           => \E x \in 1..Len(p) : p[x] = m

(* A processor is in one route.                                            *)
LEMMA OneRoute ==
  ASSUME NEW m \in Processors, NEW r \in Range(Routes), NEW s \in Range(Routes),
         m \in Range(r), m \in Range(s)
  PROVE  r = s
<1>1. PICK a \in DOMAIN Routes, b \in DOMAIN Routes : Routes[a] = r /\ Routes[b] = s
  BY DEF Range
<1>2. PICK x \in DOMAIN r, y \in DOMAIN s : r[x] = m /\ s[y] = m
  BY DEF Range
<1> QED BY <1>1, <1>2, RoutesAssumption

(* Along route r, a module's next one on the way is the one that follows.  *)
LEMMA Hop ==
  ASSUME NEW r \in Range(Routes), NEW i \in Range(r) \cap Inputs, NEW o \in Range(r) \cap Outputs,
         NEW P, P = Only(r, Processors)
  PROVE  /\ P \in Seq(Processors) /\ Len(P) \in Nat /\ Range(P) = Range(r) \cap Processors
         /\ \A x, y \in 1..Len(P) : P[x] = P[y] => x = y
         /\ P # <<>> => Range(NextInRoute(i, r)) = {P[1]}
         /\ P = <<>> => Range(NextInRoute(i, r)) = Range(r) \cap Outputs
         /\ \A x \in 1..Len(P) - 1 : Range(NextInRoute(P[x], r)) = {P[x + 1]}
         /\ P # <<>> => Range(NextInRoute(P[Len(P)], r)) = Range(r) \cap Outputs
<1>0. /\ r \in Seq(Modules) /\ Len(r) \in Nat /\ DOMAIN r = 1..Len(r)
      /\ \A x \in 1..Len(r) : r[x] \in Modules
      /\ \A x, y \in 1..Len(r) : r[x] \in Inputs /\ r[y] \notin Inputs => x < y
      /\ \A x, y \in 1..Len(r) : r[x] \in Processors /\ r[x] = r[y] => x = y
  BY RouteFacts
<1>1. /\ P \in Seq(Modules \cap Processors) /\ Range(P) = Range(r) \cap Processors
  BY <1>0, OnlyFacts
<1>2. Modules \cap Processors = Processors
  BY DEF Processors
<1>3. P \in Seq(Processors) /\ Len(P) \in Nat
  BY <1>1, <1>2
<1>4. PICK f : Picks(f, P, r, Processors, Len(r))
  BY <1>0, OnlyPicks
<1>5. /\ \A x \in 1..Len(P) : f[x] \in 1..Len(r) /\ P[x] = r[f[x]] /\ P[x] \in Processors
      /\ \A x, y \in 1..Len(P) : x < y => f[x] < f[y]
      /\ \A j \in 1..Len(r) : r[j] \in Processors => \E x \in 1..Len(P) : f[x] = j
  BY <1>4 DEF Picks
<1>6. ASSUME NEW x \in 1..Len(P), NEW y \in 1..Len(P), P[x] = P[y] PROVE x = y
  <2>1. f[x] = f[y] /\ f[x] \in Int
    BY <1>0, <1>5, <1>6
  <2>2. ~(x < y) /\ ~(y < x)
    BY <1>5, <2>1
  <2> QED BY <1>3, <2>2
<1>7. \A m, n : Follows(m, n, r) <=> \E a, b \in 1..Len(r) : a < b /\ r[a] = m /\ r[b] = n
  BY <1>0 DEF Follows
<1>8. PICK u \in 1..Len(r) : r[u] = i
  BY <1>0 DEF Range
<1>9. i \in Inputs /\ i \in Modules /\ \A n \in Processors : n \notin Inputs /\ n \in Modules
  BY KindFacts
<1>10. \A x \in 1..Len(P) : Follows(i, P[x], r)
  BY <1>0, <1>5, <1>7, <1>8, <1>9
<1>11. \A x, y \in 1..Len(P) : Follows(P[x], P[y], r) <=> x < y
  <2> SUFFICES ASSUME NEW x \in 1..Len(P), NEW y \in 1..Len(P)
               PROVE  Follows(P[x], P[y], r) <=> x < y
    OBVIOUS
  <2>1. ASSUME x < y PROVE Follows(P[x], P[y], r)
    BY <1>5, <1>7, <2>1
  <2>2. ASSUME Follows(P[x], P[y], r) PROVE x < y
    <3>1. PICK a \in 1..Len(r), b \in 1..Len(r) : a < b /\ r[a] = P[x] /\ r[b] = P[y]
      BY <1>7, <2>2
    <3>2. a = f[x] /\ b = f[y]
      BY <1>0, <1>5, <3>1
    <3>3. ~(y < x) /\ x # y
      BY <1>0, <1>5, <3>1, <3>2
    <3> QED BY <1>3, <3>3
  <2> QED BY <2>1, <2>2
<1>12. \A n \in Processors : \A m : Follows(m, n, r) => \E x \in 1..Len(P) : P[x] = n
  BY <1>5, <1>7
<1>13. ASSUME NEW m \in Modules, NEW w \in 1..Len(P),
              \A x \in 1..Len(P) : Follows(m, P[x], r) <=> w <= x
       PROVE  Range(NextInRoute(m, r)) = {P[w]}
  <2>1. P[w] \in Processors /\ Follows(m, P[w], r)
    BY <1>3, <1>5, <1>13
  <2>2. PICK j \in 1..Len(r) : /\ Range(NextInRoute(m, r)) = {r[j]}
                               /\ r[j] \in Processors /\ Follows(m, r[j], r)
                               /\ \A k \in 1..j - 1 : ~(r[k] \in Processors /\ Follows(m, r[k], r))
    BY <2>1, NextFacts
  <2>3. PICK x \in 1..Len(P) : f[x] = j
    BY <1>5, <2>2
  <2>4. w <= x
    BY <1>5, <1>13, <2>2, <2>3
  <2>5. ~(w < x)
    <3>1. ASSUME w < x PROVE FALSE
      <4>1. f[w] \in 1..j - 1 /\ r[f[w]] = P[w]
        BY <1>0, <1>5, <2>3, <3>1
      <4> QED BY <2>1, <2>2, <4>1
    <3> QED BY <3>1
  <2>6. x = w
    BY <1>3, <2>4, <2>5
  <2> QED BY <1>5, <2>2, <2>3, <2>6
<1>14. ASSUME NEW m \in Modules, \A x \in 1..Len(P) : ~Follows(m, P[x], r)
       PROVE  Range(NextInRoute(m, r)) = Range(r) \cap Outputs
  <2>1. ~\E n \in Processors : Follows(m, n, r)
    BY <1>12, <1>14
  <2> QED BY <2>1, NextFacts
<1>15. P # <<>> => Range(NextInRoute(i, r)) = {P[1]}
  <2> SUFFICES ASSUME P # <<>> PROVE Range(NextInRoute(i, r)) = {P[1]}
    OBVIOUS
  <2>1. 1 \in 1..Len(P) /\ \A x \in 1..Len(P) : 1 <= x
    BY <1>3
  <2> QED BY <1>9, <1>10, <1>13, <2>1
<1>16. P = <<>> => Range(NextInRoute(i, r)) = Range(r) \cap Outputs
  <2> SUFFICES ASSUME P = <<>> PROVE Range(NextInRoute(i, r)) = Range(r) \cap Outputs
    OBVIOUS
  <2>1. 1..Len(P) = {}
    OBVIOUS
  <2> QED BY <1>9, <1>14, <2>1
<1>17. ASSUME NEW x \in 1..Len(P) - 1 PROVE Range(NextInRoute(P[x], r)) = {P[x + 1]}
  <2>1. x \in 1..Len(P) /\ x + 1 \in 1..Len(P) /\ \A y \in 1..Len(P) : x < y <=> x + 1 <= y
    BY <1>3
  <2>2. P[x] \in Modules
    BY <1>5, <1>9, <2>1
  <2>3. \A y \in 1..Len(P) : Follows(P[x], P[y], r) <=> x + 1 <= y
    BY <1>11, <2>1
  <2> QED BY <1>13, <2>1, <2>2, <2>3
<1>18. P # <<>> => Range(NextInRoute(P[Len(P)], r)) = Range(r) \cap Outputs
  <2> SUFFICES ASSUME P # <<>> PROVE Range(NextInRoute(P[Len(P)], r)) = Range(r) \cap Outputs
    OBVIOUS
  <2>1. Len(P) \in 1..Len(P) /\ \A y \in 1..Len(P) : ~(Len(P) < y)
    BY <1>3
  <2>2. P[Len(P)] \in Modules
    BY <1>5, <1>9, <2>1
  <2> QED BY <1>11, <1>14, <2>1, <2>2
<1> QED BY <1>1, <1>3, <1>6, <1>15, <1>16, <1>17, <1>18

(* Paths are ways.                                                         *)
LEMMA PathIsWay ==
  ASSUME SinglePath, NEW r \in Range(Routes),
         NEW i \in Range(r) \cap Inputs, NEW o \in Range(r) \cap Outputs
  PROVE  Way(Path(i, o, r), i, o)
<1> DEFINE P == Only(r, Processors)
           p == Path(i, o, r)
           N == Len(p)
<1>1. /\ P \in Seq(Processors) /\ Len(P) \in Nat /\ Range(P) = Range(r) \cap Processors
      /\ \A x, y \in 1..Len(P) : P[x] = P[y] => x = y
      /\ P # <<>> => Range(NextInRoute(i, r)) = {P[1]}
      /\ P = <<>> => Range(NextInRoute(i, r)) = Range(r) \cap Outputs
      /\ \A x \in 1..Len(P) - 1 : Range(NextInRoute(P[x], r)) = {P[x + 1]}
      /\ P # <<>> => Range(NextInRoute(P[Len(P)], r)) = Range(r) \cap Outputs
  BY Hop
<1>2. p = (<<i>> \o P) \o <<o>>
  BY DEF Path
<1> HIDE DEF P, p
<1>3. /\ i \in Inputs /\ i \in Modules /\ i \notin Processors /\ i \notin Outputs /\ i \in Range(r)
      /\ o \in Outputs /\ o \in Modules /\ o \notin Processors /\ o \notin Inputs /\ o \in Range(r)
      /\ \A n \in Processors : n \in Modules /\ n \notin Inputs /\ n \notin Outputs
  BY KindFacts
<1>4. P \in Seq(Modules)
  BY <1>1, <1>3
<1>5. /\ p \in Seq(Modules) /\ N = Len(P) + 2
      /\ p[1] = i /\ p[N] = o /\ \A x \in 2..N - 1 : p[x] = P[x - 1] /\ x - 1 \in 1..Len(P)
  BY <1>1, <1>2, <1>3, <1>4
<1> HIDE DEF N
<1>6. /\ N \in Nat /\ 2 <= N
      /\ \A x \in 1..N : x = 1 \/ x = N \/ x \in 2..N - 1
      /\ \A x \in 2..N - 1 : p[x] \in Processors /\ p[x] \in Range(r)
      /\ DOMAIN P = 1..Len(P) /\ \A x \in 1..Len(P) : P[x] \in Processors
  <2>1. N \in Nat /\ 2 <= N /\ \A x \in 1..N : x = 1 \/ x = N \/ x \in 2..N - 1
    BY <1>1, <1>5
  <2>2. DOMAIN P = 1..Len(P) /\ \A x \in 1..Len(P) : P[x] \in Processors
    BY <1>1
  <2>3. \A x \in 1..Len(P) : P[x] \in Range(r)
    BY <1>1, <2>2 DEF Range
  <2> QED BY <1>5, <2>1, <2>2, <2>3
<1>7. ASSUME NEW x \in 1..N, NEW y \in 1..N, p[x] = p[y] PROVE x = y
  <2>1. CASE x \in 2..N - 1 /\ y \in 2..N - 1
    <3>1. x - 1 = y - 1
      BY <1>1, <1>5, <1>7, <2>1
    <3> QED BY <1>6, <2>1, <3>1
  <2>2. CASE x \notin 2..N - 1 \/ y \notin 2..N - 1
    BY <1>3, <1>5, <1>6, <1>7, <2>2
  <2> QED BY <2>1, <2>2
<1>8. ASSUME NEW x \in 1..N - 1
      PROVE  /\ p[x + 1] \in Range(NextInRoute(p[x], r))
             /\ \A y \in 1..N : p[y] \in Range(NextInRoute(p[x], r)) => p[y] = p[x + 1]
  <2>0. x \in 1..N /\ x + 1 \in 2..N /\ x + 1 \in 1..N
    BY <1>6
  <2>1. CASE x + 1 = N
    <3>1. Range(NextInRoute(p[x], r)) = Range(r) \cap Outputs
      <4>1. CASE x = 1
        <5>1. Len(P) = 0
          BY <1>1, <1>5, <2>1, <4>1
        <5>2. P = <<>>
          BY <1>1, <5>1
        <5> QED BY <1>1, <1>5, <4>1, <5>2
      <4>2. CASE x # 1
        <5>1. x \in 2..N - 1 /\ x - 1 = Len(P)
          BY <1>1, <1>5, <1>6, <2>0, <2>1, <4>2
        <5>2. p[x] = P[Len(P)] /\ P # <<>>
          <6>1. Len(P) \in 1..Len(P)
            BY <1>5, <5>1
          <6> QED BY <1>5, <5>1, <6>1
        <5> QED BY <1>1, <5>2
      <4> QED BY <4>1, <4>2
    <3>2. \A y \in 1..N : p[y] \in Outputs => p[y] = o
      BY <1>3, <1>5, <1>6
    <3> QED BY <1>3, <1>5, <2>1, <3>1, <3>2
  <2>2. CASE x + 1 # N
    <3>1. x + 1 \in 2..N - 1 /\ p[x + 1] = P[x] /\ x \in 1..Len(P)
      BY <1>5, <1>6, <2>0, <2>2
    <3>2. Range(NextInRoute(p[x], r)) = {P[x]}
      <4>1. CASE x = 1
        <5>1. P # <<>>
          BY <3>1
        <5> QED BY <1>1, <1>5, <4>1, <5>1
      <4>2. CASE x # 1
        <5>1. x \in 2..N - 1 /\ x - 1 \in 1..Len(P) - 1 /\ (x - 1) + 1 = x
          BY <1>1, <1>5, <1>6, <2>0, <2>2, <4>2
        <5> QED BY <1>1, <1>5, <5>1
      <4> QED BY <4>1, <4>2
    <3> QED BY <3>1, <3>2
  <2> QED BY <2>1, <2>2
<1>9. ASSUME NEW s \in Range(Routes), NEW m \in Modules, NEW y \in 1..N,
             p[y] \in Range(NextInRoute(m, s)), i \in Range(s)
      PROVE  s = r
  <2>1. p[y] \in Range(s) /\ p[y] \notin Inputs
    <3>1. Range(NextInRoute(m, s)) \subseteq Range(s) /\ NextInRoute(m, s) \in Seq(Modules \ Inputs)
      BY NextFacts
    <3> DEFINE q == NextInRoute(m, s)
    <3> HIDE DEF q
    <3>2. q \in Seq(Modules \ Inputs) => \A n \in Range(q) : n \notin Inputs
      BY DEF Range
    <3> QED BY <1>9, <3>1, <3>2 DEF q
  <2>2. y # 1
    BY <1>3, <1>5, <2>1
  <2>3. CASE y = N
    <3>1. {i, o} \subseteq Range(r) /\ {i, o} \subseteq Range(s)
      BY <1>3, <1>5, <1>9, <2>1, <2>3
    <3> QED BY <1>3, <3>1 DEF SinglePath
  <2>4. CASE y \in 2..N - 1
    BY <1>6, <2>1, <2>4, OneRoute
  <2> QED BY <1>6, <2>2, <2>3, <2>4
<1>10. ASSUME NEW x \in 1..N - 1, NEW y \in 1..N
       PROVE  p[y] \in Range(Targets[p[x]]) <=> y = x + 1
  <2>0. x \in 1..N /\ x + 1 \in 1..N /\ x # N
    BY <1>6
  <2>1. p[x] \in Modules /\ p[y] \in Modules /\ p[x + 1] \in Modules /\ p[x] \in Range(r)
    BY <1>3, <1>5, <1>6, <2>0
  <2>2. p[x + 1] \in Range(Targets[p[x]])
    BY <1>8, <2>1, Wiring
  <2>3. ASSUME p[y] \in Range(Targets[p[x]]) PROVE y = x + 1
    <3>1. PICK s \in Range(Routes) : p[x] \in Range(s) /\ p[y] \in Range(NextInRoute(p[x], s))
      BY <2>1, <2>3, Wiring
    <3>2. s = r
      <4>1. CASE x = 1
        BY <1>5, <1>9, <2>1, <3>1, <4>1
      <4>2. CASE x # 1
        <5>1. p[x] \in Processors
          BY <1>6, <2>0, <4>2
        <5> QED BY <2>1, <3>1, <5>1, OneRoute
      <4> QED BY <4>1, <4>2
    <3>3. p[y] = p[x + 1]
      BY <1>8, <3>1, <3>2
    <3> QED BY <1>7, <2>0, <3>3
  <2> QED BY <2>2, <2>3
<1>11. ASSUME NEW m \in Processors, Shares(m, i), NEW y \in 1..N, p[y] \in Range(Targets[m])
       PROVE  \E x \in 1..N : p[x] = m
  <2>0. m \in Modules /\ p[y] \in Modules
    BY <1>3, <1>5, <1>6
  <2>1. PICK s \in Range(Routes) : m \in Range(s) /\ p[y] \in Range(NextInRoute(m, s))
    BY <1>11, <2>0, Wiring
  <2>2. i \in Range(s)
    BY <1>11, <2>1, OneRoute DEF Shares
  <2>3. s = r
    BY <1>9, <2>0, <2>1, <2>2
  <2>4. m \in Range(P)
    BY <1>1, <2>1, <2>3
  <2>5. PICK w \in 1..Len(P) : P[w] = m
    BY <1>6, <2>4 DEF Range
  <2>6. w + 1 \in 2..N - 1 /\ w + 1 \in 1..N /\ p[w + 1] = m
    <3>1. w + 1 \in 2..N - 1 /\ w + 1 \in 1..N /\ (w + 1) - 1 = w
      BY <1>1, <1>5
    <3> QED BY <1>5, <2>5, <3>1
  <2> QED BY <2>6
<1>12. Way(p, i, o)
  BY <1>5, <1>6, <1>7, <1>10, <1>11 DEF Way, N
<1> QED BY <1>12 DEF p

-----------------------------------------------------------------------------
(* What a sender still has in its hands for its x-th target.               *)
Pending(m, x) ==
  \/ pc[m] \in {"push", "size", "push_sized"} /\ loc[m].t <= x
  \/ pc[m] \in {"pause_self", "can_send", "notify"} /\ loc[m].t < x

HandsSound ==
  \A m \in Modules \ Outputs : \A x \in 1..Len(Targets[m]) :
     /\ Held(m, Targets[m][x]) = IF Pending(m, x) THEN <<loc[m].rec>> ELSE <<>>
     /\ Pending(m, x) => loc[m].rec \in Records /\ pc[m] \in Sending

PlacesSound ==
  \A p, i, o : Way(p, i, o) /\ i \in Inputs /\ o \in Outputs =>
     /\ Lanes(Places(p), 2 * Len(p) - 1)
     /\ \A x \in 2..Len(p) : Places(p)[2 * x - 2] = queue[p[x]]
     /\ \A x \in 1..Len(p) - 1 : Places(p)[2 * x - 1] = Held(p[x], p[x + 1])
     /\ Places(p)[2 * Len(p) - 1] = delivered[o]

(* A sender holds its record for the targets that are still to come.       *)
LEMMA HandsAre ==
  SinglePath /\ TypeInv => HandsSound
<1> SUFFICES ASSUME SinglePath, TypeInv, NEW m \in Modules \ Outputs, NEW x \in 1..Len(Targets[m])
             PROVE  /\ Held(m, Targets[m][x]) = IF Pending(m, x) THEN <<loc[m].rec>> ELSE <<>>
                    /\ Pending(m, x) => loc[m].rec \in Records /\ pc[m] \in Sending
  BY DEF HandsSound
<1>1. Targets[m] \in Seq(Modules \ Inputs)
  BY Wiring
<1>2. DOMAIN Targets[m] = 1..Len(Targets[m])
  BY <1>1
<1> DEFINE c == CHOOSE y \in DOMAIN Targets[m] : Targets[m][y] = Targets[m][x]
<1>3. c \in DOMAIN Targets[m] /\ Targets[m][c] = Targets[m][x]
  BY <1>2
<1>4. c = x
  <2> HIDE DEF c
  <2> QED BY <1>2, <1>3 DEF SinglePath
<1>5. Held(m, Targets[m][x]) = IF Pending(m, c) THEN <<loc[m].rec>> ELSE <<>>
  BY DEF Held, Pending
<1>6. Pending(m, x) => pc[m] \in Sending
  BY DEF Pending, Sending
<1>7. pc[m] \in Sending => loc[m].rec \in Records
  BY TargetFacts
<1> QED BY <1>4, <1>5, <1>6, <1>7

(* A place is a queue, a hand or the output's.                             *)
LEMMA LaneCases ==
  ASSUME NEW N \in Nat, NEW z \in 1..2 * N - 1
  PROVE  \/ \E x \in 2..N : z = 2 * x - 2
         \/ \E x \in 1..N - 1 : z = 2 * x - 1
         \/ z = 2 * N - 1
           \/ z = 2 * N - 1
<1>0. z \in Int /\ 1 <= z /\ z <= 2 * N - 1 /\ N \in Int
  OBVIOUS
<1>1. PICK k \in Int : z = 2 * k \/ z = 2 * k + 1
  <2>1. \A n \in Int : n \div 2 \in Int /\ (n = 2 * (n \div 2) \/ n = 2 * (n \div 2) + 1)
    OBVIOUS
  <2> QED BY <1>0, <2>1
<1>2. CASE z = 2 * k
  <2>1. k + 1 \in 2..N /\ z = 2 * (k + 1) - 2
    BY <1>0, <1>2
  <2> QED BY <2>1
<1>3. CASE z = 2 * k + 1
  <2>1. k + 1 \in 1..N /\ z = 2 * (k + 1) - 1
    BY <1>0, <1>3
  <2>2. k + 1 = N \/ k + 1 \in 1..N - 1
    BY <1>0, <2>1
  <2> QED BY <2>1, <2>2
<1> QED BY <1>1, <1>2, <1>3

(* The places of a way: hands and queues in turn.                          *)
LEMMA PlacesAre ==
  SinglePath /\ TypeInv => PlacesSound
<1> SUFFICES ASSUME SinglePath, TypeInv, NEW p, NEW i \in Inputs, NEW o \in Outputs, Way(p, i, o)
             PROVE  /\ Lanes(Places(p), 2 * Len(p) - 1)
                    /\ \A x \in 2..Len(p) : Places(p)[2 * x - 2] = queue[p[x]]
                    /\ \A x \in 1..Len(p) - 1 : Places(p)[2 * x - 1] = Held(p[x], p[x + 1])
                    /\ Places(p)[2 * Len(p) - 1] = delivered[o]
  BY DEF PlacesSound
<1> DEFINE N == Len(p)
           L == Places(p)
<1>1. /\ p \in Seq(Modules) /\ N \in Nat /\ 2 <= N /\ p[1] = i /\ p[N] = o
      /\ \A x \in 2..N - 1 : p[x] \in Processors
      /\ \A x \in 1..N - 1, y \in 1..N : p[y] \in Range(Targets[p[x]]) <=> y = x + 1
  BY DEF Way
<1>2. /\ L = [z \in 1..2 * N - 1 |-> Place(p, z)]
  BY DEF Places
<1> HIDE DEF N, L
<1>3. ASSUME NEW x \in 2..N PROVE L[2 * x - 2] = queue[p[x]] /\ 2 * x - 2 \in 1..2 * N - 1
  <2>1. /\ 2 * x - 2 \in 1..2 * N - 1 /\ (2 * x - 2) % 2 = 0
        /\ ((2 * x - 2) + 1) \div 2 = x - 1 /\ (x - 1) + 1 = x
    BY <1>1
  <2> QED BY <1>2, <2>1 DEF Place
<1>4. ASSUME NEW x \in 1..N - 1
      PROVE  L[2 * x - 1] = Held(p[x], p[x + 1]) /\ 2 * x - 1 \in 1..2 * N - 1
  <2>1. /\ 2 * x - 1 \in 1..2 * N - 1 /\ (2 * x - 1) % 2 # 0
        /\ ((2 * x - 1) + 1) \div 2 = x /\ x < N
    BY <1>1
  <2> QED BY <1>2, <2>1 DEF Place, N
<1>5. L[2 * N - 1] = delivered[o]
  <2>1. /\ 2 * N - 1 \in 1..2 * N - 1 /\ (2 * N - 1) % 2 # 0
        /\ ((2 * N - 1) + 1) \div 2 = N /\ ~(N < N)
    BY <1>1
  <2> QED BY <1>1, <1>2, <2>1 DEF Place, N
<1>6. ASSUME NEW z \in 1..2 * N - 1
      PROVE  \/ \E x \in 2..N : z = 2 * x - 2
             \/ \E x \in 1..N - 1 : z = 2 * x - 1
             \/ z = 2 * N - 1
  BY <1>1, LaneCases
<1>7. /\ queue \in [Modules -> Seq(Records)] /\ delivered \in [Outputs -> Seq(Records)]
  BY DEF TypeInv, TypeOK
<1>8. ASSUME NEW x \in 1..N - 1 PROVE Held(p[x], p[x + 1]) \in Seq(Records)
  <2>1. p[x] \in Modules \ Outputs
    <3>1. x = 1 \/ x \in 2..N - 1
      BY <1>1
    <3> QED BY <1>1, <3>1, KindFacts
  <2>2. p[x + 1] \in Range(Targets[p[x]])
    <3>1. x + 1 \in 1..N
      BY <1>1
    <3> QED BY <1>1, <3>1
  <2>3. Targets[p[x]] \in Seq(Modules \ Inputs)
    BY <2>1, Wiring
  <2>4. PICK t \in 1..Len(Targets[p[x]]) : Targets[p[x]][t] = p[x + 1]
    BY <2>2, <2>3 DEF Range
  <2>5. /\ Held(p[x], p[x + 1]) = IF Pending(p[x], t) THEN <<loc[p[x]].rec>> ELSE <<>>
        /\ Pending(p[x], t) => loc[p[x]].rec \in Records
    BY <2>1, <2>4, HandsAre DEF HandsSound
  <2>6. \A c \in Records : <<c>> \in Seq(Records)
    OBVIOUS
  <2> QED BY <2>5, <2>6
<1>9. ASSUME NEW z \in 1..2 * N - 1 PROVE L[z] \in Seq(Records)
  <2>1. \A x \in 1..N : p[x] \in Modules
    BY <1>1 DEF N
  <2>2. \A x \in 2..N : L[2 * x - 2] \in Seq(Records)
    <3>1. \A x \in 2..N : x \in 1..N
      BY <1>1
    <3> QED BY <1>3, <1>7, <2>1, <3>1
  <2>3. \A x \in 1..N - 1 : L[2 * x - 1] \in Seq(Records)
    BY <1>4, <1>8
  <2>4. L[2 * N - 1] \in Seq(Records)
    BY <1>5, <1>7
  <2> QED BY <1>6, <2>2, <2>3, <2>4
<1>10. Lanes(L, 2 * N - 1)
  <2>1. 2 * N - 1 \in Nat
    BY <1>1
  <2>2. L \in [1..2 * N - 1 -> Seq(Records)]
    BY <1>2, <1>9
  <2> QED BY <2>1, <2>2 DEF Lanes
<1> QED BY <1>3, <1>4, <1>5, <1>10 DEF L, N

-----------------------------------------------------------------------------
(* Steps that move no record, and the others.                              *)
Rests(m) ==
  /\ UNCHANGED <<queue, delivered, dropped>>
  /\ \A i \in Inputs : Made(i)' = Made(i)
  /\ pc'[m] \in Sending => /\ pc[m] \in Sending /\ loc'[m].rec = loc[m].rec
                           /\ m \in Inputs => counter'[m] = counter[m]
  /\ m \notin Outputs => \A x \in 1..Len(Targets[m]) : Pending(m, x)' <=> Pending(m, x)

Refuse(m) ==
  /\ LookAtSize(m) /\ Goto(m, "notify")
  /\ dropped' = [dropped EXCEPT ![Target(m)] = dropped[Target(m)] \cup {loc[m].rec}]

(* On to the next target with what is left.                                *)
LEMMA NextTargetHands ==
  ASSUME TypeInv, NEW m \in Modules, pc[m] \in {"pause_self", "can_send", "notify"}, NextTarget(m, loc[m])
  PROVE  /\ pc'[m] \in Sending /\ loc'[m].rec = loc[m].rec
         /\ \A x \in 1..Len(Targets[m]) : Pending(m, x)' <=> Pending(m, x)
<1>1. /\ loc \in [Modules -> Locals] /\ pc \in [Modules -> Labels] /\ loc[m] \in Locals
      /\ loc[m].t \in 1..Len(Targets[m]) /\ m \notin Outputs
  BY HandlerFacts DEF Handler, Sending, TypeInv, TypeOK
<1>2. Len(Targets[m]) \in Nat
  BY <1>1, WiringFacts
<1>3. CASE loc[m].t < Len(Targets[m])
  <2>1. /\ loc'[m] = [loc[m] EXCEPT !.t = loc[m].t + 1] /\ pc'[m] \in {"push", "size"}
    BY <1>1, <1>3 DEF NextTarget, Goto, FirstTarget
  <2>2. loc'[m].t = loc[m].t + 1 /\ loc'[m].rec = loc[m].rec
    BY <1>1, <2>1 DEF Locals
  <2>3. \A x \in 1..Len(Targets[m]) : loc[m].t + 1 <= x <=> loc[m].t < x
    BY <1>1, <1>2
  <2> QED BY <2>1, <2>2, <2>3 DEF Pending, Sending
<1>4. CASE ~(loc[m].t < Len(Targets[m]))
  <2>1. loc'[m] = loc[m] /\ pc'[m] = "sent"
    BY <1>1, <1>4 DEF NextTarget, Goto
  <2>2. \A x \in 1..Len(Targets[m]) : ~(loc[m].t < x)
    BY <1>1, <1>2, <1>4
  <2> QED BY <2>1, <2>2 DEF Pending, Sending
<1> QED BY <1>3, <1>4

(* How many records have been made, when one handler moves.                *)
LEMMA MadeSame ==
  ASSUME TypeInv, NEW m \in Modules, Take(m) \/ HandlerStep(m), NEW i \in Inputs,
         \/ i # m /\ counter'[i] = counter[i]
         \/ counter'[i] = counter[i] /\ (pc'[i] \in Sending <=> pc[i] \in Sending)
         \/ counter'[i] = counter[i] + 1 /\ pc[i] \in Sending /\ pc'[i] \notin Sending
  PROVE  Made(i)' = Made(i)
<1>1. i # m => pc'[i] = pc[i]
  BY HandlersKept, KindFacts
<1>2. counter[i] \in Nat
  BY DEF TypeInv, TypeOK
<1> QED BY <1>1, <1>2 DEF Made

(* Only these steps move records.                                          *)
LEMMA Movers ==
  ASSUME TypeInv, NEW m \in Modules, Take(m) \/ HandlerStep(m)
  PROVE  \/ Rests(m) \/ Generate(m) \/ GenerateDrop(m) \/ Push(m) \/ PushSized(m) \/ Refuse(m)
         \/ ExecDrop(m) \/ Pop(m)
<1>0. /\ loc \in [Modules -> Locals] /\ pc \in [Modules -> Labels] /\ loc[m] \in Locals
      /\ counter \in [Inputs -> 0..MaxCount] /\ Inputs \subseteq Modules
  BY KindFacts DEF TypeInv, TypeOK
<1>1. ASSUME UNCHANGED <<queue, delivered, dropped, counter>>, pc[m] \notin Sending, pc'[m] \notin Sending
      PROVE  Rests(m)
  <2>1. \A x : ~Pending(m, x) /\ ~Pending(m, x)'
    BY <1>1 DEF Pending, Sending
  <2>2. \A i \in Inputs : Made(i)' = Made(i)
    BY <1>1, MadeSame
  <2> QED BY <1>1, <2>1, <2>2 DEF Rests
<1>2. ASSUME UNCHANGED <<queue, delivered, dropped, counter>>, pc[m] \in Sending, pc'[m] \in Sending,
             loc'[m].rec = loc[m].rec,
             \A x \in 1..Len(Targets[m]) : Pending(m, x)' <=> Pending(m, x)
      PROVE  Rests(m)
  <2>1. \A i \in Inputs : Made(i)' = Made(i)
    BY <1>2, MadeSame
  <2> QED BY <1>2, <2>1 DEF Rests
<1>3. CASE Take(m)
  <2>1. UNCHANGED <<queue, delivered, dropped, counter>> /\ pc[m] \notin Sending
    BY <1>3 DEF Take, Sending
  <2>2. pc'[m] \notin Sending
    BY <1>0, <1>3 DEF Take, Goto, Entry, Sending
  <2> QED BY <1>1, <2>1, <2>2
<1>4. CASE ControlStep(m)
  <2>1. UNCHANGED <<queue, delivered, dropped, counter>> /\ pc[m] \notin Sending
    BY <1>4 DEF ControlStep, StartCallback, StartSelf, StartQueued, PauseCallback, PauseSelf,
       ResumeCallback, ResumeSelf, ResumeQueued, StatusVars, Sending
  <2>2. pc'[m] \notin Sending
    BY <1>0, <1>4, ControlMoves DEF Moves, Sending
  <2> QED BY <1>1, <2>1, <2>2
<1>5. CASE Peek(m) \/ SelfNotify(m) \/ CheckSender(m) \/ ResumeSender(m) \/ SenderStatus(m)
           \/ NotifySender(m) \/ Exec(m)
  <2>1. UNCHANGED <<queue, delivered, dropped, counter>> /\ pc[m] \notin Sending
    BY <1>5 DEF Peek, SelfNotify, CheckSender, ResumeSender, SenderStatus, NotifySender, Exec,
       DataVars, Sending
  <2>2. pc'[m] \notin Sending
    BY <1>0, <1>5 DEF Peek, SelfNotify, CheckSender, ResumeSender, SenderStatus, NotifySender, Exec,
       NextSender, Finish, Goto, Sending
  <2> QED BY <1>1, <2>1, <2>2
<1>6. CASE MaxCountReached(m) \/ Repost(m)
  <2>1. UNCHANGED <<queue, delivered, dropped, counter>> /\ pc[m] \notin Sending
    BY <1>6 DEF MaxCountReached, Repost, InputVars, Sending
  <2>2. pc'[m] \notin Sending
    BY <1>0, <1>6 DEF MaxCountReached, Repost, Finish, Goto, Sending
  <2> QED BY <1>1, <2>1, <2>2
<1>7. CASE PausePosted(m) \/ CanSend(m) \/ Notify(m)
  <2>1. /\ UNCHANGED <<queue, delivered, dropped, counter>> /\ pc[m] \in Sending
        /\ pc[m] \in {"pause_self", "can_send", "notify"}
    BY <1>7 DEF PausePosted, CanSend, Notify, SendVars, Sending
  <2>2. NextTarget(m, loc[m]) \/ (UNCHANGED loc /\ pc'[m] \in {"can_send", "notify"})
    BY <1>0, <1>7 DEF PausePosted, CanSend, Notify, Goto
  <2>3. CASE NextTarget(m, loc[m])
    BY <1>2, <2>1, <2>3, NextTargetHands
  <2>4. CASE UNCHANGED loc /\ pc'[m] \in {"can_send", "notify"}
    <3>1. pc'[m] \in Sending /\ \A x : Pending(m, x)' <=> Pending(m, x)
      BY <2>1, <2>4 DEF Pending, Sending
    <3> QED BY <1>2, <2>1, <2>4, <3>1
  <2> QED BY <2>2, <2>3, <2>4
<1>8. CASE LookAtSize(m) /\ ~Refuse(m)
  <2>1. /\ UNCHANGED <<queue, delivered, dropped, counter, loc>> /\ pc[m] = "size" /\ pc'[m] = "push_sized"
    BY <1>0, <1>8 DEF LookAtSize, Refuse, SendVars, Goto
  <2>2. pc[m] \in Sending /\ pc'[m] \in Sending /\ \A x : Pending(m, x)' <=> Pending(m, x)
    BY <2>1 DEF Pending, Sending
  <2> QED BY <1>2, <2>1, <2>2
<1>9. CASE Sent(m)
  <2>1. UNCHANGED <<queue, delivered, dropped>> /\ pc[m] = "sent"
    BY <1>9 DEF Sent, SendVars
  <2>2. pc'[m] \notin Sending
    BY <1>0, <1>9 DEF Sent, NextRound, Finish, Goto, Sending
  <2>3. \A x : ~Pending(m, x) /\ ~Pending(m, x)'
    BY <2>1, <2>2 DEF Pending, Sending
  <2>4. ASSUME NEW i \in Inputs PROVE Made(i)' = Made(i)
    <3>1. CASE i = m
      <4>1. counter'[i] = counter[i] + 1 /\ pc[i] \in Sending /\ pc'[i] \notin Sending
        BY <1>0, <1>9, <2>1, <2>2, <3>1 DEF Sent, NextRound, Sending
      <4> QED BY <4>1, MadeSame
    <3>2. CASE i # m
      <4>1. counter'[i] = counter[i]
        BY <1>0, <1>9, <3>2 DEF Sent, NextRound
      <4> QED BY <3>2, <4>1, MadeSame
    <3> QED BY <3>1, <3>2
  <2> QED BY <2>1, <2>2, <2>3, <2>4 DEF Rests
<1> QED BY <1>3, <1>4, <1>5, <1>6, <1>7, <1>8, <1>9 DEF HandlerStep, ReceiveStep, SendStep

(* An input makes a record and goes on to send it, or drops it at once.    *)
Counts(m) ==
  /\ m \in Inputs /\ UNCHANGED <<queue, delivered>>
  /\ Made(m) \in 0..MaxCount - 1 /\ Made(m)' = Made(m) + 1
  /\ \A i \in Inputs \ {m} : Made(i)' = Made(i)
  /\ \A x \in 1..Len(Targets[m]) : ~Pending(m, x)

Creates(m) ==
  /\ Counts(m) /\ UNCHANGED dropped
  /\ pc'[m] \in Sending /\ loc'[m].rec = <<m, Made(m)>> /\ counter'[m] = Made(m)
  /\ \A x \in 1..Len(Targets[m]) : Pending(m, x)'

Discards(m) ==
  /\ Counts(m) /\ dropped' = [dropped EXCEPT ![m] = dropped[m] \cup {<<m, Made(m)>>}]
  /\ pc'[m] \notin Sending
  /\ \A x \in 1..Len(Targets[m]) : ~Pending(m, x)'

(* A sender is done with one target: its queue has the record, or it is    *)
(* dropped.                                                                *)
Sends(m) ==
  /\ m \notin Outputs /\ UNCHANGED delivered
  /\ \A i \in Inputs : Made(i)' = Made(i)
  /\ pc[m] \in Sending /\ pc'[m] \in Sending /\ loc'[m].rec = loc[m].rec
  /\ m \in Inputs => counter'[m] = counter[m]
  /\ loc[m].t \in 1..Len(Targets[m]) /\ Pending(m, loc[m].t)
  /\ \A x \in 1..Len(Targets[m]) : Pending(m, x)' <=> Pending(m, x) /\ x # loc[m].t
  /\ \/ /\ queue' = [queue EXCEPT ![Target(m)] = Append(queue[Target(m)], loc[m].rec)]
        /\ UNCHANGED dropped
     \/ /\ UNCHANGED queue
        /\ dropped' = [dropped EXCEPT ![Target(m)] = dropped[Target(m)] \cup {loc[m].rec}]

(* A receiver takes the first record out of its queue: to drop it, to      *)
(* consume it or to send it on.                                            *)
Takes(m) ==
  /\ m \notin Inputs /\ queue[m] # <<>> /\ queue' = [queue EXCEPT ![m] = Tail(queue[m])]
  /\ \A i \in Inputs : Made(i)' = Made(i)
  /\ m \notin Outputs => \A x \in 1..Len(Targets[m]) : ~Pending(m, x)
  /\ \/ /\ dropped' = [dropped EXCEPT ![m] = dropped[m] \cup {Head(queue[m])}] /\ UNCHANGED delivered
        /\ pc'[m] \notin Sending
        /\ m \notin Outputs => \A x \in 1..Len(Targets[m]) : ~Pending(m, x)'
     \/ /\ m \in Outputs /\ delivered' = [delivered EXCEPT ![m] = Append(delivered[m], Head(queue[m]))]
        /\ UNCHANGED dropped /\ pc'[m] \notin Sending
     \/ /\ m \in Processors /\ UNCHANGED <<delivered, dropped>>
        /\ pc'[m] \in Sending /\ loc'[m].rec = Head(queue[m])
        /\ \A x \in 1..Len(Targets[m]) : Pending(m, x)'

(* Every step of a handler is one of these.                                *)
LEMMA Effects ==
  ASSUME PeekedInv, NEW m \in Modules, Take(m) \/ HandlerStep(m)
  PROVE  Rests(m) \/ Creates(m) \/ Discards(m) \/ Sends(m) \/ Takes(m)
<1>0. /\ TypeInv /\ loc \in [Modules -> Locals] /\ pc \in [Modules -> Labels] /\ loc[m] \in Locals
      /\ counter \in [Inputs -> 0..MaxCount] /\ Inputs \subseteq Modules /\ MaxCount \in Nat
      /\ Handler(m, pc[m], loc[m]) /\ loc[m].t \in Nat
  BY KindFacts, HandlerFacts, BoundsAssumption DEF PeekedInv, TypeInv, TypeOK, Locals
<1>1. ASSUME pc[m] = "generate", pc[m] = "generate" => m \in Inputs, counter[m] < MaxCount, UNCHANGED <<queue, delivered>>,
             \A i \in Inputs \ {m} : counter'[i] = counter[i],
             \/ counter'[m] = counter[m] /\ pc'[m] \in Sending
             \/ counter'[m] = counter[m] + 1 /\ pc'[m] \notin Sending
      PROVE  Counts(m) /\ Made(m) = counter[m]
  <2>1. m \in Inputs /\ counter[m] \in 0..MaxCount - 1
    BY <1>0, <1>1
  <2>2. Made(m) = counter[m]
    BY <1>1, <2>1 DEF Made, Sending
  <2>3. Made(m)' = counter[m] + 1
    BY <1>1, <2>1 DEF Made
  <2>4. \A i \in Inputs \ {m} : Made(i)' = Made(i)
    BY <1>0, <1>1, MadeSame
  <2>5. \A x : ~Pending(m, x)
    BY <1>1 DEF Pending
  <2> QED BY <1>1, <2>1, <2>2, <2>3, <2>4, <2>5 DEF Counts
<1>2. pc[m] = "generate" => m \in Inputs
  BY <1>0 DEF Handler, InputLabels
<1>3. CASE Generate(m)
  <2>1. /\ pc[m] = "generate" /\ counter[m] < MaxCount /\ UNCHANGED <<queue, delivered, counter, dropped>>
        /\ loc'[m] = [loc[m] EXCEPT !.rec = <<m, counter[m]>>, !.t = 1] /\ pc'[m] \in {"push", "size"}
    BY <1>0, <1>3 DEF Generate, InputVars, Goto, FirstTarget
  <2>2. loc'[m].rec = <<m, counter[m]>> /\ loc'[m].t = 1
    BY <1>0, <2>1 DEF Locals
  <2>3. pc'[m] \in Sending
    BY <2>1 DEF Sending
  <2>4. \A x \in 1..Len(Targets[m]) : Pending(m, x)'
    BY <2>1, <2>2 DEF Pending
  <2>5. Counts(m) /\ Made(m) = counter[m]
    BY <1>1, <1>2, <2>1, <2>3
  <2> QED BY <2>1, <2>2, <2>3, <2>4, <2>5 DEF Creates
<1>4. CASE GenerateDrop(m)
  <2>1. /\ pc[m] = "generate" /\ counter[m] < MaxCount /\ UNCHANGED <<queue, delivered>>
        /\ dropped' = [dropped EXCEPT ![m] = dropped[m] \cup {<<m, counter[m]>>}]
        /\ counter' = [counter EXCEPT ![m] = counter[m] + 1] /\ pc'[m] \in {"generate", "repost"}
    BY <1>0, <1>4 DEF GenerateDrop, NextRound, InputVars, Goto
  <2>2. counter'[m] = counter[m] + 1 /\ \A i \in Inputs \ {m} : counter'[i] = counter[i]
    BY <1>0, <1>2, <2>1
  <2>3. pc'[m] \notin Sending /\ \A x : ~Pending(m, x)'
    BY <2>1 DEF Pending, Sending
  <2>4. Counts(m) /\ Made(m) = counter[m]
    BY <1>1, <1>2, <2>1, <2>2, <2>3
  <2> QED BY <2>1, <2>3, <2>4 DEF Discards
<1>5. CASE Push(m) \/ PushSized(m) \/ Refuse(m)
  <2>1. /\ pc[m] \in {"push", "push_sized", "size"} /\ pc'[m] \in {"pause_self", "can_send", "notify"}
        /\ UNCHANGED <<delivered, counter>>
    BY <1>0, <1>5 DEF Push, PushSized, Refuse, LookAtSize, SendVars, Goto
  <2>2. /\ \/ /\ queue' = [queue EXCEPT ![Target(m)] = Append(queue[Target(m)], loc[m].rec)]
              /\ UNCHANGED dropped
           \/ /\ UNCHANGED queue
              /\ dropped' = [dropped EXCEPT ![Target(m)] = dropped[Target(m)] \cup {loc[m].rec}]
    BY <1>5 DEF Push, PushSized, Refuse, LookAtSize, SendVars
  <2>3. loc' = [loc EXCEPT ![m].sent = TRUE] \/ UNCHANGED loc
    BY <1>5 DEF Push, PushSized, Refuse, LookAtSize
  <2>4. loc'[m].rec = loc[m].rec /\ loc'[m].t = loc[m].t
    <3>1. loc'[m] = [loc[m] EXCEPT !.sent = TRUE] \/ loc'[m] = loc[m]
      BY <1>0, <2>3
    <3> QED BY <1>0, <3>1 DEF Locals
  <2>5. pc[m] \in Sending /\ pc'[m] \in Sending
    BY <2>1 DEF Sending
  <2>6. m \notin Outputs /\ loc[m].t \in 1..Len(Targets[m])
    BY <1>0, <2>5 DEF Handler
  <2>7. Len(Targets[m]) \in Nat
    BY <2>6, WiringFacts
  <2>8. /\ Pending(m, loc[m].t)
        /\ \A x \in 1..Len(Targets[m]) : Pending(m, x)' <=> Pending(m, x) /\ x # loc[m].t
    <3>1. loc[m].t <= loc[m].t /\ \A x \in 1..Len(Targets[m]) : loc[m].t < x <=> loc[m].t <= x /\ x # loc[m].t
      BY <1>0, <2>7
    <3> QED BY <2>1, <2>4, <3>1 DEF Pending
  <2>9. \A i \in Inputs : Made(i)' = Made(i)
    BY <1>0, <2>1, <2>5, MadeSame
  <2> QED BY <2>1, <2>2, <2>4, <2>5, <2>6, <2>8, <2>9 DEF Sends
<1>6. CASE ExecDrop(m) \/ Pop(m)
  <2>1. /\ pc[m] \in {"exec", "pop"} /\ UNCHANGED counter /\ pc[m] \notin Sending
        /\ queue' = [queue EXCEPT ![m] = Tail(queue[m])]
    BY <1>6 DEF ExecDrop, Pop, DataVars, Sending
  <2>2. m \notin Inputs /\ loc[m].rec # None
    BY <1>0, <2>1 DEF Handler, ReceiveLabels, PeekedLabels
  <2>3. queue[m] # <<>> /\ loc[m].rec = Head(queue[m])
    BY <2>1, <2>2 DEF PeekedInv, Peeked, PeekedLabels
  <2>4. \A i \in Inputs : Made(i)' = Made(i)
    BY <1>0, <2>1, <2>2, MadeSame
  <2>5. \A x : ~Pending(m, x)
    BY <2>1 DEF Pending
  <2>6. CASE ExecDrop(m)
    <3>1. /\ dropped' = [dropped EXCEPT ![m] = dropped[m] \cup {Head(queue[m])}]
          /\ UNCHANGED delivered /\ pc'[m] = "idle"
      BY <1>0, <2>3, <2>6 DEF ExecDrop, Finish, Goto
    <3>2. pc'[m] \notin Sending /\ \A x : ~Pending(m, x)'
      BY <3>1 DEF Pending, Sending
    <3> QED BY <2>1, <2>2, <2>3, <2>4, <2>5, <3>1, <3>2 DEF Takes
  <2>7. CASE Pop(m) /\ m \in Outputs
    <3>1. /\ delivered' = [delivered EXCEPT ![m] = Append(delivered[m], Head(queue[m]))]
          /\ UNCHANGED dropped /\ pc'[m] = "idle"
      BY <1>0, <2>3, <2>7 DEF Pop, Finish, Goto
    <3>2. pc'[m] \notin Sending
      BY <3>1 DEF Sending
    <3> QED BY <2>1, <2>2, <2>3, <2>4, <2>5, <2>7, <3>1, <3>2 DEF Takes
  <2>8. CASE Pop(m) /\ m \notin Outputs
    <3>1. /\ UNCHANGED <<delivered, dropped>> /\ pc'[m] \in {"push", "size"}
          /\ loc'[m] = [loc[m] EXCEPT !.t = 1]
      BY <1>0, <2>8 DEF Pop, Goto, FirstTarget
    <3>2. loc'[m].t = 1 /\ loc'[m].rec = Head(queue[m])
      BY <1>0, <2>3, <3>1 DEF Locals
    <3>3. pc'[m] \in Sending /\ \A x \in 1..Len(Targets[m]) : Pending(m, x)'
      BY <3>1, <3>2 DEF Pending, Sending
    <3>4. m \in Processors
      BY <2>2, <2>8, KindFacts
    <3> QED BY <2>1, <2>2, <2>3, <2>4, <2>5, <3>1, <3>2, <3>3, <3>4 DEF Takes
  <2> QED BY <1>6, <2>6, <2>7, <2>8
<1> QED BY <1>0, <1>3, <1>4, <1>5, <1>6, Movers

-----------------------------------------------------------------------------
(* A record that is under way has been made, by an input that shares a     *)
(* route with the processor that has it.                                   *)
Numbers == [i \in Inputs |-> Made(i)]

Sound(m, c, k) == c[2] < k[c[1]] /\ (m \in Processors => Shares(m, c[1]))

OriginInv ==
  \A m \in Modules :
     /\ \A a \in 1..Len(queue[m]) : Sound(m, queue[m][a], Numbers)
     /\ pc[m] \in Sending => Sound(m, loc[m].rec, Numbers)
     /\ pc[m] \in Sending /\ m \in Inputs => loc[m].rec = <<m, counter[m]>>
     /\ \A c \in dropped[m] : c[2] < Numbers[c[1]]

(* Sending a record on keeps it within its route.                          *)
LEMMA Passes ==
  ASSUME NEW m \in Modules, NEW n \in Range(Targets[m]), NEW i,
         m = i \/ (m \in Processors /\ Shares(m, i))
  PROVE  Shares(n, i)
<1>1. n \in Modules
  <2>1. Targets[m] \in Seq(Modules \ Inputs)
    BY Wiring
  <2> QED BY <2>1 DEF Range
<1>2. PICK s \in Range(Routes) : m \in Range(s) /\ n \in Range(NextInRoute(m, s))
  BY <1>1, Wiring
<1>3. n \in Range(s)
  BY <1>2, NextFacts
<1>4. i \in Range(s)
  BY <1>2, OneRoute DEF Shares
<1> QED BY <1>3, <1>4 DEF Shares

(* Records keep their origin.                                              *)
LEMMA OriginKept ==
  ASSUME PeekedInv, NEW m \in Modules, Take(m) \/ HandlerStep(m), OriginInv
  PROVE  OriginInv'
<1>0. /\ TypeInv /\ queue \in [Modules -> Seq(Records)] /\ dropped \in [Modules -> SUBSET Records]
      /\ counter \in [Inputs -> 0..MaxCount]
  BY DEF PeekedInv, TypeInv, TypeOK
<1>1. \A n \in Modules \ {m} : pc'[n] = pc[n] /\ loc'[n] = loc[n]
  BY <1>0, HandlersKept
<1>2. ASSUME NEW i \in Inputs PROVE Made(i) \in Int /\ Made(i)' \in Int /\ Made(i) <= Made(i)'
  <2>1. Made(i) \in Int
    BY <1>0 DEF Made
  <2>2. Made(i)' = Made(i) \/ Made(i)' = Made(i) + 1
    BY Effects DEF Rests, Creates, Discards, Counts, Sends, Takes
  <2> QED BY <2>1, <2>2
<1>3. ASSUME NEW c \in Records, c[2] < Numbers[c[1]] PROVE c[2] < Numbers'[c[1]]
  <2>1. c[1] \in Inputs /\ c[2] \in Nat
    BY RecordFacts
  <2>2. Numbers[c[1]] \in Int /\ Numbers'[c[1]] \in Int /\ Numbers[c[1]] <= Numbers'[c[1]]
    BY <1>2, <2>1 DEF Numbers
  <2> QED BY <1>3, <2>1, <2>2
<1>4. \A n, c : c \in Records /\ Sound(n, c, Numbers) => Sound(n, c, Numbers')
  BY <1>3 DEF Sound
<1>5. \A i \in Inputs \ {m} : counter'[i] = counter[i]
  <2>1. UNCHANGED counter \/ NextRound(m)
    BY DEF Take, HandlerStep, ControlStep, StartCallback, StartSelf, StartQueued, PauseCallback,
       PauseSelf, ResumeCallback, ResumeSelf, ResumeQueued, ReceiveStep, Peek, SelfNotify,
       CheckSender, ResumeSender, SenderStatus, NotifySender, Exec, ExecDrop, Pop, StatusVars, DataVars,
       SendStep, Generate, GenerateDrop, MaxCountReached, Repost, Push, PausePosted,
       CanSend, Notify, LookAtSize, PushSized, Sent, SendVars, InputVars
  <2> QED BY <1>0, <2>1 DEF NextRound
<1>6. \A n \in Modules : \A a \in 1..Len(queue[n]) : queue[n][a] \in Records /\ Sound(n, queue[n][a], Numbers')
  BY <1>0, <1>4 DEF OriginInv
<1>7. ASSUME pc[m] \in Sending PROVE loc[m].rec \in Records /\ Sound(m, loc[m].rec, Numbers) /\ Sound(m, loc[m].rec, Numbers')
  BY <1>0, <1>4, <1>7, TargetFacts DEF OriginInv
<1>8. queue[m] # <<>> => Sound(m, Head(queue[m]), Numbers') /\ Head(queue[m]) \in Records
  <2> SUFFICES ASSUME queue[m] # <<>> PROVE Sound(m, Head(queue[m]), Numbers') /\ Head(queue[m]) \in Records
    OBVIOUS
  <2>1. 1 \in 1..Len(queue[m]) /\ Head(queue[m]) = queue[m][1]
    BY <1>0
  <2> QED BY <1>6, <2>1
<1>9. ASSUME NEW n \in Modules, NEW a \in 1..Len(queue'[n]) PROVE Sound(n, queue'[n][a], Numbers')
  <2>1. CASE queue'[n] = queue[n]
    BY <1>6, <2>1
  <2>2. CASE queue'[n] # queue[n]
    <3>1. Sends(m) \/ Takes(m)
      BY <2>2, Effects DEF Rests, Creates, Discards, Counts
    <3>2. CASE Sends(m)
      <4>1. queue' = [queue EXCEPT ![Target(m)] = Append(queue[Target(m)], loc[m].rec)] /\ pc[m] \in Sending
        BY <2>2, <3>2 DEF Sends
      <4>2. n = Target(m) /\ queue'[n] = Append(queue[n], loc[m].rec) /\ queue[n] \in Seq(Records)
        BY <1>0, <2>2, <4>1
      <4>3. Len(queue'[n]) = Len(queue[n]) + 1 /\ Len(queue[n]) \in Nat
        BY <4>2
      <4>4. CASE a \in 1..Len(queue[n])
        <5>1. queue'[n][a] = queue[n][a]
          BY <4>2, <4>4
        <5> QED BY <1>6, <4>4, <5>1
      <4>5. CASE a = Len(queue[n]) + 1
        <5>1. queue'[n][a] = loc[m].rec
          BY <4>2, <4>5
        <5> DEFINE c == loc[m].rec
        <5>2. c \in Records /\ Sound(m, c, Numbers) /\ c[2] < Numbers'[c[1]]
          BY <1>7, <4>1 DEF Sound
        <5>3. n \in Range(Targets[m])
          <6>1. loc[m].t \in 1..Len(Targets[m]) /\ Targets[m] \in Seq(Modules \ Inputs)
            BY <3>2, Wiring DEF Sends
          <6>2. n = Targets[m][loc[m].t]
            BY <4>2 DEF Target
          <6>3. DOMAIN Targets[m] = 1..Len(Targets[m])
            BY <6>1
          <6> QED BY <6>1, <6>2, <6>3 DEF Range
        <5>4. m \in Inputs => c[1] = m
          BY <4>1 DEF OriginInv
        <5>5. m = c[1] \/ (m \in Processors /\ Shares(m, c[1]))
          BY <3>2, <5>2, <5>4, KindFacts DEF Sends, Sound
        <5> HIDE DEF c
        <5>6. Shares(n, c[1])
          BY <5>3, <5>5, Passes
        <5> QED BY <5>1, <5>2, <5>6 DEF Sound, c
      <4> QED BY <4>3, <4>4, <4>5
    <3>3. CASE Takes(m)
      <4>1. queue' = [queue EXCEPT ![m] = Tail(queue[m])] /\ queue[m] # <<>>
        BY <3>3 DEF Takes
      <4>2. n = m /\ queue'[n] = Tail(queue[n]) /\ queue[n] \in Seq(Records) /\ queue[n] # <<>>
        BY <1>0, <2>2, <4>1
      <4>3. a + 1 \in 1..Len(queue[n]) /\ queue'[n][a] = queue[n][a + 1]
        BY <4>2
      <4> QED BY <1>6, <4>3
    <3> QED BY <3>1, <3>2, <3>3
  <2> QED BY <2>1, <2>2
<1>10. ASSUME NEW n \in Modules, pc'[n] \in Sending
       PROVE  Sound(n, loc'[n].rec, Numbers') /\ (n \in Inputs => loc'[n].rec = <<n, counter'[n]>>)
  <2>1. CASE n # m
    <3>1. pc[n] \in Sending /\ loc'[n] = loc[n]
      BY <1>1, <1>10, <2>1
    <3>2. loc[n].rec \in Records /\ Sound(n, loc[n].rec, Numbers) /\ (n \in Inputs => loc[n].rec = <<n, counter[n]>>)
      BY <1>0, <3>1, TargetFacts DEF OriginInv
    <3> QED BY <1>4, <1>5, <2>1, <3>1, <3>2
  <2>2. CASE n = m
    <3>1. CASE Rests(m) \/ Sends(m)
      <4>1. pc[m] \in Sending /\ loc'[m].rec = loc[m].rec /\ (m \in Inputs => counter'[m] = counter[m])
        <5>1. pc'[m] \in Sending
          BY <1>10, <2>2
        <5>2. CASE Rests(m)
          BY <5>1, <5>2 DEF Rests
        <5>3. CASE Sends(m)
          BY <5>3 DEF Sends
        <5> QED BY <3>1, <5>2, <5>3
      <4>2. m \in Inputs => loc[m].rec = <<m, counter[m]>>
        BY <4>1 DEF OriginInv
      <4> QED BY <1>7, <2>2, <4>1, <4>2
    <3>2. CASE Creates(m)
      <4>1. /\ loc'[m].rec = <<m, Made(m)>> /\ counter'[m] = Made(m) /\ Made(m)' = Made(m) + 1
            /\ Made(m) \in Int /\ m \notin Processors /\ Numbers'[m] = Made(m)'
        BY <3>2, KindFacts DEF Creates, Counts, Numbers
      <4>2. <<m, Made(m)>>[1] = m /\ <<m, Made(m)>>[2] = Made(m)
        OBVIOUS
      <4> QED BY <2>2, <4>1, <4>2 DEF Sound
    <3>3. CASE Takes(m)
      BY <1>8, <1>10, <2>2, <3>3 DEF Takes
    <3>4. ~Discards(m)
      BY <1>10, <2>2 DEF Discards
    <3> QED BY <3>1, <3>2, <3>3, <3>4, Effects
  <2> QED BY <2>1, <2>2
<1>11. ASSUME NEW n \in Modules, NEW c \in dropped'[n] PROVE c[2] < Numbers'[c[1]]
  <2>1. CASE c \in dropped[n]
    <3>1. c \in Records /\ c[2] < Numbers[c[1]]
      BY <1>0, <2>1 DEF OriginInv
    <3> QED BY <1>3, <3>1
  <2>2. CASE c \notin dropped[n]
    <3>1. Discards(m) \/ Sends(m) \/ Takes(m)
      BY <1>11, <2>2, Effects DEF Rests, Creates
    <3>2. CASE Discards(m)
      <4>1. c = <<m, Made(m)>> /\ Numbers'[m] = Made(m) + 1 /\ Made(m) \in Int
        BY <1>0, <1>11, <2>2, <3>2 DEF Discards, Counts, Numbers
      <4>2. c[1] = m /\ c[2] = Made(m)
        BY <4>1
      <4> QED BY <4>1, <4>2
    <3>3. CASE Sends(m)
      <4>1. c = loc[m].rec /\ pc[m] \in Sending
        BY <1>0, <1>11, <2>2, <3>3 DEF Sends
      <4> QED BY <1>7, <4>1 DEF Sound
    <3>4. CASE Takes(m)
      <4>1. c = Head(queue[m]) /\ queue[m] # <<>>
        <5>1. dropped' = [dropped EXCEPT ![m] = dropped[m] \cup {Head(queue[m])}] /\ queue[m] # <<>>
          BY <1>11, <2>2, <3>4 DEF Takes
        <5> QED BY <1>0, <1>11, <2>2, <5>1
      <4> QED BY <1>8, <4>1 DEF Sound
    <3> QED BY <3>1, <3>2, <3>3, <3>4
  <2> QED BY <2>1, <2>2
<1> QED BY <1>9, <1>10, <1>11 DEF OriginInv

-----------------------------------------------------------------------------
(* The places of a way before and after a step of m: L and M.              *)
Board(p, o, m, L, M) ==
  /\ Lanes(L, 2 * Len(p) - 1) /\ Lanes(M, 2 * Len(p) - 1)
  /\ \A x \in 2..Len(p) : L[2 * x - 2] = queue[p[x]] /\ M[2 * x - 2] = queue'[p[x]]
  /\ L[2 * Len(p) - 1] = delivered[o] /\ M[2 * Len(p) - 1] = delivered'[o]
  /\ \A x \in 1..Len(p) - 1 :
        /\ p[x] # m => M[2 * x - 1] = L[2 * x - 1]
        /\ p[x] = m => \E t \in 1..Len(Targets[m]) :
             /\ Targets[m][t] = p[x + 1]
             /\ L[2 * x - 1] = (IF Pending(m, t) THEN <<loc[m].rec>> ELSE <<>>)
             /\ M[2 * x - 1] = (IF Pending(m, t)' THEN <<loc'[m].rec>> ELSE <<>>)

(* The modules of a way, and its edges.                                    *)
LEMMA WayFacts ==
  ASSUME NEW p, NEW i \in Inputs, NEW o \in Outputs, Way(p, i, o)
  PROVE  /\ Len(p) \in Nat /\ 2 <= Len(p) /\ p[1] = i /\ p[Len(p)] = o
         /\ \A x \in 1..Len(p) : p[x] \in Modules /\ p[x] \in Range(p)
         /\ \A m \in Range(p) : \E x \in 1..Len(p) : p[x] = m
         /\ Range(p) \subseteq Modules
         /\ \A x \in 1..Len(p) - 1 : p[x] \in Modules \ Outputs /\ x \in 1..Len(p) /\ x + 1 \in 2..Len(p)
                                       /\ x + 1 \in 1..Len(p)
         /\ \A x \in 2..Len(p) : p[x] \in Modules \ Inputs /\ x \in 1..Len(p)
         /\ \A x, y \in 1..Len(p) : p[x] = p[y] => x = y
         /\ \A x \in 1..Len(p) - 1 : p[x + 1] \in Range(Targets[p[x]])
<1>1. /\ p \in Seq(Modules) /\ Len(p) \in Nat /\ 2 <= Len(p) /\ p[1] = i /\ p[Len(p)] = o
      /\ \A x \in 2..Len(p) - 1 : p[x] \in Processors
      /\ \A x, y \in 1..Len(p) : p[x] = p[y] => x = y
      /\ \A x \in 1..Len(p) - 1, y \in 1..Len(p) : p[y] \in Range(Targets[p[x]]) <=> y = x + 1
  BY DEF Way
<1>2. /\ \A x \in 1..Len(p) : p[x] \in Modules /\ p[x] \in Range(p)
      /\ \A m \in Range(p) : \E x \in 1..Len(p) : p[x] = m
      /\ Range(p) \subseteq Modules
  BY <1>1 DEF Range
<1>3. \A x \in 1..Len(p) - 1 : x = 1 \/ x \in 2..Len(p) - 1
  BY <1>1
<1>4. \A x \in 2..Len(p) : x = Len(p) \/ x \in 2..Len(p) - 1
  BY <1>1
<1>5. /\ \A x \in 1..Len(p) - 1 : x \in 1..Len(p) /\ x + 1 \in 2..Len(p) /\ x + 1 \in 1..Len(p)
      /\ \A x \in 2..Len(p) : x \in 1..Len(p)
  BY <1>1
<1>6. \A x \in 1..Len(p) - 1 : p[x] \in Modules \ Outputs
  BY <1>1, <1>3, KindFacts
<1>7. \A x \in 2..Len(p) : p[x] \in Modules \ Inputs
  BY <1>1, <1>4, KindFacts
<1> QED BY <1>1, <1>2, <1>5, <1>6, <1>7

(* The board of a step.                                                    *)
LEMMA BoardIs ==
  ASSUME SinglePath, PeekedInv, PeekedInv', NEW m \in Modules, Take(m) \/ HandlerStep(m),
         NEW p, NEW i \in Inputs, NEW o \in Outputs, Way(p, i, o),
         NEW L, NEW M, L = Places(p), M = Places(p)'
  PROVE  Board(p, o, m, L, M)
<1>1. TypeInv /\ TypeInv' /\ SinglePath
  BY DEF PeekedInv
<1>2. HandsSound /\ PlacesSound
  BY <1>1, HandsAre, PlacesAre
<1>3. HandsSound'
  BY <1>1, HandsAre, PTL
<1>4. PlacesSound'
  BY <1>1, PlacesAre, PTL
<1>5. /\ Lanes(L, 2 * Len(p) - 1)
      /\ \A x \in 2..Len(p) : L[2 * x - 2] = queue[p[x]]
      /\ \A x \in 1..Len(p) - 1 : L[2 * x - 1] = Held(p[x], p[x + 1])
      /\ L[2 * Len(p) - 1] = delivered[o]
  BY <1>2 DEF PlacesSound
<1>6. /\ Lanes(M, 2 * Len(p) - 1)
      /\ \A x \in 2..Len(p) : M[2 * x - 2] = queue'[p[x]]
      /\ \A x \in 1..Len(p) - 1 : M[2 * x - 1] = Held(p[x], p[x + 1])'
      /\ M[2 * Len(p) - 1] = delivered'[o]
  BY <1>4 DEF PlacesSound
<1>7. ASSUME NEW x \in 1..Len(p) - 1
      PROVE  \E t \in 1..Len(Targets[p[x]]) :
                /\ Targets[p[x]][t] = p[x + 1]
                /\ L[2 * x - 1] = (IF Pending(p[x], t) THEN <<loc[p[x]].rec>> ELSE <<>>)
                /\ M[2 * x - 1] = (IF Pending(p[x], t)' THEN <<loc'[p[x]].rec>> ELSE <<>>)
  <2>1. p[x] \in Modules \ Outputs /\ p[x + 1] \in Range(Targets[p[x]])
    BY WayFacts
  <2>2. Targets[p[x]] \in Seq(Modules \ Inputs)
    BY <2>1, Wiring
  <2>3. PICK t \in 1..Len(Targets[p[x]]) : Targets[p[x]][t] = p[x + 1]
    BY <2>1, <2>2 DEF Range
  <2> DEFINE a == p[x]
             b == p[x + 1]
  <2>4. /\ a \in Modules \ Outputs /\ t \in 1..Len(Targets[a]) /\ Targets[a][t] = b
    BY <2>1, <2>3
  <2> HIDE DEF a, b
  <2>5. Held(a, b) = IF Pending(a, t) THEN <<loc[a].rec>> ELSE <<>>
    BY <1>2, <2>4 DEF HandsSound
  <2>6. Held(a, b)' = IF Pending(a, t)' THEN <<loc'[a].rec>> ELSE <<>>
    BY <1>3, <2>4 DEF HandsSound
  <2> QED BY <1>5, <1>6, <2>3, <2>5, <2>6 DEF a, b
<1>8. ASSUME NEW x \in 1..Len(p) - 1, p[x] # m
      PROVE  M[2 * x - 1] = L[2 * x - 1]
  <2>1. p[x] \in Modules \ {m}
    BY <1>8, WayFacts
  <2>2. pc'[p[x]] = pc[p[x]] /\ loc'[p[x]] = loc[p[x]]
    BY <1>1, <2>1, HandlersKept
  <2>3. Held(p[x], p[x + 1])' = Held(p[x], p[x + 1])
    BY <2>2 DEF Held
  <2> QED BY <1>5, <1>6, <2>3
<1> QED BY <1>5, <1>6, <1>7, <1>8 DEF Board

(* Nothing is done to place z.                                             *)
Still(p, o, m, L, M, z) ==
  /\ \A x \in 2..Len(p) : z = 2 * x - 2 => queue'[p[x]] = queue[p[x]]
  /\ \A x \in 1..Len(p) - 1 : z = 2 * x - 1 /\ p[x] = m => M[z] = L[z]
  /\ z = 2 * Len(p) - 1 => delivered'[o] = delivered[o]

(* A place that nothing is done to keeps what it has.                      *)
LEMMA LaneKept ==
  ASSUME NEW p, NEW i \in Inputs, NEW o \in Outputs, Way(p, i, o), NEW m, NEW L, NEW M, Board(p, o, m, L, M),
         NEW z \in 1..2 * Len(p) - 1, Still(p, o, m, L, M, z)
  PROVE  M[z] = L[z]
<1>0. Len(p) \in Nat
  BY WayFacts
<1>1. CASE \E x \in 2..Len(p) : z = 2 * x - 2
  BY <1>1 DEF Board, Still
<1>2. CASE \E x \in 1..Len(p) - 1 : z = 2 * x - 1
  BY <1>2 DEF Board, Still
<1>3. CASE z = 2 * Len(p) - 1
  BY <1>3 DEF Board, Still
<1> QED BY <1>0, <1>1, <1>2, <1>3, LaneCases

(* When nothing is done to any place, all is as it was.                    *)
LEMMA BoardKept ==
  ASSUME NEW p, NEW i \in Inputs, NEW o \in Outputs, Way(p, i, o), NEW m, NEW L, NEW M, Board(p, o, m, L, M),
         \A x \in 2..Len(p) : queue'[p[x]] = queue[p[x]],
         \A x \in 1..Len(p) - 1 : p[x] = m => M[2 * x - 1] = L[2 * x - 1],
         delivered'[o] = delivered[o]
  PROVE  M = L
<1>1. ASSUME NEW z \in 1..2 * Len(p) - 1 PROVE M[z] = L[z]
  <2>1. Still(p, o, m, L, M, z)
    BY DEF Still
  <2> QED BY <2>1, LaneKept
<1>2. L \in [1..2 * Len(p) - 1 -> Seq(Records)] /\ M \in [1..2 * Len(p) - 1 -> Seq(Records)]
  BY DEF Board, Lanes
<1> QED BY <1>1, <1>2

-----------------------------------------------------------------------------
(* What is left of the first k records of i when g are gone.               *)
Gone(p) == UNION {dropped[m] : m \in Range(p)}
Rest(i, k, g) == {n \in 0..k - 1 : <<i, n>> \notin g}

(* One more record is dropped, by a module on the way or elsewhere.        *)
LEMMA GoneGrows ==
  ASSUME TypeInv, NEW p, NEW n \in Modules, NEW c, Range(p) \subseteq Modules,
         dropped' = [dropped EXCEPT ![n] = dropped[n] \cup {c}]
  PROVE  Gone(p)' = IF n \in Range(p) THEN Gone(p) \cup {c} ELSE Gone(p)
<1>1. dropped \in [Modules -> SUBSET Records]
  BY DEF TypeInv, TypeOK
<1>2. \A m \in Range(p) : dropped'[m] = IF m = n THEN dropped[m] \cup {c} ELSE dropped[m]
  BY <1>1
<1>3. ASSUME NEW d PROVE d \in Gone(p)' <=> (d \in Gone(p) \/ (n \in Range(p) /\ d = c))
  <2>1. d \in Gone(p)' <=> \E m \in Range(p) : d \in dropped'[m]
    BY DEF Gone
  <2>2. d \in Gone(p) <=> \E m \in Range(p) : d \in dropped[m]
    BY DEF Gone
  <2> QED BY <1>2, <2>1, <2>2
<1> QED BY <1>3

(* Nothing is dropped.                                                     *)
LEMMA GoneSame ==
  ASSUME NEW p, UNCHANGED dropped
  PROVE  Gone(p)' = Gone(p)
BY DEF Gone

(* The number of records made is one.                                      *)
LEMMA MadeNat ==
  ASSUME TypeInv, NEW i \in Inputs
  PROVE  Made(i) \in Nat
<1>1. counter \in [Inputs -> 0..MaxCount] /\ MaxCount \in Nat
  BY BoundsAssumption DEF TypeInv, TypeOK
<1>2. counter[i] \in Nat
  BY <1>1
<1> QED BY <1>2 DEF Made

-----------------------------------------------------------------------------
(* All the records made and not dropped are in their places, in order.     *)
Line(i, k, g, L) == InOrder(i, L) /\ Present(i, L) = Rest(i, k, g)

(* A record of another input is dropped.                                   *)
LEMMA LineOther ==
  ASSUME NEW i, NEW k, NEW g, NEW L, Line(i, k, g, L), NEW c, c[1] # i
  PROVE  Line(i, k, g \cup {c}, L)
<1>1. \A n : <<i, n>>[1] = i
  OBVIOUS
<1>2. Rest(i, k, g \cup {c}) = Rest(i, k, g)
  BY <1>1 DEF Rest
<1> QED BY <1>2 DEF Line

(* A record is dropped and no longer there.                                *)
LEMMA LineLess ==
  ASSUME NEW i, NEW k, NEW g, NEW L, Line(i, k, g, L), NEW c, NEW M, InOrder(i, M),
         Present(i, M) = {n \in Present(i, L) : <<i, n>> # c}
  PROVE  Line(i, k, g \cup {c}, M)
<1>1. Rest(i, k, g \cup {c}) = {n \in Rest(i, k, g) : <<i, n>> # c}
  BY DEF Rest
<1> QED BY <1>1 DEF Line

(* One more record is made, and dropped at once or not.                    *)
LEMMA LineMore ==
  ASSUME NEW i, NEW k \in Nat, NEW g, NEW L, Line(i, k, g, L)
  PROVE  /\ Line(i, k + 1, g \cup {<<i, k>>}, L)
         /\ \A n \in Present(i, L) : n < k
         /\ \A M : /\ InOrder(i, M) /\ Present(i, M) = Present(i, L) \cup {k}
                   /\ <<i, k>> \notin g
                   => Line(i, k + 1, g, M)
<1>1. \A n : <<i, n>>[1] = i /\ <<i, n>>[2] = n
  OBVIOUS
<1>2. \A n \in 0..k : n = k \/ n \in 0..k - 1
  OBVIOUS
<1>3. \A n \in 0..k - 1 : n \in 0..k /\ n # k /\ n < k
  OBVIOUS
<1>4. (k + 1) - 1 = k /\ k \in 0..k
  OBVIOUS
<1>5. Rest(i, k + 1, g \cup {<<i, k>>}) = Rest(i, k, g)
  BY <1>1, <1>2, <1>3, <1>4 DEF Rest
<1>6. ASSUME <<i, k>> \notin g PROVE Rest(i, k + 1, g) = Rest(i, k, g) \cup {k}
  BY <1>2, <1>3, <1>4, <1>6 DEF Rest
<1>7. \A n \in Rest(i, k, g) : n < k
  BY <1>3 DEF Rest
<1> QED BY <1>5, <1>6, <1>7 DEF Line

(* The first record of a place goes on to the next.                        *)
LEMMA LineShift ==
  ASSUME NEW i, NEW k, NEW g, NEW K, NEW L, NEW M, Lanes(L, K), Lanes(M, K), NEW z \in 1..K - 1, L[z] # <<>>,
         M[z] = Tail(L[z]), M[z + 1] = Append(L[z + 1], Head(L[z])),
         \A x \in 1..K \ {z, z + 1} : M[x] = L[x], Line(i, k, g, L)
  PROVE  Line(i, k, g, M)
<1>1. (InOrder(i, L) => InOrder(i, M)) /\ Present(i, L) = Present(i, M)
  BY Shift
<1> QED BY <1>1 DEF Line

(* The first record of a place is dropped.                                 *)
LEMMA LineDrop ==
  ASSUME NEW i, NEW k, NEW g, NEW K, NEW L, NEW M, Lanes(L, K), Lanes(M, K), NEW z \in 1..K, L[z] # <<>>,
         M[z] = Tail(L[z]), \A x \in 1..K \ {z} : M[x] = L[x], Line(i, k, g, L)
  PROVE  Line(i, k, g \cup {Head(L[z])}, M)
<1>1. InOrder(i, M) /\ Present(i, M) = {n \in Present(i, L) : <<i, n>> # Head(L[z])}
  BY Dropped DEF Line
<1> QED BY <1>1, LineLess

(* A new record comes to the hands of the input at the head of the way.    *)
LEMMA MakingKeeps ==
  ASSUME TypeInv, OriginInv, NEW m \in Modules, Creates(m) \/ Discards(m),
         NEW p, NEW i \in Inputs, NEW o \in Outputs, Way(p, i, o),
         NEW L, NEW M, Board(p, o, m, L, M), Line(i, Made(i), Gone(p), L)
  PROVE  Line(i, Made(i)', Gone(p)', M)
<1>0. /\ Len(p) \in Nat /\ 2 <= Len(p) /\ p[1] = i /\ Range(p) \subseteq Modules
      /\ \A x \in 1..Len(p) : p[x] \in Range(p)
      /\ \A n \in Range(p) : \E x \in 1..Len(p) : p[x] = n
      /\ \A x \in 2..Len(p) : p[x] \in Modules \ Inputs
      /\ \A x, y \in 1..Len(p) : p[x] = p[y] => x = y
      /\ \A x \in 1..Len(p) - 1 : x \in 1..Len(p)
  BY WayFacts
<1>1. 1 \in 1..Len(p) - 1 /\ 1 \in 1..Len(p) /\ 2 * 1 - 1 = 1 /\ \A x \in 1..Len(p) : x = 1 \/ x \in 2..Len(p)
  BY <1>0
<1>2. m \in Inputs /\ UNCHANGED <<queue, delivered>> /\ Counts(m)
  BY DEF Creates, Discards, Counts
<1>3. m \in Range(p) <=> m = i
  BY <1>0, <1>1, <1>2
<1>4. Made(i) \in Nat
  BY MadeNat
<1>5. CASE m # i
  <2>1. M = L
    BY <1>0, <1>2, <1>3, <1>5, BoardKept
  <2>2. Made(i)' = Made(i)
    BY <1>2, <1>5 DEF Counts
  <2>3. Gone(p)' = Gone(p)
    BY <1>0, <1>3, <1>5, GoneGrows, GoneSame DEF Creates, Discards
  <2> QED BY <2>1, <2>2, <2>3
<1>6. CASE m = i
  <2>1. PICK t \in 1..Len(Targets[m]) :
             /\ L[1] = (IF Pending(m, t) THEN <<loc[m].rec>> ELSE <<>>)
             /\ M[1] = (IF Pending(m, t)' THEN <<loc'[m].rec>> ELSE <<>>)
    <3>1. \E t \in 1..Len(Targets[m]) :
             /\ L[2 * 1 - 1] = (IF Pending(m, t) THEN <<loc[m].rec>> ELSE <<>>)
             /\ M[2 * 1 - 1] = (IF Pending(m, t)' THEN <<loc'[m].rec>> ELSE <<>>)
      BY <1>0, <1>1, <1>6, Zenon DEF Board
    <3> QED BY <1>1, <3>1
  <2>2. L[1] = <<>>
    BY <1>2, <2>1 DEF Counts
  <2>3. Made(i)' = Made(i) + 1 /\ Made(i) \in 0..MaxCount - 1
    BY <1>2, <1>6 DEF Counts
  <2>4. CASE Discards(m)
    <3>1. M[1] = L[1]
      BY <2>1, <2>2, <2>4 DEF Discards
    <3>2. \A x \in 1..Len(p) - 1 : p[x] = m => M[2 * x - 1] = L[2 * x - 1]
      BY <1>0, <1>1, <1>6, <3>1
    <3>3. M = L
      BY <1>2, <3>2, BoardKept
    <3>4. Gone(p)' = Gone(p) \cup {<<i, Made(i)>>}
      BY <1>0, <1>3, <1>6, <2>4, GoneGrows DEF Discards
    <3>5. Line(i, Made(i) + 1, Gone(p) \cup {<<i, Made(i)>>}, L)
      BY <1>4, LineMore, Zenon
    <3> QED BY <2>3, <3>3, <3>4, <3>5
  <2>5. CASE Creates(m)
    <3>1. M[1] = << <<i, Made(i)>> >>
      BY <1>6, <2>1, <2>5 DEF Creates
    <3>2. ASSUME NEW z \in 1..(2 * Len(p) - 1) \ {1} PROVE M[z] = L[z]
      <4>1. z # 1
        BY <3>2
      <4>2. \A x \in 1..Len(p) - 1 : z = 2 * x - 1 /\ p[x] = m => FALSE
        BY <1>0, <1>1, <1>6, <4>1
      <4>3. Still(p, o, m, L, M, z)
        BY <1>2, <4>2 DEF Still
      <4> QED BY <3>2, <4>3, LaneKept
    <3>3. <<i, Made(i)>> \notin Gone(p)
      <4> SUFFICES ASSUME NEW n \in Range(p), <<i, Made(i)>> \in dropped[n] PROVE FALSE
        BY DEF Gone
      <4> DEFINE c == <<i, Made(i)>>
      <4>1. c[1] = i /\ c[2] = Made(i)
        OBVIOUS
      <4>2. n \in Modules
        BY <1>0
      <4>3. c[2] < Numbers[c[1]]
        BY <4>2 DEF OriginInv
      <4>4. Numbers[i] = Made(i)
        BY DEF Numbers
      <4> HIDE DEF c
      <4> QED BY <1>4, <4>1, <4>3, <4>4
    <3>4. Gone(p)' = Gone(p)
      BY <2>5, GoneSame DEF Creates
    <3>5. \A n \in Present(i, L) : n < Made(i)
      BY <1>4, LineMore, Zenon
    <3>6. InOrder(i, M) /\ Present(i, M) = Present(i, L) \cup {Made(i)}
      <4>1. Lanes(L, 2 * Len(p) - 1) /\ Lanes(M, 2 * Len(p) - 1) /\ 1 \in 1..2 * Len(p) - 1
        BY <1>0 DEF Board
      <4>2. InOrder(i, L) /\ \A n \in Present(i, L) : n < Made(i)
        BY <3>5 DEF Line
      <4> QED BY <2>2, <2>3, <3>1, <3>2, <4>1, <4>2, Entered
    <3>7. Line(i, Made(i) + 1, Gone(p), M)
      BY <1>4, <3>3, <3>6, LineMore, Zenon
    <3> QED BY <2>3, <3>4, <3>7
  <2> QED BY <2>4, <2>5
<1> QED BY <1>5, <1>6

(* A receiver takes a record out of its queue.                             *)
LEMMA TakingKeeps ==
  ASSUME TypeInv, NEW m \in Modules, Takes(m),
         NEW p, NEW i \in Inputs, NEW o \in Outputs, Way(p, i, o),
         NEW L, NEW M, Board(p, o, m, L, M), Line(i, Made(i), Gone(p), L)
  PROVE  Line(i, Made(i)', Gone(p)', M)
<1>0. /\ Len(p) \in Nat /\ 2 <= Len(p) /\ p[1] = i /\ p[Len(p)] = o /\ Range(p) \subseteq Modules
      /\ \A x \in 1..Len(p) : p[x] \in Range(p)
      /\ \A n \in Range(p) : \E x \in 1..Len(p) : p[x] = n
      /\ \A x \in 2..Len(p) : p[x] \in Modules \ Inputs /\ x \in 1..Len(p)
      /\ \A x, y \in 1..Len(p) : p[x] = p[y] => x = y
      /\ \A x \in 1..Len(p) - 1 : x \in 1..Len(p) /\ p[x] \in Modules \ Outputs
      /\ Len(p) \in 1..Len(p)
  <2>1. Len(p) \in Nat /\ 2 <= Len(p) => Len(p) \in 1..Len(p)
    OBVIOUS
  <2> QED BY <2>1, WayFacts
<1>1. Made(i)' = Made(i) /\ Made(i) \in Nat
  BY MadeNat DEF Takes
<1>2. /\ queue \in [Modules -> Seq(Records)] /\ delivered \in [Outputs -> Seq(Records)]
      /\ dropped \in [Modules -> SUBSET Records]
  BY DEF TypeInv, TypeOK
<1>3. /\ queue[m] # <<>> /\ queue'[m] = Tail(queue[m]) /\ m \notin Inputs
      /\ \A n \in Modules \ {m} : queue'[n] = queue[n]
  BY <1>2 DEF Takes
<1>4. CASE m \notin Range(p)
  <2>1. \A x \in 1..Len(p) : p[x] # m /\ p[x] \in Modules
    BY <1>0, <1>4
  <2>2. \A x \in 2..Len(p) : queue'[p[x]] = queue[p[x]]
    BY <1>0, <1>3, <2>1
  <2>3. delivered'[o] = delivered[o]
    BY <1>0, <1>2, <2>1 DEF Takes
  <2>4. M = L
    BY <1>0, <2>1, <2>2, <2>3, BoardKept
  <2>5. Gone(p)' = Gone(p)
    BY <1>0, <1>4, GoneGrows, GoneSame DEF Takes
  <2> QED BY <1>1, <2>4, <2>5
<1>5. CASE m \in Range(p)
  <2>1. PICK y \in 2..Len(p) : p[y] = m
    <3>1. PICK x \in 1..Len(p) : p[x] = m
      BY <1>0, <1>5
    <3>2. x # 1
      BY <1>0, <1>3, <3>1
    <3> QED BY <1>0, <3>1, <3>2
  <2> DEFINE z == 2 * y - 2
             K == 2 * Len(p) - 1
  <2>2. /\ z \in 1..K /\ z \in 1..K - 1 /\ z + 1 = 2 * y - 1 /\ K \in Nat
        /\ \A x \in 2..Len(p) : x # y => 2 * x - 2 # z /\ 2 * x - 2 # z + 1
        /\ \A x \in 1..Len(p) : x # y => 2 * x - 1 # z /\ 2 * x - 1 # z + 1
    BY <1>0
  <2>3. L[z] = queue[m] /\ M[z] = Tail(L[z]) /\ L[z] # <<>> /\ Lanes(L, K) /\ Lanes(M, K)
    BY <1>3, <2>1 DEF Board
  <2>4. \A x \in 2..Len(p) : x # y => queue'[p[x]] = queue[p[x]]
    BY <1>0, <1>3, <2>1
  <2>5. \A x \in 1..Len(p) : p[x] = m => x = y
    BY <1>0, <2>1
  <2> HIDE DEF z, K
  <2>6. ASSUME NEW w \in 1..K \ {z, z + 1}, w = K => delivered'[o] = delivered[o] PROVE M[w] = L[w]
    <3>1. w \in 1..2 * Len(p) - 1 /\ w # 2 * y - 2 /\ w # 2 * y - 1
      BY <2>2, <2>6 DEF K, z
    <3>2. \A x \in 2..Len(p) : w = 2 * x - 2 => queue'[p[x]] = queue[p[x]]
      BY <2>4, <3>1
    <3>3. \A x \in 1..Len(p) - 1 : w = 2 * x - 1 /\ p[x] = m => M[w] = L[w]
      BY <1>0, <2>5, <3>1
    <3>4. w = 2 * Len(p) - 1 => delivered'[o] = delivered[o]
      BY <2>6 DEF K
    <3>5. Still(p, o, m, L, M, w)
      BY <3>2, <3>3, <3>4 DEF Still
    <3> QED BY <3>1, <3>5, LaneKept
  <2>7. /\ Lanes(L, K) /\ Lanes(M, K) /\ z \in 1..K - 1 /\ z \in 1..K
        /\ L[z] # <<>> /\ M[z] = Tail(L[z]) /\ Line(i, Made(i), Gone(p), L)
    BY <2>2, <2>3
  <2>8. CASE m \in Outputs
    <3>1. y = Len(p) /\ m = o
      BY <1>0, <2>1, <2>8
    <3>2. z + 1 = K
      BY <2>2, <3>1 DEF K
    <3>3. L[z + 1] = delivered[o] /\ M[z + 1] = delivered'[o]
      BY <3>2 DEF Board, K
    <3>4. \A w \in 1..K \ {z, z + 1} : M[w] = L[w]
      BY <2>6, <3>2
    <3>5. CASE delivered' = [delivered EXCEPT ![m] = Append(delivered[m], Head(queue[m]))] /\ UNCHANGED dropped
      <4>1. M[z + 1] = Append(L[z + 1], Head(L[z]))
        BY <1>2, <2>3, <3>1, <3>3, <3>5
      <4>2. Line(i, Made(i), Gone(p), M)
        BY <2>7, <3>4, <4>1, LineShift
      <4>3. Gone(p)' = Gone(p)
        BY <3>5, GoneSame
      <4> QED BY <1>1, <4>2, <4>3
    <3>6. CASE dropped' = [dropped EXCEPT ![m] = dropped[m] \cup {Head(queue[m])}] /\ UNCHANGED delivered
      <4>1. \A w \in 1..K \ {z} : M[w] = L[w]
        BY <3>3, <3>4, <3>6
      <4>2. Line(i, Made(i), Gone(p) \cup {Head(L[z])}, M)
        BY <2>7, <4>1, LineDrop
      <4>3. Gone(p)' = Gone(p) \cup {Head(L[z])}
        BY <1>0, <1>5, <2>3, <3>6, GoneGrows
      <4> QED BY <1>1, <4>2, <4>3
    <3> QED BY <2>8, <3>5, <3>6, KindFacts DEF Takes
  <2>9. CASE m \notin Outputs
    <3>1. y \in 1..Len(p) - 1 /\ z + 1 # K
      <4>1. y # Len(p)
        BY <1>0, <2>1, <2>9
      <4>2. y \in 1..Len(p) - 1
        BY <1>0, <4>1
      <4>3. z + 1 = 2 * y - 1 /\ K = 2 * Len(p) - 1
        BY <2>2 DEF K
      <4> QED BY <1>0, <4>2, <4>3
    <3>2. PICK t \in 1..Len(Targets[m]) :
             /\ L[z + 1] = (IF Pending(m, t) THEN <<loc[m].rec>> ELSE <<>>)
             /\ M[z + 1] = (IF Pending(m, t)' THEN <<loc'[m].rec>> ELSE <<>>)
      BY <2>1, <2>2, <3>1 DEF Board
    <3>3. L[z + 1] = <<>>
      BY <2>9, <3>2 DEF Takes
    <3>4. CASE dropped' = [dropped EXCEPT ![m] = dropped[m] \cup {Head(queue[m])}] /\ UNCHANGED delivered
               /\ \A x \in 1..Len(Targets[m]) : ~Pending(m, x)'
      <4>1. M[z + 1] = L[z + 1]
        BY <3>2, <3>3, <3>4
      <4>2. \A w \in 1..K \ {z} : M[w] = L[w]
        BY <2>6, <3>4, <4>1
      <4>3. Line(i, Made(i), Gone(p) \cup {Head(L[z])}, M)
        BY <2>7, <4>2, LineDrop
      <4>4. Gone(p)' = Gone(p) \cup {Head(L[z])}
        BY <1>0, <1>5, <2>3, <3>4, GoneGrows
      <4> QED BY <1>1, <4>3, <4>4
    <3>5. CASE UNCHANGED <<delivered, dropped>> /\ loc'[m].rec = Head(queue[m])
               /\ \A x \in 1..Len(Targets[m]) : Pending(m, x)'
      <4>1. M[z + 1] = Append(L[z + 1], Head(L[z]))
        <5>1. M[z + 1] = <<Head(L[z])>>
          BY <2>3, <3>2, <3>5
        <5> QED BY <3>3, <5>1
      <4>2. \A w \in 1..K \ {z, z + 1} : M[w] = L[w]
        BY <2>6, <3>5
      <4>3. Line(i, Made(i), Gone(p), M)
        BY <2>7, <4>1, <4>2, LineShift
      <4>4. Gone(p)' = Gone(p)
        BY <3>5, GoneSame
      <4> QED BY <1>1, <4>3, <4>4
    <3> QED BY <2>9, <3>4, <3>5 DEF Takes
  <2> QED BY <2>8, <2>9
<1> QED BY <1>4, <1>5

(* A sender is done with one of its targets.                               *)
LEMMA SendingKeeps ==
  ASSUME SinglePath, TypeInv, OriginInv, NEW m \in Modules, Sends(m),
         NEW p, NEW i \in Inputs, NEW o \in Outputs, Way(p, i, o),
         NEW L, NEW M, Board(p, o, m, L, M), Line(i, Made(i), Gone(p), L)
  PROVE  Line(i, Made(i)', Gone(p)', M)
<1> DEFINE n == Target(m)
           c == loc[m].rec
           K == 2 * Len(p) - 1
<1>0. /\ Len(p) \in Nat /\ 2 <= Len(p) /\ p[1] = i /\ p[Len(p)] = o /\ Range(p) \subseteq Modules
      /\ \A x \in 1..Len(p) : p[x] \in Range(p)
      /\ \A q \in Range(p) : \E x \in 1..Len(p) : p[x] = q
      /\ \A x \in 2..Len(p) : p[x] \in Modules \ Inputs /\ x \in 1..Len(p)
      /\ \A x, y \in 1..Len(p) : p[x] = p[y] => x = y
      /\ \A x \in 1..Len(p) - 1 : x \in 1..Len(p) /\ x + 1 \in 2..Len(p)
  BY WayFacts
<1>1. /\ Made(i)' = Made(i) /\ UNCHANGED delivered /\ m \notin Outputs /\ pc[m] \in Sending
      /\ loc[m].t \in 1..Len(Targets[m]) /\ Pending(m, loc[m].t) /\ loc'[m].rec = c
      /\ \A x \in 1..Len(Targets[m]) : Pending(m, x)' <=> Pending(m, x) /\ x # loc[m].t
  BY DEF Sends
<1>2. \/ queue' = [queue EXCEPT ![n] = Append(queue[n], c)] /\ UNCHANGED dropped
      \/ UNCHANGED queue /\ dropped' = [dropped EXCEPT ![n] = dropped[n] \cup {c}]
  BY DEF Sends
<1>3. n \in Modules \ Inputs /\ c \in Records /\ n = Targets[m][loc[m].t]
  BY <1>1, TargetFacts DEF Target
<1>4. queue \in [Modules -> Seq(Records)]
  BY DEF TypeInv, TypeOK
<1>5. DOMAIN Targets[m] = 1..Len(Targets[m]) /\ n \in Range(Targets[m])
  <2>1. Targets[m] \in Seq(Modules \ Inputs)
    BY Wiring
  <2> QED BY <1>1, <1>3, <2>1 DEF Range
<1>6. /\ Lanes(L, K) /\ Lanes(M, K) /\ K \in Nat /\ InOrder(i, L)
  BY <1>0 DEF Board, Line
<1> HIDE DEF n, c
<1>7. ASSUME NEW x \in 1..Len(p) - 1, p[x] = m
      PROVE  /\ n # p[x + 1] => M[2 * x - 1] = L[2 * x - 1]
             /\ n = p[x + 1] => M[2 * x - 1] = <<>> /\ L[2 * x - 1] = <<c>>
  <2>1. PICK t \in 1..Len(Targets[m]) :
             /\ Targets[m][t] = p[x + 1]
             /\ L[2 * x - 1] = (IF Pending(m, t) THEN <<c>> ELSE <<>>)
             /\ M[2 * x - 1] = (IF Pending(m, t)' THEN <<c>> ELSE <<>>)
    BY <1>1, <1>7 DEF Board, c
  <2>2. n = p[x + 1] <=> t = loc[m].t
    BY <1>1, <1>3, <1>5, <2>1 DEF SinglePath
  <2> QED BY <1>1, <2>1, <2>2
<1>8. ASSUME NEW w \in 1..K,
             \A x \in 2..Len(p) : w = 2 * x - 2 => n # p[x] \/ UNCHANGED queue,
             \A x \in 1..Len(p) - 1 : w = 2 * x - 1 /\ p[x] = m => n # p[x + 1]
      PROVE  M[w] = L[w]
  <2>1. \A x \in 2..Len(p) : w = 2 * x - 2 => queue'[p[x]] = queue[p[x]]
    BY <1>0, <1>2, <1>3, <1>4, <1>8
  <2>2. \A x \in 1..Len(p) - 1 : w = 2 * x - 1 /\ p[x] = m => M[w] = L[w]
    BY <1>7, <1>8
  <2>3. w \in 1..2 * Len(p) - 1 /\ (w = 2 * Len(p) - 1 => delivered'[o] = delivered[o])
    BY <1>1, <1>8
  <2>4. Still(p, o, m, L, M, w)
    BY <2>1, <2>2, <2>3 DEF Still
  <2> QED BY <2>3, <2>4, LaneKept
<1>9. ASSUME \A w \in 1..K : M[w] = L[w] PROVE M = L
  BY <1>6, <1>9 DEF Lanes
<1>10. ASSUME dropped' = [dropped EXCEPT ![n] = dropped[n] \cup {c}]
       PROVE  Gone(p)' = IF n \in Range(p) THEN Gone(p) \cup {c} ELSE Gone(p)
  <2>1. \A q \in Modules : \A d : dropped' = [dropped EXCEPT ![q] = dropped[q] \cup {d}]
           => Gone(p)' = IF q \in Range(p) THEN Gone(p) \cup {d} ELSE Gone(p)
    BY <1>0, GoneGrows
  <2> QED BY <1>3, <1>10, <2>1
<1>11. CASE n \notin Range(p)
  <2>1. \A x \in 1..Len(p) : n # p[x]
    BY <1>0, <1>11
  <2>2. \A x \in 1..Len(p) - 1 : n # p[x + 1]
    BY <1>0, <2>1
  <2>3. \A w \in 1..K : M[w] = L[w]
    BY <1>0, <1>8, <2>1, <2>2
  <2>4. Gone(p)' = Gone(p)
    BY <1>2, <1>3, <1>11, <1>10, GoneSame
  <2> QED BY <1>1, <1>9, <2>3, <2>4
<1>12. CASE n \in Range(p)
  <2>1. PICK y \in 2..Len(p) : p[y] = n
    <3>1. PICK x \in 1..Len(p) : p[x] = n
      BY <1>0, <1>12
    <3>2. x # 1
      BY <1>0, <1>3, <3>1
    <3> QED BY <1>0, <3>1, <3>2
  <2>2. y \in 1..Len(p) /\ \A x \in 1..Len(p) : n = p[x] <=> x = y
    BY <1>0, <2>1
  <2>3. CASE m \in Range(p)
    <3>1. PICK x \in 1..Len(p) - 1 : p[x] = m
      <4>1. PICK x \in 1..Len(p) : p[x] = m
        BY <1>0, <2>3
      <4>2. x # Len(p)
        BY <1>0, <1>1, <4>1
      <4> QED BY <1>0, <4>1, <4>2
    <3>2. y = x + 1
      BY <1>5, <2>1, <2>2, <3>1 DEF Way
    <3> DEFINE z == 2 * x - 1
    <3>3. L[z] = <<c>> /\ M[z] = <<>>
      BY <1>7, <2>1, <3>1, <3>2
    <3>4. /\ z \in 1..K /\ z \in 1..K - 1 /\ z + 1 = 2 * y - 2
      BY <1>0, <3>2
    <3>5. ASSUME NEW w \in 1..K, w # z, w # z + 1 \/ UNCHANGED queue PROVE M[w] = L[w]
      <4>1. \A a \in 2..Len(p) : w = 2 * a - 2 => n # p[a] \/ UNCHANGED queue
        BY <1>0, <2>2, <3>4, <3>5
      <4>2. \A a \in 1..Len(p) - 1 : w = 2 * a - 1 /\ p[a] = m => n # p[a + 1]
        BY <1>0, <3>1, <3>5
      <4> QED BY <1>8, <4>1, <4>2
    <3> HIDE DEF z, K
    <3>6. /\ L[z] # <<>> /\ M[z] = Tail(L[z]) /\ Head(L[z]) = c
      BY <3>3
    <3>7. CASE queue' = [queue EXCEPT ![n] = Append(queue[n], c)] /\ UNCHANGED dropped
      <4>1. M[z + 1] = Append(L[z + 1], Head(L[z]))
        <5>1. L[z + 1] = queue[n] /\ M[z + 1] = queue'[n]
          BY <2>1, <3>4 DEF Board
        <5> QED BY <1>3, <1>4, <3>6, <3>7, <5>1
      <4>2. \A w \in 1..K \ {z, z + 1} : M[w] = L[w]
        BY <3>5
      <4>3. Line(i, Made(i), Gone(p), M)
        BY <1>6, <3>4, <3>6, <4>1, <4>2, LineShift
      <4>4. Gone(p)' = Gone(p)
        BY <3>7, GoneSame
      <4> QED BY <1>1, <4>3, <4>4
    <3>8. CASE UNCHANGED queue /\ dropped' = [dropped EXCEPT ![n] = dropped[n] \cup {c}]
      <4>1. \A w \in 1..K \ {z} : M[w] = L[w]
        BY <3>5, <3>8
      <4>2. Line(i, Made(i), Gone(p) \cup {Head(L[z])}, M)
        BY <1>6, <3>4, <3>6, <4>1, LineDrop
      <4>3. Gone(p)' = Gone(p) \cup {c}
        BY <1>3, <1>12, <1>10, <3>8
      <4> QED BY <1>1, <3>6, <4>2, <4>3
    <3> QED BY <1>2, <3>7, <3>8
  <2>4. CASE m \notin Range(p)
    <3>1. c[1] # i
      <4>1. CASE m \in Inputs
        <5>1. c = <<m, counter[m]>>
          BY <1>1, <4>1 DEF OriginInv, c
        <5>2. c[1] = m
          BY <5>1
        <5>3. m # i
          <6>1. 1 \in 1..Len(p)
            BY <1>0
          <6> QED BY <1>0, <2>4, <6>1
        <5> QED BY <5>2, <5>3
      <4>2. CASE m \notin Inputs
        <5>1. m \in Processors
          BY <1>1, <4>2, KindFacts
        <5>2. Shares(m, c[1])
          BY <1>1, <5>1 DEF OriginInv, Sound, c
        <5>3. Shares(m, i) => \E x \in 1..Len(p) : p[x] = m
          BY <1>5, <2>1, <2>2, <5>1 DEF Way
        <5> QED BY <1>0, <2>4, <5>2, <5>3
      <4> QED BY <4>1, <4>2
    <3>2. \A x \in 1..Len(p) - 1 : p[x] # m
      BY <1>0, <2>4
    <3>3. CASE queue' = [queue EXCEPT ![n] = Append(queue[n], c)] /\ UNCHANGED dropped
      <4> DEFINE z == 2 * y - 2
      <4>1. z \in 1..K /\ \A a \in 2..Len(p) : 2 * a - 2 = z => a = y
        BY <1>0
      <4>2. ASSUME NEW w \in 1..K \ {z} PROVE M[w] = L[w]
        <5>1. \A a \in 2..Len(p) : w = 2 * a - 2 => n # p[a]
          BY <1>0, <2>2, <4>2
        <5> QED BY <1>8, <3>2, <4>2, <5>1
      <4>3. L[z] = queue[n] /\ M[z] = queue'[n]
        BY <2>1 DEF Board
      <4>4. M[z] = Append(L[z], c)
        BY <1>3, <1>4, <3>3, <4>3
      <4> HIDE DEF z, K
      <4>5. InOrder(i, M) /\ Present(i, M) = Present(i, L)
        BY <1>6, <3>1, <4>1, <4>2, <4>4, Joined
      <4>6. Gone(p)' = Gone(p)
        BY <3>3, GoneSame
      <4> QED BY <1>1, <4>5, <4>6 DEF Line
    <3>4. CASE UNCHANGED queue /\ dropped' = [dropped EXCEPT ![n] = dropped[n] \cup {c}]
      <4>1. \A w \in 1..K : M[w] = L[w]
        BY <1>8, <3>2, <3>4
      <4>2. Gone(p)' = Gone(p) \cup {c}
        BY <1>3, <1>12, <1>10, <3>4
      <4>3. Line(i, Made(i), Gone(p) \cup {c}, L)
        BY <3>1, LineOther, Zenon
      <4> QED BY <1>1, <1>9, <4>1, <4>2, <4>3
    <3> QED BY <1>2, <3>3, <3>4
  <2> QED BY <2>3, <2>4
<1> QED BY <1>11, <1>12

(* A step leaves the records of a way in their line.                       *)
LEMMA LineKept ==
  ASSUME SinglePath, PeekedInv, PeekedInv', OriginInv, NEW m \in Modules, Take(m) \/ HandlerStep(m),
         NEW p, NEW i \in Inputs, NEW o \in Outputs, Way(p, i, o), Line(i, Made(i), Gone(p), Places(p))
  PROVE  Line(i, Made(i)', Gone(p)', Places(p)')
<1> PICK L, M : L = Places(p) /\ M = Places(p)'
  OBVIOUS
<1>0. TypeInv /\ Line(i, Made(i), Gone(p), L)
  BY DEF PeekedInv
<1>1. Board(p, o, m, L, M)
  BY BoardIs
<1>2. CASE Rests(m)
  <2>1. UNCHANGED <<queue, delivered, dropped>> /\ Made(i)' = Made(i)
    BY <1>2 DEF Rests
  <2>2. ASSUME NEW x \in 1..Len(p) - 1, p[x] = m PROVE M[2 * x - 1] = L[2 * x - 1]
    <3>1. PICK t \in 1..Len(Targets[m]) :
               /\ L[2 * x - 1] = (IF Pending(m, t) THEN <<loc[m].rec>> ELSE <<>>)
               /\ M[2 * x - 1] = (IF Pending(m, t)' THEN <<loc'[m].rec>> ELSE <<>>)
      BY <1>1, <2>2 DEF Board
    <3>2. m \notin Outputs
      BY <2>2, WayFacts
    <3>3. Pending(m, t)' <=> Pending(m, t)
      BY <1>2, <3>2 DEF Rests
    <3>4. Pending(m, t)' => pc'[m] \in Sending
      BY DEF Pending, Sending
    <3>5. Pending(m, t)' => loc'[m].rec = loc[m].rec
      BY <1>2, <3>4 DEF Rests
    <3> QED BY <3>1, <3>3, <3>5
  <2>3. M = L
    BY <1>1, <2>1, <2>2, BoardKept
  <2>4. Gone(p)' = Gone(p)
    BY <2>1, GoneSame
  <2> QED BY <1>0, <2>1, <2>3, <2>4
<1>3. CASE Creates(m) \/ Discards(m)
  BY <1>0, <1>1, <1>3, MakingKeeps
<1>4. CASE Sends(m)
  BY <1>0, <1>1, <1>4, SendingKeeps
<1>5. CASE Takes(m)
  BY <1>0, <1>1, <1>5, TakingKeeps
<1> QED BY <1>2, <1>3, <1>4, <1>5, Effects

LostInv ==
  /\ PeekedInv /\ OriginInv
  /\ \A p, i, o : i \in Inputs /\ o \in Outputs /\ Way(p, i, o) => Line(i, Made(i), Gone(p), Places(p))

(* At first there is no record.                                            *)
LEMMA LostInit ==
  ASSUME SinglePath
  PROVE  Init => LostInv
<1> SUFFICES ASSUME Init PROVE LostInv
  OBVIOUS
<1>1. PeekedInv /\ TypeInv
  BY PeekedInit DEF PeekedInv
<1>2. \A m \in Modules : queue[m] = <<>> /\ pc[m] = "idle" /\ dropped[m] = {}
  BY DEF Init
<1>3. OriginInv
  BY <1>2 DEF OriginInv, Sending
<1>4. ASSUME NEW p, NEW i \in Inputs, NEW o \in Outputs, Way(p, i, o)
      PROVE  Line(i, Made(i), Gone(p), Places(p))
  <2> DEFINE L == Places(p)
             K == 2 * Len(p) - 1
  <2>1. /\ Lanes(L, K)
        /\ \A x \in 2..Len(p) : L[2 * x - 2] = queue[p[x]]
        /\ \A x \in 1..Len(p) - 1 : L[2 * x - 1] = Held(p[x], p[x + 1])
        /\ L[2 * Len(p) - 1] = delivered[o]
    BY <1>1, <1>4, PlacesAre DEF PlacesSound
  <2>2. /\ Len(p) \in Nat /\ \A x \in 1..Len(p) - 1 : p[x] \in Modules
        /\ \A x \in 2..Len(p) : p[x] \in Modules
    BY <1>4, WayFacts
  <2>3. \A x \in 1..Len(p) - 1 : Held(p[x], p[x + 1]) = <<>>
    BY <1>2, <2>2 DEF Held
  <2>4. delivered[o] = <<>>
    BY DEF Init
  <2>5. ASSUME NEW z \in 1..K PROVE L[z] = <<>>
    <3> HIDE DEF L
    <3>1. CASE \E x \in 2..Len(p) : z = 2 * x - 2
      BY <1>2, <2>1, <2>2, <3>1
    <3>2. CASE \E x \in 1..Len(p) - 1 : z = 2 * x - 1
      BY <2>1, <2>3, <3>2
    <3>3. CASE z = 2 * Len(p) - 1
      BY <2>1, <2>4, <3>3
    <3> QED BY <2>2, <3>1, <3>2, <3>3, LaneCases
  <2>6. DOMAIN L = 1..K
    BY <2>1 DEF Lanes
  <2> HIDE DEF L
  <2>7. InOrder(i, L)
    BY <2>5, <2>6 DEF InOrder
  <2>8. Present(i, L) = {}
    BY <2>5, <2>6 DEF Present, Range
  <2>9. Made(i) = 0
    <3>1. counter[i] = 0 /\ pc[i] = "idle"
      BY <1>2, KindFacts DEF Init
    <3> QED BY <3>1 DEF Made, Sending
  <2>10. Rest(i, Made(i), Gone(p)) = {}
    BY <2>9 DEF Rest
  <2> QED BY <2>7, <2>8, <2>10 DEF Line, L
<1> QED BY <1>1, <1>3, <1>4 DEF LostInv

(* Every step keeps the records in line.                                   *)
LEMMA LostNext ==
  ASSUME SinglePath
  PROVE  LostInv /\ [Next]_vars => LostInv'
<1> SUFFICES ASSUME LostInv, [Next]_vars PROVE LostInv'
  OBVIOUS
<1>0. PeekedInv /\ OriginInv /\ PeekedInv'
  BY PeekedNext DEF LostInv
<1>1. CASE UNCHANGED vars \/ StartModule
  <2>1. UNCHANGED <<queue, delivered, dropped, pc, loc, counter>>
    BY <1>1 DEF vars, StartModule
  <2>2. \A i : Made(i)' = Made(i)
    BY <2>1 DEF Made
  <2>3. OriginInv'
    <3>1. Numbers' = Numbers
      BY <2>2 DEF Numbers
    <3> QED BY <1>0, <2>1, <3>1 DEF OriginInv
  <2>4. ASSUME NEW p, NEW i \in Inputs, NEW o \in Outputs, Way(p, i, o)
        PROVE  Line(i, Made(i), Gone(p), Places(p))'
    <3>1. Places(p)' = Places(p)
      BY <2>1 DEF Places, Place, Held
    <3>2. Gone(p)' = Gone(p)
      BY <2>1, GoneSame
    <3>3. Line(i, Made(i), Gone(p), Places(p))
      BY <2>4 DEF LostInv
    <3> QED BY <2>2, <3>1, <3>2, <3>3
  <2> QED BY <1>0, <2>3, <2>4 DEF LostInv
<1>2. ASSUME NEW m \in Modules, Take(m) \/ HandlerStep(m) PROVE LostInv'
  <2>1. OriginInv'
    BY <1>0, <1>2, OriginKept
  <2>2. ASSUME NEW p, NEW i \in Inputs, NEW o \in Outputs, Way(p, i, o)
        PROVE  Line(i, Made(i), Gone(p), Places(p))'
    <3>1. Line(i, Made(i), Gone(p), Places(p))
      BY <2>2 DEF LostInv
    <3> QED BY <1>0, <1>2, <2>2, <3>1, LineKept
  <2> QED BY <1>0, <2>1, <2>2 DEF LostInv
<1> QED BY <1>1, <1>2 DEF Next

(* Every record an input made is delivered, queued or held exactly once    *)
(* on each of its ways, in the order of its creation, unless it was        *)
(* dropped: whatever pauses, resumes and full queues come in between,      *)
(* nx_module_add_logdata_input(), nx_module_progress_logdata() and the     *)
(* log queues lose, duplicate and reorder nothing.                         *)
THEOREM NothingEverLost ==
  ASSUME SinglePath
  PROVE  Spec => []NothingLost
<1>1. LostInv => NothingLost
  <2> SUFFICES ASSUME LostInv, NEW r \in Range(Routes),
                      NEW i \in Range(r) \cap Inputs, NEW o \in Range(r) \cap Outputs
               PROVE  /\ InOrder(i, Places(Path(i, o, r)))
                      /\ Present(i, Places(Path(i, o, r))) =
                           {n \in 0..Made(i) - 1 :
                              <<i, n>> \notin UNION {dropped[m] : m \in Range(Path(i, o, r))}}
    BY DEF NothingLost
  <2> DEFINE p == Path(i, o, r)
  <2>1. Way(p, i, o)
    BY PathIsWay
  <2> HIDE DEF p
  <2>2. Line(i, Made(i), Gone(p), Places(p))
    BY <2>1 DEF LostInv
  <2> QED BY <2>2 DEF Line, Rest, Gone, p
<1>2. Init => LostInv
  BY LostInit
<1>3. LostInv /\ [Next]_vars => LostInv'
  BY LostNext
<1> QED BY <1>1, <1>2, <1>3, PTL DEF Spec
=============================================================================
