-------------------------- MODULE DispatcherProofs --------------------------
(***************************************************************************)
(* Dispatcher's invariants hold for any number of modules, priorities and  *)
(* worker threads, and every step of the threads is a step of JobService.  *)
(*                                                                         *)
(* Exclusive needs TypeOK only.  WorkConserving is preserved because every *)
(* step that adds a ready job adds an awake worker (a signalled one, or    *)
(* the one that has just finished that job) and every step that removes an *)
(* awake worker removes a ready job.  BypassBounded is not inductive:      *)
(* Rotation adds that what a ready job has been passed over and what the   *)
(* search has still to go to reach it never exceed the group together.     *)
(***************************************************************************)
EXTENDS Dispatcher, FiniteSetTheorems, TLAPS

Rotation ==
  \A g \in GroupIds : \A i \in 1..Size(g) :
     /\ Groups[g][i] \notin Ready => bypass[Groups[g][i]] = 0
     /\ Groups[g][i] \in Ready => bypass[Groups[g][i]] + Distance(g, i) <= Size(g) - 1

Inv == TypeOK /\ Exclusive /\ WorkConserving /\ Rotation

(* The wheel of a group: where the next search begins is in the group.     *)
LEMMA GroupFacts ==
  /\ Groups \in Seq(Seq(Jobs)) /\ Len(Groups) \in Nat
  /\ \A g \in GroupIds : /\ Groups[g] \in Seq(Jobs)
                         /\ Size(g) \in Nat \ {0}
                         /\ \A i \in 1..Size(g) : Groups[g][i] \in Jobs
<1>1. Groups \in Seq(Seq(Jobs)) /\ Len(Groups) \in Nat
  BY GroupsAssumption
<1>2. ASSUME NEW g \in GroupIds
      PROVE  /\ Groups[g] \in Seq(Jobs)
             /\ Size(g) \in Nat \ {0}
             /\ \A i \in 1..Size(g) : Groups[g][i] \in Jobs
  <2>1. Groups[g] \in Seq(Jobs) /\ Groups[g] # <<>>
    BY <1>1, GroupsAssumption DEF GroupIds
  <2> QED BY <2>1 DEF Size
<1> QED BY <1>1, <1>2

(* Every job is in a group, at one position (nx_ctx_init_jobs).            *)
LEMMA JobPlace ==
  ASSUME NEW j \in Jobs
  PROVE  \E g \in GroupIds : \E i \in 1..Size(g) : Groups[g][i] = j
BY DEF Jobs, GroupIds, Size

(* There are finitely many jobs.                                           *)
LEMMA JobsFinite == IsFiniteSet(Jobs)
<1> DEFINE InG(g) == {Groups[g][i] : i \in 1..Len(Groups[g])}
<1>1. ASSUME NEW g \in GroupIds PROVE IsFiniteSet(InG(g))
  <2>1. Groups[g] \in Seq(Jobs) /\ Len(Groups[g]) \in Nat
    BY GroupFacts
  <2>2. IsFiniteSet(1..Len(Groups[g]))
    BY <2>1, FS_Interval
  <2> DEFINE f == [i \in 1..Len(Groups[g]) |-> Groups[g][i]]
  <2>3. f \in Surjection(1..Len(Groups[g]), InG(g))
    BY DEF Surjection
  <2> HIDE DEF f, InG
  <2> QED BY <2>2, <2>3, FS_Surjection
<1>2. IsFiniteSet({InG(g) : g \in GroupIds})
  <2>1. IsFiniteSet(GroupIds)
    BY GroupFacts, FS_Interval DEF GroupIds
  <2> DEFINE f == [g \in GroupIds |-> InG(g)]
             T == {InG(g) : g \in GroupIds}
  <2>2. f \in Surjection(GroupIds, T)
    <3> HIDE DEF InG
    <3> QED BY DEF Surjection
  <2> HIDE DEF f, T
  <2>3. IsFiniteSet(T)
    BY <2>1, <2>2, FS_Surjection
  <2> QED BY <2>3 DEF T
<1>3. Jobs = UNION {InG(g) : g \in GroupIds}
  BY DEF Jobs, GroupIds
<1> HIDE DEF InG
<1> QED BY <1>1, <1>2, <1>3, FS_UNION

-----------------------------------------------------------------------------
(* The steps of the event thread, of the clock and of the handlers that    *)
(* touch ctx->events; all others leave the events alone.                   *)
EventStep ==
  \/ EventLook \/ EventServe \/ EventTimeout \/ EventSpurious \/ Tick
  \/ \E w \in Workers : HandlerDelay(w) \/ HandlerRemove(w)

LEMMA EventSteps == [Next]_vars => EventStep \/ UNCHANGED events
BY DEF Next, vars, EventStep, EventThread, StartModule, Scan, Take, NoJobs, Spurious, Finish,
       HandlerPost

LEMMA EventsStep == EventsOK /\ [Next]_vars => EventsOK' /\ (NeverOversleeps => NeverOversleeps')
<1> SUFFICES ASSUME EventsOK, EventStep \/ UNCHANGED events
             PROVE  EventsOK' /\ (NeverOversleeps => NeverOversleeps')
  BY EventSteps
<1>0. MaxDelay \in Nat /\ MaxLag \in Nat /\ PollTimeout \in Nat /\ Timed \subseteq Jobs
  BY TimeAssumption
<1>1. CASE UNCHANGED events
  BY <1>1 DEF events, EventsOK, NeverOversleeps
<1>2. CASE EventLook
  BY <1>2 DEF EventLook, EventsOK, NeverOversleeps
<1>3. CASE EventTimeout \/ EventSpurious
  BY <1>0, <1>3 DEF EventTimeout, EventSpurious, Wake, EventsOK, NeverOversleeps
<1>4. CASE EventServe
  <2>1. PICK t \in 0..(MaxDelay + MaxLag + PollTimeout) : NextRun(t) /\ sleep' = t
    BY <1>4 DEF EventServe
  <2>2. /\ delayed' = Later /\ epc' = "wait" /\ lag' = 0
        /\ left' = [j \in Jobs |-> Minus(left[j], lag)]
    BY <1>4 DEF EventServe
  <2>3. ASSUME NEW j \in Jobs
        PROVE  left'[j] \in 0..(MaxDelay + MaxLag) /\ left[j] <= left'[j] + MaxLag
    BY <1>0, <2>2 DEF Minus, EventsOK
  <2>4. EventsOK'
    BY <1>0, <2>1, <2>2, <2>3 DEF EventsOK, Later
  <2>5. ASSUME NEW j \in delayed' PROVE sleep' <= left'[j] + MaxLag
    <3>1. t <= left[j] /\ j \in Jobs
      BY <2>1, <2>2 DEF NextRun, Later, EventsOK
    <3> QED BY <1>0, <2>1, <2>3, <3>1 DEF EventsOK
  <2> QED BY <2>4, <2>5 DEF NeverOversleeps
<1>5. CASE Tick
  <2>1. ASSUME epc = "serve"
        PROVE  EventsOK' /\ (NeverOversleeps => NeverOversleeps')
    BY <1>0, <1>5, <2>1 DEF Tick, EventsOK, NeverOversleeps
  <2>2. ASSUME epc # "serve"
        PROVE  EventsOK' /\ (NeverOversleeps => NeverOversleeps')
    <3>1. /\ left' = [j \in Jobs |-> Minus(left[j], 1)] /\ sleep' = Minus(sleep, 1)
          /\ lag' = lag /\ delayed' = delayed /\ epc' = epc
      BY <1>5, <2>2 DEF Tick
    <3>2. EventsOK'
      BY <1>0, <3>1 DEF EventsOK, Minus
    <3>3. ASSUME NeverOversleeps, epc = "wait", NEW j \in delayed
          PROVE  sleep' <= left'[j] + MaxLag
      <4>1. j \in Jobs /\ sleep <= left[j] + MaxLag
        BY <3>3 DEF NeverOversleeps, EventsOK
      <4> QED BY <1>0, <3>1, <4>1 DEF EventsOK, Minus
    <3> QED BY <3>1, <3>2, <3>3 DEF NeverOversleeps
  <2> QED BY <2>1, <2>2
<1>6. ASSUME NEW w \in Workers, HandlerDelay(w)
      PROVE  EventsOK' /\ (NeverOversleeps => NeverOversleeps')
  <2>1. PICK d \in 0..MaxDelay : left' = [left EXCEPT ![wjob[w]] = d + lag]
    BY <1>6 DEF HandlerDelay
  <2>2. wjob[w] \in Jobs /\ epc' # "wait"
        /\ delayed' = delayed \cup {wjob[w]}
        /\ (Wake \/ UNCHANGED <<epc, lag, sleep>>)
    BY <1>0, <1>6 DEF HandlerDelay, Wake
  <2>3. EventsOK'
    BY <1>0, <2>1, <2>2 DEF EventsOK, Wake
  <2> QED BY <2>2, <2>3 DEF NeverOversleeps
<1>7. ASSUME NEW w \in Workers, HandlerRemove(w)
      PROVE  EventsOK' /\ (NeverOversleeps => NeverOversleeps')
  BY <1>0, <1>7 DEF HandlerRemove, EventsOK, NeverOversleeps
<1> QED BY <1>1, <1>2, <1>3, <1>4, <1>5, <1>6, <1>7 DEF EventStep

-----------------------------------------------------------------------------
(* What nx_event_to_jobqueue() does to the lists and the workers: no list  *)
(* that has events becomes empty, a list that had none is among those      *)
(* whose event stays, and one waiting worker is woken for each of these or *)
(* there is none left to wake.                                             *)
LEMMA ToJobqueueFacts ==
  ASSUME TypeOK, NEW D \in SUBSET Jobs, ToJobqueue(D)
  PROVE  /\ pending' \in [Jobs -> 0..MaxPending]
         /\ wpc' \in [Workers -> {"scan", "wait", "woken", "work"}]
         /\ \A w \in Workers : wpc'[w] = "work" <=> wpc[w] = "work"
         /\ \A j \in Jobs : pending[j] > 0 => pending'[j] > 0
         /\ \E A \in SUBSET Jobs, S \in SUBSET Waiting :
               /\ \A j \in Jobs : pending[j] = 0 /\ pending'[j] > 0 => j \in A
               /\ wpc' = [w \in Workers |-> IF w \in S THEN "woken" ELSE wpc[w]]
               /\ \/ Cardinality(S) = Cardinality(A)
                  \/ S = Waiting
<1>1. PICK A \in SUBSET D : pending' \in Lengths(D, A) /\ Signal(Cardinality(A))
  BY DEF ToJobqueue
<1>2. PICK S \in SUBSET Waiting :
         /\ Cardinality(S) = Cardinality(A) \/ S = Waiting
         /\ wpc' = [w \in Workers |-> IF w \in S THEN "woken" ELSE wpc[w]]
  BY <1>1 DEF Signal
<1>3. /\ pending' \in [Jobs -> 0..MaxPending]
      /\ \A j \in Jobs : pending[j] > 0 => pending'[j] > 0
      /\ \A j \in Jobs : pending[j] = 0 /\ pending'[j] > 0 => j \in A
  BY <1>1, PendingAssumption DEF Lengths, TypeOK
<1>4. /\ wpc' \in [Workers -> {"scan", "wait", "woken", "work"}]
      /\ \A w \in Workers : wpc'[w] = "work" <=> wpc[w] = "work"
  BY <1>2 DEF Waiting, TypeOK
<1>5. A \in SUBSET Jobs
  OBVIOUS
<1> QED BY <1>2, <1>3, <1>4, <1>5

(* Exclusive is about which workers are at work and for which job only.    *)
LEMMA ExclusiveFrame ==
  ASSUME Exclusive, UNCHANGED <<busy, wjob>>,
         \A w \in Workers : wpc'[w] = "work" <=> wpc[w] = "work"
  PROVE  Exclusive'
BY DEF Exclusive

(* Rotation looks at the search pointers, and at which jobs are ready.     *)
LEMMA RotationFrame ==
  ASSUME TypeOK, Rotation, UNCHANGED <<last, bypass>>,
         Ready \subseteq Ready'
  PROVE  Rotation'
<1> SUFFICES ASSUME NEW g \in GroupIds, NEW i \in 1..Size(g)
             PROVE  /\ Groups[g][i] \notin Ready' => bypass'[Groups[g][i]] = 0
                    /\ Groups[g][i] \in Ready' =>
                         bypass'[Groups[g][i]] + Distance(g, i)' <= Size(g) - 1
  BY DEF Rotation, Size
<1>1. Size(g) \in Nat \ {0} /\ First(g) \in 1..Size(g) /\ First(g)' = First(g)
  BY GroupFacts, SMTT(40) DEF First, TypeOK, Size
<1>2. Distance(g, i) \in 0..(Size(g) - 1) /\ Distance(g, i)' = Distance(g, i)
  BY <1>1 DEF Distance, Size
<1> QED BY <1>1, <1>2 DEF Rotation

-----------------------------------------------------------------------------
(* Ready and awake are finite sets of jobs and of workers.                 *)
LEMMA Finiteness ==
  /\ IsFiniteSet(Ready) /\ IsFiniteSet(Awake) /\ IsFiniteSet(Waiting)
  /\ Cardinality(Ready) \in Nat /\ Cardinality(Awake) \in Nat
<1>1. Ready \in SUBSET Jobs /\ Awake \in SUBSET Workers /\ Waiting \in SUBSET Workers
  BY DEF Ready, Awake, Waiting
<1>2. IsFiniteSet(Ready) /\ IsFiniteSet(Awake) /\ IsFiniteSet(Waiting)
  BY <1>1, JobsFinite, WorkersAssumption, FS_Subset
<1> QED BY <1>2, FS_CardinalityType

(* Posting events: the jobs that become ready are at most as many as the   *)
(* workers that are woken, unless no worker is left waiting.               *)
LEMMA PostConserves ==
  ASSUME TypeOK, WorkConserving, NEW D \in SUBSET Jobs, ToJobqueue(D),
         UNCHANGED busy
  PROVE  Ready \subseteq Ready' /\ WorkConserving'
<1>1. PICK A \in SUBSET Jobs, S \in SUBSET Waiting :
        /\ \A j \in Jobs : pending[j] = 0 /\ pending'[j] > 0 => j \in A
        /\ wpc' = [w \in Workers |-> IF w \in S THEN "woken" ELSE wpc[w]]
        /\ Cardinality(S) = Cardinality(A) \/ S = Waiting
  BY ToJobqueueFacts
<1>2. Ready \subseteq Ready'
  BY ToJobqueueFacts DEF Ready
<1>3. Ready' \subseteq Ready \cup A
  BY <1>1, ToJobqueueFacts DEF Ready, TypeOK
<1>4. Awake' = Awake \cup S /\ Awake \cap S = {} /\ Waiting' = Waiting \ S
  BY <1>1 DEF Awake, Waiting
<1>5. IsFiniteSet(A) /\ IsFiniteSet(S)
  BY Finiteness, JobsFinite, FS_Subset
<1>6. SUFFICES ASSUME Waiting' # {}
               PROVE  Cardinality(Ready') <= Cardinality(Awake')
  BY <1>2 DEF WorkConserving
<1>7. Cardinality(S) = Cardinality(A) /\ Cardinality(Ready) <= Cardinality(Awake)
  BY <1>1, <1>4, <1>6 DEF WorkConserving
<1>8. Cardinality(Awake') = Cardinality(Awake) + Cardinality(S)
  <2>1. /\ Cardinality(Awake \cup S)
             = Cardinality(Awake) + Cardinality(S) - Cardinality(Awake \cap S)
        /\ Cardinality(S) \in Nat
    BY <1>5, Finiteness, FS_Union, FS_CardinalityType
  <2>2. Cardinality(Awake \cap S) = 0
    BY <1>4, FS_EmptySet
  <2> QED BY <2>1, <2>2, <1>4, Finiteness
<1>9. Cardinality(Ready') <= Cardinality(Ready) + Cardinality(A)
  <2>1. /\ IsFiniteSet(Ready \cup A)
        /\ Cardinality(Ready \cup A)
             = Cardinality(Ready) + Cardinality(A) - Cardinality(Ready \cap A)
    BY <1>5, Finiteness, FS_Union
  <2>2. IsFiniteSet(Ready') /\ Cardinality(Ready') <= Cardinality(Ready \cup A)
    BY <1>3, <2>1, FS_Subset
  <2>3. IsFiniteSet(Ready \cap A)
    BY Finiteness, FS_Intersection
  <2>4. /\ Cardinality(Ready') \in Nat /\ Cardinality(A) \in Nat
        /\ Cardinality(Ready \cap A) \in Nat
    BY <1>5, <2>2, <2>3, FS_CardinalityType
  <2> QED BY <2>1, <2>2, <2>4, Finiteness
<1>10. /\ Cardinality(A) \in Nat /\ Cardinality(S) \in Nat
       /\ Cardinality(Ready') \in Nat
  <2>1. Ready' \in SUBSET Jobs
    BY DEF Ready
  <2>2. IsFiniteSet(Ready')
    BY <2>1, JobsFinite, FS_Subset
  <2> QED BY <1>5, <2>2, FS_CardinalityType
<1> QED BY <1>7, <1>8, <1>9, <1>10, Finiteness

(* The steps that post events: the main thread, a handler, the event       *)
(* thread.                                                                 *)
LEMMA PostInv ==
  ASSUME Inv, NEW D \in SUBSET Jobs, ToJobqueue(D),
         UNCHANGED <<busy, last, wjob, bypass>>,
         EventsOK', starting' \subseteq Jobs
  PROVE  Inv'
<1>1. TypeOK /\ Exclusive /\ WorkConserving /\ Rotation
  BY DEF Inv
<1>2. TypeOK'
  BY <1>1, ToJobqueueFacts DEF TypeOK, Size
<1>3. Exclusive'
  BY <1>1, ToJobqueueFacts, ExclusiveFrame
<1>4. Ready \subseteq Ready' /\ WorkConserving'
  BY <1>1, PostConserves
<1>5. Rotation'
  BY <1>1, <1>4, RotationFrame
<1> QED BY <1>2, <1>3, <1>4, <1>5 DEF Inv

(* The steps that change neither which jobs are ready nor which workers    *)
(* are at work, and put no worker to sleep.                                *)
LEMMA IdleInv ==
  ASSUME Inv, TypeOK', UNCHANGED <<busy, last, wjob, bypass>>, Ready' = Ready,
         Awake \subseteq Awake', Waiting' \subseteq Waiting,
         \A w \in Workers : wpc'[w] = "work" <=> wpc[w] = "work"
  PROVE  Inv'
<1>1. TypeOK /\ Exclusive /\ WorkConserving /\ Rotation
  BY DEF Inv
<1>2. Exclusive'
  BY <1>1, ExclusiveFrame
<1>3. WorkConserving'
  <2>1. Awake' \in SUBSET Workers
    BY DEF Awake
  <2>2. IsFiniteSet(Awake')
    BY <2>1, WorkersAssumption, FS_Subset
  <2>3. Cardinality(Awake) <= Cardinality(Awake') /\ Cardinality(Awake') \in Nat
    BY <2>2, FS_Subset, FS_CardinalityType
  <2> QED BY <1>1, <2>3, Finiteness DEF WorkConserving
<1>4. Rotation'
  BY <1>1, RotationFrame
<1> QED BY <1>2, <1>3, <1>4 DEF Inv

-----------------------------------------------------------------------------
(* Finish: the job may be ready again, and then this worker goes for it.   *)
LEMMA FinishInv == ASSUME Inv, NEW w \in Workers, Finish(w) PROVE Inv'
<1> DEFINE j == wjob[w]
<1>1. TypeOK /\ Exclusive /\ WorkConserving /\ Rotation
  BY DEF Inv
<1>2. /\ wpc[w] = "work" /\ j \in Jobs /\ busy[j]
      /\ busy' = [busy EXCEPT ![j] = FALSE]
      /\ wpc' = [wpc EXCEPT ![w] = "scan"]
      /\ wjob' = [wjob EXCEPT ![w] = NoJob]
      /\ UNCHANGED <<pending, last, events, starting, bypass>>
  BY <1>1 DEF Finish, Exclusive
<1>3. TypeOK'
  BY <1>1, <1>2 DEF TypeOK, EventsOK, events, Size
<1>4. Exclusive'
  BY <1>1, <1>2 DEF TypeOK, Exclusive
<1>5. Ready \subseteq Ready' /\ Ready' \subseteq Ready \cup {j}
  BY <1>1, <1>2 DEF Ready, TypeOK
<1>6. WorkConserving'
  <2>1. Awake' = Awake \cup {w} /\ w \notin Awake /\ Waiting' = Waiting
    BY <1>1, <1>2 DEF Awake, Waiting, TypeOK
  <2>2. Cardinality(Awake') = Cardinality(Awake) + 1
    BY <2>1, Finiteness, FS_AddElement
  <2>3. /\ IsFiniteSet(Ready \cup {j})
        /\ Cardinality(Ready \cup {j}) \in {Cardinality(Ready), Cardinality(Ready) + 1}
    BY Finiteness, FS_AddElement
  <2>4. IsFiniteSet(Ready') /\ Cardinality(Ready') <= Cardinality(Ready \cup {j})
    BY <1>5, <2>3, FS_Subset
  <2>5. Cardinality(Ready') \in Nat
    BY <2>4, FS_CardinalityType
  <2> QED BY <1>1, <2>1, <2>2, <2>3, <2>4, <2>5, Finiteness DEF WorkConserving
<1>7. Rotation'
  BY <1>1, <1>2, <1>5, RotationFrame
<1> QED BY <1>3, <1>4, <1>6, <1>7 DEF Inv

(* NoJobs: there is no ready job that the worker could leave waiting.      *)
LEMMA NoJobsInv ==
  ASSUME Inv, NEW w \in Workers, wpc[w] \in {"scan", "woken"}, NoJobs(w)
  PROVE  Inv'
<1>1. TypeOK /\ Exclusive /\ WorkConserving /\ Rotation
  BY DEF Inv
<1>2. /\ Ready = {} /\ Ready' = {}
      /\ last' = [g \in GroupIds |-> IF g <= Len(Groups) THEN First(g) ELSE last[g]]
      /\ wpc' = [wpc EXCEPT ![w] = IF wpc[w] = "scan" THEN "wait" ELSE "scan"]
      /\ UNCHANGED <<pending, busy, events, wjob, starting, bypass>>
  BY DEF NoJobs, Searched, Ready
<1>3. \A g \in GroupIds : First(g) \in 1..Size(g)
  BY <1>1, GroupFacts DEF First, TypeOK
<1>4. TypeOK'
  BY <1>1, <1>2, <1>3, GroupFacts DEF TypeOK, EventsOK, events, Size, GroupIds
<1>5. Exclusive'
  <2>1. \A v \in Workers : wpc'[v] = "work" <=> wpc[v] = "work"
    BY <1>1, <1>2 DEF TypeOK
  <2> QED BY <1>1, <1>2, <2>1, ExclusiveFrame
<1>6. WorkConserving'
  <2>1. Cardinality(Ready') = 0
    BY <1>2, FS_EmptySet
  <2>2. Awake' \in SUBSET Workers
    BY DEF Awake
  <2>3. IsFiniteSet(Awake')
    BY <2>2, WorkersAssumption, FS_Subset
  <2>4. Cardinality(Awake') \in Nat
    BY <2>3, FS_CardinalityType
  <2> QED BY <2>1, <2>4 DEF WorkConserving
<1>7. Rotation'
  BY <1>1, <1>2 DEF Rotation, Size
<1> QED BY <1>4, <1>5, <1>6, <1>7 DEF Inv

(* How the wheel turns: a search takes the pointer one place on, so every  *)
(* other job of the group but the first one looked at comes nearer by one. *)
LEMMA WheelTurns ==
  ASSUME TypeOK, NEW g \in GroupIds, NEW k \in 1..Size(g), last'[g] = First(g)
  PROVE  /\ Distance(g, k) \in 0..(Size(g) - 1)
         /\ Distance(g, k) > 0 => Distance(g, k)' = Distance(g, k) - 1
         /\ \A i \in 1..Size(g) : Distance(g, i) = Distance(g, k) => i = k
<1>1. Size(g) \in Nat \ {0} /\ Size(g)' = Size(g) /\ First(g) \in 1..Size(g)
  BY GroupFacts, SMTT(40) DEF First, TypeOK, Size
<1>2. First(g)' = IF First(g) = Size(g) THEN 1 ELSE First(g) + 1
  <2>1. First(g)' = IF last'[g] = 0 \/ last'[g] = Size(g) THEN 1 ELSE last'[g] + 1
    BY <1>1 DEF First
  <2> QED BY <2>1, <1>1
<1>3. Distance(g, k)' = IF k >= First(g)' THEN k - First(g)' ELSE k + Size(g) - First(g)'
  BY <1>1 DEF Distance
<1>4. Distance(g, k) = IF k >= First(g) THEN k - First(g) ELSE k + Size(g) - First(g)
  BY DEF Distance
<1>5. ASSUME NEW i \in 1..Size(g), Distance(g, i) = Distance(g, k) PROVE i = k
  BY <1>1, <1>5 DEF Distance
<1> QED BY <1>1, <1>2, <1>3, <1>4, <1>5

(* Take: one job less is ready and one worker less awake, and the jobs     *)
(* that are passed over have come nearer.                                  *)
LEMMA TakeInv ==
  ASSUME Inv, NEW w \in Workers, wpc[w] \in {"scan", "woken"},
         NEW g \in GroupIds, NEW i \in 1..Size(g), Take(w, g, i)
  PROVE  Inv'
<1> DEFINE j == Groups[g][i]
<1>1. TypeOK /\ Exclusive /\ WorkConserving /\ Rotation
  BY DEF Inv
<1>2. /\ FirstReady(g, i) /\ j \in Ready
      /\ \A h \in 1..(g - 1) : \A k \in 1..Size(h) : Groups[h][k] \notin Ready
      /\ last' = [h \in GroupIds |-> IF h <= g THEN First(h) ELSE last[h]]
      /\ pending' = [pending EXCEPT ![j] = @ - 1]
      /\ busy' = [busy EXCEPT ![j] = TRUE]
      /\ wpc' = [wpc EXCEPT ![w] = "work"]
      /\ wjob' = [wjob EXCEPT ![w] = j]
      /\ UNCHANGED <<events, starting>>
  BY DEF Take, NextJob, FirstReady, Searched
<1>3. bypass' = [x \in Jobs |->
            IF x = j THEN 0
            ELSE IF x \in Ready /\ InGroup(x, g) /\ bypass[x] < Size(g)
                 THEN bypass[x] + 1 ELSE bypass[x]]
  BY DEF Take
<1>4. j \in Jobs /\ ~busy[j] /\ pending[j] > 0
  BY <1>2 DEF Ready
<1>5. \A h \in GroupIds : First(h) \in 1..Size(h) /\ Size(h) \in Nat
  BY <1>1, GroupFacts DEF First, TypeOK
<1>6. TypeOK'
  <2>1. pending' \in [Jobs -> 0..MaxPending]
    BY <1>1, <1>2, <1>4, PendingAssumption DEF TypeOK
  <2>2. last' \in [GroupIds -> Nat] /\ \A h \in GroupIds : last'[h] <= Size(h)
    BY <1>1, <1>2, <1>5 DEF TypeOK
  <2>3. bypass' \in [Jobs -> Nat]
    BY <1>1, <1>3 DEF TypeOK
  <2> QED BY <1>1, <1>2, <1>4, <2>1, <2>2, <2>3 DEF TypeOK, EventsOK, events, Size
<1>7. Exclusive'
  BY <1>1, <1>2, <1>4 DEF Exclusive, TypeOK
<1>8. Ready' = Ready \ {j}
  BY <1>1, <1>2, <1>4 DEF Ready, TypeOK
<1>9. WorkConserving'
  <2>1. Awake' = Awake \ {w} /\ w \in Awake /\ Waiting' = Waiting
    BY <1>1, <1>2 DEF Awake, Waiting, TypeOK
  <2>2. Cardinality(Awake') = Cardinality(Awake) - 1
    BY <2>1, Finiteness, FS_RemoveElement
  <2>3. Cardinality(Ready') = Cardinality(Ready) - 1
    BY <1>2, <1>8, Finiteness, FS_RemoveElement
  <2> QED BY <1>1, <2>1, <2>2, <2>3, Finiteness DEF WorkConserving
<1>10. ASSUME NEW h \in GroupIds, NEW k \in 1..Size(h)
       PROVE  /\ Groups[h][k] \notin Ready' => bypass'[Groups[h][k]] = 0
              /\ Groups[h][k] \in Ready' =>
                   bypass'[Groups[h][k]] + Distance(h, k)' <= Size(h) - 1
  <2> DEFINE x == Groups[h][k]
  <2>1. /\ x \in Jobs /\ bypass[x] \in Nat /\ Size(h) \in Nat
        /\ x \notin Ready => bypass[x] = 0
        /\ x \in Ready => bypass[x] + Distance(h, k) <= Size(h) - 1
    BY <1>1, GroupFacts DEF Rotation, TypeOK
  <2>2. bypass'[x] = IF x = j THEN 0
                     ELSE IF x \in Ready /\ InGroup(x, g) /\ bypass[x] < Size(g)
                          THEN bypass[x] + 1 ELSE bypass[x]
    BY <1>3, <2>1
  <2>3. x \notin Ready' => bypass'[x] = 0
    BY <1>8, <2>1, <2>2
  <2>4. ASSUME x \in Ready' PROVE bypass'[x] + Distance(h, k)' <= Size(h) - 1
    <3>1. x \in Ready /\ x # j
      BY <1>8, <2>4
    <3>2. CASE h = g
      <4>1. last'[g] = First(g) /\ k \in 1..Size(g)
        BY <1>2, <3>2 DEF GroupIds
      <4>2. /\ Distance(g, k) \in 0..(Size(g) - 1)
            /\ Distance(g, k) > 0 => Distance(g, k)' = Distance(g, k) - 1
            /\ Distance(g, i) = Distance(g, k) => i = k
        BY <1>1, <4>1, WheelTurns
      <4>3. Distance(g, i) \in 0..(Size(g) - 1)
        BY <1>1, <4>1, WheelTurns
      <4>4. Distance(g, i) <= Distance(g, k) /\ i # k
        BY <1>2, <3>1, <3>2, <4>1 DEF FirstReady
      <4>5. Distance(g, k)' = Distance(g, k) - 1
        BY <4>2, <4>3, <4>4
      <4>6. bypass'[x] \in Nat /\ bypass'[x] <= bypass[x] + 1
        BY <2>1, <2>2
      <4> QED BY <2>1, <3>1, <3>2, <4>2, <4>5, <4>6
    <3>3. CASE h < g
      <4>1. x \notin Ready
        BY <1>2, <3>3 DEF GroupIds
      <4> QED BY <3>1, <4>1
    <3>4. CASE h > g
      <4>1. ~InGroup(x, g)
        BY <3>4, GroupsAssumption DEF InGroup, GroupIds, Size
      <4>2. bypass'[x] = bypass[x]
        BY <2>2, <3>1, <4>1
      <4>3. last'[h] = last[h]
        BY <1>2, <3>4 DEF GroupIds
      <4>4. Distance(h, k)' = Distance(h, k)
        BY <4>3 DEF Distance, First, Size
      <4> QED BY <2>1, <3>1, <4>2, <4>4
    <3> QED BY <3>2, <3>3, <3>4 DEF GroupIds
  <2> QED BY <2>3, <2>4
<1>11. Rotation'
  BY <1>10 DEF Rotation, Size
<1> QED BY <1>6, <1>7, <1>9, <1>11 DEF Inv

-----------------------------------------------------------------------------
(* Before the threads run there is nothing to do.                          *)
LEMMA InitInv == Init => Inv
<1> SUFFICES ASSUME Init PROVE Inv
  OBVIOUS
<1>1. Ready = {}
  BY DEF Init, Ready
<1>2. TypeOK
  BY GroupFacts, PendingAssumption, TimeAssumption DEF Init, TypeOK, EventsOK, NoJob
<1>3. Exclusive
  BY DEF Init, Exclusive
<1>4. WorkConserving
  BY <1>1, FS_EmptySet, Finiteness DEF WorkConserving
<1>5. Rotation
  BY <1>1, GroupFacts DEF Rotation, Init
<1> QED BY <1>2, <1>3, <1>4, <1>5 DEF Inv

(* Every step keeps the inductive invariant.                               *)
LEMMA NextInv == Inv /\ [Next]_vars => Inv'
<1> SUFFICES ASSUME Inv, [Next]_vars PROVE Inv'
  OBVIOUS
<1>0. TypeOK /\ Exclusive /\ EventsOK'
  BY EventsStep DEF Inv, TypeOK
<1>1. CASE UNCHANGED vars
  BY <1>0, <1>1 DEF vars, Inv, TypeOK, Exclusive, WorkConserving, Rotation, Ready, Awake,
              Waiting, Distance, First, Size
<1>2. ASSUME NEW j \in Jobs, StartModule(j) PROVE Inv'
  <2>1. starting' \subseteq Jobs
    BY <1>0, <1>2 DEF StartModule, TypeOK
  <2> QED BY <1>0, <1>2, <2>1, PostInv DEF StartModule
<1>3. CASE Tick \/ EventLook \/ EventTimeout \/ EventSpurious
  <2>1. UNCHANGED <<pending, busy, last, wpc, wjob, starting, bypass>>
    BY <1>3 DEF Tick, EventLook, EventTimeout, EventSpurious
  <2>2. TypeOK' /\ Ready' = Ready /\ Awake' = Awake /\ Waiting' = Waiting
    BY <1>0, <2>1 DEF TypeOK, Size, Ready, Awake, Waiting
  <2> QED BY <2>1, <2>2, IdleInv
<1>4. ASSUME NEW w \in Workers, Scan(w) PROVE Inv'
  BY <1>4, TakeInv, NoJobsInv DEF Scan
<1>5. ASSUME NEW w \in Workers, Spurious(w) PROVE Inv'
  <2>1. /\ TypeOK' /\ Ready' = Ready /\ Awake \subseteq Awake' /\ Waiting' \subseteq Waiting
        /\ \A v \in Workers : wpc'[v] = "work" <=> wpc[v] = "work"
    BY <1>0, <1>5 DEF Spurious, TypeOK, Size, Ready, Awake, Waiting
  <2> QED BY <1>5, <2>1, IdleInv DEF Spurious
<1>6. ASSUME NEW w \in Workers, HandlerDelay(w) PROVE Inv'
  <2>1. TypeOK' /\ Ready' = Ready /\ Awake' = Awake /\ Waiting' = Waiting
    BY <1>0, <1>6 DEF HandlerDelay, TypeOK, Size, Ready, Awake, Waiting
  <2> QED BY <1>6, <2>1, IdleInv DEF HandlerDelay
<1>7. ASSUME NEW w \in Workers, HandlerRemove(w) PROVE Inv'
  <2>1. wjob[w] \in Jobs /\ busy[wjob[w]]
    BY <1>0, <1>7 DEF HandlerRemove, Exclusive
  <2>2. PICK n \in 0..pending[wjob[w]] : pending' = [pending EXCEPT ![wjob[w]] = n]
    BY <1>7 DEF HandlerRemove
  <2>3. pending' \in [Jobs -> 0..MaxPending]
    BY <1>0, <2>1, <2>2, PendingAssumption DEF TypeOK
  <2>5. TypeOK'
    BY <1>0, <1>7, <2>3 DEF HandlerRemove, TypeOK, Size
  <2>6. Ready' = Ready /\ Awake' = Awake /\ Waiting' = Waiting
    BY <1>0, <1>7, <2>1, <2>2 DEF HandlerRemove, TypeOK, Ready, Awake, Waiting
  <2> QED BY <1>7, <2>5, <2>6, IdleInv DEF HandlerRemove
<1>8. ASSUME NEW w \in Workers, NEW j \in Jobs, HandlerPost(w, j) PROVE Inv'
  <2>1. starting' \subseteq Jobs
    BY <1>0, <1>8 DEF HandlerPost, TypeOK
  <2> QED BY <1>0, <1>8, <2>1, PostInv DEF HandlerPost
<1>9. CASE EventServe
  <2> DEFINE due == delayed \ Later
  <2>1. starting' \subseteq Jobs /\ due \in SUBSET Jobs
    BY <1>0, <1>9 DEF EventServe, TypeOK, EventsOK
  <2>2. ToJobqueue(due) /\ UNCHANGED <<busy, last, wjob, bypass>>
    BY <1>9 DEF EventServe
  <2> HIDE DEF due
  <2> QED BY <1>0, <2>1, <2>2, PostInv
<1> QED BY <1>1, <1>2, <1>3, <1>4, <1>5, <1>6, <1>7, <1>8, <1>9, FinishInv
        DEF Next, EventThread

(* The bound on passing over is what Rotation leaves of it.                *)
LEMMA InvBypassBounded == Inv => BypassBounded
<1> SUFFICES ASSUME Inv, NEW g \in GroupIds, NEW i \in 1..Size(g)
             PROVE  bypass[Groups[g][i]] <= Size(g) - 1
  BY DEF BypassBounded
<1>1. Size(g) \in Nat \ {0} /\ Groups[g][i] \in Jobs
  BY GroupFacts
<1>2. First(g) \in 1..Size(g) /\ bypass[Groups[g][i]] \in Nat
  BY <1>1 DEF First, Inv, TypeOK
<1>3. Distance(g, i) \in Nat
  BY <1>1, <1>2 DEF Distance
<1> QED BY <1>1, <1>2, <1>3 DEF Inv, Rotation

(* For any modules, priorities and number of worker threads: one worker    *)
(* per module, no sleeper while work has nobody on the way to it, and no   *)
(* job passed over more often than its group has other jobs.               *)
THEOREM DispatcherSafe ==
  Spec => [](TypeOK /\ Exclusive /\ WorkConserving /\ BypassBounded)
<1>1. Inv => TypeOK /\ Exclusive /\ WorkConserving /\ BypassBounded
  BY InvBypassBounded DEF Inv
<1> QED BY <1>1, InitInv, NextInv, PTL DEF Spec

(* The variables of the threads, the job lists and the delayed events stay *)
(* within their types, above all the place where the next search begins.   *)
THEOREM TypeCorrect == Spec => []TypeOK
BY DispatcherSafe, PTL

(* The event thread never sleeps past the time of a delayed event by more  *)
(* than it waited for the nx lock, whatever the events, their number and   *)
(* their times: the wait is timed for the earliest of those it finds, and  *)
(* nx_event_add() ends it for those that come later.                       *)
THEOREM EventsNotOverslept == Spec => []NeverOversleeps
<1>1. Init => NeverOversleeps
  BY DEF Init, NeverOversleeps
<1>2. TypeOK => EventsOK
  BY DEF TypeOK
<1> QED BY <1>1, <1>2, TypeCorrect, EventsStep, PTL DEF Spec

(* nx_ctx_next_job() never gives a module to two workers: job->busy is set *)
(* with the lock and cleared without it.                                   *)
THEOREM OneWorkerPerModule == Spec => []Exclusive
BY DispatcherSafe, PTL

(* The search of nx_ctx_next_job(), which begins behind the place where    *)
(* the last one began, overtakes a ready job a bounded number of times.    *)
THEOREM FairSearch == Spec => []BypassBounded
BY DispatcherSafe, PTL

-----------------------------------------------------------------------------
(* The jobs that are running, as JobService sees them.                     *)
Running == {j \in Jobs : \E w \in Workers : wpc[w] = "work" /\ wjob[w] = j}

(* job->busy tells which jobs are running.                                 *)
LEMMA RunningIsBusy ==
  /\ Inv => Running = {j \in Jobs : busy[j]}
  /\ Inv' => Running' = {j \in Jobs : busy'[j]}
<1>1. Inv => Running = {j \in Jobs : busy[j]}
  BY DEF Inv, Exclusive, Running
<1>2. Inv' => Running' = {j \in Jobs : busy'[j]}
  BY DEF Inv, Exclusive, Running
<1> QED BY <1>1, <1>2

(* Posting events is a Change of the service.                              *)
LEMMA PostIsChange ==
  ASSUME Inv, Inv', NEW D \in SUBSET Jobs, ToJobqueue(D), UNCHANGED busy
  PROVE  Service!Change
<1>1. Running' = Running
  BY RunningIsBusy
<1>2. pending' \in [Jobs -> Nat] /\ \A j \in Jobs : pending[j] > 0 => pending'[j] > 0
  BY ToJobqueueFacts, PendingAssumption DEF Inv
<1> QED BY <1>1, <1>2 DEF Service!Change, Running

(* Every step of the threads is a step of the service or changes nothing   *)
(* in it, so the safety half of ServiceSpec holds for any instance.        *)
LEMMA StepImplements == Inv /\ Inv' /\ [Next]_vars => [Service!Next]_(Service!vars)
<1> SUFFICES ASSUME Inv, Inv', [Next]_vars
             PROVE  Service!Next \/ UNCHANGED <<pending, Running>>
  BY DEF Service!vars, Running
<1>0. /\ Running = {j \in Jobs : busy[j]} /\ Running' = {j \in Jobs : busy'[j]}
      /\ TypeOK /\ Exclusive
  BY RunningIsBusy DEF Inv
<1>1. CASE UNCHANGED vars
  BY <1>0, <1>1 DEF vars
<1>2. ASSUME NEW j \in Jobs, StartModule(j) PROVE Service!Next
  BY <1>2, PostIsChange DEF StartModule, Service!Next
<1>3. CASE Tick \/ EventLook \/ EventTimeout \/ EventSpurious
  BY <1>0, <1>3 DEF Tick, EventLook, EventTimeout, EventSpurious
<1>4. ASSUME NEW w \in Workers, Scan(w) PROVE Service!Next \/ UNCHANGED <<pending, Running>>
  <2>1. CASE NoJobs(w)
    BY <1>0, <2>1 DEF NoJobs
  <2>2. ASSUME NEW g \in GroupIds, NEW i \in 1..Size(g), Take(w, g, i) PROVE Service!Next
    <3> DEFINE j == Groups[g][i]
    <3>1. /\ j \in Jobs /\ ~busy[j] /\ pending[j] > 0
          /\ pending' = [pending EXCEPT ![j] = @ - 1] /\ busy' = [busy EXCEPT ![j] = TRUE]
      BY <2>2 DEF Take, NextJob, FirstReady, Ready
    <3>2. j \notin Running /\ Running' = Running \cup {j}
      BY <1>0, <3>1 DEF TypeOK
    <3>3. Service!Begin(j)
      BY <3>1, <3>2 DEF Service!Begin, Running
    <3> QED BY <3>1, <3>3 DEF Service!Next
  <2> QED BY <1>4, <2>1, <2>2 DEF Scan
<1>5. ASSUME NEW w \in Workers, Spurious(w) PROVE UNCHANGED <<pending, Running>>
  BY <1>0, <1>5 DEF Spurious
<1>6. ASSUME NEW w \in Workers, HandlerDelay(w) PROVE UNCHANGED <<pending, Running>>
  BY <1>0, <1>6 DEF HandlerDelay
<1>7. ASSUME NEW w \in Workers, HandlerRemove(w) PROVE Service!Next
  <2>1. wjob[w] \in Jobs /\ busy[wjob[w]] /\ busy' = busy
    BY <1>0, <1>7 DEF HandlerRemove, Exclusive
  <2>2. PICK n \in 0..pending[wjob[w]] : pending' = [pending EXCEPT ![wjob[w]] = n]
    BY <1>7 DEF HandlerRemove
  <2>3. /\ pending' \in [Jobs -> Nat] /\ Running' = Running
        /\ \A j \in Jobs \ Running : pending[j] > 0 => pending'[j] > 0
    BY <1>0, <2>1, <2>2, PendingAssumption DEF TypeOK
  <2>4. Service!Change
    BY <2>3 DEF Service!Change, Running
  <2> QED BY <2>4 DEF Service!Next
<1>8. ASSUME NEW w \in Workers, NEW j \in Jobs, HandlerPost(w, j) PROVE Service!Next
  BY <1>8, PostIsChange DEF HandlerPost, Service!Next
<1>9. CASE EventServe
  <2> DEFINE due == delayed \ Later
  <2>1. ToJobqueue(due) /\ UNCHANGED busy /\ due \in SUBSET Jobs
    BY <1>0, <1>9 DEF EventServe, TypeOK, EventsOK
  <2> HIDE DEF due
  <2> QED BY <2>1, PostIsChange DEF Service!Next
<1>10. ASSUME NEW w \in Workers, Finish(w) PROVE Service!Next
  <2>1. PICK j \in Jobs : /\ busy[j] /\ busy' = [busy EXCEPT ![j] = FALSE]
                          /\ pending' = pending
    BY <1>0, <1>10 DEF Finish, Exclusive
  <2>2. j \in Running /\ Running' = Running \ {j}
    BY <1>0, <2>1 DEF TypeOK
  <2>3. Service!End(j)
    BY <2>1, <2>2 DEF Service!End, Running
  <2> QED BY <2>3 DEF Service!Next
<1> QED BY <1>1, <1>2, <1>3, <1>4, <1>5, <1>6, <1>7, <1>8, <1>9, <1>10 DEF Next, EventThread

(* The worker threads, the event thread and the search for jobs implement  *)
(* the service's steps: a module's events are taken one at a time, and an  *)
(* event leaves a list only by being taken or by its own module's doing.   *)
THEOREM DispatcherImplements == Spec => Service!Init /\ [][Service!Next]_(Service!vars)
<1>1. Init => Service!Init
  BY DEF Init, Service!Init
<1> QED BY <1>1, InitInv, NextInv, StepImplements, PTL DEF Spec
=============================================================================
