--------------------------- MODULE RestartProofs ---------------------------
(***************************************************************************)
(* Proofs about Restart, for sources and queues of any length, any number  *)
(* of crashes and I/O errors and any number of runs: what the files hold   *)
(* after the process has ended, at whatever step, accounts for every line  *)
(* of the source.                                                          *)
(***************************************************************************)
EXTENDS Restart, SequenceTheorems, WellFoundedInduction, TLAPS

(* The reasons for which a line needs no file any more.                    *)
Fates == Elements(out) \cup restored \cup spoiled \cup skipped

(* No process, no queue in memory.                                         *)
DownIsEmpty == phase = "down" => queue = <<>>

(* The position in the cache file is one the input has passed.             *)
CacheBehind == ccfile.position <= IF phase = "down" THEN lines ELSE pos

(* What has been read of the queue file was restored or given up.          *)
RestoredSoFar ==
  phase = "restore" =>
    /\ at <= Len(qfile)
    /\ \A i \in 1..at : qfile[i] \in restored \cup spoiled \cup {Torn}

(* Once the program is up, the queue file it leaves behind holds nothing   *)
(* that is not in memory.                                                  *)
FileUsedUp ==
  phase = "up" => Elements(qfile) \subseteq restored \cup spoiled \cup {Torn}

(* What has been written of the queue can be read back up to the first     *)
(* record that was cut short; from there on all is spoiled.                *)
SavedSoFar ==
  phase = "save" =>
    /\ at <= Len(queue) /\ Len(qfile) = at
    /\ \A i \in 1..Len(queue) : \A j \in 1..at :
          j <= i => qfile[j] = queue[j] \/ queue[i] \in spoiled

(* Record r can be read from the file q after its first n records; it is   *)
(* still in memory or, as far as it is going to be read, in the file.      *)
CanRead(q, n, r) ==
  \E i \in (n + 1)..Len(q) : q[i] = r /\ \A j \in (n + 1)..i : q[j] # Torn

StillHeld(p, q, f, n, r) ==
  \/ p \in {"down", "saved", "truncated"} /\ CanRead(f, 0, r)
  \/ p \notin {"down", "saved", "truncated"} /\ r \in Elements(q)
  \/ p = "restore" /\ CanRead(f, n, r)

(* MissingExplained in these terms.                                        *)
Explained ==
  \A r \in 1..GoesOnFrom : r \in Fates \/ StillHeld(phase, queue, qfile, at, r)

(* What the next start finds if the process ends now: every line before    *)
(* the position in the cache file is accounted for without the memory.     *)
CrashExplained ==
  \A r \in 1..ccfile.position :
     \/ r \in Fates
     \/ phase \notin {"up", "save"} /\ CanRead(qfile, 0, r)

MissingInv ==
  /\ TypeOK /\ DownIsEmpty /\ CacheBehind /\ RestoredSoFar /\ FileUsedUp
  /\ SavedSoFar /\ CrashExplained /\ Explained

(* Without a fault the files are intact, no file is left behind, and what  *)
(* has been saved is a prefix of the queue.                                *)
FaultFree ==
  faults = 0 =>
    /\ ccfile.good /\ Torn \notin Elements(qfile)
    /\ phase = "up" => qfile = <<>>
    /\ phase = "save" => \A i \in 1..at : qfile[i] = queue[i]
    /\ skipped \subseteq 1..GoesOnFrom

(* Then all of the queue file is read, and ExactlyOnce says this.          *)
AllHeld ==
  CASE phase \in {"down", "saved", "truncated"} -> qfile
    [] phase = "restore" -> queue \o SubSeq(qfile, at + 1, Len(qfile))
    [] OTHER -> queue

InOrder ==
  faults = 0 => /\ Increasing(out \o AllHeld)
                /\ Elements(out \o AllHeld) = (1..GoesOnFrom) \ skipped

OnceInv == MissingInv /\ FaultFree /\ InOrder

-----------------------------------------------------------------------------
(* A bounded set of natural numbers has a greatest element.                *)
LEMMA GreatestBelow ==
  ASSUME NEW b \in Nat, NEW T, T \subseteq 0..b, T # {}
  PROVE  \E k \in T : \A l \in T : l <= k
<1> DEFINE U == {x \in Nat : b - x \in T}
           R == OpToRel(<, Nat)
<1>1. IsWellFoundedOn(R, Nat)
  BY NatLessThanWellFounded
<1>2. U \subseteq Nat /\ U # {}
  <2>1. PICK t \in T : TRUE
    OBVIOUS
  <2>2. b - t \in Nat /\ b - (b - t) = t
    OBVIOUS
  <2>3. b - t \in U
    BY <2>1, <2>2
  <2> QED BY <2>3
<1>3. PICK x \in U : \A y \in U : ~(<<y, x>> \in R)
  <2> HIDE DEF U, R
  <2> QED BY <1>1, <1>2, WFMin
<1>4. \A y \in U : ~(y < x)
  BY <1>3, <1>2 DEF OpToRel
<1>5. x \in Nat /\ b - x \in T
  BY <1>3
<1>6. ASSUME NEW l \in T PROVE l <= b - x
  <2>1. l \in 0..b /\ b - l \in Nat /\ b - (b - l) = l
    OBVIOUS
  <2>2. b - l \in U
    BY <2>1
  <2>3. ~(b - l < x)
    BY <2>2, <1>4
  <2> QED BY <2>1, <2>3, <1>5
<1> QED BY <1>5, <1>6

(* What nx_logqueue_from_file() gets out of a file: the records up to the  *)
(* first one that was cut short.                                           *)
LEMMA ReadableFacts ==
  ASSUME NEW S, NEW q \in Seq(S), NEW n \in 0..Len(q)
  PROVE  \E k \in n..Len(q) :
            /\ Readable(q, n) = SubSeq(q, n + 1, k)
            /\ \A i \in (n + 1)..k : q[i] # Torn
            /\ k = Len(q) \/ q[k + 1] = Torn
<1> DEFINE good == {k \in n..Len(q) : \A i \in (n + 1)..k : q[i] # Torn}
           Best(k) == \A l \in good : l <= k
           m == CHOOSE k \in good : Best(k)
<1>1. n \in good /\ good \subseteq 0..Len(q) /\ Len(q) \in Nat
  OBVIOUS
<1>2. \E k \in good : Best(k)
  <2> HIDE DEF good
  <2> QED BY <1>1, GreatestBelow
<1>3. m \in good /\ Best(m)
  <2> HIDE DEF good, Best
  <2> QED BY <1>2
<1>4. Readable(q, n) = SubSeq(q, n + 1, m)
  BY DEF Readable
<1> HIDE DEF m
<1>5. m = Len(q) \/ q[m + 1] = Torn
  <2> SUFFICES ASSUME m # Len(q), q[m + 1] # Torn PROVE FALSE
    OBVIOUS
  <2>1. m + 1 \in good /\ m \in Nat
    BY <1>3, <1>1
  <2> HIDE DEF good
  <2> QED BY <2>1, <1>3
<1> QED BY <1>3, <1>4, <1>5

(* The same, for one record.                                               *)
LEMMA ReadableElements ==
  ASSUME NEW S, NEW q \in Seq(S), NEW n \in 0..Len(q)
  PROVE  /\ Readable(q, n) \in Seq(S)
         /\ \A r : r \in Elements(Readable(q, n)) <=> CanRead(q, n, r)
<1>1. PICK k \in n..Len(q) :
            /\ Readable(q, n) = SubSeq(q, n + 1, k)
            /\ \A i \in (n + 1)..k : q[i] # Torn
            /\ k = Len(q) \/ q[k + 1] = Torn
  BY ReadableFacts
<1>2. /\ Readable(q, n) \in Seq(S) /\ Len(Readable(q, n)) = k - n
      /\ k \in Nat /\ n \in Nat /\ Len(q) \in Nat
      /\ \A i \in 1..(k - n) : Readable(q, n)[i] = q[n + i]
  BY <1>1
<1>3. ASSUME NEW r, r \in Elements(Readable(q, n)) PROVE CanRead(q, n, r)
  <2>1. PICK i \in 1..(k - n) : q[n + i] = r
    BY <1>2, <1>3 DEF Elements
  <2>2. n + i \in (n + 1)..Len(q) /\ \A j \in (n + 1)..(n + i) : q[j] # Torn
    BY <1>1, <1>2
  <2> QED BY <2>1, <2>2 DEF CanRead
<1>4. ASSUME NEW r, CanRead(q, n, r) PROVE r \in Elements(Readable(q, n))
  <2>1. PICK i \in (n + 1)..Len(q) : q[i] = r /\ \A j \in (n + 1)..i : q[j] # Torn
    BY <1>4 DEF CanRead
  <2>2. i <= k
    BY <1>1, <1>2, <2>1
  <2>3. i - n \in 1..(k - n) /\ n + (i - n) = i
    BY <1>2, <2>1, <2>2
  <2>4. Readable(q, n)[i - n] = r
    BY <2>1, <2>3, <1>2
  <2> QED BY <1>2, <2>3, <2>4 DEF Elements
<1> QED BY <1>2, <1>3, <1>4

(* A file without an incomplete record is read to its end.                 *)
LEMMA ReadableWhole ==
  ASSUME NEW S, NEW q \in Seq(S), NEW n \in 0..Len(q), Torn \notin Elements(q)
  PROVE  Readable(q, n) = SubSeq(q, n + 1, Len(q))
<1>1. PICK k \in n..Len(q) :
            /\ Readable(q, n) = SubSeq(q, n + 1, k)
            /\ k = Len(q) \/ q[k + 1] = Torn
  BY ReadableFacts
<1>2. k # Len(q) => k + 1 \in 1..Len(q)
  OBVIOUS
<1> QED BY <1>1, <1>2 DEF Elements

(* Elements of sequences put together.                                     *)
LEMMA ElementsConcat ==
  ASSUME NEW S, NEW s \in Seq(S), NEW t \in Seq(S)
  PROVE  Elements(s \o t) = Elements(s) \cup Elements(t)
<1>1. /\ Len(s) \in Nat /\ Len(t) \in Nat /\ Len(s \o t) = Len(s) + Len(t)
      /\ \A i \in 1..Len(s) : (s \o t)[i] = s[i]
      /\ \A i \in 1..Len(t) : (s \o t)[Len(s) + i] = t[i]
  OBVIOUS
<1>2. ASSUME NEW x \in Elements(s \o t) PROVE x \in Elements(s) \cup Elements(t)
  <2>1. PICK i \in 1..Len(s \o t) : (s \o t)[i] = x
    BY DEF Elements
  <2>2. CASE i <= Len(s)
    BY <2>1, <2>2, <1>1 DEF Elements
  <2>3. CASE i > Len(s)
    <3>1. i - Len(s) \in 1..Len(t) /\ Len(s) + (i - Len(s)) = i
      BY <2>1, <2>3, <1>1
    <3>2. t[i - Len(s)] = x
      BY <3>1, <2>1, <1>1
    <3> QED BY <3>1, <3>2 DEF Elements
  <2> QED BY <2>2, <2>3, <1>1
<1>3. Elements(s) \subseteq Elements(s \o t)
  BY <1>1 DEF Elements
<1>4. ASSUME NEW i \in 1..Len(t) PROVE t[i] \in Elements(s \o t)
  <2>1. Len(s) + i \in 1..Len(s \o t)
    BY <1>1
  <2> QED BY <2>1, <1>1 DEF Elements
<1>5. Elements(t) \subseteq Elements(s \o t)
  BY <1>4 DEF Elements
<1> QED BY <1>2, <1>3, <1>5

(* ... taken apart.                                                        *)
LEMMA ElementsFacts ==
  ASSUME NEW S, NEW s \in Seq(S), NEW e \in S
  PROVE  /\ Elements(Append(s, e)) = Elements(s) \cup {e}
         /\ s # <<>> => Elements(s) = Elements(Tail(s)) \cup {Head(s)}
         /\ Elements(s) \subseteq S
<1>1. Elements(Append(s, e)) = Elements(s) \cup {e}
  BY DEF Elements
<1>2. ASSUME s # <<>> PROVE Elements(s) = Elements(Tail(s)) \cup {Head(s)}
  <2>1. /\ Len(s) \in Nat /\ Len(s) >= 1 /\ Head(s) = s[1]
        /\ Len(Tail(s)) = Len(s) - 1
        /\ \A i \in 1..Len(s) - 1 : Tail(s)[i] = s[i + 1]
    BY <1>2
  <2>2. ASSUME NEW i \in 1..Len(s) PROVE s[i] \in Elements(Tail(s)) \cup {Head(s)}
    <3>1. CASE i = 1
      BY <3>1, <2>1
    <3>2. CASE i # 1
      <4>1. i - 1 \in 1..Len(s) - 1 /\ (i - 1) + 1 = i
        BY <3>2, <2>1
      <4>2. Tail(s)[i - 1] = s[i]
        BY <4>1, <2>1
      <4> QED BY <4>1, <4>2, <2>1 DEF Elements
    <3> QED BY <3>1, <3>2
  <2>3. Elements(Tail(s)) \cup {Head(s)} \subseteq Elements(s)
    BY <2>1 DEF Elements
  <2> QED BY <2>2, <2>3 DEF Elements
<1>3. Elements(s) \subseteq S
  BY DEF Elements
<1> QED BY <1>1, <1>2, <1>3

(* The records the output has still to get, one by one, with the memory    *)
(* and the file as parameters.                                             *)
HeldOf(p, q, f, n) ==
  CASE p \in {"down", "saved", "truncated"} -> Readable(f, 0)
    [] p = "restore" -> q \o Readable(f, n)
    [] OTHER -> q

(* The records held are those in memory and those still to be read from    *)
(* the queue file.                                                         *)
LEMMA HeldElements ==
  ASSUME NEW p, NEW S, NEW q \in Seq(S), NEW f \in Seq(S), NEW n \in Nat,
         p = "restore" => n <= Len(f)
  PROVE  /\ HeldOf(p, q, f, n) \in Seq(S)
         /\ \A r : r \in Elements(HeldOf(p, q, f, n)) <=> StillHeld(p, q, f, n, r)
<1>1. /\ 0 \in 0..Len(f)
      /\ p = "restore" => n \in 0..Len(f)
  OBVIOUS
<1>2. CASE p \in {"down", "saved", "truncated"}
  BY <1>1, <1>2, ReadableElements DEF HeldOf, StillHeld
<1>3. CASE p = "restore"
  <2>1. /\ Readable(f, n) \in Seq(S)
        /\ \A r : r \in Elements(Readable(f, n)) <=> CanRead(f, n, r)
    BY <1>1, <1>3, ReadableElements
  <2>2. HeldOf(p, q, f, n) = q \o Readable(f, n)
    BY <1>3 DEF HeldOf
  <2>3. Elements(q \o Readable(f, n)) = Elements(q) \cup Elements(Readable(f, n))
    BY <2>1, ElementsConcat
  <2>4. q \o Readable(f, n) \in Seq(S)
    BY <2>1
  <2> QED BY <1>3, <2>1, <2>2, <2>3, <2>4 DEF StillHeld
<1>4. CASE p \notin {"down", "saved", "truncated", "restore"}
  BY <1>4 DEF HeldOf, StillHeld
<1> QED BY <1>2, <1>3, <1>4

(* Explained is MissingExplained.                                          *)
LEMMA ExplainedMeans ==
  ASSUME TypeOK, RestoredSoFar, Explained
  PROVE  MissingExplained
<1>1. Held = HeldOf(phase, queue, qfile, at)
  BY DEF Held, HeldOf
<1>2. /\ queue \in Seq(Whole \cup {Torn}) /\ qfile \in Seq(Whole \cup {Torn})
      /\ at \in Nat
      /\ phase = "restore" => at <= Len(qfile)
  BY DEF TypeOK, RestoredSoFar
<1>3. \A r : r \in Elements(Held) <=> StillHeld(phase, queue, qfile, at, r)
  BY <1>1, <1>2, HeldElements
<1> QED BY <1>3 DEF MissingExplained, Explained, Fates

(* Reading goes on record by record, and ends at one that was cut short.   *)
LEMMA CanReadFacts ==
  ASSUME NEW S, NEW q \in Seq(S), NEW n \in 0..Len(q), NEW r
  PROVE  /\ n < Len(q) /\ q[n + 1] = Torn => ~CanRead(q, n, r)
         /\ n < Len(q) /\ q[n + 1] # Torn =>
              (CanRead(q, n, r) <=> r = q[n + 1] \/ CanRead(q, n + 1, r))
         /\ ~CanRead(q, Len(q), r)
         /\ CanRead(q, n, r) => r # Torn /\ \E i \in (n + 1)..Len(q) : q[i] = r
<1>1. n < Len(q) /\ q[n + 1] = Torn => ~CanRead(q, n, r)
  BY DEF CanRead
<1>2. ~CanRead(q, Len(q), r)
  BY DEF CanRead
<1>3. CanRead(q, n, r) => r # Torn /\ \E i \in (n + 1)..Len(q) : q[i] = r
  BY DEF CanRead
<1>4. ASSUME n < Len(q), q[n + 1] # Torn, CanRead(q, n, r), r # q[n + 1]
      PROVE  CanRead(q, n + 1, r)
  BY <1>4 DEF CanRead
<1>5. ASSUME n < Len(q), q[n + 1] # Torn, CanRead(q, n + 1, r)
      PROVE  CanRead(q, n, r)
  <2>1. PICK i \in ((n + 1) + 1)..Len(q) : q[i] = r /\ \A j \in ((n + 1) + 1)..i : q[j] # Torn
    BY <1>5 DEF CanRead
  <2>2. i \in (n + 1)..Len(q) /\ \A j \in (n + 1)..i : j = n + 1 \/ j \in ((n + 1) + 1)..i
    BY <2>1
  <2> QED BY <1>5, <2>1, <2>2 DEF CanRead
<1>6. ASSUME n < Len(q), q[n + 1] # Torn, r = q[n + 1]
      PROVE  CanRead(q, n, r)
  <2>1. n + 1 \in (n + 1)..Len(q) /\ \A j \in (n + 1)..(n + 1) : j = n + 1
    BY <1>6
  <2> QED BY <1>6, <2>1 DEF CanRead
<1> QED BY <1>1, <1>2, <1>3, <1>4, <1>5, <1>6

(* What is left of a sequence after its first n elements.                  *)
LEMMA RestElements ==
  ASSUME NEW S, NEW q \in Seq(S), NEW n \in 0..Len(q)
  PROVE  /\ Elements(SubSeq(q, n + 1, Len(q))) \subseteq S
         /\ \A r : r \in Elements(SubSeq(q, n + 1, Len(q))) <=>
                     \E i \in (n + 1)..Len(q) : q[i] = r
<1> DEFINE t == SubSeq(q, n + 1, Len(q))
<1>1. /\ t \in Seq(S) /\ Len(t) = Len(q) - n /\ Len(q) \in Nat
      /\ \A i \in 1..Len(t) : t[i] = q[n + i]
  OBVIOUS
<1> HIDE DEF t
<1>2. ASSUME NEW i \in (n + 1)..Len(q) PROVE q[i] \in Elements(t)
  <2>1. i - n \in 1..Len(t) /\ n + (i - n) = i
    BY <1>1
  <2>2. t[i - n] = q[i]
    BY <2>1, <1>1
  <2> QED BY <2>1, <2>2 DEF Elements
<1>3. ASSUME NEW r \in Elements(t) PROVE \E i \in (n + 1)..Len(q) : q[i] = r
  <2>1. PICK j \in 1..Len(t) : t[j] = r
    BY DEF Elements
  <2>2. n + j \in (n + 1)..Len(q) /\ q[n + j] = r
    BY <2>1, <1>1
  <2> QED BY <2>2
<1>4. Elements(t) \subseteq S
  BY <1>1 DEF Elements
<1> QED BY <1>2, <1>3, <1>4 DEF t

(* A record that was cut short is not mistaken for a whole one.            *)
LEMMA WholeNotTorn == Torn \notin Whole
BY BoundsAssumption DEF Torn, Whole, Records, Mangled

-----------------------------------------------------------------------------
(* Before the first start there is nothing to explain.                     *)
LEMMA InitMissing == Init => MissingInv
BY BoundsAssumption DEF Init, MissingInv, TypeOK, DownIsEmpty, CacheBehind, RestoredSoFar,
   FileUsedUp, SavedSoFar, CrashExplained, Explained, GoesOnFrom, NoCache, Cache, Phases, Whole

(* The source grows.                                                       *)
LEMMA LogMissing ==
  ASSUME MissingInv, Log, UNCHANGED readfromlast
  PROVE  MissingInv'
<1> USE BoundsAssumption DEF Log, MissingInv, Phases, history
<1>1. TypeOK'
  BY DEF TypeOK
<1>2. DownIsEmpty' /\ CacheBehind'
  BY DEF TypeOK, DownIsEmpty, CacheBehind
<1>3. RestoredSoFar' /\ FileUsedUp'
  BY DEF TypeOK, RestoredSoFar, FileUsedUp, Elements
<1>4. SavedSoFar'
  BY DEF TypeOK, SavedSoFar, Elements
<1>5. CrashExplained'
  BY DEF TypeOK, CrashExplained, Fates, Elements
<1>6. Explained'
  BY DEF TypeOK, Explained, Fates, GoesOnFrom, StillHeld, Elements
<1> QED BY <1>1, <1>2, <1>3, <1>4, <1>5, <1>6

(* The lines that im_file begins behind are skipped.                       *)
LEMMA StartMissing ==
  ASSUME MissingInv, Start, UNCHANGED readfromlast
  PROVE  MissingInv'
<1> USE BoundsAssumption DEF Start, MissingInv, Phases
<1>0. /\ Beginning \in Nat /\ ccfile.position <= Beginning /\ Beginning <= lines
      /\ ccfile.position \in Nat /\ lines \in 0..MaxRecords
  BY DEF TypeOK, CacheBehind, Beginning
<1>1. TypeOK'
  <2>1. pos' \in 0..lines /\ (ccfile.position + 1)..Beginning \subseteq Records
    BY <1>0 DEF Records
  <2> QED BY <2>1 DEF TypeOK
<1>2. DownIsEmpty' /\ CacheBehind'
  BY <1>0 DEF DownIsEmpty, CacheBehind
<1>3. RestoredSoFar' /\ FileUsedUp'
  BY DEF TypeOK, RestoredSoFar, FileUsedUp
<1>4. SavedSoFar'
  BY DEF SavedSoFar
<1>5. CrashExplained'
  BY DEF CrashExplained, Fates
<1>6. Explained'
  <2> SUFFICES ASSUME NEW r \in 1..Beginning
               PROVE  (r \in Fates \/ StillHeld(phase, queue, qfile, at, r))'
    BY DEF Explained, GoesOnFrom
  <2>1. CASE r \in 1..ccfile.position
    BY <2>1 DEF Explained, GoesOnFrom, StillHeld, Fates
  <2>2. CASE r \in (ccfile.position + 1)..Beginning
    BY <2>2 DEF Fates
  <2> QED BY <2>1, <2>2, <1>0
<1> QED BY <1>1, <1>2, <1>3, <1>4, <1>5, <1>6

(* Without a position nothing has to be explained.                         *)
LEMMA StartFailsMissing ==
  ASSUME MissingInv, StartFails, UNCHANGED readfromlast
  PROVE  MissingInv'
<1> USE BoundsAssumption DEF StartFails, MissingInv, Phases, io, history
<1>1. TypeOK'
  BY DEF TypeOK, NoCache, Cache, Fault
<1>2. DownIsEmpty' /\ CacheBehind'
  BY DEF TypeOK, DownIsEmpty, CacheBehind, NoCache, Cache
<1>3. RestoredSoFar' /\ FileUsedUp'
  BY DEF TypeOK, RestoredSoFar, FileUsedUp, Elements
<1>4. SavedSoFar'
  BY DEF TypeOK, SavedSoFar, Elements
<1>5. CrashExplained'
  BY DEF TypeOK, CrashExplained, Fates, Elements, NoCache, Cache
<1>6. Explained'
  BY DEF TypeOK, Explained, Fates, GoesOnFrom, StillHeld, Elements, NoCache, Cache
<1> QED BY <1>1, <1>2, <1>3, <1>4, <1>5, <1>6

(* The record is in memory now.                                            *)
LEMMA RestoreRecordMissing ==
  ASSUME MissingInv, RestoreRecord, UNCHANGED readfromlast
  PROVE  MissingInv'
<1> USE BoundsAssumption DEF RestoreRecord, MissingInv, Phases, io
<1>0. /\ at \in 0..Len(qfile) /\ at < Len(qfile) /\ at + 1 \in 1..Len(qfile)
      /\ qfile \in Seq(Whole \cup {Torn}) /\ queue \in Seq(Whole)
      /\ qfile[at + 1] \in Whole
  BY DEF TypeOK, RestoredSoFar
<1>1. TypeOK'
  <2>1. queue' \in Seq(Whole) /\ restored' \subseteq Whole /\ at' \in Nat
    BY <1>0 DEF TypeOK
  <2> QED BY <2>1 DEF TypeOK
<1>2. DownIsEmpty' /\ CacheBehind'
  BY DEF TypeOK, DownIsEmpty, CacheBehind
<1>3. RestoredSoFar' /\ FileUsedUp'
  BY <1>0 DEF RestoredSoFar, FileUsedUp
<1>4. SavedSoFar'
  BY DEF SavedSoFar
<1>5. CrashExplained'
  BY DEF CrashExplained, Fates
<1>6. Explained'
  <2> SUFFICES ASSUME NEW r \in 1..pos
               PROVE  (r \in Fates \/ StillHeld(phase, queue, qfile, at, r))'
    BY DEF Explained, GoesOnFrom
  <2>1. CanRead(qfile, at, r) <=> r = qfile[at + 1] \/ CanRead(qfile, at + 1, r)
    BY <1>0, CanReadFacts
  <2>2. Elements(queue') = Elements(queue) \cup {qfile[at + 1]}
    BY <1>0, ElementsFacts
  <2>3. r \in Fates \/ StillHeld(phase, queue, qfile, at, r)
    BY DEF Explained, GoesOnFrom
  <2> QED BY <2>1, <2>2, <2>3 DEF StillHeld, Fates
<1> QED BY <1>1, <1>2, <1>3, <1>4, <1>5, <1>6

(* What follows a record that was cut short is spoiled.                    *)
LEMMA RestoreMangledMissing ==
  ASSUME MissingInv, RestoreMangled, UNCHANGED readfromlast
  PROVE  MissingInv'
<1> USE BoundsAssumption DEF RestoreMangled, MissingInv, Phases, io
<1>0. /\ at \in 0..Len(qfile) /\ at < Len(qfile) /\ Len(qfile) \in Nat
      /\ qfile \in Seq(Whole \cup {Torn}) /\ queue \in Seq(Whole)
  BY DEF TypeOK, RestoredSoFar
<1> DEFINE rest == Elements(SubSeq(qfile, at + 1, Len(qfile)))
<1>a. /\ rest \subseteq Whole \cup {Torn}
      /\ \A r : r \in rest <=> \E i \in (at + 1)..Len(qfile) : qfile[i] = r
  BY <1>0, RestElements
<1>b. spoiled' = spoiled \cup (rest \ {Torn})
  OBVIOUS
<1> HIDE DEF rest
<1>c. \A r : CanRead(qfile, at, r) => r \in spoiled'
  BY <1>0, <1>a, <1>b, CanReadFacts
<1>d. \A i \in 1..Len(qfile) : qfile[i] \in restored' \cup spoiled' \cup {Torn}
  BY <1>0, <1>a, <1>b DEF RestoredSoFar
<1>1. TypeOK'
  <2>1. PICK n \in 1..(Len(qfile) - at - 1) : queue' = queue \o [i \in 1..n |-> Mangled]
    OBVIOUS
  <2>2. n \in Nat /\ [i \in 1..n |-> Mangled] \in Seq(Whole)
    BY <1>0, <2>1 DEF Mangled, Whole, Records
  <2>3. queue' \in Seq(Whole)
    BY <1>0, <2>1, <2>2, ConcatProperties
  <2>4. spoiled' \subseteq Whole
    BY <1>a, <1>b DEF TypeOK
  <2> QED BY <1>0, <2>3, <2>4 DEF TypeOK
<1>2. DownIsEmpty' /\ CacheBehind'
  BY DEF TypeOK, DownIsEmpty, CacheBehind
<1>3. RestoredSoFar' /\ FileUsedUp'
  <2>1. Elements(qfile) \subseteq restored' \cup spoiled' \cup {Torn}
    BY <1>d DEF Elements
  <2> QED BY <1>0, <1>d, <2>1 DEF RestoredSoFar, FileUsedUp
<1>4. SavedSoFar'
  BY DEF SavedSoFar
<1>5. CrashExplained'
  <2> SUFFICES ASSUME NEW r \in 1..ccfile.position, phase' = "up", CanRead(qfile, 0, r)
               PROVE  r \in Fates'
    BY DEF CrashExplained, Fates
  <2>1. r # Torn /\ \E i \in 1..Len(qfile) : qfile[i] = r
    BY <1>0 DEF CanRead
  <2> QED BY <2>1, <1>d DEF Fates
<1>6. Explained'
  <2> SUFFICES ASSUME NEW r \in 1..pos
               PROVE  (r \in Fates \/ StillHeld(phase, queue, qfile, at, r))'
    BY DEF Explained, GoesOnFrom
  <2>1. r \in Fates \/ r \in Elements(queue) \/ CanRead(qfile, at, r)
    BY DEF Explained, GoesOnFrom, StillHeld
  <2>2. PICK n \in 1..(Len(qfile) - at - 1) : queue' = queue \o [i \in 1..n |-> Mangled]
    OBVIOUS
  <2>3. n \in Nat /\ [i \in 1..n |-> Mangled] \in Seq(Whole)
    BY <1>0, <2>2 DEF Mangled, Whole, Records
  <2> DEFINE m == [i \in 1..n |-> Mangled]
  <2>4. Elements(queue) \subseteq Elements(queue')
    <3>1. m \in Seq(Whole) /\ queue' = queue \o m
      BY <2>2, <2>3
    <3> HIDE DEF m
    <3>2. Elements(queue \o m) = Elements(queue) \cup Elements(m)
      BY <3>1, <1>0, ElementsConcat
    <3> QED BY <3>1, <3>2
  <2>5. r \in Fates => r \in Fates'
    BY DEF Fates
  <2> QED BY <2>1, <2>4, <2>5, <1>c DEF StillHeld, Fates
<1> QED BY <1>1, <1>2, <1>3, <1>4, <1>5, <1>6

(* What has not been read is spoiled.                                      *)
LEMMA RestoreThrowsMissing ==
  ASSUME MissingInv, RestoreThrows, UNCHANGED readfromlast
  PROVE  MissingInv'
<1> USE BoundsAssumption DEF RestoreThrows, MissingInv, Phases, io
<1>0. /\ at \in 0..Len(qfile) /\ at < Len(qfile) /\ Len(qfile) \in Nat
      /\ qfile \in Seq(Whole \cup {Torn}) /\ queue \in Seq(Whole)
  BY DEF TypeOK, RestoredSoFar
<1> DEFINE rest == Elements(SubSeq(qfile, at + 1, Len(qfile)))
<1>a. /\ rest \subseteq Whole \cup {Torn}
      /\ \A r : r \in rest <=> \E i \in (at + 1)..Len(qfile) : qfile[i] = r
  BY <1>0, RestElements
<1>b. spoiled' = spoiled \cup (rest \ {Torn})
  OBVIOUS
<1> HIDE DEF rest
<1>c. \A r : CanRead(qfile, at, r) => r \in spoiled'
  BY <1>0, <1>a, <1>b, CanReadFacts
<1>d. \A i \in 1..Len(qfile) : qfile[i] \in restored' \cup spoiled' \cup {Torn}
  BY <1>0, <1>a, <1>b DEF RestoredSoFar
<1>1. TypeOK'
  <2>1. spoiled' \subseteq Whole
    BY <1>a, <1>b DEF TypeOK
  <2> QED BY <2>1 DEF TypeOK, Fault
<1>2. DownIsEmpty' /\ CacheBehind'
  BY DEF TypeOK, DownIsEmpty, CacheBehind
<1>3. RestoredSoFar' /\ FileUsedUp'
  <2>1. Elements(qfile) \subseteq restored' \cup spoiled' \cup {Torn}
    BY <1>d DEF Elements
  <2> QED BY <1>0, <1>d, <2>1 DEF RestoredSoFar, FileUsedUp
<1>4. SavedSoFar'
  BY DEF SavedSoFar
<1>5. CrashExplained'
  <2> SUFFICES ASSUME NEW r \in 1..ccfile.position, CanRead(qfile, 0, r)
               PROVE  r \in Fates'
    BY DEF CrashExplained, Fates
  <2>1. r # Torn /\ \E i \in 1..Len(qfile) : qfile[i] = r
    BY <1>0 DEF CanRead
  <2> QED BY <2>1, <1>d DEF Fates
<1>6. Explained'
  BY <1>c DEF Explained, GoesOnFrom, StillHeld, Fates
<1> QED BY <1>1, <1>2, <1>3, <1>4, <1>5, <1>6

(* The file is removed when all of it is in memory.                        *)
LEMMA RestoreEndMissing ==
  ASSUME MissingInv, RestoreEnd, UNCHANGED readfromlast
  PROVE  MissingInv'
<1> USE BoundsAssumption DEF RestoreEnd, MissingInv, Phases, io, history
<1>0. /\ at = Len(qfile) /\ qfile \in Seq(Whole \cup {Torn}) /\ Len(qfile) \in 0..Len(qfile)
      /\ \A i \in 1..Len(qfile) : qfile[i] \in restored \cup spoiled \cup {Torn}
  BY DEF TypeOK, RestoredSoFar
<1>1. TypeOK'
  <2>1. qfile' \in Seq(Whole \cup {Torn})
    <3>1. qfile' = qfile \/ qfile' = <<>>
      OBVIOUS
    <3>2. qfile \in Seq(Whole \cup {Torn}) /\ <<>> \in Seq(Whole \cup {Torn})
      BY DEF TypeOK
    <3> QED BY <3>1, <3>2, Zenon
  <2>2. faults' \in 0..MaxFaults
    BY DEF TypeOK, Fault
  <2> QED BY <2>1, <2>2 DEF TypeOK
<1>2. DownIsEmpty' /\ CacheBehind'
  BY DEF TypeOK, DownIsEmpty, CacheBehind
<1>3. RestoredSoFar' /\ FileUsedUp'
  BY <1>0 DEF RestoredSoFar, FileUsedUp, Elements
<1>4. SavedSoFar'
  BY DEF SavedSoFar
<1>5. CrashExplained'
  <2> SUFFICES ASSUME NEW r \in 1..ccfile.position, CanRead(qfile, 0, r)
               PROVE  r \in Fates'
    BY DEF CrashExplained, Fates
  <2>1. r # Torn /\ \E i \in 1..Len(qfile) : qfile[i] = r
    BY <1>0 DEF CanRead
  <2> QED BY <2>1, <1>0 DEF Fates
<1>6. Explained'
  <2>1. \A r : ~CanRead(qfile, at, r)
    BY <1>0, CanReadFacts
  <2> QED BY <2>1 DEF Explained, GoesOnFrom, StillHeld, Fates
<1> QED BY <1>1, <1>2, <1>3, <1>4, <1>5, <1>6

(* The line is in memory.                                                  *)
LEMMA ReadMissing ==
  ASSUME MissingInv, Read, UNCHANGED readfromlast
  PROVE  MissingInv'
<1> USE BoundsAssumption DEF Read, MissingInv, Phases, history
<1>0. pos + 1 \in Records
  BY DEF TypeOK, Records
<1>1. TypeOK'
  <2>1. queue' \in Seq(Whole)
    BY <1>0 DEF TypeOK, Whole
  <2>2. pos' \in 0..lines'
    BY DEF TypeOK
  <2> QED BY <2>1, <2>2 DEF TypeOK
<1>2. DownIsEmpty' /\ CacheBehind'
  BY DEF TypeOK, DownIsEmpty, CacheBehind
<1>3. RestoredSoFar' /\ FileUsedUp'
  BY DEF TypeOK, RestoredSoFar, FileUsedUp, Elements
<1>4. SavedSoFar'
  BY DEF TypeOK, SavedSoFar, Elements
<1>5. CrashExplained'
  BY DEF TypeOK, CrashExplained, Fates, Elements
<1>6. Explained'
  BY SMTT(40) DEF TypeOK, Explained, Fates, GoesOnFrom, StillHeld, Elements
<1> QED BY <1>1, <1>2, <1>3, <1>4, <1>5, <1>6

(* From the queue to the output.                                           *)
LEMMA WriteMissing ==
  ASSUME MissingInv, Write, UNCHANGED readfromlast
  PROVE  MissingInv'
<1> USE BoundsAssumption DEF Write, MissingInv, Phases, history
<1>1. TypeOK'
  BY DEF TypeOK
<1>2. DownIsEmpty' /\ CacheBehind'
  BY DEF TypeOK, DownIsEmpty, CacheBehind
<1>3. RestoredSoFar' /\ FileUsedUp'
  BY DEF TypeOK, RestoredSoFar, FileUsedUp, Elements
<1>4. SavedSoFar'
  BY DEF TypeOK, SavedSoFar, Elements
<1>0. /\ queue \in Seq(Whole) /\ out \in Seq(Whole) /\ Head(queue) \in Whole
  BY DEF TypeOK
<1>a. /\ Elements(out') = Elements(out) \cup {Head(queue)}
      /\ Elements(queue) = Elements(queue') \cup {Head(queue)}
  BY <1>0, ElementsFacts
<1>5. CrashExplained'
  BY <1>a DEF CrashExplained, Fates
<1>6. Explained'
  BY <1>a DEF Explained, GoesOnFrom, StillHeld, Fates
<1> QED BY <1>1, <1>2, <1>3, <1>4, <1>5, <1>6

(* The queue file may be truncated: it holds nothing of its own.           *)
LEMMA StopMissing ==
  ASSUME MissingInv, Stop, UNCHANGED readfromlast
  PROVE  MissingInv'
<1> USE BoundsAssumption DEF Stop, MissingInv, Phases
<1>1. TypeOK'
  <2>1. qfile' \in Seq(Whole \cup {Torn})
    <3>1. qfile' = qfile \/ qfile' = <<>>
      OBVIOUS
    <3>2. qfile \in Seq(Whole \cup {Torn}) /\ <<>> \in Seq(Whole \cup {Torn})
      BY DEF TypeOK
    <3> QED BY <3>1, <3>2, Zenon
  <2>2. faults' \in 0..MaxFaults /\ runs' \in 0..MaxRuns /\ at' \in Nat
    BY DEF TypeOK, Fault
  <2>3. spoiled' \subseteq Whole
    <3>1. Elements(queue) \subseteq Whole
      BY DEF TypeOK, Elements
    <3> QED BY <3>1 DEF TypeOK
  <2> QED BY <2>1, <2>2, <2>3 DEF TypeOK
<1>2. DownIsEmpty' /\ CacheBehind'
  BY DEF TypeOK, DownIsEmpty, CacheBehind
<1>3. RestoredSoFar' /\ FileUsedUp'
  BY DEF TypeOK, RestoredSoFar, FileUsedUp, Elements
<1>4. SavedSoFar'
  BY DEF TypeOK, SavedSoFar, Elements
<1>5. CrashExplained'
  BY DEF TypeOK, CrashExplained, Fates, Elements
<1>6. Explained'
  BY DEF TypeOK, Explained, Fates, GoesOnFrom, StillHeld, Elements
<1> QED BY <1>1, <1>2, <1>3, <1>4, <1>5, <1>6

(* The record can be read back, unless one before it was cut short.        *)
LEMMA SaveRecordMissing ==
  ASSUME MissingInv, SaveRecord, UNCHANGED readfromlast
  PROVE  MissingInv'
<1> USE BoundsAssumption DEF SaveRecord, MissingInv, Phases, io, history
<1>0. /\ at \in Nat /\ at < Len(queue) /\ Len(qfile) = at /\ at' = at + 1
      /\ queue \in Seq(Whole) /\ qfile \in Seq(Whole \cup {Torn})
      /\ queue[at + 1] \in Whole
  BY DEF TypeOK, SavedSoFar
<1>b. /\ Len(qfile') = at + 1 /\ qfile'[at + 1] = queue[at + 1]
      /\ \A i \in 1..at : qfile'[i] = qfile[i]
  BY <1>0
<1>1. TypeOK'
  <2>1. qfile' \in Seq(Whole \cup {Torn})
    BY <1>0
  <2> QED BY <2>1, <1>0 DEF TypeOK
<1>2. DownIsEmpty' /\ CacheBehind'
  BY DEF TypeOK, DownIsEmpty, CacheBehind
<1>3. RestoredSoFar' /\ FileUsedUp'
  BY DEF TypeOK, RestoredSoFar, FileUsedUp, Elements
<1>4. SavedSoFar'
  <2> SUFFICES ASSUME NEW i \in 1..Len(queue), NEW j \in 1..(at + 1), j <= i,
                      queue[i] \notin spoiled
               PROVE  qfile'[j] = queue[j]
    BY <1>0, <1>b DEF SavedSoFar
  <2>1. CASE j \in 1..at
    BY <2>1, <1>b DEF SavedSoFar
  <2>2. CASE j = at + 1
    BY <2>2, <1>b
  <2> QED BY <2>1, <2>2, <1>0
<1>5. CrashExplained'
  BY DEF TypeOK, CrashExplained, Fates, Elements
<1>6. Explained'
  BY DEF TypeOK, Explained, Fates, GoesOnFrom, StillHeld, Elements
<1> QED BY <1>1, <1>2, <1>3, <1>4, <1>5, <1>6

(* A record is cut short; it and all that follow it are spoiled.           *)
LEMMA SaveShortMissing ==
  ASSUME MissingInv, SaveShort, UNCHANGED readfromlast
  PROVE  MissingInv'
<1> USE BoundsAssumption DEF SaveShort, MissingInv, Phases, io
<1>0. /\ at \in Nat /\ at < Len(queue) /\ at \in 0..Len(queue) /\ Len(qfile) = at
      /\ queue \in Seq(Whole) /\ qfile \in Seq(Whole \cup {Torn})
  BY DEF TypeOK, SavedSoFar
<1> DEFINE rest == Elements(SubSeq(queue, at + 1, Len(queue)))
<1>a. /\ rest \subseteq Whole
      /\ \A r : r \in rest <=> \E i \in (at + 1)..Len(queue) : queue[i] = r
  BY <1>0, RestElements
<1>b. spoiled' = spoiled \cup rest
  OBVIOUS
<1> HIDE DEF rest
<1>c. /\ Len(qfile') = at + 1 /\ \A i \in 1..at : qfile'[i] = qfile[i]
  BY <1>0
<1>1. TypeOK'
  <2>1. qfile' \in Seq(Whole \cup {Torn})
    BY <1>0
  <2>2. spoiled' \subseteq Whole
    BY <1>a, <1>b DEF TypeOK
  <2>3. faults' \in 0..MaxFaults
    BY DEF TypeOK, Fault
  <2> QED BY <2>1, <2>2, <2>3, <1>0 DEF TypeOK
<1>2. DownIsEmpty' /\ CacheBehind'
  BY DEF TypeOK, DownIsEmpty, CacheBehind
<1>3. RestoredSoFar' /\ FileUsedUp'
  BY DEF TypeOK, RestoredSoFar, FileUsedUp, Elements
<1>4. SavedSoFar'
  <2> SUFFICES ASSUME NEW i \in 1..Len(queue), NEW j \in 1..(at + 1), j <= i,
                      queue[i] \notin spoiled'
               PROVE  qfile'[j] = queue[j]
    BY <1>0, <1>c DEF SavedSoFar
  <2>1. i \notin (at + 1)..Len(queue)
    BY <1>a, <1>b
  <2>2. j \in 1..at /\ queue[i] \notin spoiled
    BY <2>1, <1>0, <1>b
  <2> QED BY <2>2, <1>c DEF SavedSoFar
<1>5. CrashExplained'
  BY DEF CrashExplained, Fates
<1>6. Explained'
  BY DEF Explained, GoesOnFrom, StillHeld, Fates
<1> QED BY <1>1, <1>2, <1>3, <1>4, <1>5, <1>6

(* What has not been written is spoiled; the rest can be read back.        *)
LEMMA SaveThrowsMissing ==
  ASSUME MissingInv, SaveThrows, UNCHANGED readfromlast
  PROVE  MissingInv'
<1> USE BoundsAssumption DEF SaveThrows, MissingInv, Phases, io
<1>0. /\ at \in Nat /\ at < Len(queue) /\ at \in 0..Len(queue) /\ Len(qfile) = at
      /\ queue \in Seq(Whole) /\ qfile \in Seq(Whole \cup {Torn})
  BY DEF TypeOK, SavedSoFar
<1> DEFINE rest == Elements(SubSeq(queue, at + 1, Len(queue)))
<1>a. /\ rest \subseteq Whole
      /\ \A r : r \in rest <=> \E i \in (at + 1)..Len(queue) : queue[i] = r
  BY <1>0, RestElements
<1>b. spoiled' = spoiled \cup rest
  OBVIOUS
<1> HIDE DEF rest
<1>1. TypeOK'
  <2>1. spoiled' \subseteq Whole
    BY <1>a, <1>b DEF TypeOK
  <2>2. faults' \in 0..MaxFaults
    BY DEF TypeOK, Fault
  <2> QED BY <2>1, <2>2 DEF TypeOK
<1>2. DownIsEmpty' /\ CacheBehind'
  BY DEF TypeOK, DownIsEmpty, CacheBehind
<1>3. RestoredSoFar' /\ FileUsedUp'
  BY DEF TypeOK, RestoredSoFar, FileUsedUp, Elements
<1>4. SavedSoFar'
  BY DEF TypeOK, SavedSoFar, Elements
<1>5. CrashExplained'
  BY DEF CrashExplained, Fates
<1>6. Explained'
  <2> SUFFICES ASSUME NEW i \in 1..Len(queue), queue[i] \notin spoiled'
               PROVE  CanRead(qfile', 0, queue[i])
    BY DEF Explained, GoesOnFrom, StillHeld, Fates, Elements
  <2>1. i \in 1..at
    BY <1>0, <1>a, <1>b
  <2>2. \A j \in 1..i : j \in 1..at /\ j <= i /\ queue[j] \in Whole
    BY <2>1, <1>0
  <2>3. \A j \in 1..i : qfile[j] = queue[j] /\ qfile[j] # Torn
    BY <2>1, <2>2, <1>b, WholeNotTorn DEF SavedSoFar
  <2>4. i \in (0 + 1)..Len(qfile) /\ (0 + 1)..i = 1..i
    BY <2>1, <1>0
  <2> QED BY <2>3, <2>4 DEF CanRead
<1> QED BY <1>1, <1>2, <1>3, <1>4, <1>5, <1>6

(* All was written, and can be read back up to what is spoiled.            *)
LEMMA SaveEndMissing ==
  ASSUME MissingInv, SaveEnd, UNCHANGED readfromlast
  PROVE  MissingInv'
<1> USE BoundsAssumption DEF SaveEnd, MissingInv, Phases, io, history
<1>0. /\ at \in Nat /\ at = Len(queue) /\ Len(qfile) = at
      /\ queue \in Seq(Whole) /\ qfile \in Seq(Whole \cup {Torn})
  BY DEF TypeOK, SavedSoFar
<1>1. TypeOK'
  BY DEF TypeOK
<1>2. DownIsEmpty' /\ CacheBehind'
  BY DEF TypeOK, DownIsEmpty, CacheBehind
<1>3. RestoredSoFar' /\ FileUsedUp'
  BY DEF TypeOK, RestoredSoFar, FileUsedUp, Elements
<1>4. SavedSoFar'
  BY DEF TypeOK, SavedSoFar, Elements
<1>5. CrashExplained'
  BY DEF TypeOK, CrashExplained, Fates, Elements
<1>6. Explained'
  <2> SUFFICES ASSUME NEW i \in 1..Len(queue), queue[i] \notin spoiled'
               PROVE  CanRead(qfile', 0, queue[i])
    BY DEF Explained, GoesOnFrom, StillHeld, Fates, Elements
  <2>1. i \in 1..at
    BY <1>0
  <2>2. \A j \in 1..i : j \in 1..at /\ j <= i /\ queue[j] \in Whole
    BY <2>1, <1>0
  <2>3. \A j \in 1..i : qfile[j] = queue[j] /\ qfile[j] # Torn
    BY <2>1, <2>2, WholeNotTorn DEF SavedSoFar
  <2>4. i \in (0 + 1)..Len(qfile) /\ (0 + 1)..i = 1..i
    BY <2>1, <1>0
  <2> QED BY <2>3, <2>4 DEF CanRead
<1> QED BY <1>1, <1>2, <1>3, <1>4, <1>5, <1>6

(* The positions are removed from the cache file.                          *)
LEMMA TruncateCacheMissing ==
  ASSUME MissingInv, TruncateCache, UNCHANGED readfromlast
  PROVE  MissingInv'
<1> USE BoundsAssumption DEF TruncateCache, MissingInv, Phases, io, history
<1>1. TypeOK'
  BY DEF TypeOK, NoCache, Cache
<1>2. DownIsEmpty' /\ CacheBehind'
  BY DEF TypeOK, DownIsEmpty, CacheBehind, NoCache, Cache
<1>3. RestoredSoFar' /\ FileUsedUp'
  BY DEF TypeOK, RestoredSoFar, FileUsedUp, Elements
<1>4. SavedSoFar'
  BY DEF TypeOK, SavedSoFar, Elements
<1>5. CrashExplained'
  BY DEF TypeOK, CrashExplained, Fates, Elements, NoCache, Cache
<1>6. Explained'
  BY DEF TypeOK, Explained, Fates, GoesOnFrom, StillHeld, Elements
<1> QED BY <1>1, <1>2, <1>3, <1>4, <1>5, <1>6

(* The old position stays, which the input has passed.                     *)
LEMMA CacheUnwrittenMissing ==
  ASSUME MissingInv, CacheUnwritten, UNCHANGED readfromlast
  PROVE  MissingInv'
<1> USE BoundsAssumption DEF CacheUnwritten, MissingInv, Phases, io, history
<1>1. TypeOK'
  BY DEF TypeOK, Fault
<1>2. DownIsEmpty' /\ CacheBehind'
  BY DEF TypeOK, DownIsEmpty, CacheBehind
<1>3. RestoredSoFar' /\ FileUsedUp'
  BY DEF TypeOK, RestoredSoFar, FileUsedUp, Elements
<1>4. SavedSoFar'
  BY DEF TypeOK, SavedSoFar, Elements
<1>0. ccfile.position \in Nat /\ pos \in Nat /\ ccfile.position <= pos
  BY DEF TypeOK, CacheBehind
<1>5. CrashExplained'
  BY DEF CrashExplained, Fates
<1>6. Explained'
  BY <1>0 DEF Explained, GoesOnFrom, StillHeld, Fates
<1> QED BY <1>1, <1>2, <1>3, <1>4, <1>5, <1>6

(* The file has the position after which the queue file is of use.         *)
LEMMA WriteCacheMissing ==
  ASSUME MissingInv, WriteCache, UNCHANGED readfromlast
  PROVE  MissingInv'
<1> USE BoundsAssumption DEF WriteCache, MissingInv, Phases, io, history
<1>1. TypeOK'
  BY DEF TypeOK, Cache
<1>2. DownIsEmpty' /\ CacheBehind'
  BY DEF TypeOK, DownIsEmpty, CacheBehind, Cache
<1>3. RestoredSoFar' /\ FileUsedUp'
  BY DEF TypeOK, RestoredSoFar, FileUsedUp, Elements
<1>4. SavedSoFar'
  BY DEF TypeOK, SavedSoFar, Elements
<1>5. CrashExplained'
  BY DEF Explained, GoesOnFrom, StillHeld, CrashExplained, Fates, Cache
<1>6. Explained'
  BY DEF Explained, GoesOnFrom, StillHeld, Fates, Cache
<1> QED BY <1>1, <1>2, <1>3, <1>4, <1>5, <1>6

(* Whatever was in memory is lost; CrashExplained is what remains.         *)
LEMMA CrashMissing ==
  ASSUME MissingInv, Crash, UNCHANGED readfromlast
  PROVE  MissingInv'
<1> USE BoundsAssumption DEF Crash, MissingInv, Phases, io, history
<1>0. qfile \in Seq(Whole \cup {Torn}) /\ Len(qfile) \in Nat
  BY DEF TypeOK
<1>1. TypeOK'
  <2>1. qfile' \in Seq(Whole \cup {Torn})
    BY <1>0
  <2>2. ccfile' \in [good : BOOLEAN, position : 0..MaxRecords]
    <3>1. ccfile' = ccfile \/ ccfile' = TornCache
      OBVIOUS
    <3>2. /\ ccfile \in [good : BOOLEAN, position : 0..MaxRecords]
          /\ TornCache \in [good : BOOLEAN, position : 0..MaxRecords]
      BY DEF TypeOK, TornCache
    <3> QED BY <3>1, <3>2, Zenon
  <2>3. queue' \in Seq(Whole) /\ faults' \in 0..MaxFaults
    BY DEF TypeOK, Fault
  <2> QED BY <2>1, <2>2, <2>3 DEF TypeOK
<1>2. DownIsEmpty' /\ CacheBehind'
  BY DEF TypeOK, DownIsEmpty, CacheBehind, TornCache
<1>3. RestoredSoFar' /\ FileUsedUp'
  BY DEF TypeOK, RestoredSoFar, FileUsedUp, Elements
<1>4. SavedSoFar'
  BY DEF TypeOK, SavedSoFar, Elements
<1>a. ccfile' = ccfile \/ ccfile'.position = 0
  BY DEF TornCache
<1>b. ASSUME NEW r, CanRead(qfile, 0, r), phase \notin {"up", "save"} PROVE CanRead(qfile', 0, r)
  BY <1>b
<1>5. CrashExplained'
  BY <1>a, <1>b DEF CrashExplained, Fates
<1>6. Explained'
  BY <1>5 DEF CrashExplained, Explained, GoesOnFrom, StillHeld, Fates
<1> QED BY <1>1, <1>2, <1>3, <1>4, <1>5, <1>6

(* The invariant is inductive.                                             *)
LEMMA NextMissing == MissingInv /\ [Next]_vars => MissingInv'
<1> SUFFICES ASSUME MissingInv, [Next]_vars PROVE MissingInv'
  OBVIOUS
<1>1. CASE UNCHANGED vars
  BY <1>1 DEF vars, state, history, MissingInv, TypeOK, DownIsEmpty, CacheBehind,
     RestoredSoFar, FileUsedUp, SavedSoFar, CrashExplained, Explained, GoesOnFrom, Fates
<1>2. CASE Next
  BY <1>2, LogMissing, StartMissing, StartFailsMissing, RestoreRecordMissing,
     RestoreMangledMissing, RestoreThrowsMissing, RestoreEndMissing, ReadMissing,
     WriteMissing, StopMissing, SaveRecordMissing, SaveShortMissing, SaveThrowsMissing,
     SaveEndMissing, TruncateCacheMissing, CacheUnwrittenMissing, WriteCacheMissing,
     CrashMissing DEF Next, Restore, Shutdown
<1> QED BY <1>1, <1>2

(* However often the program is started, stopped or crashes, and whatever  *)
(* fails while its files are written and read: every variable keeps its    *)
(* type, and in particular an incomplete record never gets from a queue    *)
(* file into the queue (logqueue.c:225-345).                               *)
THEOREM TypeCorrect == Spec => []TypeOK
<1>1. MissingInv => TypeOK
  BY DEF MissingInv
<1> QED BY InitMissing, NextMissing, <1>1, PTL DEF Spec

(* ... and a line that is neither written nor waiting was restored before, *)
(* spoiled by an I/O error or skipped at the start (nxlog.c, logqueue.c,   *)
(* config_cache.c).                                                        *)
THEOREM NothingMissing == Spec => []MissingExplained
<1>1. MissingInv => MissingExplained
  BY ExplainedMeans DEF MissingInv
<1> QED BY InitMissing, NextMissing, <1>1, PTL DEF Spec

-----------------------------------------------------------------------------
(* Moving the first element from one sequence to the end of another.       *)
LEMMA MoveFirst ==
  ASSUME NEW S, NEW s \in Seq(S), NEW t \in Seq(S), NEW n \in 0..Len(t), n < Len(t)
  PROVE  Append(s, t[n + 1]) \o SubSeq(t, (n + 1) + 1, Len(t)) = s \o SubSeq(t, n + 1, Len(t))
<1> DEFINE x == t[n + 1]
           u == SubSeq(t, (n + 1) + 1, Len(t))
<1>1. n + 1 \in 1..Len(t) /\ Len(t) \in (n + 1)..Len(t) /\ x \in S /\ u \in Seq(S)
  OBVIOUS
<1>2. SubSeq(t, n + 1, Len(t)) = <<x>> \o u
  BY <1>1, SubSeqRecursiveFirst
<1>3. Append(s, x) = s \o <<x>> /\ <<x>> \in Seq(S)
  BY <1>1, AppendIsConcat
<1> HIDE DEF x, u
<1>4. (s \o <<x>>) \o u = s \o (<<x>> \o u)
  BY <1>1, <1>3, ConcatAssociative, SMTT(40)
<1> QED BY <1>2, <1>3, <1>4 DEF x, u

(* A new element comes behind all others.                                  *)
LEMMA AppendBehind ==
  ASSUME NEW S, NEW s \in Seq(S), NEW t \in Seq(S), NEW e \in S
  PROVE  s \o Append(t, e) = Append(s \o t, e)
<1>1. Append(t, e) = t \o <<e>> /\ <<e>> \in Seq(S) /\ s \o t \in Seq(S)
  BY AppendIsConcat, ConcatProperties
<1>2. Append(s \o t, e) = (s \o t) \o <<e>>
  BY <1>1, AppendIsConcat
<1>3. (s \o t) \o <<e>> = s \o (t \o <<e>>)
  BY <1>1, ConcatAssociative
<1> QED BY <1>1, <1>2, <1>3

(* A greater element at the end.                                           *)
LEMMA IncreasingAppend ==
  ASSUME NEW s \in Seq(Nat), NEW e \in Nat, Increasing(s), \A x \in Elements(s) : x < e
  PROVE  Increasing(Append(s, e))
<1> SUFFICES ASSUME NEW i \in 1..(Len(s) + 1), NEW j \in 1..(Len(s) + 1), i < j
             PROVE  Append(s, e)[i] < Append(s, e)[j]
  BY DEF Increasing
<1>1. i \in 1..Len(s) /\ Append(s, e)[i] = s[i] /\ s[i] \in Elements(s)
  BY DEF Elements
<1>2. CASE j \in 1..Len(s)
  BY <1>1, <1>2 DEF Increasing
<1>3. CASE j = Len(s) + 1
  BY <1>1, <1>3
<1> QED BY <1>2, <1>3

(* Under FaultFree, InOrder is ExactlyOnce.                                *)
LEMMA InOrderMeans ==
  ASSUME OnceInv
  PROVE  ExactlyOnce
<1> SUFFICES ASSUME faults = 0 PROVE Held = AllHeld
  BY DEF OnceInv, InOrder, ExactlyOnce
<1>1. /\ qfile \in Seq(Whole \cup {Torn}) /\ Torn \notin Elements(qfile)
      /\ 0 \in 0..Len(qfile) /\ at \in Nat
      /\ phase = "restore" => at \in 0..Len(qfile)
  BY DEF OnceInv, MissingInv, FaultFree, TypeOK, RestoredSoFar
<1>2. Readable(qfile, 0) = qfile
  <2>1. Readable(qfile, 0) = SubSeq(qfile, 0 + 1, Len(qfile))
    BY <1>1, ReadableWhole
  <2>2. SubSeq(qfile, 0 + 1, Len(qfile)) = qfile
    BY <1>1
  <2> QED BY <2>1, <2>2
<1>3. phase = "restore" => Readable(qfile, at) = SubSeq(qfile, at + 1, Len(qfile))
  BY <1>1, ReadableWhole
<1> QED BY <1>2, <1>3 DEF Held, AllHeld

(* The first start finds no files.                                         *)
LEMMA InitOnce == Init => OnceInv
<1> SUFFICES ASSUME Init PROVE OnceInv
  OBVIOUS
<1>1. FaultFree
  BY DEF Init, FaultFree, NoCache, Cache, Elements, GoesOnFrom
<1>2. InOrder
  BY DEF Init, InOrder, AllHeld, NoCache, Cache, Elements, GoesOnFrom, Increasing
<1> QED BY <1>1, <1>2, InitMissing DEF OnceInv

(* A step without a fault either reads a line, which comes behind all      *)
(* others, or moves what is under way from one place to the next.          *)
LEMMA NextOnce == OnceInv /\ [Next]_vars => OnceInv'
<1> SUFFICES ASSUME OnceInv, [Next]_vars PROVE OnceInv'
  OBVIOUS
<1>1. MissingInv'
  BY NextMissing DEF OnceInv
<1> SUFFICES ASSUME faults' = 0 PROVE FaultFree' /\ InOrder'
  BY <1>1 DEF OnceInv, FaultFree, InOrder
<1>2. faults = 0 /\ ~Fault
  <2>1. faults \in Nat
    BY DEF OnceInv, MissingInv, TypeOK
  <2>2. ~Fault
    BY <2>1 DEF Fault
  <2>3. faults' = faults
    BY <2>2 DEF Next, Log, Start, StartFails, Restore, RestoreRecord, RestoreMangled,
       RestoreThrows, RestoreEnd, Read, Write, Stop, Shutdown, SaveRecord, SaveShort,
       SaveThrows, SaveEnd, TruncateCache, CacheUnwritten, WriteCache, Crash, vars, state, io
  <2> QED BY <2>2, <2>3
<1>3. /\ TypeOK /\ TypeOK'
      /\ ccfile.good /\ Torn \notin Elements(qfile)
      /\ phase = "up" => qfile = <<>>
      /\ phase = "save" => \A i \in 1..at : qfile[i] = queue[i]
      /\ skipped \subseteq 1..GoesOnFrom
      /\ Increasing(out \o AllHeld)
      /\ Elements(out \o AllHeld) = (1..GoesOnFrom) \ skipped
  BY <1>1, <1>2 DEF OnceInv, MissingInv, FaultFree, InOrder
<1> SUFFICES /\ ccfile'.good /\ Torn \notin Elements(qfile')
             /\ phase' = "up" => qfile' = <<>>
             /\ phase' = "save" => \A i \in 1..at' : qfile'[i] = queue'[i]
             /\ skipped' \subseteq 1..GoesOnFrom'
             /\ Increasing(out' \o AllHeld')
             /\ Elements(out' \o AllHeld') = (1..GoesOnFrom') \ skipped'
  BY DEF FaultFree, InOrder
<1> USE <1>2, <1>3, BoundsAssumption
<1>4. CASE Log
  BY <1>4 DEF Log, AllHeld, GoesOnFrom, history
<1>5. CASE Start
  <2>1. queue = <<>> /\ qfile \in Seq(Whole \cup {Torn})
    BY <1>5 DEF Start, TypeOK, OnceInv, MissingInv, DownIsEmpty
  <2>2. <<>> \o SubSeq(qfile, 0 + 1, Len(qfile)) = qfile
    BY <2>1
  <2>3. AllHeld' = AllHeld
    BY <1>5, <2>1, <2>2 DEF Start, AllHeld
  <2>4. /\ GoesOnFrom = ccfile.position /\ GoesOnFrom' = Beginning
        /\ ccfile.position \in Nat /\ Beginning \in Nat /\ ccfile.position <= Beginning
    BY <1>5 DEF Start, GoesOnFrom, Beginning, OnceInv, MissingInv, TypeOK, CacheBehind
  <2> DEFINE p == ccfile.position
             b == Beginning
  <2>5. /\ p \in Nat /\ b \in Nat /\ p <= b /\ GoesOnFrom = p /\ GoesOnFrom' = b
        /\ skipped \subseteq 1..p /\ skipped' = skipped \cup ((p + 1)..b)
    BY <1>5, <2>4 DEF Start
  <2> HIDE DEF p, b
  <2>6. skipped' \subseteq 1..GoesOnFrom'
    BY <2>5
  <2>7. ASSUME NEW r \in Nat
        PROVE  r \in (1..b) \ skipped' <=> r \in (1..p) \ skipped
    BY <2>5
  <2>8. (1..GoesOnFrom') \ skipped' = (1..GoesOnFrom) \ skipped
    BY <2>5, <2>7
  <2> QED BY <1>5, <2>3, <2>6, <2>8 DEF Start
<1>6. CASE RestoreRecord
  <2>1. /\ queue \in Seq(Whole \cup {Torn}) /\ qfile \in Seq(Whole \cup {Torn})
        /\ at \in 0..Len(qfile) /\ at < Len(qfile)
    BY <1>6 DEF RestoreRecord, TypeOK, OnceInv, MissingInv, RestoredSoFar
  <2>2. Append(queue, qfile[at + 1]) \o SubSeq(qfile, (at + 1) + 1, Len(qfile))
          = queue \o SubSeq(qfile, at + 1, Len(qfile))
    <3> DEFINE S == Whole \cup {Torn}
    <3>1. queue \in Seq(S) /\ qfile \in Seq(S) /\ at \in 0..Len(qfile) /\ at < Len(qfile)
      BY <2>1
    <3> HIDE DEF S
    <3> QED BY ONLY <3>1, MoveFirst
  <2>3. AllHeld' = AllHeld
    BY <1>6, <2>2 DEF RestoreRecord, AllHeld, io
  <2> QED BY <1>6, <2>3 DEF RestoreRecord, GoesOnFrom, io
<1>7. CASE RestoreEnd
  <2>1. queue \in Seq(Whole) /\ qfile \in Seq(Whole \cup {Torn})
    BY DEF TypeOK
  <2>2. queue \o SubSeq(qfile, Len(qfile) + 1, Len(qfile)) = queue
    BY <2>1
  <2>3. AllHeld' = AllHeld
    BY <1>7, <2>2 DEF RestoreEnd, AllHeld, io, history
  <2>4. qfile' = <<>> /\ Torn \notin Elements(<<>>)
    BY <1>7 DEF RestoreEnd, Elements
  <2> QED BY <1>7, <2>3, <2>4 DEF RestoreEnd, GoesOnFrom, io, history
<1>8. CASE Read
  <2> DEFINE all == out \o queue
  <2>1. /\ queue \in Seq(Nat) /\ out \in Seq(Nat) /\ pos \in Nat /\ pos + 1 \in Nat
    <3>1. Whole \subseteq Nat
      BY DEF Whole, Records, Mangled
    <3>2. queue \in Seq(Whole) /\ out \in Seq(Whole) /\ lines \in Nat /\ pos \in 0..lines
      BY DEF TypeOK
    <3>3. queue \in Seq(Nat) /\ out \in Seq(Nat)
      BY <3>1, <3>2, SeqMonotonic
    <3> QED BY <3>2, <3>3
  <2>2. /\ AllHeld = queue /\ AllHeld' = Append(queue, pos + 1) /\ out' = out
        /\ GoesOnFrom = pos /\ GoesOnFrom' = pos + 1 /\ skipped' = skipped
    BY <1>8 DEF Read, AllHeld, GoesOnFrom, history
  <2>3. out' \o AllHeld' = Append(all, pos + 1) /\ all \in Seq(Nat)
    BY <2>1, <2>2, AppendBehind, ConcatProperties
  <2> HIDE DEF all
  <2>4. Increasing(all) /\ Elements(all) = (1..pos) \ skipped
    BY <2>2 DEF all
  <2>5. Increasing(Append(all, pos + 1))
    BY <2>1, <2>3, <2>4, IncreasingAppend
  <2>6. Elements(Append(all, pos + 1)) = (1..(pos + 1)) \ skipped
    <3>1. Elements(Append(all, pos + 1)) = Elements(all) \cup {pos + 1}
      BY <2>1, <2>3, ElementsFacts, SMTT(40)
    <3>2. pos + 1 \notin skipped
      BY <2>1, <2>2
    <3> QED BY <3>1, <3>2, <2>1, <2>4
  <2>7. skipped \subseteq 1..(pos + 1)
    BY <2>1, <2>2
  <2> QED BY <1>8, <2>2, <2>3, <2>5, <2>6, <2>7 DEF Read, history
<1>9. CASE Write
  <2>1. queue \in Seq(Whole) /\ out \in Seq(Whole) /\ queue # <<>>
    BY <1>9 DEF Write, TypeOK
  <2>2. /\ Head(queue) = queue[0 + 1] /\ Tail(queue) = SubSeq(queue, (0 + 1) + 1, Len(queue))
        /\ queue = SubSeq(queue, 0 + 1, Len(queue)) /\ 0 \in 0..Len(queue) /\ 0 < Len(queue)
    BY <2>1
  <2>3. Append(out, Head(queue)) \o Tail(queue) = out \o queue
    BY <2>1, <2>2, MoveFirst
  <2>4. out' \o AllHeld' = out \o AllHeld
    BY <1>9, <2>3 DEF Write, AllHeld
  <2> QED BY <1>9, <2>4 DEF Write, GoesOnFrom, history
<1>10. CASE Stop
  BY <1>10 DEF Stop, AllHeld, GoesOnFrom, history, Elements
<1>11. CASE SaveRecord
  <2>1. /\ queue \in Seq(Whole) /\ qfile \in Seq(Whole \cup {Torn}) /\ Len(qfile) = at
        /\ at \in Nat /\ queue[at + 1] \in Whole
    BY <1>11 DEF SaveRecord, TypeOK, OnceInv, MissingInv, SavedSoFar
  <2>2. Torn \notin Elements(qfile')
    BY <1>11, <2>1, ElementsFacts, WholeNotTorn DEF SaveRecord
  <2>3. \A i \in 1..at' : qfile'[i] = queue'[i]
    BY <1>11, <2>1 DEF SaveRecord
  <2> QED BY <1>11, <2>2, <2>3 DEF SaveRecord, AllHeld, GoesOnFrom, history, io
<1>12. CASE SaveEnd
  <2>1. /\ queue \in Seq(Whole \cup {Torn}) /\ qfile \in Seq(Whole \cup {Torn})
        /\ Len(qfile) = at /\ at = Len(queue)
    BY <1>12 DEF SaveEnd, TypeOK, OnceInv, MissingInv, SavedSoFar
  <2>2. qfile = queue
    BY <1>12, <2>1, SeqEqual DEF SaveEnd
  <2> QED BY <1>12, <2>2 DEF SaveEnd, AllHeld, GoesOnFrom, history, io
<1>13. CASE TruncateCache
  BY <1>13 DEF TruncateCache, AllHeld, GoesOnFrom, history, Elements, io, NoCache, Cache
<1>14. CASE WriteCache
  BY <1>14 DEF WriteCache, AllHeld, GoesOnFrom, history, Elements, io, NoCache, Cache
<1>15. CASE UNCHANGED vars
  BY <1>15 DEF vars, state, history, AllHeld, GoesOnFrom
<1>16. ~StartFails /\ ~RestoreMangled /\ ~RestoreThrows
  BY DEF StartFails, RestoreMangled, RestoreThrows, Elements, TypeOK
<1>17. ~SaveShort /\ ~SaveThrows /\ ~CacheUnwritten /\ ~Crash
  BY DEF SaveShort, SaveThrows, CacheUnwritten, Crash
<1> QED BY <1>4, <1>5, <1>6, <1>7, <1>8, <1>9, <1>10, <1>11, <1>12, <1>13, <1>14, <1>15,
           <1>16, <1>17 DEF Next, Restore, Shutdown

(* As long as nothing fails, every line that im_file does not begin behind *)
(* reaches the output exactly once and in order, over any number of stops  *)
(* and starts.                                                             *)
THEOREM OnceAndInOrder == Spec => []ExactlyOnce
<1>1. OnceInv => ExactlyOnce
  BY InOrderMeans
<1> QED BY InitOnce, NextOnce, <1>1, PTL DEF Spec
=============================================================================
