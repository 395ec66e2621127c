------------------------------ MODULE Norepeat ------------------------------
(***************************************************************************)
(* pm_norepeat: consecutive equal records are counted, not forwarded; the  *)
(* count is reported before the next record that differs, or by a WRITE    *)
(* event one second after a repetition.                                    *)
(***************************************************************************)
EXTENDS Naturals, Sequences

CONSTANTS
  NrMessages,  \* the values of the fields that are compared
  Bare,        \* a record without the Message field: equal to none
  NrRecords,   \* bound on the records received
  NrTimers     \* bound on the WRITE events that are pending

ASSUME NorepeatAssumption ==
  Bare \notin NrMessages /\ NrRecords \in Nat /\ NrTimers \in Nat

VARIABLE nr
(***************************************************************************)
(* nr.kept    modconf->logdata: a record, or <<>> for NULL                 *)
(* nr.repeatcnt                                                            *)
(* nr.timers  the number of WRITE events pending, delayed or due           *)
(* nr.out     what was forwarded: <<m, n>>, n = 0 for the record m itself, *)
(*            n > 0 for "last message repeated n times"                    *)
(* nr.in      history: the records received                                *)
(***************************************************************************)

NorepeatInit == nr = [kept |-> <<>>, repeatcnt |-> 0, timers |-> 0,
                      out |-> <<>>, in |-> <<>>]

(* nx_logdata_eq() *)
LogdataEq(m1, m2) == m1 # Bare /\ m1 = m2

(* Mutant of LogRepeat: a single repetition is reported, and forwarded.    *)
LogRepeatTwice(s) ==
  [s EXCEPT !.kept = <<>>, !.repeatcnt = 0,
            !.out = IF s.repeatcnt = 0 THEN @
                    ELSE IF s.repeatcnt = 1
                         THEN @ \o <<<<s.kept[1], 0>>, <<s.kept[1], 1>>>>
                         ELSE Append(@, <<s.kept[1], s.repeatcnt>>)]

(* pm_norepeat_log_repeat(): one repetition is forwarded as it came.       *)
LogRepeat(s) ==
  [s EXCEPT !.kept = <<>>, !.repeatcnt = 0,
            !.out = IF s.repeatcnt = 0 THEN @
                    ELSE Append(@, <<s.kept[1],
                                     IF s.repeatcnt = 1 THEN 0 ELSE s.repeatcnt>>)]

(* Mutant of Repeated: no timer is set.                                    *)
RepeatedSilently(s) == [s EXCEPT !.repeatcnt = @ + 1]

(* pm_norepeat_add_event() never sets modconf->event, so every repetition  *)
(* adds an event of its own.                                               *)
Repeated(s) == [s EXCEPT !.repeatcnt = @ + 1, !.timers = @ + 1]

(* pm_norepeat_data_available() and pm_norepeat_process()                  *)
NrProcess(m) ==
  LET s == [nr EXCEPT !.in = Append(@, m)]
      new(x) == [x EXCEPT !.kept = <<m>>, !.out = Append(@, <<m, 0>>)]
  IN  /\ Len(nr.in) < NrRecords
      /\ \/ nr.kept = <<>> /\ nr' = new(s)
         \/ /\ nr.kept # <<>> /\ LogdataEq(nr.kept[1], m) /\ nr.timers < NrTimers
            /\ nr' = Repeated(s)
         \/ /\ nr.kept # <<>> /\ ~LogdataEq(nr.kept[1], m)
            /\ nr' = new(LogRepeat(s))

(* pm_norepeat_write(): all WRITE events that are due in the job's list    *)
(* together have become one.                                               *)
NrWrite ==
  \E n \in 1..nr.timers :
     LET s == [nr EXCEPT !.timers = @ - n]
     IN  nr' = IF nr.kept = <<>> THEN s ELSE LogRepeat(s)

NorepeatNext == (\E m \in NrMessages \cup {Bare} : NrProcess(m)) \/ NrWrite

NorepeatSpec == NorepeatInit /\ [][NorepeatNext]_nr
-----------------------------------------------------------------------------
(* Type invariant.                                                         *)
NorepeatTypeOK ==
  /\ nr.kept \in {<<>>} \cup {<<m>> : m \in NrMessages \cup {Bare}}
  /\ nr.repeatcnt \in Nat /\ nr.timers \in 0..NrTimers

(* What a reader of the output would take the input to have been.          *)
Expanded(out) ==
  LET f[i \in 0..Len(out)] ==
        IF i = 0 THEN <<>>
        ELSE IF out[i][2] = 0 THEN Append(f[i - 1], out[i][1])
        ELSE f[i - 1] \o [k \in 1..out[i][2] |-> f[i - 1][Len(f[i - 1])]]
  IN  f[Len(out)]

(* Nothing is lost by leaving out repetitions, wherever the timer falls:   *)
(* the output, read with each "last message repeated" as copies of the     *)
(* message before it, and the repetitions still being counted are the      *)
(* input.  And the count is not forgotten: an event is pending that will   *)
(* report it.                                                              *)
NorepeatLossless ==
  /\ nr.in = Expanded(nr.out) \o [k \in 1..nr.repeatcnt |-> nr.kept[1]]
  /\ nr.repeatcnt > 0 => nr.timers > 0
=============================================================================
