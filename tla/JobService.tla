----------------------------- MODULE JobService -----------------------------
(***************************************************************************)
(* What a module may rely on, whatever threads there are: its events are   *)
(* processed one at a time, and each of them eventually.  Pipeline and     *)
(* ModuleControl are written against this service; Dispatcher implements   *)
(* it.                                                                     *)
(***************************************************************************)
EXTENDS Naturals

CONSTANT Jobs

VARIABLES
  pending,   \* pending[j]: how many events wait in the list of job j
  running    \* the jobs one of whose events is being processed

vars == <<pending, running>>

Init == pending = [j \in Jobs |-> 0] /\ running = {}

(* Events are appended (and others de-duplicated) or removed, for some     *)
(* jobs at a time; a list that has an event to gain does not end up empty. *)
Change ==
  /\ pending' \in [Jobs -> Nat]
  /\ \A j \in Jobs \ running : pending[j] > 0 => pending'[j] > 0
  /\ UNCHANGED running

Begin(j) ==
  /\ j \notin running /\ pending[j] > 0
  /\ running' = running \cup {j}
  /\ pending' = [pending EXCEPT ![j] = @ - 1]

End(j) ==
  /\ j \in running
  /\ running' = running \ {j}
  /\ UNCHANGED pending

Next == Change \/ \E j \in Jobs : Begin(j) \/ End(j)

(* The promise.  (A job that is running may remove its own events.)        *)
Served == \A j \in Jobs : /\ pending[j] > 0 ~> (j \in running \/ pending[j] = 0)
                          /\ j \in running ~> j \notin running

Spec == Init /\ [][Next]_vars /\ Served
=============================================================================
