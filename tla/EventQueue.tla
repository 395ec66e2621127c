----------------------------- MODULE EventQueue -----------------------------
(***************************************************************************)
(* The list of pending events of one job (nx_job_t.events), the            *)
(* de-duplication that runs whenever an event is appended to it            *)
(* (src/common/event.c), and what the control events in it do to the       *)
(* module that owns the job (src/common/module.c).                         *)
(*                                                                         *)
(* An event is a record [type, data].  The priority field is left out: it  *)
(* is module->priority wherever an event is made, and all events of a job  *)
(* belong to one module.  The C list links events by address; here an      *)
(* event's identity is its position, which is enough because the           *)
(* de-duplication only ever inspects and removes the tail.                 *)
(***************************************************************************)
EXTENDS Naturals, Sequences

(* nx_event_type_t.  The types no rule below tells apart by name (ACCEPT,  *)
(* RECONNECT, TIMEOUT, SCHEDULE and so on) are represented by SCHEDULE.    *)
EventTypes == {"POLL", "READ", "WRITE", "DATA_AVAILABLE", "SCHEDULE",
               "START", "STOP", "PAUSE", "RESUME"}

(* The pairs <<e3, e4>> which, seen twice in a row at the tail of the      *)
(* list, are collapsed into one occurrence.                                *)
Alternations == { <<"PAUSE", "RESUME">>, <<"RESUME", "PAUSE">>,
                  <<"DATA_AVAILABLE", "RESUME">>,
                  <<"RESUME", "POLL">>, <<"POLL", "RESUME">>,
                  <<"DATA_AVAILABLE", "POLL">>, <<"POLL", "DATA_AVAILABLE">> }

(* Mutants of Redundant: a PAUSE and a RESUME cancel each other; events    *)
(* about different connections are duplicates.                             *)
RedundantCancels(q, n) ==
  IF n >= 2 /\ q[n] = q[n - 1] THEN 1
  ELSE IF n >= 2 /\ q[n - 1].type = "PAUSE" /\ q[n].type = "RESUME" THEN 2
       ELSE 0

RedundantIgnoresData(q, n) ==
  IF n >= 2 /\ q[n].type = q[n - 1].type THEN 1 ELSE 0

(* How many events one round of the loop in _event_dedupe() removes from   *)
(* the end of the first n events of q.  A duplicate needs equal type and   *)
(* data; an alternation looks at the types only.                           *)
Redundant(q, n) ==
  IF n >= 2 /\ q[n] = q[n - 1] THEN 1
  ELSE IF /\ n >= 4
          /\ <<q[n - 1].type, q[n].type>> \in Alternations
          /\ q[n - 3].type = q[n - 1].type
          /\ q[n - 2].type = q[n].type
       THEN 2
       ELSE 0

(* The loop repeats until a round finds nothing: how many events are left  *)
(* when it starts at the n-th one.                                         *)
Kept(q) ==
  LET left[n \in 0..Len(q)] ==
        IF Redundant(q, n) = 0 THEN n ELSE left[n - Redundant(q, n)]
  IN  left

Dedupe(q) == SubSeq(q, 1, Kept(q)[Len(q)])

(* nx_event_to_jobqueue(): append, then de-duplicate.                      *)
Enqueue(q, e) == Dedupe(Append(q, e))

(* Its test NX_DLIST_LAST(&(job->events)) == event, under which a worker   *)
(* is signalled: the new event was not itself removed.                     *)
Survives(q, e) == Len(Enqueue(q, e)) = Len(q) + 1

(* The loop of nx_module_remove_events_by_data(): the events of the list   *)
(* that are not about d, in their order.                                   *)
Sifted(q, d) ==
  LET sift[n \in 0..Len(q)] ==
        IF n = 0 THEN <<>>
        ELSE IF q[n].data = d THEN sift[n - 1] ELSE Append(sift[n - 1], q[n])
  IN  sift

Without(q, d) == Sifted(q, d)[Len(q)]

-----------------------------------------------------------------------------
(* nx_module_status_t of an initialised module.                            *)
Statuses == {"STOPPED", "PAUSED", "RUNNING"}

(* The status nx_module_start_self(), _stop_self(), _pause_self() and      *)
(* _resume_self() leave behind; the other events do not set it.  (START    *)
(* on a paused module only posts a RESUME.)                                *)
StatusAfter(s, type) ==
  CASE type = "START"  /\ s = "STOPPED" -> "RUNNING"
    [] type = "STOP"                    -> "STOPPED"
    [] type = "PAUSE"  /\ s = "RUNNING" -> "PAUSED"
    [] type = "RESUME" /\ s = "PAUSED"  -> "RUNNING"
    [] OTHER -> s

(* The status after the first n events of q have been processed.           *)
Outcome(s, q) ==
  LET after[n \in 0..Len(q)] ==
        IF n = 0 THEN s ELSE StatusAfter(after[n - 1], q[n].type)
  IN  after

FinalStatus(s, q) == Outcome(s, q)[Len(q)]
=============================================================================
