------------------------------- MODULE Router -------------------------------
(***************************************************************************)
(* How the routes of the configuration file become ctx->routes and         *)
(* module->routes (core/router.c), and which modules are then started      *)
(* (nx_ctx_start_modules() and check_module_routes() in core/modules.c).   *)
(* A route is the sequence of names in its path; a path may be malformed   *)
(* after some of them, and a name may be unknown or that of a module with  *)
(* a configuration error.                                                  *)
(***************************************************************************)
EXTENDS Naturals, Sequences, FiniteSets

CONSTANTS
  RtInputs, RtProcessors, RtOutputs,   \* the declared modules, by type
  RtBroken,       \* names not declared, or with has_config_errors
  RtMaxRoutes,    \* bound on the routes of a configuration
  RtMaxPath       \* bound on the names in a path

RtModules == RtInputs \cup RtProcessors \cup RtOutputs

ASSUME RouterAssumption ==
  /\ RtInputs \cap RtProcessors = {} /\ RtInputs \cap RtOutputs = {}
  /\ RtProcessors \cap RtOutputs = {} /\ RtBroken \cap RtModules = {}
  /\ RtMaxRoutes \in Nat /\ RtMaxPath \in Nat

Paths == UNION {[1..n -> RtModules \cup RtBroken] : n \in 1..RtMaxPath}

VARIABLES
  rtIgnore,    \* ctx->ignoreerrors (the IgnoreErrors directive)
  rtRoutes,    \* every route made so far, in the order of the file:
               \* [modules, priority, state]
  rtOf,        \* rtOf[m]: module->routes, as indices of rtRoutes
  refcount,    \* module->refcount
  priority,    \* module->priority, 0 before it is known
  rtPhase,     \* "routes", "done", "aborted"
  started      \* the modules that were sent START

rtVars == <<rtIgnore, rtRoutes, rtOf, refcount, priority, rtPhase, started>>

RouterInit ==
  /\ rtIgnore \in BOOLEAN /\ rtRoutes = <<>>
  /\ rtOf = [m \in RtModules |-> <<>>]
  /\ refcount = [m \in RtModules |-> 0] /\ priority = [m \in RtModules |-> 0]
  /\ rtPhase = "routes" /\ started = {}

Count(ms, S) == Cardinality({i \in DOMAIN ms : ms[i] \in S})
Complete(ms) == Count(ms, RtInputs) > 0 /\ Count(ms, RtOutputs) > 0

-----------------------------------------------------------------------------
(* Mutant of Addable: processors may be shared by routes.                  *)
AddableShared(path) ==
  LET add[n \in 0..Len(path)] ==
        IF n = 0 THEN <<>>
        ELSE IF path[n] \in RtBroken THEN add[n - 1] ELSE Append(add[n - 1], path[n])
  IN  add[Len(path)]

(* nx_route_add_module() for each name of a path: broken modules and       *)
(* processors that already have a route (this one included) are left out.  *)
Addable(path) ==
  LET add[n \in 0..Len(path)] ==
        IF n = 0 THEN <<>>
        ELSE IF \/ path[n] \in RtBroken
                \/ /\ path[n] \in RtProcessors
                   /\ rtOf[path[n]] # <<>> \/ \E i \in 1..n - 1 : path[i] = path[n]
             THEN add[n - 1] ELSE Append(add[n - 1], path[n])
  IN  add[Len(path)]

(* Mutant of Lowered: the priority of the last route counts.               *)
LoweredLast(p, q) == q

Lowered(p, q) == IF p = 0 \/ p > q THEN q ELSE p

(* nx_add_route().  With IgnoreErrors, a malformed path leaves behind what *)
(* was added before the mistake, the reference counts included; a route    *)
(* without inputs or outputs is not registered and its references are      *)
(* given back, but it stays in module->routes.  Otherwise any error ends   *)
(* the program.                                                            *)
AddRoute(path, prio, malformed) ==
  LET ms    == Addable(path)
      state == IF malformed THEN "malformed"
               ELSE IF Complete(ms) THEN "registered" ELSE "incomplete"
      times(m) == Count(ms, {m})
  IN  /\ rtPhase = "routes" /\ Len(rtRoutes) < RtMaxRoutes
      /\ malformed \/ Len(path) >= 2
      /\ IF ~rtIgnore /\ (state # "registered" \/ ms # path)
         THEN rtPhase' = "aborted" /\ UNCHANGED <<rtRoutes, rtOf, refcount, priority>>
         ELSE /\ rtRoutes' = Append(rtRoutes,
                               [modules |-> ms, priority |-> prio, state |-> state])
              /\ rtOf' = [m \in RtModules |->
                            rtOf[m] \o [k \in 1..times(m) |-> Len(rtRoutes) + 1]]
              /\ refcount' = [m \in RtModules |->
                                IF state = "incomplete" THEN refcount[m]
                                ELSE refcount[m] + times(m)]
              /\ priority' = [m \in RtModules |->
                                IF times(m) = 0 THEN priority[m]
                                ELSE Lowered(priority[m], prio)]
              /\ UNCHANGED rtPhase
      /\ UNCHANGED <<rtIgnore, started>>

(* A route without path or arrow, or with a bad directive, is an error     *)
(* nobody catches, whatever IgnoreErrors says.                             *)
BadRoute ==
  /\ rtPhase = "routes" /\ Len(rtRoutes) < RtMaxRoutes /\ rtPhase' = "aborted"
  /\ UNCHANGED <<rtIgnore, rtRoutes, rtOf, refcount, priority, started>>

(* Mutant of CheckModuleRoutes: the counters start again for each route.   *)
CheckModuleRoutesResets(m) ==
  \A i \in DOMAIN rtOf[m] : Complete(rtRoutes[rtOf[m][i]].modules)

(* check_module_routes(): the counters run on from one route to the next,  *)
(* so a route only counts against the module if it and all those before it *)
(* have no input, or no output.                                            *)
CheckModuleRoutes(m) ==
  \A i \in DOMAIN rtOf[m] :
     \A S \in {RtInputs, RtOutputs} :
        \E j \in 1..i : Count(rtRoutes[rtOf[m][j]].modules, S) > 0

(* nx_ctx_start_modules().                                                 *)
RtStart ==
  /\ rtPhase = "routes" /\ rtPhase' = "done"
  /\ started' = {m \in RtModules : refcount[m] > 0 /\ CheckModuleRoutes(m)}
  /\ UNCHANGED <<rtIgnore, rtRoutes, rtOf, refcount, priority>>

RtIdle == rtPhase \in {"done", "aborted"} /\ UNCHANGED rtVars

RouterNext ==
  \/ \E path \in Paths, prio \in {20, 30}, malformed \in BOOLEAN :
        AddRoute(path, prio, malformed)
  \/ BadRoute \/ RtStart \/ RtIdle

RouterSpec == RouterInit /\ [][RouterNext]_rtVars
-----------------------------------------------------------------------------
(* Type invariant.                                                         *)
RouterTypeOK ==
  /\ rtIgnore \in BOOLEAN /\ started \subseteq RtModules
  /\ rtPhase \in {"routes", "done", "aborted"}
  /\ \A m \in RtModules : /\ rtOf[m] \in Seq(DOMAIN rtRoutes)
                          /\ refcount[m] \in Nat /\ priority[m] \in Nat
  /\ \A i \in DOMAIN rtRoutes :
        rtRoutes[i].state \in {"registered", "incomplete", "malformed"}

(* A processor is in one place of one route only, as the functions that    *)
(* forward records and resume senders take for granted.                    *)
ProcessorsUnshared == \A m \in RtProcessors : Len(rtOf[m]) <= 1

(* A route that was registered runs: all its modules are started, unless   *)
(* one of them was named first in a route that is not complete.            *)
RegisteredRuns ==
  rtPhase = "done" =>
     \A i \in DOMAIN rtRoutes : \A k \in DOMAIN rtRoutes[i].modules :
        LET m == rtRoutes[i].modules[k]
        IN  rtRoutes[i].state = "registered" =>
               m \in started \/ ~Complete(rtRoutes[rtOf[m][1]].modules)

(* What is started is of use: it is in a route with an input and an        *)
(* output (though perhaps one whose path was malformed), and its priority, *)
(* by which the dispatcher will group it, is the best of all its routes.   *)
StartedHasRoute ==
  \A m \in started :
     /\ \E i \in DOMAIN rtOf[m] : /\ Complete(rtRoutes[rtOf[m][i]].modules)
                                  /\ rtRoutes[rtOf[m][i]].state # "incomplete"
     /\ \E i \in DOMAIN rtOf[m] : priority[m] = rtRoutes[rtOf[m][i]].priority
     /\ \A i \in DOMAIN rtOf[m] : priority[m] <= rtRoutes[rtOf[m][i]].priority
=============================================================================
