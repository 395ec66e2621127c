------------------------------- MODULE Loader -------------------------------
(***************************************************************************)
(* From the configuration to loaded modules (src/core/ctx.c, modules.c)    *)
(* and the functions their Exec blocks call (src/common/expr.c): the       *)
(* blocks are added in turn, then configured in turn, then initialized in  *)
(* turn; an error stops nxlog or loses only its block (IgnoreErrors).  The *)
(* lines of a block are read when they are used, so its faults are chosen  *)
(* then.  Functions and procedures are resolved alike; they are one here.  *)
(***************************************************************************)
EXTENDS Naturals, Sequences, FiniteSets

CONSTANT LdBlocks   \* bound: blocks of modules in the configuration

ASSUME LoaderAssumption == LdBlocks \in Nat

LdNames == {"m", "n"}
LdTypes == {"Extension", "Input"}
LdTypeOf == [xm |-> "Extension", im |-> "Input"]   \* the modules that are installed

(* What the two kinds of module export, and the core: name, kind, types of *)
(* the arguments.                                                          *)
Exported(name, kind, types) == [name |-> name, kind |-> kind, types |-> types]
Exports == [xm |-> {Exported("f", "PUBLIC", <<"string", "integer">>),
                    Exported("g", "GLOBAL", <<"string">>)},
            im |-> {Exported("p", "PRIVATE", <<>>), Exported("g", "PRIVATE", <<"integer", "varargs">>)}]
CoreExports == {Exported("h", "GLOBAL", <<"string", "string">>)}

(* The calls an Exec block may hold: through a module or not.              *)
LdCalls ==
  {[via |-> v, name |-> n, args |-> a] :
     v \in LdNames \cup {""}, n \in {"f", "g", "h", "p"},
     a \in {<<>>, <<"string">>, <<"string", "integer">>, <<"integer", "string">>}}

VARIABLE ld
(***************************************************************************)
(* phase      "parse", "add", "config", "init", "started" or "refused"     *)
(* ignore     ctx->ignoreerrors            flow   ctx->flowcontrol         *)
(* blocks     blocks looked at             at     modules looked at        *)
(* modules    ctx->modules: [id, name, type, dso, flow, errors, status,    *)
(*            calls (what its Exec was resolved to), input (reader used)]  *)
(* exports    ctx->expr_funcs and expr_procs: a set of [id, export]; of    *)
(*            two that match, the one of the lower id (core: 0) is first   *)
(* readers    ctx->input_funcs: the names registered, and by whom          *)
(* failed     history: something was wrong with a block or a module        *)
(* missed     history: a call was refused that a loaded module provides    *)
(***************************************************************************)
LoaderInit ==
  ld = [phase |-> "parse", ignore |-> TRUE, flow |-> TRUE, blocks |-> 0, at |-> 0,
        modules |-> <<>>, exports |-> {[id |-> 0, export |-> x] : x \in CoreExports},
        readers |-> {}, failed |-> FALSE, missed |-> FALSE]

-----------------------------------------------------------------------------
(* nx_cfg_get_boolean(): the first line counts.                            *)
GetBoolean(lines, default) ==
  IF lines = <<>> THEN default ELSE lines[1]

(* nx_ctx_parse_cfg() and nx_ctx_init_logging(): the global directives.    *)
(* Verifying a configuration takes every error as one.                     *)
ParseCfg ==
  /\ ld.phase = "parse"
  /\ \/ ld' = [ld EXCEPT !.phase = "refused"]
     \/ \E ignore \in UNION {[1..n -> BOOLEAN] : n \in 0..2}, flow \in {<<>>, <<FALSE>>}, verify \in BOOLEAN :
          ld' = [ld EXCEPT !.phase = "add", !.ignore = GetBoolean(ignore, TRUE) /\ ~verify,
                           !.flow = GetBoolean(flow, TRUE)]

-----------------------------------------------------------------------------
(* nx_module_load_dso(): a module that is in the list has been loaded      *)
(* before; else the file is looked for by the type of the block.           *)
LoadDso(type, dso) ==
  \/ \E i \in DOMAIN ld.modules : ld.modules[i].dso = dso
  \/ dso \in DOMAIN LdTypeOf /\ LdTypeOf[dso] = type

(* nx_module_register_exports()                                            *)
RegisterExports(l, id, dso) ==
  [l EXCEPT !.exports = @ \cup {[id |-> id, export |-> x] : x \in Exports[dso]}]

(* nx_module_new() and the end of nx_module_add().                         *)
LdNew(id, type, name, dso, flow) ==
  [id |-> id, name |-> name, type |-> type, dso |-> dso, flow |-> flow, errors |-> FALSE,
   status |-> "UNINITIALIZED", calls |-> {}, input |-> {}]

(* catch in nx_ctx_config_modules() and nx_ctx_init_modules().             *)
CatchAlways(l) == [l EXCEPT !.failed = TRUE]
Catch(l) ==
  IF l.ignore THEN [l EXCEPT !.failed = TRUE]
  ELSE [l EXCEPT !.failed = TRUE, !.phase = "refused"]

(* nx_module_add().  What a module exports is there before its FlowControl *)
(* lines are looked at.                                                    *)
AddModule(l, type, name, dso, flow) ==
  LET id  == l.blocks
      reg == RegisterExports(l, id, dso)
      bad == Len(flow) > 1 \/ (type = "Extension" /\ flow # <<>>)
  IN  IF \E i \in DOMAIN l.modules : l.modules[i].name = name THEN Catch(l)
      ELSE IF ~LoadDso(type, dso) THEN Catch(l)
      ELSE IF LdTypeOf[dso] # type THEN Catch(l)
      ELSE IF bad THEN Catch(reg)
      ELSE [reg EXCEPT !.modules =
              Append(@, LdNew(id, type, name, dso, GetBoolean(flow, type = "Input" /\ l.flow)))]

(* nx_ctx_config_modules(), the blocks; an empty one, and one with no      *)
(* Module or no name, is an error too.                                     *)
Block ==
  /\ ld.phase = "add" /\ ld.blocks < LdBlocks
  /\ LET l == [ld EXCEPT !.blocks = @ + 1]
     IN  \/ ld' = Catch(l)
         \/ \E type \in LdTypes, name \in LdNames, dso \in {"xm", "im", "other"},
               flow \in UNION {[1..n -> BOOLEAN] : n \in 0..2} :
              ld' = AddModule(l, type, name, dso, flow)
Blocks ==
  /\ ld.phase = "add"
  /\ ld' = [ld EXCEPT !.phase = "config", !.at = 1]

-----------------------------------------------------------------------------
(* nx_expr_list_elem_match(): the arguments in turn; that some are missing *)
(* is not looked at, unless all are.                                       *)
ElemMatch(args, types) ==
  LET n == Len(types)
      open == n > 0 /\ types[n] = "varargs"
  IN  IF args = <<>> THEN types = <<>>
      ELSE \A i \in DOMAIN args :
             \/ open /\ i >= n
             \/ i <= n /\ (args[i] = "unknown" \/ types[i] \in {args[i], "unknown"})

(* nx_expr_new_function(), nx_expr_statement_new_procedure(): the module   *)
(* named; a private function of the own module; else the first that fits   *)
(* and may be used.                                                        *)
Named(l, name) == {l.modules[i].id : i \in {j \in DOMAIN l.modules : l.modules[j].name = name}}
UsableAnyhow(x, via) == x.export.kind = "GLOBAL" \/ x.id \in via \/ via = {}
Usable(x, via) ==
  \/ x.export.kind = "GLOBAL" /\ via = {}
  \/ x.export.kind \in {"PUBLIC", "PRIVATE"} /\ x.id \in via
CandidatesBefore(l, own, call) ==
  {x \in l.exports :
     /\ x.export.name = call.name /\ ElemMatch(call.args, x.export.types) /\ x.id <= own
     /\ Usable(x, Named(l, call.via)) /\ (call.via = "" \/ Named(l, call.via) # {})}
Candidates(l, own, call) ==
  LET fits == {x \in l.exports : x.export.name = call.name /\ ElemMatch(call.args, x.export.types)}
      via  == Named(l, call.via)
      mine == {x \in fits : x.export.kind = "PRIVATE" /\ x.id = own}
  IN  IF call.via # "" /\ via = {} THEN {}
      ELSE IF call.via = "" /\ mine # {} THEN mine
      ELSE {x \in fits : Usable(x, via)}
Resolved(l, own, call) == {x \in Candidates(l, own, call) : \A y \in Candidates(l, own, call) : x.id <= y.id}

(* For the history: what the call asks for is exported by the module named.*)
Provided(l, call) ==
  \E i \in DOMAIN l.modules :
    /\ l.modules[i].name = call.via
    /\ \E x \in Exports[l.modules[i].dso] :
         x.kind # "GLOBAL" /\ x.name = call.name /\ x.types = call.args

(* nx_module_config(): the module's own directives (one may be unknown or  *)
(* wrong), the InputType, and the Exec block.  An extension registers its  *)
(* reader here.                                                            *)
ConfigErrors(l) == Catch([l EXCEPT !.modules[l.at].errors = TRUE])
ConfigExec(l, call) ==
  LET m == l.modules[l.at]
      r == Resolved(l, m.id, call)
  IN  IF r = {} THEN ConfigErrors([l EXCEPT !.missed = @ \/ Provided(l, call)])
      ELSE [l EXCEPT !.modules[l.at].calls = {[to |-> x, call |-> call] : x \in r}]
ConfigReader(l) ==
  LET m == l.modules[l.at]
  IN  IF m.type = "Extension" THEN [l EXCEPT !.readers = @ \cup {[name |-> m.name, id |-> m.id]}] ELSE l
ConfigInput(l, name) ==
  LET r == {x \in l.readers : x.name = name}
  IN  IF r = {} THEN ConfigErrors(l) ELSE [l EXCEPT !.modules[l.at].input = r]

Configs ==
  LET l == ConfigReader(ld)
  IN  {ConfigErrors(ld), l} \cup {ConfigExec(l, call) : call \in LdCalls}
      \cup (IF ld.modules[ld.at].type = "Input" THEN {ConfigInput(l, name) : name \in LdNames} ELSE {})
ConfigModule ==
  /\ ld.phase = "config" /\ ld.at <= Len(ld.modules)
  /\ \E l \in Configs : ld' = [l EXCEPT !.at = @ + 1]
Configured ==
  /\ ld.phase = "config" /\ ld.at > Len(ld.modules)
  /\ ld' = [ld EXCEPT !.phase = "init", !.at = 1]

(* nx_ctx_init_modules(), nx_module_init(): also where the configuration   *)
(* was wrong.                                                              *)
InitModule ==
  /\ ld.phase = "init" /\ ld.at <= Len(ld.modules)
  /\ LET l == [ld EXCEPT !.at = @ + 1]
     IN  \/ ld' = Catch(l)
         \/ ld' = [l EXCEPT !.modules[ld.at].status = "STOPPED"]
Initialized ==
  /\ ld.phase = "init" /\ ld.at > Len(ld.modules)
  /\ ld' = [ld EXCEPT !.phase = "started"]

LoaderNext == ParseCfg \/ Block \/ Blocks \/ ConfigModule \/ Configured \/ InitModule \/ Initialized
LoaderSpec == LoaderInit /\ [][LoaderNext]_ld

-----------------------------------------------------------------------------
LdIds == {ld.modules[i].id : i \in DOMAIN ld.modules}

(* The values of the variable.                                             *)
LoaderTypeOK ==
  /\ ld.phase \in {"parse", "add", "config", "init", "started", "refused"}
  /\ ld.blocks \in 0..LdBlocks /\ Len(ld.modules) <= ld.blocks
  /\ \A x \in ld.exports : x.id \in 0..ld.blocks

(* IgnoreErrors FALSE: nxlog starts with everything it was told to, or not *)
(* at all.  Whatever an Exec calls then belongs to a module that has been  *)
(* configured and initialized.                                             *)
StrictStartsWhole ==
  (ld.phase = "started" /\ ~ld.ignore) =>
    /\ ~ld.failed /\ Len(ld.modules) = ld.blocks
    /\ \A i \in DOMAIN ld.modules :
         /\ ld.modules[i].status = "STOPPED" /\ ~ld.modules[i].errors
         /\ \A c \in ld.modules[i].calls : c.to.id \in LdIds \cup {0}

(* A call leads to the function it names: of the module it names, or a     *)
(* global one, or a private one of the caller and of nobody else.  Where   *)
(* errors are ignored the module may have failed since.                    *)
CallsReachTheirOwn ==
  \A i \in DOMAIN ld.modules : \A c \in ld.modules[i].calls :
    /\ c.to.export.name = c.call.name
    /\ c.call.via # "" => c.to.id \in Named(ld, c.call.via)
    /\ c.call.via = "" => c.to.export.kind = "GLOBAL" \/ c.to.id = ld.modules[i].id
    /\ c.to.export.kind = "PRIVATE" /\ c.call.via = "" => c.to.id = ld.modules[i].id

(* The order of the blocks is no matter to a call: one that was refused is *)
(* not provided by any module, earlier or later in the file.               *)
RefusedIsNotThere == ~ld.missed
=============================================================================
