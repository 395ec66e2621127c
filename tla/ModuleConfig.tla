---------------------------- MODULE ModuleConfig ----------------------------
(***************************************************************************)
(* How a module reads its block of the configuration file: the _config()   *)
(* functions of src/modules and the helpers of src/common/confparser.c and *)
(* module.c.  A function is a table: what each directive's value must be,  *)
(* which ones have to be there and what becomes of an unknown one.  The    *)
(* block grows line by line, and what the function makes of it is computed *)
(* from its table.                                                         *)
(***************************************************************************)
EXTENDS Naturals, Sequences, FiniteSets

LOCAL INSTANCE SequencesExt

CONSTANT CfLines   \* bound: directives besides the required ones

ASSUME ModuleConfigAssumption == CfLines \in Nat

(* What a directive may be:                                                *)
(*   name      a string, refused a second time                             *)
(*   checked   the same, and looked up or parsed: "bad" is refused         *)
(*   number    refused a second time unless it was 0: 0 means "not given"  *)
(*   port      a number cut to 16 bits (apr_port_t)                        *)
(*   positive  a number that may not be 0                                  *)
(*   again     a number that may be given again: the last one counts       *)
(*   last      a string that may be given again: the last one counts       *)
(*   given     the same, and it may not be "bad"                           *)
(*   flag      looked for at the end by nx_cfg_get_boolean(): the first    *)
(*   switch    nx_cfg_get_boolean() from this line on: the last            *)
(*   list      every one counts                                            *)
(*   header    an expression; a second one is noticed if the first is a    *)
(*             constant (HeaderLine)                                       *)
(*   path      an expression; a second one is noticed if the first is not  *)
(*             a constant (om_file's File)                                 *)
(*   url       http or https; format, fields: see Together()               *)
(*   void      no effect                                                   *)
Values(kind) ==
  CASE kind \in {"name", "last"}                   -> {"x", "y"}
    [] kind \in {"checked", "given", "list"}       -> {"x", "bad"}
    [] kind \in {"number", "positive", "again"}    -> {"0", "7", "bad"}
    [] kind = "port"                               -> {"0", "7", "65536", "bad"}
    [] kind \in {"flag", "switch"}                 -> {"TRUE", "FALSE", "bad"}
    [] kind \in {"header", "path"}                 -> {"constant", "expr", "bad"}
    [] kind = "url"                                -> {"http", "https", "bad"}
    [] kind = "format"                             -> {"csv", "snare", "other", "bad"}
    [] kind = "fields"                             -> {"two", "three", "bad"}
    [] kind = "void"                               -> {"x"}

Repeatable == {"again", "last", "given", "flag", "switch", "list", "fields", "void"}

Config(kinds, required, unknown) == [kinds |-> kinds, required |-> required, unknown |-> unknown]
Tls == [CertFile |-> "name", CertKeyFile |-> "name", KeyPass |-> "name", CAFile |-> "name",
        CADir |-> "name", CRLFile |-> "name", CRLDir |-> "name"]
NoDirectives == [d \in {} |-> "void"]
With(f, g) == [d \in DOMAIN f \cup DOMAIN g |-> IF d \in DOMAIN f THEN f[d] ELSE g[d]]

-----------------------------------------------------------------------------
(* The inputs.                                                             *)
nx_module_empty_config_check == Config(NoDirectives, {}, "refused")
im_internal_config == Config(NoDirectives, {}, "refused")
im_kernel_config   == Config(NoDirectives, {}, "refused")
im_testgen_config  == Config([MaxCount |-> "number"], {}, "refused")
im_mark_config     == Config([MarkInterval |-> "number", Mark |-> "name"], {}, "refused")
im_udp_config ==
  Config([Host |-> "name", Port |-> "port", SockBufSize |-> "number", InputType |-> "checked"],
         {}, "refused")
im_uds_config == Config([UDS |-> "name", InputType |-> "checked"], {}, "refused")
im_tcp_config ==
  Config([Host |-> "name", Port |-> "port", NoDelay |-> "flag", InputType |-> "checked"],
         {}, "refused")
im_ssl_config ==
  Config(With(Tls, [Host |-> "name", Port |-> "port", InputType |-> "checked",
                    RequireCert |-> "flag", AllowUntrusted |-> "flag"]),
         {"CertFile", "CertKeyFile"}, "refused")
im_file_config ==
  Config([File |-> "checked", SavePos |-> "flag", Recursive |-> "flag", RenameCheck |-> "flag",
          CloseWhenIdle |-> "flag", ReadFromLast |-> "flag", InputType |-> "checked",
          PollInterval |-> "again", DirCheckInterval |-> "again", ActiveFiles |-> "again"],
         {"File"}, "refused")
im_exec_config ==
  Config([Command |-> "name", Arg |-> "last", InputType |-> "checked", Restart |-> "flag"],
         {"Command"}, "refused")
im_dbi_config ==
  Config([Driver |-> "name", Option |-> "list", SQL |-> "name", SavePos |-> "flag",
          PollInterval |-> "again"], {"Driver"}, "refused")
im_kafka_config ==
  Config([BrokerList |-> "last", Topic |-> "last", Compression |-> "last", Partition |-> "last",
          Option |-> "list"], {}, "ignored")

(* The outputs.                                                            *)
om_udp_config ==
  Config([Host |-> "name", Port |-> "port", SockBufSize |-> "number", OutputType |-> "checked"],
         {"Host"}, "refused")
om_uds_config == Config([UDS |-> "name", OutputType |-> "checked"], {}, "refused")
om_tcp_config ==
  Config([Host |-> "name", Port |-> "port", OutputType |-> "checked", Reconnect |-> "void",
          Listen |-> "flag", QueueInListenMode |-> "flag"], {"Host"}, "refused")
om_ssl_config ==
  Config(With(Tls, [Host |-> "name", Port |-> "port", OutputType |-> "checked",
                    Reconnect |-> "void", RequireCert |-> "flag", AllowUntrusted |-> "flag"]),
         {"Host"}, "refused")
om_file_config ==
  Config([File |-> "path", Truncate |-> "flag", Sync |-> "flag", CreateDir |-> "flag",
          OutputType |-> "checked"], {"File"}, "refused")
om_exec_config ==
  Config([Command |-> "name", Arg |-> "last", OutputType |-> "checked"], {"Command"}, "refused")
om_dbi_config ==
  Config([Driver |-> "name", Option |-> "list", SQL |-> "name"], {"Driver"}, "refused")
om_kafka_config ==
  Config([BrokerList |-> "last", Topic |-> "last", Compression |-> "last", Partition |-> "last",
          Option |-> "list"], {}, "ignored")
om_http_config ==
  Config(With(Tls, [URL |-> "url", ContentType |-> "name", RequireCert |-> "flag",
                    AllowUntrusted |-> "flag"]), {"URL"}, "refused")

(* The processors; a rule of pm_evcorr is a block of its own.              *)
pm_blocker_config  == Config(NoDirectives, {}, "ignored")
pm_filter_config   == Config([Condition |-> "checked"], {"Condition"}, "refused")
pm_norepeat_config == Config([CheckFields |-> "checked"], {}, "refused")
pm_pattern_config  == Config([PatternFile |-> "last"], {"PatternFile"}, "refused")
pm_buffer_config ==
  Config([MaxSize |-> "number", WarnLimit |-> "number", Type |-> "checked", Directory |-> "name"],
         {"MaxSize", "Type"}, "ignored")
pm_transformer_config ==
  Config([InputFormat |-> "format", OutputFormat |-> "format", CSVInputFields |-> "fields",
          CSVInputFieldTypes |-> "fields", CSVOutputFields |-> "fields"], {}, "refused")
pm_evcorr_config == Config([TimeField |-> "last", ContextCleanTime |-> "number"], {}, "refused")
EvcorrSimple == Config([Exec |-> "given"], {"Exec"}, "rule")
EvcorrSuppressed ==
  Config([Exec |-> "given", Condition |-> "checked", Interval |-> "number", Context |-> "checked"],
         {"Exec", "Condition"}, "rule")
EvcorrPair ==
  Config([Exec |-> "given", TriggerCondition |-> "checked", RequiredCondition |-> "checked",
          Interval |-> "number", Context |-> "checked"],
         {"Exec", "TriggerCondition", "RequiredCondition"}, "rule")
EvcorrAbsence ==
  Config([Exec |-> "given", TriggerCondition |-> "checked", RequiredCondition |-> "checked",
          Interval |-> "positive", Context |-> "checked"],
         {"Exec", "TriggerCondition", "RequiredCondition"}, "rule")
EvcorrThresholded ==
  Config([Exec |-> "given", Condition |-> "checked", Interval |-> "positive",
          Threshold |-> "positive", Context |-> "checked"], {"Exec", "Condition"}, "rule")
EvcorrStop == Config([Exec |-> "given", Condition |-> "checked"], {"Condition"}, "rule")

(* The extensions.                                                         *)
xm_json_config == Config(NoDirectives, {}, "refused")
xm_xml_config  == Config(NoDirectives, {}, "refused")
xm_wtmp_config == Config(NoDirectives, {}, "ignored")
xm_perl_config == Config([PerlCode |-> "name"], {"PerlCode"}, "refused")
xm_gelf_config ==
  Config([ShortMessageLength |-> "number", UseNullDelimiter |-> "flag"], {}, "refused")
xm_charconv_config == Config([AutodetectCharsets |-> "last"], {}, "ignored")
xm_syslog_config ==
  Config([SnareDelimiter |-> "checked", SnareReplacement |-> "checked",
          IETFTimestampInGMT |-> "switch"], {}, "refused")
xm_csv_config ==
  Config([QuoteChar |-> "given", EscapeChar |-> "given", Delimiter |-> "given",
          QuoteOptional |-> "last", QuoteMethod |-> "checked", EscapeControl |-> "flag",
          Fields |-> "fields", FieldTypes |-> "fields", UndefValue |-> "last"],
         {"Fields"}, "ignored")
xm_kvp_config ==
  Config([KeyQuoteChar |-> "given", ValueQuoteChar |-> "given", EscapeChar |-> "given",
          KVDelimiter |-> "given", KVPDelimiter |-> "given", EscapeControl |-> "flag"],
         {}, "ignored")
xm_multiline_config ==
  Config([HeaderLine |-> "header", EndLine |-> "header", FixedLineCount |-> "number"],
         {}, "refused")

Tables ==
  [im_null |-> nx_module_empty_config_check, im_internal |-> im_internal_config,
   im_kernel |-> im_kernel_config, im_testgen |-> im_testgen_config, im_mark |-> im_mark_config,
   im_udp |-> im_udp_config, im_uds |-> im_uds_config, im_tcp |-> im_tcp_config,
   im_ssl |-> im_ssl_config, im_file |-> im_file_config, im_exec |-> im_exec_config,
   im_dbi |-> im_dbi_config, im_kafka |-> im_kafka_config, om_udp |-> om_udp_config,
   om_uds |-> om_uds_config, om_tcp |-> om_tcp_config, om_ssl |-> om_ssl_config,
   om_file |-> om_file_config, om_exec |-> om_exec_config, om_dbi |-> om_dbi_config,
   om_kafka |-> om_kafka_config, om_http |-> om_http_config, pm_blocker |-> pm_blocker_config,
   pm_filter |-> pm_filter_config, pm_norepeat |-> pm_norepeat_config,
   pm_pattern |-> pm_pattern_config, pm_buffer |-> pm_buffer_config,
   pm_transformer |-> pm_transformer_config, pm_evcorr |-> pm_evcorr_config,
   Simple |-> EvcorrSimple, Suppressed |-> EvcorrSuppressed, Pair |-> EvcorrPair,
   Absence |-> EvcorrAbsence, Thresholded |-> EvcorrThresholded, Stop |-> EvcorrStop,
   xm_json |-> xm_json_config, xm_xml |-> xm_xml_config, xm_wtmp |-> xm_wtmp_config,
   xm_perl |-> xm_perl_config, xm_gelf |-> xm_gelf_config, xm_charconv |-> xm_charconv_config,
   xm_syslog |-> xm_syslog_config, xm_csv |-> xm_csv_config, xm_kvp |-> xm_kvp_config,
   xm_multiline |-> xm_multiline_config]

-----------------------------------------------------------------------------
(* Reading one directive.  s is the module's conf structure: a value per   *)
(* directive, "unset" while it is NULL or 0, and the argument list of a    *)
(* command; s.ok is FALSE once nx_conf_error() has thrown.                 *)
nx_module_common_keyword(d) == d \in {"Module", "Processors", "Exec", "Schedule", "FlowControl"}

Stored(kind, v) == IF v \in {"0", "65536"} THEN "unset" ELSE v

AlreadyDefinedNever(kind, old) == kind = "name" /\ old # "unset"
AlreadyDefined(kind, old) ==
  CASE kind \in Repeatable -> FALSE
    [] kind = "header"     -> old = "constant"
    [] kind = "path"       -> old = "expr"
    [] OTHER               -> old # "unset"

BadValueNone(kind, v) == v = "bad" /\ kind # "flag"
BadValue(kind, v) == (v = "bad" /\ kind # "flag") \/ (v = "0" /\ kind = "positive")

KeptLast(kind, old, v) == IF kind = "void" THEN old ELSE Stored(kind, v)
KeptValue(kind, old, v) ==
  CASE kind = "void"                  -> old
    [] kind = "flag" /\ old # "unset" -> old
    [] OTHER                          -> Stored(kind, v)

ReadLineResets(t, s, line) ==
  LET d    == line[1]
      kind == t.kinds[d]
  IN  IF ~s.ok \/ (nx_module_common_keyword(d) /\ t.unknown # "rule") THEN s
      ELSE IF d \notin DOMAIN t.kinds THEN [s EXCEPT !.ok = t.unknown = "ignored"]
      ELSE IF AlreadyDefined(kind, s.conf[d]) \/ BadValue(kind, line[2]) THEN [s EXCEPT !.ok = FALSE]
      ELSE [s EXCEPT !.conf = [x \in DOMAIN @ |-> IF x = d THEN KeptValue(kind, @[x], line[2])
                                            ELSE IF <<d, x>> = <<"CSVInputFields", "CSVInputFieldTypes">>
                                            THEN "unset" ELSE @[x]],
                     !.argv = IF d \in {"Command", "Arg"} THEN Append(@, d) ELSE @]

ReadLine(t, s, line) ==
  LET d    == line[1]
      kind == t.kinds[d]
  IN  IF ~s.ok \/ (nx_module_common_keyword(d) /\ t.unknown # "rule") THEN s
      ELSE IF d \notin DOMAIN t.kinds THEN [s EXCEPT !.ok = t.unknown = "ignored"]
      ELSE IF AlreadyDefined(kind, s.conf[d]) \/ BadValue(kind, line[2]) THEN [s EXCEPT !.ok = FALSE]
      ELSE [s EXCEPT !.conf[d] = KeptValue(kind, @, line[2]),
                     !.argv = IF d \in {"Command", "Arg"} THEN Append(@, d) ELSE @]

(* After the last directive: what is missing, what does not go together,   *)
(* and the flags.                                                          *)
nx_cfg_get_boolean(t, c) == \A d \in DOMAIN t.kinds : t.kinds[d] = "flag" => c[d] # "bad"

Together(m, c) ==
  CASE m = "xm_multiline" ->
         /\ c.HeaderLine = "constant" \/ c.EndLine = "constant" \/ c.FixedLineCount # "unset"
         /\ ~(c.HeaderLine = "constant" /\ c.EndLine = "constant")
    [] m = "pm_transformer" ->
         /\ c.InputFormat # "snare"
         /\ c.CSVInputFields # "unset" => c.InputFormat = "csv"
         /\ (c.InputFormat = "csv" /\ c.CSVInputFieldTypes # "unset") =>
              c.CSVInputFieldTypes = c.CSVInputFields
         /\ c.CSVOutputFields # "unset" => c.OutputFormat = "csv"
    [] m = "xm_csv" ->
         /\ c.FieldTypes # "unset" => c.FieldTypes = c.Fields
         /\ ~(c.QuoteOptional # "unset" /\ c.QuoteMethod # "unset")
    [] m = "om_http" -> c.URL = "http" => \A d \in DOMAIN Tls : c[d] = "unset"
    [] OTHER -> TRUE

ReadBlock(m, lines) ==
  LET t == Tables[m]
      s == FoldLeft(LAMBDA r, line : ReadLine(t, r, line),
                    [ok |-> TRUE, conf |-> [d \in DOMAIN t.kinds |-> "unset"], argv |-> <<>>], lines)
  IN  [s EXCEPT !.ok = /\ s.ok /\ Together(m, s.conf)
                       /\ nx_cfg_get_boolean(t, s.conf) \/ (m = "om_http" /\ s.conf.URL = "http")
                       /\ \A d \in t.required : s.conf[d] # "unset"]

-----------------------------------------------------------------------------
VARIABLE cf
(***************************************************************************)
(* module   whose block is read                                            *)
(* lines    its directives so far, <<directive, value>>                    *)
(* more     how many were added to the first ones                          *)
(***************************************************************************)
FirstValue(kind) == CHOOSE v \in {"x", "7", "constant", "http", "two"} : v \in Values(kind)

ModuleConfigInit ==
  \E m \in DOMAIN Tables : \E first \in {{}, Tables[m].required} :
    cf = [module |-> m, more |-> 0,
          lines |-> SetToSeq({<<d, FirstValue(Tables[m].kinds[d])>> : d \in first})]

Directive(d, v) ==
  /\ cf.more < CfLines
  /\ cf' = [cf EXCEPT !.lines = Append(@, <<d, v>>), !.more = @ + 1]

ModuleConfigNext ==
  LET kinds == Tables[cf.module].kinds
  IN  \/ \E d \in DOMAIN kinds : \E v \in Values(kinds[d]) : Directive(d, v)
      \/ \E d \in {"Schedule", "Nonsense"} : Directive(d, "x")

ModuleConfigSpec == ModuleConfigInit /\ [][ModuleConfigNext]_cf

-----------------------------------------------------------------------------
(* The values of the variables.                                            *)
ModuleConfigTypeOK ==
  /\ cf.module \in DOMAIN Tables /\ cf.more \in 0..CfLines
  /\ DOMAIN ReadBlock(cf.module, cf.lines).conf = DOMAIN Tables[cf.module].kinds

(* The values given to d that count: 0, and 65536 cut to 16 bits, do not.  *)
Given(d) == SelectSeq([i \in DOMAIN cf.lines |-> IF cf.lines[i][1] = d THEN cf.lines[i][2] ELSE "0"],
                      LAMBDA v : v \notin {"0", "65536"})

(* A block is accepted only if all it needs is there and no directive that *)
(* counts once has two values; then each directive has the value that was  *)
(* given to it - the first one of a flag, the last one otherwise - and     *)
(* what is in effect is never a value that was refused (om_http only looks *)
(* at the flags of HTTPS when it uses it).                                 *)
ConfigMeansWhatItSays ==
  LET t == Tables[cf.module]
      s == ReadBlock(cf.module, cf.lines)
  IN  s.ok =>
        /\ \A d \in t.required : Given(d) # <<>>
        /\ \A d \in DOMAIN t.kinds :
             LET g == Given(d)
             IN  /\ Len(g) > 1 => t.kinds[d] \in Repeatable \cup {"header", "path"}
                 /\ s.conf[d] = "bad" => cf.module = "om_http" /\ t.kinds[d] = "flag"
                 /\ t.kinds[d] = "positive" => ~\E i \in DOMAIN cf.lines : cf.lines[i] = <<d, "0">>
                 /\ t.kinds[d] # "void" =>
                      s.conf[d] = IF g = <<>> THEN "unset"
                                  ELSE IF t.kinds[d] = "flag" THEN Head(g)
                                  ELSE IF t.kinds[d] = "again" /\ Stored("", Last(SelectSeq(cf.lines,
                                               LAMBDA l : l[1] = d))[2]) = "unset" THEN "unset"
                                  ELSE Last(g)

(* As long as no directive is repeated the order of a block's lines has no *)
(* effect, except that an Arg before the Command of im_exec or om_exec     *)
(* becomes the name the program is called by (argv[0]).                    *)
OrderFree ==
  LET distinct == \A i, j \in DOMAIN cf.lines : i # j => cf.lines[i][1] # cf.lines[j][1]
      s == ReadBlock(cf.module, cf.lines)
      r == ReadBlock(cf.module, Reverse(cf.lines))
  IN  distinct => /\ s.ok = r.ok
                  /\ s.ok => s.conf = r.conf /\ (s.argv = r.argv \/ "Arg" \in DOMAIN s.conf)
=============================================================================
