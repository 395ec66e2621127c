----------------------------- MODULE ConfParser -----------------------------
(***************************************************************************)
(* The parser of the configuration file (src/common/confparser.c): lines   *)
(* make a tree of directives and sections, through include files, sections *)
(* whose body is not parsed (<Exec>) and definitions.  A line is one step; *)
(* spelling, quoting, white space and continued lines are left out.        *)
(***************************************************************************)
EXTENDS Naturals, Sequences, FiniteSets

CONSTANTS CpLines,     \* bound: lines, all files together
          CpDepth,     \* NX_CFG_PARSER_MAX_DEPTH
          CpIncludes   \* bound: files included in each other

ASSUME ConfParserAssumption == CpLines \in Nat /\ CpDepth \in Nat \ {0} /\ CpIncludes \in Nat

CpTags == {"A", "B"}
CpVars == {"V", "W"}
CpText == "x"
CpTexts == {CpText, "y"}

VARIABLE cp
(***************************************************************************)
(* nodes    the directives made so far, nodes[1] the root: name, argument, *)
(*          parent, first_child, next (0: NULL), lines of a body           *)
(* files    the parser context of each file that is open, the last one     *)
(*          being read: current, next_is_child, levels, dont_parse         *)
(* defines  the definitions, newest first                                  *)
(* lines    lines read                                                     *)
(* state    "reading", "done", "error", "hung"                             *)
(* inside   history: the sections open at this place, in all files         *)
(* within   history: the section each node was written in                  *)
(* means    history: what each variable stands for (itself: nothing)       *)
(* forward  history: something was defined by a variable not defined yet   *)
(* meant    history: the argument each node should have                    *)
(* empty    history: a section was closed that had nothing in it           *)
(***************************************************************************)
CpContext(current, child) ==
  [current |-> current, child |-> child, levels |-> <<>>, body |-> FALSE]
CpNode(name, arg) == [name |-> name, arg |-> arg, parent |-> 0, child |-> 0, next |-> 0, body |-> 0]

ConfParserInit ==
  cp = [nodes |-> <<CpNode("Root", CpText)>>, files |-> <<CpContext(1, TRUE)>>, defines |-> <<>>,
        lines |-> 0, state |-> "reading", inside |-> <<1>>, within |-> <<0>>,
        means |-> [v \in CpVars |-> v], meant |-> <<CpText>>, forward |-> FALSE,
        empty |-> FALSE]

Top(c) == c.files[Len(c.files)]
CpFails(c) == [c EXCEPT !.state = "error"]

SubstOldest(c, arg) ==
  LET of == {i \in DOMAIN c.defines : c.defines[i].name = arg}
  IN  IF of = {} THEN arg ELSE c.defines[CHOOSE i \in of : \A j \in of : j <= i].value
(* nx_cfg_subst_defines(): the definitions in turn, the newest first, each *)
(* as long as its variable is there.                                       *)
Subst(c, arg) ==
  LET s[n \in 0..Len(c.defines)] ==
        IF n = 0 THEN arg
        ELSE IF s[n - 1] = c.defines[n].name THEN c.defines[n].value ELSE s[n - 1]
  IN  s[Len(c.defines)]
SubstHangs(c, arg) ==
  \E i \in DOMAIN c.defines :
    /\ c.defines[i].name = c.defines[i].value
    /\ Subst([c EXCEPT !.defines = SubSeq(@, 1, i - 1)], arg) = c.defines[i].name

(* add_node()                                                              *)
AddNodeOrphan(c, name, arg, meant) ==
  LET ctx == Top(c)
      n   == Len(c.nodes) + 1
  IN  [c EXCEPT !.nodes = Append(IF ctx.child THEN [@ EXCEPT ![ctx.current].child = n]
                                 ELSE [@ EXCEPT ![ctx.current].next = n],
                                 [CpNode(name, arg) EXCEPT !.parent = ctx.current]),
                !.within = Append(@, c.inside[Len(c.inside)]), !.meant = Append(@, meant),
                !.files[Len(c.files)].current = n, !.files[Len(c.files)].child = FALSE]
AddNode(c, name, arg, meant) ==
  LET ctx  == Top(c)
      n    == Len(c.nodes) + 1
      up   == IF ctx.child THEN ctx.current
        ELSE IF c.nodes[ctx.current].parent = 0 THEN 1 ELSE c.nodes[ctx.current].parent
      with == [c EXCEPT !.nodes = Append(@, [CpNode(name, arg) EXCEPT !.parent = up]),
                        !.within = Append(@, c.inside[Len(c.inside)]), !.meant = Append(@, meant),
                        !.files[Len(c.files)].current = n, !.files[Len(c.files)].child = FALSE]
  IN  IF ctx.child THEN [with EXCEPT !.nodes[ctx.current].child = n]
      ELSE [with EXCEPT !.nodes[ctx.current].next = n]

-----------------------------------------------------------------------------
Meaning(c, arg) == IF arg \in CpVars THEN c.means[arg] ELSE arg

(* nx_cfg_parse_line(), the kinds of line in turn.  A directive, with an   *)
(* argument that may be a variable.                                        *)
DirectiveLine(c, arg) ==
  IF SubstHangs(c, arg) THEN [c EXCEPT !.state = "hung"]
  ELSE AddNode(c, "dir", Subst(c, arg), Meaning(c, arg))

(* A comment, and an empty line.                                           *)
CommentLine(c) == c

(* define                                                                  *)
DefineLine(c, var, arg) ==
  IF SubstHangs(c, arg) THEN [c EXCEPT !.state = "hung"]
  ELSE [c EXCEPT !.defines = <<[name |-> var, value |-> Subst(c, arg)]>> \o @,
                       !.means[var] = Meaning(c, arg), !.forward = @ \/ Meaning(c, arg) \in CpVars]

(* An opening tag; the body of <Exec> is not parsed (need_body_parsed()).  *)
OpenTag(c, tag) ==
  LET o == AddNode(c, tag, CpText, CpText)
      k == Len(c.files)
  IN  IF Len(Top(c).levels) >= CpDepth THEN CpFails(o)
      ELSE [o EXCEPT !.files[k].child = TRUE, !.files[k].levels = Append(@, Len(o.nodes)),
                           !.files[k].body = tag = "Exec", !.inside = Append(@, Len(o.nodes))]

(* A closing tag.  The parser goes up from the last directive of the       *)
(* section to the section, and on to the last of its siblings; where the   *)
(* section is empty it goes up from the section itself.                    *)
LastSibling(nodes, n) ==
  LET l[i \in 0..Len(nodes)] ==
        IF i = 0 THEN n ELSE IF nodes[l[i - 1]].next = 0 THEN l[i - 1] ELSE nodes[l[i - 1]].next
  IN  l[Len(nodes)]
CloseTagStays(c, tag) ==
  LET ctx == Top(c)
      k   == Len(c.files)
  IN  IF ctx.levels = <<>> THEN CpFails(c)
      ELSE IF c.nodes[ctx.levels[Len(ctx.levels)]].name # tag THEN CpFails(c)
      ELSE [c EXCEPT !.files[k].levels = SubSeq(@, 1, Len(@) - 1), !.files[k].child = FALSE,
                            !.files[k].body = FALSE, !.inside = SubSeq(@, 1, Len(@) - 1),
                            !.empty = @ \/ (ctx.child /\ ~ctx.body)]
CloseTag(c, tag) ==
  LET ctx == Top(c)
      k   == Len(c.files)
      up  == IF ctx.body THEN ctx.current ELSE c.nodes[ctx.current].parent
  IN  IF ctx.levels = <<>> THEN CpFails(c)
      ELSE IF c.nodes[ctx.levels[Len(ctx.levels)]].name # tag THEN CpFails(c)
      ELSE [c EXCEPT !.files[k].current = LastSibling(c.nodes, up),
                            !.files[k].levels = SubSeq(@, 1, Len(@) - 1),
                            !.files[k].child = FALSE, !.files[k].body = FALSE,
                            !.inside = SubSeq(@, 1, Len(@) - 1),
                            !.empty = @ \/ (ctx.child /\ ~ctx.body)]

(* A line within <Exec> is added to its argument.                          *)
BodyLine(c) == [c EXCEPT !.nodes[Top(c).current].body = @ + 1]

(* include: a context of its own for each file, which starts where the     *)
(* including one is.  A wildcard may match nothing.                        *)
IncludeFails(c) == CpFails(c)
IncludeLine(c) ==
  [c EXCEPT !.files = Append(@, CpContext(Top(c).current, Top(c).child))]

(* nx_cfg_parse(): the end of a file, with its sections closed.  The       *)
(* including one goes on where the included one ended; with the first file *)
(* nx_ctx_parse_cfg() goes on.                                             *)
EndOfFile(c) ==
  LET ctx == Top(c)
      k   == Len(c.files) - 1
  IN  IF ctx.levels # <<>> THEN CpFails(c)
      ELSE IF k = 0 THEN (IF c.nodes[1].child = 0 THEN CpFails(c) ELSE [c EXCEPT !.state = "done"])
      ELSE [c EXCEPT !.files = [SubSeq(@, 1, k) EXCEPT ![k].current = ctx.current,
                                                              ![k].child = ctx.child]]

(* nx_cfg_getline(): the next line, continued ones joined.                 *)
Getline(c) == cp.lines < CpLines /\ cp' = [c EXCEPT !.lines = @ + 1]
ConfParserNext ==
  /\ cp.state = "reading"
  /\ \/ cp' = EndOfFile(cp)
     \/ Top(cp).body /\ (Getline(BodyLine(cp)) \/ Getline(CloseTag(cp, "Exec")))
     \/ /\ ~Top(cp).body
        /\ \/ \E arg \in CpVars \cup CpTexts : Getline(DirectiveLine(cp, arg))
           \/ \E var \in CpVars, arg \in CpVars \cup CpTexts : Getline(DefineLine(cp, var, arg))
           \/ Getline(CommentLine(cp)) \/ Getline(IncludeFails(cp))
           \/ Len(cp.files) <= CpIncludes /\ Getline(IncludeLine(cp))
           \/ \E tag \in CpTags \cup {"Exec"} : Getline(OpenTag(cp, tag)) \/ Getline(CloseTag(cp, tag))

ConfParserSpec == ConfParserInit /\ [][ConfParserNext]_cp

-----------------------------------------------------------------------------
(* The directives of a section as the modules find them: its first child   *)
(* and what follows.                                                       *)
Directives(nodes, s) ==
  LET d[i \in 0..Len(nodes)] ==
        IF nodes[s].child = 0 THEN <<>>
        ELSE IF i = 0 THEN <<nodes[s].child>>
        ELSE LET l == d[i - 1][Len(d[i - 1])]
             IN  IF nodes[l].next = 0 THEN d[i - 1] ELSE Append(d[i - 1], nodes[l].next)
  IN  d[Len(nodes)]

(* The values of the variables.                                            *)
ConfParserTypeOK ==
  /\ \A n \in DOMAIN cp.nodes :
       {cp.nodes[n].parent, cp.nodes[n].child, cp.nodes[n].next} \subseteq 0..Len(cp.nodes)
  /\ cp.state \in {"reading", "done", "error", "hung"} /\ Len(cp.files) \in 1..CpIncludes + 1
  /\ \A k \in DOMAIN cp.files : Len(cp.files[k].levels) <= CpDepth

(* Each section has the directives that were written in it, in order and   *)
(* none else, whatever file they come from.                                *)
TreeOf(c) ==
  \A s \in DOMAIN c.nodes :
    LET ds == Directives(c.nodes, s)
    IN  /\ {ds[i] : i \in DOMAIN ds} = {n \in DOMAIN c.nodes : c.within[n] = s}
        /\ \A i, j \in DOMAIN ds : i < j => ds[i] < ds[j]
        /\ \A i \in DOMAIN ds : c.nodes[ds[i]].parent = s

(* So it is where no section is empty (the end of an empty one moves up    *)
(* two levels, confparser.c:442-445); and where no definition refers to a  *)
(* later one, a variable in an argument has been replaced by what was last *)
(* defined for it.                                                         *)
ParsedAsWritten ==
  cp.state = "done" =>
    /\ ~cp.empty => TreeOf(cp)
    /\ ~cp.forward => \A n \in DOMAIN cp.nodes : cp.nodes[n].arg = cp.meant[n]
=============================================================================
