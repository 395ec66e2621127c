-------------------------------- MODULE Expr --------------------------------
(***************************************************************************)
(* The expressions and statements of the configuration language            *)
(* (src/common/expr.c, nx_value_eq() of src/common/value.c): what the      *)
(* parser accepts and which type it gives an operation, and what the       *)
(* operation evaluates to.  Evaluation is by value, so the state keeps the *)
(* value of the expression built so far, not its tree: a step makes it an  *)
(* operand of one more operation, or executes a statement with it.         *)
(***************************************************************************)
EXTENDS Integers, Sequences, FiniteSets

CONSTANT ExDepth   \* bound: operations in an expression, statements after it

ASSUME ExprAssumption == ExDepth \in Nat

(* A value has a type even when it is undefined.  "ANY" is a type that was *)
(* never set: the arithmetic operations leave it so in an undefined result.*)
Defd(t, v)  == [type |-> t, defined |-> TRUE, val |-> v]
Undefd(t)   == [type |-> t, defined |-> FALSE, val |-> 0]
Throw       == [type |-> "THROW", defined |-> FALSE, val |-> 0]
Bool(b)     == Defd("BOOLEAN", IF b THEN 1 ELSE 0)

(* Operands: literals and captured strings have a type for the parser,     *)
(* fields and undef do not.  A string is a sequence of its parts.          *)
ExValues == { Defd("INTEGER", 0), Defd("INTEGER", 1), Defd("STRING", <<"s">>),
              Defd("DATETIME", 1), Bool(TRUE), Bool(FALSE) }
ExprLeaves == {[static |-> v.type, value |-> v] : v \in ExValues}
          \cup {[static |-> "UNKNOWN", value |-> v] : v \in ExValues \cup {Undefd("UNKNOWN")}}
          \cup {[static |-> "STRING", value |-> Undefd("STRING")]}

Compares   == {"==", "!="}
Orders     == {"<", "<=", ">", ">="}
Connects   == {"and", "or"}
Arithmetic == {"+", "-", "*", "/", "%"}

(* Mutant of StaticType: a datetime difference is a datetime.              *)
StaticTypeDatetime(op, l, r) ==
  CASE op \in Compares \cup Orders \cup Connects -> "BOOLEAN"
    [] op \in Arithmetic /\ "UNKNOWN" \in {l, r} -> "UNKNOWN"
    [] op \in {"+", "-"} /\ l = "DATETIME" -> "DATETIME"
    [] op \in Arithmetic /\ l = "INTEGER" /\ r = "INTEGER" -> "INTEGER"
    [] OTHER -> "STRING"

(* nx_expr_new_binop(): the type of an operation that is accepted.         *)
StaticType(op, l, r) ==
  CASE op \in Compares \cup Orders \cup Connects -> "BOOLEAN"
    [] op \in Arithmetic /\ "UNKNOWN" \in {l, r} -> "UNKNOWN"
    [] op \in Arithmetic /\ l = "INTEGER" /\ r = "INTEGER" -> "INTEGER"
    [] op \in {"+", "-"} /\ l = "DATETIME" /\ r = "INTEGER" -> "DATETIME"
    [] op \in {"+", "-"} /\ l = "DATETIME" /\ r = "DATETIME" -> "INTEGER"
    [] OTHER -> "STRING"

Accepted(op, l, r) ==
  \/ "UNKNOWN" \in {l, r}
  \/ op \in Compares /\ l = r
  \/ op \in Orders /\ l = r /\ l \in {"INTEGER", "DATETIME"}
  \/ op \in Connects /\ l = "BOOLEAN" /\ r = "BOOLEAN"
  \/ op \in Arithmetic /\ l = "INTEGER" /\ r = "INTEGER"
  \/ op \in {"+", "-"} /\ l = "DATETIME" /\ r \in {"INTEGER", "DATETIME"}
  \/ op = "+" /\ "STRING" \in {l, r}

(* _equal() and _notequal()                                                *)
Equality(op, l, r) ==
  CASE r = Throw -> Throw
    [] r # Throw /\ ~l.defined /\ ~r.defined -> Bool(op = "==")
    [] r # Throw /\ l.defined # r.defined -> Undefd("BOOLEAN")
    [] OTHER -> IF l.type # r.type THEN Throw ELSE Bool((l.val = r.val) = (op = "=="))

(* Most operations look at the right operand only if the left is defined.  *)
Strict(l, r, undef, result) ==
  CASE ~l.defined -> undef
    [] l.defined /\ r = Throw -> Throw
    [] l.defined /\ r # Throw /\ ~r.defined -> undef
    [] OTHER -> result

(* _less(), _le(), _greater(), _greater_equal()                            *)
Less(a, op, b) ==
  CASE op = "<" -> a < b [] op = "<=" -> a <= b [] op = ">" -> a > b [] op = ">=" -> a >= b

Ordering(op, l, r) ==
  Strict(l, r, Undefd("BOOLEAN"),
         IF l.type = r.type /\ l.type \in {"INTEGER", "DATETIME"}
         THEN Bool(Less(l.val, op, r.val)) ELSE Throw)

(* Mutant of And: an undefined right operand counts as FALSE.              *)
AndUndefTrue(l, r) ==
  IF l = Bool(FALSE) THEN Bool(FALSE)
  ELSE IF l.defined /\ r # Throw /\ ~r.defined THEN l
  ELSE Strict(l, r, Undefd("BOOLEAN"),
              IF l.type = "BOOLEAN" /\ r.type = "BOOLEAN" THEN r ELSE Throw)

(* _and(): FALSE on the left decides.                                      *)
And(l, r) ==
  IF l = Bool(FALSE) THEN Bool(FALSE)
  ELSE Strict(l, r, Undefd("BOOLEAN"),
              IF l.type = "BOOLEAN" /\ r.type = "BOOLEAN" THEN r ELSE Throw)

(* _or(): TRUE on the left decides; the types are looked at even when the  *)
(* operands are undefined, so an unset field on the left is an error.  A   *)
(* type that was never set may be any.                                     *)
Or(l, r) ==
  LET right == IF r.type = "BOOLEAN" THEN {r}
               ELSE IF r.type = "ANY" THEN {Throw, Undefd("BOOLEAN")} ELSE {Throw}
  IN  IF l.type \notin {"BOOLEAN", "ANY"} THEN {Throw}
      ELSE (IF l = Bool(TRUE) THEN {l} ELSE right)
           \cup (IF l.type = "ANY" THEN {Throw} ELSE {})

(* nx_value_to_string()                                                    *)
ToString(v) == IF v.type = "STRING" THEN v.val ELSE <<v>>

(* _plus(): a string absorbs what is undefined.                            *)
Plus(l, r) ==
  CASE r = Throw -> Throw
    [] r # Throw /\ l.defined /\ ~r.defined ->
         IF l.type = "STRING" THEN l ELSE Undefd("UNKNOWN")
    [] r # Throw /\ ~l.defined ->
         IF r.defined /\ r.type = "STRING" THEN r ELSE Undefd("UNKNOWN")
    [] OTHER ->
         CASE "STRING" \in {l.type, r.type} -> Defd("STRING", ToString(l) \o ToString(r))
           [] l.type = "INTEGER" /\ r.type = "INTEGER" -> Defd("INTEGER", l.val + r.val)
           [] {l.type, r.type} = {"INTEGER", "DATETIME"} -> Defd("DATETIME", l.val + r.val)
           [] OTHER -> Throw

(* _minus()                                                                *)
Minus(l, r) ==
  Strict(l, r, Undefd("ANY"),
         CASE l.type = r.type /\ l.type \in {"INTEGER", "DATETIME"} ->
                Defd("INTEGER", l.val - r.val)
           [] l.type = "DATETIME" /\ r.type = "INTEGER" -> Defd("DATETIME", l.val - r.val)
           [] OTHER -> Throw)

(* _mul(), _div(), _mod().  Division by zero is not caught: the process    *)
(* is killed.                                                              *)
Multiply(op, l, r) ==
  Strict(l, r, Undefd("ANY"),
         IF l.type = "INTEGER" /\ r.type = "INTEGER"
         THEN Defd("INTEGER", CASE op = "*" -> l.val * r.val [] OTHER -> IF op = "/" THEN l.val ELSE 0)
         ELSE Throw)

(* The outcomes of a binary operation, whose right operand is evaluated    *)
(* only when it is needed.                                                 *)
Binop(op, l, r) ==
  IF l = Throw THEN {Throw}
  ELSE CASE op \in Compares -> {Equality(op, l, r)}
         [] op \in Orders   -> {Ordering(op, l, r)}
         [] op = "and"      -> {And(l, r)}
         [] op = "or"       -> Or(l, r)
         [] op = "+"        -> {Plus(l, r)}
         [] op = "-"        -> {Minus(l, r)}
         [] OTHER           -> {Multiply(op, l, r)}

(* _not(), _defined()                                                      *)
Not(v) ==
  CASE ~v.defined -> IF v = Throw THEN Throw ELSE Undefd("BOOLEAN")
    [] v.defined /\ v.type = "BOOLEAN" -> Bool(v.val = 0)
    [] OTHER -> Throw

Defined(v) == IF v = Throw THEN Throw ELSE Bool(v.defined)

(* nx_value_eq(), with which _inop() looks an operand up in a list.        *)
ValueEq(v, w) == v.type = w.type /\ v.defined = w.defined /\ v.val = w.val

In(v, w) == CASE v = Throw -> Throw
              [] v # Throw /\ ~v.defined -> Undefd("BOOLEAN")
              [] OTHER -> Bool(ValueEq(v, w))

VARIABLE ex
(***************************************************************************)
(* ex.static   the type the parser has given the expression                *)
(* ex.value    what it evaluates to; Throw for an error                    *)
(* ex.ops      operations and statements so far                            *)
(* ex.status   of the list of statements: dropped after drop(), aborted    *)
(*             by an error                                                 *)
(* ex.fields   how many assignments there were                             *)
(* ex.expected history: how many there were when the list ended            *)
(***************************************************************************)

ExprInit == \E x \in ExprLeaves : ex = [static |-> x.static, value |-> x.value, ops |-> 0,
                                    status |-> "running", fields |-> 0, expected |-> 0]

More == ex.ops < ExDepth /\ ex.status = "running" /\ ex.fields = 0

(* nx_expr_evaluate() of one more operation, on either side.               *)
BinopLeft(op, x) ==
  /\ More /\ Accepted(op, ex.static, x.static)
  /\ op \in {"/", "%"} => x.value = Defd("INTEGER", 1)
  /\ \E v \in Binop(op, ex.value, x.value) :
       ex' = [ex EXCEPT !.static = StaticType(op, ex.static, x.static), !.value = v, !.ops = @ + 1]

BinopRight(op, x) ==
  /\ More /\ Accepted(op, x.static, ex.static) /\ op \notin {"/", "%"}
  /\ \E v \in Binop(op, x.value, ex.value) :
       ex' = [ex EXCEPT !.static = StaticType(op, x.static, ex.static), !.value = v, !.ops = @ + 1]

(* nx_expr_new_unop(), nx_expr_new_inop()                                  *)
Unop ==
  /\ More
  /\ \/ /\ ex.static \in {"BOOLEAN", "UNKNOWN"}
        /\ ex' = [ex EXCEPT !.static = "BOOLEAN", !.value = Not(@), !.ops = @ + 1]
     \/ ex' = [ex EXCEPT !.static = "BOOLEAN", !.value = Defined(@), !.ops = @ + 1]
     \/ \E x \in ExprLeaves :
          ex' = [ex EXCEPT !.static = "BOOLEAN", !.value = In(@, x.value), !.ops = @ + 1]

(* The condition of an if: undefined is false, zero too.                   *)
Holds3(v) == v.defined /\ ~(v.type \in {"BOOLEAN", "INTEGER"} /\ v.val = 0)

(* Mutant of Statement: drop() does not end the list.                      *)
StatementGoesOn(s, kind) ==
  CASE kind = "drop" ->
         [s EXCEPT !.status = "dropped", !.expected = IF s.status = "running" THEN s.fields ELSE @]
    [] kind # "drop" /\ s.value = Throw -> [s EXCEPT !.status = "aborted", !.expected = s.fields]
    [] kind # "drop" /\ s.value # Throw /\ (kind = "assign" \/ Holds3(s.value)) ->
         [s EXCEPT !.fields = @ + 1]
    [] OTHER -> s

(* nx_expr_statement_execute(): an assignment, an assignment under an if,  *)
(* drop().  After drop() the rest of the list is passed over; an error     *)
(* leaves the list.                                                        *)
Statement(s, kind) ==
  CASE s.status # "running" -> s
    [] s.status = "running" /\ kind = "drop" ->
         [s EXCEPT !.status = "dropped", !.expected = s.fields]
    [] s.status = "running" /\ kind # "drop" ->
         CASE s.value = Throw -> [s EXCEPT !.status = "aborted", !.expected = s.fields]
           [] s.value # Throw /\ (kind = "assign" \/ Holds3(s.value)) ->
                [s EXCEPT !.fields = @ + 1]
           [] OTHER -> s

(* nx_expr_statement_list_execute() moves on to its next statement.        *)
Execute(kind) ==
  /\ ex.ops < ExDepth + 2 /\ ex.status # "aborted"
  /\ ex' = [Statement(ex, kind) EXCEPT !.ops = @ + 1]

ExprNext ==
  \/ \E op \in Compares \cup Orders \cup Connects \cup Arithmetic, x \in ExprLeaves :
       BinopLeft(op, x) \/ BinopRight(op, x)
  \/ Unop
  \/ \E kind \in {"assign", "if", "drop"} : Execute(kind)

ExprSpec == ExprInit /\ [][ExprNext]_ex
-----------------------------------------------------------------------------
(* Type invariant.                                                         *)
ExprTypeOK ==
  /\ ex.static \in {"UNKNOWN", "INTEGER", "STRING", "BOOLEAN", "DATETIME"}
  /\ ex.value.defined \in BOOLEAN /\ ex.status \in {"running", "dropped", "aborted"}

(* What an expression evaluates to has the type the parser gave it,        *)
(* however the operations are nested.                                      *)
StaticSound ==
  (ex.value.defined /\ ex.static # "UNKNOWN") => ex.value.type = ex.static

NoThrow(set) == Throw \notin set

(* IN, which compares by nx_value_eq(), finds what == finds; and to an if  *)
(* it does not matter in which order the operands of "and" and "or" are    *)
(* written, as long as neither order is an error.                          *)
OperatorsAgree ==
  \A x \in ExprLeaves :
     LET v == ex.value
         w == x.value
     IN  v # Throw =>
           /\ (v.defined /\ w.defined /\ v.type = w.type) => In(v, w) = Equality("==", v, w)
           /\ \A op \in Connects :
                NoThrow(Binop(op, v, w) \cup Binop(op, w, v)) =>
                  {Holds3(u) : u \in Binop(op, v, w)} = {Holds3(u) : u \in Binop(op, w, v)}

(* Nothing is executed behind a drop() or an error.                        *)
EndsThere == ex.status # "running" => ex.fields = ex.expected
=============================================================================
