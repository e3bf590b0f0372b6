----------------------------- MODULE Statements -----------------------------
(***************************************************************************)
(* Functions of C as the parser leaves them: expressions and statements,   *)
(* the rules that make a function valid, and what it does when it runs.    *)
(* A place in a function is the path to it, the indexes of the children on *)
(* the way down; names, jumps and scopes are found by looking up from a    *)
(* place, and a machine moves from place to place.  The function asks its  *)
(* environment by calling: the environment answers with a number.          *)
(***************************************************************************)
EXTENDS Integers, Sequences, SequencesExt

CONSTANTS
    Mod,        \* data are the numbers below Mod and wrap
    Parameter   \* the name of the function's parameter

Undef == -1     \* what an object without a value holds

Numbers == 0 .. Mod - 1
Truth(b) == IF b THEN 1 ELSE 0
----------------------------------------------------------------------------
(* Expressions: a kind, a name, a number and the operands.                 *)
Exp(x, a, n, args) == [x |-> x, a |-> a, n |-> n, args |-> args]

NoExp == Exp("none", "", 0, <<>>)
Absent(e) == e.x = "none"
Const(n) == Exp("const", "", n, <<>>)
Var(a) == Exp("var", a, 0, <<>>)
Operator(x, args) == Exp(x, "", 0, args)

Not(e) == Operator("not", <<e>>)
Binary(x, l, r) == Operator(x, <<l, r>>)       \* "plus", "equal", "and", "or", "comma"
Conditional(c, t, e) == Operator("cond", <<c, t, e>>)
Assign(a, e) == Operator("assign", <<Var(a), e>>)
AddAssign(a, e) == Operator("addassign", <<Var(a), e>>)
Increment(x, a) == Operator(x, <<Var(a)>>)     \* "preinc", "postinc"
Call(e) == Exp("call", "ask", 0, <<e>>)

(* Statements and declarations: a kind, an atom, an expression, children.  *)
Stmt(s, a, e, kids) == [s |-> s, a |-> a, e |-> e, kids |-> kids]

Block(items) == Stmt("block", "", NoExp, items)
Local(a, e) == Stmt("local", a, e, <<>>)
Static(a, n) == Stmt("static", a, Const(n), <<>>)
Do(e) == Stmt("expr", "", e, <<>>)
Null == Stmt("null", "", NoExp, <<>>)
Return(e) == Stmt("return", "", e, <<>>)
If(c, t) == Stmt("if", "", c, <<t>>)
IfElse(c, t, e) == Stmt("if", "", c, <<t, e>>)
While(c, b) == Stmt("while", "", c, <<b>>)
DoWhile(b, c) == Stmt("do", "", c, <<b>>)
For(i, c, post, b) ==
    [s |-> "for", a |-> "", e |-> c, kids |-> <<i, b>>, post |-> post]
Break == Stmt("break", "", NoExp, <<>>)
Continue == Stmt("continue", "", NoExp, <<>>)
Goto(l) == Stmt("goto", l, NoExp, <<>>)
Label(l, b) == Stmt("label", l, NoExp, <<b>>)
Switch(c, b) == Stmt("switch", "", c, <<b>>)
\* A case of one value or of a range; the expression is not evaluated.
CaseOf(r, b) ==
    [s |-> "case", a |-> "", e |-> NoExp, kids |-> <<b>>, range |-> r]
Case(n, b) == CaseOf(<<n>>, b)
Cases(lo, hi, b) == CaseOf(<<lo, hi>>, b)
Default(b) == Stmt("default", "", NoExp, <<b>>)

Loops == {"while", "do", "for"}
Declarations == {"local", "static"}
----------------------------------------------------------------------------
(* Places.                                                                 *)
RECURSIVE At(_, _)
At(t, p) == IF p = <<>> THEN t ELSE At(t.kids[Head(p)], Tail(p))

RECURSIVE Places(_)
Places(t) ==
    {<<>>} \cup UNION {{<<i>> \o p : p \in Places(t.kids[i])} : i \in DOMAIN t.kids}

Around(t, p, kinds) ==
    {q \in {SubSeq(p, 1, n) : n \in 0 .. Len(p) - 1} : At(t, q).s \in kinds}
Nearest(P) == CHOOSE q \in P : \A r \in P : Len(r) <= Len(q)

Labelled(t, l) == {q \in Places(t) : At(t, q).s = "label" /\ At(t, q).a = l}

\* The declarations of a that are in scope at p: those that stand before p,
\* or at p, in a block around it or in the head of a for around it.
Before(t, p) ==
    UNION {{SubSeq(p, 1, n - 1) \o <<i>> : i \in 1 .. p[n]} : n \in DOMAIN p}
        \cup (IF At(t, p).s = "for" THEN {p \o <<1>>} ELSE {})
InScope(t, a, p) ==
    {d \in Before(t, p) : At(t, d).s \in Declarations /\ At(t, d).a = a}

ParameterObject == <<0>>

\* The object that a names at p: the place of its declaration.
Denotes(t, a, p) ==
    IF InScope(t, a, p) # {} THEN Nearest(InScope(t, a, p)) ELSE ParameterObject

RECURSIVE NamesIn(_)
NamesIn(e) ==
    (IF e.x = "var" THEN {e.a} ELSE {}) \cup UNION {NamesIn(e.args[i]) : i \in DOMAIN e.args}

Expressions(n) == {n.e} \cup (IF n.s = "for" THEN {n.post} ELSE {})
----------------------------------------------------------------------------
(* Valid functions: the constraints of C on jumps, labels and names.       *)
JumpsHaveTargets(t) ==
    \A p \in Places(t) :
        /\ At(t, p).s = "break" => Around(t, p, Loops \cup {"switch"}) # {}
        /\ At(t, p).s = "continue" => Around(t, p, Loops) # {}
        /\ At(t, p).s \in {"case", "default"} => Around(t, p, {"switch"}) # {}
        /\ At(t, p).s = "goto" => Labelled(t, At(t, p).a) # {}
        /\ At(t, p).s = "label" => Labelled(t, At(t, p).a) = {p}

NamesAreDeclared(t) ==
    \A p \in Places(t) : \A e \in Expressions(At(t, p)) : \A a \in NamesIn(e) :
        a = Parameter \/ InScope(t, a, p) # {}

\* The parameter belongs to the scope of the outermost block.
DeclaredOnce(t) ==
    \A d \in Places(t) :
        At(t, d).s \in Declarations =>
            /\ Len(d) = 1 => At(t, d).a # Parameter
            /\ \A c \in Places(t) :
                  (At(t, c).s \in Declarations /\ At(t, c).a = At(t, d).a /\ c # d)
                      => Front(c) # Front(d)

Valid(t) == JumpsHaveTargets(t) /\ NamesAreDeclared(t) /\ DeclaredOnce(t)
----------------------------------------------------------------------------
(* Expressions have a value, change objects and call.  An evaluation is    *)
(* given the answers to its first calls and stops when they are used up    *)
(* ("ask", with the argument) or when it reads an object without a value.  *)
Write(r, o, v) == [r EXCEPT !.store[o] = v, !.v = v]

RECURSIVE Eval(_, _, _, _)
Eval(t, p, e, r) ==
    LET arg(i, s) == Eval(t, p, e.args[i], s)
        object == Denotes(t, e.args[1].a, p)
        first == arg(1, r)
        second == arg(2, first)
        truth(s) == IF s.is = "value" THEN [s EXCEPT !.v = Truth(@ # 0)] ELSE s
        bump(s, by) == Write(s, object, (s.v + by) % Mod)
    IN  IF r.is # "value" THEN r
        ELSE CASE e.x = "const" -> [r EXCEPT !.v = e.n]
               [] e.x = "var" ->
                    LET v == r.store[Denotes(t, e.a, p)]
                    IN  IF v = Undef THEN [r EXCEPT !.is = "undefined"] ELSE [r EXCEPT !.v = v]
               [] e.x = "assign" ->
                    LET s == arg(2, r) IN IF s.is = "value" THEN Write(s, object, s.v) ELSE s
               [] e.x = "addassign" ->
                    LET s == arg(2, r)
                        old == arg(1, s)
                    IN  IF old.is = "value" THEN bump(old, s.v) ELSE old
               [] e.x = "preinc" -> IF first.is = "value" THEN bump(first, 1) ELSE first
               [] e.x = "postinc" ->
                    IF first.is = "value" THEN [bump(first, 1) EXCEPT !.v = first.v] ELSE first
               [] e.x = "not" ->
                    IF first.is = "value" THEN [first EXCEPT !.v = Truth(@ = 0)] ELSE first
               [] e.x = "and" ->
                    IF first.is = "value" /\ first.v = 0 THEN first ELSE truth(second)
               [] e.x = "or" ->
                    IF first.is = "value" /\ first.v # 0 THEN truth(first) ELSE truth(second)
               [] e.x = "cond" -> IF first.is # "value" THEN first
                                  ELSE IF first.v # 0 THEN second ELSE arg(3, first)
               [] e.x = "comma" -> second
               [] e.x = "plus" ->
                    IF second.is = "value" THEN [second EXCEPT !.v = (first.v + @) % Mod] ELSE second
               [] e.x = "equal" ->
                    IF second.is = "value" THEN [second EXCEPT !.v = Truth(first.v = @)] ELSE second
               [] e.x = "call" ->
                    IF first.is # "value" THEN first
                    ELSE IF first.left = <<>> THEN [first EXCEPT !.is = "ask"]
                    ELSE [first EXCEPT !.v = Head(first.left), !.left = Tail(first.left)]
               [] OTHER -> [r EXCEPT !.v = 1]    \* the condition of for (;;)
----------------------------------------------------------------------------
(* Control: a place and what is done there, "enter" a statement, "test"    *)
(* the condition of a loop, evaluate the "post" expression of a for.       *)
Control(p, do) == [at |-> p, do |-> do]
Enter(p) == Control(p, "enter")
Test(p) == Control(p, "test")
Ended == Control(<<>>, "end")

\* Where control goes when the statement at p has completed.
RECURSIVE After(_, _)
After(t, p) ==
    IF p = <<>> THEN Ended
    ELSE LET q == Front(p)
             n == At(t, q)
         IN  CASE n.s = "block" /\ Last(p) < Len(n.kids) -> Enter(q \o <<Last(p) + 1>>)
               [] n.s \in {"while", "do"} -> Test(q)
               [] n.s = "for" /\ Last(p) = 1 -> Test(q)
               [] n.s = "for" /\ Last(p) = 2 -> Control(q, "post")
               [] OTHER -> After(t, q)

Again(t, q) == IF At(t, q).s = "for" THEN Control(q, "post") ELSE Test(q)

InRange(v, r) == Head(r) <= v /\ v <= Last(r)

\* The labels of the switch at p, not those of a switch inside it.
Of(t, p, kind) ==
    {q \in Places(t) : At(t, q).s = kind /\ Around(t, q, {"switch"}) # {}
                       /\ Nearest(Around(t, q, {"switch"})) = p}
Selected(t, p, v) ==
    LET match == {q \in Of(t, p, "case") : InRange(v, At(t, q).range)}
        chosen == IF match # {} THEN match ELSE Of(t, p, "default")
    IN  IF chosen # {} THEN Enter(CHOOSE q \in chosen : TRUE) ELSE After(t, p)

\* Where control goes from c, whose expression has the value v.
Following(t, c, v) ==
    LET p == c.at
        n == At(t, p)
        kid(i) == Enter(p \o <<i>>)
    IN  CASE c.do = "post" -> Test(p)
          [] c.do = "test" -> IF v # 0 THEN kid(Len(n.kids)) ELSE After(t, p)
          [] n.s = "while" -> Test(p)
          [] n.s \in {"label", "case", "default", "do", "for"} -> kid(1)
          [] n.s = "block" /\ n.kids # <<>> -> kid(1)
          [] n.s = "if" /\ v # 0 -> kid(1)
          [] n.s = "if" /\ v = 0 /\ Len(n.kids) = 2 -> kid(2)
          [] n.s = "switch" -> Selected(t, p, v)
          [] n.s = "break" -> After(t, Nearest(Around(t, p, Loops \cup {"switch"})))
          [] n.s = "continue" -> Again(t, Nearest(Around(t, p, Loops)))
          [] n.s = "goto" -> Enter(CHOOSE q \in Labelled(t, n.a) : TRUE)
          [] OTHER -> After(t, p)
----------------------------------------------------------------------------
(* The machine: control, what the objects hold, and the answers that the   *)
(* calls of the current expression have had.                               *)
Objects(t) == {ParameterObject} \cup {d \in Places(t) : At(t, d).s \in Declarations}
IsAutomatic(t, o) == o # ParameterObject /\ At(t, o).s = "local"

Lives(o, c) ==
    \/ IsStrictPrefix(Front(o), c.at)
    \/ c.at = Front(o) /\ c.do \in {"test", "post"}

Begin(t, v) ==
    [c |-> Enter(<<>>), answers |-> <<>>,
     store |-> [o \in Objects(t) |->
                  IF o = ParameterObject THEN v
                  ELSE IF At(t, o).s = "static" THEN At(t, o).e.n ELSE Undef]]

\* The expression evaluated at c; there is none where a loop is entered.
ExpressionAt(t, c) ==
    LET n == At(t, c.at)
    IN  IF c.do = "post" THEN n.post
        ELSE IF n.s \in {"block", "static"} \/ (n.s \in Loops /\ c.do = "enter") THEN NoExp
        ELSE n.e

Value(t, m) ==
    Eval(t, m.c.at, ExpressionAt(t, m.c),
         [is |-> "value", v |-> 0, store |-> m.store, left |-> m.answers])

\* What the environment sees: a call, a return, or nothing it can rely on.
Event(t, m) ==
    IF m.c = Ended THEN [k |-> "return", v |-> Undef]
    ELSE LET r == Value(t, m)
         IN  CASE r.is = "ask" -> [k |-> "call", v |-> r.v]
               [] r.is = "undefined" -> [k |-> "undefined", v |-> Undef]
               [] r.is = "value" /\ At(t, m.c.at).s = "return" -> [k |-> "return", v |-> r.v]
               [] OTHER -> [k |-> "none", v |-> Undef]

\* An object loses its value when its scope is entered and whenever its
\* declaration is reached.
Step(t, m) ==
    LET r == Value(t, m)
        n == At(t, m.c.at)
        c == Following(t, m.c, r.v)
        declared == IF n.s = "local" /\ m.c.do = "enter" THEN {m.c.at} ELSE {}
    IN  [c |-> c, answers |-> <<>>,
         store |-> [o \in DOMAIN m.store |->
                      IF o \in declared THEN IF Absent(n.e) THEN Undef ELSE r.v
                      ELSE IF IsAutomatic(t, o) /\ Lives(o, c) /\ ~Lives(o, m.c) THEN Undef
                      ELSE r.store[o]]]

Answered(m, v) == [m EXCEPT !.answers = Append(@, v)]
============================================================================
