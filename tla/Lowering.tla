------------------------------ MODULE Lowering ------------------------------
(***************************************************************************)
(* From the tree of a function to TACKY: the resolver (src/resolve.rs),    *)
(* which gives every object a name of its own and every jump its label,    *)
(* and the generator (src/tacky/generator), which turns the resolved tree  *)
(* into instructions.  Then the function as it was written and the code    *)
(* run side by side against one environment.                               *)
(***************************************************************************)
EXTENDS Statements

CONSTANT MaxAnswers     \* the calls that the environment answers

VARIABLES
    function, \* the body of the function as it was written
    code,     \* its instructions, and the initial values of its static variables
    phase,    \* "text", "parsed", "rejected", "source", "target", "event", "done"
    source,   \* the machine that runs function
    target,   \* the machine that runs code
    asked     \* the calls answered so far
----------------------------------------------------------------------------
(* The resolver threads a record through the tree: the scopes (a sequence  *)
(* of functions from names to unique names), the labels that break and     *)
(* continue stand for, and its counters.                                   *)
Scopes(r) == Len(r.scopes)
PushScope(r) == [r EXCEPT !.scopes = Append(@, <<>>)]
PopScope(r) == [r EXCEPT !.scopes = Front(@)]
Failed(r) == [r EXCEPT !.error = TRUE]

DeclareVar(a, r) ==
    IF a \in DOMAIN Last(r.scopes) THEN Failed(r)
    ELSE [r EXCEPT !.scopes[Scopes(r)] = (a :> <<a, r.vars>>) @@ @, !.vars = @ + 1]

Declaring(a, r) == {i \in 1 .. Scopes(r) : a \in DOMAIN r.scopes[i]}
ResolveVar(a, r) == r.scopes[Max(Declaring(a, r))][a]

RECURSIVE ResolveExp(_, _)
ResolveExp(e, r) ==
    IF e.x = "var" THEN [e EXCEPT !.a = ResolveVar(@, r)]
    ELSE [e EXCEPT !.args = [i \in DOMAIN @ |-> ResolveExp(@[i], r)]]

Undeclared(e, r) == \E a \in NamesIn(e) : Declaring(a, r) = {}

\* The statement with its expressions resolved; an undeclared name is an error.
WithExp(n, r) ==
    IF Undeclared(n.e, r) THEN [n |-> n, r |-> Failed(r)]
    ELSE [n |-> [n EXCEPT !.e = ResolveExp(@, r)], r |-> r]

WithPost(n, r) ==
    IF Undeclared(n.post, r) THEN [n |-> n, r |-> Failed(r)]
    ELSE [n |-> [n EXCEPT !.post = ResolveExp(@, r)], r |-> r]

MakeLoopLabel(r) == <<"loop", r.loops>>
EnterLoop(r) ==
    [r EXCEPT !.loops = @ + 1, !.breaks = Append(@, MakeLoopLabel(r)),
              !.continues = Append(@, MakeLoopLabel(r))]
LeaveLoop(r) == [r EXCEPT !.breaks = Front(@), !.continues = Front(@)]

\* (Mutant: a switch is a loop.)
EnterSwitchAsLoop(r) ==
    [r EXCEPT !.loops = @ + 1, !.breaks = Append(@, <<"switch", r.loops>>), !.switches = @ + 1,
              !.continues = Append(@, <<"switch", r.loops>>)]

EnterSwitch(r) ==
    [r EXCEPT !.loops = @ + 1, !.breaks = Append(@, <<"switch", r.loops>>), !.switches = @ + 1]
LeaveSwitch(r) == [r EXCEPT !.breaks = Front(@), !.switches = @ - 1]

\* (Mutant: those of a switch inside it too.)
RECURSIVE CollectAllCases(_)
CollectAllCases(n) ==
    LET inside == FoldLeft(LAMBDA cs, k : cs \o CollectAllCases(k), <<>>, n.kids)
    IN  CASE n.s = "case" -> <<[range |-> n.range, label |-> n.a]>> \o inside
          [] n.s = "default" -> <<[range |-> <<>>, label |-> n.a]>> \o inside
          [] OTHER -> inside

\* The cases of a resolved switch, in text order: those of a switch inside it
\* are not its own.
RECURSIVE CollectCases(_)
CollectCases(n) ==
    LET inside == FoldLeft(LAMBDA cs, k : cs \o CollectCases(k), <<>>, n.kids)
    IN  CASE n.s = "case" -> <<[range |-> n.range, label |-> n.a]>> \o inside
          [] n.s = "default" -> <<[range |-> <<>>, label |-> n.a]>> \o inside
          [] n.s = "switch" -> <<>>
          [] OTHER -> inside

\* A variable is in scope in its own initializer.
ResolveVarDecl(n, r) ==
    LET d == DeclareVar(n.a, r)
        got == WithExp(n, d)
    IN  IF d.error THEN [n |-> n, r |-> d] ELSE [got EXCEPT !.n.a = ResolveVar(n.a, d)]

RECURSIVE ResolveStatement(_, _)
ResolveBlock(kids, r) ==
    LET with(got, one) == [kids |-> Append(got.kids, one.n), r |-> one.r]
    IN  FoldLeft(LAMBDA got, k : with(got, ResolveStatement(k, got.r)),
                 [kids |-> <<>>, r |-> r], kids)

\* The declaration in its head has a scope of its own.
ResolveFor(n, r) ==
    LET has == n.kids[1].s \in Declarations
        after(init, post, body) ==
            [n |-> [post.n EXCEPT !.kids = <<init.n, body.n>>, !.a = MakeLoopLabel(post.r)],
             r |-> IF has THEN PopScope(LeaveLoop(body.r)) ELSE LeaveLoop(body.r)]
        posted(init, post) == after(init, post, ResolveStatement(n.kids[2], EnterLoop(post.r)))
        tested(init, cond) == posted(init, WithPost(cond.n, cond.r))
        begun(init) == tested(init, WithExp(n, init.r))
    IN  begun(ResolveStatement(n.kids[1], IF has THEN PushScope(r) ELSE r))

ResolveStatement(n, r) ==
    LET into(m, s) == LET got == ResolveBlock(m.kids, s)
                      IN  [n |-> [m EXCEPT !.kids = got.kids], r |-> got.r]
        jump(labels) == IF labels = <<>> THEN [n |-> n, r |-> Failed(r)]
                        ELSE [n |-> [n EXCEPT !.a = Last(labels)], r |-> r]
        plain == WithExp(n, r)
        scoped == into(n, PushScope(r))
        label == <<"case", r.cases>>
    IN  CASE n.s = "block" -> [scoped EXCEPT !.r = PopScope(@)]
          [] n.s \in {"while", "do"} ->
                LET got == into([n EXCEPT !.e = plain.n.e, !.a = MakeLoopLabel(r)],
                                EnterLoop(plain.r))
                IN  [got EXCEPT !.r = LeaveLoop(@)]
          [] n.s = "for" -> ResolveFor(n, r)
          [] n.s = "break" -> jump(r.breaks)
          [] n.s = "continue" -> jump(r.continues)
          [] n.s = "goto" -> [n |-> n, r |-> [r EXCEPT !.gotos = @ \cup {n.a}]]
          [] n.s = "label" -> IF n.a \in r.labels THEN [n |-> n, r |-> Failed(r)]
                              ELSE into(n, [r EXCEPT !.labels = @ \cup {n.a}])
          [] n.s = "switch" ->
                LET got == into([n EXCEPT !.e = plain.n.e, !.a = <<"switch", r.loops>>],
                                EnterSwitch(plain.r))
                IN  [n |-> [s |-> "switch", a |-> got.n.a, e |-> got.n.e, kids |-> got.n.kids,
                            cases |-> CollectCases(got.n.kids[1])],
                     r |-> LeaveSwitch(got.r)]
          [] n.s \in {"case", "default"} ->
                IF r.switches = 0 THEN [n |-> n, r |-> Failed(r)]
                ELSE into([n EXCEPT !.a = label], [r EXCEPT !.cases = @ + 1])
          [] n.s \in Declarations -> ResolveVarDecl(n, r)
          [] OTHER -> into(plain.n, plain.r)    \* return, expression, if, null

\* The body of a function is a block in the scope of the parameters.
ResolveFunction(t) ==
    LET empty == [scopes |-> <<<<>>>>, breaks |-> <<>>, continues |-> <<>>, labels |-> {},
                  gotos |-> {}, vars |-> 0, loops |-> 0, cases |-> 0, switches |-> 0,
                  error |-> FALSE]
        with(body) == [n |-> [t EXCEPT !.kids = body.kids],
                       error |-> body.r.error \/ ~ body.r.gotos \subseteq body.r.labels]
    IN  with(ResolveBlock(t.kids, DeclareVar(Parameter, PushScope(empty))))
----------------------------------------------------------------------------
(* TACKY: the instructions that statements and scalar expressions become.  *)
(* An operand is a constant or the name of a variable.                     *)
Instr(k, f, args, dst, label) ==
    [k |-> k, f |-> f, args |-> args, dst |-> dst, label |-> label]

Nowhere == <<"none", 0>>
Constant(n) == <<"#", n>>

Copy(src, dst) == Instr("copy", "", <<src>>, dst, Nowhere)
Compute(f, args, dst) == Instr("op", f, args, dst, Nowhere)
FunCall(arg, dst) == Instr("call", "", <<arg>>, dst, Nowhere)
Jump(l) == Instr("jump", "", <<>>, Nowhere, l)
JumpIfZero(v, l) == Instr("jz", "", <<v>>, Nowhere, l)
JumpIfNotZero(v, l) == Instr("jnz", "", <<v>>, Nowhere, l)
LabelAt(l) == Instr("label", "", <<>>, Nowhere, l)
ReturnOf(v) == Instr("return", "", <<v>>, Nowhere, Nowhere)

(* The generator appends to its instructions and counts its temporaries    *)
(* and labels.                                                             *)
Emit(g, is) == [g EXCEPT !.code = @ \o is]
FreshTmp(g) == <<"tmp", g.tmps>>
Fresh(g) == [g EXCEPT !.tmps = @ + 1]
FreshLabel(g, prefix, i) == <<prefix, g.labels + i>>
FreshLabels(g, n) == [g EXCEPT !.labels = @ + n]

Assigned(g, v, dst) == [g |-> Emit(g, <<Copy(v, dst)>>), v |-> dst]
Computed(g, f, args) ==
    [g |-> Fresh(Emit(g, <<Compute(f, args, FreshTmp(g))>>)), v |-> FreshTmp(g)]

RECURSIVE EmitExp(_, _)

\* && and ||: the operand that decides jumps over the other one.
EmitShortCircuit(e, g) ==
    LET isAnd == e.x = "and"
        stop(v, l) == IF isAnd THEN JumpIfZero(v, l) ELSE JumpIfNotZero(v, l)
        short == FreshLabel(g, IF isAnd THEN "and_false" ELSE "or_true", 0)
        end == FreshLabel(g, IF isAnd THEN "and_end" ELSE "or_end", 1)
        result == FreshTmp(g)
        after(right) ==
            [g |-> Emit(right.g,
                        <<stop(right.v, short), Copy(Constant(Truth(isAnd)), result), Jump(end),
                          LabelAt(short), Copy(Constant(Truth(~isAnd)), result), LabelAt(end)>>),
             v |-> result]
        unless(left) == after(EmitExp(e.args[2], Emit(left.g, <<stop(left.v, short)>>)))
    IN  unless(EmitExp(e.args[1], Fresh(FreshLabels(g, 2))))

\* What follows the condition, whose value is in cond.
EmitBranches(e, cond) ==
    LET else == FreshLabel(cond.g, "cond_else", 0)
        end == FreshLabel(cond.g, "cond_end", 1)
        after(kept, other) ==
            LET result == FreshTmp(other.g)
                end2 == FreshLabel(other.g, "cond_end2", 0)
            IN  [g |-> Emit(FreshLabels(Fresh(other.g), 1),
                            <<Copy(other.v, result), Jump(end2), LabelAt(end),
                              Copy(kept.v, result), LabelAt(end2)>>),
                 v |-> result]
        otherwise(kept) ==
            after(kept, EmitExp(e.args[3], Emit(kept.g, <<Jump(end), LabelAt(else)>>)))
        chosen(then) == otherwise(Assigned(Fresh(then.g), then.v, FreshTmp(then.g)))
    IN  chosen(EmitExp(e.args[2], Emit(FreshLabels(cond.g, 2), <<JumpIfZero(cond.v, else)>>)))
EmitConditional(e, g) == EmitBranches(e, EmitExp(e.args[1], g))

AssignedTo(dst, r) == Assigned(r.g, r.v, dst)
EmitAssign(e, g) == AssignedTo(e.args[1].a, EmitExp(e.args[2], g))

EmitCompoundAssign(e, g) ==
    LET lhs == e.args[1].a
        sum(rhs) == AssignedTo(lhs, Computed(rhs.g, "plus", <<lhs, rhs.v>>))
    IN  sum(EmitExp(e.args[2], g))

\* The value of ++n is the sum, that of n++ a copy of the old value.
EmitIncDec(e, g) ==
    LET var == e.args[1].a
        isPre == e.x = "preinc"
        old == IF isPre THEN [g |-> g, v |-> var] ELSE Assigned(Fresh(g), var, FreshTmp(g))
        sum == Computed(old.g, "plus", <<var, Constant(1)>>)
    IN  [g |-> Emit(sum.g, <<Copy(sum.v, var)>>), v |-> IF isPre THEN sum.v ELSE old.v]

EmitBinary(e, g) ==
    LET both(left, right) == Computed(right.g, e.x, <<left.v, right.v>>)
        after(left) == both(left, EmitExp(e.args[2], left.g))
    IN  after(EmitExp(e.args[1], g))

EmitFunctionCall(e, g) ==
    LET called(arg) ==
            [g |-> Fresh(Emit(arg.g, <<FunCall(arg.v, FreshTmp(arg.g))>>)), v |-> FreshTmp(arg.g)]
    IN  called(EmitExp(e.args[1], g))

EmitExp(e, g) ==
    LET first == EmitExp(e.args[1], g)
    IN  CASE e.x = "const" -> [g |-> g, v |-> Constant(e.n)]
          [] e.x = "var" -> [g |-> g, v |-> e.a]
          [] e.x = "assign" -> EmitAssign(e, g)
          [] e.x = "addassign" -> EmitCompoundAssign(e, g)
          [] e.x \in {"preinc", "postinc"} -> EmitIncDec(e, g)
          [] e.x = "not" -> Computed(first.g, "not", <<first.v>>)
          [] e.x \in {"plus", "equal"} -> EmitBinary(e, g)
          [] e.x = "comma" -> EmitExp(e.args[2], first.g)
          [] e.x = "call" -> EmitFunctionCall(e, g)
          [] e.x \in {"and", "or"} -> EmitShortCircuit(e, g)
          [] e.x = "cond" -> EmitConditional(e, g)
----------------------------------------------------------------------------
(* What the generator knows of a condition when it compiles it: <<>>, or   *)
(* its constant value.                                                     *)
RECURSIVE StaticValue(_)
StaticValue(e) ==
    LET first == StaticValue(e.args[1])
        second == StaticValue(e.args[2])
        known(s) == s # <<>>
        isTrue(s) == Head(s) # 0
    IN  CASE e.x = "const" -> <<e.n>>
          [] e.x = "not" /\ known(first) -> <<Truth(~isTrue(first))>>
          [] e.x = "and" /\ known(first) ->
                IF ~isTrue(first) THEN <<0>>
                ELSE IF known(second) THEN <<Truth(isTrue(second))>> ELSE <<>>
          [] e.x = "or" /\ known(first) ->
                IF isTrue(first) THEN <<1>>
                ELSE IF known(second) THEN <<Truth(isTrue(second))>> ELSE <<>>
          [] e.x \in {"plus", "equal"} /\ known(first) /\ known(second) ->
                IF e.x = "plus" THEN <<(Head(first) + Head(second)) % Mod>>
                ELSE <<Truth(Head(first) = Head(second))>>
          [] e.x = "cond" /\ known(first) ->
                IF isTrue(first) THEN second ELSE StaticValue(e.args[3])
          [] OTHER -> <<>>

RECURSIVE ContainsLabel(_)
ContainsLabel(n) ==
    \/ n.s \in {"label", "case", "default"}
    \/ \E i \in DOMAIN n.kids : ContainsLabel(n.kids[i])

\* What is left of the branch of if (0) that a jump may enter: <<>>, or the
\* branch without what stands before its first label.
RECURSIVE PruneToLabel(_)
PruneToLabel(n) ==
    CASE n.s \in {"label", "case", "default"} -> <<n>>
      [] n.s = "block" ->
            LET entered == {i \in DOMAIN n.kids : PruneToLabel(n.kids[i]) # <<>>}
                first == Min(entered)
            IN  IF entered = {} THEN <<>>
                ELSE <<Block(PruneToLabel(n.kids[first])
                             \o SubSeq(n.kids, first + 1, Len(n.kids)))>>
      [] n.s = "if" ->
            IF PruneToLabel(n.kids[1]) # <<>> \/ Len(n.kids) = 1 THEN PruneToLabel(n.kids[1])
            ELSE PruneToLabel(n.kids[2])
      [] n.s \in Loops \cup {"switch"} -> PruneToLabel(Last(n.kids))
      [] OTHER -> <<>>

\* The labels of the loop or switch whose own label is l.
\* (Mutant: another round without the condition of a do or the step of a for.)
ContinueAtStart(l) == <<"start", l[1], l[2]>>

ContinueLabel(l) == <<"continue", l[1], l[2]>>
BreakLabel(l) == <<"break", l[1], l[2]>>
StartLabel(l) == <<"start", l[1], l[2]>>
UserLabel(a) == <<"label", a>>
CaseLabel(l) == l

\* Comparing the control value with a case and jumping to it.
EmitCase(g, control, case) ==
    LET low == Assigned(Fresh(Fresh(g)), Constant(Head(case.range)), <<"tmp", g.tmps + 1>>)
        high == Assigned(Fresh(low.g), Constant(Last(case.range)), FreshTmp(low.g))
        cmp == FreshTmp(g)
        above == Computed(high.g, "atleast", <<control, low.v>>)
        below == Computed(above.g, "atmost", <<control, high.v>>)
        jump == JumpIfNotZero(cmp, CaseLabel(case.label))
    IN  IF Len(case.range) = 2
        THEN Emit(below.g, <<Compute("bitand", <<above.v, below.v>>, cmp), jump>>)
        ELSE Emit(low.g, <<Compute("equal", <<control, low.v>>, cmp), jump>>)

RECURSIVE EmitStatement(_, _)
EmitIf(n, g) ==
    LET static == StaticValue(n.e)
        hasLabel == \E i \in DOMAIN n.kids : ContainsLabel(n.kids[i])
        hasElse == Len(n.kids) = 2
        \* The labels are counted after the condition, if it is emitted.
        end(h) == FreshLabel(h, "if_end", IF hasElse THEN 1 ELSE 0)
        else(h) == FreshLabel(h, "if_else", 0)
        jumped == Emit(FreshLabels(g, 1), <<Jump(end(g))>>)
        rest == PruneToLabel(n.kids[1])
        tested(cond) ==
            Emit(FreshLabels(cond.g, Len(n.kids)),
                 <<JumpIfZero(cond.v, IF hasElse THEN else(cond.g) ELSE end(cond.g))>>)
        otherwise(then, h) ==
            IF hasElse THEN EmitStatement(n.kids[2], Emit(then, <<Jump(end(h)), LabelAt(else(h))>>))
            ELSE then
        whole(cond) == Emit(otherwise(EmitStatement(n.kids[1], tested(cond)), cond.g),
                            <<LabelAt(end(cond.g))>>)
    IN  CASE static # <<>> /\ ~hasLabel ->
                IF static # <<0>> THEN EmitStatement(n.kids[1], g)
                ELSE IF hasElse THEN EmitStatement(n.kids[2], g)
                ELSE g
          [] static = <<0>> /\ hasLabel /\ ~hasElse ->
                Emit(IF rest = <<>> THEN jumped ELSE EmitStatement(Head(rest), jumped),
                     <<LabelAt(end(g))>>)
          [] OTHER -> whole(EmitExp(n.e, g))

EmitLoop(n, g) ==
    LET start == StartLabel(n.a)
        again == ContinueLabel(n.a)
        end == BreakLabel(n.a)
        body(h) == EmitStatement(Last(n.kids), h)
        condition(h) == EmitExp(n.e, h)
        unlessZero(r) == Emit(r.g, <<JumpIfZero(r.v, end)>>)
        whileNotZero(r) == Emit(r.g, <<JumpIfNotZero(r.v, start), LabelAt(end)>>)
        tested(h) == IF Absent(n.e) THEN h ELSE unlessZero(condition(h))
        posted(h) == IF Absent(n.post) THEN h ELSE EmitExp(n.post, h).g
    IN  CASE n.s = "while" ->
                Emit(body(unlessZero(condition(Emit(g, <<LabelAt(again)>>)))),
                     <<Jump(again), LabelAt(end)>>)
          [] n.s = "do" ->
                whileNotZero(condition(Emit(body(Emit(g, <<LabelAt(start)>>)), <<LabelAt(again)>>)))
          [] n.s = "for" ->
                Emit(posted(Emit(body(tested(Emit(EmitStatement(n.kids[1], g), <<LabelAt(start)>>))),
                                 <<LabelAt(again)>>)),
                     <<Jump(start), LabelAt(end)>>)

EmitSwitch(n, g) ==
    LET valued == SelectSeq(n.cases, LAMBDA c : c.range # <<>>)
        others == SelectSeq(n.cases, LAMBDA c : c.range = <<>>)
        end == BreakLabel(n.a)
        compared(control) ==
            FoldLeft(LAMBDA h, c : EmitCase(h, control.v, c), control.g, valued)
        chosen(h) ==
            Emit(h, <<Jump(IF others = <<>> THEN end ELSE CaseLabel(Head(others).label))>>)
    IN  Emit(EmitStatement(n.kids[1], chosen(compared(EmitExp(n.e, g)))), <<LabelAt(end)>>)

EmitVarDecl(n, g) ==
    CASE n.s = "static" -> [g EXCEPT !.statics = (n.a :> n.e.n) @@ @]
      [] n.s = "local" /\ Absent(n.e) -> g
      [] n.s = "local" /\ ~Absent(n.e) -> AssignedTo(n.a, EmitExp(n.e, g)).g

EmitStatement(n, g) ==
    LET returned(value) == Emit(value.g, <<ReturnOf(value.v)>>)
        inside(h) == FoldLeft(LAMBDA i, k : EmitStatement(k, i), h, n.kids)
    IN  CASE n.s = "return" -> returned(EmitExp(n.e, g))
          [] n.s = "expr" -> EmitExp(n.e, g).g
          [] n.s \in Declarations -> EmitVarDecl(n, g)
          [] n.s = "block" -> inside(g)
          [] n.s = "if" -> EmitIf(n, g)
          [] n.s \in Loops -> EmitLoop(n, g)
          [] n.s = "switch" -> EmitSwitch(n, g)
          [] n.s = "break" -> Emit(g, <<Jump(BreakLabel(n.a))>>)
          [] n.s = "continue" -> Emit(g, <<Jump(ContinueLabel(n.a))>>)
          [] n.s = "goto" -> Emit(g, <<Jump(UserLabel(n.a))>>)
          [] n.s = "label" -> inside(Emit(g, <<LabelAt(UserLabel(n.a))>>))
          [] n.s \in {"case", "default"} -> inside(Emit(g, <<LabelAt(CaseLabel(n.a))>>))
          [] n.s = "null" -> g

EmitFunction(t) ==
    Emit(EmitStatement(t, [code |-> <<>>, tmps |-> 0, labels |-> 0, statics |-> <<>>]),
         <<ReturnOf(Constant(0))>>)
----------------------------------------------------------------------------
(* Running TACKY.  A machine that reads what nothing wrote, or jumps to a  *)
(* label the code does not have, is stuck.                                 *)
Compute2(f, x, y) ==
    CASE f = "plus" -> (x + y) % Mod
      [] f = "equal" -> Truth(x = y)
      [] f = "atleast" -> Truth(x >= y)
      [] f = "atmost" -> Truth(x <= y)
      [] f = "bitand" -> x * y          \* of two truth values
      [] f = "not" -> Truth(x = 0)

Held(m, v) == IF v[1] = "#" THEN v[2] ELSE m.env[v]
Destinations(P, l) == {i \in DOMAIN P : P[i].k = "label" /\ P[i].label = l}
IsJump(i) == i.k \in {"jump", "jz", "jnz"}

Stuck(P, m) ==
    LET i == P[m.pc]
    IN  \/ \E a \in DOMAIN i.args : Held(m, i.args[a]) = Undef
        \/ IsJump(i) /\ Destinations(P, i.label) = {}

CodeEvent(P, m) ==
    LET i == P[m.pc]
    IN  CASE Stuck(P, m) -> [k |-> "stuck", v |-> Undef]
          [] i.k \in {"call", "return"} /\ ~Stuck(P, m) -> [k |-> i.k, v |-> Held(m, i.args[1])]
          [] OTHER -> [k |-> "none", v |-> Undef]

Stepped(P, m) ==
    LET i == P[m.pc]
        at(n) == Held(m, i.args[n])
        taken == \/ i.k = "jump"
                 \/ i.k = "jz" /\ at(1) = 0
                 \/ i.k = "jnz" /\ at(1) # 0
        result == IF i.k = "copy" THEN at(1) ELSE Compute2(i.f, at(1), at(Len(i.args)))
    IN  [pc |-> IF taken THEN Min(Destinations(P, i.label)) ELSE m.pc + 1,
         env |-> IF i.k \in {"copy", "op"} THEN [m.env EXCEPT ![i.dst] = result] ELSE m.env]

Continued(P, m, v) == [pc |-> m.pc + 1, env |-> [m.env EXCEPT ![P[m.pc].dst] = v]]

VariablesOf(P) ==
    UNION {{P[i].dst} \cup ToSet(P[i].args) : i \in DOMAIN P} \ {Nowhere}

\* The parameter is the resolver's first variable.
Loaded(f, v) ==
    [pc |-> 1,
     env |-> [x \in VariablesOf(f.code) \cup {<<Parameter, 0>>} |->
                IF x = <<Parameter, 0>> THEN v
                ELSE IF x \in DOMAIN f.statics THEN f.statics[x] ELSE Undef]]
----------------------------------------------------------------------------
None == [k |-> "none", v |-> Undef]

NoCode == [code |-> <<>>, statics |-> <<>>]

InitLowering ==
    /\ code = NoCode
    /\ phase = "text"
    /\ source = None /\ target = None
    /\ asked = 0

\* The function whose body was parsed as t; the parameter has any value.
Compile(t) ==
    /\ phase = "parsed"
    /\ \E f \in {ResolveFunction(t)} :
          \/ /\ f.error
             /\ phase' = "rejected"
             /\ UNCHANGED <<code, source, target>>
          \/ /\ ~f.error
             /\ phase' = "source"
             /\ \E g \in {EmitFunction(f.n)}, v \in Numbers :
                   /\ code' = [code |-> g.code, statics |-> g.statics]
                   /\ source' = Begin(function, v)
                   /\ target' = Loaded(g, v)
    /\ UNCHANGED <<function, asked>>

SourceStep ==
    /\ phase = "source"
    /\ Event(function, source).k = "none"
    /\ source' = Step(function, source)
    /\ UNCHANGED <<function, code, phase, target, asked>>

SourceStops ==
    /\ phase = "source"
    /\ Event(function, source).k # "none"
    /\ phase' = IF Event(function, source).k = "undefined" THEN "done" ELSE "target"
    /\ UNCHANGED <<function, code, source, target, asked>>

TargetStep ==
    /\ phase = "target"
    /\ CodeEvent(code.code, target).k = "none"
    /\ target' = Stepped(code.code, target)
    /\ UNCHANGED <<function, code, phase, source, asked>>

TargetStops ==
    /\ phase = "target"
    /\ CodeEvent(code.code, target).k # "none"
    /\ phase' = "event"
    /\ UNCHANGED <<function, code, source, target, asked>>

\* The environment answers a call; after MaxAnswers calls the run is over.
Answer ==
    /\ phase = "event"
    /\ Event(function, source).k = "call" /\ asked < MaxAnswers
    /\ \E v \in Numbers :
          /\ source' = Answered(source, v)
          /\ target' = Continued(code.code, target, v)
    /\ asked' = asked + 1
    /\ phase' = "source"
    /\ UNCHANGED <<function, code>>

Finish ==
    /\ phase = "event"
    /\ Event(function, source).k = "return" \/ asked = MaxAnswers
    /\ phase' = "done"
    /\ UNCHANGED <<function, code, source, target, asked>>

----------------------------------------------------------------------------
(* The resolver rejects the functions that break a rule on jumps, labels   *)
(* or names, and no other: a break, continue or case without its statement *)
(* around it, a goto without its label, a label given twice, a name used   *)
(* out of scope or declared twice in one scope.                            *)
RejectsTheInvalid ==
    /\ phase = "rejected" => ~Valid(function)
    /\ phase \notin {"text", "parsed", "rejected"} => Valid(function)

(* The code calls and returns when the function does, with the same values *)
(* (a function that runs off its end returns no value its caller may use). *)
(* Nor does it read a variable that nothing wrote.                         *)
BehavesAsWritten ==
    phase = "event" =>
        LET e == Event(function, source)
            c == CodeEvent(code.code, target)
        IN  /\ c.k = e.k
            /\ e.v # Undef => c.v = e.v

(* The code does not loop for ever where the function calls or returns.    *)
ReachesTheEvent == (phase = "target") ~> (phase = "event")
============================================================================
