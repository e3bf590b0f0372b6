------------------------------- MODULE FrontEnd -------------------------------
(***************************************************************************)
(* The front end: the preprocessor reads the files of a program, the       *)
(* parser the tokens that it leaves, and the resolver and the generator    *)
(* turn the function parsed into instructions, which then run beside the   *)
(* function as it was written.  What C says of each step stands here too:  *)
(* how macros are replaced, which groups of a conditional are read, what   *)
(* a program that was written means.                                       *)
(***************************************************************************)
EXTENDS Preprocessor, Parser, Lowering

CONSTANT Jobs     \* what the compiler is asked for, a set for each kind of it

VARIABLES
    written,  \* the declarations that the program was written as
    tree,     \* what the parser made of its tokens
    last      \* the last step asked for: "preprocess", "parse" or "run"

frontVars == <<unit, pp, written, tree>>
lowerVars == <<function, code, phase, source, target, asked>>
vars == <<frontVars, lowerVars, last>>
----------------------------------------------------------------------------
(* Macro expansion with a set of names on every token: a name in its own   *)
(* set is not expanded.  What a macro is replaced by is scanned again with *)
(* the tokens that follow.                                                 *)
HideSet(t) == IF "hs" \in DOMAIN t THEN t.hs ELSE {}
Painted(s, hs) == [i \in DOMAIN s |-> [hs |-> HideSet(s[i]) \cup hs] @@ s[i]]
Bare(s) == [i \in DOMAIN s |-> <<s[i].k, s[i].t>>]

Placemarker == Token("nothing", "")

\* The body with ## as an operator, from left to right.
RECURSIVE Pasted(_)
Pasted(s) ==
    LET ops == {i \in DOMAIN s : s[i].k = "paste"}
        i == Min(ops)
        l == s[i - 1]
        r == s[i + 1]
        both == CASE r.k = "nothing" -> l
                  [] l.k = "nothing" /\ r.k # "nothing" -> r
                  [] OTHER -> [l EXCEPT !.k = PastedKind(l, r), !.t = @ \o r.t]
    IN  IF ops = {} THEN SelectSeq(s, LAMBDA t : t.k # "nothing")
        ELSE Pasted(SubSeq(s, 1, i - 2) \o <<both>> \o SubSeq(s, i + 2, Len(s)))

Operators(body) ==
    [i \in DOMAIN body |-> IF IsPunct(body, i, "##") THEN [body[i] EXCEPT !.k = "paste"] ELSE body[i]]

RECURSIVE HideSetExpansion(_, _, _)

\* The body from i on with the arguments in place, each with what it needs.
RECURSIVE Replacement(_, _, _, _)
Replacement(call, i, env, x) ==
    LET s == call.body
        p == ParamIndexAt(s, i, call)
        arg == call.args[p]
        next(n, y) == Replacement(call, i + n, env, y)
    IN  IF i > Len(s) THEN x
        ELSE IF CommaVaArgsPaste(call.plain, i, call)
        THEN next(3, IF call.missing THEN x
                     ELSE HideSetExpansion(Last(call.args), env, Keep(x, <<s[i]>>)))
        ELSE IF IsPunct(s, i, "#") /\ ParamIndexAt(s, i + 1, call) # 0
        THEN next(2, Keep(x, <<StringifyArg(call.args[ParamIndexAt(s, i + 1, call)])>>))
        ELSE IF p = 0 THEN next(1, Keep(x, <<s[i]>>))
        ELSE IF \E j \in {i - 1, i + 1} \cap DOMAIN s : s[j].k = "paste"
        THEN next(1, Keep(x, IF arg = <<>> THEN <<Placemarker>> ELSE arg))
        ELSE next(1, HideSetExpansion(arg, env, x))

\* Expands s after x.out.
HideSetExpansion(s, env, x) ==
    LET tok == Head(s)
        def == env.macros[tok.t]
        call == ParseInvocationArgs(s, 2)
        args == IF call.args = <<>> /\ Len(def.params) = 1 /\ ~def.variadic THEN <<<<>>>> ELSE call.args
        replaced(inv) ==
            Replacement([plain |-> inv.body] @@ [inv EXCEPT !.body = Operators(@)], 1, env,
                        [x EXCEPT !.out = <<>>])
        again(body, rest, y) ==
            HideSetExpansion(body \o rest, env,
                IF \E i \in DOMAIN body : body[i].k = "none" THEN Fail(y, "paste") ELSE y)
        hs == HideSet(tok)
        called(got) ==
            again(Painted(Pasted(got.out), (hs \cap HideSet(s[call.next - 1])) \cup {tok.t}),
                  SubSeq(s, call.next, Len(s)), [got EXCEPT !.out = x.out])
        stands == ExpandUnknownIdent(tok, env.where, x)
    IN  IF s = <<>> \/ ~Ok(x) THEN x
        ELSE IF tok.k # "id" \/ tok.t \in hs THEN again(<<>>, Tail(s), Keep(x, <<tok>>))
        ELSE IF tok.t \notin DOMAIN env.macros
        THEN again(<<>>, Tail(s), Keep(Drawn(tok, x), IF stands = <<>> THEN <<tok>> ELSE stands))
        ELSE IF ~def.function
        THEN again(Painted(Pasted(Operators(def.body)), hs \cup {tok.t}), Tail(s), x)
        ELSE IF call.is = "open" THEN Fail(x, "unterminated")
        ELSE IF call.is = "call" /\ Accepts(def, args)
        THEN called(replaced(Invocation(def, args, Separated(VariadicArgs(def, args)))))
        ELSE again(<<>>, Tail(s), Keep(x, <<tok>>))
----------------------------------------------------------------------------
(* The value of a condition, given as an expression.                       *)
\* A macro in a condition of the instances stands for a number, a name or a
\* defined, where the name asked for is not replaced.
RECURSIVE NameValue(_, _, _)
NameValue(p, a, seen) ==
    LET body == p.macros[a].body
        named == SelectSeq(Tail(body), LAMBDA t : t.k = "id")[1].t
    IN  IF a \notin DOMAIN p.macros \/ a \in seen THEN IfTruth(FALSE)
        ELSE IF body[1].k = "num" THEN IfNumber(body[1].t)
        ELSE IF body[1].t = "defined" THEN IfTruth(named \in DOMAIN p.macros)
        ELSE NameValue(p, body[1].t, seen \cup {a})

Value1(v) == [v |-> v, bad |-> FALSE]
BadValue == [v |-> IfTruth(FALSE), bad |-> TRUE]

RECURSIVE ConditionValue(_, _)
ConditionValue(p, e) ==
    LET arg(i) == ConditionValue(p, e.args[i])
        l == arg(1)
        r == arg(2)
        decides(b) == (l.v.n # 0) = b
        op == BinaryLevels[BinaryLevel(e.x)][e.x]
    IN  CASE e.x = "const" -> Value1(IfNumber(ToString(e.n) \o e.a))
          [] e.x = "var" -> Value1(NameValue(p, e.a, {}))
          [] e.x = "defined" -> Value1(IfTruth(e.a \in DOMAIN p.macros))
          [] e.x = "assertion" -> Value1(IfTruth(FALSE))
          [] e.x = "hasinclude" -> Value1(IfTruth(Available(p, e.spec, e.a = "__has_include_next")))
          [] e.x \in {"and", "or"} ->
                IF l.bad \/ decides(e.x = "or") THEN [l EXCEPT !.v = IfTruth(e.x = "or")]
                ELSE [r EXCEPT !.v = IfTruth(@.n # 0)]
          [] e.x = "cond" -> IF l.bad THEN l ELSE IF l.v.n # 0 THEN r ELSE arg(3)
          [] e.x = "not" -> [l EXCEPT !.v = IfTruth(@.n = 0)]
          [] e.x = "negate" -> [l EXCEPT !.v = IfValue(-@.n, @.u)]
          [] e.x = "complement" -> [l EXCEPT !.v = IfValue(-1 - @.n, @.u)]
          [] OTHER -> IF l.bad \/ r.bad \/ Refused(op, l.v, r.v) THEN BadValue
                      ELSE Value1(IfApply(op, l.v, r.v))
----------------------------------------------------------------------------
(* The groups of a file.                                                   *)
Openers == {"if", "ifdef", "ifndef"}
Branches == {"elif", "elifdef", "elifndef", "else"}

Occurrences(L, i, ds) == Len(SelectSeq(SubSeq(L, 1, i), LAMBDA l : l.d \in ds))
Depth(L, i) == Occurrences(L, i, Openers) - Occurrences(L, i, {"endif"})

\* The #if that the branch at k belongs to, the #endif and the branches of
\* the #if at i.
Owner(L, k) == Max({i \in 1 .. k : L[i].d \in Openers /\ Depth(L, i) = Depth(L, k)})
EndOf(L, i) ==
    Min({k \in i .. Len(L) : L[k].d = "endif" /\ Depth(L, k) = Depth(L, i) - 1})
BranchesOf(L, i) == {k \in DOMAIN L : L[k].d \in Branches /\ Owner(L, k) = i}

\* Every line of a conditional has its place, and #else comes last.
WellNested(L) ==
    /\ \A k \in DOMAIN L : L[k].d \in Branches \cup {"endif"} => Depth(L, k - 1) > 0
    /\ Depth(L, Len(L)) = 0
    /\ \A k, m \in DOMAIN L :
          (L[m].d = "else" /\ L[k].d \in Branches /\ m < k) => Owner(L, m) # Owner(L, k)

Sections(L, i) ==
    <<i>> \o SetToSortSeq(BranchesOf(L, i), <) \o <<EndOf(L, i)>>

Forward(p, n) == WithTop(p, [Top(p) EXCEPT !.next = @ + n])

\* The preprocessor after the test of the branch that line starts, and
\* whether the branch is read.
Tested(p, line) ==
    LET known == line.s[1].t \in DOMAIN p.macros
        tested(value) == [p |-> IF value.bad THEN Fail(p, "if") ELSE p, holds |-> value.v.n # 0]
    IN  CASE line.d = "else" -> [p |-> p, holds |-> TRUE]
          [] line.d \in {"if", "elif"} -> tested(ConditionValue(p, line.e))
          [] line.d \in {"ifdef", "elifdef"} -> [p |-> p, holds |-> known]
          [] line.d \in {"ifndef", "elifndef"} -> [p |-> p, holds |-> ~known]

\* A text is expanded with the macros of its place.
TranslateText(p, lines) ==
    LET toks == TextTokens([lines |-> [i \in DOMAIN lines |-> lines[i].s]])
        emitted(got) ==
            IF got.error # "" THEN Fail(p, "text") ELSE Emitted(Drew(p, got), got.out)
    IN  IF ~Ok(CheckPoisoned(p, toks)) THEN Fail(p, "text")
        ELSE emitted(HideSetExpansion(toks,
                        [macros |-> p.macros, where |-> Where(p, Top(p).file, Top(p).next)],
                        Nothing(p.counter)))

RECURSIVE Translate(_, _, _)
\* Lines i to j of the file being read.
RECURSIVE TranslateSections(_, _, _)
TranslateSections(p, sections, n) ==
    LET L == Lines(p)
        i == sections[n]
        past == sections[n + 1]
        after(tested) ==
            IF tested.holds /\ Ok(tested.p)
            THEN Forward(Translate(tested.p, i + 1, past - 1), Last(sections) - past + 1)
            ELSE TranslateSections(Forward(tested.p, past - i - 1), sections, n + 1)
    IN  IF ~Ok(p) THEN p
        ELSE IF n = Len(sections) THEN Forward(p, 1)
        ELSE after(Tested(Forward(p, 1), L[i]))

\* The file just opened, if one was.
TranslateOpened(p, q) ==
    LET closed(r) == IF ~Ok(r) THEN r ELSE Closed(r)
    IN  IF ~Ok(q) \/ Len(q.frames) <= Len(p.frames) THEN q
        ELSE IF ~WellNested(Lines(q)) THEN Fail(q, "nesting")
        ELSE closed(Translate(q, 1, Len(Lines(q))))

TranslateDirective(p, line) ==
    CASE line.d = "define" -> DoDefine(p, line.s)
      [] line.d = "undef" -> DoUndef(p, line.s)
      [] line.d \in {"include", "include_next"} ->
            TranslateOpened(p, DoInclude(p, line.s, line.d = "include_next"))
      [] line.d = "embed" -> DoEmbed(p, line.s)
      [] line.d = "line" -> DoLine(p, line.s)
      [] line.d = "" -> DoEmpty(p, line.s)
      [] line.d = "pragma" -> DoPragma(p, line.s)
      [] line.d = "warning" -> p
      [] line.d \in {"error", "unknown"} -> Fail(p, "error")

Translate(p, i, j) ==
    LET L == Lines(p)
        k == Max({k \in i .. j : \A m \in i .. k : L[m].d = "text"})
        q == Forward(p, 1)
        checked == IF L[i].d = "pragma" THEN q ELSE CheckPoisoned(q, L[i].s)
    IN  IF i > j \/ ~Ok(p) THEN p
        ELSE IF L[i].d = "text"
        THEN Translate(Forward(TranslateText(p, SubSeq(L, i, k)), k - i + 1), k + 1, j)
        ELSE IF L[i].d \in Openers
        THEN Translate(TranslateSections(p, Sections(L, i), 1), EndOf(L, i) + 1, j)
        ELSE Translate(IF Ok(checked) THEN TranslateDirective(checked, L[i]) ELSE checked, i + 1, j)

RECURSIVE TranslateAll(_)
TranslateAll(p) ==
    IF ~Ok(p) \/ p.queue = <<>> THEN p ELSE TranslateAll(TranslateOpened(p, NextOpened(p)))
----------------------------------------------------------------------------
(* C: what a program means, without the ways to write it.                  *)
RECURSIVE TypeMeaning(_)
TypeMeaning(x) ==
    LET of == [i \in DOMAIN x.of |-> TypeMeaning(x.of[i])]
        parameter(y) ==
            CASE y.t = "array" -> PointerTo(y.of[1])
              [] y.t = "function" -> PointerTo(y)
              [] y.t \notin {"array", "function"} -> y
    IN  CASE x.t = "as" -> of[1]
          [] x.t = "pointer" -> PointerTo(of[1])
          [] x.t = "array" -> ArrayOf(of[1], x.n)
          [] x.t = "function" ->
                [x EXCEPT !.of = [i \in DOMAIN of |-> IF i = 1 THEN of[1] ELSE parameter(of[i])]]
          [] x.t \in {"scalar", "struct", "none"} -> x

RECURSIVE ExpMeaning(_)
RECURSIVE ItemMeaning(_)
ItemsMeaning(items) == InARow([i \in DOMAIN items |-> ItemMeaning(items[i])])

ExpMeaning(e) ==
    LET args == [i \in DOMAIN e.args |-> ExpMeaning(e.args[i])]
        typed == IF "type" \in DOMAIN e THEN [e EXCEPT !.type = TypeMeaning(@)] ELSE e
        whole == IF "block" \in DOMAIN e THEN [typed EXCEPT !.block = ItemsMeaning(@)] ELSE typed
    IN  IF e.x = "as" THEN ExpMeaning(e.args[2]) ELSE [whole EXCEPT !.args = args]

\* Of a statement that is a part of another one.
StatementMeaning(n) ==
    LET inner == [i \in DOMAIN n.kids |-> ItemMeaning(n.kids[i])[1]]
        m == [n EXCEPT !.e = ExpMeaning(@), !.kids = IF n.s = "block" THEN ItemsMeaning(@) ELSE inner]
    IN  IF n.s = "for" THEN [m EXCEPT !.post = ExpMeaning(@)] ELSE m

CaseLabels(n) == [n EXCEPT !.range = [i \in DOMAIN @ |-> Const(@[i])]]

\* The items that an item of a block or a file is.
ItemMeaning(n) ==
    CASE n.s = "as" -> Tail(n.kids)
      [] n.s = "group" -> IF n.kids[1].s = "typedef" THEN <<NoDecl>> ELSE ItemsMeaning(n.kids)
      [] n.s \in {"typedef", "enum", "assert"} -> <<NoDecl>>
      [] n.s = "local" -> <<Variable(n.a, IntType, ExpMeaning(n.e), "")>>
      [] n.s = "static" -> <<Variable(n.a, IntType, n.e, "static")>>
      [] n.s = "var" -> <<Variable(n.a, TypeMeaning(n.type), ExpMeaning(n.e), n.sc)>>
      [] n.s = "function" ->
            <<FunctionDecl(n.a, TypeMeaning(n.type), n.names, n.sc, ItemsMeaning(n.kids))>>
      [] n.s = "struct" ->
            <<StructDecl(n.a, [i \in DOMAIN n.members |->
                                  [n.members[i] EXCEPT !.type = TypeMeaning(@)]], n.union)>>
      [] n.s = "case" -> <<CaseLabels([StatementMeaning(n) EXCEPT !.kids = <<Null>>])>>
                             \o ItemMeaning(n.kids[1])
      [] n.s = "default" -> <<Default(Null)>> \o ItemMeaning(n.kids[1])
      [] n.s \in {"expr", "null", "return", "if", "while", "do", "for", "break", "continue",
                  "goto", "label", "switch", "block"} -> <<StatementMeaning(n)>>

(* The function that the resolver reads, all of whose objects are numbers. *)
RECURSIVE Untyped(_)
Untyped(n) ==
    CASE n.s = "var" -> IF n.sc = "static" THEN Static(n.a, n.e.n) ELSE Local(n.a, n.e)
      [] n.s = "case" -> [n EXCEPT !.range = [i \in DOMAIN @ |-> @[i].n],
                                   !.kids = [i \in DOMAIN @ |-> Untyped(@[i])]]
      [] n.s \notin {"var", "case"} -> [n EXCEPT !.kids = [i \in DOMAIN @ |-> Untyped(@[i])]]
----------------------------------------------------------------------------
(* The steps.  What a phase has used up is let go.                         *)
Gone == <<>>
Unparsed == [ok |-> TRUE, items |-> <<>>]

Init ==
    /\ \E kind \in DOMAIN Jobs : \E job \in Jobs[kind] :
          /\ unit = job.unit
          /\ written = job.written
          /\ last = job.last
          /\ function = IF job.last = "run" THEN Last(job.written).kids[1] ELSE Null
    /\ pp = Started(unit)
    /\ tree = Unparsed
    /\ InitLowering

Preprocess ==
    /\ phase = "text"
    /\ OpenTopLevel \/ ReadLine \/ CloseFile
    /\ UNCHANGED <<written, tree, lowerVars, last>>

ParseTokens ==
    /\ phase = "text" /\ Preprocessed /\ Ok(pp)
    /\ last # "preprocess"
    /\ \E parsed \in {ParseProgram(pp.out)} : tree' = [ok |-> parsed.ok, items |-> parsed.v]
    /\ phase' = "parsed"
    /\ unit' = Gone /\ pp' = Gone
    /\ UNCHANGED <<written, function, code, source, target, asked, last>>

CompileFunction ==
    /\ last = "run" /\ phase = "parsed" /\ tree.ok
    /\ Compile(Untyped(Last(tree.items).kids[1]))
    /\ written' = Gone /\ tree' = Unparsed
    /\ UNCHANGED <<unit, pp, last>>

SourceRuns == (SourceStep \/ SourceStops) /\ UNCHANGED <<frontVars, last>>
TargetRuns == (TargetStep \/ TargetStops) /\ UNCHANGED <<frontVars, last>>
EnvironmentActs == (Answer \/ Finish) /\ UNCHANGED <<frontVars, last>>

Done ==
    /\ \/ phase \in {"rejected", "done"}
       \/ phase = "text" /\ Preprocessed /\ (~Ok(pp) \/ last = "preprocess")
       \/ phase = "parsed" /\ (~tree.ok \/ last = "parse")
    /\ UNCHANGED vars

Next ==
    \/ Preprocess \/ ParseTokens \/ CompileFunction
    \/ SourceRuns \/ TargetRuns \/ EnvironmentActs \/ Done

Spec == Init /\ [][Next]_vars /\ WF_vars(TargetRuns)
----------------------------------------------------------------------------
(* What is preprocessed is what C says: the same tokens, the same macros   *)
(* left and the same files read, or an error where C has one, whatever     *)
(* conditionals, files and definitions are met on the way (a limit of the  *)
(* implementation may stop it).                                            *)
PreprocessesAsWritten ==
    LET agrees(meant) ==
            /\ Ok(pp) = Ok(meant)
            /\ Ok(pp) => /\ pp.macros = meant.macros
                         /\ pp.deps = meant.deps
                         /\ unit.suppress \/ Bare(pp.out) = Bare(meant.out)
    IN  (phase = "text" /\ Preprocessed /\ pp.error \notin {"depth", "deep"}) =>
            agrees(TranslateAll(Started(unit)))

(* The table that text is expanded with is the one that the directives     *)
(* have made, unless it is marked to be made again.                        *)
TableIsCurrent == (phase = "text" /\ ~pp.dirty) => pp.cache = pp.macros

(* The parser takes every program and makes of it what was written: each   *)
(* declarator has the type that is read from the inside, each operator its *)
(* operands, each name is a type or an object as the scopes around it say, *)
(* and no declaration is lost.                                             *)
ParsesWhatWasWritten ==
    (phase = "parsed") => tree = [ok |-> TRUE, items |-> ItemsMeaning(written)]
============================================================================
