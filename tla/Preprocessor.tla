----------------------------- MODULE Preprocessor -----------------------------
(***************************************************************************)
(* The preprocessor (src/cli/preprocess_driver.rs, src/preprocess): it     *)
(* reads a file line by line, keeps the conditional groups and the files   *)
(* that are open on stacks, collects the lines between two directives and  *)
(* expands them as one piece of text, with a table of macros that it       *)
(* converts only when a directive has changed it.                          *)
(*                                                                         *)
(* The expander keeps the names it is expanding in a set and expands a     *)
(* replacement by itself, before what follows it; the standard paints each *)
(* token with the names it came from and scans it again with the rest of   *)
(* the source.  White space is left out, except after the name in a        *)
(* #define, where it tells the two kinds of macro apart.                   *)
(***************************************************************************)
EXTENDS Spelling

CONSTANTS
    MaxExpansionDepth,  \* MAX_MACRO_EXPANSION_DEPTH
    MaxIncludeDepth,    \* MAX_INCLUDE_DEPTH
    IfBits,             \* the width of the numbers in #if, 64 in the code
    VirtualHeaders,     \* headers built into the compiler: [preferred, macros]
    Probes              \* the names that __has_builtin and its like know

VARIABLES
    unit,    \* the files, the search path, the options
    pp       \* the preprocessor
----------------------------------------------------------------------------
(* Macro expansion, over preprocessing tokens.                             *)
IsPunct(s, i, p) == i \in DOMAIN s /\ s[i].k = "punct" /\ s[i].t = p
IsName(s, i) == i \in DOMAIN s /\ s[i].k = "id"
IsWord(s, i, a) == IsName(s, i) /\ s[i].t = a

ObjectMacro(body) == [function |-> FALSE, params |-> <<>>, variadic |-> FALSE, body |-> body]
FunctionMacro(params, variadic, body) ==
    [function |-> TRUE, params |-> params, variadic |-> variadic, body |-> body]

(* An expansion appends to out; it may draw from the counter, and fail.    *)
Ok(x) == x.error = ""
Fail(x, why) == IF Ok(x) THEN [x EXCEPT !.error = why] ELSE x
Keep(x, toks) == [x EXCEPT !.out = @ \o toks]

(* Names that are no macros but stand for something: where, says where the *)
(* text is read.                                                           *)
ExpandUnknownIdent(tok, where, x) ==
    CASE tok.t = "__LINE__" -> <<Num(ToString(where.line + tok.ln - 1))>>
      [] tok.t = "__FILE__" -> <<Str(where.file)>>
      [] tok.t = "__BASE_FILE__" -> <<Str(where.base)>>
      [] tok.t = "__INCLUDE_LEVEL__" -> <<Num(ToString(where.level))>>
      [] tok.t = "__COUNTER__" -> <<Num(ToString(x.counter))>>
      [] OTHER -> <<>>

Drawn(tok, x) == IF tok.t = "__COUNTER__" THEN [x EXCEPT !.counter = @ + 1] ELSE x
----------------------------------------------------------------------------
(* Pasting: what two tokens make, if they make one.                        *)
PunctuatorPairs ==
    {<<"+", "+">>, <<"-", "-">>, <<"<", "<">>, <<">", ">">>, <<"=", "=">>, <<"!", "=">>,
     <<"&", "&">>, <<"|", "|">>, <<"+", "=">>, <<"-", ">">>, <<"#", "#">>}

PastedKind(l, r) ==
    CASE l.k = "id" /\ r.k \in {"id", "num"} -> "id"
      [] l.k = "num" /\ r.k \in {"id", "num"} -> "num"
      [] <<l.t, r.t>> \in PunctuatorPairs -> "punct"
      [] OTHER -> "none"

RECURSIVE PasteFrom(_, _, _)
PasteFrom(s, i, x) ==
    LET left == Last(x.out)
        kind == PastedKind(left, s[i + 1])
    IN  IF i > Len(s) \/ ~Ok(x) THEN x
        ELSE IF ~IsPunct(s, i, "##") THEN PasteFrom(s, i + 1, Keep(x, <<s[i]>>))
        ELSE IF x.out = <<>> \/ i = Len(s) THEN PasteFrom(s, i + 1, x)
        ELSE IF kind = "none" THEN Fail(x, "paste")
        ELSE PasteFrom(s, i + 2, [x EXCEPT !.out = Front(@) \o
                                    <<[left EXCEPT !.k = kind, !.t = @ \o s[i + 1].t]>>])
PasteTokens(s, x) == PasteFrom(s, 1, [x EXCEPT !.out = <<>>])

(* The arguments of a call: the tokens between commas outside parentheses. *)
RECURSIVE ArgsFrom(_, _, _, _)
ArgsFrom(s, i, depth, args) ==
    LET current == Last(args)
        put == [args EXCEPT ![Len(args)] = Append(@, s[i])]
    IN  CASE i > Len(s) -> [is |-> "open", args |-> <<>>, next |-> i]
          [] IsPunct(s, i, "(") -> ArgsFrom(s, i + 1, depth + 1, put)
          [] IsPunct(s, i, ")") /\ depth = 0 ->
                [is |-> "call", next |-> i + 1,
                 args |-> IF args = <<<<>>>> THEN <<>> ELSE args]
          [] IsPunct(s, i, ")") /\ depth > 0 -> ArgsFrom(s, i + 1, depth - 1, put)
          [] IsPunct(s, i, ",") /\ depth = 0 -> ArgsFrom(s, i + 1, depth, Append(args, <<>>))
          [] OTHER -> ArgsFrom(s, i + 1, depth, put)
ParseInvocationArgs(s, i) ==
    IF IsPunct(s, i, "(") THEN ArgsFrom(s, i + 1, 0, <<<<>>>>)
    ELSE [is |-> "none", args |-> <<>>, next |-> i]

\* A comma is made from the token after it, or else from the one before: it is
\* lost while there is neither.
JoinVariadicArgs(args) ==
    LET Comma(out, i) == IF i > 1 /\ (args[i] # <<>> \/ out # <<>>) THEN <<Punct(",")>> ELSE <<>>
    IN  FoldLeft(LAMBDA out, i : out \o Comma(out, i) \o args[i],
                 <<>>, [i \in DOMAIN args |-> i])

\* The text of an argument as a string.
StringifyArg(arg) == Str(FoldLeft(LAMBDA text, t : text \o t.t, "", arg))

(* __VA_OPT__(...) stands for its tokens when a variadic argument has any. *)
RECURSIVE ProcessVaOptTokens(_, _, _)
ProcessVaOptTokens(s, i, has) ==
    LET one(group) ==
            IF IsWord(s, i, "__VA_OPT__") /\ group.is = "call"
            THEN [toks |-> IF has THEN SubSeq(s, i + 2, group.next - 2) ELSE <<>>,
                  next |-> group.next]
            ELSE [toks |-> <<s[i]>>, next |-> i + 1]
        after(first) == first.toks \o ProcessVaOptTokens(s, first.next, has)
    IN  IF i > Len(s) THEN <<>> ELSE after(one(ParseInvocationArgs(s, i + 1)))
----------------------------------------------------------------------------
(* A call in hand: the macro, its fixed arguments, and the rest of them    *)
(* joined; there is a token in it if one of them has any.                  *)
VariadicArgs(def, args) == SubSeq(args, Len(def.params) + 1, Len(args))

Invocation(def, args, rest) ==
    LET n == Len(def.params)
    IN  [params |-> def.params, variadic |-> def.variadic, missing |-> Len(args) = n,
         args |-> Append(SubSeq(args, 1, n), rest),
         body |-> ProcessVaOptTokens(def.body, 1, rest # <<>>)]

\* The number of the parameter at i; 0 if there is none.
ParamIndexAt(s, i, call) ==
    IF ~IsName(s, i) THEN 0
    ELSE IF call.variadic /\ s[i].t = "__VA_ARGS__" THEN Len(call.params) + 1
    ELSE IF \E p \in DOMAIN call.params : call.params[p] = s[i].t
    THEN CHOOSE p \in DOMAIN call.params : call.params[p] = s[i].t
    ELSE 0

AdjacentToPaste(s, i) == IsPunct(s, i - 1, "##") \/ IsPunct(s, i + 1, "##")

\* The GNU form: a comma, ## and the variable arguments.
CommaVaArgsPaste(s, i, call) ==
    call.variadic /\ IsPunct(s, i, ",") /\ IsPunct(s, i + 1, "##") /\ IsWord(s, i + 2, "__VA_ARGS__")

RECURSIVE Expand(_, _, _, _, _)

\* The body of the macro with its parameters replaced.  An argument is
\* expanded by itself, unless it is made a string or pasted.
RECURSIVE SubstituteFrom(_, _, _, _, _)
SubstituteFrom(call, i, env, depth, x) ==
    LET s == call.body
        p == ParamIndexAt(s, i, call)
        arg == call.args[p]
        next(n, y) == SubstituteFrom(call, i + n, env, depth, y)
    IN  IF i > Len(s) \/ ~Ok(x) THEN x
        ELSE
        CASE CommaVaArgsPaste(s, i, call) ->
                next(3, IF call.missing THEN x
                        ELSE Expand(Last(call.args), env, {}, depth + 1, Keep(x, <<s[i]>>)))
          [] IsPunct(s, i, "#") /\ ParamIndexAt(s, i + 1, call) # 0 ->
                next(2, Keep(x, <<StringifyArg(call.args[ParamIndexAt(s, i + 1, call)])>>))
          [] p # 0 /\ AdjacentToPaste(s, i) /\ arg # <<>> -> next(1, Keep(x, arg))
          [] p # 0 /\ AdjacentToPaste(s, i) /\ arg = <<>> ->
                IF x.out # <<>> /\ Last(x.out) = Punct("##")
                THEN next(1, [x EXCEPT !.out = Front(@)])
                ELSE next(IF IsPunct(s, i + 1, "##") THEN 2 ELSE 1, x)
          [] p # 0 /\ ~AdjacentToPaste(s, i) -> next(1, Expand(arg, env, {}, depth + 1, x))
          [] OTHER -> next(1, Keep(x, <<s[i]>>))

PastedAll(x) == PasteTokens(x.out, x)
SubstituteFunctionMacro(def, args, env, depth, x) ==
    PastedAll(SubstituteFrom(Invocation(def, args, JoinVariadicArgs(VariadicArgs(def, args))),
                             1, env, depth, [x EXCEPT !.out = <<>>]))

Accepts(def, args) ==
    IF def.variadic THEN Len(args) >= Len(def.params) ELSE Len(args) = Len(def.params)

Disable(names, a) == names \cup {a}

\* The tokens from i on.  A replacement is expanded with its macro disabled.
RECURSIVE ExpandFrom(_, _, _, _, _, _)
ExpandFrom(s, i, env, disabled, depth, x) ==
    LET tok == s[i]
        known == tok.t \in DOMAIN env.macros
        def == env.macros[tok.t]
        call == ParseInvocationArgs(s, i + 1)
        args == IF call.args = <<>> /\ ~def.variadic /\ Len(def.params) = 1
                THEN <<<<>>>> ELSE call.args
        next(j, y) == ExpandFrom(s, j, env, disabled, depth, y)
        rescanned(got, names) ==
            Expand(got.out, env, names, depth + 1, [got EXCEPT !.out = x.out])
        standsFor == ExpandUnknownIdent(tok, env.where, x)
    IN  IF i > Len(s) \/ ~Ok(x) THEN x
        ELSE IF tok.k # "id" \/ tok.t \in disabled THEN next(i + 1, Keep(x, <<tok>>))
        ELSE
        CASE ~known -> next(i + 1, IF standsFor = <<>> THEN Keep(x, <<tok>>)
                                   ELSE rescanned([Drawn(tok, x) EXCEPT !.out = standsFor], disabled))
          [] known /\ ~def.function ->
                next(i + 1, rescanned(PasteTokens(def.body, x), Disable(disabled, tok.t)))
          [] known /\ def.function /\ call.is = "open" -> Fail(x, "unterminated")
          [] known /\ def.function /\ call.is = "call" /\ Accepts(def, args) ->
                next(call.next, rescanned(SubstituteFunctionMacro(def, args, env, depth, x),
                                          Disable(disabled, tok.t)))
          [] OTHER -> next(i + 1, Keep(x, <<tok>>))

Expand(s, env, disabled, depth, x) ==
    IF depth >= MaxExpansionDepth THEN Fail(x, "depth")
    ELSE ExpandFrom(s, 1, env, disabled, depth, x)

Nothing(counter) == [out |-> <<>>, counter |-> counter, error |-> ""]

ExpandMacrosWithHooks(s, env, counter) == Expand(s, env, {}, 0, Nothing(counter))
----------------------------------------------------------------------------
(* The values of #if: a number of IfBits bits, and whether it is unsigned. *)
IfMod == 2 ^ IfBits
IfValue(n, u) == [n |-> n % IfMod, u |-> u]
IfTruth(b) == IfValue(Truth(b), FALSE)
SignedValue(v) == IF v.n >= IfMod \div 2 THEN v.n - IfMod ELSE v.n
CommonUnsigned(l, r) == l.u \/ r.u

\* Division as the machine does it, towards zero.
Quotient(a, b) ==
    LET abs(n) == IF n < 0 THEN -n ELSE n
        q == abs(a) \div abs(b)
    IN  IF (a < 0) = (b < 0) THEN q ELSE -q

BitAnd(m, n, bit) == (m \div 2 ^ bit) % 2 * ((n \div 2 ^ bit) % 2)
BitSum(f(_)) == FoldLeft(LAMBDA sum, i : sum + f(i - 1) * 2 ^ (i - 1), 0,
                         [i \in 1 .. IfBits |-> i])

(* An operator on two values.  Shifts count in twice the width.            *)
IfApply(op, l, r) ==
    LET u == CommonUnsigned(l, r)
        bits(f(_, _)) ==
            BitSum(LAMBDA i : f((l.n \div 2 ^ i) % 2, (r.n \div 2 ^ i) % 2))
        by == r.n % (2 * IfBits)
        order == IF u THEN l.n - r.n ELSE SignedValue(l) - SignedValue(r)
    IN  CASE op = "*" -> IfValue(l.n * r.n, u)
          [] op = "/" -> IfValue(IF u THEN l.n \div r.n
                                 ELSE Quotient(SignedValue(l), SignedValue(r)), u)
          [] op = "%" ->
                IfValue(IF u THEN l.n % r.n
                        ELSE SignedValue(l)
                             - Quotient(SignedValue(l), SignedValue(r)) * SignedValue(r), u)
          [] op = "+" -> IfValue(l.n + r.n, u)
          [] op = "-" -> IfValue(l.n - r.n, u)
          [] op = "<<" -> IfValue(l.n * 2 ^ by, l.u)
          [] op = ">>" -> IfValue(IF l.u THEN l.n \div 2 ^ by
                                  ELSE SignedValue(l) \div 2 ^ by, l.u)
          [] op = "<" -> IfTruth(order < 0)
          [] op = ">" -> IfTruth(~(order < 0 \/ l.n = r.n))
          [] op = "<=" -> IfTruth(order < 0 \/ l.n = r.n)
          [] op = ">=" -> IfTruth(~(order < 0))
          [] op = "==" -> IfTruth(l.n = r.n)
          [] op = "!=" -> IfTruth(l.n # r.n)
          [] op = "&" -> IfValue(bits(LAMBDA a, b : a * b), u)
          [] op = "^" -> IfValue(bits(LAMBDA a, b : (a + b) % 2), u)
          [] op = "|" -> IfValue(bits(LAMBDA a, b : a + b - a * b), u)

Refused(op, l, r) ==
    \/ op \in {"/", "%"} /\ r.n = 0
    \/ op \in {"<<", ">>"} /\ ~r.u /\ SignedValue(r) < 0

(* The reader of #if: a record with the position, the value read last, the *)
(* error and the macros.  An operand that decides nothing is read without  *)
(* evaluating it.                                                          *)
IfLevels ==
    <<{"||"}, {"&&"}, {"|"}, {"^"}, {"&"}, {"==", "!="}, {"<=", ">=", "<", ">"}, {"<<", ">>"},
      {"+", "-"}, {"*", "/", "%"}>>

IfSays(p, v) == [p EXCEPT !.v = v]
IfSkip(p) == [p EXCEPT !.i = @ + 1]
IfFail(p) == [p EXCEPT !.error = "if"]

IfUnaryOf(op, v) ==
    CASE op = "!" -> IfTruth(v.n = 0)
      [] op = "~" -> IfValue(IfMod - 1 - v.n, v.u)
      [] op = "-" -> IfValue(IfMod - v.n, v.u)
      [] op = "+" -> v

\* The numbers of the instances are decimal; u makes them unsigned, and so
\* does a value that has no signed type.
Literals == {ToString(n) : n \in 0 .. IfMod - 1}
IfNumber(text) ==
    IF text \in Literals
    THEN LET n == CHOOSE n \in 0 .. IfMod - 1 : ToString(n) = text
         IN  IfValue(n, n >= IfMod \div 2)
    ELSE IfValue(CHOOSE n \in 0 .. IfMod - 1 : ToString(n) \o "u" = text, TRUE)

\* #predicate(...) asks for an assertion, of which none holds.
IfAssertion(s, p) ==
    LET answer == ParseInvocationArgs(s, p.i + 2)
    IN  IF ~IsName(s, p.i + 1) \/ answer.is = "open" THEN IfFail(p)
        ELSE IfSays([p EXCEPT !.i = answer.next], IfTruth(FALSE))

\* A defined that was not there before the expansion.
IfDefined(s, p, eval) ==
    LET inBrackets == IsPunct(s, p.i + 1, "(")
        at == IF inBrackets THEN p.i + 2 ELSE p.i + 1
        past == IF inBrackets THEN at + 2 ELSE at + 1
    IN  IF ~IsName(s, at) \/ (inBrackets /\ ~IsPunct(s, at + 1, ")")) THEN IfFail(p)
        ELSE IfSays([p EXCEPT !.i = past], IfTruth(eval /\ s[at].t \in DOMAIN p.macros))

RECURSIVE IfConditional(_, _, _)
IfPrimary(s, p, eval) ==
    LET closed(inner) ==
            IF inner.error # "" \/ ~IsPunct(s, inner.i, ")") THEN IfFail(inner) ELSE IfSkip(inner)
    IN  IF IsPunct(s, p.i, "(") THEN closed(IfConditional(s, IfSkip(p), eval))
        ELSE IF IsPunct(s, p.i, "#") THEN IfAssertion(s, p)
        ELSE IF IsWord(s, p.i, "defined") THEN IfDefined(s, p, eval)
        ELSE IF p.i \in DOMAIN s /\ s[p.i].k = "num" THEN IfSays(IfSkip(p), IfNumber(s[p.i].t))
        ELSE IF IsName(s, p.i) THEN IfSays(IfSkip(p), IfTruth(FALSE))
        ELSE IfFail(p)

RECURSIVE IfUnary(_, _, _)
IfUnary(s, p, eval) ==
    LET applied(got) ==
            IfSays(got, IF eval THEN IfUnaryOf(s[p.i].t, got.v)
                        ELSE IF s[p.i].t = "+" THEN got.v ELSE IfTruth(FALSE))
    IN  IF \E op \in {"!", "~", "-", "+"} : IsPunct(s, p.i, op)
        THEN applied(IfUnary(s, IfSkip(p), eval))
        ELSE IfPrimary(s, p, eval)

RightIsEvaluated(op, left, eval) ==
    CASE op = "&&" -> eval /\ left.n # 0
      [] op = "||" -> eval /\ left.n = 0
      [] OTHER -> eval

RECURSIVE IfBinary(_, _, _, _)
RECURSIVE IfMore(_, _, _, _)

\* The value of an operator whose operands were read.
IfResult(op, l, r, eval) ==
    LET compared == op \in {"==", "!=", "<", ">", "<=", ">="}
    IN  CASE op = "&&" -> IfTruth(eval /\ l.n # 0 /\ r.n # 0)
          [] op = "||" -> IfTruth(eval /\ (l.n # 0 \/ r.n # 0))
          [] compared /\ ~eval -> IfTruth(FALSE)
          [] op \notin {"&&", "||"} /\ ~compared /\ ~eval -> l
          [] OTHER -> IfApply(op, l, r)

IfMore(s, level, left, eval) ==
    LET op == s[left.i].t
        with(right) ==
            IF right.error # "" THEN right
            ELSE IF eval /\ Refused(op, left.v, right.v) THEN IfFail(right)
            ELSE IfMore(s, level, IfSays(right, IfResult(op, left.v, right.v, eval)), eval)
    IN  IF left.error # "" \/ ~(\E o \in IfLevels[level] : IsPunct(s, left.i, o)) THEN left
        ELSE with(IfBinary(s, level + 1, IfSkip(left), RightIsEvaluated(op, left.v, eval)))

IfBinary(s, level, p, eval) ==
    IF level > Len(IfLevels) THEN IfUnary(s, p, eval)
    ELSE IfMore(s, level, IfBinary(s, level + 1, p, eval), eval)

\* The branches of ?:, of which the condition read last evaluates one.
IfChosen(holds, then, other) == IF holds THEN IfSays(other, then.v) ELSE other
IfBranches(s, cond, then, eval) ==
    IF then.error # "" \/ ~IsPunct(s, then.i, ":") THEN IfFail(then)
    ELSE IfChosen(eval /\ cond.v.n # 0, then,
                  IfConditional(s, IfSkip(then), eval /\ cond.v.n = 0))
IfCondition(s, cond, eval) ==
    IF cond.error # "" \/ ~IsPunct(s, cond.i, "?") THEN cond
    ELSE IfBranches(s, cond, IfConditional(s, IfSkip(cond), eval /\ cond.v.n # 0), eval)

IfConditional(s, p, eval) ==
    IfCondition(s, IfBinary(s, 1, p, eval), eval)

\* A condition is all of its tokens.
IfWhole(s, p) == IF p.i # Len(s) + 1 THEN IfFail(p) ELSE p
IfExpression(s, macros) ==
    IfWhole(s, IfConditional(s, [i |-> 1, v |-> IfTruth(FALSE), error |-> "",
                                 macros |-> macros], TRUE))
----------------------------------------------------------------------------
(* Files are found in directories: a path is a directory and a name.       *)
Path(dir, name) == <<dir, name>>
PathText(path) == path[1] \o "/" \o path[2]
Files == DOMAIN unit.files

SearchedDirs(base) ==
    <<base>> \o unit.quote \o unit.user \o unit.system \o unit.after
AngledDirs == unit.user \o unit.system \o unit.after

\* #include_next searches from the directory after that of the file.
IncludeNextDirs(base) ==
    LET dirs == SearchedDirs(base)
        others == {i \in DOMAIN dirs : dirs[i] # base}
    IN  IF others = {} THEN <<>> ELSE SubSeq(dirs, Min(others), Len(dirs))

\* The path of an operand [angled, name] as a sequence: empty if there is none.
ResolveIncludePath(spec, base, next) ==
    LET dirs == IF next THEN IncludeNextDirs(base)
                ELSE IF spec.angled THEN AngledDirs ELSE SearchedDirs(base)
        i == SelectInSeq(dirs, LAMBDA d : Path(d, spec.name) \in Files)
    IN  IF i = 0 THEN <<>> ELSE <<Path(dirs[i], spec.name)>>

\* An operand in quotes or angles; anything else is expanded first.
LiteralHeader(s) ==
    IF Len(s) = 1 /\ s[1].k = "str" THEN <<[angled |-> FALSE, name |-> s[1].t]>>
    ELSE IF Len(s) = 3 /\ IsPunct(s, 1, "<") /\ IsPunct(s, 3, ">")
    THEN <<[angled |-> TRUE, name |-> s[2].t]>>
    ELSE <<>>

IsVirtual(spec) == spec.angled /\ spec.name \in DOMAIN VirtualHeaders
----------------------------------------------------------------------------
(* The preprocessor's record.  A frame is a file being read: its path, the *)
(* line to read next, the name and number that line is given, the          *)
(* conditional groups that are open and the text not yet expanded.         *)
NoText == [lines |-> <<>>, start |-> 0, file |-> ""]

Frame(path, role) ==
    [path |-> path, role |-> role, i |-> 1, file |-> PathText(path), next |-> 1,
     conds |-> <<>>, text |-> NoText]

Top(p) == Last(p.frames)
WithTop(p, f) == [p EXCEPT !.frames = Front(@) \o <<f>>]
Level(p) == Len(p.frames) - 1
Lines(p) == unit.files[Top(p).path]
BaseDir(p) == Top(p).path[1]

ConditionalsActive(conds) == conds # <<>> => Last(conds).parent /\ Last(conds).active

Where(p, file, line) ==
    [file |-> file, line |-> line, level |-> Level(p), base |-> PathText(unit.main)]

\* Expanding the operands of a directive, with a table made for it.
ExpandPreprocessorTokens(p, toks) ==
    ExpandMacrosWithHooks(toks,
        [macros |-> p.macros, where |-> Where(p, Top(p).file, Top(p).next - 1)], p.counter)

Drew(p, x) == [p EXCEPT !.counter = x.counter, !.error = IF Ok(p) THEN x.error ELSE @]

\* (Mutant: a header that is built in changes the macros behind the table.)
KeepTokenMacroCache(p) == p

InvalidateTokenMacroCache(p) == [p EXCEPT !.dirty = TRUE]

\* The table for the text: converted again when it may be stale.
TokenMacroTable(p) ==
    IF p.dirty THEN [p EXCEPT !.cache = p.macros, !.dirty = FALSE] ELSE p

CheckPoisoned(p, toks) ==
    IF \E i \in DOMAIN toks : IsName(toks, i) /\ toks[i].t \in p.poisoned
    THEN Fail(p, "poisoned") ELSE p
----------------------------------------------------------------------------
(* Pragmas, as the tokens they are made of.  The name of a macro is quoted. *)
MacroNameOf(s) ==
    IF Len(s) = 4 /\ IsPunct(s, 2, "(") /\ s[3].k = "str" /\ IsPunct(s, 4, ")")
    THEN <<s[3].t>> ELSE <<>>

PushMacro(p, a) ==
    LET now == IF a \in DOMAIN p.macros THEN <<p.macros[a]>> ELSE <<>>
        old == IF a \in DOMAIN p.saved THEN p.saved[a] ELSE <<>>
    IN  [p EXCEPT !.saved = (a :> Append(old, now)) @@ @]

Without(m, a) == [b \in DOMAIN m \ {a} |-> m[b]]
Defined(m, a, def) == (a :> def) @@ m

PopMacro(p, a) ==
    IF a \notin DOMAIN p.saved \/ p.saved[a] = <<>> THEN p
    ELSE InvalidateTokenMacroCache(
            [p EXCEPT !.saved[a] = Front(@),
                      !.macros = IF Last(p.saved[a]) = <<>> THEN Without(@, a)
                                 ELSE Defined(@, a, Head(Last(p.saved[a])))])

Alignments == [a \in {"1", "2", "4", "8", "16"} |-> CHOOSE n \in 1 .. 16 : ToString(n) = a]

\* 0 stands for no alignment set.
Pack(p, words) ==
    LET inner == SubSeq(words, 3, Len(words) - 1)
        aligns(w) == w \in DOMAIN Alignments
        pushed == [p EXCEPT !.packs = Append(@, p.pack)]
    IN  IF Len(words) < 3 \/ words[2] # "(" \/ Last(words) # ")" THEN Fail(p, "pack")
        ELSE CASE inner \in {<<>>, <<"0">>} -> [p EXCEPT !.pack = 0]
               [] inner = <<"push">> -> pushed
               [] inner = <<"pop">> ->
                    [p EXCEPT !.pack = IF p.packs = <<>> THEN 0 ELSE Last(p.packs),
                              !.packs = IF @ = <<>> THEN @ ELSE Front(@)]
               [] Len(inner) = 3 /\ inner[1] = "push" /\ aligns(inner[3]) ->
                    [pushed EXCEPT !.pack = Alignments[inner[3]]]
               [] Len(inner) = 1 /\ aligns(inner[1]) -> [p EXCEPT !.pack = Alignments[inner[1]]]
               [] OTHER -> Fail(p, "pack")

\* path is the file the pragma stands in.
HandleInternalPragma(p, s, path) ==
    LET words == [i \in DOMAIN s |-> s[i].t]
        name == MacroNameOf(s)
        onName(f(_, _)) == IF name = <<>> THEN Fail(p, "pragma") ELSE f(p, name[1])
    IN  IF words = <<>> THEN p
        ELSE CASE words = <<"once">> -> [p EXCEPT !.once = @ \cup {path}]
               [] words = <<"GCC", "system_header">> -> [p EXCEPT !.marked = @ \cup {path}]
               [] words[1] = "push_macro" -> onName(PushMacro)
               [] words[1] = "pop_macro" -> onName(PopMacro)
               [] words[1] = "pack" -> Pack(p, words)
               [] Len(words) > 2 /\ words[1] = "GCC" /\ words[2] = "poison" ->
                    [p EXCEPT !.poisoned = @ \cup ToSet(SubSeq(words, 3, Len(words)))]
               [] OTHER -> p

\* _Pragma("...") is taken out of the text: the rest and the pragmas.
RECURSIVE PragmaOperators(_, _)
PragmaOperators(s, got) ==
    IF s = <<>> THEN got
    ELSE IF ~IsWord(s, 1, "_Pragma")
    THEN PragmaOperators(Tail(s), [got EXCEPT !.rest = Append(@, Head(s))])
    ELSE IF IsPunct(s, 2, "(") /\ Len(s) > 3 /\ s[3].k = "str" /\ IsPunct(s, 4, ")")
    THEN PragmaOperators(SubSeq(s, 5, Len(s)), [got EXCEPT !.pragmas = Append(@, <<Id(s[3].t)>>)])
    ELSE [got EXCEPT !.error = "pragma"]

\* Every struct and union after #pragma pack is given the alignment.
InjectPackAttributes(s, align) ==
    IF align = 0 THEN s
    ELSE FlattenSeq([i \in DOMAIN s |->
            IF IsWord(s, i, "struct") \/ IsWord(s, i, "union")
            THEN <<s[i], Token("packed", ToString(align))>> ELSE <<s[i]>>])
----------------------------------------------------------------------------
(* The text collected since the last directive is expanded in one go.      *)
TextTokens(text) ==
    FlattenSeq([i \in DOMAIN text.lines |->
        [j \in DOMAIN text.lines[i] |-> [text.lines[i][j] EXCEPT !.ln = i]]])

Appended(p, s) == CheckPoisoned([p EXCEPT !.out = @ \o s], s)
AppendedPacked(p, s) == Appended(p, InjectPackAttributes(s, p.pack))
WithoutPragmas(p, ops) ==
    IF ops.error # "" THEN Fail(p, ops.error)
    ELSE AppendedPacked(FoldLeft(LAMBDA q, pragma : HandleInternalPragma(q, pragma, Top(p).path),
                                 p, ops.pragmas),
                        ops.rest)

\* What the expansion of a text does to the output.
Emitted(p, toks) ==
    WithoutPragmas(p, PragmaOperators(toks, [rest |-> <<>>, pragmas |-> <<>>, error |-> ""]))

EmitExpanded(p, got) ==
    IF got.error # "" THEN Fail(p, got.error) ELSE Emitted(Drew(p, got), got.out)
ExpandWithTable(p, text, toks) ==
    EmitExpanded(p, ExpandMacrosWithHooks(toks,
        [macros |-> p.cache, where |-> Where(p, text.file, text.start)], p.counter))

\* The text that was taken off p, whose tokens were checked.
ExpandTaken(p, text, toks) ==
    IF ~Ok(p) \/ unit.suppress THEN p ELSE ExpandWithTable(TokenMacroTable(p), text, toks)
FlushText(p, text, toks) ==
    ExpandTaken(CheckPoisoned(WithTop(p, [Top(p) EXCEPT !.text = NoText]), toks), text, toks)

FlushPendingSource(p) ==
    IF Top(p).text.lines = <<>> THEN p
    ELSE FlushText(p, Top(p).text, TextTokens(Top(p).text))
----------------------------------------------------------------------------
(* The operand of an #include, and the questions that #if may ask.         *)
\* An empty sequence of specs is a malformed operand.
ParseIncludeOperand(p, s) ==
    LET expanded(got) == [specs |-> LiteralHeader(got.out), p |-> Drew(p, got)]
    IN  IF LiteralHeader(s) # <<>> THEN [specs |-> LiteralHeader(s), p |-> p]
        ELSE expanded(ExpandPreprocessorTokens(p, s))

(* #embed: an operand, then parameters with their tokens in parentheses.   *)
EmbedParameters == {"limit", "prefix", "suffix", "if_empty"}

\* A limit is a number that is not negative.
EmbedLimit(limit, got) ==
    IF limit.error # "" \/ (~limit.v.u /\ SignedValue(limit.v) < 0)
    THEN [got EXCEPT !.error = "embed"]
    ELSE [got EXCEPT !.given = ("limit" :> limit.v.n) @@ @]
EmbedParameter(name, content, got) ==
    IF name \in DOMAIN got.given THEN [got EXCEPT !.error = "embed"]
    ELSE IF name = "limit" THEN EmbedLimit(IfExpression(content, got.macros), got)
    ELSE [got EXCEPT !.given = (name :> content) @@ @]

RECURSIVE ParseEmbedParameters(_, _)
ParseEmbedParameters(s, got) ==
    LET group == ParseInvocationArgs(s, 2)
    IN  IF s = <<>> \/ got.error # "" THEN got
        ELSE IF ~IsName(s, 1) \/ group.is # "call" THEN [got EXCEPT !.error = "embed"]
        ELSE IF s[1].t \notin EmbedParameters THEN [got EXCEPT !.error = "unsupported"]
        ELSE ParseEmbedParameters(SubSeq(s, group.next, Len(s)),
                                  EmbedParameter(s[1].t, SubSeq(s, 3, group.next - 2), got))

\* The spec, the parameters and the error of an operand already expanded.
ParseEmbed(s, macros) ==
    LET n == IF Len(s) > 0 /\ s[1].k = "str" THEN 1 ELSE 3
        of(header, got) ==
            IF header = <<>> THEN [got EXCEPT !.error = "embed"] ELSE got @@ [spec |-> header[1]]
    IN  of(LiteralHeader(SubSeq(s, 1, n)),
           ParseEmbedParameters(SubSeq(s, n + 1, Len(s)), [given |-> <<>>, error |-> "", macros |-> macros]))

\* The bytes of the file at path that the limit lets through.
EmbedBytes(path, given) ==
    LET bytes == unit.files[path]
    IN  IF "limit" \notin DOMAIN given THEN bytes
        ELSE SubSeq(bytes, 1, Min({given["limit"], Len(bytes)}))

Given(given, a) == IF a \in DOMAIN given THEN given[a] ELSE <<>>

Available(p, spec, next) ==
    \/ ResolveIncludePath(spec, BaseDir(p), next) # <<>>
    \/ ~next /\ IsVirtual(spec)

\* __has_embed: 0 not found, 1 found, 2 found and empty.
HasEmbed(p, embed) ==
    LET found(path) ==
            IF path = <<>> THEN 0 ELSE IF EmbedBytes(path[1], embed.given) = <<>> THEN 2 ELSE 1
    IN  IF embed.error = "unsupported" THEN 0
        ELSE found(ResolveIncludePath(embed.spec, BaseDir(p), FALSE))

\* The answers: a number, the preprocessor after it, and the error.
HeaderAnswer(header, next) ==
    IF header.specs = <<>> THEN [error |-> "header"]
    ELSE [error |-> "", p |-> header.p, n |-> Truth(Available(header.p, header.specs[1], next))]
EmbedFound(p, embed, got) ==
    IF embed.error = "embed" THEN [error |-> "embed"]
    ELSE [error |-> "", p |-> Drew(p, got), n |-> HasEmbed(p, embed)]
EmbedAnswer(p, got) == EmbedFound(p, ParseEmbed(got.out, p.macros), got)

Questions == {"__has_include", "__has_include_next", "__has_embed"} \cup DOMAIN Probes

\* The tokens of a condition with its questions answered.
RECURSIVE ReplacePredicates(_, _, _)
ReplacePredicates(s, i, q) ==
    LET inBrackets == IsPunct(s, i + 1, "(")
        group == ParseInvocationArgs(s, i + 1)
        inside == SubSeq(s, i + 2, group.next - 2)
        isDefined == IsWord(s, i, "defined") /\ (inBrackets \/ IsName(s, i + 1))
        asked == IsName(s, i) /\ s[i].t \in Questions /\ inBrackets
        name == IF inBrackets THEN s[i + 2].t ELSE s[i + 1].t
        answer(n, next, p) ==
            ReplacePredicates(s, next, [out |-> Append(q.out, Num(ToString(n))), p |-> p])
        answerOr(a) ==
            IF a.error # "" THEN [q EXCEPT !.p = Fail(@, a.error)] ELSE answer(a.n, group.next, a.p)
    IN  IF i > Len(s) \/ ~Ok(q.p) THEN q
        ELSE CASE isDefined /\ inBrackets /\ ~(IsName(s, i + 2) /\ IsPunct(s, i + 3, ")")) ->
                    [q EXCEPT !.p = Fail(@, "defined")]
               [] isDefined /\ (inBrackets => IsName(s, i + 2) /\ IsPunct(s, i + 3, ")")) ->
                    answer(Truth(name \in DOMAIN q.p.macros),
                           i + (IF inBrackets THEN 4 ELSE 2), q.p)
               [] asked /\ group.is = "open" -> [q EXCEPT !.p = Fail(@, "question")]
               [] asked /\ group.is = "call" ->
                    CASE s[i].t = "__has_embed" ->
                            answerOr(EmbedAnswer(q.p, ExpandPreprocessorTokens(q.p, inside)))
                      [] s[i].t \in {"__has_include", "__has_include_next"} ->
                            answerOr(HeaderAnswer(ParseIncludeOperand(q.p, inside),
                                                  s[i].t = "__has_include_next"))
                      [] OTHER -> answer(Truth(name \in Probes[s[i].t]), group.next, q.p)
               [] OTHER -> ReplacePredicates(s, i + 1, [q EXCEPT !.out = Append(@, s[i])])

Evaluated(p, value) ==
    IF ~Ok(p) \/ value.error # "" THEN [p |-> Fail(p, value.error), holds |-> FALSE]
    ELSE [p |-> p, holds |-> value.v.n # 0]
EvalExpanded(p, got) == Evaluated(Drew(p, got), IfExpression(got.out, p.macros))
EvalAnswered(asked) ==
    EvalExpanded(asked.p, ExpandPreprocessorTokens(asked.p, asked.out))

\* The value of a condition, and what its evaluation leaves.
EvalInternalIf(p, s) ==
    EvalAnswered(ReplacePredicates(s, 1, [out |-> <<>>, p |-> p]))
----------------------------------------------------------------------------
(* The directives.  Each is given the preprocessor with the text before    *)
(* it expanded and the line counted, and the tokens of its operands.       *)
Conds(p) == Top(p).conds
WithConds(p, conds) == WithTop(p, [Top(p) EXCEPT !.conds = conds])
Active(p) == ConditionalsActive(Conds(p))

OpenConditional(p, holds) ==
    WithConds(p, Append(Conds(p), [parent |-> Active(p), active |-> Active(p) /\ holds,
                                   taken |-> Active(p) /\ holds, else |-> FALSE]))

DoIfdef(p, s, negated) == OpenConditional(p, (s[1].t \in DOMAIN p.macros) # negated)

DoIf(p, s) ==
    LET opened(value) == OpenConditional(value.p, value.holds)
    IN  IF Active(p) THEN opened(EvalInternalIf(p, s)) ELSE OpenConditional(p, FALSE)

\* (Mutant: a branch is tried although an earlier one was taken.)
TryAgain(p, value) ==
    LET f == Last(Conds(p))
    IN  IF Conds(p) = <<>> \/ f.else THEN Fail(p, "elif")
        ELSE IF ~f.parent THEN WithConds(p, Front(Conds(p)) \o <<[f EXCEPT !.active = FALSE]>>)
        ELSE WithConds(value.p, Front(Conds(p)) \o
                                <<[f EXCEPT !.active = value.holds, !.taken = value.holds]>>)

TryBranch(p, value) ==
    LET f == Last(Conds(p))
    IN  IF Conds(p) = <<>> \/ f.else THEN Fail(p, "elif")
        ELSE IF ~f.parent \/ f.taken
        THEN WithConds(p, Front(Conds(p)) \o <<[f EXCEPT !.active = FALSE]>>)
        ELSE WithConds(value.p, Front(Conds(p)) \o
                                <<[f EXCEPT !.active = value.holds, !.taken = value.holds]>>)

DoElif(p, s) == TryBranch(p, EvalInternalIf(p, s))
DoElifdef(p, s, negated) ==
    TryBranch(p, [p |-> p, holds |-> (s[1].t \in DOMAIN p.macros) # negated])

DoElse(p) ==
    LET f == Last(Conds(p))
    IN  IF Conds(p) = <<>> \/ f.else THEN Fail(p, "else")
        ELSE WithConds(p, Front(Conds(p)) \o
                <<[f EXCEPT !.active = f.parent /\ ~f.taken, !.taken = TRUE, !.else = TRUE]>>)

DoEndif(p) ==
    IF Conds(p) = <<>> THEN Fail(p, "endif") ELSE WithConds(p, Front(Conds(p)))

(* #define: a parenthesis right after the name makes a function-like macro *)
IsSpace(s, i) == i \in DOMAIN s /\ s[i].k = "space"
NoSpace(s) == SelectSeq(s, LAMBDA t : t.k # "space")

\* The parameters: names, or ... last, or a name with ... for the rest.
ParseMacroParams(group) ==
    LET names == [i \in DOMAIN group |-> group[i][1].t]
        n == Len(group)
        dots == n > 0 /\ IsPunct(group[n], 1, "...")
        named == n > 0 /\ Len(group[n]) = 2 /\ IsPunct(group[n], 2, "...")
        plain == IF dots \/ named THEN Front(group) ELSE group
    IN  [ok |-> /\ \A i \in DOMAIN plain : Len(plain[i]) = 1 /\ IsName(plain[i], 1)
                                           /\ names[i] \notin {"__VA_ARGS__", "__VA_OPT__"}
                /\ IsInjective(names),
         params |-> [i \in DOMAIN plain |-> names[i]],
         variadic |-> dots \/ named,
         rest |-> IF named THEN names[n] ELSE "__VA_ARGS__"]

ParseDefine(s) ==
    LET renamed(body, params) ==
            [i \in DOMAIN body |->
                IF IsWord(body, i, params.rest) /\ params.variadic
                THEN [body[i] EXCEPT !.t = "__VA_ARGS__"] ELSE body[i]]
        function(params, body) ==
            [ok |-> params.ok,
             def |-> FunctionMacro(params.params, params.variadic, renamed(body, params))]
        after(group) ==
            IF ~IsName(s, 1) \/ group.is = "open" THEN [ok |-> FALSE]
            ELSE IF group.is = "none"
            THEN [ok |-> TRUE, def |-> ObjectMacro(NoSpace(Tail(s)))]
            ELSE function(ParseMacroParams([i \in DOMAIN group.args |-> NoSpace(group.args[i])]),
                          NoSpace(SubSeq(s, group.next, Len(s))))
    IN  after(ParseInvocationArgs(s, 2))

\* A second definition of a macro must be the one it has.
DoDefine(p, s) ==
    LET a == s[1].t
        as(d) ==
            IF ~d.ok THEN Fail(p, "define")
            ELSE IF a \notin DOMAIN p.macros
            THEN InvalidateTokenMacroCache([p EXCEPT !.macros = Defined(@, a, d.def)])
            ELSE IF p.macros[a] # d.def THEN Fail(p, "redefined")
            ELSE p
    IN  as(ParseDefine(s))

DoUndef(p, s) == InvalidateTokenMacroCache([p EXCEPT !.macros = Without(@, s[1].t)])

\* #line, and the form that a preprocessor writes itself, # 1 "file".
LineOperand(s) ==
    /\ Len(s) \in {1, 2} /\ s[1].k = "num"
    /\ Len(s) = 2 => s[2].k = "str"

NumberOf(text) == CHOOSE n \in 0 .. 999 : ToString(n) = text
Renumbered(p, s) ==
    WithTop(p, [Top(p) EXCEPT !.next = NumberOf(s[1].t),
                              !.file = IF Len(s) = 2 THEN s[2].t ELSE @])

DoLine(p, s) ==
    LET expanded(got) ==
            IF got.error = "" /\ LineOperand(got.out) THEN Renumbered(Drew(p, got), got.out)
            ELSE Fail(p, "line")
    IN  IF LineOperand(s) THEN Renumbered(p, s) ELSE expanded(ExpandPreprocessorTokens(p, s))

DoEmpty(p, s) ==
    IF s = <<>> \/ s[1].k # "num" THEN p
    ELSE IF LineOperand(s) THEN Renumbered(p, s) ELSE Fail(p, "line")

DoPragma(p, s) ==
    LET expanded(got) ==
            IF got.error # "" THEN Fail(p, got.error)
            ELSE HandleInternalPragma(Drew(p, got), got.out, Top(p).path)
    IN  expanded(ExpandPreprocessorTokens(p, s))
----------------------------------------------------------------------------
(* Files: what is read is a dependency, unless it is a header of the       *)
(* system and only those of the user are asked for.                        *)
IsSystemDependency(path) == path[1] \in ToSet(unit.system) \cup ToSet(unit.after)

RecordDependency(p, path) ==
    IF unit.userOnly /\ (IsSystemDependency(path) \/ path \in p.marked) THEN p
    ELSE [p EXCEPT !.deps = Append(@, path)]

UnrecordDependency(p, path) ==
    IF unit.userOnly /\ path \in p.marked
    THEN [p EXCEPT !.deps = SelectSeq(@, LAMBDA d : d # path)] ELSE p

GeneratedDependency(p, spec) == [p EXCEPT !.deps = Append(@, Path("", spec.name))]

\* The first line of a file that was read before shuts it out: #ifndef and a
\* macro, or #if !defined of a macro and nothing more.
InactiveRecursiveIncludeGuard(p, path) ==
    LET first == unit.files[path][1]
        operand == SubSeq(first.s, 3, Len(first.s))
        names(a) == operand = <<a>> \/ (Len(operand) = 3 /\ operand[2] = a
                                          /\ IsPunct(operand, 1, "(") /\ IsPunct(operand, 3, ")"))
    IN  /\ unit.files[path] # <<>>
        /\ \/ first.d = "ifndef" /\ first.s[1].t \in DOMAIN p.macros
           \/ /\ first.d = "if" /\ IsPunct(first.s, 1, "!") /\ IsWord(first.s, 2, "defined")
              /\ \E a \in ToSet(operand) : names(a) /\ a.t \in DOMAIN p.macros

\* Opening a file, unless it is not to be read again.
StartFile(p, path, role) ==
    LET open == {p.frames[i].path : i \in DOMAIN p.frames}
        closed == IF role = "main" THEN p ELSE UnrecordDependency(p, path)
    IN  IF path \in p.once THEN closed
        ELSE IF path \in open
        THEN IF InactiveRecursiveIncludeGuard(p, path) THEN closed ELSE Fail(p, "recursive")
        ELSE IF Len(p.frames) >= MaxIncludeDepth THEN Fail(p, "deep")
        ELSE [p EXCEPT !.frames = Append(@, Frame(path, role))]

\* A header built into the compiler: its text is not modelled, its macros are.
EmitVirtualInclude(p, name) ==
    InvalidateTokenMacroCache([p EXCEPT !.macros = VirtualHeaders[name].macros @@ @])

IncludeFile(p, spec, next) ==
    LET from(path) ==
            IF ~next /\ IsVirtual(spec) /\ (VirtualHeaders[spec.name].preferred \/ path = <<>>)
            THEN EmitVirtualInclude(p, spec.name)
            ELSE IF path # <<>> THEN StartFile(RecordDependency(p, path[1]), path[1], "include")
            ELSE IF unit.missingGenerated THEN GeneratedDependency(p, spec)
            ELSE Fail(p, "not found")
    IN  from(ResolveIncludePath(spec, BaseDir(p), next))

DoInclude(p, s, next) ==
    LET of(operand) ==
            IF operand.specs = <<>> THEN Fail(p, "operand")
            ELSE IncludeFile(operand.p, operand.specs[1], next)
    IN  of(ParseIncludeOperand(p, s))

\* The bytes of a file as numbers, with what goes around them.
EmbeddedBytes(bytes, given) ==
    LET listed == Separated([i \in DOMAIN bytes |-> <<Num(ToString(bytes[i]))>>])
    IN  IF bytes = <<>> THEN Given(given, "if_empty")
        ELSE Given(given, "prefix") \o listed \o Given(given, "suffix")

EmbedFrom(p, path, given, q) ==
    IF path = <<>> THEN Fail(p, "embed")
    ELSE Keep(RecordDependency(q, path[1]), EmbeddedBytes(EmbedBytes(path[1], given), given))

\* q is the preprocessor after the expansion of the operand.
EmbedParsed(p, embed, q) ==
    IF embed.error # "" THEN Fail(p, "embed")
    ELSE EmbedFrom(p, ResolveIncludePath(embed.spec, BaseDir(p), FALSE), embed.given, q)

DoEmbed(p, s) ==
    LET expanded(got) ==
            IF got.error # "" THEN Fail(p, "embed")
            ELSE EmbedParsed(p, ParseEmbed(got.out, p.macros), Drew(p, got))
    IN  expanded(ExpandPreprocessorTokens(p, s))
----------------------------------------------------------------------------
(* Steps: opening a file, reading a line of it, closing it.                *)
Line(p) == Lines(p)[Top(p).i]

\* The preprocessor with the text before a directive expanded, and the
\* directive counted.
Counted(p) == WithTop(p, [Top(p) EXCEPT !.i = @ + 1, !.next = @ + 1])

ConditionalDirectives ==
    {"if", "ifdef", "ifndef", "elif", "elifdef", "elifndef", "else", "endif"}

Reading == Ok(pp) /\ pp.frames # <<>> /\ Top(pp).i \in DOMAIN Lines(pp)

\* A directive named d, which do handles.
Directive(d, do(_, _)) ==
    LET handled(p) == IF Ok(p) THEN do(p, Line(pp).s) ELSE p
        checked(p) == IF d = "pragma" THEN p ELSE CheckPoisoned(p, Line(pp).s)
    IN  /\ Reading
        /\ Line(pp).d = d
        /\ d \notin ConditionalDirectives => Active(pp)
        /\ pp' = handled(checked(FlushPendingSource(Counted(pp))))
        /\ UNCHANGED unit

Ifdef == Directive("ifdef", LAMBDA p, s : DoIfdef(p, s, FALSE))
Ifndef == Directive("ifndef", LAMBDA p, s : DoIfdef(p, s, TRUE))
IfDirective == Directive("if", DoIf)
Elif == Directive("elif", DoElif)
Elifdef == Directive("elifdef", LAMBDA p, s : DoElifdef(p, s, FALSE))
Elifndef == Directive("elifndef", LAMBDA p, s : DoElifdef(p, s, TRUE))
Else == Directive("else", LAMBDA p, s : DoElse(p))
Endif == Directive("endif", LAMBDA p, s : DoEndif(p))
Define == Directive("define", DoDefine)
UndefDirective == Directive("undef", DoUndef)
Include == Directive("include", LAMBDA p, s : DoInclude(p, s, FALSE))
IncludeNext == Directive("include_next", LAMBDA p, s : DoInclude(p, s, TRUE))
Embed == Directive("embed", DoEmbed)
LineDirective == Directive("line", DoLine)
EmptyDirective == Directive("", DoEmpty)
Pragma == Directive("pragma", DoPragma)
ErrorDirective == Directive("error", LAMBDA p, s : Fail(p, "error"))
Warning == Directive("warning", LAMBDA p, s : p)
UnknownDirective == Directive("unknown", LAMBDA p, s : Fail(p, "unknown"))

\* A directive in a group that is left out.
SkipDirective ==
    /\ Reading
    /\ ~Active(pp) /\ Line(pp).d \notin ConditionalDirectives \cup {"text"}
    /\ pp' = FlushPendingSource(Counted(pp))
    /\ UNCHANGED unit

\* A line of text joins those before it.
Text ==
    LET text == Top(pp).text
        started == IF text.lines # <<>> THEN text
                   ELSE [NoText EXCEPT !.start = Top(pp).next, !.file = Top(pp).file]
        blank == Line(pp).s = <<>> /\ text.lines = <<>>
        q == Counted(pp)
    IN  /\ Reading
        /\ Line(pp).d = "text"
        /\ pp' = IF ~Active(pp) \/ blank THEN q
                 ELSE WithTop(q, [Top(q) EXCEPT
                                    !.text = [started EXCEPT !.lines = Append(@, Line(pp).s)]])
        /\ UNCHANGED unit

\* The end of a file: what -imacros reads leaves only its macros.
Closed(p) ==
    LET f == Top(p)
        popped == [p EXCEPT !.frames = Front(@)]
    IN  CASE f.role = "main" -> popped
          [] f.role = "macros" -> [UnrecordDependency(popped, f.path) EXCEPT !.out = <<>>]
          [] f.role \in {"forced", "include"} -> UnrecordDependency(popped, f.path)

CloseFile ==
    LET ended(p) ==
            IF ~Ok(p) THEN p ELSE IF Conds(pp) # <<>> THEN Fail(p, "unterminated") ELSE Closed(p)
    IN  /\ Ok(pp) /\ pp.frames # <<>> /\ ~Reading
        /\ pp' = ended(FlushPendingSource(pp))
        /\ UNCHANGED unit

\* The files given by -imacros and -include, then the main one.
NextOpened(p) ==
    LET next == Head(p.queue)
        spec == [angled |-> FALSE, name |-> next.name]
        q == [p EXCEPT !.queue = Tail(@)]
        from(path) ==
            IF path # <<>> THEN StartFile(RecordDependency(q, path[1]), path[1], next.role)
            ELSE IF unit.missingGenerated THEN GeneratedDependency(q, spec)
            ELSE Fail(q, "not found")
    IN  IF next.role = "main" THEN StartFile(q, unit.main, "main")
        ELSE from(ResolveIncludePath(spec, ".", FALSE))

OpenTopLevel ==
    /\ Ok(pp) /\ pp.frames = <<>> /\ pp.queue # <<>>
    /\ pp' = NextOpened(pp)
    /\ UNCHANGED unit

\* -D in the order given, then -U.
ApplyCliMacros(defines, undefs) ==
    LET defined == FoldLeft(LAMBDA m, s : Defined(m, s[1].t, ParseDefine(s).def), <<>>, defines)
    IN  [a \in DOMAIN defined \ undefs |-> defined[a]]

Started(u) ==
    [macros |-> ApplyCliMacros(u.defines, u.undefs), cache |-> <<>>, dirty |-> TRUE,
     frames |-> <<>>, once |-> {}, marked |-> {}, poisoned |-> {}, saved |-> <<>>,
     packs |-> <<>>, pack |-> 0, counter |-> 0, out |-> <<>>, deps |-> <<>>, error |-> "",
     queue |-> u.queue \o <<[role |-> "main", name |-> u.main[2]]>>]

ReadLine ==
    \/ Ifdef \/ Ifndef \/ IfDirective \/ Elif \/ Elifdef \/ Elifndef \/ Else \/ Endif
    \/ Define \/ UndefDirective \/ Include \/ IncludeNext \/ Embed \/ LineDirective \/ EmptyDirective \/ Pragma
    \/ ErrorDirective \/ Warning \/ UnknownDirective \/ SkipDirective \/ Text

Preprocessed == ~Ok(pp) \/ (pp.frames = <<>> /\ pp.queue = <<>>)
============================================================================
