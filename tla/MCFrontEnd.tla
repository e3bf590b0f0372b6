----------------------------- MODULE MCFrontEnd -----------------------------
(***************************************************************************)
(* Bounded instances of FrontEnd: programs that are only preprocessed, in  *)
(* lines; programs that are parsed, given as the trees they must become;   *)
(* and functions that are compiled and run.                                *)
(***************************************************************************)
EXTENDS FrontEnd

Puncts ==
    {"(", ")", ",", "+", "-", "*", ";", "#", "##", "...", "<", ">", "!", "[", "]", "{", "}", "=",
     "@", ":", ".", "->", "&", "?"}
Numerals == {ToString(n) : n \in 0 .. 40}
Words(ws) ==
    [i \in DOMAIN ws |->
        IF ws[i] = " " THEN Token("space", " ")
        ELSE IF ws[i] \in Puncts THEN Punct(ws[i])
        ELSE IF ws[i] \in Numerals THEN Num(ws[i])
        ELSE Id(ws[i])]

\* The words of f(args).
InParens(ws) == <<"(">> \o ws \o <<")">>
Fn(f, args) == <<f>> \o InParens(args)

\* Lines: a directive with its words or its condition, and text.
L(d, ws) == [d |-> d, s |-> Words(ws), e |-> NoExp]
C(d, e) == [d |-> d, s |-> Spell(e, 1), e |-> e]
T(ws) == L("text", ws)
TextLine(s) == [d |-> "text", s |-> s, e |-> NoExp]
Quoted(d, name) == [d |-> d, s |-> <<Str(name)>>, e |-> NoExp]
Angled(d, name) == L(d, <<"<", name, ">">>)
D(a, body) == L("define", <<a, " ">> \o body)
DF(a, ps, body) == L("define", Fn(a, ps) \o body)
Undefine(a) == L("undef", <<a>>)
ElseLine == L("else", <<>>)
EndifLine == L("endif", <<>>)

Main == <<"d", "m.c">>
Unit(files) ==
    [files |-> files, main |-> Main, quote |-> <<>>, user |-> <<"u">>, system |-> <<"s">>,
     after |-> <<>>, suppress |-> FALSE, userOnly |-> FALSE, missingGenerated |-> FALSE,
     defines |-> <<>>, undefs |-> {}, queue |-> <<>>]
Source(lines) == Unit(Main :> lines)

\* The jobs of each set of a sequence of sets.
Preprocesses(sets) ==
    [i \in DOMAIN sets |->
        {[unit |-> u, written |-> <<>>, last |-> "preprocess"] : u \in sets[i]}]
SeqsUpTo(S, n) == UNION {[1 .. k -> S] : k \in 0 .. n}
----------------------------------------------------------------------------
(* Conditionals: any four lines, and conditionals whose groups change what *)
(* the conditions after them ask.                                          *)
Defined1(a) == Exp("defined", a, 0, <<>>)
OneLine ==
    {L("ifdef", <<"A">>), C("elif", Const(1)), ElseLine, EndifLine, T(<<"a">>), D("A", <<"1">>)}
Conditionals1 ==
    {Source(ls) : ls \in [1 .. 3 -> OneLine]}
        \cup {Source(<<l>> \o ls) : l \in {L("ifdef", <<"A">>), D("A", <<"1">>)},
                                   ls \in [1 .. 3 -> OneLine]}

Conditions == {Const(0), Const(1), Defined1("A"), Var("A")}
Inner ==
    {<<T(<<"b">>)>>, <<D("A", <<"1">>)>>,
     <<L("ifndef", <<"A">>), T(<<"c">>), ElseLine, Undefine("A"), EndifLine>>}
Conditionals2 ==
    {Source(<<C("if", c)>> \o x \o <<C("elif", d)>> \o y
            \o <<L("elifdef", <<"A">>), T(<<"q">>), ElseLine>> \o z
            \o <<EndifLine, T(<<"A", "__LINE__">>)>>) :
        c, d \in Conditions, x, y, z \in Inner}

\* The expressions of #if: one operator, two, and unary ones.
Choice(e) == Source(<<C("if", e), T(<<"a">>), ElseLine, T(<<"b">>), EndifLine>>)
Suffixed(n, suffix) == Exp("const", suffix, n, <<>>)
Leaves == {Const(0), Const(7), Suffixed(2, "u"), Suffixed(15, "u")}
BinOps == UNION {DOMAIN BinaryLevels[i] : i \in DOMAIN BinaryLevels}
OneOfEachLevel ==
    {"or", "and", "bitor", "bitxor", "bitand", "equal", "lesseq", "shl", "minus", "times", "rem"}
Minus(e) == Operator("negate", <<e>>)
OneOperator ==
    {Choice(Binary(op, l, r)) : op \in BinOps, l, r \in Leaves \cup {Minus(Const(1))}}
TwoOperators ==
    {Choice(Binary(o, Const(7), Binary(m, Const(2), Const(0)))) : o, m \in OneOfEachLevel}
        \cup {Choice(Binary(o, Binary(m, Const(1), Const(0)), Const(2))) : o, m \in OneOfEachLevel}
        \cup {Choice(Conditional(a, b, Binary(o, a, c))) :
                 o \in {"plus", "or", "less"}, a, b, c \in {Const(0), Const(1), Var("X")}}
        \cup {Choice(Binary("equal", Operator(x, <<Operator(y, <<a>>)>>), b)) :
                 x, y \in {"not", "negate", "complement"}, a, b \in Leaves}

\* Assertions; and a defined that a macro stands for, of a name that is no macro
\* or one that takes arguments.
Assertion(operand) ==
    Exp("assertion", "machine", 0, <<>>) @@ [operand |-> Words(operand)]
Assertions ==
    {Assertion(ws) : ws \in {<<>>, InParens(<<"x">>), InParens(<<"x">> \o InParens(<<"y">>))}}
WithDefined == {Fn("defined", <<"A">>), <<"defined", "A">>}
Predicates ==
    {Choice(e) : e \in Assertions \cup {Not(a) : a \in Assertions}
                       \cup {Binary("or", a, b) : a \in Assertions, b \in {Const(1), Var("A")}}}
        \cup {Source(<<line, D("D", body)>> \o Choice(e).files[Main]) :
                 line \in {T(<<"a">>), DF("A", <<"x">>, <<"1">>)}, body \in WithDefined,
                 e \in {Var("D"), Not(Var("D")), Binary("and", Var("D"), Const(7)),
                        Binary("and", Const(0), Var("D")), Binary("or", Const(0), Var("D"))}}
----------------------------------------------------------------------------
(* Macros that name one another and themselves.                            *)
ABodies == {<<"B">>, <<"A", "B">>, <<"1">>, Fn("F", <<"1">>), <<>>}
BBodies == {<<"A">>, <<"2">>}
FBodies ==
    {<<"x", "+", "x">>, Fn("F", <<"x">>), <<"x", "##", "1">>, <<"B", "##", "x">>, <<"#", "x">>,
     <<"A", "x">>, Fn("G", <<"x">>)}
GBodies == {Fn("F", <<"y">>), <<"[", "y", "]">>}
SafeUses == {<<"A", "b">>, Fn("F", <<"c">>), <<"F">>, Fn("F", <<>>)}
Uses ==
    SafeUses \cup {Fn("F", <<"A">>), Fn("G", <<"A">>), Fn("F", <<"1", ",", "2">>),
                   Fn("F", Fn("G", <<"B">>)), Fn("F", InParens(<<"A", ",", "B">>))}

\* A name that is left in an argument because it was being expanded is
\* expanded after all: such sets are only used where that cannot happen.
PaintsAnArgument(a, f) == a = <<"A", "B">> \/ (a = Fn("F", <<"1">>) /\ f = <<"A", "x">>)
MacroSets ==
    {Source(<<D("A", a), D("B", b), DF("F", <<"x">>, f), DF("G", <<"y">>, g), T(use)>>) :
        <<a, b, f, g, use>> \in
            {c \in ABodies \X BBodies \X FBodies \X GBodies \X Uses :
                PaintsAnArgument(c[1], c[3]) => c[5] \in SafeUses}}

\* Variable arguments.
VariadicBodies ==
    {<<"__VA_ARGS__">>, <<"x">> \o Fn("__VA_OPT__", <<",", "__VA_ARGS__">>),
     <<"x", ",", "##", "__VA_ARGS__">>, <<"#", "__VA_ARGS__">>, <<"x", "##", "__VA_ARGS__">>,
     Fn("H", <<"x">>) \o <<"__VA_ARGS__">>}
VariadicUses ==
    {Fn("H", args) :
        args \in {<<>>, <<"a">>, <<"A", ",", "B">>, <<"A", ",", "b", ",", "c">>, <<"a", ",">>,
                           <<"a", ",", ",", "b">>, <<"a", ",", "b", ",", ",">>}}
Variadic ==
    {Source(<<D("A", <<"1">>), D("B", <<"A">>), DF("H", <<"x", ",", "...">>, v), T(u \o w)>>) :
        v \in VariadicBodies, u, w \in VariadicUses}
        \cup {Source(<<D("A", <<"1">>), DF("H", ps, v), T(u)>>) :
                 ps \in {<<"...">>, <<"x", ",", "y", "...">>},
                 v \in VariadicBodies \cup {<<"x", "y">>}, u \in VariadicUses}
----------------------------------------------------------------------------
(* Files: headers that are guarded, read once, or read themselves again,   *)
(* in the directory of the file, a user's and the system's.                *)
Has(a, spec, operand) ==
    Exp("hasinclude", a, 0, <<>>) @@ [spec |-> spec, operand |-> operand]
Guarded(body) == <<L("ifndef", <<"G">>), D("G", <<>>)>> \o body \o <<EndifLine>>
GuardedByIf(body) == <<C("if", Not(Defined1("G"))), D("G", <<>>)>> \o body \o <<EndifLine>>
\* A longer condition is a guard in C, but not one that the code knows.
GuardedByMore ==
    <<C("if", Binary("and", Not(Defined1("G")), Const(1))), D("G", <<>>),
      Quoted("include", "h.h"), EndifLine>>
HeaderBodies ==
    {<<T(<<"h">>)>>, <<Quoted("include", "h.h")>>, <<Quoted("include", "k.h"), T(<<"h">>)>>,
     <<Quoted("include_next", "h.h")>>, <<Undefine("X"), D("X", <<"2">>)>>,
     <<L("pragma", <<"GCC", "system_header">>), Angled("include", "h.h")>>,
     <<Quoted("include", "m.c")>>}
HeaderFiles ==
    HeaderBodies \cup {Guarded(b) : b \in HeaderBodies}
        \cup {GuardedByIf(<<T(<<"h">>), Quoted("include", "h.h")>>), GuardedByMore}
        \cup {<<L("pragma", <<"once">>)>> \o b : b \in HeaderBodies}
WhereItIs == T(<<"X", "__FILE__", "__LINE__", "__INCLUDE_LEVEL__">>)
AngledName == [angled |-> TRUE, name |-> "h.h"]
MainFiles ==
    {<<Quoted("include", "h.h"), WhereItIs, Quoted("include", "h.h")>>,
     <<Angled("include", "h.h"), Angled("include", "h.h"), T(<<"X">>)>>,
     <<C("if", Has("__has_include", AngledName, Words(<<"<", "h.h", ">">>))),
       Quoted("include", "k.h"), ElseLine, D("k", <<"h.h">>), L("include", <<"<", "k",
               ">">>), EndifLine>>}
FilesOf(m, p, h, g) ==
    Main :> (<<D("X", <<"1">>)>> \o m) @@ p :> h @@ <<"s", "h.h">> :> g
        @@ <<"u", "k.h">> :> <<T(<<"k">>), Quoted("include", "h.h")>>
Includes ==
    {[Unit(FilesOf(m, p, h, g)) EXCEPT !.userOnly = o] :
        m \in MainFiles, p \in {<<"d", "h.h">>, <<"u", "h.h">>, <<"s", "h.h">>}, h \in HeaderFiles,
        g \in {<<T(<<"g", "__FILE__">>)>>, Guarded(<<T(<<"g">>)>>)}, o \in BOOLEAN}

\* Headers that the compiler has itself.
Virtuals ==
    {[Source(<<Angled("include", v), T(<<"V", "W">>), L(d, <<"V">>), T(<<"e">>), EndifLine,
               Quoted(i, "v.h")>>) EXCEPT !.missingGenerated = g] :
        v \in {"v.h", "p.h", "z.h"}, d \in {"ifdef", "ifndef"}, g \in BOOLEAN,
        i \in {"include", "include_next"}}

\* Files and definitions of the command line.
TopFiles ==
    Main :> <<T(<<"A", "B">>)>> @@ <<"u", "a.h">> :> <<D("A", <<"1">>), T(<<"x">>)>>
        @@ <<".", "b.h">> :> <<L("pragma", <<"GCC", "system_header">>), L("ifdef", <<"A">>),
                               T(<<"y">>), EndifLine, D("B", <<"2">>)>>
Asked == [role : {"macros", "forced"}, name : {"a.h", "b.h"}]
MacrosFirst(q) ==
    \A i, j \in DOMAIN q : q[i].role = "forced" /\ i < j => q[j].role = "forced"
Tops ==
    {[Unit(TopFiles) EXCEPT !.queue = q, !.userOnly = o, !.missingGenerated = g, !.suppress = s,
                            !.defines = <<Words(<<"A", " ", "3">>), Words(<<"C", "1">>)>>,
                            !.undefs = us] :
        q \in {r \in SeqsUpTo(Asked, 2) : MacrosFirst(r)}, o, g, s \in BOOLEAN, us \in {{}, {"A"}, {"C"}}}
----------------------------------------------------------------------------
(* Pragmas and definitions in any order, and the other directives.         *)
PragmaLine(ws) == L("pragma", ws)
OnMacro(what, a) ==
    [d |-> "pragma", s |-> Words(<<what, "(">>) \o <<Str(a)>> \o Words(<<")">>), e |-> NoExp]
Changes ==
    {D("A", <<"1">>), D("A", <<"2">>), Undefine("A"), OnMacro("push_macro", "A"),
     OnMacro("pop_macro", "A"), Angled("include", "p.h"), T(<<"A">>),
     T(<<"W", "struct">>), PragmaLine(<<"GCC", "poison", "A">>),
     PragmaLine(Fn("pack", <<"push", ",", "2">>)), PragmaLine(Fn("pack", <<"pop">>))}
Pragmas ==
    {Source(ls \o <<l, T(<<"A", "struct">>)>>) :
        ls \in [1 .. 2 -> Changes],
        l \in {Undefine("A"), OnMacro("pop_macro", "A"), Angled("include", "p.h"),
               T(<<"W", "struct">>), PragmaLine(Fn("pack", <<"pop">>))}}

PragmaOperator == TextLine(Words(<<"_Pragma", "(">>) \o <<Str("once")>> \o Words(<<")">>))
Odd ==
    {D("A", <<"1">>), L("line", <<"40">>), L("line", <<"A">>), L("", <<>>), L("", <<"7">>),
     L("line", <<"x">>), T(<<"__LINE__", "__FILE__", "__COUNTER__">>),
     [L("line", <<"40">>) EXCEPT !.s = Append(@, Str("z"))], L("unknown", <<>>), L("error", <<>>),
     L("warning", <<>>), T(<<>>), L("ifdef", <<"A">>), EndifLine, PragmaOperator,
     PragmaLine(Fn("pop_macro", <<"A">>)),
     DF("A", <<"x", ",", "x">>, <<>>), DF("A", <<>>, <<"1">>)}
Odds == {Source(ls \o <<T(<<"__LINE__">>)>>) : ls \in [1 .. 2 -> Odd]}

EmbedOperands ==
    {<<>>, Fn("limit", <<"1">>), Fn("limit", <<"0">>) \o Fn("if_empty", <<"9">>),
     Fn("prefix", <<"8", ",">>) \o Fn("suffix", <<",", "9">>), Fn("limit", <<>>),
     Fn("limit", <<"-", "1">>), Fn("other", <<>>)}
EmbedLine(n, operand) == [d |-> "embed", s |-> <<Str(n)>> \o Words(operand), e |-> NoExp]
Embeds ==
    {Unit(Main :> <<EmbedLine(n, operand), T(<<"e">>)>> @@ <<"d", "b">> :> b) :
        n \in {"b", "z"}, operand \in EmbedOperands, b \in {<<>>, <<65, 66, 67>>}}
----------------------------------------------------------------------------
(* Programs that are only parsed.                                          *)
Parses(sets) ==
    [i \in DOMAIN sets |->
        {[unit |-> Source(<<TextLine(SpellItems(p))>>), written |-> p, last |-> "parse"] :
            p \in sets[i]}]

\* The first declarations in a header that is included twice and guarded.
ParsesWithHeader(S, n) ==
    {[unit |-> Unit(Main :> <<Quoted("include", "h.h"), Quoted("include", "h.h"),
                              TextLine(SpellItems(SubSeq(p, n + 1, Len(p))))>>
                    @@ <<"d", "h.h">> :> Guarded(<<TextLine(SpellItems(SubSeq(p, 1, n)))>>)),
      written |-> p, last |-> "parse"] : p \in S}

CharType == Scalar("char")
ShortType == Scalar("short")
LongType == Scalar("long")
Prototyped(a, result, params, names) ==
    FunctionDecl(a, FunctionOf(result, params, FALSE), names, "", <<>>)
Definition(a, result, params, names, items) ==
    [Prototyped(a, result, params, names) EXCEPT !.kids = <<Block(items)>>]
F(items) == Definition("f", IntType, <<IntType>>, <<"n">>, items)
Object(a, x) == Variable(a, x, NoExp, "")
Typedef(a, x) == Stmt("typedef", a, NoExp, <<>>) @@ [type |-> x]
Named(a, x) == WrittenType(Word(a), x)
Struct(tag, members) == StructDecl(tag, members, FALSE)
Plainly(a, x) == Member(a, x, -1)
StaticAssertion(e) == Stmt("assert", "", e, <<>>)
Enum(constants) == Stmt("enum", "E", NoExp, <<>>) @@ [constants |-> constants]
Enumerated(a, e) == [a |-> a, e |-> e]
Group(items) == Stmt("group", "", NoExp, items)
SpelledOut(s, items) ==
    WrittenItem(Stmt("tokens", "", NoExp, <<>>) @@ [tokens |-> s], items)
ByWords(ws, items) == SpelledOut(Words(ws), items)
N == Var("n")
P == Var("p")
Q == Var("q")

\* Every type of three steps from an int, a typedef name and a structure.
RECURSIVE DerivedTypes(_)
DerivedTypes(n) ==
    LET inner == DerivedTypes(n - 1)
    IN  IF n = 0 THEN {IntType, Named("T", LongType), StructOf("S")}
        ELSE {PointerTo(x) : x \in inner}
                \cup {ArrayOf(x, 2) : x \in {y \in inner : y.t # "function"}}
                \cup {FunctionOf(x, ps, Len(ps) = 2) :
                         x \in {y \in inner : y.t \notin {"function", "array"}},
                         ps \in {<<>>, <<IntType>>,
                                 <<ArrayOf(IntType, 2), FunctionOf(IntType, <<>>, FALSE)>>}}
Known1 == <<Struct("S", <<Plainly("a", IntType)>>), Typedef("T", LongType)>>
Declared1(x, sc) ==
    IF x.t = "function" THEN FunctionDecl("x", x, [i \in 1 .. Len(x.of) - 1 |-> ""], sc, <<>>)
    ELSE Variable("x", x, NoExp, sc)
Declarators ==
    {Known1 \o <<Declared1(x, sc)>> : sc \in {"", "static"}, x \in DerivedTypes(2)}
        \cup {Known1 \o <<Object("x", x)>> : x \in {y \in DerivedTypes(3) : y.t # "function"}}
        \cup {Known1 \o <<F(<<Do(Cast(x, Const(0))), Object("x", x), Do(SizeOf(x))>>)>> :
                 x \in {PointerTo(y) : y \in DerivedTypes(2)}}

\* Specifiers in every order.
Orders(ws) == {[i \in DOMAIN ws |-> ws[p[i]]] : p \in Permutations(DOMAIN ws)}
SpecifierLists ==
    {<<"ulong", ws>> : ws \in Orders(<<"unsigned", "long", "int">>)}
        \cup {<<"short", ws>> : ws \in Orders(<<"short", "signed", "int">>)}
        \cup {<<"schar", ws>> : ws \in Orders(<<"signed", "char", "const">>)}
        \cup {<<"long", ws>> : ws \in Orders(<<"long", "long", "volatile">>)}
        \cup {<<"ushort", ws>> : ws \in Orders(<<"short", "unsigned">>)}
        \cup {<<"uint", ws>> : ws \in Orders(<<"unsigned", "const">>)}
        \cup {<<"double", <<"const", "double">>>>}
SpecifierOrders ==
    {LET x == WrittenType(Phrase(ws), Scalar(c))
     IN  <<Object("x", x), Prototyped("g", IntType, <<x>>, <<"p">>),
           F(<<Do(Cast(x, N)), Object("y", PointerTo(x))>>)>> : <<c, ws>> \in SpecifierLists}
----------------------------------------------------------------------------
(* A name that is a type at file scope, and in the scopes inside is what   *)
(* it was last declared to be: what it is used for tells which.            *)
Meant(type, yes, no) == IF type THEN yes ELSE no
UsedAs(ws, type, yes, no) == Do(Written(Tokens(Words(ws)), Meant(type, yes, no)))
TypeOrObject(type) ==
    {Meant(type, Object("p", PointerTo(Named("T", IntType))), Do(Binary("times", Var("T"), P))),
     UsedAs(InParens(<<"T">>) \o <<"*", "n">>, type,
            Cast(IntType, Operator("deref", <<N>>)), Binary("times", Var("T"), N)),
     UsedAs(Fn("sizeof", <<"T">>) \o <<"+", "n">>, type,
            Binary("plus", SizeOf(IntType), N),
            Binary("plus", Operator("sizeof", <<Var("T")>>), N)),
     UsedAs(InParens(<<"T">>) \o <<"-", "n">>, type,
            Cast(IntType, Minus(N)), Binary("minus", Var("T"), N))}
DeclaresT ==
    {Null, Object("T", LongType), Typedef("T", IntType),
     Group(<<Object("q", IntType), Object("T", PointerTo(IntType))>>)}
IsTypeAfter(d, type) == d.s = "typedef" \/ (d = Null /\ type)
NameScopes ==
    UNION {{<<Typedef("T", IntType), Object("p", IntType), F(<<c, Block(<<d, use, Null>>),
            again>>)>> :
              use \in TypeOrObject(IsTypeAfter(d, IsTypeAfter(c, TRUE))),
              again \in TypeOrObject(IsTypeAfter(c, TRUE))} : c, d \in DeclaresT}
        \cup {<<Typedef("T", IntType), Object("p", IntType),
                Definition("g", IntType, <<IntType>>, <<"T">>, <<Block(<<use>>)>>), F(<<again>>)>> :
                use \in TypeOrObject(FALSE), again \in TypeOrObject(TRUE)}
        \cup {<<Object("T", IntType), Object("p", IntType),
                F(<<Block(<<Typedef("T", IntType), use>>), again>>)>> :
                use \in TypeOrObject(TRUE), again \in TypeOrObject(FALSE)}
----------------------------------------------------------------------------
(* Two operators, in each order.                                           *)
CallTo(a, args) == Exp("call", a, 0, args)
Unaries(e) ==
    {Operator(x, <<e>>) : x \in DOMAIN PrefixTokens \cup DOMAIN PostfixTokens \cup {"sizeof"}}
        \cup {Cast(PointerTo(IntType), e), Operator("index", <<e, Q>>), Exp("dot", "a", 0, <<e>>),
              Exp("arrow", "a", 0, <<e>>)}
Operands1 ==
    Unaries(P)
        \cup {Binary("comma", P, Q), Conditional(P, Q, N), Operator("assign", <<P, Q>>),
              Operator("shlassign", <<P, Q>>), CallTo("f", <<P>>)}
OperatorPairs ==
    {Binary(o, Binary(m, P, Q), N) : o, m \in OneOfEachLevel}
        \cup {Binary(o, P, Binary(m, Q, N)) : o, m \in OneOfEachLevel}
        \cup UNION {{Binary(o, e, N), Binary(o, N, e)} : o \in {"minus", "and"}, e \in Operands1}
        \cup UNION {Unaries(e) : e \in Operands1}
        \cup UNION {{Conditional(e, N, Q), Conditional(N, e, Q), Conditional(N, Q, e),
                     CallTo("f", <<e>>)} : e \in Operands1}
        \cup {Operator(a, <<P, e>>) :
                 a \in DOMAIN AssignTokens,
                 e \in {Q, Operator("assign", <<Q, N>>), Conditional(P, Q, N)}}
Operators1 == {<<F(<<Return(e)>>)>> : e \in OperatorPairs}
----------------------------------------------------------------------------
(* The layouts of structures and unions, asserted by the program itself.   *)
MemberKind(x, size, align) == [x |-> x, size |-> size, align |-> align]
MemberKinds ==
    {MemberKind(CharType, 1, 1), MemberKind(ShortType, 2, 2), MemberKind(IntType, 4, 4),
     MemberKind(LongType, 8, 8), MemberKind(PointerTo(CharType), 8, 8),
     MemberKind(ArrayOf(ShortType, 3), 6, 2), MemberKind(StructOf("R"), 4, 2)}
InnerStruct == Struct("R", <<Plainly("p", CharType), Plainly("q", ShortType)>>)

AtLeast(n, align) == Min({m \in n .. n + align : m % align = 0})
OffsetsOf(ks) ==
    LET at[i \in DOMAIN ks] ==
            IF i = 1 THEN 0 ELSE AtLeast(at[i - 1] + ks[i - 1].size, ks[i].align)
    IN  at
WholeAlign(ks) == Max({ks[i].align : i \in DOMAIN ks})
WholeSize(ks) == AtLeast(Last(OffsetsOf(ks)) + Last(ks).size, WholeAlign(ks))
WidestSize(ks) == AtLeast(Max({ks[i].size : i \in DOMAIN ks}), WholeAlign(ks))

Names1 == <<"a", "b", "c">>
MembersOf(ks) == [i \in DOMAIN ks |-> Plainly(Names1[i], ks[i].x)]
Asserts(e, n) == StaticAssertion(Binary("equal", e, Const(n)))
AssertsOffset(a, n) ==
    LET offset == CallTo("__builtin_offsetof", <<Tokens(Phrase(<<"struct", "S">>)), Var(a)>>)
    IN  Asserts(Written(offset, UnsignedLong(n)), n)
StructLayouts ==
    {<<InnerStruct, Struct("S", MembersOf(ks)), Asserts(SizeOf(StructOf("S")), WholeSize(ks)),
       Asserts(AlignOf(StructOf("S")), WholeAlign(ks))>>
         \o [i \in DOMAIN ks |-> AssertsOffset(Names1[i], OffsetsOf(ks)[i])] :
        ks \in [1 .. 2 -> MemberKinds]
                  \cup [1 .. 3 -> {k \in MemberKinds : k.align = k.size /\ k.x.t = "scalar"}]}
UnionOf(tag) == WrittenType(Phrase(<<"union", tag>>), StructOf(tag))
UnionLayouts ==
    {<<InnerStruct, StructDecl("U", MembersOf(ks), TRUE),
       Asserts(SizeOf(UnionOf("U")), WidestSize(ks))>> : ks \in [1 .. 2 -> MemberKinds]}

\* Bit-fields of an int, which has eight bits here; a width of 0 ends a unit.
BitsTaken(ws) ==
    LET to[i \in 0 .. Len(ws)] ==
            IF i = 0 THEN 0
            ELSE IF ws[i] = 0 THEN AtLeast(to[i - 1], 8)
            ELSE ws[i] + Min({n \in to[i - 1] .. to[i - 1] + 8 :
                                 n \div 8 = (n + ws[i] - 1) \div 8})
    IN  to[Len(ws)]
BitField1(a, width) == Member(IF width = 0 THEN "" ELSE a, IntType, width)
BitLayouts ==
    {LET bytes == (BitsTaken(ws) + 1) \div 2
     IN  <<Struct("S", [i \in DOMAIN ws |-> BitField1(Names1[i], ws[i])]
                          \o <<Plainly("z", CharType)>>),
           AssertsOffset("z", bytes), Asserts(SizeOf(StructOf("S")), AtLeast(bytes + 1, 4))>> :
        ws \in [1 .. 2 -> {1, 3, 5, 8}] \cup [1 .. 3 -> {0, 3, 6}]}

\* Structures inside structures, structures of no name and of a block.
WordsOfS == <<"struct", "S", "{", "int", "a", ";">>
WordsOfR == <<"struct", "R", "{", "char", "b", ";", "}">>
WordsOfAnonymous(k) == <<k, "{", "char", "b", ";", "short", "c", ";", "}", ";">>
OfR == StructOf("R")
OfS == StructOf("S")
InStruct ==
    {<<ByWords(WordsOfS \o WordsOfR \o ws \o <<";", "short", "c", ";", "}", ";">>,
               <<Struct("R", <<Plainly("b", CharType)>>),
                 Struct("S", <<Plainly("a", IntType)>> \o ms \o <<Plainly("c", ShortType)>>)>>),
       Asserts(SizeOf(OfS), n), F(<<Do(Exp("dot", "c", 0, <<N>>))>>)>> :
        <<ws, ms, n>> \in
            {<<<<"r">>, <<Plainly("r", OfR)>>, 8>>,
             <<<<"r", "[", "2", "]", ",", "*", "q">>,
               <<Plainly("r", ArrayOf(OfR, 2)), Plainly("q", PointerTo(OfR))>>, 24>>}}
Anonymous ==
    {<<ByWords(WordsOfS \o WordsOfAnonymous(k) \o <<"int", "d", ";", "}", ";">>,
               <<StructDecl("anon8", <<Plainly("b", CharType), Plainly("c", ShortType)>>,
                            k = "union"),
                 Struct("S", <<Plainly("a", IntType), Plainly("", StructOf("anon8")),
                               Plainly("d", IntType)>>)>>),
       AssertsOffset("c", c), AssertsOffset("d", d)>> :
        <<k, c, d>> \in {<<"struct", 6, 8>>, <<"union", 4, 8>>}}
WithStruct(x) ==
    {<<<<>>, <<>>>>,
     <<<<"x", ",", "*", "y">>, <<Object("x", x), Object("y", PointerTo(x))>>>>,
     <<<<"*", "g">> \o InParens(<<"void">>), <<Prototyped("g", PointerTo(x), <<>>, <<>>)>>>>}
OfBlock ==
    {<<ByWords(WordsOfS \o <<"}">> \o file[1] \o <<";">>,
               <<Struct("S", <<Plainly("a", IntType)>>)>> \o file[2]),
       F(<<ByWords(<<"struct", "R", "{", "struct", "S", "s", ";", "int", "f", "[", "]", ";", "}">>
                       \o block[1] \o <<";">>,
                   <<Struct("R", <<Plainly("s", OfS), Plainly("f", ArrayOf(IntType, 0))>>)>>
                       \o block[2]),
           Return(SizeOf(OfR))>>)>> : file \in WithStruct(OfS), block \in WithStruct(OfR)}
SelfReferring ==
    {<<Struct("S", <<Plainly("next", PointerTo(OfS)), Plainly("v", IntType)>>),
       Asserts(SizeOf(OfS), 16)>>,
     <<ByWords(<<"struct", "S", ";">>, <<Struct("S", <<>>)>>), Object("s", PointerTo(OfS)),
       Struct("S", <<Plainly("v", IntType)>>)>>}
----------------------------------------------------------------------------
(* Enumerations, whose constants are numbers wherever they are named.      *)
EnumA(e) == Enum(<<Enumerated("A", e)>>)
Enumerations ==
    {<<Enum(<<Enumerated("A", a), Enumerated("B", b), Enumerated("C", NoExp)>>),
       Asserts(Var("C"), n), Object("e", WrittenType(Phrase(<<"enum", "E">>), IntType)),
       F(<<Return(Written(Var("C"), Const(n)))>>)>> :
        <<a, b, n>> \in {<<NoExp, NoExp, 2>>, <<Const(3), NoExp, 5>>, <<NoExp, Const(4), 5>>,
                         <<Const(2), Binary("plus", Var("A"), Const(5)), 8>>}}
    \cup {<<EnumA(Const(1)),
            F(<<EnumA(Binary("plus", Var("A"), Const(6))),
                Block(<<EnumA(Const(2)), Do(Written(Var("A"), Const(2)))>>),
                ByWords(Fn("switch", <<"n">>) \o <<"{", "case", "A", ":", ";", "}">>,
                        <<Switch(N, Block(<<CaseOf(<<Const(7)>>, Null), Null>>))>>)>>),
            F(<<Return(Written(Var("A"), Const(1)))>>)>>}

(* Constant expressions that are not zero; what they come to depends on    *)
(* the types of their operands.                                            *)
U(n) == Suffixed(n, "u")
Equals(l, r) == Binary("equal", l, r)
ByZero(op) == Binary(op, Const(1), Const(0))
Truths ==
    {Equals(Binary("minus", U(3), U(5)), Binary("minus", U(0), U(2))),
     Binary("greater", Binary("minus", U(3), U(5)), U(20)),
     Binary("less", Binary("minus", Const(3), Const(5)), Const(0)),
     Equals(Binary("divide", Const(7), Minus(Const(2))), Minus(Const(3))),
     Equals(Binary("rem", Minus(Const(7)), Const(3)), Minus(Const(1))),
     Binary("less", Minus(Suffixed(1, "l")), U(1)), Not(Binary("less", Minus(Const(1)), U(1))),
     Equals(Binary("shr", Minus(Const(8)), Const(2)), Minus(Const(2))),
     Equals(Binary("shl", Const(5), Const(2)), Const(20)),
     Equals(Binary("bitxor", Binary("bitor", Const(9), Const(3)), Const(6)), Const(13)),
     Equals(Binary("bitand", Minus(Const(1)), Const(6)), Const(6)),
     Equals(Operator("complement", <<Const(5)>>), Minus(Const(6))),
     Equals(Cast(CharType, Const(6)), Minus(Const(2))),
     Equals(Cast(Scalar("uchar"), Const(6)), Const(2)),
     Equals(Cast(Scalar("bool"), Const(6)), Const(1)),
     Equals(Cast(ShortType, Const(9)), Minus(Const(7))),
     Binary("or", Const(1), ByZero("divide")), Not(Binary("and", Const(0), ByZero("divide"))),
     Conditional(Const(0), ByZero("rem"), Const(2)),
     Binary("less", SizeOf(IntType), SizeOf(ArrayOf(ShortType, 3))),
     Equals(Operator("sizeof", <<Exp("string", "abc", 3, <<>>)>>), Const(4)),
     Equals(Operator("sizeof", <<Binary("plus", Cast(CharType, Const(1)), Cast(CharType,
             Const(1)))>>),
            Const(4)),
     Binary("unequal", Const(1), Const(2)), Binary("lesseq", Const(2), Const(2)),
     Binary("greatereq", Const(2), Const(2)), Equals(Binary("times", Const(3), Const(4)),
                                                     Const(12))}
WithMessage(e) ==
    SpelledOut(Word("_Static_assert") \o Parenthesized(Spell(e, 2) \o <<Punct(","), Str("ab")>>)
                   \o Semicolon, <<NoDecl>>)
ConstantExpressions ==
    {<<StaticAssertion(e), F(<<StaticAssertion(e), Null>>)>> : e \in Truths}
        \cup {<<WithMessage(Not(Not(e))), Object("x", IntType)>> : e \in Truths}
        \cup {<<Object("x", SizedBy(Spell(e, 2), IntType, n))>> :
                 <<e, n>> \in {<<Binary("minus", Const(7), Const(4)), 3>>, <<SizeOf(LongType), 8>>,
                               <<Conditional(Const(0), Const(4), Const(5)), 5>>}}
----------------------------------------------------------------------------
(* Initializers, and the sizes that arrays take from them.                 *)
Braced(es) == Exp("init", "", 0, es)
Quotation(w) == Exp("string", w, Len(w), <<>>)
At1(is, e) == Designated(<<Designator("", [i \in DOMAIN is |-> Const(is[i])])>>, e)
In1(a, e) == Designated(<<Designator(a, <<>>)>>, e)
Unsized(x, n) == SizedBy(<<>>, x, n)

\* Elements that come next, or are at an index or a range of them.
Spots == {<<>>, <<2>>, <<1, 3>>}
SpotLists == UNION {[1 .. n -> Spots] : n \in 1 .. 3}
ReachedBy(spots) ==
    LET at[i \in 0 .. Len(spots)] ==
            IF i = 0 THEN -1 ELSE IF spots[i] = <<>> THEN at[i - 1] + 1 ELSE Last(spots[i])
    IN  Max({at[i] : i \in 0 .. Len(spots)}) + 1
ElementsAt(spots) ==
    Braced([i \in DOMAIN spots |-> IF spots[i] = <<>> THEN Const(5) ELSE At1(spots[i], Const(5))])
InferredSizes ==
    {LET x(a, sc) == Variable(a, Unsized(IntType, ReachedBy(l)), ElementsAt(l), sc)
     IN  <<x("x", "static"), F(<<x("x", ""), For(x("y", ""), NoExp, NoExp, Null)>>)>> :
        l \in SpotLists}
        \cup {<<Variable("x", Unsized(CharType, 4), e, "")>> :
                 e \in {Quotation("abc"), Braced(<<Quotation("abc")>>)}}
Pair(n) == Braced(<<Const(n), Const(2)>>)
AB == Struct("S", <<Plainly("a", IntType), Plainly("b", IntType)>>)
InitializedStructs ==
    {<<AB, Variable("x", Unsized(OfS, n), Braced(es), ""),
       Variable("y", OfS, Braced(<<In1("b", Const(1))>>), ""),
       Variable("z", ArrayOf(OfS, 2),
                Braced(<<Designated(<<Designator("", <<Const(1)>>), Designator("b", <<>>)>>,
                                    Const(1)),
                         Const(3)>>), "")>> :
        <<es, n>> \in {<<<<Const(1), Const(2), Const(3)>>, 2>>, <<<<Pair(1), Const(3)>>, 2>>,
                       <<<<Const(1), Const(3), Pair(4)>>, 2>>, <<<<Pair(1), Pair(2), Pair(3)>>,
                               3>>}}
        \cup {<<Variable("x", ArrayOf(ArrayOf(IntType, 2), 2), Braced(<<Pair(1), Braced(<<>>)>>),
                         "")>>,
              <<Variable("x", Unsized(ArrayOf(IntType, 2), 2), Braced(<<Pair(1), Pair(2)>>), "")>>,
              <<ByWords(WordsOfS \o <<"}", "x", "=", "{", "a", ":", "1", ",", "}", ";">>,
                        <<Struct("S", <<Plainly("a", IntType)>>),
                          Variable("x", OfS, Braced(<<In1("a", Const(1))>>), "")>>)>>}

(* Declarations of several names, of files, blocks and for.                *)
ObjectsOfFor ==
    {Object("a", IntType), Variable("a", PointerTo(IntType), Const(1), ""),
     Variable("a", ArrayOf(PointerTo(IntType), 2), Pair(1), ""),
     Variable("a", Unsized(IntType, 2), Pair(1), ""),
     Object("a", PointerTo(FunctionOf(IntType, <<CharType>>, FALSE)))}
DeclaresA == ObjectsOfFor \cup {Prototyped("a", PointerTo(IntType), <<IntType>>, <<"b">>)}
AsB(d) == [d EXCEPT !.a = "b"]
V == Named("V", PointerTo(IntType))
OfInt == FunctionOf(IntType, <<IntType>>, FALSE)
Groups ==
    {<<Group(<<c, AsB(d)>>), F(<<Group(<<c, AsB(d), Object("c", IntType)>>), Do(Var("a"))>>)>> :
        c, d \in DeclaresA}
    \cup {<<Group(<<Typedef("T", IntType), Typedef("V", PointerTo(IntType)), Typedef("W", OfInt)>>),
            Object("x", Named("T", IntType)), Object("y", PointerTo(V)),
            Prototyped("f", V, <<Named("W", OfInt)>>, <<"w">>)>>}
    \cup {<<ByWords(<<"long", sc, "a", "=", "1", ",", "b", ";">>,
                    <<Variable("a", LongType, Const(1), sc), Variable("b", LongType, NoExp,
                            sc)>>)>> :
            sc \in {"static", "extern"}}
    \cup {<<F(<<For(d, N, Increment("preinc", "n"), Block(<<Object("a", LongType), Do(Var("a"))>>)),
                Do(N)>>)>> : d \in ObjectsOfFor}
----------------------------------------------------------------------------
(* The type of an expression: by typeof, by _Generic and by __auto_type.   *)
ToLong == FunctionOf(LongType, <<IntType>>, FALSE)
OfEachType ==
    <<Struct("S", <<Plainly("a", IntType), Plainly("b", PointerTo(CharType))>>),
      Object("c", CharType), Object("u", Scalar("uint")), Object("l", LongType),
      Object("d", Scalar("double")), Object("p", PointerTo(IntType)),
      Object("a", ArrayOf(IntType, 3)), Object("s", OfS), Object("q", PointerTo(OfS)),
      Object("h", PointerTo(ToLong)), Prototyped("g", LongType, <<IntType>>, <<"">>)>>
Small == Var("c")
Unsignedly == Var("u")
Longer == Var("l")
Typed ==
    {<<Small, CharType>>, <<Minus(Small), IntType>>, <<Binary("plus", Small, Small), IntType>>,
     <<Binary("times", N, Unsignedly), Scalar("uint")>>, <<Binary("plus", Unsignedly, Longer),
                                                           LongType>>,
     <<Binary("divide", N, Var("d")), Scalar("double")>>, <<Binary("plus", P, N),
                                                            PointerTo(IntType)>>,
     <<Binary("plus", N, P), PointerTo(IntType)>>, <<Binary("minus", P, Longer),
                                                     PointerTo(IntType)>>,
     <<Binary("minus", P, P), LongType>>, <<Operator("deref", <<P>>), IntType>>,
     <<Operator("addrof", <<N>>), PointerTo(IntType)>>, <<Var("a"), ArrayOf(IntType, 3)>>,
     <<Operator("addrof", <<Var("a")>>), PointerTo(ArrayOf(IntType, 3))>>,
     <<Operator("index", <<Var("a"), N>>), IntType>>, <<Exp("dot", "a", 0, <<Var("s")>>), IntType>>,
     <<Exp("arrow", "b", 0, <<Q>>), PointerTo(CharType)>>, <<CallTo("g", <<N>>), LongType>>,
     <<Exp("icall", "", 0, <<Operator("deref", <<Var("h")>>), N>>), LongType>>, <<Var("g"),
             ToLong>>,
     <<Var("s"), OfS>>, <<Conditional(N, Unsignedly, N), Scalar("uint")>>,
     <<Conditional(N, P, P), PointerTo(IntType)>>, <<Binary("less", Longer, Var("d")), IntType>>,
     <<Not(Longer), IntType>>, <<Binary("shl", N, Longer), IntType>>,
     <<Binary("shr", Small, Longer), IntType>>, <<Binary("comma", N, Longer), LongType>>,
     <<Operator("sizeof", <<N>>), Scalar("ulong")>>, <<Quotation("ab"), ArrayOf(CharType, 3)>>,
     <<Cast(CharType, N), CharType>>, <<Operator("complement", <<Unsignedly>>), Scalar("uint")>>,
     <<Operator("shlassign", <<Small, Longer>>), CharType>>,
     <<Operator("postinc", <<P>>), PointerTo(IntType)>>, <<Suffixed(1, "ul"), Scalar("ulong")>>,
     <<Const(1), IntType>>, <<N, IntType>>}

\* The type of a value: arrays and functions are pointers.
ValueOf(x) ==
    IF x.t = "array" THEN PointerTo(Elem(x)) ELSE IF x.t = "function" THEN PointerTo(x) ELSE x
Generic(control, x, is) ==
    Written(Tokens(Word("_Generic")
                       \o Parenthesized(Separated(<<control, TypeTokens(x) \o Words(<<":", "1">>),
                                                    Words(<<"default", ":", "0">>)>>))),
            Const(Truth(is)))
TypeofOf(s, x) == WrittenType(Word("typeof") \o Parenthesized(s), x)
TypesOfExpressions ==
    {LET x == TypeofOf(Spell(e, 1), y)
     IN  OfEachType \o <<F(<<IF y.t = "function" THEN Null ELSE Object("y", x),
                             Do(Cast(PointerTo(x), Const(0))),
                             Return(Generic(Spell(e, 2), ValueOf(y), TRUE))>>)>> : <<e,
                                     y>> \in Typed}
    \cup {OfEachType
            \o <<F(<<Object("y", TypeofOf(TypeTokens(y), y)),
                     SpelledOut(Words(<<"__auto_type", "z", "=">>) \o Spell(e, 2) \o Semicolon,
                                <<Variable("z", ValueOf(y), e, "")>>),
                     Return(Generic(TypeTokens(y), PointerTo(PointerTo(y)), FALSE))>>)>> :
            <<e, y>> \in {t \in Typed : t[2].t # "function"}}
    \cup {OfEachType
            \o <<F(<<Object("n", PointerTo(TypeofOf(Word("n"), IntType))), Return(AlignOf(IntType)),
                     Return(Written(Tokens(Words(Fn("_Alignof", <<"c">>))),
                                    AlignOf(CharType)))>>)>>}
----------------------------------------------------------------------------
(* The calls that the parser replaces.                                     *)
Three == Const(3)
Replaced ==
    {<<"__builtin_expect", <<N, Three>>, Operator("expect", <<N, Three>>)>>,
     <<"__builtin_expect_with_probability", <<N, Three, Three>>, Operator("expect", <<N, Three,
             Three>>)>>,
     <<"__builtin_constant_p", <<N>>, Const(0)>>,
     <<"__builtin_constant_p", <<Binary("plus", Three, Three)>>, Const(1)>>,
     <<"__builtin_constant_p", <<Quotation("a")>>, Const(1)>>,
     <<"__builtin_classify_type", <<Var("d")>>, Const(8)>>, <<"__builtin_classify_type", <<N>>,
             Const(1)>>,
     <<"__builtin_object_size", <<P, Const(2)>>, UnsignedLong(0)>>,
     <<"__builtin_object_size", <<P, Const(1)>>, UnsignedLong(-1)>>,
     <<"__builtin_dynamic_object_size", <<P, Const(0)>>, UnsignedLong(-1)>>,
     <<"__builtin_assume_aligned", <<P, Three>>, Binary("comma", Three, P)>>,
     <<"__builtin_assume_aligned", <<P, Three, N>>, Binary("comma", Three, Binary("comma", N, P))>>,
     <<"__builtin_prefetch", <<P>>, Binary("comma", P, Const(0))>>,
     <<"__builtin_va_end", <<P>>, Binary("comma", P, Const(0))>>,
     <<"__atomic_thread_fence", <<Three>>, AtomicFence>>, <<"__atomic_signal_fence", <<Three>>,
                                                            AtomicFence>>,
     <<"__sync_synchronize", <<>>, AtomicFence>>,
     <<"__atomic_load_n", <<P, Three>>, Binary("comma", AtomicFence, Deref(P))>>,
     <<"__atomic_store_n", <<P, N, Three>>,
       Binary("comma", AtomicFence, Operator("assign", <<Deref(P), N>>))>>,
     <<"__atomic_exchange_n", <<P, N, Three>>, Operator("exchange", <<P, N>>)>>,
     <<"__atomic_compare_exchange_n", <<P, P, N, Const(0), Three, Three>>,
       Operator("compareexchange", <<P, P, N>>)>>,
     <<"__sync_bool_compare_and_swap", <<P, N, Three>>, Exp("compareswap", "new", 0, <<P, N,
             Three>>)>>,
     <<"__sync_val_compare_and_swap", <<P, N, Three>>, Exp("compareswap", "old", 0, <<P, N,
             Three>>)>>,
     <<"__builtin_choose_expr", <<Const(0), P, N>>, N>>, <<"__builtin_choose_expr", <<Three, P,
             N>>, P>>,
     <<"__builtin___memcpy_chk", <<P, Q, N, Three>>, CallTo("__builtin_memcpy", <<P, Q, N>>)>>,
     <<"__builtin___memset_chk", <<P, Three, N, Three>>, CallTo("__builtin_memset", <<P, Three,
             N>>)>>,
     <<"__builtin___strcpy_chk", <<P, Q, Three>>, CallTo("__builtin_strcpy", <<P, Q>>)>>,
     <<"__builtin___strncpy_chk", <<P, Q, N, Three>>, CallTo("__builtin_strncpy", <<P, Q, N>>)>>,
     <<"__builtin_unreachable", <<>>, Operator("unreachable", <<>>)>>,
     <<"g", <<N>>, CallTo("g", <<N>>)>>, <<"m", <<N>>, Exp("implicit", "m", 0, <<N>>)>>}
    \cup {<<"__atomic_fetch_" \o f, <<P, N, Three>>, Exp("fetch", f, 1, <<P, N>>)>> :
          f \in {"add", "xor"}}
    \cup {<<"__atomic_" \o f \o "_fetch", <<P, N, Three>>, Exp("fetch", f, 0, <<P, N>>)>> :
             f \in {"sub", "and"}}
    \cup {<<"__sync_fetch_and_" \o f, <<P, N>>, Exp("fetch", f, 1, <<P, N>>)>> : f \in {"or",
            "nand"}}
    \cup {<<"__sync_" \o f \o "_and_fetch", <<P, N>>, Exp("fetch", f, 0, <<P, N>>)>> :
          f \in {"add", "nand"}}

\* Calls with types for arguments, and other operands that need no tree.
WithTypes(a, list) == Tokens(Word(a) \o Parenthesized(Separated(list)))
SomeTypes ==
    {IntType, CharType, PointerTo(IntType), PointerTo(CharType), ArrayOf(IntType, 3), OfS,
     PointerTo(FunctionOf(IntType, <<>>, FALSE))}
VaArgOf(x) == Exp("vaarg", CType(x), 0, <<P>>)
Scaled16(e) == Binary("plus", UnsignedLong(8), Binary("times", e, UnsignedLong(16)))
OfA(ws) == WithTypes("__builtin_offsetof", <<Phrase(<<"struct", "A">>), Words(ws)>>)
Replaced2 ==
    {<<WithTypes("__builtin_types_compatible_p", <<TypeTokens(x), TypeTokens(y)>>),
       Const(Truth(x = y))>> : x, y \in SomeTypes}
    \cup {<<WithTypes("__builtin_va_arg", <<Word("p"), TypeTokens(x)>>),
            IF x.t = "pointer" THEN Cast(x, VaArgOf(x)) ELSE VaArgOf(x)>> :
            x \in {IntType, Scalar("double"), PointerTo(CharType), OfS}}
    \cup {<<OfA(<<"i">>), UnsignedLong(0)>>, <<OfA(<<"r", "[", "n", "]">>), Scaled16(N)>>,
          <<OfA(<<"r", "[", "1", "]", ".", "b">>), Binary("plus", Scaled16(Const(1)),
                                                          UnsignedLong(8))>>,
          <<Tokens(Words(<<"(", "(", "7", ")", ")">>)), Const(7)>>,
          <<Tokens(<<Str("a"), Str("b")>>), Quotation("ab")>>, <<Tokens(Words(<<"+", "n">>)), N>>,
          <<Var("__func__"), Quotation("f")>>, <<Var("true"), Const(1)>>, <<Var("false"),
                  Const(0)>>,
          <<Var("nullptr"), Cast(PointerTo(Scalar("void")), Const(0))>>}
StructA == Struct("A", <<Plainly("i", IntType), Plainly("r", ArrayOf(OfS, 2))>>)
Builtins ==
    {LET e == Written(CallTo(a, args), m)
     IN  OfEachType \o <<F(<<Do(e), Return(Binary("plus", e, Three))>>)>> : <<a, args,
             m>> \in Replaced}
    \cup {OfEachType \o <<StructA, F(<<Return(Written(w, m))>>)>> : <<w, m>> \in Replaced2}
----------------------------------------------------------------------------
(* Functions in every form, bounds that are not constant, statements.      *)
ReturnsOne(names, params, variadic) ==
    FunctionDecl("f", FunctionOf(IntType, params, variadic), names, "",
                 <<Block(<<Return(Const(1))>>)>>)
WordsOfOne(ws) == ws \o <<"{", "return", "1", ";", "}">>
FunctionForms ==
    {<<ByWords(WordsOfOne(r \o Fn("f", <<"a", ",", "b">>) \o ws), <<ReturnsOne(<<"a", "b">>, ps,
            FALSE)>>)>> :
        r \in {<<"int">>, <<>>},
        <<ws, ps>> \in {<<<<>>, <<IntType, IntType>>>>, <<<<"char", "b", ";">>, <<IntType,
                CharType>>>>,
                        <<<<"char", "*", "b", ",", "a", "[", "2", "]", ";">>,
                          <<PointerTo(CharType), PointerTo(CharType)>>>>,
                        <<<<"long", "b", ";", "int", "*", "a", ";">>, <<PointerTo(IntType),
                                LongType>>>>}}
    \cup {<<ByWords(WordsOfOne(Fn("f", ws)), <<ReturnsOne(names, ps, v)>>),
            F(<<Do(CallTo("f", <<>>))>>)>> :
            <<ws, names, ps, v>> \in
                {<<<<"int", "a">>, <<"a">>, <<IntType>>, FALSE>>, <<<<>>, <<>>, <<>>, TRUE>>,
                 <<<<"void">>, <<>>, <<>>, FALSE>>, <<<<"...">>, <<>>, <<>>, TRUE>>,
                 <<<<"char", "*", "a", ",", "...">>, <<"a">>, <<PointerTo(CharType)>>, TRUE>>}}

\* A bound is kept in a variable, which the size of the array is taken from.
Kept(i, e) == Variable("bound" \o ToString(i), LongType, e, "")
ElementsTake(i, x) == Binary("times", Var("bound" \o ToString(i)), SizeOf(x))
Bounded(a, i, e, x) ==
    SpelledOut(SpellItem(Object(a, SizedBy(Spell(e, 2), x, 0))),
               <<Kept(i, e), Variable(a, PointerTo(x), CallTo("alloca", <<ElementsTake(i, x)>>),
                                      "")>>)
SizeOfObject(a, i, x) == Do(Written(Operator("sizeof", <<Var(a)>>), ElementsTake(i, x)))
SizedParameter(x, items) ==
    Definition("h", IntType, <<IntType, x>>, <<"n", "x">>, items \o <<Return(N)>>)
VariableBounds ==
    {<<F(<<Bounded("x", 0, e, x), SizeOfObject("x", 0, x),
           Block(<<Object("n", IntType), Bounded("y", 1, N, x), SizeOfObject("y", 1, x)>>)>>)>> :
        e \in {N, Binary("plus", N, Const(1)), CallTo("f", <<Const(1)>>)},
        x \in {IntType, PointerTo(CharType), ArrayOf(IntType, 2)}}
    \cup {<<SpelledOut(SpellItem(SizedParameter(SizedBy(Spell(e, 2), CharType, 0), <<>>)),
                       <<SizedParameter(PointerTo(CharType), <<Variable("pbound0", LongType, e,
                               "")>>)>>)>> :
            e \in {Binary("plus", N, Const(1)), N}}

StatementExp(items, args, x) == Operator("stmtexpr", args) @@ [block |-> items, type |-> x]
TwoOfN == Cast(ArrayOf(IntType, 2), Braced(<<N, Const(1)>>))
Statements1 ==
    {<<F(<<Object("x", PointerTo(Scalar("void"))),
           Label("L", Do(Assign("x", Exp("labeladdress", "L", 0, <<>>)))),
           Stmt("goto", "*", Var("x"), <<>>), If(N, IfElse(Var("x"), Goto("L"),
                                                           s)), Return(NoExp)>>)>> :
        s \in {Switch(N, Cases(1, 3, Null)), Block(<<>>),
               Label("M", Block(<<Object("x", IntType)>>)),
               DoWhile(Null, Var("x"))}}
    \cup {<<F(<<Do(StatementExp(<<Object("n", LongType), Do(Const(1))>>, <<e>>, x)),
                Return(N)>>)>> :
            <<e, x>> \in {<<N, LongType>>, <<Equals(N, Const(1)), IntType>>}}
    \cup {<<F(<<Do(StatementExp(<<Object("x", LongType)>>, <<>>, NoType)), Do(TwoOfN),
                Return(Operator("index", <<TwoOfN, N>>))>>)>>}
----------------------------------------------------------------------------
(* Functions that are compiled and run.                                    *)
Prototype == FunctionDecl("ask", FunctionOf(IntType, <<IntType>>, FALSE), <<"">>, "", <<>>)
Program(body) ==
    <<Prototype, FunctionDecl("f", FunctionOf(IntType, <<IntType>>, FALSE), <<"n">>, "", <<body>>)>>
RunOf(body) == [unit |-> Source(<<TextLine(SpellItems(Program(body)))>>),
                written |-> Program(body), last |-> "run"]
Runs(sets) == [i \in DOMAIN sets |-> {RunOf(b) : b \in sets[i]}]

MCParameter == "n"
X == Var("x")
Ask(k) == Call(Const(k))
Tell(e) == Do(Call(e))

\* n ends in what the function returns, so that a lost or repeated step shows.
Count == Do(Increment("postinc", "n"))
Body(items) == Block(items \o <<Return(N)>>)

Jumps == {Break, Continue, Goto("L"), If(Ask(1), Break)}
Slots == {Break, Null, If(N, Continue)}

\* Jumps out of a loop, to its next round and to a label inside it.
Loop ==
    {Body(<<l>>) :
        l \in UNION {{While(Ask(0), Block(<<a, Label("L", Count), b>>)),
                      DoWhile(Block(<<a, Label("L", Count), b>>), Ask(0))} :
                        a \in Jumps, b \in Slots}}

\* A for with or without a declaration, a condition and a body that declares again.
ForLoop ==
    {Body(<<For(i, c, Increment("preinc", "n"), Block(<<a, Tell(N), b>>)), Tell(N)>>) :
        i \in {Null, Local("n", Const(1)), Do(Assign("n", Ask(2)))},
        c \in {NoExp, Binary("equal", N, Ask(0))},
        a \in {Continue, Local("n", Const(0)), If(N, Break)}, b \in {Break, Null, Count}}

\* A switch in a loop: cases that fall through, a default that is not the last.
SwitchInLoop ==
    {Body(<<While(Ask(0), Block(<<Switch(c, Block(<<Case(0, a), Default(b), Cases(1, 2, Count)>>)),
                                   Count>>))>>) :
        c \in {N, Ask(1)}, a, b \in {Break, Continue, Count}}

\* A switch that jumps into the loop inside it, and a switch inside a switch.
SwitchInto ==
    {Body(<<Switch(N, Block(<<Case(0, DoWhile(Block(<<a, Case(1, Tell(N)), Case(2, b)>>), Ask(0))),
                              Default(Count)>>))>>) :
        a \in {Break, Continue, Null}, b \in {Break, Count}}
SwitchInSwitch ==
    {Body(<<Switch(N, Block(<<Case(0, Switch(Ask(0), Block(<<Case(1, a), Default(b)>>))),
                              Case(1, c), Case(2, Count)>>))>>) :
        a, b \in {Break, Null, Count}, c \in {Break, Tell(N)}}

\* Scopes that shadow, a jump past an initializer, an object that is kept
\* from one round of a loop to the next and one that is not.
Scopes2 ==
    {Body(<<Local("x", Const(1)), a,
            Block(<<d, Label("L", Tell(X)), b>>), Tell(X)>>) :
        a \in {Null, Goto("L"), Do(Increment("preinc", "x"))},
        d \in {Local("x", Const(2)), Local("x", X), Static("x", 2), Local("n", X),
               Local("x", NoExp)},
        b \in {Null, Do(AddAssign("x", N)), If(Ask(0), Goto("L"))}}
Rounds ==
    {Body(<<While(Ask(0), Block(<<d, a, Tell(X)>>))>>) :
        d \in {Local("x", NoExp), Local("x", N), Static("x", 1)},
        a \in {Do(Assign("x", Const(2))), Do(AddAssign("x", Const(1))), If(N, Do(Assign("x", N)))}}

\* Conditions that the generator knows, over branches that a jump enters.
Constants == {Const(0), Const(1), Binary("and", Const(0), Ask(1)), Binary("or", Ask(1), Const(1)),
              Conditional(Const(1), Const(0), N), Not(Const(0))}
Branch == {Block(<<Tell(N), Label("L", Count)>>), Block(<<If(N, Label("L", Count)), Count>>), Count}
ConstantIf ==
    {Body(<<a, If(c, t)>>) : a \in {Null, Goto("L")}, c \in Constants, t \in Branch}
        \cup {Body(<<a, IfElse(c, t, u)>>) :
                a \in {Null, Goto("L")}, c \in {Const(0), Const(1), N}, t \in Branch,
                u \in {Tell(Const(2)), Label("M", Tell(Const(2)))}}
        \cup {Body(<<Switch(N, Block(<<Case(0, Null), If(Const(k), Block(<<a, Case(1, Count)>>)),
                                       Default(Tell(N))>>))>>) :
                k \in {0, 1}, a \in {Break, Tell(N)}}

\* The operators, in the places where a value, an effect or an order counts.
Simple == {N, Const(2), Ask(1), Assign("n", Ask(0)), Increment("postinc", "n"),
           Increment("preinc", "n")}
Compound ==
    {Binary(op, l, r) : op \in {"and", "or", "comma"}, l \in Simple, r \in Simple \ {Const(2)}}
        \cup {Conditional(l, r, m) :
                l \in {N, Ask(1), Increment("postinc", "n")}, r, m \in {N, Ask(2), AddAssign("n", Const(1))}}
        \cup {Binary(op, l, r) : op \in {"plus", "equal"}, l \in Simple, r \in {Const(1), Ask(2)}}
        \cup {AddAssign("n", e) : e \in {Const(2), Ask(1)}}
        \cup {Not(e) : e \in Simple}
Expressions2 ==
    {Body(<<Tell(e), Tell(N)>>) : e \in Compound}
        \cup {Block(<<IfElse(e, Return(N), Tell(e))>>) :
                e \in {Not(Binary(op, l, r)) : op \in {"and", "or"}, l, r \in {N, Ask(1)}}}

\* Functions that C rejects, and some it does not.
Anything == {Break, Continue, Goto("L"), Goto("M"), Case(0, Null), Default(Null), Label("L", Null),
             Local("x", N), Local("n", X), Tell(X), Null}
Mixed ==
    {Block(<<a, b>>) : a, b \in Anything}
        \cup {Block(<<Switch(N, Block(<<a>>)), b>>) : a, b \in Anything}
        \cup {Block(<<For(d, N, Increment("preinc", "x"), Block(<<a>>)), b>>) :
                d \in {Local("x", X), Local("x", N)}, a, b \in Anything}

----------------------------------------------------------------------------
(* The jobs, and the headers and probes of the preprocessor.               *)
MCJobs ==
    Preprocesses(
        <<Conditionals1, Conditionals2, OneOperator, TwoOperators, Predicates, MacroSets, Variadic, Includes,
          Virtuals, Tops, Pragmas, Odds, Embeds>>)
    \o Parses(
        <<Declarators, SpecifierOrders, Operators1, StructLayouts, UnionLayouts, BitLayouts,
          InStruct, Anonymous, OfBlock, SelfReferring, Enumerations, ConstantExpressions,
          InferredSizes, InitializedStructs, Groups, TypesOfExpressions, Builtins, FunctionForms,
          VariableBounds, Statements1>>)
    \o <<ParsesWithHeader(NameScopes, 2)>>
    \o Runs(
        <<Loop, ForLoop, SwitchInLoop, SwitchInto, SwitchInSwitch, Scopes2, Rounds, ConstantIf,
          Expressions2, Mixed>>)
MCVirtual ==
    "v.h" :> [preferred |-> FALSE, macros |-> "V" :> ObjectMacro(<<Num("5")>>)]
        @@ "p.h" :> [preferred |-> TRUE, macros |-> "W" :> ObjectMacro(<<Num("6")>>)]
MCProbes == "__has_builtin" :> {"b"}
============================================================================
