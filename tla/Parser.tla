-------------------------------- MODULE Parser --------------------------------
(***************************************************************************)
(* The parser (src/parse): one token after the other, with scopes of       *)
(* typedef names, enumeration constants and objects, which tell a          *)
(* declaration from an expression.  Every operator takes the parser and    *)
(* returns it past what it has read, with the result in v; ok is FALSE     *)
(* once a rule was broken, and the parser then stays where it is.          *)
(***************************************************************************)
EXTENDS Types, Spelling

CONSTANT LiteralLimit     \* the greatest number in the source

Keywords ==
    {"int", "long", "short", "char", "unsigned", "signed", "double", "float", "void", "_Bool",
     "const", "volatile", "restrict", "_Atomic", "static", "extern", "typedef", "register",
     "auto", "inline", "struct", "union", "enum", "typeof", "__auto_type", "_Static_assert",
     "if", "else", "while", "do", "for", "return", "break", "continue", "goto", "switch",
     "case", "default", "sizeof", "_Alignof", "_Generic"}

Qualifiers == {"const", "volatile", "restrict", "_Atomic"}

NoBound == [e |-> NoExp, depth |-> 0, dynamic |-> FALSE]

(* The trees.                                                              *)
Cast(x, e) == Operator("cast", <<e>>) @@ [type |-> x]
SizeOf(x) == Operator("sizeoftype", <<>>) @@ [type |-> x]
AlignOf(x) == Operator("alignof", <<>>) @@ [type |-> x]

NoDecl == Stmt("typedef", "", NoExp, <<>>)
Variable(a, x, e, sc) == Stmt("var", a, e, <<>>) @@ [type |-> x, sc |-> sc]
FunctionDecl(a, x, names, sc, body) ==
    Stmt("function", a, NoExp, body) @@ [type |-> x, names |-> names, sc |-> sc]
StructDecl(tag, members, union) ==
    Stmt("struct", tag, NoExp, <<>>) @@ [members |-> members, union |-> union]

NewParser(toks) ==
    [toks |-> toks, i |-> 1, ok |-> TRUE, v |-> 0,
     td |-> <<<<>>>>, en |-> <<<<>>>>, val |-> <<<<>>>>,   \* the scopes
     sizes |-> <<<<>>>>,        \* and the sizes of the objects in them that are not constant
     structs |-> <<>>,          \* the structures that are complete
     later |-> <<>>,            \* structures declared by the specifiers just read
     before |-> <<>>,           \* items that go before the one being read
     items |-> <<>>,            \* items that go after it
     decls |-> <<>>,            \* and the same at file scope
     full |-> NoType,           \* the type of the typedef name just read
     tag |-> "",                \* the structure just read
     enum |-> FALSE,            \* whether an enumeration was just read
     open |-> FALSE,            \* whether a bound was left out
     infer |-> FALSE,           \* __auto_type
     bound |-> NoBound,         \* the bound just read that is not constant
     vlas |-> 0,                \* such bounds so far
     params |-> 0,              \* parameter declarations being read
     fn |-> ""]                 \* the function being read
----------------------------------------------------------------------------
(* Tokens.                                                                 *)
Bad(s) == [s EXCEPT !.ok = FALSE]
Give(s, v) == [s EXCEPT !.v = v]

HasToken(s, n) == s.ok /\ s.i + n \in DOMAIN s.toks
IsText(s, n, w) ==
    HasToken(s, n) /\ s.toks[s.i + n].t = w /\ s.toks[s.i + n].k \in {"id", "punct"}
Sees(s, w) == IsText(s, 0, w)
SeesAny(s, W) == \E w \in W : Sees(s, w)
SeesKind(s, n, k) == HasToken(s, n) /\ s.toks[s.i + n].k = k
SeesName(s) == SeesKind(s, 0, "id") /\ ~SeesAny(s, Keywords)
TextOf(s) == s.toks[s.i].t

Advance(s) == IF HasToken(s, 0) THEN [s EXCEPT !.i = @ + 1] ELSE Bad(s)
Eat(s, w) == IF Sees(s, w) THEN Advance(s) ELSE s
Expect(s, w) == IF Sees(s, w) THEN Advance(s) ELSE Bad(s)
Name(s) == IF SeesName(s) THEN Give(Advance(s), TextOf(s)) ELSE Bad(s)

RECURSIVE SkipAny(_, _)
SkipAny(s, W) == IF SeesAny(s, W) THEN SkipAny(Advance(s), W) ELSE s
----------------------------------------------------------------------------
(* Scopes.                                                                 *)
PushScopes(s) ==
    [s EXCEPT !.td = Append(@, <<>>), !.en = Append(@, <<>>), !.val = Append(@, <<>>),
              !.sizes = Append(@, <<>>)]
PopScopes(s) ==
    [s EXCEPT !.td = Front(@), !.en = Front(@), !.val = Front(@), !.sizes = Front(@)]

AddTypedef(s, a, info) == [s EXCEPT !.td[Len(s.td)] = (a :> info) @@ @]
AddEnumConstant(s, a, n) == [s EXCEPT !.en[Len(s.en)] = (a :> n) @@ @]
\* x, or the array y that it declares again without its size.
WithSizeOf(x, y) == IF x.t = "array" /\ x.n = 0 /\ y.t = "array" /\ y.of = x.of THEN y ELSE x
AddValue(s, a, x) ==
    [s EXCEPT !.val[Len(s.val)] = (a :> WithSizeOf(x, ValueType(a, s))) @@ @]

AddValues(s, named) == FoldLeft(LAMBDA p, nx : AddValue(p, nx[1], nx[2]), s, named)

\* (Mutant: whatever scope the object is in, a typedef name is one.)
AnyTypedef(s, a) == InnermostWith(a, s.td) # {}

\* A typedef name is hidden by an object of an inner scope, or of its own.
VisibleTypedef(s, a) ==
    LET types == InnermostWith(a, s.td)
        values == InnermostWith(a, s.val)
    IN  types # {} /\ (values # {} => Max(types) > Max(values))
TypedefOf(s, a) == s.td[Max(InnermostWith(a, s.td))][a]

EnumConstants(s, a) == InnermostWith(a, s.en)
EnumConstant(s, a) == s.en[Max(EnumConstants(s, a))][a]

TypeWords ==
    {"int", "long", "void", "unsigned", "signed", "double", "float", "char", "struct", "union",
     "enum", "const", "volatile", "_Atomic", "register", "auto", "_Static_assert", "restrict",
     "_Bool", "short", "typeof", "__auto_type"}
IsTypeKeyword(s) == SeesAny(s, TypeWords) \/ (SeesName(s) /\ VisibleTypedef(s, TextOf(s)))

----------------------------------------------------------------------------
(* The rules that call one another: Parse applies the one that is named    *)
(* to the parser and to what else the rule takes, and stands at the end of *)
(* the module.                                                             *)
RECURSIVE Parse(_, _, _)
Expression(s) == Parse("expression", <<>>, s)
Assignment(s) == Parse("assignment", <<>>, s)
ConditionalExp(s) == Parse("conditional", <<>>, s)
Unary(s) == Parse("unary", <<>>, s)
PostfixSuffixes(s) == Parse("suffixes", <<>>, s)
CallOf(s, a, args) == Parse("call", <<a, args>>, s)
Associations(s, control, chosen) == Parse("associations", <<control, chosen>>, s)
MemberOf(s, x) == Parse("member of", <<x>>, s)
Designation(s, x, e) == Parse("designation", <<x, e>>, s)
Initializer(s) == Parse("initializer", <<>>, s)
BraceInitializer(s) == Parse("braces", <<>>, s)
InitElement(s) == Parse("element", <<>>, s)
Inferred(s, x, e) == Parse("inferred", <<x, e>>, s)
TypeName(s) == Parse("type name", <<>>, s)
Specifiers(s) == Parse("specifiers", <<>>, s)
SimpleType(s) == Parse("type", <<>>, s)
EnumSpecifier(s) == Parse("enum", <<>>, s)
TypeofSpecifier(s) == Parse("typeof", <<>>, s)
StructSpecifier(s) == Parse("struct", <<>>, s)
StructBody(s) == Parse("members", <<>>, s)
MemberDeclarator(s, b) == Parse("member", <<b>>, s)
RecordStruct(s, tag, union) == Parse("layout", <<tag, union>>, s)
Declarator(s, abstract) == Parse("declarator", <<abstract>>, s)
AbstractDeclarator(s) == Parse("abstract declarator", <<>>, s)
ArraySize(s) == Parse("bound", <<>>, s)
Parameters(s) == Parse("parameters", <<>>, s)
OneParameter(s) == Parse("parameter", <<>>, s)
WithOldStyle(s, d, W) == Parse("old style", <<d, W>>, s)
Declaration(s) == Parse("declaration", <<>>, s)
WithSpecifiers(s, file) == Parse("declared", <<file>>, s)
Declared(s, b) == Parse("one declared", <<b>>, s)
AddDeclared(s, p, b, file) == Parse("add declared", <<p, b, file>>, s)
MakeVarDecl(s, a, x, sc) == Parse("variable", <<a, x, sc>>, s)
FunctionBody(s, a, d) == Parse("body", <<a, d>>, s)
Scoped(s) == Parse("block", <<>>, s)
ScopedItems(s, items) == Parse("items", <<items>>, s)
BlockItem(s) == Parse("item", <<>>, s)
StaticAssert(s) == Parse("assertion", <<>>, s)
Statement(s) == Parse("statement", <<>>, s)
ForDeclaration(s) == Parse("for", <<>>, s)
CaseValues(s) == Parse("case", <<>>, s)

\* The type and the constant value of an expression, worked out where s stands.
TypeIn(e, s) == Parse("type of", <<e>>, s)
ValueIn(e, s) == Parse("value of", <<e>>, s)
ConstantOf(s) == ValueIn(s.v, s)

(* Type specifiers.  has: the words seen so far.                           *)
TypeOfWords(has) ==
    CASE "void" \in has -> "void"
      [] "char" \in has ->
            IF "unsigned" \in has THEN "uchar" ELSE IF "signed" \in has THEN "schar" ELSE "char"
      [] "short" \in has -> IF "unsigned" \in has THEN "ushort" ELSE "short"
      [] "unsigned" \in has -> IF "long" \in has THEN "ulong" ELSE "uint"
      [] "float" \in has -> "float"
      [] "double" \in has -> IF "long" \in has THEN "longdouble" ELSE "double"
      [] "long" \in has -> "long"
      [] OTHER -> "int"

\* The words that each may not follow, in declarations and in type names.
NotAfter ==
    [int |-> {"int", "void", "char"}, long |-> {"void", "char"},
     char |-> {"char", "int", "long", "void"}, short |-> {"long", "char", "void", "short"},
     unsigned |-> {"unsigned", "signed", "void"}, signed |-> {"unsigned", "signed", "void"},
     double |-> {"int", "void", "unsigned", "signed", "char"},
     float |-> {"int", "long", "void", "unsigned", "signed", "char"},
     void |-> {"int", "long", "void", "unsigned", "signed", "char"}]
NotAfterInTypeName ==
    [int |-> {"int", "char"}, long |-> {"char"}, char |-> {"char", "int", "long"},
     short |-> {"long", "char", "short"}, unsigned |-> {"unsigned", "signed"},
     signed |-> {"unsigned", "signed"}, double |-> {"int", "char", "unsigned", "signed"}]

Follows(s, w, has, table) == Sees(s, w) /\ has \cap table[w] = {}
Accepted(s, has, table) == {w \in DOMAIN table : Follows(s, w, has, table)}

WithTag(x, tag) ==
    LET RECURSIVE tagged(_)
        tagged(y) == IF y = Scalar("struct") THEN StructOf(tag)
                     ELSE [y EXCEPT !.of = [i \in DOMAIN @ |-> tagged(@[i])]]
    IN  tagged(x)
Tagged(x, c, tag) == IF c = "struct" /\ tag # "" THEN WithTag(x, tag) ELSE x

RECURSIVE EnumBody(_, _)
EnumBody(s, n) ==
    LET a == Name(s)
        given == Assignment(Advance(a))
        valued == IF Sees(a, "=") THEN given ELSE a
        value == IF ~Sees(a, "=") THEN Known(n, FALSE)
                 ELSE IF given.ok THEN ConstantOf(given) ELSE NotConstant
        added == AddEnumConstant(valued, a.v, value.n)
    IN  IF Sees(s, "}") THEN Advance(s)
        ELSE IF ~valued.ok \/ ~value.ok THEN Bad(s)
        ELSE IF Sees(added, ",") THEN EnumBody(Advance(added), value.n + 1)
        ELSE Expect(added, "}")

ReadEnumSpecifier(s) ==
    LET a == Advance(s)
        named == IF SeesName(a) THEN Advance(a) ELSE a
        fixed == IF Sees(named, ":") THEN SimpleType(Advance(named)) ELSE named
        t == IF Sees(fixed, "{") THEN EnumBody(Advance(fixed), 0) ELSE fixed
    IN  [t EXCEPT !.enum = TRUE]

ReadTypeofSpecifier(s) ==
    LET o == Expect(Advance(s), "(")
        t == IF IsTypeKeyword(o) THEN TypeName(o) ELSE Expression(o)
        x == IF IsTypeKeyword(o) THEN t.v ELSE TypeIn(t.v, t)
    IN  IF ~t.ok THEN t ELSE IF x = NoType THEN Bad(t) ELSE Expect(Give([t EXCEPT !.full = x], x), ")")

TypedefSpecifier(s) ==
    LET info == TypedefOf(s, TextOf(s))
    IN  [Advance(s) EXCEPT !.full = info.full, !.enum = info.enum,
                           !.tag = IF info.tag = "" THEN @ ELSE info.tag]

\* Storage and type specifiers of a declaration: v is [sc, c].
RECURSIVE SpecifierWords(_, _, _)
SpecifierWords(s, has, sc) ==
    LET next(t) == SpecifierWords(t, has, sc)
        result(t, c) == Give(t, [sc |-> sc, c |-> c])
        words == Accepted(s, has, NotAfter)
        storage == {w \in {"static", "extern", "typedef"} : Sees(s, w) /\ sc = ""}
        atomic == Advance(s)
        inner == Specifiers(Advance(atomic))
        of == TypeofSpecifier(s)
        plain == has \cap {"int", "long", "short", "void", "unsigned", "signed", "char"} = {}
        struct == StructSpecifier(s)
    IN  CASE SeesAny(s, {"const", "volatile", "restrict", "inline"}) -> next(Advance(s))
          [] Sees(s, "_Atomic") ->
                IF Sees(atomic, "(")
                THEN IF inner.ok THEN result(Expect(inner, ")"), inner.v.c) ELSE inner
                ELSE next(atomic)
          [] Sees(s, "typeof") /\ plain -> IF of.ok THEN result(of, CType(of.v)) ELSE of
          [] Sees(s, "__auto_type") /\ plain -> result([Advance(s) EXCEPT !.infer = TRUE], "void")
          [] storage # {} -> SpecifierWords(Advance(s), has, CHOOSE w \in storage : TRUE)
          [] SeesAny(s, {"register", "auto"}) /\ sc = "" -> next(Advance(s))
          [] words # {} -> SpecifierWords(Advance(s), has \cup words, sc)
          [] Sees(s, "_Bool") /\ has \cap NotAfter["void"] = {} -> result(Advance(s), "bool")
          [] OTHER ->
                IF has # {} THEN result([s EXCEPT !.full = NoType, !.enum = FALSE], TypeOfWords(has))
                ELSE IF SeesAny(s, {"struct", "union"}) THEN result(struct, "struct")
                ELSE IF Sees(s, "enum") THEN result(EnumSpecifier(s), "int")
                ELSE IF SeesName(s) /\ VisibleTypedef(s, TextOf(s))
                THEN result(TypedefSpecifier(s), TypedefOf(s, TextOf(s)).c)
                ELSE IF SeesName(s) \/ SeesAny(s, {"*", "("}) THEN result(s, "int")
                ELSE Bad(s)

ReadSpecifiers(s) == SpecifierWords([s EXCEPT !.enum = FALSE], {}, "")

\* The type specifiers of a type name, a parameter or a member: v is the type.
RECURSIVE TypeWordsFrom(_, _)
TypeWordsFrom(s, has) ==
    LET words == {w \in Accepted(s, has, NotAfterInTypeName) : w = "double" => "long" \in has}
    IN  CASE SeesAny(s, Qualifiers \cup {"register", "auto"}) -> TypeWordsFrom(Advance(s), has)
          [] words # {} -> TypeWordsFrom(Advance(s), has \cup words)
          [] OTHER -> IF has = {} THEN Bad(s) ELSE Give(s, TypeOfWords(has))

ReadSimpleType(s) ==
    LET q == SkipAny([s EXCEPT !.enum = FALSE, !.full = NoType, !.tag = ""],
                     {"const", "volatile", "restrict", "register", "auto"})
        t == Eat(q, "_Atomic")
        inner == SimpleType(Advance(t))
        of == TypeofSpecifier(t)
        word(w, c) == Give(Advance(t), c)
    IN  CASE Sees(q, "_Atomic") /\ Sees(t, "(") -> IF inner.ok THEN Expect(inner, ")") ELSE inner
          [] Sees(t, "void") -> word("void", "void")
          [] Sees(t, "typeof") -> IF of.ok THEN Give(of, CType(of.v)) ELSE of
          [] SeesAny(t, {"struct", "union"}) -> Give(StructSpecifier(t), "struct")
          [] Sees(t, "double") -> word("double", "double")
          [] Sees(t, "float") -> word("float", "float")
          [] Sees(t, "_Bool") -> word("_Bool", "bool")
          [] Sees(t, "enum") -> Give(EnumSpecifier(t), "int")
          [] SeesName(t) /\ VisibleTypedef(t, TextOf(t)) ->
                Give(TypedefSpecifier(t), TypedefOf(t, TextOf(t)).c)
          [] ~(Sees(q, "_Atomic") /\ Sees(t, "("))
             /\ ~SeesAny(t, {"void", "typeof", "struct", "union", "double", "float", "_Bool", "enum"})
             /\ ~(SeesName(t) /\ VisibleTypedef(t, TextOf(t))) -> TypeWordsFrom(t, {})
----------------------------------------------------------------------------
(* Declarators.  A declarator is a name and what it makes of the type of   *)
(* its specifiers, the outermost part first.                               *)
Part(k, n) == [k |-> k, n |-> n, types |-> <<>>, names |-> <<>>, variadic |-> FALSE,
               old |-> FALSE, bounds |-> <<>>]
FunctionPart(types, names, variadic) ==
    [Part("function", 0) EXCEPT !.types = types, !.names = names, !.variadic = variadic]

FunctionTypeOf(x, d) == FunctionOf(x, d.types, d.variadic)
Derive(x, d) ==
    CASE d.k = "pointer" -> PointerTo(x)
      [] d.k = "array" -> ArrayOf(x, d.n)
      [] d.k = "function" -> FunctionTypeOf(x, d)

Outward(d, parts) == [d EXCEPT !.parts = parts \o @]

\* A function declarator keeps its parameters; the type is then what it returns.
Processed(d, base) ==
    LET function == d.parts # <<>> /\ Last(d.parts).k = "function"
        parts == IF function THEN Front(d.parts) ELSE d.parts
    IN  [a |-> d.a, type |-> FoldLeft(Derive, base, parts),
         info |-> IF function THEN <<Last(d.parts)>> ELSE <<>>]
AsType(p) == IF p.info = <<>> THEN p.type ELSE FunctionTypeOf(p.type, p.info[1])

BaseType(c, full) == IF full = NoType THEN Scalar(c) ELSE full

\* Parameters that are arrays or functions are pointers.
Adjusted(x) ==
    CASE x.t = "array" -> PointerTo(Elem(x))
      [] x.t = "function" -> PointerTo(x)
      [] OTHER -> x

\* The bound of an array: a number, 0 where it is left out.
ReadArraySize(s) ==
    LET q == SkipAny(Eat(SkipAny(s, Qualifiers), "static"), Qualifiers)
        fresh == [q EXCEPT !.bound.dynamic = FALSE]
        e == Assignment(fresh)
        n == ConstantOf(e)
        name == "bound" \o ToString(e.vlas)
        captured == e.fn # "" /\ e.params = 0
        kept == [AddValue(e, name, Scalar("long")) EXCEPT
                    !.vlas = @ + 1,
                    !.before = Append(@, Variable(name, Scalar("long"), e.v, ""))]
    IN  CASE Sees(q, "]") -> Give([fresh EXCEPT !.open = TRUE], 0)
          [] Sees(q, "*") -> Give(Advance(fresh), 0)
          [] OTHER ->
                IF ~e.ok THEN e
                ELSE IF n.ok THEN (IF n.n < 0 THEN Bad(e) ELSE Give(e, n.n))
                ELSE Give([(IF captured THEN kept ELSE e) EXCEPT
                             !.bound.e = IF captured THEN Var(name) ELSE e.v,
                             !.bound.dynamic = TRUE],
                          VlaMark)

\* The bounds after a declarator d; fixed: those so far that are constant.
RECURSIVE ArraySuffixes(_, _, _)
ArraySuffixes(s, d, fixed) ==
    LET size == ArraySize(Advance(s))
        t == Expect(size, "]")
        placed == IF t.bound.dynamic THEN [t EXCEPT !.bound.depth = fixed] ELSE t
    IN  IF ~Sees(s, "[") THEN Give(s, d)
        ELSE IF ~t.ok THEN t
        ELSE ArraySuffixes(placed, Outward(d, <<Part("array", size.v)>>),
                           IF t.bound.dynamic THEN fixed ELSE fixed + 1)

ReadOneParameter(s) ==
    LET b == SimpleType([s EXCEPT !.params = @ + 1])
        t == Declarator(b, TRUE)
        q == SkipAny(t, Qualifiers)
        p == Processed(t.v, BaseType(b.v, q.full))
        x == Adjusted(Tagged(AsType(p), b.v, q.tag))
    IN  IF ~q.ok THEN q
        ELSE Give([q EXCEPT !.params = @ - 1, !.full = NoType, !.bound = NoBound],
                  [a |-> p.a, type |-> x,
                   bounds |-> IF Absent(q.bound.e) THEN <<>> ELSE <<q.bound.e>>])

RECURSIVE MoreParameters(_, _)
MoreParameters(s, d) ==
    LET one == OneParameter(s)
        more == [d EXCEPT !.types = Append(@, one.v.type), !.names = Append(@, one.v.a),
                          !.bounds = @ \o one.v.bounds]
        t == Advance(one)
    IN  IF ~one.ok THEN one
        ELSE IF ~Sees(one, ",") THEN Give(one, more)
        ELSE IF Sees(t, "...") THEN Give(Advance(t), [more EXCEPT !.variadic = TRUE])
        ELSE MoreParameters(t, more)

RECURSIVE OldNames(_, _)
OldNames(s, d) ==
    LET t == Name(s)
        more == [d EXCEPT !.names = Append(@, t.v), !.types = Append(@, IntType)]
    IN  IF Sees(t, ",") THEN OldNames(Advance(t), more) ELSE Give(t, more)

\* What is between the parentheses of a function declarator.
ReadParameters(s) ==
    LET none == FunctionPart(<<>>, <<>>, FALSE)
        open == [none EXCEPT !.variadic = TRUE]
    IN  CASE Sees(s, "void") /\ IsText(s, 1, ")") -> Give(Advance(s), none)
          [] Sees(s, ")") -> Give(s, open)
          [] Sees(s, "...") -> Give(Advance(s), open)
          [] SeesName(s) /\ ~IsTypeKeyword(s) -> OldNames(s, [none EXCEPT !.old = TRUE])
          [] ~Sees(s, ")") /\ ~Sees(s, "...") /\ ~(SeesName(s) /\ ~IsTypeKeyword(s))
             /\ ~(Sees(s, "void") /\ IsText(s, 1, ")")) -> MoreParameters(s, none)

\* Pointers, then what they are wrapped around.
RECURSIVE Stars(_, _)
Stars(s, n) ==
    LET q == SkipAny(s, Qualifiers)
    IN  IF Sees(q, "*") THEN Stars(Advance(q), n + 1) ELSE Give(q, n)

WithSuffixes(s, d) ==
    LET p == Parameters(Advance(s))
        t == IF Sees(s, "(") THEN Expect(p, ")") ELSE s
        of == IF Sees(s, "(") /\ t.ok THEN Outward(d, <<p.v>>) ELSE d
    IN  IF ~t.ok THEN t ELSE ArraySuffixes(t, of, 0)

WithPointers(t, stars) ==
    IF t.ok THEN Give(t, Outward(t.v, [i \in 1 .. stars |-> Part("pointer", 0)])) ELSE t

\* A name, a declarator in parentheses, or no name where that is allowed; a
\* parenthesis may also open the parameters of a declarator without a name.
DirectDeclarator(s, abstract) ==
    LET inner == Advance(s)
        past == Stars(inner, 0)
        grouped == SeesName(past) \/ (Sees(inner, "*") /\ SeesAny(past, {")", "("}))
        nameless == Give(s, [a |-> "", parts |-> <<>>])
        group == Declarator(inner, abstract)
        name == Name(s)
    IN  IF ~Sees(s, "(")
        THEN IF abstract /\ ~SeesName(s) THEN nameless
             ELSE IF name.ok THEN Give(name, [a |-> name.v, parts |-> <<>>]) ELSE name
        ELSE IF Sees(inner, "*") \/ SeesName(inner)
        THEN IF grouped THEN Expect(group, ")") ELSE IF abstract THEN nameless ELSE Bad(s)
        ELSE IF Sees(inner, ")") \/ (abstract /\ IsTypeKeyword(inner)) THEN nameless
        ELSE Expect(group, ")")

ReadDeclarator(s, abstract) ==
    LET stars == Stars(s, 0)
        d == DirectDeclarator(stars, abstract)
    IN  IF ~d.ok THEN d ELSE WithPointers(WithSuffixes(d, d.v), stars.v)

\* A declarator without a name, in a type name.
ReadAbstractDeclarator(s) ==
    LET stars == Stars(s, 0)
        group == Expect(AbstractDeclarator(Advance(stars)), ")")
        d == IF Sees(stars, "(") THEN group ELSE Give(stars, [a |-> "", parts |-> <<>>])
    IN  IF ~d.ok THEN d ELSE WithPointers(WithSuffixes(d, d.v), stars.v)

ReadTypeName(s) ==
    LET b == SimpleType(s)
        d == AbstractDeclarator([b EXCEPT !.full = NoType])
        x == FoldLeft(Derive, BaseType(b.v, b.full), d.v.parts)
    IN  IF ~b.ok THEN b ELSE IF ~d.ok THEN d ELSE Give(d, Tagged(x, b.v, b.tag))
----------------------------------------------------------------------------
(* Structures and unions.                                                  *)
ReadStaticAssert(s) ==
    LET e == Assignment(Expect(Advance(s), "("))
        n == ConstantOf(e)
        t == IF Sees(e, ",") THEN Advance(Advance(e)) ELSE e
    IN  IF ~e.ok \/ (Sees(e, ",") /\ ~SeesKind(e, 1, "str")) THEN Bad(e)
        ELSE IF ~n.ok \/ n.n = 0 THEN Bad(e)
        ELSE Expect(Expect(t, ")"), ";")

\* A bit-field of an enumeration is unsigned.
ReadMemberDeclarator(s, b) ==
    LET d == Declarator([s EXCEPT !.full = b.full, !.open = FALSE], FALSE)
        p == Processed(d.v, BaseType(b.v, d.full))
        named == Give([d EXCEPT !.full = NoType],
                      [m |-> Member(p.a, Tagged(p.type, b.v, b.tag), -1), open |-> d.open])
        whole == CASE b.v = "struct" /\ Sees(s, ";") ->
                        Give(s, [m |-> Member("", StructOf(s.tag), -1), open |-> FALSE])
                   [] Sees(s, ":") -> Give(s, [m |-> Member("", Scalar(b.v), -1), open |-> FALSE])
                   [] ~(b.v = "struct" /\ Sees(s, ";")) /\ ~Sees(s, ":") ->
                        IF d.ok THEN named ELSE d
        w == Assignment(Advance(whole))
        n == ConstantOf(w)
        bits == [whole.v EXCEPT !.m.width = n.n,
                                !.m.type = IF b.enum THEN Scalar("uint") ELSE @]
    IN  IF ~Sees(whole, ":") THEN whole
        ELSE IF ~w.ok THEN w
        ELSE IF ~n.ok \/ n.n < 0 THEN Bad(w)
        ELSE Give(w, bits)

RECURSIVE MemberDeclarators(_, _, _)
MemberDeclarators(s, b, members) ==
    LET d == MemberDeclarator(s, b)
        more == Append(members, d.v)
        done(t) == Give([t EXCEPT !.full = NoType], more)
    IN  IF ~d.ok THEN d
        ELSE IF Sees(d, ",") THEN MemberDeclarators(Advance(d), b, more)
        ELSE done(IF Sees(d, "}") THEN d ELSE Expect(d, ";"))

RECURSIVE StructMembers(_, _)
StructMembers(s, members) ==
    LET asserted == StaticAssert(s)
        b == SimpleType(s)
        d == MemberDeclarators(b, b, members)
    IN  CASE Sees(s, "}") -> Give([Advance(s) EXCEPT !.bound = NoBound], members)
          [] Sees(s, "_Static_assert") -> StructMembers(asserted, members)
          [] ~Sees(s, "}") /\ ~Sees(s, "_Static_assert") ->
                IF ~b.ok THEN b ELSE IF ~d.ok THEN d ELSE StructMembers(d, d.v)

\* A member whose bound is left out is the last one of a structure of several.
MisplacedOpen(members, union) ==
    \E i \in DOMAIN members :
        members[i].open /\ (union \/ members[i].m.a = "" \/ members[i].m.width >= 0
                            \/ i # Len(members) \/ i = 1)

\* The members in braces; then the structure tag is complete.
ReadStructBody(s) == StructMembers(Advance(s), <<>>)

ReadLayout(s, tag, union) ==
    LET members == [i \in DOMAIN s.v |-> s.v[i].m]
        laid == LayOut(members, union, s.structs)
    IN  IF MisplacedOpen(s.v, union) \/ laid.bad THEN Bad(s)
        ELSE Give([s EXCEPT !.structs = (tag :> laid) @@ @], StructDecl(tag, members, union))

ReadStruct(s) ==
    LET k == Advance(s)
        tag == IF SeesName(k) THEN TextOf(k) ELSE "anon" \o ToString(k.i)
        named == IF SeesName(k) THEN Advance(k) ELSE k
        body == StructBody(named)
        t == RecordStruct(body, tag, Sees(s, "union"))
    IN  IF ~Sees(named, "{") THEN [named EXCEPT !.tag = tag]
        ELSE IF ~body.ok THEN body
        ELSE IF ~t.ok THEN t
        ELSE [t EXCEPT !.tag = tag, !.later = Append(@, t.v)]
----------------------------------------------------------------------------
(* Initializers.                                                           *)
ReadInitializer(s) == IF Sees(s, "{") THEN BraceInitializer(s) ELSE Assignment(s)

\* A designator is the name of a member, an index or two of them.
Designator(a, args) == Exp("designator", a, 0, args)
Designated(ds, e) == Exp("designated", "", 0, Append(ds, e))

RECURSIVE Designators(_, _)
Designators(s, ds) ==
    LET a == Name(Advance(s))
        low == Expression(Advance(s))
        high == Expression(Advance(low))
        indexed(t, args) ==
            IF t.ok THEN Designators(Expect(t, "]"), Append(ds, Designator("", args))) ELSE t
    IN  CASE Sees(s, ".") -> IF a.ok THEN Designators(a, Append(ds, Designator(a.v, <<>>))) ELSE a
          [] Sees(s, "[") -> IF Sees(low, "...") THEN indexed(high, <<low.v, high.v>>)
                             ELSE indexed(low, <<low.v>>)
          [] ~Sees(s, ".") /\ ~Sees(s, "[") ->
                Give(IF ds = <<>> THEN s ELSE Expect(s, "="), ds)

ReadInitElement(s) ==
    LET ds == Designators(s, <<>>)
        labelled == SeesName(s) /\ IsText(s, 1, ":")
        old == Give(Advance(Advance(s)), <<Designator(TextOf(s), <<>>)>>)
        d == IF labelled THEN old ELSE ds
        e == Initializer(d)
    IN  IF ~d.ok THEN d ELSE IF ~e.ok \/ d.v = <<>> THEN e ELSE Give(e, Designated(d.v, e.v))

RECURSIVE InitElements(_, _)
InitElements(s, elems) ==
    LET e == InitElement(s)
    IN  IF Sees(s, "}") THEN Give(Advance(s), Exp("init", "", 0, elems))
        ELSE IF ~e.ok THEN e
        ELSE IF Sees(e, ",") THEN InitElements(Advance(e), Append(elems, e.v))
        ELSE Give(Expect(e, "}"), Exp("init", "", 0, Append(elems, e.v)))
ReadBraces(s) == InitElements(Expect(s, "{"), <<>>)

\* The elements that an initializer reaches: next is where the next one goes,
\* used the members of that one that have been given by themselves.
Reached(s, elems, members) ==
    LET step(r, e) ==
            LET d == IF e.x = "designated" THEN e.args[1] ELSE NoExp
                indexed == e.x = "designated" /\ d.a = ""
                value == IF indexed THEN ValueIn(Last(d.args), s) ELSE Known(r.next, FALSE)
                used == IF indexed THEN 0 ELSE r.used
                past == e.x = "init" \/ used + 1 >= members
            IN  [next |-> IF past THEN value.n + 1 ELSE value.n,
                 used |-> IF past THEN 0 ELSE used + 1,
                 most |-> Max({r.most, value.n + 1}),
                 ok |-> r.ok /\ value.ok /\ value.n >= 0]
    IN  FoldLeft(step, [next |-> 0, used |-> 0, most |-> 0, ok |-> TRUE], elems)

\* How many elements an array without a size takes from its initializer.
InferredSize(s, x, e) ==
    LET def == Elem(x).c
        members == IF Elem(x).t # "struct" \/ def \notin DOMAIN s.structs THEN 1
                   ELSE IF s.structs[def].union THEN 1
                   ELSE Max({Len(s.structs[def].fields), 1})
        alone == e.x = "init" /\ Len(e.args) = 1 /\ e.args[1].x = "string"
    IN  CASE e.x = "string" -> [ok |-> TRUE, most |-> e.n + 1]
          [] alone -> [ok |-> TRUE, most |-> e.args[1].n + 1]
          [] e.x = "init" /\ ~alone -> Reached(s, e.args, members)
          [] e.x \notin {"init", "string"} -> [ok |-> TRUE, most |-> 0]

InferSize(s, x, e) ==
    IF x.t # "array" \/ x.n # 0 \/ Absent(e) THEN Give(s, x)
    ELSE LET r == InferredSize(s, x, e)
         IN  IF r.ok THEN Give(s, [x EXCEPT !.n = r.most]) ELSE Bad(s)
----------------------------------------------------------------------------
(* Declarations.                                                           *)
\* What an array takes whose bound is e, the dimension at depth being the one.
RECURSIVE VlaSize(_, _, _)
VlaSize(e, x, depth) ==
    CASE x.t = "array" /\ depth = 0 -> Binary("times", e, SizeOf(Elem(x)))
      [] x.t = "array" /\ depth > 0 ->
            LET inner == VlaSize(e, Elem(x), depth - 1)
            IN  IF Absent(inner) THEN NoExp
                ELSE Binary("times", Exp("const", "ul", x.n, <<>>), inner)
      [] x.t # "array" -> NoExp

\* An array whose bound is not constant is a pointer to what alloca returns.
VlaDecl(s, a, x, sc) ==
    LET size == VlaSize(s.bound.e, x, s.bound.depth)
        elements == IF Absent(size) THEN Binary("times", s.bound.e, SizeOf(Elem(x))) ELSE size
    IN  Give([s EXCEPT !.sizes[Len(s.sizes)] = (a :> elements) @@ @],
             Variable(a, PointerTo(Elem(x)), Exp("call", "alloca", 0, <<elements>>), sc))

Initialized(s) == IF Sees(s, "=") THEN Initializer(Advance(s)) ELSE Give(s, NoExp)

ReadVarDecl(s, a, x, sc) ==
    LET e == Initialized(s)
        y == Inferred(e, x, e.v)
        taken == [y EXCEPT !.bound = NoBound]
    IN  IF CType(x) = "void" /\ sc # "extern" THEN Bad(s)
        ELSE IF ~e.ok \/ ~y.ok THEN Bad(e)
        ELSE IF ~Absent(y.bound.e) /\ y.v.t = "array"
        THEN [VlaDecl(y, a, y.v, sc) EXCEPT !.bound = NoBound]
        ELSE Give(taken, Variable(a, y.v, e.v, sc))

MakeAutoVarDecl(s, a, sc) ==
    LET e == Assignment(Expect(s, "="))
        x == Decayed(TypeIn(e.v, e))
        t == Expect(e, ";")
    IN  IF Sees(s, "=") /\ IsText(s, 1, "{") THEN Bad(s)
        ELSE IF ~e.ok \/ x = NoType \/ CType(x) = "void" THEN Bad(e)
        ELSE Give(AddValue(t, a, x), Variable(a, x, e.v, sc))

\* A storage class may follow the type.
PostTypeStorageClass(s, sc) ==
    LET after == {w \in {"static", "extern", "typedef"} : Sees(s, w)}
    IN  IF after = {} THEN Give(SkipAny(s, {"const", "volatile", "inline"}), sc)
        ELSE IF sc # "" THEN Bad(s)
        ELSE Give(Advance(s), CHOOSE w \in after : TRUE)

(* A declarator of a declaration: b is what its specifiers said.           *)
ReadDeclared(s, b) ==
    LET d == Declarator(s, FALSE)
        p == Processed(d.v, BaseType(b.c, b.full))
    IN  IF ~d.ok THEN d
        ELSE Give([d EXCEPT !.full = NoType], [p EXCEPT !.type = Tagged(@, b.c, b.tag)])

DeclareOne(s, p, b, file) ==
    LET var == MakeVarDecl(s, p.a, p.type, b.sc)
    IN  IF p.info # <<>>
        THEN Give(AddValue(s, p.a, AsType(p)),
                  FunctionDecl(p.a, AsType(p), p.info[1].names, b.sc, <<>>))
        ELSE IF ~var.ok THEN var
        ELSE Give(AddValue(var, p.a, IF file THEN var.v.type ELSE p.type), var.v)

\* The declarators after the first, which go after the declaration.
RECURSIVE ExtraDeclarators(_, _, _)
ExtraDeclarators(s, b, file) ==
    LET d == Declared(Advance(s), b)
        t == AddDeclared(d, d.v, b, file)
        stashed == IF file THEN [t EXCEPT !.decls = Append(@, t.v)]
                   ELSE [t EXCEPT !.items = Append(@, t.v)]
    IN  IF ~Sees(s, ",") THEN Expect(s, ";")
        ELSE IF ~d.ok THEN d
        ELSE IF ~t.ok THEN t
        ELSE ExtraDeclarators(stashed, b, file)

AddNewTypedef(s, a, x, b) ==
    AddTypedef([s EXCEPT !.bound = NoBound], a,
               [c |-> CType(x), full |-> x, tag |-> b.tag, enum |-> s.enum])

RECURSIVE MoreTypedefs(_, _)
MoreTypedefs(s, b) ==
    LET d == Declared(Advance(s), b)
    IN  IF ~Sees(s, ",") THEN Give(Expect(s, ";"), NoDecl)
        ELSE IF ~d.ok THEN d
        ELSE MoreTypedefs(AddNewTypedef(d, d.v.a, AsType(d.v), b), b)

TypedefDecl(s, p, b, file) ==
    IF file THEN MoreTypedefs(AddNewTypedef(s, p.a, AsType(p), b), b)
    ELSE Give(AddNewTypedef(Expect(s, ";"), p.a, p.type, b), NoDecl)

(* Functions: the types of parameters may come after their names.          *)
RECURSIVE OldStyleParameters(_, _)
OldStyleParameters(s, d) ==
    LET sp == Specifiers(s)
        b == [c |-> sp.v.c, full |-> sp.full, tag |-> sp.tag, sc |-> ""]
        RECURSIVE named(_, _)
        named(t, part) ==
            LET one == Declared(t, b)
                where == SelectInSeq(part.names, LAMBDA a : a = one.v.a)
                typed == [part EXCEPT !.types[where] = Adjusted(one.v.type)]
            IN  IF ~one.ok THEN one
                ELSE IF one.v.info # <<>> \/ where = 0 THEN Bad(one)
                ELSE IF Sees(one, ",") THEN named(Advance(one), typed)
                ELSE Give(Expect(one, ";"), typed)
        t == named(sp, d)
    IN  IF Sees(s, "{") THEN Give(s, [d EXCEPT !.old = TRUE])
        ELSE IF ~sp.ok THEN sp ELSE IF ~t.ok THEN t ELSE OldStyleParameters(t, t.v)

ReadWithOldStyle(s, d, W) == IF SeesAny(s, W) THEN Give(s, d) ELSE OldStyleParameters(s, d)

(* Blocks.  A case or default in a block is an item of its own, and so is  *)
(* what follows it.                                                        *)
IsBlockLabel(s) == SeesAny(s, {"case", "default"})
CaseOfExps(es, b) == CaseOf(es, b)

\* The values of a case, with the colon.
ReadCaseValues(s) ==
    LET low == Expression(Advance(s))
        high == Expression(Advance(low))
    IN  IF Sees(s, "default") THEN Give(Expect(Advance(s), ":"), <<>>)
        ELSE IF Sees(low, "...")
        THEN (IF high.ok THEN Give(Expect(high, ":"), <<low.v, high.v>>) ELSE high)
        ELSE IF low.ok THEN Give(Expect(low, ":"), <<low.v>>) ELSE low

CaseWith(values, b) == IF values = <<>> THEN Default(b) ELSE CaseOfExps(values, b)

BlockLabel(s) ==
    LET t == CaseValues(s) IN IF t.ok THEN Give(t, CaseWith(t.v, Null)) ELSE t

DeclarationWords ==
    (TypeWords \ {"__auto_type"})
        \cup {"__auto_type", "static", "extern", "typedef", "inline", "_Alignof"}
IsDeclarationStart(s) ==
    SeesAny(s, DeclarationWords) \/ (SeesName(s) /\ VisibleTypedef(s, TextOf(s)))

\* An enumeration or structure declared by itself; when something is declared
\* with it the parser goes back to where it stood, and reads it again.
StandaloneEnum(s) ==
    Sees(s, "enum") /\ IsText(s, IF SeesName(Advance(s)) THEN 2 ELSE 1, "{")
StandaloneStruct(s) ==
    SeesAny(s, {"struct", "union"}) /\ SeesName(Advance(s))
        /\ (IsText(s, 2, "{") \/ IsText(s, 2, ";"))
BackTo(s, t) == [t EXCEPT !.i = s.i]

Standalone(s, otherwise(_)) ==
    LET enum == Specifiers(s)
        tag == TextOf(Advance(s))
        named == Advance(Advance(s))
        union == Sees(s, "union")
        body == StructBody(named)
        recorded == RecordStruct(body, tag, union)
    IN  IF StandaloneEnum(s)
        THEN IF ~enum.ok THEN enum
             ELSE IF Sees(enum, ";") THEN Give(Advance([enum EXCEPT !.full = NoType]), NoDecl)
             ELSE otherwise(BackTo(s, [enum EXCEPT !.full = NoType]))
        ELSE IF StandaloneStruct(s)
        THEN IF Sees(named, ";") THEN Give(Advance(named), StructDecl(tag, <<>>, union))
             ELSE IF ~body.ok THEN body
             ELSE IF MisplacedOpen(body.v, union) THEN Bad(body)
             ELSE IF Sees(body, ";") THEN (IF recorded.ok THEN Advance(recorded) ELSE recorded)
             ELSE otherwise(BackTo(s, body))
        ELSE otherwise(s)

ReadScopedItems(s, items) ==
    LET item == IF IsBlockLabel(s) THEN BlockLabel(s) ELSE BlockItem(s)
        all == items \o item.before \o item.later \o <<item.v>> \o item.items
    IN  IF Sees(s, "}") THEN Give(s, items)
        ELSE IF ~item.ok THEN item
        ELSE ScopedItems([item EXCEPT !.before = <<>>, !.later = <<>>, !.items = <<>>], all)

ReadBlock(s) ==
    LET items == ScopedItems(PushScopes(Expect(s, "{")), <<>>)
    IN  IF items.ok THEN PopScopes(Give(Expect(items, "}"), items.v)) ELSE items

\* The body of a function: bounds of its parameters are evaluated first, and
\* structures declared with its type wait until it is read.
ReadFunctionBody(s, a, d) ==
    LET o == [PushScopes(Expect(s, "{")) EXCEPT !.fn = a, !.later = <<>>]
        name(i) == "pbound" \o ToString(s.vlas + i - 1)
        captured == [i \in DOMAIN d.bounds |-> Variable(name(i), Scalar("long"), d.bounds[i], "")]
        bounded == AddValues([o EXCEPT !.vlas = @ + Len(d.bounds)],
                             [i \in DOMAIN d.bounds |-> <<name(i), Scalar("long")>>])
        values == SelectSeq([i \in DOMAIN d.names |-> <<d.names[i], d.types[i]>>],
                            LAMBDA nx : nx[1] # "")
        items == ScopedItems(AddValues(bounded, values), <<>>)
        t == PopScopes(Expect(items, "}"))
    IN  IF ~items.ok THEN items
        ELSE Give([t EXCEPT !.fn = s.fn, !.later = s.later \o @], Block(captured \o items.v))

Function(s, p, b, file) ==
    LET d == WithOldStyle(s, p.info[1], {";", "{", ","})
        x == FunctionTypeOf(p.type, d.v)
        known == AddValue(d, p.a, x)
        body == FunctionBody(known, p.a, d.v)
        decl(kids) == FunctionDecl(p.a, x, d.v.names, b.sc, kids)
    IN  IF ~d.ok THEN d
        ELSE IF Sees(d, "{") THEN (IF body.ok THEN Give(body, decl(<<body.v>>)) ELSE body)
        ELSE Give(ExtraDeclarators(known, b, file), decl(<<>>))

\* A function without any specifier returns an int.
ImplicitFunction(s) ==
    LET a == Name(s)
        ps == Parameters(Advance(a))
        t == Expect(ps, ")")
        d == WithOldStyle(t, ps.v, {";", "{"})
        x == FunctionTypeOf(IntType, d.v)
        known == AddValue(d, a.v, x)
        body == FunctionBody(known, a.v, d.v)
        decl(kids) == FunctionDecl(a.v, x, d.v.names, "", kids)
    IN  IF ~t.ok THEN t ELSE IF ~d.ok THEN d
        ELSE IF Sees(d, "{") THEN (IF body.ok THEN Give(body, decl(<<body.v>>)) ELSE body)
        ELSE Give(Expect(known, ";"), decl(<<>>))

ReadWithSpecifiers(s, file) ==
    LET sp == Specifiers([s EXCEPT !.infer = FALSE])
        post == PostTypeStorageClass(sp, sp.v.sc)
        b == [c |-> sp.v.c, sc |-> post.v, full |-> sp.full,
              tag |-> IF sp.v.c = "struct" THEN sp.tag ELSE ""]
        d == Declared([post EXCEPT !.infer = FALSE], b)
        first == AddDeclared(d, d.v, b, file)
    IN  IF ~sp.ok THEN sp
        ELSE IF ~post.ok THEN post
        ELSE IF file /\ Sees(post, ";") /\ (b.c = "struct" \/ sp.enum) THEN Give(Advance(post), NoDecl)
        ELSE IF ~d.ok THEN d
        ELSE IF sp.infer
        THEN IF b.sc = "typedef" \/ d.v.info # <<>> \/ d.v.type # Scalar("void") THEN Bad(d)
             ELSE MakeAutoVarDecl(d, d.v.a, b.sc)
        ELSE IF b.sc = "typedef" THEN TypedefDecl(d, d.v, b, file)
        ELSE IF d.v.info # <<>> THEN Function(d, d.v, b, file)
        ELSE IF first.ok THEN Give(ExtraDeclarators(first, b, file), first.v) ELSE first

Asserted(s) == LET t == StaticAssert(s) IN Give(t, NoDecl)

ReadDeclaration(s) ==
    LET otherwise(t) ==
            IF SeesName(t) /\ ~IsTypeKeyword(t) /\ IsText(t, 1, "(") THEN ImplicitFunction(t)
            ELSE WithSpecifiers(t, TRUE)
    IN  CASE Sees(s, ";") -> Give(Advance(s), NoDecl)
          [] Sees(s, "_Static_assert") -> Asserted(s)
          [] ~SeesAny(s, {";", "_Static_assert"}) -> Standalone(s, otherwise)

ReadBlockItem(s) ==
    CASE Sees(s, "_Static_assert") -> Asserted(s)
      [] IsDeclarationStart(s) /\ ~Sees(s, "_Static_assert") ->
            Standalone(s, LAMBDA t : WithSpecifiers(t, FALSE))
      [] ~IsDeclarationStart(s) -> Statement(s)

\* The declaration in the head of a for; its initializer may hold a comma.
ReadForDeclaration(s) ==
    LET sp == Specifiers([s EXCEPT !.infer = FALSE])
        d == Declarator(sp, FALSE)
        p == Processed(d.v, BaseType(sp.v.c, d.full))
        x == Tagged(p.type, sp.v.c, d.tag)
        e == IF ~Sees(d, "=") THEN Give(d, NoExp)
             ELSE IF IsText(d, 1, "{") THEN BraceInitializer(Advance(d))
             ELSE Expression(Advance(d))
        y == Inferred(e, x, e.v)
    IN  IF ~d.ok THEN d
        ELSE IF sp.infer THEN (IF x # Scalar("void") THEN Bad(d) ELSE MakeAutoVarDecl(d, p.a, sp.v.sc))
        ELSE IF ~e.ok \/ ~y.ok \/ CType(x) = "void" THEN Bad(e)
        ELSE Give(AddValue(Expect(y, ";"), p.a, y.v), Variable(p.a, y.v, e.v, sp.v.sc))
----------------------------------------------------------------------------
(* Statements.                                                             *)
OrNothing(s, W) == IF SeesAny(s, W) THEN Give(s, NoExp) ELSE Expression(s)
InParentheses(s) ==
    LET e == Expression(Expect(s, "(")) IN IF e.ok THEN Give(Expect(e, ")"), e.v) ELSE e

\* A statement over s, its tree made of the one read and what came before.
Then(s, tree(_)) == LET b == Statement(s) IN IF b.ok THEN Give(b, tree(b.v)) ELSE b
ThenOrNull(s, tree(_)) == IF Sees(s, "}") THEN Give(s, tree(Null)) ELSE Then(s, tree)

IfStatement(s) ==
    LET c == InParentheses(Advance(s))
        t == Statement(c)
    IN  IF ~c.ok THEN c ELSE IF ~t.ok THEN t
        ELSE IF Sees(t, "else") THEN Then(Advance(t), LAMBDA e : IfElse(c.v, t.v, e))
        ELSE Give(t, If(c.v, t.v))

DoStatement(s) ==
    LET b == Statement(Advance(s))
        c == InParentheses(Expect(b, "while"))
    IN  IF ~b.ok THEN b ELSE IF ~c.ok THEN c ELSE Give(Expect(c, ";"), DoWhile(b.v, c.v))

ForStatement(s) ==
    LET o == Expect(Advance(s), "(")
        e == Expression(o)
        init == IF IsDeclarationStart(o) THEN ForDeclaration(o)
                ELSE IF Sees(o, ";") THEN Give(Advance(o), Null)
                ELSE IF e.ok THEN Give(Expect(e, ";"), Do(e.v)) ELSE e
        c == OrNothing(init, {";"})
        post == OrNothing(Expect(c, ";"), {")"})
    IN  IF ~init.ok THEN init ELSE IF ~c.ok THEN c ELSE IF ~post.ok THEN post
        ELSE Then(Expect(post, ")"), LAMBDA b : For(init.v, c.v, post.v, b))

GotoStatement(s) ==
    LET e == Expression(Advance(Advance(s)))
        a == Name(Advance(s))
    IN  IF IsText(s, 1, "*")
        THEN (IF e.ok THEN Give(Expect(e, ";"), Stmt("goto", "*", e.v, <<>>)) ELSE e)
        ELSE IF a.ok THEN Give(Expect(a, ";"), Goto(a.v)) ELSE a

ReturnStatement(s) ==
    LET e == OrNothing(Advance(s), {";"}) IN IF e.ok THEN Give(Expect(e, ";"), Return(e.v)) ELSE e

ReadStatement(s) ==
    LET c == InParentheses(Advance(s))
        values == CaseValues(s)
        block == Scoped(s)
        a == TextOf(s)
        e == Expression(s)
        simple(tree) == Give(Expect(Advance(s), ";"), tree)
        words == {"return", "if", "while", "do", "for", "break", "continue", "goto", "switch",
                  "case", "default", "{", ";"}
        labelled == SeesName(s) /\ IsText(s, 1, ":")
    IN  CASE Sees(s, "return") -> ReturnStatement(s)
          [] Sees(s, "if") -> IfStatement(s)
          [] Sees(s, "while") ->
                IF c.ok THEN Then(c, LAMBDA b : While(c.v, b)) ELSE c
          [] Sees(s, "do") -> DoStatement(s)
          [] Sees(s, "for") -> ForStatement(s)
          [] Sees(s, "break") -> simple(Break)
          [] Sees(s, "continue") -> simple(Continue)
          [] Sees(s, "goto") -> GotoStatement(s)
          [] Sees(s, "switch") ->
                IF c.ok THEN Then(c, LAMBDA b : Switch(c.v, b)) ELSE c
          [] SeesAny(s, {"case", "default"}) ->
                IF values.ok THEN ThenOrNull(values, LAMBDA b : CaseWith(values.v, b)) ELSE values
          [] Sees(s, "{") -> IF block.ok THEN Give(block, Block(block.v)) ELSE block
          [] Sees(s, ";") -> Give(Advance(s), Null)
          [] labelled -> ThenOrNull(Advance(Advance(s)), LAMBDA b : Label(a, b))
          [] ~SeesAny(s, words) /\ ~labelled ->
                IF e.ok THEN Give(Expect(e, ";"), Do(e.v)) ELSE e
----------------------------------------------------------------------------
(* Expressions.                                                            *)
Made(s, e) == IF s.ok THEN Give(s, e) ELSE s

RECURSIVE MoreOperands(_)
MoreOperands(l) ==
    LET r == Assignment(Advance(l))
    IN  IF ~Sees(l, ",") THEN l
        ELSE IF r.ok THEN MoreOperands(Give(r, Binary("comma", l.v, r.v))) ELSE r
ReadExpression(s) == MoreOperands(Assignment(s))

CompoundAssignments ==
    "+=" :> "addassign" @@ "-=" :> "subassign" @@ "*=" :> "mulassign" @@ "/=" :> "divassign"
        @@ "%=" :> "remassign" @@ "&=" :> "andassign" @@ "|=" :> "orassign" @@ "^=" :> "xorassign"
        @@ "<<=" :> "shlassign" @@ ">>=" :> "shrassign"

\* The operators that parse_logical_or and its callees read, level by level.
OperatorLevels ==
    <<"||" :> "or", "&&" :> "and", "|" :> "bitor", "^" :> "bitxor", "&" :> "bitand",
      "==" :> "equal" @@ "!=" :> "unequal",
      "<" :> "less" @@ ">" :> "greater" @@ "<=" :> "lesseq" @@ ">=" :> "greatereq",
      "<<" :> "shl" @@ ">>" :> "shr", "+" :> "plus" @@ "-" :> "minus",
      "*" :> "times" @@ "/" :> "divide" @@ "%" :> "rem">>

RECURSIVE LevelExp(_, _)
RECURSIVE RestOfLevel(_, _)
LevelExp(s, n) ==
    IF n > Len(OperatorLevels) THEN Unary(s) ELSE RestOfLevel(LevelExp(s, n + 1), n)
RestOfLevel(l, n) ==
    LET ops == OperatorLevels[n]
        r == LevelExp(Advance(l), n + 1)
    IN  IF ~SeesAny(l, DOMAIN ops) THEN l
        ELSE IF r.ok THEN RestOfLevel(Give(r, Binary(ops[TextOf(l)], l.v, r.v)), n) ELSE r

ReadConditional(s) ==
    LET c == LevelExp(s, 1)
        q == Advance(c)
        then == IF Sees(q, ":") THEN Give(q, c.v) ELSE Expression(q)
        else == ConditionalExp(Expect(then, ":"))
    IN  IF ~Sees(c, "?") THEN c
        ELSE IF ~then.ok THEN then
        ELSE Made(else, Conditional(c.v, then.v, else.v))

ReadAssignment(s) ==
    LET l == ConditionalExp(s)
        r == Assignment(Advance(l))
    IN  IF Sees(l, "=") THEN Made(r, Operator("assign", <<l.v, r.v>>))
        ELSE IF SeesAny(l, DOMAIN CompoundAssignments)
        THEN Made(r, Operator(CompoundAssignments[TextOf(l)], <<l.v, r.v>>))
        ELSE l

PrefixOperators ==
    "-" :> "negate" @@ "~" :> "complement" @@ "!" :> "not" @@ "++" :> "preinc"
        @@ "--" :> "predec" @@ "*" :> "deref" @@ "&" :> "addrof"

OpensType(s) == Sees(s, "(") /\ IsTypeKeyword(Advance(s))
TypeInParentheses(s) ==
    LET x == TypeName(Advance(s)) IN IF x.ok THEN Give(Expect(x, ")"), x.v) ELSE x

SizeofExp(s) ==
    LET x == TypeInParentheses(s)
        dynamic == VlaSize(x.bound.e, x.v, x.bound.depth)
        init == BraceInitializer(x)
        e == Unary(s)
        sized == InnermostWith(e.v.a, e.sizes)
    IN  IF OpensType(s)
        THEN IF ~x.ok THEN x
             ELSE IF ~Absent(x.bound.e) /\ ~Absent(dynamic)
             THEN Give([x EXCEPT !.bound = NoBound], dynamic)
             ELSE IF Sees(x, "{") THEN Made(init, SizeOf(x.v)) ELSE Give(x, SizeOf(x.v))
        ELSE IF ~e.ok THEN e
        ELSE IF e.v.x = "var" /\ sized # {} THEN Give(e, e.sizes[Max(sized)][e.v.a])
        ELSE Give(e, Operator("sizeof", <<e.v>>))

AlignofExp(s) ==
    LET x == TypeInParentheses(s)
        e == Unary(s)
        of == TypeIn(e.v, e)
    IN  IF OpensType(s) THEN Made(x, AlignOf(x.v))
        ELSE IF ~e.ok \/ of = NoType THEN Bad(e) ELSE Give(e, AlignOf(of))

CastExp(s) ==
    LET x == TypeInParentheses(s)
        init == BraceInitializer(x)
        e == Unary(x)
    IN  IF ~x.ok THEN x
        ELSE IF Sees(x, "{") THEN (IF init.ok THEN PostfixSuffixes(Give(init, Cast(x.v, init.v))) ELSE init)
        ELSE Made(e, Cast(x.v, e.v))

RECURSIVE MoreArguments(_, _)
MoreArguments(s, args) ==
    LET e == Assignment(s)
    IN  IF ~e.ok THEN e
        ELSE IF Sees(e, ",") THEN MoreArguments(Advance(e), Append(args, e.v))
        ELSE Give(Expect(e, ")"), Append(args, e.v))
Arguments(s) == IF Sees(s, ")") THEN Give(Advance(s), <<>>) ELSE MoreArguments(s, <<>>)

\* What a name is followed by is a call of that name: it was read with it.
ReadPostfixSuffixes(s) ==
    LET index == Expression(Advance(s))
        a == Name(Advance(s))
        args == Arguments(Advance(s))
        with(t, e) == IF t.ok THEN PostfixSuffixes(Give(t, e)) ELSE t
    IN  CASE Sees(s, "++") -> PostfixSuffixes(Give(Advance(s), Operator("postinc", <<s.v>>)))
          [] Sees(s, "--") -> PostfixSuffixes(Give(Advance(s), Operator("postdec", <<s.v>>)))
          [] Sees(s, "[") -> with(Expect(index, "]"), Operator("index", <<s.v, index.v>>))
          [] Sees(s, ".") -> with(a, Exp("dot", a.v, 0, <<s.v>>))
          [] Sees(s, "->") -> with(a, Exp("arrow", a.v, 0, <<s.v>>))
          [] Sees(s, "(") /\ s.v.x # "var" -> with(args, Operator("icall", <<s.v>> \o args.v))
          [] OTHER -> s

(* _Generic takes the first association of the control's type.             *)
GenericType(x) == IF x.t = "function" THEN PointerTo(x) ELSE Decayed(x)
NoChoice == [selected |-> NoExp, default |-> NoExp]

ReadAssociations(s, control, chosen) ==
    LET x == TypeName(s)
        byDefault == Sees(s, "default")
        e == Assignment(Expect(IF byDefault THEN Advance(s) ELSE x, ":"))
        matches == ~byDefault /\ Absent(chosen.selected)
                   /\ GenericType(control) = GenericType(x.v)
        more == IF byDefault THEN [chosen EXCEPT !.default = e.v]
                ELSE IF matches THEN [chosen EXCEPT !.selected = e.v] ELSE chosen
    IN  IF ~e.ok \/ (byDefault /\ ~Absent(chosen.default)) THEN Bad(s)
        ELSE IF Sees(e, ",") THEN Associations(Advance(e), control, more)
        ELSE Give(Expect(e, ")"), more)

GenericSelection(s) ==
    LET o == Expect(Advance(s), "(")
        e == Assignment(o)
        t == IF IsTypeKeyword(o) THEN TypeName(o) ELSE e
        x == IF IsTypeKeyword(o) THEN t.v ELSE TypeIn(t.v, t)
        all == Associations(Expect(t, ","), x, NoChoice)
    IN  IF ~t.ok \/ x = NoType THEN Bad(t)
        ELSE IF ~all.ok THEN all
        ELSE IF ~Absent(all.v.selected) THEN Give(all, all.v.selected)
        ELSE IF ~Absent(all.v.default) THEN Give(all, all.v.default)
        ELSE Bad(all)

(* The builtin functions that the parser replaces: the number of arguments *)
(* each takes, and what it stands for.                                     *)
AtomicFence == Operator("fence", <<>>)
Ordered(e) == Binary("comma", AtomicFence, e)
Deref(e) == Operator("deref", <<e>>)
UnsignedLong(n) == Exp("const", "ul", n, <<>>)

BuiltinArity ==
    "__builtin_expect" :> {2} @@ "__builtin_expect_with_probability" :> {3}
        @@ "__builtin_constant_p" :> {1} @@ "__builtin_classify_type" :> {1}
        @@ "__builtin_object_size" :> {2} @@ "__builtin_dynamic_object_size" :> {2}
        @@ "__builtin_assume_aligned" :> {2, 3} @@ "__builtin_prefetch" :> {1, 2, 3}
        @@ "__builtin_va_end" :> {1} @@ "__atomic_thread_fence" :> {1}
        @@ "__atomic_signal_fence" :> {1} @@ "__sync_synchronize" :> {0}

\* With another number of arguments these are calls like any other.
AtomicArity ==
    "__atomic_load_n" :> 2 @@ "__atomic_store_n" :> 3 @@ "__atomic_exchange_n" :> 3
        @@ "__atomic_compare_exchange_n" :> 6 @@ "__sync_bool_compare_and_swap" :> 3
        @@ "__sync_val_compare_and_swap" :> 3 @@ "__builtin_choose_expr" :> 3

\* The checked functions of a fortified library: the plain one and its arguments.
Fortified ==
    "__builtin___memcpy_chk" :> <<"__builtin_memcpy", 3>>
        @@ "__builtin___memset_chk" :> <<"__builtin_memset", 3>>
        @@ "__builtin___strcpy_chk" :> <<"__builtin_strcpy", 2>>
        @@ "__builtin___strncpy_chk" :> <<"__builtin_strncpy", 3>>

FetchNames == <<"add", "sub", "and", "or", "xor", "nand">>
FetchForms(f) ==
    "__atomic_fetch_" \o f :> [f |-> f, old |-> TRUE, arity |-> 3]
        @@ "__atomic_" \o f \o "_fetch" :> [f |-> f, old |-> FALSE, arity |-> 3]
        @@ "__sync_fetch_and_" \o f :> [f |-> f, old |-> TRUE, arity |-> 2]
        @@ "__sync_" \o f \o "_and_fetch" :> [f |-> f, old |-> FALSE, arity |-> 2]
Fetches == FoldLeft(LAMBDA all, f : all @@ FetchForms(f), <<>>, FetchNames)

IsConstant(e, s) == ValueIn(e, s).ok \/ e.x = "string"

Builtin(a, args, s) ==
    LET mode == ValueIn(args[2], s)
        of == TypeIn(args[1], s)
        give(e) == Give(s, e)
    IN  CASE a \in {"__builtin_expect", "__builtin_expect_with_probability"} ->
                give(Operator("expect", args))
          [] a = "__builtin_constant_p" -> give(Const(Truth(IsConstant(args[1], s))))
          [] a = "__builtin_classify_type" ->
                IF of = NoType THEN Bad(s) ELSE give(Const(IF IsFloating(CType(of)) THEN 8 ELSE 1))
          [] a \in {"__builtin_object_size", "__builtin_dynamic_object_size"} ->
                IF ~mode.ok \/ mode.n \notin 0 .. 3 THEN Bad(s)
                ELSE give(UnsignedLong(IF mode.n >= 2 THEN 0 ELSE -1))
          [] a = "__builtin_assume_aligned" ->
                give(FoldRight(LAMBDA e, all : Binary("comma", e, all), Tail(args), args[1]))
          [] a = "__builtin_prefetch" ->
                give(FoldLeft(LAMBDA all, e : Binary("comma", e, all), Const(0), args))
          [] a = "__builtin_va_end" -> give(Binary("comma", args[1], Const(0)))
          [] a \in {"__atomic_thread_fence", "__atomic_signal_fence", "__sync_synchronize"} ->
                give(AtomicFence)

AtomicBuiltin(a, args, s) ==
    LET chosen == ValueIn(args[1], s)
    IN  CASE a = "__atomic_load_n" -> Give(s, Ordered(Deref(args[1])))
          [] a = "__atomic_store_n" ->
                Give(s, Ordered(Operator("assign", <<Deref(args[1]), args[2]>>)))
          [] a = "__atomic_exchange_n" -> Give(s, Operator("exchange", SubSeq(args, 1, 2)))
          [] a = "__atomic_compare_exchange_n" ->
                Give(s, Operator("compareexchange", SubSeq(args, 1, 3)))
          [] a = "__sync_bool_compare_and_swap" -> Give(s, Exp("compareswap", "new", 0, args))
          [] a = "__sync_val_compare_and_swap" -> Give(s, Exp("compareswap", "old", 0, args))
          [] a = "__builtin_choose_expr" ->
                IF ~chosen.ok THEN Bad(s) ELSE Give(s, args[IF chosen.n # 0 THEN 2 ELSE 3])

\* A call: one of the builtin functions, of a function that is declared, or not.
ReadCall(s, a, args) ==
    LET known == ValueType(a, s) # NoType
        n == Len(args)
        fetch == Fetches[a]
    IN  CASE a \in DOMAIN BuiltinArity ->
                IF n \in BuiltinArity[a] THEN Builtin(a, args, s) ELSE Bad(s)
          [] a \in DOMAIN AtomicArity /\ n = AtomicArity[a] -> AtomicBuiltin(a, args, s)
          [] a \in DOMAIN Fortified ->
                IF n > Fortified[a][2]
                THEN Give(s, Exp("call", Fortified[a][1], 0, SubSeq(args, 1, Fortified[a][2])))
                ELSE Bad(s)
          [] a \in DOMAIN Fetches /\ n = fetch.arity ->
                Give(s, Exp("fetch", fetch.f, Truth(fetch.old), SubSeq(args, 1, 2)))
          [] a = "__builtin_unreachable" -> Give(s, Operator("unreachable", <<>>))
          [] OTHER -> Give(s, Exp(IF known THEN "call" ELSE "implicit", a, 0, args))

\* Builtin functions that take types: whether two are compatible, an offset.
RECURSIVE Compatible(_, _)
Compatible(x, y) ==
    /\ x.t = y.t /\ x.c = y.c /\ Len(x.of) = Len(y.of)
    /\ x.t = "function" => x.n = y.n
    /\ x.t = "array" => x.n = y.n \/ 0 \in {x.n, y.n}
    /\ \A i \in DOMAIN x.of : Compatible(x.of[i], y.of[i])

TypesCompatible(s) ==
    LET x == TypeName(s)
        y == TypeName(Expect(x, ","))
    IN  IF ~x.ok THEN x ELSE IF ~y.ok THEN y
        ELSE Give(Expect(y, ")"), Const(Truth(Compatible(x.v, y.v))))

AddOffset(l, r) ==
    IF l = UnsignedLong(0) THEN r ELSE IF r = UnsignedLong(0) THEN l ELSE Binary("plus", l, r)

\* The member of x that is named next.
ReadMemberOf(s, x) ==
    LET a == Name(s)
        fields == s.structs[x.c].fields
        i == SelectInSeq(fields, LAMBDA f : f.a = a.v /\ f.width < 0)
    IN  IF ~a.ok \/ x.t # "struct" \/ x.c \notin DOMAIN s.structs \/ i = 0 THEN Bad(a)
        ELSE Give(a, fields[i])

\* From the type x at offset e, the members and indexes that follow.
ReadDesignation(s, x, e) ==
    LET f == MemberOf(Advance(s), x)
        index == Expression(Advance(s))
        n == ConstantOf(index)
        scaled == Binary("times", index.v, UnsignedLong(Size(Elem(x), s.structs)))
    IN  IF Sees(s, ".")
        THEN IF f.ok THEN Designation(f, f.v.type, AddOffset(e, UnsignedLong(f.v.offset))) ELSE f
        ELSE IF ~Sees(s, "[") THEN Give(s, e)
        ELSE IF ~index.ok \/ (n.ok /\ n.n < 0) \/ x.t # "array" THEN Bad(index)
        ELSE Designation(Expect(index, "]"), Elem(x), AddOffset(e, scaled))

Offsetof(s) ==
    LET x == TypeName(s)
        f == MemberOf(Expect(x, ","), x.v)
        e == Designation(f, f.v.type, UnsignedLong(f.v.offset))
    IN  IF ~x.ok THEN x ELSE IF ~f.ok THEN f
        ELSE IF ~e.ok THEN e ELSE Give(Expect(e, ")"), e.v)

VaArg(s) ==
    LET ap == Assignment(s)
        x == TypeName(Expect(ap, ","))
        call == Exp("vaarg", CType(x.v), 0, <<ap.v>>)
    IN  IF ~ap.ok THEN ap
        ELSE IF ~x.ok \/ x.v = Scalar("void") THEN Bad(x)
        ELSE Give(Expect(x, ")"), IF x.v.t = "pointer" THEN Cast(x.v, call) ELSE call)

NamedCall(s, a) ==
    LET args == Arguments(s)
    IN  CASE a = "__builtin_types_compatible_p" -> TypesCompatible(s)
          [] a = "__builtin_offsetof" -> Offsetof(s)
          [] a = "__builtin_va_arg" -> VaArg(s)
          [] a \notin {"__builtin_types_compatible_p", "__builtin_offsetof", "__builtin_va_arg"} ->
                IF args.ok THEN CallOf(args, a, args.v) ELSE args

\* A statement expression has the value of its last statement, if it has one.
StatementExpression(s) ==
    LET items == ScopedItems(PushScopes(Expect(Expect(s, "("), "{")), <<>>)
        valued == items.v # <<>> /\ Last(items.v).s = "expr"
        e == Last(items.v).e
        x == TypeIn(e, items)
        t == Expect(PopScopes(Expect(items, "}")), ")")
        of(block, args, y) == Operator("stmtexpr", args) @@ [block |-> block, type |-> y]
    IN  IF ~items.ok THEN items
        ELSE IF valued
        THEN IF x = NoType THEN Bad(items) ELSE Give(t, of(Front(items.v), <<e>>, x))
        ELSE Give(t, of(items.v, <<>>, NoType))

\* A literal in any number of parentheses.
Nesting(s) ==
    {n \in 1 .. Len(s.toks) : (\A k \in 0 .. n - 1 : IsText(s, k, "(")) /\ SeesKind(s, n, "num")
                              /\ (\A k \in n + 1 .. 2 * n : IsText(s, k, ")"))}

Literal(t) ==
    LET w == CHOOSE w \in (0 .. LiteralLimit) \X {"", "u", "l", "ul"} : ToString(w[1]) \o w[2] = t
    IN  Exp("const", w[2], w[1], <<>>)

RECURSIVE Concatenated(_, _)
Concatenated(s, t) ==
    IF SeesKind(s, 0, "str") THEN Concatenated(Advance(s), t \o TextOf(s))
    ELSE Give(s, Exp("string", t, Len(t), <<>>))

NameExp(s) ==
    LET a == TextOf(s)
        t == Advance(s)
        unknown == ValueType(a, s) = NoType
    IN  CASE a \in {"__func__", "__FUNCTION__"} -> Give(t, Exp("string", s.fn, Len(s.fn), <<>>))
          [] a \notin {"__func__", "__FUNCTION__"} ->
                IF Sees(t, "(") THEN NamedCall(Advance(t), a)
                ELSE IF EnumConstants(s, a) # {} THEN Give(t, Const(EnumConstant(s, a)))
                ELSE IF unknown /\ a \in {"true", "false"} THEN Give(t, Const(Truth(a = "true")))
                ELSE IF unknown /\ a = "nullptr"
                THEN Give(t, Cast(PointerTo(Scalar("void")), Const(0)))
                ELSE Give(t, Var(a))

Primary(s) ==
    LET label == Name(Advance(s))
        depth == CHOOSE n \in Nesting(s) : TRUE
        group == InParentheses(s)
    IN  CASE Sees(s, "&&") -> Made(label, Exp("labeladdress", label.v, 0, <<>>))
          [] Sees(s, "_Generic") -> GenericSelection(s)
          [] SeesKind(s, 0, "num") -> Give(Advance(s), Literal(TextOf(s)))
          [] SeesKind(s, 0, "str") -> Concatenated(s, "")
          [] SeesName(s) -> NameExp(s)
          [] Sees(s, "(") ->
                IF IsText(s, 1, "{") THEN StatementExpression(s)
                ELSE IF Nesting(s) # {}
                THEN Give([s EXCEPT !.i = @ + 2 * depth + 1], Literal(s.toks[s.i + depth].t))
                ELSE group
          [] OTHER -> Bad(s)

ReadUnary(s) ==
    LET e == Unary(Advance(s))
    IN  CASE Sees(s, "+") -> e
          [] SeesAny(s, DOMAIN PrefixOperators) ->
                Made(e, Operator(PrefixOperators[TextOf(s)], <<e.v>>))
          [] Sees(s, "sizeof") -> SizeofExp(Advance(s))
          [] Sees(s, "_Alignof") -> AlignofExp(Advance(s))
          [] OpensType(s) -> CastExp(s)
          [] ~SeesAny(s, DOMAIN PrefixOperators \cup {"+", "sizeof", "_Alignof"}) /\ ~OpensType(s) ->
                PostfixSuffixes(Primary(s))
----------------------------------------------------------------------------
(* A translation unit: the items that declarations leave, in order.        *)
RECURSIVE ReadProgram(_, _)
ReadProgram(s, items) ==
    LET d == Declaration(s)
        all == items \o d.later \o <<d.v>> \o d.decls
    IN  IF ~HasToken(s, 0) THEN Give(s, items)
        ELSE IF ~d.ok THEN d
        ELSE ReadProgram([d EXCEPT !.later = <<>>, !.decls = <<>>], all)
----------------------------------------------------------------------------
Parse(rule, x, s) ==
    CASE rule = "expression" -> ReadExpression(s)
      [] rule = "assignment" -> ReadAssignment(s)
      [] rule = "conditional" -> ReadConditional(s)
      [] rule = "unary" -> ReadUnary(s)
      [] rule = "suffixes" -> ReadPostfixSuffixes(s)
      [] rule = "call" -> ReadCall(s, x[1], x[2])
      [] rule = "associations" -> ReadAssociations(s, x[1], x[2])
      [] rule = "member of" -> ReadMemberOf(s, x[1])
      [] rule = "designation" -> ReadDesignation(s, x[1], x[2])
      [] rule = "initializer" -> ReadInitializer(s)
      [] rule = "braces" -> ReadBraces(s)
      [] rule = "element" -> ReadInitElement(s)
      [] rule = "inferred" -> InferSize(s, x[1], x[2])
      [] rule = "type name" -> ReadTypeName(s)
      [] rule = "specifiers" -> ReadSpecifiers(s)
      [] rule = "type" -> ReadSimpleType(s)
      [] rule = "enum" -> ReadEnumSpecifier(s)
      [] rule = "typeof" -> ReadTypeofSpecifier(s)
      [] rule = "struct" -> ReadStruct(s)
      [] rule = "members" -> ReadStructBody(s)
      [] rule = "member" -> ReadMemberDeclarator(s, x[1])
      [] rule = "layout" -> ReadLayout(s, x[1], x[2])
      [] rule = "declarator" -> ReadDeclarator(s, x[1])
      [] rule = "abstract declarator" -> ReadAbstractDeclarator(s)
      [] rule = "bound" -> ReadArraySize(s)
      [] rule = "parameters" -> ReadParameters(s)
      [] rule = "parameter" -> ReadOneParameter(s)
      [] rule = "old style" -> ReadWithOldStyle(s, x[1], x[2])
      [] rule = "declaration" -> ReadDeclaration(s)
      [] rule = "declared" -> ReadWithSpecifiers(s, x[1])
      [] rule = "one declared" -> ReadDeclared(s, x[1])
      [] rule = "add declared" -> DeclareOne(s, x[1], x[2], x[3])
      [] rule = "variable" -> ReadVarDecl(s, x[1], x[2], x[3])
      [] rule = "body" -> ReadFunctionBody(s, x[1], x[2])
      [] rule = "block" -> ReadBlock(s)
      [] rule = "items" -> ReadScopedItems(s, x[1])
      [] rule = "item" -> ReadBlockItem(s)
      [] rule = "assertion" -> ReadStaticAssert(s)
      [] rule = "statement" -> ReadStatement(s)
      [] rule = "for" -> ReadForDeclaration(s)
      [] rule = "case" -> ReadCaseValues(s)
      [] rule = "type of" -> TypeOf(x[1], s)
      [] rule = "value of" -> ConstantValue(x[1], s)
      [] rule = "program" -> ReadProgram(s, <<>>)

ParseProgram(toks) == Parse("program", <<>>, NewParser(toks))
============================================================================
