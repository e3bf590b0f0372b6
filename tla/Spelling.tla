------------------------------- MODULE Spelling -------------------------------
(***************************************************************************)
(* C source as the standard's grammar spells it: the tokens of a type, an  *)
(* expression, a statement, a declaration, with the parentheses that they  *)
(* need and no other.  What may be written in more than one way says how:  *)
(* it is an "as", of what is written and what it means.                    *)
(***************************************************************************)
EXTENDS Integers, Sequences, SequencesExt, Statements

\* A token: its kind, its text, and its line in the text it was read from.
Token(k, t) == [k |-> k, t |-> t, ln |-> 1]
Id(a) == Token("id", a)
Punct(p) == Token("punct", p)
Num(n) == Token("num", n)
Str(t) == Token("str", t)

\* The binary operators, those that bind least first.
BinaryLevels ==
    <<[or |-> "||"], [and |-> "&&"], [bitor |-> "|"], [bitxor |-> "^"], [bitand |-> "&"],
      [equal |-> "==", unequal |-> "!="],
      [less |-> "<", lesseq |-> "<=", greater |-> ">", greatereq |-> ">="],
      [shl |-> "<<", shr |-> ">>"], [plus |-> "+", minus |-> "-"],
      [times |-> "*", divide |-> "/", rem |-> "%"]>>

AssignTokens ==
    [assign |-> "=", addassign |-> "+=", subassign |-> "-=", mulassign |-> "*=",
     divassign |-> "/=", remassign |-> "%=", andassign |-> "&=", orassign |-> "|=",
     xorassign |-> "^=", shlassign |-> "<<=", shrassign |-> ">>="]

PrefixTokens ==
    [not |-> "!", negate |-> "-", complement |-> "~", deref |-> "*", addrof |-> "&",
     preinc |-> "++", predec |-> "--"]

PostfixTokens == [postinc |-> "++", postdec |-> "--"]

\* A cast is an operand of most prefix operators, but not of sizeof, ++ and --.
CastLevel == Len(BinaryLevels) + 4
UnaryLevel == CastLevel + 1
PostfixLevel == UnaryLevel + 1

BinaryLevel(x) == CHOOSE i \in DOMAIN BinaryLevels : x \in DOMAIN BinaryLevels[i]
IsBinary(x) == \E i \in DOMAIN BinaryLevels : x \in DOMAIN BinaryLevels[i]

IsLiteralCast(e) == e.x = "cast" /\ e.args[1].x = "init"

\* 1 for the comma, 2 for assignment, 3 for ?:, then the binary operators.
LevelOf(e) ==
    CASE e.x = "comma" -> 1
      [] e.x \in DOMAIN AssignTokens -> 2
      [] e.x = "cond" -> 3
      [] IsBinary(e.x) -> BinaryLevel(e.x) + 3
      [] e.x = "cast" /\ ~IsLiteralCast(e) -> CastLevel
      [] e.x \in DOMAIN PrefixTokens \cup {"sizeof", "sizeoftype", "alignof"} -> UnaryLevel
      [] OTHER -> PostfixLevel

Between(open, s, close) == <<Punct(open)>> \o s \o <<Punct(close)>>
Parenthesized(s) == Between("(", s, ")")

Joined(list, between) ==
    LET from[i \in DOMAIN list] ==
            IF i + 1 \in DOMAIN list THEN list[i] \o between \o from[i + 1] ELSE list[i]
    IN  IF DOMAIN list = {} THEN <<>> ELSE from[1]
InARow(list) == Joined(list, <<>>)
Separated(list) == Joined(list, <<Punct(",")>>)

Word(w) == <<Id(w)>>
Phrase(ws) == [i \in DOMAIN ws |-> Id(ws[i])]
----------------------------------------------------------------------------
(* What is written and what it means.                                      *)
Written(w, m) == Operator("as", <<w, m>>)
Tokens(s) == Operator("tokens", <<>>) @@ [tokens |-> s]
WrittenType(s, x) == [t |-> "as", tokens |-> s, of |-> <<x>>]
\* An array whose bound is an expression, or is left out.
SizedBy(s, x, n) == [t |-> "array", c |-> "", n |-> n, of |-> <<x>>, tokens |-> s]
WrittenItem(w, items) == Stmt("as", "", NoExp, <<w>> \o items)
----------------------------------------------------------------------------
(* Types: specifiers and a declarator, which is written from the inside.   *)
ScalarWords ==
    [void |-> <<"void">>, char |-> <<"char">>, schar |-> <<"signed", "char">>,
     uchar |-> <<"unsigned", "char">>, short |-> <<"short">>, ushort |-> <<"unsigned", "short">>,
     int |-> <<"int">>, uint |-> <<"unsigned", "int">>, long |-> <<"long">>,
     ulong |-> <<"unsigned", "long">>, float |-> <<"float">>, double |-> <<"double">>,
     longdouble |-> <<"long", "double">>, bool |-> <<"_Bool">>]

RECURSIVE Specifier(_)
Specifier(x) ==
    CASE x.t \in {"pointer", "array", "function"} -> Specifier(x.of[1])
      [] x.t = "scalar" -> Phrase(ScalarWords[x.c])
      [] x.t = "struct" -> Phrase(<<"struct", x.c>>)
      [] x.t = "as" -> x.tokens

(* What is spelled is a tree of a kind: an "expression" where one of level *)
(* min or above is expected, an "item" or the "declarator" of one.         *)
RECURSIVE Spelled(_, _, _)
Spell(e, min) == Spelled("expression", e, min)
SpellItem(n) == Spelled("item", n, 0)
DeclaratorOf(n) == Spelled("declarator", n, 0)
SpellItems(items) == InARow([i \in DOMAIN items |-> SpellItem(items[i])])

\* A declarator that begins with a star needs parentheses before [ and (.
RECURSIVE Declare(_, _, _)
ParameterTokens(x, a) == Specifier(x) \o Declare(x, IF a = "" THEN <<>> ELSE Word(a), FALSE)
Parameterized(listed, variadic) ==
    IF listed = <<>> /\ ~variadic THEN Word("void")
    ELSE Separated(listed \o (IF variadic /\ listed # <<>> THEN <<<<Punct("...")>>>> ELSE <<>>))
ParameterList(x, names) ==
    Parenthesized(
        Parameterized([i \in 1 .. Len(x.of) - 1 |->
                          ParameterTokens(x.of[i + 1], IF i \in DOMAIN names THEN names[i] ELSE "")],
                      x.n # 0))

Declare(x, d, starred) ==
    LET inside == IF starred THEN Parenthesized(d) ELSE d
        bound == IF "tokens" \in DOMAIN x THEN x.tokens ELSE <<Num(ToString(x.n))>>
    IN  CASE x.t = "pointer" ->
                Declare(x.of[1], <<Punct("*")>> \o (IF x.c = "" THEN <<>> ELSE Word(x.c)) \o d, TRUE)
          [] x.t = "array" -> Declare(x.of[1], inside \o Between("[", bound, "]"), FALSE)
          [] x.t = "function" -> Declare(x.of[1], inside \o ParameterList(x, <<>>), FALSE)
          [] x.t \in {"scalar", "struct", "as"} -> d

TypeTokens(x) == Specifier(x) \o Declare(x, <<>>, FALSE)
----------------------------------------------------------------------------
(* Expressions.                                                            *)
SpellDesignator(d) ==
    IF d.a # "" THEN <<Punct(".")>> \o Word(d.a)
    ELSE Between("[", IF Len(d.args) = 1 THEN Spell(d.args[1], 1)
                      ELSE Spell(d.args[1], 1) \o <<Punct("...")>> \o Spell(d.args[2], 1), "]")

SpellBare(e) ==
    LET part(i, m) == Spell(e.args[i], m)
        infix(token, l, r) == part(1, l) \o <<Punct(token)>> \o part(2, r)
        leveled(level) == infix(BinaryLevels[level][e.x], level + 3, level + 4)
        from(n) == [i \in 1 .. Len(e.args) - n + 1 |-> part(i + n - 1, 2)]
        named(token) == part(1, PostfixLevel) \o <<Punct(token)>> \o Word(e.a)
        designators == [i \in 1 .. Len(e.args) - 1 |-> SpellDesignator(e.args[i])]
    IN  CASE e.x = "const" -> <<Num(ToString(e.n) \o e.a)>>
          [] e.x = "string" -> <<Str(e.a)>>
          [] e.x = "var" -> Word(e.a)
          [] e.x = "tokens" -> e.tokens
          [] e.x = "defined" -> Word("defined") \o Parenthesized(Word(e.a))
          [] e.x = "assertion" -> <<Punct("#")>> \o Word(e.a) \o e.operand
          [] e.x = "hasinclude" -> Word(e.a) \o Parenthesized(e.operand)
          [] e.x = "comma" -> infix(",", 1, 2)
          [] e.x \in DOMAIN AssignTokens -> infix(AssignTokens[e.x], UnaryLevel, 2)
          [] e.x = "cond" -> part(1, 4) \o Between("?", part(2, 1), ":") \o part(3, 3)
          [] IsBinary(e.x) -> leveled(BinaryLevel(e.x))
          [] e.x \in DOMAIN PrefixTokens ->
                <<Punct(PrefixTokens[e.x])>>
                    \o part(1, IF e.x \in {"preinc", "predec"} THEN UnaryLevel ELSE CastLevel)
          [] e.x \in DOMAIN PostfixTokens ->
                part(1, PostfixLevel) \o <<Punct(PostfixTokens[e.x])>>
          [] e.x = "cast" ->
                Parenthesized(TypeTokens(e.type))
                    \o part(1, IF IsLiteralCast(e) THEN PostfixLevel ELSE CastLevel)
          [] e.x = "sizeof" -> Word("sizeof") \o part(1, UnaryLevel)
          [] e.x = "sizeoftype" -> Word("sizeof") \o Parenthesized(TypeTokens(e.type))
          [] e.x = "alignof" -> Word("_Alignof") \o Parenthesized(TypeTokens(e.type))
          [] e.x = "call" -> Word(e.a) \o Parenthesized(Separated(from(1)))
          [] e.x = "icall" -> part(1, PostfixLevel) \o Parenthesized(Separated(from(2)))
          [] e.x = "index" -> part(1, PostfixLevel) \o Between("[", part(2, 1), "]")
          [] e.x = "dot" -> named(".")
          [] e.x = "arrow" -> named("->")
          [] e.x = "init" -> Between("{", Separated(from(1)), "}")
          [] e.x = "designated" ->
                InARow(designators) \o <<Punct("=")>> \o part(Len(e.args), 2)
          [] e.x = "labeladdress" -> <<Punct("&&")>> \o Word(e.a)
          [] e.x = "stmtexpr" ->
                Parenthesized(Between("{", SpellItems(e.block)
                    \o (IF e.args = <<>> THEN <<>> ELSE part(1, 1) \o <<Punct(";")>>), "}"))

Enclosed(s, needed) == IF needed THEN Parenthesized(s) ELSE s
SpellExp(e, min) ==
    IF e.x = "as" THEN Spell(e.args[1], min) ELSE Enclosed(SpellBare(e), LevelOf(e) < min)
----------------------------------------------------------------------------
(* Statements and declarations.                                            *)
Semicolon == <<Punct(";")>>
OptionalExp(e) == IF Absent(e) THEN <<>> ELSE Spell(e, 1)
Condition(e) == Parenthesized(Spell(e, 1))
WithInitializer(e) == IF Absent(e) THEN <<>> ELSE <<Punct("=")>> \o Spell(e, 2)
Storage(n) == IF n.sc = "" THEN <<>> ELSE Word(n.sc)

\* A declarator of the declaration n, without its specifiers.
SpellDeclarator(n) ==
    CASE n.s \in {"var", "typedef"} -> Declare(n.type, Word(n.a), FALSE) \o WithInitializer(n.e)
      [] n.s = "function" ->
            Declare(n.type.of[1], Word(n.a) \o ParameterList(n.type, n.names), FALSE)

SpellMember(m) ==
    Specifier(m.type) \o Declare(m.type, IF m.a = "" THEN <<>> ELSE Word(m.a), FALSE)
        \o (IF m.width < 0 THEN <<>> ELSE <<Punct(":"), Num(ToString(m.width))>>) \o Semicolon

Enumerator(c) == Word(c.a) \o WithInitializer(c.e)

SpellDeclaration(n) ==
    LET first == n.kids[1]
        storage == IF first.s = "typedef" THEN Word("typedef") ELSE Storage(first)
    IN  CASE n.s = "local" -> Word("int") \o Word(n.a) \o WithInitializer(n.e) \o Semicolon
          [] n.s = "static" ->
                Phrase(<<"static", "int">>) \o Word(n.a) \o WithInitializer(n.e) \o Semicolon
          [] n.s = "var" -> Storage(n) \o Specifier(n.type) \o DeclaratorOf(n) \o Semicolon
          [] n.s = "typedef" ->
                Word("typedef") \o Specifier(n.type) \o DeclaratorOf(n) \o Semicolon
          [] n.s = "group" ->
                storage \o Specifier(first.type)
                    \o Separated([i \in DOMAIN n.kids |-> DeclaratorOf(n.kids[i])]) \o Semicolon
          [] n.s = "function" ->
                Storage(n) \o Specifier(n.type) \o DeclaratorOf(n)
                    \o (IF n.kids = <<>> THEN Semicolon ELSE SpellItem(first))
          [] n.s = "struct" ->
                Word(IF n.union THEN "union" ELSE "struct") \o Word(n.a)
                    \o Between("{", InARow([i \in DOMAIN n.members |-> SpellMember(n.members[i])]), "}")
                    \o Semicolon
          [] n.s = "enum" ->
                Word("enum") \o Word(n.a)
                    \o Between("{", Separated([i \in DOMAIN n.constants |-> Enumerator(n.constants[i])]), "}")
                    \o Semicolon
          [] n.s = "assert" ->
                Word("_Static_assert") \o Parenthesized(Spell(n.e, 2)) \o Semicolon

SpellStatement(n) ==
    LET kid(i) == SpellItem(n.kids[i])
        range == [i \in DOMAIN n.range |-> <<Num(ToString(n.range[i]))>>]
        init == IF n.kids[1].s = "null" THEN Semicolon ELSE kid(1)
    IN  CASE n.s = "expr" -> Spell(n.e, 1) \o Semicolon
          [] n.s = "null" -> Semicolon
          [] n.s = "return" -> Word("return") \o OptionalExp(n.e) \o Semicolon
          [] n.s = "if" ->
                Word("if") \o Condition(n.e) \o kid(1)
                    \o (IF Len(n.kids) = 2 THEN Word("else") \o kid(2) ELSE <<>>)
          [] n.s = "while" -> Word("while") \o Condition(n.e) \o kid(1)
          [] n.s = "do" -> Word("do") \o kid(1) \o Word("while") \o Condition(n.e) \o Semicolon
          [] n.s = "for" ->
                Word("for") \o Parenthesized(init \o OptionalExp(n.e) \o Semicolon \o OptionalExp(n.post)) \o kid(2)
          [] n.s \in {"break", "continue"} -> Word(n.s) \o Semicolon
          [] n.s = "goto" ->
                Word("goto")
                    \o (IF n.a = "*" THEN <<Punct("*")>> \o Spell(n.e, 1) ELSE Word(n.a)) \o Semicolon
          [] n.s = "label" -> Word(n.a) \o <<Punct(":")>> \o kid(1)
          [] n.s = "switch" -> Word("switch") \o Condition(n.e) \o kid(1)
          [] n.s = "case" ->
                Word("case") \o range[1]
                    \o (IF Len(range) = 2 THEN <<Punct("...")>> \o range[2] ELSE <<>>)
                    \o <<Punct(":")>> \o kid(1)
          [] n.s = "default" -> Word("default") \o <<Punct(":")>> \o kid(1)
          [] n.s = "block" -> Between("{", SpellItems(n.kids), "}")

SpellWhole(n) ==
    IF n.s = "as" THEN SpellItem(n.kids[1])
    ELSE IF n.s = "tokens" THEN n.tokens
    ELSE IF n.s \in {"local", "static", "var", "typedef", "group", "function", "struct", "enum",
                     "assert"}
    THEN SpellDeclaration(n)
    ELSE SpellStatement(n)

Spelled(kind, x, min) ==
    CASE kind = "expression" -> SpellExp(x, min)
      [] kind = "declarator" -> SpellDeclarator(x)
      [] kind = "item" -> SpellWhole(x)
============================================================================
