--------------------------------- MODULE Types ---------------------------------
(***************************************************************************)
(* The types of C (src/types.rs) and what the parser works out about them  *)
(* while it reads (src/parse/mod.rs): the layout of structures and unions, *)
(* the type of an expression, and the value of a constant expression.      *)
(***************************************************************************)
EXTENDS Statements, SequencesExt, FiniteSetsExt

CONSTANT ByteBits     \* the bits in a byte, 8 in the code

Type(t, c, n, of) == [t |-> t, c |-> c, n |-> n, of |-> of]
NoType == Type("none", "", 0, <<>>)
Scalar(c) == Type("scalar", c, 0, <<>>)
PointerTo(x) == Type("pointer", "", 0, <<x>>)
ArrayOf(x, n) == Type("array", "", n, <<x>>)
FunctionOf(result, params, variadic) ==
    Type("function", "", Truth(variadic), <<result>> \o params)
StructOf(tag) == Type("struct", tag, 0, <<>>)

Elem(x) == x.of[1]
IntType == Scalar("int")

\* How the code generator sees the type.
CType(x) ==
    CASE x.t = "scalar" -> x.c
      [] x.t = "struct" -> "struct"
      [] OTHER -> "pointer"
Decayed(x) == IF x.t = "array" THEN PointerTo(Elem(x)) ELSE x
----------------------------------------------------------------------------
(* Sizes, in bytes.                                                        *)
SizeOfScalar(c) ==
    CASE c \in {"void", "struct"} -> 0
      [] c \in {"char", "schar", "uchar", "bool"} -> 1
      [] c \in {"short", "ushort"} -> 2
      [] c \in {"int", "uint", "float"} -> 4
      [] c \in {"long", "ulong", "double", "pointer"} -> 8
      [] c \in {"int128", "uint128", "longdouble"} -> 16

IsSigned(c) == c \in {"char", "schar", "short", "int", "long", "int128"}
IsSmall(c) == c \in {"char", "schar", "uchar", "short", "ushort", "bool"}
IsFloating(c) == c \in {"float", "double", "longdouble"}
IsIntegral(c) == ~IsFloating(c) /\ c \notin {"void", "pointer", "struct"}

Promoted(c) == IF IsSmall(c) THEN "int" ELSE c

\* The usual arithmetic conversions; the first of these that either type is.
Favoured == <<"longdouble", "double", "float", "pointer">>
Common(c, d) ==
    LET a == Promoted(c)
        b == Promoted(d)
        first == {i \in DOMAIN Favoured : Favoured[i] \in {a, b}}
    IN  IF first # {} THEN Favoured[Min(first)]
        ELSE IF SizeOfScalar(a) = SizeOfScalar(b) THEN (IF IsSigned(a) THEN b ELSE a)
        ELSE IF SizeOfScalar(a) > SizeOfScalar(b) THEN a ELSE b

\* What stands for the bound of an array that is not constant, and counts as 16.
VlaMark == 9999
Scale(n) == IF n = VlaMark THEN 16 ELSE n

(* defs: the structures and unions that are complete, by their tags.       *)
RECURSIVE Size(_, _)
Size(x, defs) ==
    CASE x.t = "struct" -> IF x.c \in DOMAIN defs THEN defs[x.c].size ELSE 0
      [] x.t = "array" -> Size(Elem(x), defs) * Scale(x.n)
      [] x.t = "scalar" -> Max({SizeOfScalar(x.c), 1})
      [] OTHER -> 8

RECURSIVE Alignment(_, _)
Alignment(x, defs) ==
    CASE x.t = "struct" -> IF x.c \in DOMAIN defs THEN defs[x.c].align ELSE 1
      [] x.t = "array" -> Alignment(Elem(x), defs)
      [] OTHER -> Size(x, defs)

RECURSIVE IsComplete(_, _)
IsComplete(x, defs) ==
    CASE x.t = "struct" -> x.c \in DOMAIN defs
      [] x.t = "array" -> IsComplete(Elem(x), defs)
      [] OTHER -> TRUE

\* Whether the size depends on a bound that is not constant.
RECURSIVE IsVariable(_, _)
IsVariable(x, defs) ==
    CASE x.t = "array" -> x.n = VlaMark \/ IsVariable(Elem(x), defs)
      [] x.t = "struct" /\ x.c \in DOMAIN defs ->
            \E i \in DOMAIN defs[x.c].fields : IsVariable(defs[x.c].fields[i].type, defs)
      [] OTHER -> FALSE
----------------------------------------------------------------------------
(* The layout of members one after the other.  A member is [a, type,       *)
(* width], the width "-1" for what is no bit-field, the name "" for an     *)
(* anonymous structure, whose members are then members of the outer one.   *)
Member(a, x, width) == [a |-> a, type |-> x, width |-> width]
Field(a, x, width, offset, bit) ==
    [a |-> a, type |-> x, width |-> width, offset |-> offset, bit |-> bit]

RoundUp(n, align) == ((n + align - 1) \div align) * align
Bytes(bits) == (bits + ByteBits - 1) \div ByteBits

\* unit: the storage unit that bit-fields are being put into, and its bits in use.
NoUnit == [offset |-> 0, size |-> 0, used |-> 0]
Blank == [fields |-> <<>>, end |-> 0, align |-> 1, unit |-> NoUnit, bad |-> FALSE]

Stricter(l, align) == [l EXCEPT !.align = Max({@, align})]
AddField(l, f) == IF f.a = "" THEN l ELSE [l EXCEPT !.fields = Append(@, f)]

\* A small bit-field of a long takes an int.
StorageSize(m) ==
    LET size == SizeOfScalar(m.type.c)
    IN  IF size > 4 /\ m.width <= 4 * ByteBits THEN 4 ELSE size

\* A unit of another size, or that is full, is followed by one that is empty.
WithUnit(l, size, width) ==
    LET start == RoundUp(l.end, size)
    IN  IF l.unit.size = size /\ l.unit.used + width <= size * ByteBits THEN l
        ELSE [l EXCEPT !.unit = [offset |-> start, size |-> size, used |-> 0], !.end = start + size]

PutBits(l, m) ==
    [AddField(l, Field(m.a, m.type, m.width, l.unit.offset, l.unit.used))
        EXCEPT !.unit.used = @ + m.width]

BitField(l, m, union) ==
    LET size == StorageSize(m)
    IN  CASE m.width > SizeOfScalar(m.type.c) * ByteBits -> [l EXCEPT !.bad = TRUE]
          [] m.width = 0 /\ m.a # "" -> [l EXCEPT !.bad = TRUE]
          [] m.width = 0 /\ m.a = "" ->
                Stricter([l EXCEPT !.end = IF union THEN @ ELSE RoundUp(@, size),
                                   !.unit = NoUnit],
                         SizeOfScalar(m.type.c))
          [] m.width \in 1 .. SizeOfScalar(m.type.c) * ByteBits /\ union ->
                Stricter(AddField([l EXCEPT !.end = Max({@, size})],
                                  Field(m.a, m.type, m.width, 0, 0)), size)
          [] m.width \in 1 .. SizeOfScalar(m.type.c) * ByteBits /\ ~union ->
                Stricter(PutBits(WithUnit(l, size, m.width), m), size)

\* What follows a bit-field may take the rest of its storage unit.
AfterBits(l) ==
    IF l.unit.used = 0 THEN [l EXCEPT !.unit = NoUnit]
    ELSE [l EXCEPT !.end = l.unit.offset + Bytes(l.unit.used), !.unit = NoUnit]

PutPlain(past, m, union, defs) ==
    LET align == Alignment(m.type, defs)
        offset == IF union THEN 0 ELSE RoundUp(past.end, align)
        inside == IF m.type.t = "struct" THEN defs[m.type.c].fields ELSE <<>>
        fields == IF m.a # "" THEN <<Field(m.a, m.type, -1, offset, 0)>>
                  ELSE [i \in DOMAIN inside |-> [inside[i] EXCEPT !.offset = @ + offset]]
        end == offset + Size(m.type, defs)
    IN  Stricter([past EXCEPT !.fields = @ \o fields, !.end = IF union THEN Max({@, end}) ELSE end],
                 align)
Plain(l, m, union, defs) == PutPlain(AfterBits(l), m, union, defs)

Place(l, m, union, defs) ==
    IF l.bad \/ ~IsComplete(m.type, defs) THEN [l EXCEPT !.bad = TRUE]
    ELSE IF m.width < 0 THEN Plain(l, m, union, defs)
    ELSE IF m.type.t # "scalar" \/ ~IsIntegral(m.type.c) THEN [l EXCEPT !.bad = TRUE]
    ELSE BitField(l, m, union)

LaidOut(l, union) ==
    [fields |-> l.fields, size |-> RoundUp(l.end, l.align), align |-> l.align,
     union |-> union, bad |-> l.bad]
LayOut(members, union, defs) ==
    LaidOut(FoldLeft(LAMBDA l, m : Place(l, m, union, defs), Blank, members), union)

FieldNamed(def, a) == SelectInSeq(def.fields, LAMBDA f : f.a = a)
FieldType(x, a, defs) ==
    IF x.t # "struct" \/ x.c \notin DOMAIN defs THEN NoType
    ELSE LET i == FieldNamed(defs[x.c], a)
         IN  IF i = 0 THEN NoType ELSE defs[x.c].fields[i].type
----------------------------------------------------------------------------
(* Values in scope: s.val is a sequence of functions from names to types,  *)
(* the innermost last; s.structs holds the definitions.                    *)
InnermostWith(a, scopes) == {i \in DOMAIN scopes : a \in DOMAIN scopes[i]}

\* An array declared again without its size has the size it had.
Resized(a, x, scopes, n) ==
    LET sized == {i \in 1 .. n : a \in DOMAIN scopes[i] /\ scopes[i][a].t = "array"
                                 /\ scopes[i][a].n > 0 /\ Elem(scopes[i][a]) = Elem(x)}
    IN  IF x.t = "array" /\ x.n = 0 /\ sized # {} THEN scopes[Max(sized)][a] ELSE x

ValueType(a, s) ==
    LET where == InnermostWith(a, s.val)
    IN  IF where = {} THEN NoType
        ELSE Resized(a, s.val[Max(where)][a], s.val, Max(where) - 1)

Returned(x) ==
    CASE x.t = "function" -> Elem(x)
      [] x.t = "pointer" /\ Elem(x).t = "function" -> Elem(Elem(x))
      [] OTHER -> NoType

TruthOperators == {"and", "or", "equal", "unequal", "less", "greater", "lesseq", "greatereq"}
ShiftOperators == {"shl", "shr"}
BinaryOperators ==
    TruthOperators \cup ShiftOperators
        \cup {"plus", "minus", "times", "divide", "rem", "bitand", "bitor", "bitxor"}

AssignOperators ==
    {"assign", "addassign", "subassign", "mulassign", "divassign", "remassign", "andassign",
     "orassign", "xorassign", "shlassign", "shrassign"}

\* What a constant's suffix says.
ConstantType(a) ==
    Scalar(CASE a = "" -> "int" [] a = "l" -> "long" [] a = "u" -> "uint" [] a = "ul" -> "ulong")

SumType(op, l, r) ==
    CASE l.t = "pointer" /\ r.t = "pointer" -> Scalar("long")
      [] l.t = "pointer" /\ r.t # "pointer" -> l
      [] l.t # "pointer" /\ r.t = "pointer" /\ op = "plus" -> r
      [] OTHER -> Scalar(Common(CType(l), CType(r)))

\* typeof_expression; NoType is its error.
RECURSIVE TypeOf(_, _)
TypeOf(e, s) ==
    LET of(i) == TypeOf(e.args[i], s)
        promoted(x) == IF x.t = "scalar" THEN Scalar(Promoted(x.c)) ELSE x
        known(x, y) == IF NoType \in {x, of(1)} THEN NoType ELSE y
        pointee(x) == IF x.t \in {"pointer", "array"} THEN Elem(x) ELSE NoType
        called == ValueType(e.a, s)
    IN  CASE e.x = "const" -> ConstantType(e.a)
          [] e.x = "string" -> ArrayOf(Scalar("char"), e.n + 1)
          [] e.x = "var" -> ValueType(e.a, s)
          [] e.x \in {"cast", "compound"} -> e.type
          [] e.x = "addrof" -> IF of(1) = NoType THEN NoType ELSE PointerTo(of(1))
          [] e.x \in {"deref", "index"} -> pointee(of(1))
          [] e.x = "dot" -> FieldType(of(1), e.a, s.structs)
          [] e.x = "arrow" -> FieldType(pointee(of(1)), e.a, s.structs)
          [] e.x \in {"not"} \cup TruthOperators -> IntType
          [] e.x \in {"negate", "complement"} -> promoted(of(1))
          [] e.x \in {"preinc", "predec", "postinc", "postdec"} \cup AssignOperators -> of(1)
          [] e.x \in ShiftOperators -> known(of(2), promoted(of(1)))
          [] e.x \in {"plus", "minus"} -> known(of(2), SumType(e.x, of(1), of(2)))
          [] e.x \in BinaryOperators \ (TruthOperators \cup ShiftOperators \cup {"plus", "minus"}) ->
                known(of(2), Scalar(Common(CType(of(1)), CType(of(2)))))
          [] e.x = "cond" ->
                IF NoType \in {of(2), of(3)} THEN NoType
                ELSE IF of(2) = of(3) THEN of(2)
                ELSE Scalar(Common(CType(of(2)), CType(of(3))))
          [] e.x = "comma" -> of(2)
          [] e.x = "stmtexpr" -> IF e.type = NoType THEN Scalar("void") ELSE e.type
          [] e.x = "call" ->
                IF called = NoType THEN IntType
                ELSE IF called.t \in {"function", "pointer"} THEN Returned(called)
                ELSE called
          [] e.x = "icall" -> Returned(Decayed(of(1)))
          [] e.x \in {"sizeof", "sizeoftype", "alignof"} -> Scalar("ulong")
          [] OTHER -> NoType
----------------------------------------------------------------------------
(* Constant expressions: a value of a long and whether it is unsigned.     *)
Known(n, u) == [ok |-> TRUE, n |-> n, u |-> u]
NotConstant == [ok |-> FALSE, n |-> 0, u |-> FALSE]

Low(n, bits) == n % 2 ^ bits
Wrapped(n, bits) == LET m == Low(n, bits) IN IF m >= 2 ^ (bits - 1) THEN m - 2 ^ bits ELSE m
LongBits == 8 * ByteBits
LeastLong == -(2 ^ (LongBits - 1))
ScalarBits(c) == SizeOfScalar(c) * ByteBits
IsUnsigned(c) == c \in {"bool", "uchar", "ushort", "uint", "ulong", "uint128"}

ConstantCast(v, c) ==
    Known(CASE c = "bool" -> Truth(v.n # 0)
            [] c \in {"char", "schar", "short", "int"} -> Wrapped(v.n, ScalarBits(c))
            [] c \in {"uchar", "ushort", "uint"} -> Low(v.n, ScalarBits(c))
            [] OTHER -> v.n,
          IsUnsigned(c))

TowardsZero(a, b) ==
    LET abs(n) == IF n < 0 THEN -n ELSE n
        q == abs(a) \div abs(b)
    IN  IF (a < 0) = (b < 0) THEN q ELSE -q

ByBits(f(_, _), a, b) ==
    FoldLeft(LAMBDA sum, i : sum + f((a \div 2 ^ (i - 1)) % 2, (b \div 2 ^ (i - 1)) % 2)
                                   * 2 ^ (i - 1),
             0, [i \in 1 .. LongBits |-> i])

\* An operator on two numbers, exactly.
Exactly(op, l, r) ==
    CASE op = "plus" -> l + r
      [] op = "minus" -> l - r
      [] op = "times" -> l * r
      [] op = "divide" -> TowardsZero(l, r)
      [] op = "rem" -> l - TowardsZero(l, r) * r
      [] op = "bitand" -> ByBits(LAMBDA x, y : x * y, l, r)
      [] op = "bitor" -> ByBits(LAMBDA x, y : x + y - x * y, l, r)
      [] op = "bitxor" -> ByBits(LAMBDA x, y : (x + y) % 2, l, r)
      [] op = "shl" -> l * 2 ^ r
      [] op = "shr" -> l \div 2 ^ r
      [] op = "and" -> Truth(l # 0 /\ r # 0)
      [] op = "or" -> Truth(l # 0 \/ r # 0)
      [] op = "equal" -> Truth(l = r)
      [] op = "unequal" -> Truth(l # r)
      [] op = "less" -> Truth(l < r)
      [] op = "greater" -> Truth(l > r)
      [] op = "lesseq" -> Truth(l <= r)
      [] op = "greatereq" -> Truth(l >= r)

ConstantSize(x, u, defs) ==
    IF x = NoType \/ IsVariable(x, defs) THEN NotConstant ELSE Known(Size(x, defs), u)

OperandType(op, l, r) ==
    CASE NoType \in {l, r} -> ""
      [] NoType \notin {l, r} /\ op \in ShiftOperators -> Promoted(CType(l))
      [] NoType \notin {l, r} /\ op \notin ShiftOperators -> Common(CType(l), CType(r))

\* An operator on two constants, its operands converted to the type c if they have one.
Combined(op, l, r, c) ==
    LET unsigned == (c # "" /\ ~IsSigned(c)) \/ l.u \/ r.u
        bits == IF c # "" /\ SizeOfScalar(c) <= 4 THEN 4 * ByteBits ELSE LongBits
        result == Exactly(op, Low(l.n, bits), Low(r.n, bits))
    IN  IF \/ op \in {"divide", "rem"} /\ r.n = 0
           \/ op \in ShiftOperators /\ r.n \notin 0 .. LongBits - 1
           \/ ~unsigned /\ op \in {"divide", "rem"} /\ l.n = LeastLong /\ r.n = -1
        THEN NotConstant
        ELSE IF unsigned
        THEN Known(IF bits < LongBits THEN Low(result, bits) ELSE Wrapped(result, bits),
                   op \notin TruthOperators)
        ELSE Known(Wrapped(Exactly(op, l.n, r.n), LongBits), FALSE)

LongIfNone(x) == IF x = NoType THEN "long" ELSE CType(x)

RECURSIVE ConstantValue(_, _)
ConstantValue(e, s) ==
    LET value(i) == ConstantValue(e.args[i], s)
        of(i) == TypeOf(e.args[i], s)
        l == value(1)
        r == value(2)
    IN  CASE e.x = "const" -> Known(e.n, FALSE)
          [] e.x = "sizeoftype" -> ConstantSize(e.type, FALSE, s.structs)
          [] e.x = "alignof" -> Known(Alignment(e.type, s.structs), FALSE)
          [] e.x = "sizeof" -> ConstantSize(of(1), TRUE, s.structs)
          [] e.x = "cast" -> IF l.ok THEN ConstantCast(l, CType(e.type)) ELSE NotConstant
          [] e.x = "negate" ->
                IF l.ok /\ (l.u \/ l.n # LeastLong) THEN Known(Wrapped(-l.n, LongBits), l.u)
                ELSE NotConstant
          [] e.x = "complement" ->
                IF ~l.ok THEN NotConstant
                ELSE ConstantCast([l EXCEPT !.n = -l.n - 1], LongIfNone(TypeOf(e, s)))
          [] e.x = "not" -> IF l.ok THEN Known(Truth(l.n = 0), FALSE) ELSE NotConstant
          [] e.x \in BinaryOperators ->
                IF ~l.ok THEN NotConstant
                ELSE IF (e.x = "and" /\ l.n = 0) \/ (e.x = "or" /\ l.n # 0)
                THEN Known(Truth(l.n # 0), FALSE)
                ELSE IF ~r.ok THEN NotConstant
                ELSE Combined(e.x, l, r, OperandType(e.x, of(1), of(2)))
          [] e.x = "cond" ->
                IF ~l.ok THEN NotConstant ELSE IF l.n # 0 THEN r ELSE value(3)
          [] OTHER -> NotConstant
============================================================================
