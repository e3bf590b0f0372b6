------------------------------- MODULE Calls -------------------------------
(***************************************************************************)
(* One call, from the arguments of the caller to its result.  The          *)
(* generator takes aggregates apart, on the caller's side (lower_expr.rs)  *)
(* and again on the callee's (lower_init.rs).  The backend then decides    *)
(* twice where each part goes: when it converts the call and when it       *)
(* converts the function called.  Nothing but the two decisions being the  *)
(* same brings an argument to its parameter.                               *)
(***************************************************************************)
EXTENDS Integers, Sequences, FiniteSets, SequencesExt, FiniteSetsExt, TLC

----------------------------------------------------------------------------
(* What a call passes: the types of parameters, how a structure or union   *)
(* is laid out (StructDef::from_members_ex) and which registers each of    *)
(* its eightbytes asks for (StructDef::classify_with).  The System V ABI   *)
(* is described a second time, from the sizes and offsets alone, to        *)
(* compare x86-64 calls with.                                              *)
Greater(a, b) == IF a > b THEN a ELSE b
Lesser(a, b) == IF a < b THEN a ELSE b
round_up_to(value, alignment) == ((value + alignment - 1) \div alignment) * alignment
Eightbytes(size) == (size + 7) \div 8
----------------------------------------------------------------------------
(* The type of a member: its size and alignment in bytes, the scalars in   *)
(* it by their offsets, and how it is classified where that is decided by  *)
(* its own definition (a structure or a union).                            *)
Scalar(name, size) ==
    [size |-> size, align |-> size, fields |-> {<<0, name, size>>}, unaligned |-> FALSE,
     aggregate |-> FALSE, classes |-> <<>>]
ArrayOf(elem, count) ==
    [elem EXCEPT !.size = elem.size * count, !.aggregate = FALSE,
                 !.fields = {<<f[1] + elem.size * i, f[2], f[3]>> : f \in elem.fields, i \in 0 .. count - 1}]

abi_field_class(name) == IF name \in {"float", "double"} THEN "sse" ELSE "integer"

\* The members with their offsets, the bytes they take and the strictest alignment.
LayOut(members, union, packed, aligned) ==
    FoldLeft(LAMBDA l, m :
                LET align == IF packed THEN 1 ELSE m.align
                    offset == IF union THEN 0 ELSE round_up_to(l.end, align)
                IN  [members |-> Append(l.members, [offset |-> offset, type |-> m]),
                     end |-> Greater(l.end, offset + m.size), align |-> Greater(l.align, align)],
             [members |-> <<>>, end |-> 0, align |-> aligned], members)

flatten_member_fields(m) == {<<m.offset + f[1], f[2], f[3]>> : f \in m.type.fields}
flatten_fields(laid) == UNION {flatten_member_fields(laid[i]) : i \in DOMAIN laid}

has_unaligned_fields(laid) ==
    \E i \in DOMAIN laid : laid[i].offset % laid[i].type.align # 0 \/ laid[i].type.unaligned

\* (Mutant: the other way round.)
merge_to_sse(classes) == IF "sse" \in classes THEN "sse" ELSE "integer"

\* Of the classes that meet in an eightbyte an integer wins; padding is an integer.
merge_param_class(classes) ==
    IF classes = {"sse"} THEN "sse" ELSE "integer"

EightbyteClass(fields, k) ==
    merge_param_class({abi_field_class(f[2]) : f \in {g \in fields : g[1] \div 8 = k - 1}})

ClassifyStruct(laid, size) ==
    [k \in 1 .. Eightbytes(size) |-> EightbyteClass(flatten_fields(laid), k)]

\* The classes that a member of a union would have by itself.
MemberClasses(m) ==
    IF m.type.aggregate THEN m.type.classes
    ELSE [k \in 1 .. Eightbytes(m.type.size) |-> EightbyteClass(flatten_member_fields(m), k)]

ClassifyUnion(laid, size) ==
    [k \in 1 .. Eightbytes(size) |->
        merge_param_class({MemberClasses(laid[i])[k] :
                              i \in {j \in DOMAIN laid : k <= Len(MemberClasses(laid[j]))}})]

classify_with(laid, union, size) ==
    IF size > 16 \/ has_unaligned_fields(laid) THEN <<"memory">>
    ELSE IF union THEN ClassifyUnion(laid, size) ELSE ClassifyStruct(laid, size)

\* A structure or union of these members; aligned is 1 unless it is declared with more.
Aggregate(members, union, packed, aligned) ==
    LET l == LayOut(members, union, packed, aligned)
        size == round_up_to(l.end, l.align)
    IN  [size |-> size, align |-> l.align, fields |-> flatten_fields(l.members),
         unaligned |-> has_unaligned_fields(l.members), aggregate |-> TRUE,
         classes |-> classify_with(l.members, union, size)]
----------------------------------------------------------------------------
(* The type of a parameter: "int" (and every narrower integer and pointer),*)
(* "flt" (float and double), "ld" (long double), "i128", a "complex" of    *)
(* two of those, a "struct" (or union), a "vector".                        *)
NoDef == Scalar("none", 8)
Of(kind) == [kind |-> kind, elem |-> "none", def |-> NoDef]
ComplexOf(elem) == [kind |-> "complex", elem |-> elem, def |-> NoDef]
StructOf(def) == [kind |-> "struct", elem |-> "none", def |-> def]
VectorOf(bytes) == [kind |-> "vector", elem |-> "none", def |-> Scalar("vector", bytes)]

InMemory(t) == t.kind = "struct" /\ t.def.classes = <<"memory">>
vector_requires_memory_abi(t) == t.kind = "vector" /\ t.def.size > 16

\* The value of parameter (or result) i, in the pieces that are passed apart.
PieceCount(t) ==
    CASE t.kind \in {"struct", "vector"} -> Eightbytes(t.def.size)
      [] t.kind \in {"i128", "complex"} -> 2
      [] OTHER -> 1
Pieces(i, t) == [n \in 1 .. PieceCount(t) |-> <<i, n>>]

return_requires_hidden_pointer(t) ==
    InMemory(t) \/ t.kind = "complex" \/ vector_requires_memory_abi(t)
----------------------------------------------------------------------------
(* The System V ABI: a parameter has a class for each of its eightbytes,   *)
(* or none if it lives in memory.                                          *)
SystemVStruct(def) ==
    LET InEightbyte(k) == {f \in def.fields : f[1] < 8 * k /\ f[1] + f[3] > 8 * (k - 1)}
    IN  IF \/ def.size > 16
           \/ \E f \in def.fields : f[1] % f[3] # 0 \/ f[2] = "long double"
        THEN <<>>
        ELSE [k \in 1 .. Eightbytes(def.size) |->
                 IF \A f \in InEightbyte(k) : f[2] \in {"float", "double"}
                 THEN "sse" ELSE "integer"]

SystemVClasses(t) ==
    CASE t.kind = "int" -> <<"integer">>
      [] t.kind = "flt" -> <<"sse">>
      [] t.kind = "i128" -> <<"integer", "integer">>
      [] t.kind = "complex" /\ t.elem = "flt" -> <<"sse", "sse">>
      [] t.kind = "complex" /\ t.elem = "int" -> <<"integer", "integer">>
      [] t.kind = "struct" -> SystemVStruct(t.def)
      [] OTHER -> <<>>

\* The room and the alignment of a parameter on the stack.
SystemVSize(t) ==
    CASE t.kind \in {"struct", "vector"} -> 8 * Eightbytes(t.def.size)
      [] t.kind \in {"ld", "i128"} -> 16
      [] t.kind = "complex" -> IF t.elem = "ld" THEN 32 ELSE 16
      [] OTHER -> 8
SystemVAlign(t) ==
    CASE t.kind \in {"struct", "vector"} -> IF t.def.align >= 16 THEN 16 ELSE 8
      [] t.kind \in {"ld", "i128"} \/ t.elem = "ld" -> 16
      [] OTHER -> 8

\* A result in memory, for which the caller passes a pointer.  What has a long
\* double comes back in x87 registers, whatever it would be as a parameter.
SystemVHidden(t) ==
    /\ SystemVClasses(t) = <<>> /\ t.kind \in {"struct", "vector"}
    /\ t.kind = "struct" =>
          t.def.size > 16 \/ \E f \in t.def.fields : f[1] % f[3] # 0
----------------------------------------------------------------------------

CONSTANTS
    GpRegisters,   \* ARG_REGISTERS, ARG_REGS: the registers that integers are passed in
    FpRegisters,   \* XMM_ARG_REGISTERS, FP_ARG_REGS
    CallSites      \* the calls to compile

VARIABLES
    call,      \* the target, the types of the parameters, the extra arguments and the result
    phase,     \* "flatten", "place", "receive", "body", "returned", "done";
              \* "external" is the call of a variadic function of another unit
    flat,      \* the arguments of the FunCall instruction
    placed,    \* what the caller has put into registers and on the stack
    machine,   \* from locations to the pieces in them
    received,  \* how far the callee has come in registers and stack
    got,       \* the pieces that each parameter, and each extra argument, has got
    next,      \* the next argument or parameter to process
    result     \* the pieces of the result that the caller has

vars == <<call, phase, flat, placed, machine, received, got, next, result>>

Gp(n) == <<"gp", n>>
Fp(n) == <<"fp", n>>
Stack(offset) == <<"stack", offset>>
ReturnGp(n) == <<"return gp", n>>
ReturnFp(n) == <<"return fp", n>>
Temporary(n) == <<"temporary", n>>     \* where a hidden return pointer points to

Garbage == <<-1, 0>>
Address == <<0, 0>>                    \* the hidden return pointer
Read(location) == IF location \in DOMAIN machine THEN machine[location] ELSE Garbage

X86 == call.target = "x86_64"
Types == call.params \o call.extras
Hidden == return_requires_hidden_pointer(call.ret)
----------------------------------------------------------------------------
(* The caller takes its arguments apart.  An argument of the instruction   *)
(* has a type of its own; groups are the runs of arguments that are passed *)
(* together or not at all, blocks the arguments that are addresses of what *)
(* is copied to the stack; fixed counts the arguments for parameters.      *)
Part(ty, val) == [ty |-> ty, val |-> val]
NoArgs == [args |-> <<>>, groups |-> {}, blocks |-> <<>>, fixed |-> 0]

ClassType(class) == IF class = "sse" THEN "flt" ELSE "int"

WithBlock(f, t, i, align) ==
    [f EXCEPT !.args = Append(@, Part("int", Pieces(i, t))),
              !.blocks = (Len(f.args) + 1 :> [size |-> t.def.size, align |-> align]) @@ @]

WithGroup(f, i, types, classes) ==
    [f EXCEPT !.args = @ \o [n \in 1 .. Len(types) |-> Part(types[n], <<<<i, n>>>>)],
              !.groups = IF classes = <<>> THEN @
                         ELSE @ \cup {[start |-> Len(f.args) + 1, classes |-> classes]}]

ElementClass(elem) == IF elem = "int" THEN "integer" ELSE "sse"

FlattenVector(f, i, t) == WithBlock(f, t, i, Greater(t.def.align, 16))
FlattenComplex(f, i, t) ==
    WithGroup(f, i, <<t.elem, t.elem>>, <<ElementClass(t.elem), ElementClass(t.elem)>>)
FlattenStruct(f, i, t, extra) ==
    IF extra \/ InMemory(t) THEN WithBlock(f, t, i, t.def.align)
    ELSE WithGroup(f, i, [n \in DOMAIN t.def.classes |-> ClassType(t.def.classes[n])], t.def.classes)

FlattenArg(f, i, t, extra) ==
    CASE vector_requires_memory_abi(t) -> FlattenVector(f, i, t)
      [] t.kind = "complex" -> FlattenComplex(f, i, t)
      [] t.kind = "struct" -> FlattenStruct(f, i, t, extra)
      [] OTHER -> [f EXCEPT !.args = Append(@, Part(t.kind, Pieces(i, t)))]

\* (Mutant: the groups stay where they were.)
InsertHiddenOnly(f) ==
    [args |-> <<Part("int", <<Address>>)>> \o f.args, groups |-> f.groups,
     blocks |-> [n \in {m + 1 : m \in DOMAIN f.blocks} |-> f.blocks[n - 1]],
     fixed |-> f.fixed + 1]

\* The hidden return pointer becomes the first argument: the places of the
\* others move by one.
InsertHidden(f) ==
    [args |-> <<Part("int", <<Address>>)>> \o f.args,
     groups |-> {[g EXCEPT !.start = @ + 1] : g \in f.groups},
     blocks |-> [n \in {m + 1 : m \in DOMAIN f.blocks} |-> f.blocks[n - 1]],
     fixed |-> f.fixed + 1]

Flatten ==
    /\ phase = "flatten" /\ next <= Len(Types)
    /\ LET f == FlattenArg(flat, next, Types[next], next > Len(call.params))
       IN  flat' = IF next = Len(call.params) THEN [f EXCEPT !.fixed = Len(f.args)] ELSE f
    /\ next' = next + 1
    /\ UNCHANGED <<call, phase, placed, machine, received, got, result>>

EmitFunCall ==
    /\ phase = "flatten" /\ next > Len(Types)
    /\ flat' = IF Hidden THEN InsertHidden(flat) ELSE flat
    /\ phase' = "place" /\ next' = 1
    /\ UNCHANGED <<call, placed, machine, received, got, result>>
----------------------------------------------------------------------------
(* x86-64: which arguments (or parameters) go to the stack because the     *)
(* group they are in does not fit the registers that are left, found by    *)
(* counting through the list beforehand.                                   *)
GroupAt(groups, n) == {g \in groups : n \in g.start .. g.start + Len(g.classes) - 1}
Needs(classes, class) == Cardinality({n \in DOMAIN classes : classes[n] = class})

CountGroup(s, g) ==
    LET gp == s.gp + Needs(g.classes, "integer")
        fp == s.fp + Needs(g.classes, "sse")
    IN  IF gp <= GpRegisters /\ fp <= FpRegisters THEN [s EXCEPT !.gp = gp, !.fp = fp]
        ELSE [s EXCEPT !.forced = @ \cup (g.start .. g.start + Len(g.classes) - 1)]

CountScalar(s, n, ty) ==
    CASE ty = "ld" -> [s EXCEPT !.forced = @ \cup {n}]
      [] ty = "flt" -> [s EXCEPT !.fp = Lesser(@ + 1, FpRegisters)]
      [] OTHER -> [s EXCEPT !.gp = Lesser(@ + 1, GpRegisters)]

CountArg(f, s, n) ==
    IF n \in DOMAIN f.blocks THEN s
    ELSE IF GroupAt(f.groups, n) = {} THEN CountScalar(s, n, f.args[n].ty)
    ELSE LET g == CHOOSE h \in GroupAt(f.groups, n) : TRUE
         IN  IF n = g.start THEN CountGroup(s, g) ELSE s

force_stack_args(f) ==
    FoldLeft(LAMBDA s, n : CountArg(f, s, n), [gp |-> 0, fp |-> 0, forced |-> {}],
             [n \in 1 .. Len(f.args) |-> n]).forced

\* StackArgLayout
for_scalar(ty) ==
    IF ty \in {"ld", "i128"} THEN [size |-> 16, align |-> 16] ELSE [size |-> 8, align |-> 8]
for_memory_block(size, align) ==
    [size |-> 8 * Eightbytes(size), align |-> Lesser(Greater(align, 1), 16)]
place_at(layout, offset) == round_up_to(offset, layout.align)

OnStack(p, layout, val) == [p EXCEPT !.stack = Append(@, [layout |-> layout, val |-> val])]
InGp(p, val) ==
    [p EXCEPT !.gp = @ + Len(val),
              !.registers = [r \in {Gp(p.gp + n) : n \in 1 .. Len(val)} |-> val[r[2] - p.gp]] @@ @]
InFp(p, val) == [p EXCEPT !.fp = @ + 1, !.registers = (Fp(p.fp + 1) :> val[1]) @@ @]

\* The unnamed arguments of a variadic function of this unit, which reads them
\* from the stack in order whatever their type.
ShadowVarargs == call.variadic /\ call.local

PlaceX86(p, n) ==
    LET a == flat.args[n]
    IN  CASE n \in DOMAIN flat.blocks ->
                OnStack(p, for_memory_block(flat.blocks[n].size, flat.blocks[n].align), a.val)
          [] n \notin DOMAIN flat.blocks /\ n \in force_stack_args(flat) ->
                OnStack(p, for_scalar(IF a.ty = "ld" THEN "ld" ELSE "int"), a.val)
          [] OTHER ->
                IF ShadowVarargs /\ n > flat.fixed THEN OnStack(p, for_scalar(a.ty), a.val)
                ELSE IF a.ty = "flt" /\ p.fp < FpRegisters THEN InFp(p, a.val)
                ELSE IF a.ty = "i128" /\ p.gp + 1 < GpRegisters THEN InGp(p, a.val)
                ELSE IF a.ty = "int" /\ p.gp < GpRegisters THEN InGp(p, a.val)
                ELSE OnStack(p, for_scalar(a.ty), a.val)

PlaceArgX86 ==
    /\ phase = "place" /\ X86 /\ next <= Len(flat.args)
    /\ placed' = PlaceX86(placed, next)
    /\ next' = next + 1
    /\ UNCHANGED <<call, phase, flat, machine, received, got, result>>
----------------------------------------------------------------------------
(* AArch64: the same in one pass, a group at a time.                       *)
DarwinVararg(n) == call.variadic /\ call.target = "aarch64-macos" /\ n > flat.fixed

\* The parts of a group, each in the next register of its class.
GroupInRegisters(p, g) ==
    FoldLeft(LAMBDA q, n :
                IF g.classes[n] = "sse" THEN InFp(q, flat.args[g.start + n - 1].val)
                ELSE InGp(q, flat.args[g.start + n - 1].val),
             p, [n \in DOMAIN g.classes |-> n])
GroupOnStack(p, g) ==
    FoldLeft(LAMBDA q, n : OnStack(q, for_scalar(flat.args[n].ty), flat.args[n].val),
             p, [n \in DOMAIN g.classes |-> g.start + n - 1])

PlaceGroup(p, g) ==
    IF /\ p.gp + Needs(g.classes, "integer") <= GpRegisters
       /\ p.fp + Needs(g.classes, "sse") <= FpRegisters
       /\ ~DarwinVararg(g.start)
    THEN GroupInRegisters(p, g) ELSE GroupOnStack(p, g)

\* Blocks are aligned to two slots or not at all.
BlockSlots(b) == [size |-> 8 * Eightbytes(b.size), align |-> IF b.align >= 16 THEN 16 ELSE 8]

PlaceArm(p, n) ==
    LET a == flat.args[n]
    IN  IF n \in DOMAIN flat.blocks THEN OnStack(p, BlockSlots(flat.blocks[n]), a.val)
        ELSE IF DarwinVararg(n) THEN OnStack(p, for_scalar(a.ty), a.val)
        ELSE IF a.ty = "i128" /\ p.gp + 1 < GpRegisters THEN InGp(p, a.val)
        ELSE IF a.ty \in {"flt", "ld"} /\ p.fp < FpRegisters THEN InFp(p, a.val)
        ELSE IF a.ty = "int" /\ p.gp < GpRegisters THEN InGp(p, a.val)
        ELSE OnStack(p, for_scalar(a.ty), a.val)

PlaceGroupArm ==
    /\ phase = "place" /\ ~X86
    /\ \E g \in flat.groups :
          /\ g.start = next
          /\ placed' = PlaceGroup(placed, g)
          /\ next' = next + Len(g.classes)
    /\ UNCHANGED <<call, phase, flat, machine, received, got, result>>

PlaceArgArm ==
    /\ phase = "place" /\ ~X86 /\ next <= Len(flat.args)
    /\ \A g \in flat.groups : g.start # next
    /\ placed' = PlaceArm(placed, next)
    /\ next' = next + 1
    /\ UNCHANGED <<call, phase, flat, machine, received, got, result>>
----------------------------------------------------------------------------
(* The call: the stack arguments are laid out in order from the stack      *)
(* pointer, then the registers are loaded.                                 *)
Offsets(stack) ==
    FoldLeft(LAMBDA os, item :
                LET start == place_at(item.layout, os.end)
                IN  [starts |-> Append(os.starts, start), end |-> start + item.layout.size],
             [starts |-> <<>>, end |-> 0], stack)

StackPieces(stack) ==
    LET starts == Offsets(stack).starts
    IN  UNION {{<<Stack(starts[k] + 8 * (n - 1)), stack[k].val[n]>> : n \in DOMAIN stack[k].val} :
                  k \in DOMAIN stack}

CallFunction ==
    /\ phase = "place" /\ next > Len(flat.args)
    /\ machine' = [l \in {s[1] : s \in StackPieces(placed.stack)} |->
                      (CHOOSE s \in StackPieces(placed.stack) : s[1] = l)[2]] @@ placed.registers
    /\ phase' = IF call.variadic /\ ~call.local THEN "external" ELSE "receive"
    /\ next' = 1
    /\ UNCHANGED <<call, flat, placed, received, got, result>>
----------------------------------------------------------------------------
(* The callee takes its parameters apart for itself: val names the         *)
(* parameter, 0 stands for the hidden return pointer.                      *)
FlattenParam(f, i, t) ==
    CASE InMemory(t) \/ vector_requires_memory_abi(t) ->
            [f EXCEPT !.args = Append(@, Part("int", i)),
                      !.blocks = (Len(f.args) + 1 :>
                                    [size |-> t.def.size,
                                     align |-> IF t.kind = "vector" THEN 16 ELSE t.def.align]) @@ @]
      [] t.kind \in {"complex", "struct"} /\ ~InMemory(t) ->
            LET classes == IF t.kind = "struct" THEN t.def.classes
                           ELSE <<ElementClass(t.elem), ElementClass(t.elem)>>
                Ty(n) == IF t.kind = "struct" THEN ClassType(classes[n]) ELSE t.elem
            IN  [f EXCEPT !.args = @ \o [n \in DOMAIN classes |-> Part(Ty(n), i)],
                          !.groups = IF classes = <<>> THEN @
                                     ELSE @ \cup {[start |-> Len(f.args) + 1, classes |-> classes]}]
      [] OTHER -> [f EXCEPT !.args = Append(@, Part(t.kind, i))]

Params ==
    FoldLeft(LAMBDA f, i : FlattenParam(f, i, call.params[i]),
             IF Hidden THEN [NoArgs EXCEPT !.args = <<Part("int", 0)>>] ELSE NoArgs,
             [i \in DOMAIN call.params |-> i])

force_stack(f) == force_stack_args(f)

Gets(i, pieces) == got' = [got EXCEPT ![i] = @ \o pieces]

\* From the stack, at the next place of that layout.
FromStack(i, layout, count) ==
    LET start == place_at(layout, received.offset)
    IN  /\ Gets(i, [n \in 1 .. count |-> Read(Stack(start + 8 * (n - 1)))])
        /\ received' = [received EXCEPT !.offset = start + layout.size]
FromGp(i, count) ==
    /\ Gets(i, [n \in 1 .. count |-> Read(Gp(received.gp + n))])
    /\ received' = [received EXCEPT !.gp = @ + count]
FromFp(i) ==
    /\ Gets(i, <<Read(Fp(received.fp + 1))>>)
    /\ received' = [received EXCEPT !.fp = @ + 1]

Count(ty) == IF ty = "i128" THEN 2 ELSE 1

ReceiveX86(n) ==
    LET p == Params.args[n]
    IN  IF n \in DOMAIN Params.blocks
        THEN LET b == Params.blocks[n]
             IN  FromStack(p.val, for_memory_block(b.size, b.align), Eightbytes(b.size))
        ELSE IF n \in force_stack(Params) \/ p.ty = "ld" THEN FromStack(p.val, for_scalar(p.ty), Count(p.ty))
        ELSE IF p.ty = "flt" /\ received.fp < FpRegisters THEN FromFp(p.val)
        ELSE IF p.ty = "i128" /\ received.gp + 1 < GpRegisters THEN FromGp(p.val, 2)
        ELSE IF p.ty = "int" /\ received.gp < GpRegisters THEN FromGp(p.val, 1)
        ELSE FromStack(p.val, for_scalar(p.ty), Count(p.ty))

ReceiveParamX86 ==
    /\ phase = "receive" /\ X86 /\ next <= Len(Params.args)
    /\ ReceiveX86(next)
    /\ next' = next + 1
    /\ UNCHANGED <<call, phase, flat, placed, machine, result>>

\* AArch64: slots of eight bytes, which the callee never aligns.
Slots(ty) == [size |-> IF ty \in {"i128", "ld"} THEN 16 ELSE 8, align |-> 8]

ReceiveArm(n) ==
    LET p == Params.args[n]
    IN  IF n \in DOMAIN Params.blocks
        THEN FromStack(p.val, [size |-> 8 * Eightbytes(Params.blocks[n].size), align |-> 8],
                       Eightbytes(Params.blocks[n].size))
        ELSE IF p.ty = "i128" /\ received.gp + 1 < GpRegisters THEN FromGp(p.val, 2)
        ELSE IF p.ty \in {"flt", "ld"} /\ received.fp < FpRegisters THEN FromFp(p.val)
        ELSE IF p.ty \in {"int", "i128"} /\ received.gp < GpRegisters THEN FromGp(p.val, 1)
        ELSE FromStack(p.val, Slots(p.ty), Count(p.ty))

ReceiveParamArm ==
    /\ phase = "receive" /\ ~X86 /\ next <= Len(Params.args)
    /\ \A g \in Params.groups : g.start # next
    /\ ReceiveArm(next)
    /\ next' = next + 1
    /\ UNCHANGED <<call, phase, flat, placed, machine, result>>

\* The parts of a group: in registers if all of them fit, or a slot each.
GroupFits(g) ==
    /\ received.gp + Needs(g.classes, "integer") <= GpRegisters
    /\ received.fp + Needs(g.classes, "sse") <= FpRegisters

Before(g, n) == SubSeq(g.classes, 1, n - 1)
FromRegister(g, n) ==
    IF g.classes[n] = "sse" THEN Read(Fp(received.fp + 1 + Needs(Before(g, n), "sse")))
    ELSE Read(Gp(received.gp + 1 + Needs(Before(g, n), "integer")))

ReceiveGroupArm ==
    /\ phase = "receive" /\ ~X86
    /\ \E g \in Params.groups :
          /\ g.start = next
          /\ next' = next + Len(g.classes)
          /\ IF GroupFits(g)
             THEN /\ Gets(Params.args[next].val, [n \in DOMAIN g.classes |-> FromRegister(g, n)])
                  /\ received' = [received EXCEPT !.gp = @ + Needs(g.classes, "integer"),
                                                  !.fp = @ + Needs(g.classes, "sse")]
             ELSE FromStack(Params.args[next].val, [size |-> 8 * Len(g.classes), align |-> 8],
                            Len(g.classes))
    /\ UNCHANGED <<call, phase, flat, placed, machine, result>>

EnterBody ==
    /\ phase = "receive" /\ next > Len(Params.args)
    /\ phase' = "body" /\ next' = Len(call.params) + 1
    /\ UNCHANGED <<call, flat, placed, machine, received, got, result>>
----------------------------------------------------------------------------
(* va_start stands after the last parameter on the stack; va_arg aligns    *)
(* its pointer for what takes more than a slot and moves it past.          *)
emit_aligned_pointer(pointer, align) == IF align <= 8 THEN pointer ELSE round_up_to(pointer, align)

VaArg(pointer, size, align) ==
    LET start == emit_aligned_pointer(pointer, Lesser(align, 16))
    IN  /\ Gets(next, [n \in 1 .. PieceCount(Types[next]) |-> Read(Stack(start + 8 * (n - 1)))])
        /\ received' = [received EXCEPT !.offset = start + 8 * Eightbytes(size)]

FetchExtra ==
    /\ phase = "body" /\ next <= Len(Types)
    /\ LET t == Types[next]
           size == IF t.kind \in {"ld", "i128"} THEN 16 ELSE 8
       IN  IF t.kind = "struct" THEN VaArg(received.offset, t.def.size, t.def.align)
           ELSE VaArg(received.offset, size, size)
    /\ next' = next + 1
    /\ UNCHANGED <<call, phase, flat, placed, machine, result>>
----------------------------------------------------------------------------
(* The result: through the hidden pointer, or in the first registers of    *)
(* its classes, or as a scalar.                                            *)
ReturnLocation(classes, n) ==
    LET earlier == Needs(SubSeq(classes, 1, n - 1), classes[n])
    IN  IF classes[n] = "sse" THEN ReturnFp(earlier + 1) ELSE ReturnGp(earlier + 1)

ReturnStruct(t) ==
    [l \in {ReturnLocation(t.def.classes, n) : n \in DOMAIN t.def.classes} |->
        <<0, CHOOSE n \in DOMAIN t.def.classes : ReturnLocation(t.def.classes, n) = l>>]

ReturnScalar(t) ==
    CASE t.kind = "i128" -> (ReturnGp(1) :> <<0, 1>>) @@ (ReturnGp(2) :> <<0, 2>>)
      [] t.kind \in {"flt", "ld"} -> (ReturnFp(1) :> <<0, 1>>)
      [] OTHER -> (ReturnGp(1) :> <<0, 1>>)

\* The temporary is the place that the pointer, if it arrived, points to.
ReturnHidden(t) ==
    IF got[0] = <<Address>> THEN [l \in {Temporary(n) : n \in 1 .. PieceCount(t)} |-> <<0, l[2]>>]
    ELSE <<>>

Return ==
    /\ phase = "body" /\ next > Len(Types)
    /\ machine' = IF Hidden THEN ReturnHidden(call.ret)
                  ELSE IF call.ret.kind = "struct" THEN ReturnStruct(call.ret)
                  ELSE ReturnScalar(call.ret)
    /\ phase' = "returned"
    /\ UNCHANGED <<call, flat, placed, received, got, next, result>>

\* What the caller takes the result from.
CollectStruct(t) ==
    [n \in DOMAIN t.def.classes |->
        Read(IF t.def.classes[n] = "sse"
             THEN ReturnFp(1 + Needs(SubSeq(t.def.classes, 1, n - 1), "sse"))
             ELSE ReturnGp(1 + Needs(SubSeq(t.def.classes, 1, n - 1), "integer")))]
CollectScalar(t) ==
    CASE t.kind = "i128" -> <<Read(ReturnGp(1)), Read(ReturnGp(2))>>
      [] t.kind \in {"flt", "ld"} -> <<Read(ReturnFp(1))>>
      [] OTHER -> <<Read(ReturnGp(1))>>

Collect ==
    /\ phase = "returned"
    /\ result' = IF Hidden THEN [n \in 1 .. PieceCount(call.ret) |-> Read(Temporary(n))]
                 ELSE IF call.ret.kind = "struct" THEN CollectStruct(call.ret)
                 ELSE CollectScalar(call.ret)
    /\ phase' = "done"
    /\ UNCHANGED <<call, flat, placed, machine, received, got, next>>

Done == phase \in {"done", "external"} /\ UNCHANGED vars
----------------------------------------------------------------------------
Init ==
    /\ call \in CallSites
    /\ phase = "flatten" /\ flat = NoArgs /\ next = 1
    /\ placed = [gp |-> 0, fp |-> 0, registers |-> <<>>, stack |-> <<>>]
    /\ machine = <<>>
    /\ received = [gp |-> 0, fp |-> 0, offset |-> 0]
    /\ got = [i \in 0 .. Len(Types) |-> <<>>]
    /\ result = <<>>

Next ==
    \/ Flatten \/ EmitFunCall
    \/ PlaceArgX86 \/ PlaceGroupArm \/ PlaceArgArm \/ CallFunction
    \/ ReceiveParamX86 \/ ReceiveGroupArm \/ ReceiveParamArm \/ EnterBody
    \/ FetchExtra \/ Return \/ Collect \/ Done

Spec == Init /\ [][Next]_vars
----------------------------------------------------------------------------
(* What must hold.                                                         *)

\* Every parameter gets what was passed for it, part by part, and so does every
\* va_arg; the hidden pointer arrives as the first argument and the caller
\* takes the result from where the callee put it: the two sides of a call
\* place its parts in the same way (codegen.rs of both targets).
CallsArrive ==
    /\ phase = "returned" =>
          /\ \A i \in 1 .. Len(Types) : got[i] = Pieces(i, Types[i])
          /\ Hidden => got[0] = <<Address>>
    /\ phase = "done" => result = Pieces(0, call.ret)

\* The places that the System V ABI gives to the parameters, from their classes.
SystemVAssign(s, i, t) ==
    LET classes == SystemVClasses(t)
        gp == Needs(classes, "integer")
        fp == Needs(classes, "sse")
        start == round_up_to(s.end, SystemVAlign(t))
        Earlier(n) == SubSeq(classes, 1, n - 1)
        Register(n) == IF classes[n] = "sse" THEN Fp(s.fp + 1 + Needs(Earlier(n), "sse"))
                       ELSE Gp(s.gp + 1 + Needs(Earlier(n), "integer"))
    IN  IF classes # <<>> /\ s.gp + gp <= GpRegisters /\ s.fp + fp <= FpRegisters
        THEN [s EXCEPT !.gp = @ + gp, !.fp = @ + fp,
                       !.where = @ \cup {<<Register(n), <<i, n>>>> : n \in DOMAIN classes}]
        ELSE [s EXCEPT !.end = start + SystemVSize(t),
                       !.where = @ \cup {<<Stack(start + (SystemVSize(t) \div PieceCount(t)) * (n - 1)),
                                           <<i, n>>>> : n \in 1 .. PieceCount(t)}]

SystemV ==
    FoldLeft(LAMBDA s, i : SystemVAssign(s, i, Types[i]),
             IF SystemVHidden(call.ret)
             THEN [gp |-> 1, fp |-> 0, end |-> 0, where |-> {<<Gp(1), Address>>}]
             ELSE [gp |-> 0, fp |-> 0, end |-> 0, where |-> {}],
             [i \in 1 .. Len(Types) |-> i]).where

\* The places that it gives to the result, where the top of the x87 stack counts
\* as the first floating register, as in the code's own return.
SystemVResult ==
    LET classes == IF call.ret.kind = "ld" THEN <<"sse">> ELSE SystemVClasses(call.ret)
        Nth(n) == 1 + Needs(SubSeq(classes, 1, n - 1), classes[n])
        Register(n) == IF classes[n] = "sse" THEN ReturnFp(Nth(n)) ELSE ReturnGp(Nth(n))
    IN  IF SystemVHidden(call.ret)
        THEN {<<Temporary(n), <<0, n>>>> : n \in 1 .. PieceCount(call.ret)}
        ELSE {<<Register(n), <<0, n>>>> : n \in DOMAIN classes}

\* What the code passes in its own way: an i128 or a complex long double in front
\* of a group, which the count beforehand takes for one register (or two) too
\* few or many; a structure of a long double, with a declared alignment, or among
\* the unnamed arguments.
Departs(i) ==
    \/ /\ Types[i].kind = "i128" \/ (Types[i].kind = "complex" /\ Types[i].elem = "ld")
       /\ \E j \in i + 1 .. Len(Types) : Types[j].kind \in {"struct", "complex"}
    \/ /\ Types[i].kind = "struct" /\ ~InMemory(Types[i])
       /\ \/ Types[i].def.align >= 16 \/ \E f \in Types[i].def.fields : f[2] = "long double"
          \/ i > Len(call.params)

\* A complex result comes back through a pointer, which takes the first integer
\* register from the parameters; a structure of a long double in registers too, but
\* not on the x87 stack.
DepartsReturn ==
    \/ call.ret.kind = "complex"
    \/ call.ret.kind = "struct" /\ \E f \in call.ret.def.fields : f[2] = "long double"

\* A call on x86-64 passes its arguments where the System V ABI has them, and its
\* result comes back where the ABI has it, so that functions of other compilers
\* can be called, except for what Departs and DepartsReturn name and for the
\* unnamed arguments of a function of the same unit.
FollowsSystemV ==
    X86 /\ ~DepartsReturn =>
        /\ (phase \in {"receive", "external"} /\ next = 1 /\ ~ShadowVarargs
              /\ \A i \in 1 .. Len(Types) : ~Departs(i))
           => {<<l, machine[l]>> : l \in DOMAIN machine} = SystemV
        /\ phase = "returned" => {<<l, machine[l]>> : l \in DOMAIN machine} = SystemVResult
=============================================================================
