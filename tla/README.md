# Verification of rnqcc

rnqcc is a C compiler: a driver and a preprocessor of its own, a lexer and
parser, a resolver, a generator of the three-address code TACKY, an optimizer
over TACKY, and backends for x86-64 (with a register allocator) and AArch64.
This directory holds TLA+ models of the parts whose mistakes are silent, the
TLC configurations that check them on small instances, and the TLAPS proofs of
what holds for every instance.

A compiler that is wrong seldom crashes: it compiles the program to something
else, often only when a macro is undefined between two conditionals, when a
name is a type in one scope and an object in the next, when two blocks are
visited in one order, when two values meet in one register, when an argument
falls on the first stack slot, or when another thread writes between two
instructions. The tests of the repository run chosen programs; the models go
through every program, call, schedule or failure of a bounded set.

## Inventory

| Part | State it keeps | Operations | Interacts with | What is hard |
|---|---|---|---|---|
| Driver (`main.rs`, `cli/mod.rs`) | list of artifacts, generated or not; temporary files | preprocess, compile, assemble, link, move or copy the output, clean up | child processes, files, `compile` | an error at one source after others produced files; replacing an output; a kill |
| Publication (`compile.rs`, `tempfile.rs`) | a temporary beside the output, its identity | write, rename, remove | other processes | a file replaced before the removal |
| Preprocessor (`cli/preprocess_driver.rs`, `preprocess/`) | macro table and its converted copy, saved definitions, conditional frames, include stack, files read once, poisoned names, counter, line numbers | define, expand, evaluate, include, embed, pragmas | driver, files, lexer | recursion through disabled names; a stale copy of the table; which files are read again |
| Lexer, parser (`lex.rs`, `parse/`) | token position; scopes of typedef names, enumeration constants and types of objects; structure layouts; what the last specifier left in fields of the parser | specifiers, declarators, members, initializers, statements, expressions | resolver | names that are types in one scope only; declarators read from the inside; constant expressions while parsing |
| Resolver (`resolve.rs`) | scopes, labels of loops and switches, counters | rename, label, check | generator | jumps across scopes, shadowing |
| Generator (`tacky/generator/`) | instructions so far, counters, the labels that must stay | tree to TACKY | optimizer, backends | pruned branches that are jumped into, order of effects |
| Control-flow graph (`cfg.rs`) | blocks with successors and predecessors | build, flatten | all passes below | indirect jumps, blocks without predecessor |
| Copy propagation (`cfg.rs`) | copies at the end of each block, worklist | visit, rewrite | statics, aliases | order of visits, clobbering, a transfer function that is not monotone |
| Dead store elimination (`cfg.rs`, `optimize.rs`) | live variables at the start of each block, worklist | visit, filter, repeat | statics, aliases | back edges, what callees read |
| Loop-invariant code motion (`optimize/licm.rs`) | the graph whose code moves | find loops, hoist, repeat | dominators | which block runs before the loop |
| Interprocedural constants (`optimize/ipcp.rs`) | per function: constants, blocked, call seen, escaped | scan the program, rewrite bodies | every function | order of calls and escapes; loops |
| Unreachable code (`optimize/unreachable.rs`) | the instructions left | thread jumps, drop blocks, drop jumps, repeat | graph | cycles of jumps, labels whose address is taken |
| CSE (`optimize/cse.rs`) | available expressions and their holders, worklist | visit, rewrite | aliases | what kills a load |
| Inlining, constant folding (`optimize/`) | renamings; none | expand calls; fold | symbol tables, types | capture; widths |
| Pass order (`optimize.rs`) | the function | the passes, with a bounded cleanup loop | all passes | the bound of 8 cleanups |
| Register allocation (`backend/x86_64/regalloc.rs`) | liveness, interference graph, union-find, colours | build, coalesce, colour, replace | code generator, emitter | stale edges after a merge, spilling, widths |
| Calling conventions (`generator/lower_expr.rs`, `lower_init.rs`, `types.rs`, `backend/*/codegen.rs`) | registers and slots used so far | flatten, classify, place, receive, return | other compilers | the two sides decide separately |
| Atomic builtins (`backend/*/emit.rs`) | - | locked instructions, exclusive loops | other threads | stores in between, retries |
| Wide arithmetic (`backend/*/codegen.rs`, fixup, emitter) | scratch registers, the carry | select, fix up | allocator's scratch registers | what is lost between the halves |

What makes each part correct:

- the driver: an output is the old one or the new one, nothing temporary
  survives an error, no file of somebody else is removed, and a command that
  succeeds has made what it was asked for;
- preprocessor: the tokens, the macros left and the files read are what C says,
  in whatever order conditionals, definitions and files come, and an error
  is reported exactly where C has one;
- parser: the tree of a program is the program, each declarator with its
  type, each operator with its operands, each name with the meaning its scopes
  give it;
- resolver and generator: what C forbids is rejected, nothing else is, and the
  instructions make the calls and return the value that the tree stands for;
- graph: its predecessors invert its successors, and every transfer of control
  of an execution is an edge;
- the passes: they end, and the function they return behaves as the one they
  were given, at every call and return, without new undefined behaviour and
  without new endless loops; in between, each analysis reports only facts that
  hold (copies, dominators, constants of parameters, live variables,
  available expressions);
- register allocation: what interferes is never merged and never shares a
  register, and the allocated function behaves as before;
- calls: every part of every argument, and of the result, is taken from where it
  was put, and on x86-64 it is where the System V ABI has it;
- atomics: each operation takes effect on its object at one moment, and ends;
- wide arithmetic: the instructions for the halves compute the operation.

## Modules

| Module | Models | State | Actions |
|---|---|---|---|
| `Tacky` | `TackyInstr`, `Cfg::build`, the alias sets; execution of TACKY | - | - |
| `Equivalence` | the promise of a pass: two machines against one environment | `prog`, `out`, `phase`, `src`, `opt` | `Start`, `SourceStep`, `SourceStops`, `TargetStep`, `TargetStops`, `Answer`, `Finish` |
| `CopyPropagation` | `copy_propagation` and everything it calls | + `cfg`, `blockOut`, `worklist`, `todo` | `Visit`, `Converge`, `RewriteNext` |
| `DeadStoreElimination` | `dead_store_elimination`, `run_dead_store_elimination` | + `cfg`, `liveIn`, `worklist` | `GiveUp`, `Visit`, `Converge`, `FilterAgain`, `FilterLast` |
| `Licm` | `loop_invariant_code_motion` | + `cfg` | `HoistOnce`, `HoistNothing` |
| `Ipcp` | `interprocedural_constant_propagation`, from one function | + `mentions`, `tracked`, `next`, `constants`, `blocked`, `sawCall`, `escaped` | `ScanEscape`, `ScanOddCall`, `ScanCall`, `ScanEnds`, `Rewrite` |
| `UnreachableCode` | `unreachable_code_elimination` | + `body` | `CleanAgain`, `CleanNothing` |
| `Cse` | `cse_copy_from_offset` and `common_subexpression_elimination` | + `pass`, `cfg`, `blockOut`, `worklist`, `todo` | `Visit`, `Converge`, `RewriteNext` |
| `Preprocessor` | macro expansion; directives, conditionals, files, pragmas, `#if`, `#embed` | `unit` (files and options), `pp` (every field of the context and its stacks) | `OpenTopLevel`, `ReadLine`, `CloseFile` |
| `Types`, `Parser` | types, layouts, types and constant values of expressions; the recursive descent with the fields of `Parser` | a record handed from call to call | - |
| `Spelling` | tokens; how C spells declarations, statements and expressions (no code) | - | - |
| `Statements`, `Lowering` | the tree of a function and what it does; the resolver and the generator | `function`, `code`, `phase`, the two machines `source` and `target`, `asked` | the parts of the actions below |
| `FrontEnd` | the phases one after the other; what C says of each | + `written`, `tree`, `last` | `Preprocess`, `ParseTokens`, `CompileFunction`, `SourceRuns`, `TargetRuns`, `EnvironmentActs`, `Done` |
| `Asm`, `RegAlloc` | the instructions the allocator works on and their meaning; `allocate_one_pass` and `color_graph` | graph `adj`, `root`, `stack`, `color`, `liveIn`, `queue`, `todo`, then two machines | `Visit`, `Settle`, `Build`, `Coalesce`, `EndRound`, `Simplify`, `Simplified`, `Select`, `Apply`, then `Start`, `SourceStep`, `OutStep`, `Answer` |
| `Publication`, `Driver` | what users of the driver rely on; `driver`, `preprocess`, `compile`, the staged writes and moves, other processes, kills | files `fs` with their identities, per process `pc`, locals and result | one per system call or child process, `Crash`, `Restart`, `Intrude` |
| `AtomicObject`, `Atomics` | atomic objects; the sequences of accesses the emitters write for the builtins | per thread `pc`, `old`, `new`, `done`; the exclusive `monitor` | one per access: `Locked`, `LoadExclusive`, `StoreExclusive` and their like |
| `Calls` | layout and classification of aggregates, and the System V rules once more; flattening, placing, receiving, `va_arg`, returning | `flat`, `placed`, `machine`, `received`, `got`, `result` | `Flatten`, `EmitFunCall`, `PlaceArg...`, `CallFunction`, `Receive...`, `EnterBody`, `FetchExtra`, `Return`, `Collect` |
| `Wide`, `SelectX86`, `SelectAArch64`, `Arithmetic` | values of two limbs and a machine; the `emit_i128_*` functions, the division of a long, the fixup of x86-64 and the emitter of AArch64 | `job`, `code`, `pc`, `machine` | `Select`, `Emit`, `Run`, `Finish` |

`MC*` modules give the constants values; `*_proof` modules hold the theorems.
The operators named `(Mutant: ...)` in a comment are small mistakes; put in the
place of a definition of the model each breaks a property, which shows that the
property says something about that definition.

How they are put together:

- Every pass module extends `Equivalence`, which extends `Tacky`: a pass takes
  `phase` from "analyse" to "ready" with its own actions, then `Equivalence` runs
  `prog` and `out`. `Equivalence` is the abstract specification of every pass; it
  is stated as invariants of the product (`ObservablyEquivalent`,
  `NoNewDivergence`) because a pass relates two programs, not two states.
  `RegAlloc` and `FrontEnd` have a product of their own, since their two
  languages differ.
- `FrontEnd` composes preprocessor, parser, resolver and generator and states
  what C says beside each: expansion with hide sets (a set of names on each
  token, as in the standard's algorithm) instead of a stack of disabled names;
  the groups of a conditional found from its ends instead of read line by line;
  the tree a text was spelled from instead of the descent through its tokens.
- `Driver` implements `Publication` (`FilesArePublished`), with the visible
  contents of the promised files as `visible`; `Atomics` implements
  `AtomicObject` (`OperationsAreAtomic`), with the results so far as `outcome`.
- `Arithmetic` composes selection, fixup or emitter, and the machine; it takes
  both selections as instances.
- `Calls` composes four pieces of code that never meet in the compiler: the
  generator at the call and in the callee, the backend at the call and in the
  callee.

### How the state corresponds to the code

- A variable of a function-local table of the code is a variable of the model
  (`block_out` is `blockOut`, `block_live_in` is `liveIn`). The set `queued`
  beside each worklist is not a variable: it is the range of the worklist, and
  keeping it so is what the type invariants check (the exit node and duplicates
  would show).
- One visit of a worklist is one action; so is the rewrite of one block, one
  round of the loops that repeat a pass, one mention in the scan of `Ipcp`, one
  merge, one simplified or coloured node, one system call of the driver, one
  access to a shared object, one argument of a call. What runs inside (the
  transfer function along a block) is an operator.
- `map` in `PROJECT.json` gives the lines each definition stands for. A helper whose lines
  lie within those of a definition of the same module that uses it has no entry of its own.
- What hash maps leave open is left open: the order in which successors of an
  indirect jump are enqueued (`Orders`), the choice among loops of one size in
  `Licm`, the order of moves and nodes in `RegAlloc`.
- Blocks are numbered from 1 in text order. `NodeId::Entry` and `NodeId::Exit`
  are the numbers -1 and 0.

### Abstractions

- TACKY instructions that every modelled pass treats alike share a kind: `op`
  and `typed` for arithmetic, `atomic` for the atomics with a destination, `jz`
  for both conditional jumps. `AtomicFence` has none. A division (and a remainder)
  is an `op` of its own, whose divisor 0 is undefined behaviour; a conversion of
  a floating value to an integer is marked, because `Licm` does not move it.
- A token is its kind and its text. White space is not a token, except after
  the name in `#define`; text is split into tokens by the instances, so the
  lexer and the second lexing of preprocessed text are left out. A directive
  comes with its name. Numbers of `#if` have `IfBits` bits, those of constant
  expressions `ByteBits` a byte.
- The parser is a recursive descent, and the model is one too: each function
  takes the parser as a record and returns it. Attributes and what they set are
  left out, as are the types named under "Not modelled".
- Data of the passes are integers below `Mod`, aggregates of two members and
  addresses of variables. `op` is one function of its operands, `typed` is
  `v < 0` in the signedness of its operand, the case in which the type of a
  replaced operand is visible. The buffer of a setjmp is left out: a callee may
  jump back to the last setjmp the function executed.
- The environment answers a call with any result and any write to one variable
  it can reach. It sees the arguments and what it can reach, and after a return
  the statics. A `NonlocalJump`, a `Longjmp` and falling off the end are events
  like a return. Undefined behaviour of the original frees the optimized
  function; the optimized one must not introduce it.
- In `RegAlloc` a 64-bit value is a pair of halves, of which a 32-bit write
  clears the upper. Junk marks what nobody wrote, so that a lost value shows.
- In `Driver` contents are terms (what was made, from what), and a half-written
  file is a value of its own. Every call to the system may fail. Permissions,
  response files and the wording of child commands are left out.
- In `Atomics` accesses are seen in one order by all threads. A memory model
  weaker than that is out of reach: `__atomic_load_n` is a fence and a plain
  load (`parse/stmt_expr.rs:3052`), and whether that is enough on AArch64 is not
  asked.
- In `Calls` a value is the name of its piece (parameter and eightbyte), and
  what is in a register or slot is that name.
- In `Wide` widths are scaled: a half has 8 bits instead of 64, an immediate 4
  instead of 32. The boundaries of the code (31, 32, 63, 64, 127) are written
  with them. A call of a helper of the support library is one instruction that
  computes and loses every register a call may lose.

## Runs

| Run | Instance | Properties |
|---|---|---|
| `copy_propagation` | straight line with clobbers, aggregates and typed constants, join, loop, indirect jumps with an unreachable block | `SettledUnlessQueued`: an unqueued block satisfies its equation; `ReportedCopiesHold`: a reported copy holds whenever control enters the block; `ObservablyEquivalent`; `AnalysisTerminates` |
| `dead_store` | the same shapes with stores, plus exits that are not returns | `SettledUnlessQueued`, `PassTerminates`, `ObservablyEquivalent`, `NoNewDivergence` |
| `licm` | for loops, gotos into loops, temporaries that depend on one another, nested loops, `continue`, loops without events, divisions behind a call or in a loop that may not run; 53,874 states | `DominatorsLieOnEveryPath`, `HoistingTerminates`, `ObservablyEquivalent` |
| `ipcp` | one or two mentions of a function of a signed and an unsigned parameter, three acyclic bodies, arguments that those mentions may pass; 654,120 states | `AppliedIsWhatEveryCallPasses`, `ObservablyEquivalent` |
| `unreachable` | chains and cycles of jumps, exits, addresses of labels that can be reached; 20,739 states | `EachPassGains`, `ObservablyEquivalent`, `NoNewDivergence`; `StaysValid`: the labels that are named are there, as `validate_tacky_program` asks |
| `cse` | 3,892 pairs of a program and a pass, from six shapes: clobbers between two computations, members, setjmp, join, loop, indirect jumps; 398,938 states | `AvailableExpressionsHold`: whenever control is behind a block, the holder of an expression has its value; `ObservablyEquivalent` |
| `front_end` | thirteen families of preprocessed files, twenty-one of parsed programs, ten of functions compiled and run with three answers of the environment; 178,624 states | `PreprocessesAsWritten`; `TableIsCurrent`: the table text is expanded with is the one the directives made; `ParsesWhatWasWritten`; `RejectsTheInvalid`, `BehavesAsWritten`, `ReachesTheEvent` |
| `regalloc` | 110 functions of six shapes, 4 registers, up to 7 pseudo-registers, with and without coalescing; 69,199 states | `GraphIsWellFormed`, `MergesAreSafe`, `RegistersAreNotShared`, `MergedGetRegisters`, `AllocatedBehaves`, `AllocationTerminates` |
| `driver` | 12 pairs of commands on three sources, every call failing or not, six with a kill, a restart and a stranger's file; 58,845 states | `OutputsAreWhole`, `NothingIsLeftBehind`, `ForeignFilesStay`, `FilesArePublished` |
| `atomics` | two threads of one and two operations on a 2-bit object in 3-bit registers, both targets; 176,128 states | `OperationsAreAtomic`, `EveryOperationEnds` |
| `calls` | 6,744 calls of one to five parameters on x86-64, Linux and Darwin AArch64, 3 integer and 2 floating registers; 119,596 states | `CallsArrive`, `FollowsSystemV` |
| `arithmetic` | 54,186 instructions: every operation, signed and unsigned, ten values on each side and some forty constants, every shift, the result in memory or in the registers of the result; 326,854 states | `ComputesTheOperation` |

Why the bounds are enough for the questions asked: the pass runs explore every
filling of the slots of a few program shapes, so that the interesting sequences
occur next to each other without being written out; two values per integer tell
a stale value from a fresh one and a signed from an unsigned comparison;
functions have up to 7 blocks, enough for a loop with two exits, two nested
loops and a join inside a loop. The families of `front_end` are named for what
they vary: any four lines of one conditional and any three groups of a longer
one; every operator of `#if` on both sides of zero and of the sign (4 bits are
enough for two's complement, unsigned wrapping and the shift counts), its
assertions, and `defined` where a macro stands for it; every set
of two objects and two functions that name one another, with a depth limit of
12 that only endless expansions meet; headers at each place of the search path
with every kind of guard, three files deep; two changes of a macro by any
directive or pragma and what sees them; then every declarator, order of
specifiers, operator next to operator, pair of members, initializer, builtin
and statement that the grammar has, one level deep or two, and the scopes in
which a name is a type, a constant or an object. With `Mod` 3 a counter can be
one too high and one too low. Four registers and seven variables make the
allocator spill and coalesce across calls. Three integer and two floating
registers are used up by three parameters, so that every kind of parameter is
the last in registers, the one that does not fit, and one behind it. Two threads
with a retry each reach every order of the accesses of two sequences. With
8-bit halves every constant is on each side of each boundary of the code: the
range of an immediate, a half, and the ends of the full width.

A function that is left, a finished command or a finished call stays where it
is, so that deadlock checking is meaningful everywhere else: a pass, a command
or a thread that is stuck is reported.

### What the instances leave out, and why

The runs ask what holds. Where the code does something else on an input that
can be written down, the instance leaves that input out, and this section says
which. Each was found while modelling.

Optimizer and generator:

- `licm`: `loop_preheader` ignores `NodeId::Entry` among the predecessors of a
  header. When a loop is the first thing in a function and two back edges reach
  its header, the block of the edge that is not in the natural loop is taken for
  a preheader, and a temporary moves to a block the first iteration has not run.
- `ipcp`: `rewrite_ipcp_function` replaces a parameter until it is redefined in
  text order. In a loop (`while (n) n = g(n);`) the redefinition below reaches
  the use above. Bodies are acyclic. The constant put in place of a parameter
  (`ipcp.rs:233`) is not of its type, so that a comparison or a shift to the
  right of an unsigned parameter becomes a signed one: that parameter is copied,
  added, stored and passed on only.
- `unreachable`: `unreachable_code_pass` drops the label of an unreachable block
  although its address is taken, also where jumps led to it before they were
  threaded past it, or a `NonlocalJump` of a nested function names it;
  `validate_tacky_program`, run after the optimizer, then rejects a valid
  program. A label whose address is taken is reached in the instances by an
  indirect jump or by falling into it.
- `cse`: the key of `cse_copy_from_offset` (`cse.rs:20`) has no type: two reads
  of one offset with different types share an entry. A member is read with one
  type.
- Constant folding was read, not modelled: the width of a unary operator on an
  unsigned operand is the destination's (`constant_folding.rs:704`, `:739`).
- Comments that differ from the code and do no harm: `cfg.rs:1404` lists
  GetAddress among what is never eliminated, and one whose result is dead is;
  `CopyStruct` is called a no-op in `types.rs` while `codegen.rs:1194` copies.

Preprocessor (`front_end`):

- Arguments are expanded with no name disabled (`macro_expand.rs:426`), and a name
  that was left alone because it was being expanded is expanded again when it
  is an argument: with `#define A A B`, F(A) gives A B B. A body that ends in
  the name of a function-like macro is not applied to the parentheses behind
  the call. A `##` in the text of an argument pastes.
- `__LINE__` in the body of a macro is the line on which the text since the last
  directive began. A `__COUNTER__` argument used twice is drawn twice.
- `_Pragma` acts when the text around it has been expanded, later than the text
  behind it, and with -M not at all. The operands of `#pragma` are
  macro-expanded. A poisoned name is refused in the bodies of macros too.
- Empty variable arguments: the comma in front of an empty one is lost while
  nothing is in front of it either (`macro_expand.rs:601`). No call begins with
  two. `__VA_OPT__` asks whether there are
  tokens before the arguments are expanded, C after: no argument expands to
  nothing.
- `?:` in `#if` does not bring its operands to a common signedness. Where a macro
  stands for `defined(A)` and A for a number, A is expanded first and the
  condition refused; C leaves the meaning open. There A is no macro, or one with
  parameters.
- `#include_next` starts from the first directory that is not the file's own, so
  that a third header of a name is not found from the second. -U is applied
  after every -D, whatever their order.

Parser (`front_end`):

- Scopes: an enumeration constant wins over an object in an inner scope and does
  not hide a typedef name; `for (int T; ...)` declares T in the scope around the
  loop; tags have no scope; a name is visible after its initializer only.
- Declarations: `for (int i = 0, j = 0; ...)` takes `0, j = 0` for one
  expression; a typedef at block scope may not have two declarators and loses
  the parameters of a function; `int (T)` without a name, T a typedef, is taken
  for a parameter T; a typedef name as a label for a declaration; `(f)(x)`
  for a syntax error where f is no object; `int a[*p]` for a bound left open;
  `double long` and function types are missing among type names; a list of
  parameters or a sizeof inside a declarator overwrites the type of the
  declaration it is in (`last_typedef_full_type`, `last_struct_tag`), which also
  outlives `T;`.
- Arrays of variable size: two variable bounds keep the last, the others are
  taken from before the whole item; sizeof of an inner array of the same name is
  that of the outer.
- Constants: a cast to an unsigned type narrower than int makes what follows
  unsigned, and so does the right operand of a shift; sizeof of a compound
  literal with a bound left open is 0, and of a block-scope array declared so too;
  the inferred length of arrays of structures with a braced designated element,
  of `char *a[] = {"ab"}` and of `int a[][2]` without inner braces is wrong.
- Layout: bit-fields of different types never share a unit, and one behind a
  plain member starts a new one.
- Builtins: `a ?: b`, `__builtin_bswap32`, `__builtin_signbit` evaluate an operand
  more than once; `__builtin_prefetch` in the other order.

Generator (`front_end`): under `if (0)` everything up to the first label is
dropped (`lower_init.rs:1021`), of a loop or a switch that holds the label only
its body is kept, so that a jump into it goes round once, while
`docs/c-subset.md:21` lists loops, goto and labels as supported. No label is
inside a loop there. Of an `if` with a label in each
branch the first branch is kept and the second label lost (`lower_init.rs:1043`):
there only one branch has a label.

Driver:

- Two error paths forget what came before or after them: a failing dependency
  output, and the printing of a source that is not text (`cli/mod.rs:1318`,
  `:1436`). `NothingIsLeftBehind` names exactly them (`Forgets`).
- An output that is a symbolic link is replaced when it is moved
  (`cli/mod.rs:130`) and written through when it is copied, as the comment at
  151 says. Files that are links, and their targets, are not promised.

Backends:

- `regalloc`: `visit_operands` (`regalloc.rs:1749`), from which the registers to save
  are found, has no arm for the address of a label. A callee-saved register that
  gets such an address and is in no other instruction is not saved. In the
  instances an address is used.
- `regalloc`: `emit_atomic_rmw` (`x86_64/emit.rs:362`) works in AX and R12 when
  the old value is asked for and for nand. The allocator is told so in the first
  case only (`regalloc.rs:583`), and the prologue, which collects callee-saved
  registers from operands (`regalloc.rs:1638`), in neither: a function with
  `__atomic_fetch_add` returns with its caller's R12 changed. The instances have
  the other form only.
- `atomics`: the new value of a locked instruction is loaded again after it
  (`emit.rs:382`); beside another writer that may be the writer's value. Its
  thread is beside readers only.
- `atomics`, AArch64: an exclusive load of a byte clears the upper bits, but the
  value it is compared with keeps its own (`aarch64/emit.rs:717`): one that is
  not cut to the object never compares equal. Values asked for are cut.
- `calls`, AArch64: the caller aligns what needs 16 bytes on the stack
  (`codegen.rs:5166`), the callee does not (3406); the callee takes an i128
  whose first half is in the last free register (3519), the caller puts it on
  the stack (5263); a group of complex long double goes on by one slot for each
  part. What takes two slots comes first in the instances. On Linux the unnamed
  arguments are in registers while `va_start` reads the stack
  (`docs/c-subset.md:156` calls receiving them not ABI-complete), so variadic
  calls are those of Darwin.
- `calls`, x86-64: `Departs` in `Calls` names what System V has elsewhere (the
  two sides of rnqcc agree all the same): a 128-bit integer or complex long
  double in front of a structure in registers, a structure of a long double or
  with a declared alignment of 16, a small structure among the unnamed
  arguments. `DepartsReturn` names results: every complex result comes back
  through a hidden pointer (`generator/mod.rs:1149`), where System V has XMM0 and
  XMM1, RAX and RDX, or the x87 stack (`docs/c-subset.md:149` says that complex
  objects have not the layout of the ABI), and a structure of a long double is
  not on the x87 stack.
- `arithmetic`: `Departs` in `MCArithmetic` names four. On x86-64 a signed
  128-bit shift to the right by an unsigned constant is a logical one
  (`codegen.rs:3404` asks either operand), and `long / 2^k`, `% 2^k` with k of 32
  or more lose the sign mask in R10, through which the wide mask of the same
  `And` is loaded (665 and 5417; the 128-bit code at 457 avoids this). On AArch64
  the signed 128-bit division and remainder by a power of two keep their bias in
  R10, which is where the emitter loads a result that is in memory
  (`codegen.rs:822`, `emit.rs:1435`), and `x - c` with the low half of c zero is
  emitted as an addition of 0 and loses the borrow (`emit.rs:1562`).

### Fairness

The compiler is sequential code that runs until it returns, so a step of a pass,
of the allocator (`WF_vars(Allocate)`), or of the machine the result runs on,
that is possible is eventually taken: weak fairness of their disjunction. No
fairness of a choice is assumed: orders and answers stay arbitrary. The original
program may loop for ever, and then nothing is required of the other; so in
`FrontEnd` only the steps of the code are fair (`WF_vars(TargetRuns)`): a function
that was compiled reaches the event its tree reaches. `UnreachableCode` states that
its passes end by the action property `EachPassGains`, so only its machines are
fair. In `Atomics` every thread is scheduled (weak fairness of its steps), and a
store-exclusive that can succeed again and again does once (strong fairness of
`StoreExclusive`), which is what the architecture asks of implementations; x86-64
needs the first only. `Ipcp`, `Cse`, `Driver`, `Calls` and `Arithmetic` have no
liveness property and no fairness: the children of the driver may never return.

## Proofs

Proved with TLAPS for every value of the constants, from the named assumptions of
the modules: there are finitely many variables, statics and parameters among
them, and "" is not one (`VarsAssumption`); the programs are `FunctionBodies`, that is
non-empty sequences of instructions with the fields of their variants (`HasFields`, by
which besides an aggregate is copied to an aggregate only) whose jumps name labels that
they have, each of them once; a memory a function starts with has no address of its locals and
of its labels (`MemoriesAssumption`); registers are listed once; a word is a multiple
of the object; the users' names and the names the driver makes up are apart, and links
lead to files (`DriverAssumption`); what is written in place, a kept `.i` and the
target of a link, is not read or kept by another command, and intermediate files are
not kept for standard input (`ScenariosAssumption`).

- `Tacky_proof`: `Cfg` is a sequence of blocks that cover the program; its
  successors and its predecessors, which the code pushes separately in an arm
  for each instruction that ends a block, invert each other; a step of the machine
  goes on in its block or enters a successor; a function some of whose instructions
  are left out does at the matching position what the function does; and what the
  worklists need of sequences.
- `CopyPropagation_proof`: `TypeCorrect`, `CopiesAreUnique`, `Settled`,
  `FixpointAtRewrite`, `CopiesReportedHold`, `PropagationReturns`, `InLockstep`,
  `PropagationIsEquivalent`.
- `Cse_proof`: `TypeCorrect`, `ReportedExpressionsHold`, `InLockstep`,
  `EliminationIsEquivalent`.
- `DeadStoreElimination_proof`: `TypeCorrect`, `Settled`, `FixpointAtFilter`,
  `EliminationReturns`, `InLockstep`, `EliminationIsEquivalent`.
- `Ipcp_proof`: `AppliedSound`.
- `RegAlloc_proof`: `CoalescingKeepsTheGraph`, `CoalescingIsSafe`,
  `ColoringIsProper`.
- `Atomics_proof`: `ImplementsAtomicObject`.
- `Driver_proof`: `InvariantHolds`, `TypeCorrect`, `OutputsNeverHalfWritten`,
  `StrangersFilesStay`, `NoTemporaryIsLeft`.

The three analyses. The invariant is `SettledUnlessQueued`: a block that is not in
the worklist satisfies its equation. It is inductive together with the type
invariant, which fixes the graph. A visit of b changes the facts of b only; b
itself satisfies its equation unless it is its own neighbour, in which case it
is queued when the facts changed; the equation of another block reads b only if
it is a successor (predecessor, backwards) of b, and then it was queued already
or is queued now. That last step is where the graph matters: the blocks whose
meet reads b must be the blocks that b enqueues, which is the lemma that
predecessors invert successors. Nothing is assumed of the transfer function
beyond its being a function of the facts it is given. When the worklist is empty
the facts are a fixpoint of the whole graph.

What the facts mean. `CopiesReportedHold` and `ReportedExpressionsHold` relate the
fixpoint to runs of the function. A property of the entries of blocks is not
inductive over single instructions, so the invariant speaks of every position:
`FactsAt(P, reach, pc)` is what the analysis believes at pc, where `reach` is the
recursion along each block (`Along`, a recursive function whose defining equation
`AlongIsDefined` proves with the induction of `InductionUpTo`). The argument has three parts.
`FactsAtNext` and `RunContinues`, once for both: where a step leads, the beliefs
are those after the instruction, or those at the entry of a successor, which the meet makes
no larger than those at the end of each predecessor. `TransferSound` (a copy) and
`AfterHolds` (an expression): what the transfer function leaves after an
instruction holds once the instruction is executed, if what it was given held
before; this is where every kill is needed, above all that of loads by a write to
an aliased variable, for which `MachineOK` has that an address is always that of a
static or of a variable whose address is taken. And the environment: after a call the facts that
survive are about variables no callee can reach, and a longjmp resumes after a
setjmp, at which nothing survives. `MachineOK` and the beliefs (`SourceOK` for copies,
`BeliefsHold` for expressions) are inductive together.

`EliminationIsEquivalent` carries this to the two functions. Neither pass of `Cse`
deletes or moves an instruction, so `Optimized` says that the output has the length
of the input and at each position the same instruction or a copy of a variable
that is believed, there, to hold its value; that the rewrite recomputes the beliefs over the
rewritten block, where a copy is no expression, is why `RewriteOf` is part of
`BeliefsHold` beside `AnalysisOf`. The product runs the original function to its next
event before the optimized one starts, so at that moment the two machines are far
apart. `Leads(P, s, t)` closes the gap: t is in every set of machines that contains s and is closed
under the steps of P. It is extended at one end when the original function steps and shortened
at the other when the optimized one does (`LeadsExtend`, `LeadsAdvance`), since where
beliefs hold the two take the same step (`SameStep`). When the optimized
function stops, so would the original one, hence the two machines are equal, and
so is what they show. The pass over members is right only because a member is
read into a temporary of its own, never into its aggregate; the generator makes
a fresh one for each read, and `HasFields` says so.

`PropagationIsEquivalent` is the same for copy propagation, which leaves copies out of its
output, so that the positions of the two functions differ. What the rewrite of a block
leaves is said by `Optimized`: the output is the input without the positions that are not
in `Kept`, and every position kept holds an instruction that `StandsFor` the one it had:
its operands are replaced by operands of the same type that hold the same value. Both
rest on what is believed there, `FactsHold` of the analysis together with `Known`, the facts
that the rewrite recomputes over the block as it has been rewritten so far (`Believed`). They
have to be kept apart: after a use is replaced the two transfers no longer see the
same instruction. A copy is left out only where its two operands hold the same value already
(`RedundantLeaves`), and no instruction that jumps or makes an event is.

`Image` takes a position of the original function to the number of positions kept
before it, plus one; so a position left out has the image of the next one that is kept,
and a label its own (`GotoImage`, which needs that labels occur once). The machine of
the output is then the image of a machine of the original: the same memory and the
same position of the last `setjmp` up to `Image`. `Tracks` says that there is such a machine among those
to which the original takes the one it started from. When the output steps, the
machine that has passed over every copy left out is taken (`Furthest`, at most one for
each position, hence an end to the search), and there both execute instructions of which
one stands for the other, so that their memories, events and next positions agree
(`ComputesAlike`, `WritesAlike`, `ReadsAlike`). When the output stops, its
machine shows what the original shows, by `Leads` as for `Cse`. The lemmas on
`Shrinks` and `Image` are in `Tacky_proof`; nothing of them is about copies.
For this proof the chain of replacements and the pass over the rewritten block are
recursive functions (`Follow`, `Drafts`) rather than operators.

Dead store elimination is harder in two ways: the memories of the two functions are not
equal, and the pass repeats on its own output, whose live variables are those of
another program. `EliminationReturns` therefore states nothing about liveness as such.
It gives a certificate for what has been left so far, in terms of the original function
P only: `LeavesOut(P, K, L)`, where K are the positions kept and L gives each
position a set of variables on which it is enough that two machines agree there.
`Covers` asks that an instruction kept reads in L (what pointers reach, if it loads or
calls), and that L after it, less what it defines, is in L before it, for every position
in `After`; `Unneeded` that an instruction left out only computes a value, of a
variable that L does not have afterwards. At first K is everything and L is `Vars`
everywhere. A round takes the variables live in the shrunk code, which `Around` carries to
the positions of P, intersects L with them and keeps the positions in `Still(K)`
(`RoundLeavesOut`, `RoundKeeps`): a
position dropped in an earlier round stays unneeded because nothing is live at it that is
not live after it. The filter recomputes liveness over what it keeps and so finds no more
than the analysis did (`FilterFindsLess`), which is the direction in which the equations
of the blocks have to be used. That the analysis is at its fixpoint in every round,
not only in the last, is `FixpointAtFilter`. A function with a `setjmp` is given up; the
certificate says so by asking L to be `Vars` everywhere in it (`NoSetjmp`), and this is what the step of a
`longjmp` needs, where all variables may be read again.

`EliminationIsEquivalent` then runs the two functions as for copy propagation, with
`Agrees` for the image: the position and the saved `setjmp` up to `Image`, the memory on
L of the position. What is left out goes by unnoticed (`LeftOut`); what is kept reads the
same values and so meets undefined behaviour and events alike (`KeptReadsAlike`), shows the
same, and leaves the memories in agreement on L of the next position (`SameStep`),
also through a pointer, since both write the same value to the same variable (`ThruAgrees`).
That an assignment which traps may be dropped is no exception: `Furthest` follows the
original only as far as it went, and it met no undefined behaviour.

`Ipcp`. The property itself is not inductive. `ScanSound` says of the mentions
scanned so far that an escape among them was noted, that an odd call among them
blocked every parameter, and that every call agrees with the constant of each
parameter that is not blocked; at the end of the scan that is the property.

Register allocation. The graph is updated at every merge and never built again
within a round, so the property must relate it to the graph that was built:
`MergeInv` says that every edge of that graph joins the representatives of its
ends in the graph as it is now, and that its ends have different
representatives. A merge is tried only between nodes that are not neighbours
now; `MergeInv` turns this into not having interfered at first, and the merge
into an edge-preserving map of the graph. `GraphIsComplete` carries the edges
into the colouring, where `ProperlyColored` says that a neighbour has another
colour or none. Nothing is assumed of what instructions read and write or of the
order in which nodes and moves are taken, so the heuristics (which node to spill,
which move first) cannot matter. The degree test of conservative coalescing does
not appear: it is about spilling. `MergedGetRegisters`, which does depend on it,
is model-checked only.

Atomics. `IInv` is `Typed`, `Monitored` and `Ready(t)` for every thread:
a thread in the monitor is before its exclusive store, and its object still has
the value that it loaded, since every store to the object clears the monitor of
the others; a thread between two accesses has computed what it is about to store
or deliver from what it found. With it each access either does what the
operation asks for at that moment or changes nothing that is visible. The
theorem is under `AllSupported`: no new value of a locked instruction, and a
value asked for on AArch64 is cut to the object (see above).

Driver. That nothing is left behind says what is true when a command ends; what
makes it inductive is an account of what the command answers for at every point on
the way. `Remaining` is that account: the preprocessed file it works on,
the artifacts it has generated and not used up, the temporary of a staged write
that is open, the assembly that a write or a move is about. `Leaves` says that
every file of the process's own that was made since the process started is in the account
(or that the path is one of the two in `Forgets`), and `HeldExist` that the part of it
on which the next steps rely exists and is nobody else's, so that a clean-up does not
remove a stranger's file. `Progress`, `Places` and `Writing` tie the account to the
locals: how many artifacts there are at each source, which of the names are the
driver's own, where a staged write goes back to. For the outputs, `HalvesInPlace`
says that an empty or half-written file is a temporary, a kept `.i` or the target of a
link, and `TempOK` and `ReadyWhole` that the temporary which is about to be renamed is
the one that was opened, and whole. Other processes enter once only: `Settled(p)` is
what a step of p leaves to the others (their own files, what is kept for them,
and that nothing becomes half written where it may not), the lemmas `WritesSettle`,
`RemovalSettles` and `NoWriteSettles` give it for each kind of step, and `StepKeeps` reduces
the invariant to the process that moves. Then there is one lemma for each action;
`MoveOnKeeps` does what all steps from one point to the next have in common.

Only model-checked. Liveness under fairness. `ObservablyEquivalent` of the other
passes: those that insert or move instructions, or delete blocks and jumps (`Licm`,
`UnreachableCode`); and `Ipcp`, for which it is false of bodies with loops (see the instances above), so
that no theorem about all programs can state it.
`AllocatedBehaves` and `BehavesAsWritten`, which besides
relate two languages. What is computed by recursion or folds over data whose value, not
only its range, matters (`DominatorsLieOnEveryPath`, `MergedGetRegisters`, `EachPassGains`,
`PreprocessesAsWritten`, `TableIsCurrent`, `ParsesWhatWasWritten`,
`RejectsTheInvalid`, `CallsArrive`, `FollowsSystemV`, `ComputesTheOperation`). And that
the driver implements `Publication` (`FilesArePublished`).

## Not modelled

- Preprocessor: text to tokens (comments, spliced lines, raw strings), character
  constants, digit separators and other bases than ten in `#if`, `#ident`,
  the text of built-in headers (`VirtualHeaders`, `Probes` are constants), the
  tables of predefined macros, macro dumps, line markers, dependency rules,
  statistics.
- Parser: the lexer; attributes, asm and `__label__`; complex, vector, 128-bit
  and `_BitInt` types; members and typedefs of variable size (`dynamic_size`);
  the builtins for bytes, signs, vectors and the length of a string.
- Inlining: its difficulty is in names and tables, which are what a model
  abstracts from. Constant folding: 17 types, each with its arithmetic.
  `optimize_function`: every pass is checked for every function of its
  instances, so any order of them, cut off anywhere, is equivalent; that each
  leaves what the next expects is the graph's well-formedness.
- Lowering: conversions and types, pointers, aggregates, bit-fields, complex
  numbers, statement expressions, computed goto, nested functions, static
  initializers other than numbers. Duplicate case values, which the resolver
  does not reject, and `if (-0.0)`, which `static_eval` takes for true, are not
  in the instances. Compound shifts through a subscript, pointer or member
  convert to the common type first (`mod.rs:3595`); types are not modelled.
- Calls: complex float, vectors of 8 and 16 bytes, bit-fields, calls without a
  prototype, the bridge to the `va_list` of libc.
- Arithmetic: other widths, conversions, floating point and x87; the peepholes
  of the x86-64 emitter (`emit.rs:1424`), the fusion of a comparison with zero
  and a branch on AArch64 (`emit.rs:2691`), repeated patterns among logical
  immediates, operands that are both constants, a result that is an operand (the
  generator makes a new temporary for each).
- The pass of the allocator over XMM registers is the same code with another
  register file. Debug information, text of the assembly, option parsing,
  tables of predefined macros, diagnostics and targets are wording and tables.

## Plan

The order of the modules: the passes over one semantics of TACKY and their product; the
analyses proved; the allocator with its own product and proof; the driver
against an abstract publication; the atomics against an abstract object; the
generator against the tree; the calls; the wide arithmetic; the preprocessor and
the parser in front of the generator. Worth doing next,
in this order:

1. The forms that the instances leave out, each put back into its instance as
   soon as the code is changed.
2. `FilesArePublished`: with the invariant of `Driver_proof` each step has to be
   mapped to a publication or a stutter.
3. Proofs about `Licm` (an instruction that moves leaves its loop) and
   `UnreachableCode` (what `EachPassGains` states; a label that is deleted has no `Image`).
4. Aggregates and pointers in `Lowering`; bit-fields; compound assignment with
   its conversions.
5. Scalar arithmetic of the smaller widths in `Arithmetic`, with the peepholes
   of the emitters.
