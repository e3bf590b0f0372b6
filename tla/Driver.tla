------------------------------- MODULE Driver -------------------------------
(***************************************************************************)
(* The compiler driver (cli/mod.rs driver, preprocess, compile) and the    *)
(* files it leaves: commands run at the same time on one file system, each *)
(* call to the system may fail, and a command may be killed anywhere and   *)
(* run again under the process number it had.                              *)
(*                                                                         *)
(* A path is <<stem, extension>>; a stem of length one is a name the user  *)
(* gave, <<area, process, number>> is a name the driver made up.  Contents *)
(* are terms: what was made, from what.  Permissions are left out.         *)
(***************************************************************************)
EXTENDS Integers, FiniteSets, SequencesExt

CONSTANTS
    Procs,         \* process numbers
    Scenarios,     \* the commands given to them, and how often a command is
                   \* killed and a stranger's file appears: [commands, kills, strangers]
    UserFiles,     \* the paths the users' files can have
    Initially,     \* what the file system holds at first: a subset of UserFiles
    Links,         \* the symbolic links among them, each to the file it leads to
    Broken,        \* sources that do not compile
    Unprintable,   \* sources whose text is not UTF-8
    MaxTemp,       \* the highest number tried in a temporary name
    Intrusions     \* names of the driver's own at which strangers put files

Areas == {<<"tmp", "i">>, <<"tmp", "s">>, <<"tmp", "c">>, <<"copy", "">>, <<"asm", "">>}
TempFiles == {<<<<a[1], p, n>>, a[2]>> : a \in Areas, p \in Procs, n \in 0 .. MaxTemp}
Path == UserFiles \cup TempFiles
NoPath == <<<<>>, "">>
Stdin == <<<<"-">>, "">>

WithExtension(f, e) == <<f[1], e>>
LinkTargets == {Links[f] : f \in DOMAIN Links}

ASSUME DriverAssumption ==
    /\ MaxTemp \in Nat
    /\ Initially \subseteq UserFiles /\ DOMAIN Links \subseteq Initially
    /\ LinkTargets \subseteq UserFiles \ DOMAIN Links
    /\ \A f \in UserFiles : Len(f[1]) = 1
    /\ \A f \in UserFiles \cup {Stdin}, e \in {"i", "s", "o", "d", ""} :
          WithExtension(f, e) \in UserFiles
    /\ \A f \in Intrusions : Len(f[1]) = 3 /\ f[2] # "s"

Absent == [data |-> <<"absent">>, ino |-> 0]
Partial == <<"partial">>
Foreign == <<"foreign">>

VARIABLES
    fs,        \* the file at each path
    inodes,    \* how many files were ever created
    job,       \* the command line of each process
    pc,        \* where it is in the driver
    me,        \* the locals of driver, preprocess and do_compile
    w,         \* the locals of the staged write or move under way
    res,       \* "running", "ok", "error" or "crashed"
    kills, strangers   \* how many there still are

vars == <<fs, inodes, job, pc, me, w, res, kills, strangers>>
----------------------------------------------------------------------------
(* The command line.                                                       *)

\* The preprocessed sources a command keeps beside them, and what it reads and
\* may make there.
KeptFiles(c) ==
    IF c.keep THEN {WithExtension(s, "i") : s \in {x \in ToSet(c.srcs) : x[2] # "i"}} ELSE {}
Beneath(c) == ToSet(c.srcs) \cup {WithExtension(s, e) : s \in ToSet(c.srcs), e \in {"i", "s"}}

IsCommand(c) ==
    /\ c.srcs \in Seq(UserFiles \cup {Stdin}) /\ c.srcs # <<>>
    /\ {c.out, c.depfile} \subseteq UserFiles \cup {NoPath}
    /\ {c.keep, c.debug} \subseteq BOOLEAN
    /\ c.keep => Stdin \notin ToSet(c.srcs)

\* What is written in place, a kept .i and what a link leads to, is not shared:
\* no command reads there, or keeps a file there, while another one writes.
ASSUME ScenariosAssumption ==
    \A s \in Scenarios :
       /\ s.kills \in Nat /\ s.strangers \in Nat
       /\ \A p \in Procs :
             /\ IsCommand(s.commands[p])
             /\ Beneath(s.commands[p]) \cap (DOMAIN Links \cup LinkTargets) = {}
       /\ \A p, q \in Procs : p # q =>
             KeptFiles(s.commands[p]) \cap (ToSet(s.commands[q].srcs) \cup KeptFiles(s.commands[q])) = {}

InputKind(src, lang) ==
    CASE lang = "c" -> "c"
      [] lang # "c" /\ src[2] \in {"c", "h"} -> "c"
      [] OTHER -> src[2]
IsCompilable(k) == k \in {"c", "i"}
IsLinkerInput(k) == k \in {"s", "o", "a"}

\* real_main: what the options come to.  deps is the set of -M, -MM, -MD and
\* -MMD that were given, modes that of -E, -S, -c and --stage.
DependencyMode(c) == IF c.deps \cap {"M", "MM"} # {} THEN "only"
                     ELSE IF c.deps # {} THEN "side" ELSE "no"
StageOf(c) == CASE "E" \in c.modes \/ DependencyMode(c) = "only" -> "E"
                [] "S" \in c.modes /\ "E" \notin c.modes /\ DependencyMode(c) # "only" -> "S"
                [] c.modes = {"c"} /\ DependencyMode(c) # "only" -> "c"
                [] c.modes = {"ir"} /\ DependencyMode(c) # "only" -> "ir"
                [] OTHER -> "exe"
Understood(c) ==
    [stage |-> StageOf(c), dep |-> DependencyMode(c), srcs |-> c.srcs, out |-> c.out,
     lang |-> c.lang, keep |-> c.keep, debug |-> c.debug, depfile |-> c.depfile,
     clash |-> Cardinality(c.deps) > 1 \/ (c.deps = {} /\ c.depfile # NoPath)]

\* What real_main and the driver refuse before they touch a file.
Rejected(j) ==
    LET kinds == {InputKind(s, j.lang) : s \in ToSet(j.srcs)}
    IN  \/ j.clash
        \/ ~ kinds \subseteq {"c", "i", "s", "o", "a"}
        \/ j.dep = "only" /\ \E k \in kinds : ~IsCompilable(k)
        \/ Cardinality({n \in DOMAIN j.srcs : j.srcs[n] = Stdin}) > 1
        \/ j.depfile # NoPath /\ j.dep # "no" /\ Len(j.srcs) # 1
        \/ j.out # NoPath /\ j.stage = "ir"
        \/ j.out # NoPath /\ Len(j.srcs) # 1 /\ j.stage \in {"E", "S", "c"}

\* A linker input that the stage takes as it is.
PassedOn(k, stage) ==
    IsLinkerInput(k) /\ (stage = "exe" \/ (stage \in {"c", "S"} /\ k = "s"))

Idle == [born |-> 0, i |-> 1, src |-> NoPath, pre |-> NoPath, gen |-> FALSE, done |-> <<>>, next |-> [tmp |-> 0, copy |-> 0, asm |-> 0]]
NoWrite == [area |-> "", dst |-> NoPath, data |-> <<"absent">>, from |-> NoPath,
            temp |-> NoPath, ino |-> 0, then |-> "", after |-> "", ok |-> TRUE]

Init ==
    /\ fs = [f \in Path |->
               CASE f \in DOMAIN Links -> [data |-> <<"link", Links[f]>>, ino |-> 0]
                 [] f \in Initially \ DOMAIN Links -> [data |-> <<"src", f>>, ino |-> 0]
                 [] OTHER -> Absent]
    /\ inodes = 0
    /\ \E s \in Scenarios :
          job = [p \in Procs |-> Understood(s.commands[p])] /\ kills = s.kills /\ strangers = s.strangers
    /\ pc = [p \in Procs |-> "start"]
    /\ me = [p \in Procs |-> Idle]
    /\ w = [p \in Procs |-> NoWrite]
    /\ res = [p \in Procs |-> "running"]
----------------------------------------------------------------------------
Go(p, l) == pc' = [pc EXCEPT ![p] = l]
Set(p, r) == me' = [me EXCEPT ![p] = r]
End(p, r) == Go(p, "end") /\ res' = [res EXCEPT ![p] = r]

IsLink(f) == fs[f].data[1] = "link"
Resolve(f) == IF f \in Path /\ IsLink(f) THEN fs[f].data[2] ELSE f
Exists(f) == f \in Path /\ fs[Resolve(f)] # Absent
Contents(f) == fs[Resolve(f)].data
SameExistingPath(f, g) == f = g \/ (Exists(f) /\ Exists(g) /\ Resolve(f) = Resolve(g))
Without(S) == [f \in Path |-> IF f \in S THEN Absent ELSE fs[f]]
Create(f, d) == [fs EXCEPT ![f] = [data |-> d, ino |-> inodes + 1]]

\* cleanup_generated_artifacts.
\* (Mutant: it does not ask whether the driver made the artifact.)
AllPaths(done) == {done[n].path : n \in DOMAIN done}
Generated(done) == {done[n].path : n \in {k \in DOMAIN done : done[k].generated}}
Cleanup(p) == IF job[p].keep THEN {} ELSE Generated(me[p].done)
CleanupPre(p) == IF me[p].gen /\ ~job[p].keep THEN {me[p].pre} ELSE {}

Artifact(src, path, g) == [src |-> src, path |-> path, generated |-> g]

\* The first unused name of an area: create_new never takes one that exists.
FreeTemp(p, a, e) ==
    LET free == {n \in me[p].next[a] .. MaxTemp : ~Exists(<<<<a, p, n>>, e>>)}
    IN  IF free = {} THEN NoPath
        ELSE <<<<a, p, CHOOSE n \in free : \A m \in free : n <= m>>, e>>

\* Start a staged write of d to dst: copy_output, write_text_output and the
\* emission and publication of the assembly share their steps.
Stage(p, area, dst, d, from, then) ==
    /\ w' = [w EXCEPT ![p] = [NoWrite EXCEPT !.area = area, !.dst = dst, !.data = d,
                                            !.from = from, !.then = then]]
    /\ Go(p, "open")
MoveTo(p, from, dst, then) ==
    /\ w' = [w EXCEPT ![p] = [NoWrite EXCEPT !.area = "copy", !.dst = dst, !.from = from,
                                            !.then = then]]
    /\ Go(p, "move")
----------------------------------------------------------------------------
(* driver: one source after the other.                                     *)
Start(p) ==
    /\ pc[p] = "start"
    /\ IF Rejected(job[p]) THEN End(p, "error") ELSE Go(p, "take") /\ UNCHANGED res
    /\ UNCHANGED <<fs, inodes, job, me, w, kills, strangers>>

Take(p) ==
    /\ pc[p] = "take"
    /\ me[p].i <= Len(job[p].srcs)
    /\ LET src == job[p].srcs[me[p].i]
           k == InputKind(src, job[p].lang)
       IN  \/ /\ PassedOn(k, job[p].stage)
              /\ Set(p, [me[p] EXCEPT !.i = @ + 1,
                                      !.done = Append(@, Artifact(src, src, FALSE))])
              /\ UNCHANGED <<fs, pc, res>>
           \/ /\ IsLinkerInput(k) /\ ~PassedOn(k, job[p].stage)
              /\ fs' = Without(Cleanup(p)) /\ End(p, "error") /\ UNCHANGED me
           \/ /\ IsCompilable(k) /\ src # Stdin /\ src[2] = "i"
              /\ Set(p, [me[p] EXCEPT !.src = src, !.pre = src, !.gen = FALSE])
              /\ Go(p, "dependencies") /\ UNCHANGED <<fs, res>>
           \/ /\ IsCompilable(k) /\ src[2] # "i"
              /\ Set(p, [me[p] EXCEPT !.src = src])
              /\ Go(p, IF src = Stdin THEN "stdin" ELSE "reserve")
              /\ UNCHANGED <<fs, res>>
    /\ UNCHANGED <<inodes, job, w, kills, strangers>>

\* preprocess: standard input goes to a temporary file under a guard, which
\* removes it if the text cannot be written.
ReadStdin(p) ==
    /\ pc[p] = "stdin"
    /\ LET t == FreeTemp(p, "tmp", "c")
       IN  \/ /\ t # NoPath
              /\ fs' = Create(t, <<"src", Stdin>>) /\ inodes' = inodes + 1
              /\ Set(p, [me[p] EXCEPT !.src = t, !.next["tmp"] = t[1][3] + 1])
              /\ Go(p, "reserve") /\ UNCHANGED res
           \/ /\ fs' = Without(Cleanup(p)) /\ End(p, "error") /\ UNCHANGED <<me, inodes>>
    /\ UNCHANGED <<job, w, kills, strangers>>

Reserve(p) ==
    /\ pc[p] = "reserve"
    /\ LET t == FreeTemp(p, "tmp", "i")
           stdin == IF me[p].src \in TempFiles THEN {me[p].src} ELSE {}
       IN  \/ /\ job[p].keep
              /\ Set(p, [me[p] EXCEPT !.pre = WithExtension(me[p].src, "i"), !.gen = TRUE])
              /\ Go(p, "preprocess") /\ UNCHANGED <<fs, inodes, res>>
           \/ /\ ~job[p].keep /\ t # NoPath
              /\ fs' = Create(t, <<"empty">>) /\ inodes' = inodes + 1
              /\ Set(p, [me[p] EXCEPT !.pre = t, !.gen = TRUE, !.next["tmp"] = t[1][3] + 1])
              /\ Go(p, "preprocess") /\ UNCHANGED res
           \/ /\ ~job[p].keep
              /\ fs' = Without(Cleanup(p) \cup stdin) /\ End(p, "error")
              /\ UNCHANGED <<me, inodes>>
    /\ UNCHANGED <<job, w, kills, strangers>>

\* The preprocessor truncates its output before it writes it.
Truncate(p) ==
    /\ pc[p] = "preprocess"
    /\ fs' = Create(me[p].pre, Partial) /\ inodes' = inodes + 1
    /\ Go(p, "preprocessing")
    /\ UNCHANGED <<job, me, w, res, kills, strangers>>

Preprocess(p) ==
    /\ pc[p] = "preprocessing"
    /\ LET stdin == IF me[p].src \in TempFiles THEN {me[p].src} ELSE {}
       IN  \/ /\ Exists(me[p].src)
              /\ fs' = [Without(stdin) EXCEPT ![me[p].pre].data = <<"pre", Contents(me[p].src)>>]
              /\ Go(p, "dependencies") /\ UNCHANGED res
           \/ /\ fs' = Without(stdin \cup CleanupPre(p) \cup Cleanup(p)) /\ End(p, "error")
    /\ UNCHANGED <<inodes, job, me, w, kills, strangers>>

Source(p) == job[p].srcs[me[p].i]

\* The next source, when this one has given the artifact.
Push(p, artifact) ==
    Set(p, [me[p] EXCEPT !.i = @ + 1, !.done = Append(@, artifact)])

Dependencies(p) ==
    /\ pc[p] = "dependencies"
    /\ LET j == job[p]
           rule == <<"dep", <<"src", Source(p)>>>>
       IN  \/ /\ j.dep = "only" /\ j.depfile # NoPath
              /\ Stage(p, "copy", j.depfile, rule, NoPath, "listed")
              /\ UNCHANGED <<fs, me>>
           \/ /\ j.dep = "only" /\ j.depfile = NoPath
              /\ fs' = Without(CleanupPre(p))
              /\ Set(p, [me[p] EXCEPT !.i = @ + 1]) /\ Go(p, "take")
              /\ UNCHANGED w
           \/ /\ j.dep = "side"
              /\ Stage(p, "copy",
                       IF j.depfile # NoPath THEN j.depfile
                       ELSE WithExtension(Source(p), "d"), rule, NoPath, "noted")
              /\ UNCHANGED <<fs, me>>
           \/ /\ j.dep = "no"
              /\ Go(p, "compile") /\ UNCHANGED <<fs, me, w>>
    /\ UNCHANGED <<inodes, job, res, kills, strangers>>

Listed(p) ==
    /\ pc[p] = "listed"
    /\ fs' = Without(CleanupPre(p))
    /\ IF w[p].ok THEN Set(p, [me[p] EXCEPT !.i = @ + 1]) /\ Go(p, "take") /\ UNCHANGED res
       ELSE End(p, "error") /\ UNCHANGED me
    /\ UNCHANGED <<inodes, job, w, kills, strangers>>

\* A dependency file that cannot be written leaves what earlier sources gave.
Noted(p) ==
    /\ pc[p] = "noted"
    /\ IF w[p].ok THEN Go(p, "compile") /\ UNCHANGED <<fs, res>>
       ELSE fs' = Without(CleanupPre(p)) /\ End(p, "error")
    /\ UNCHANGED <<inodes, job, me, w, kills, strangers>>

\* compile, to the point where the assembly is written; -E stops before it.
Compile(p) ==
    /\ pc[p] = "compile"
    /\ LET pre == me[p].pre
           compiles == Exists(pre) /\ Contents(pre) \notin
                       UNION {{<<"src", f>>, <<"pre", <<"src", f>>>>} : f \in Broken}
       IN  \/ /\ job[p].stage = "E"
              /\ Push(p, Artifact(Source(p), pre, me[p].gen))
              /\ Go(p, "take") /\ UNCHANGED <<fs, w, res>>
           \/ /\ job[p].stage # "E" /\ ~compiles
              /\ fs' = Without(CleanupPre(p) \cup Cleanup(p)) /\ End(p, "error")
              /\ UNCHANGED <<me, w>>
           \/ /\ job[p].stage = "ir" /\ compiles
              /\ fs' = Without(CleanupPre(p))
              /\ Push(p, Artifact(Source(p), WithExtension(pre, "s"), TRUE))
              /\ Go(p, "take") /\ UNCHANGED <<w, res>>
           \/ /\ job[p].stage \notin {"E", "ir"} /\ compiles
              /\ Stage(p, "asm", WithExtension(pre, "s"), <<"asm", Contents(pre)>>, NoPath,
                       "compiled")
              /\ UNCHANGED <<fs, me, res>>
    /\ UNCHANGED <<inodes, job, kills, strangers>>

Compiled(p) ==
    /\ pc[p] = "compiled"
    /\ LET asm == WithExtension(me[p].pre, "s")
       IN  \/ /\ ~w[p].ok
              /\ fs' = Without(CleanupPre(p) \cup Cleanup(p)) /\ End(p, "error")
              /\ UNCHANGED <<me, w>>
           \/ /\ w[p].ok /\ job[p].stage = "S" /\ job[p].out = NoPath
              /\ fs' = Without(CleanupPre(p))
              /\ MoveTo(p, asm, WithExtension(Source(p), "s"), "moved")
              /\ UNCHANGED <<me, res>>
           \/ /\ w[p].ok /\ (job[p].stage # "S" \/ job[p].out # NoPath)
              /\ fs' = Without(CleanupPre(p))
              /\ Push(p, Artifact(Source(p), asm, TRUE))
              /\ Go(p, "take") /\ UNCHANGED <<w, res>>
    /\ UNCHANGED <<inodes, job, kills, strangers>>

Moved(p) ==
    /\ pc[p] = "moved"
    /\ IF w[p].ok
       THEN /\ Push(p, Artifact(Source(p), w[p].dst, FALSE))
            /\ Go(p, "take") /\ UNCHANGED <<fs, res>>
       ELSE /\ fs' = Without(IF job[p].keep THEN {} ELSE {w[p].from})
            /\ End(p, "error") /\ UNCHANGED me
    /\ UNCHANGED <<inodes, job, w, kills, strangers>>
----------------------------------------------------------------------------
(* driver: what is done with the artifacts once every source has given one.*)
Finish(p) ==
    /\ pc[p] = "take"
    /\ me[p].i > Len(job[p].srcs)
    /\ LET j == job[p]
           first == me[p].done[1]
       IN  IF j.dep # "only" /\ j.stage \in {"E", "S"} /\ j.out # NoPath
           THEN /\ IF first.generated THEN MoveTo(p, first.path, j.out, "delivered")
                   ELSE Stage(p, "copy", j.out, <<"absent">>, first.path, "delivered")
                /\ UNCHANGED <<me, res>>
           ELSE IF j.dep # "only" /\ j.stage = "exe"
           THEN Go(p, "link") /\ UNCHANGED <<me, w, res>>
           ELSE IF j.dep # "only" /\ j.stage \in {"E", "c"}
           THEN /\ Go(p, IF j.stage = "E" THEN "print" ELSE "assemble")
                /\ Set(p, [me[p] EXCEPT !.i = 1]) /\ UNCHANGED <<w, res>>
           ELSE End(p, "ok") /\ UNCHANGED <<me, w>>
    /\ UNCHANGED <<fs, inodes, job, kills, strangers>>

Delivered(p) ==
    /\ pc[p] = "delivered"
    /\ fs' = IF w[p].ok THEN fs ELSE Without(Cleanup(p))
    /\ End(p, IF w[p].ok THEN "ok" ELSE "error")
    /\ UNCHANGED <<inodes, job, me, w, kills, strangers>>

\* Standard output takes one artifact after the other; an unreadable one is
\* removed, those after it are not.
PrintSource(p) ==
    /\ pc[p] = "print"
    /\ LET done == me[p].done
           a == done[me[p].i]
           readable == Exists(a.path) /\ Contents(a.path) \notin
                       UNION {{<<"src", f>>, <<"pre", <<"src", f>>>>} : f \in Unprintable}
       IN  IF me[p].i > Len(done) THEN End(p, "ok") /\ UNCHANGED <<fs, me>>
           ELSE /\ fs' = Without(IF job[p].keep THEN {} ELSE Generated(<<a>>))
                /\ IF readable THEN Set(p, [me[p] EXCEPT !.i = @ + 1]) /\ UNCHANGED <<pc, res>>
                   ELSE End(p, "error") /\ UNCHANGED me
    /\ UNCHANGED <<inodes, job, w, kills, strangers>>

\* The external compiler writes its output whole or not at all; that it wrote
\* it does not mean that run_command could pass on what it said.
RunCompiler(p, out, inputs, d, then) ==
    /\ \/ /\ \A f \in inputs : Exists(f)
          /\ fs' = [fs EXCEPT ![Resolve(out)] = [data |-> d, ino |-> inodes + 1]]
          /\ inodes' = inodes + 1
          /\ \E ok \in BOOLEAN : w' = [w EXCEPT ![p].ok = ok]
       \/ w' = [w EXCEPT ![p].ok = FALSE] /\ UNCHANGED <<fs, inodes>>
    /\ Go(p, then)

Assemble(p) ==
    /\ pc[p] = "assemble"
    /\ me[p].i <= Len(me[p].done)
    /\ LET a == me[p].done[me[p].i]
           out == IF job[p].out # NoPath THEN job[p].out ELSE WithExtension(a.src, "o")
       IN  RunCompiler(p, out, {a.path}, <<"obj", Contents(a.path)>>, "assembled")
    /\ UNCHANGED <<job, me, res, kills, strangers>>

\* (Mutant: a failure removes only the artifact it met.)
AssembledAlone(p) ==
    /\ pc[p] = "assembled"
    /\ fs' = Without(Generated(<<me[p].done[me[p].i]>>))
    /\ IF ~w[p].ok THEN End(p, "error") /\ UNCHANGED me
       ELSE /\ Set(p, [me[p] EXCEPT !.i = @ + 1])
            /\ IF me[p].i = Len(me[p].done) THEN End(p, "ok")
               ELSE Go(p, "assemble") /\ UNCHANGED res
    /\ UNCHANGED <<inodes, job, w, kills, strangers>>
Assembled(p) ==
    /\ pc[p] = "assembled"
    /\ LET a == me[p].done[me[p].i]
           drop == IF w[p].ok THEN Generated(<<a>>) ELSE Generated(me[p].done)
       IN  /\ fs' = IF job[p].debug \/ job[p].keep THEN fs ELSE Without(drop)
           /\ IF ~w[p].ok THEN End(p, "error") /\ UNCHANGED me
              ELSE /\ Set(p, [me[p] EXCEPT !.i = @ + 1])
                   /\ IF me[p].i = Len(me[p].done) THEN End(p, "ok")
                      ELSE Go(p, "assemble") /\ UNCHANGED res
    /\ UNCHANGED <<inodes, job, w, kills, strangers>>

\* assemble_and_link.
Link(p) ==
    /\ pc[p] = "link"
    /\ LET done == me[p].done
           out == IF job[p].out # NoPath THEN job[p].out
                  ELSE WithExtension(job[p].srcs[1], "")
           exe == <<"exe", [n \in DOMAIN done |-> Contents(done[n].path)]>>
       IN  RunCompiler(p, out, {done[n].path : n \in DOMAIN done}, exe, "linked")
    /\ UNCHANGED <<job, me, res, kills, strangers>>

Linked(p) ==
    /\ pc[p] = "linked"
    /\ fs' = IF job[p].debug \/ job[p].keep THEN fs ELSE Without(Generated(me[p].done))
    /\ End(p, IF w[p].ok THEN "ok" ELSE "error")
    /\ UNCHANGED <<inodes, job, me, w, kills, strangers>>
----------------------------------------------------------------------------
(* copy_output, write_text_output, and compile's emission with             *)
(* publish_assembly: a temporary beside the file, filled, then renamed.    *)
Return(p, ok) == Go(p, w[p].then) /\ w' = [w EXCEPT ![p].ok = ok]

Open(p) ==
    /\ pc[p] = "open"
    /\ LET d == w[p].dst
           a == w[p].area
           same == w[p].from # NoPath /\ SameExistingPath(w[p].from, d)
           t == FreeTemp(p, a, "")
       IN  \/ same /\ Return(p, TRUE) /\ UNCHANGED <<fs, inodes, me>>
           \/ /\ ~same /\ a = "copy" /\ IsLink(d)
              /\ Go(p, "through") /\ UNCHANGED <<fs, inodes, me, w>>
           \/ /\ ~same /\ ~(a = "copy" /\ IsLink(d)) /\ t # NoPath
              /\ fs' = Create(t, <<"empty">>) /\ inodes' = inodes + 1
              /\ w' = [w EXCEPT ![p].temp = t, ![p].ino = inodes + 1]
              /\ Set(p, [me[p] EXCEPT !.next[a] = t[1][3] + 1])
              /\ Go(p, "fill")
           \/ /\ ~same /\ ~(a = "copy" /\ IsLink(d))
              /\ Return(p, FALSE) /\ UNCHANGED <<fs, inodes, me>>
    /\ UNCHANGED <<job, res, kills, strangers>>

Text(p) == IF w[p].from = NoPath THEN w[p].data ELSE Contents(w[p].from)
Readable(p) == w[p].from = NoPath \/ Exists(w[p].from)

\* (Mutant: a failed write is published all the same.)
FillRegardless(p) ==
    /\ pc[p] = "fill"
    /\ \/ Readable(p) /\ fs' = [fs EXCEPT ![w[p].temp].data = Text(p)]
       \/ fs' = [fs EXCEPT ![w[p].temp].data = Partial]
    /\ Go(p, "publish")
    /\ UNCHANGED <<inodes, job, me, w, res, kills, strangers>>
Fill(p) ==
    /\ pc[p] = "fill"
    /\ \/ /\ Readable(p)
          /\ fs' = [fs EXCEPT ![w[p].temp].data = Text(p)]
          /\ Go(p, "publish") /\ UNCHANGED w
       \/ /\ fs' = [fs EXCEPT ![w[p].temp].data = Partial]
          /\ Go(p, "drop") /\ w' = [w EXCEPT ![p].ok = FALSE]
    /\ UNCHANGED <<inodes, job, me, res, kills, strangers>>

\* Setting the permissions may fail as well as the rename.
Publish(p) ==
    /\ pc[p] = "publish"
    /\ \/ /\ fs' = [fs EXCEPT ![w[p].dst] = fs[w[p].temp], ![w[p].temp] = Absent]
          /\ UNCHANGED w
       \/ w' = [w EXCEPT ![p].ok = FALSE] /\ UNCHANGED fs
    /\ Go(p, "drop")
    /\ UNCHANGED <<inodes, job, me, res, kills, strangers>>

\* TempFile::drop: the path is removed only while it names the guarded file.
\* (Mutant: whatever is at the path is removed.)
DropByPath(p) ==
    /\ pc[p] = "drop"
    /\ fs' = Without({w[p].temp})
    /\ Go(p, w[p].then)
    /\ UNCHANGED <<inodes, job, me, w, res, kills, strangers>>
Drop(p) ==
    /\ pc[p] = "drop"
    /\ fs' = IF fs[w[p].temp].ino = w[p].ino THEN Without({w[p].temp}) ELSE fs
    /\ Go(p, w[p].then)
    /\ UNCHANGED <<inodes, job, me, w, res, kills, strangers>>

\* A link is written through, in place.
WriteThrough(p) ==
    /\ pc[p] = "through"
    /\ \/ /\ Readable(p)
          /\ fs' = [fs EXCEPT ![Resolve(w[p].dst)] = [data |-> Partial, ino |-> inodes + 1]]
          /\ inodes' = inodes + 1 /\ Go(p, "writing") /\ UNCHANGED w
       \/ Return(p, FALSE) /\ UNCHANGED <<fs, inodes>>
    /\ UNCHANGED <<job, me, res, kills, strangers>>

WrittenThrough(p) ==
    /\ pc[p] = "writing"
    /\ \/ /\ Readable(p)
          /\ fs' = [fs EXCEPT ![Resolve(w[p].dst)].data = Text(p)]
          /\ Return(p, TRUE)
       \/ Return(p, FALSE) /\ UNCHANGED fs
    /\ UNCHANGED <<inodes, job, me, res, kills, strangers>>

\* move_or_copy_output: a rename, or a copy when that fails, then the removal
\* of what was copied.
Move(p) ==
    /\ pc[p] = "move"
    /\ \/ /\ SameExistingPath(w[p].from, w[p].dst)
          /\ Return(p, TRUE) /\ UNCHANGED fs
       \/ /\ ~SameExistingPath(w[p].from, w[p].dst) /\ fs[w[p].from] # Absent
          /\ fs' = [fs EXCEPT ![w[p].dst] = fs[w[p].from], ![w[p].from] = Absent]
          /\ Return(p, TRUE)
       \/ /\ ~SameExistingPath(w[p].from, w[p].dst)
          /\ w' = [w EXCEPT ![p].then = "copied", ![p].after = w[p].then]
          /\ Go(p, "open") /\ UNCHANGED fs
    /\ UNCHANGED <<inodes, job, me, res, kills, strangers>>

Copied(p) ==
    /\ pc[p] = "copied"
    /\ \/ w[p].ok /\ fs' = Without({w[p].from}) /\ UNCHANGED w
       \/ w' = [w EXCEPT ![p].ok = FALSE] /\ UNCHANGED fs
    /\ Go(p, w[p].after)
    /\ UNCHANGED <<inodes, job, me, res, kills, strangers>>
----------------------------------------------------------------------------
(* The world around the driver.                                            *)
\* A command that is killed and not run again is one that takes no more steps.
Crash(p) ==
    /\ pc[p] \notin {"start", "end", "crashed"} /\ kills > 0
    /\ kills' = kills - 1
    /\ Go(p, "crashed") /\ res' = [res EXCEPT ![p] = "crashed"]
    /\ UNCHANGED <<fs, inodes, job, me, w, strangers>>

Restart(p) ==
    /\ pc[p] = "crashed"
    /\ Go(p, "start") /\ res' = [res EXCEPT ![p] = "running"]
    /\ Set(p, [Idle EXCEPT !.born = inodes]) /\ w' = [w EXCEPT ![p] = NoWrite]
    /\ UNCHANGED <<fs, inodes, job, kills, strangers>>

\* A stranger's file at a name the driver reserves before it writes.
Intrude ==
    /\ strangers > 0
    /\ \E f \in Intrusions : fs[f] = Absent /\ fs' = Create(f, Foreign)
    /\ inodes' = inodes + 1 /\ strangers' = strangers - 1
    /\ UNCHANGED <<job, pc, me, w, res, kills>>

Finished ==
    /\ \A p \in Procs : pc[p] = "end"
    /\ UNCHANGED vars

Step(p) ==
    \/ Start(p) \/ Take(p) \/ ReadStdin(p) \/ Reserve(p) \/ Truncate(p) \/ Preprocess(p)
    \/ Dependencies(p) \/ Listed(p) \/ Noted(p) \/ Compile(p) \/ Compiled(p) \/ Moved(p)
    \/ Finish(p) \/ Delivered(p) \/ PrintSource(p) \/ Assemble(p) \/ Assembled(p)
    \/ Link(p) \/ Linked(p)
    \/ Open(p) \/ Fill(p) \/ Publish(p) \/ Drop(p) \/ WriteThrough(p) \/ WrittenThrough(p)
    \/ Move(p) \/ Copied(p)

Next ==
    \/ \E p \in Procs : Step(p) \/ Crash(p) \/ Restart(p)
    \/ Intrude \/ Finished

Spec == Init /\ [][Next]_vars
----------------------------------------------------------------------------
(* Correctness.                                                            *)

\* What a command is asked for, and may leave, in each file.
Preprocessed(s) == IF s[2] = "i" THEN <<"src", s>> ELSE <<"pre", <<"src", s>>>>
Assembly(s, lang) == IF IsLinkerInput(InputKind(s, lang)) THEN <<"src", s>>
                     ELSE <<"asm", Preprocessed(s)>>
Asked(j, f) ==
    LET first == j.srcs[1]
        asm(s) == Assembly(s, j.lang)
        named(e) == {s \in ToSet(j.srcs) :
                       f = IF j.out # NoPath THEN j.out ELSE WithExtension(s, e)}
    IN  CASE Rejected(j) -> {}
          [] j.dep # "no" /\ f = j.depfile -> {<<"dep", <<"src", first>>>>}
          [] j.dep = "side" /\ j.depfile = NoPath /\ f[2] = "d" ->
                {<<"dep", <<"src", s>>>> : s \in {x \in ToSet(j.srcs) : f = WithExtension(x, "d")}}
          [] j.stage = "E" /\ f = j.out -> {Preprocessed(first)}
          [] j.stage = "S" -> {asm(s) : s \in named("s") \ {f}}
          [] j.stage = "c" -> {<<"obj", asm(s)>> : s \in named("o")}
          [] j.stage = "exe" /\ first \in named("") ->
                {<<"exe", [n \in DOMAIN j.srcs |-> asm(j.srcs[n])]>>}
          [] OTHER -> {}

\* The assembly beside a source: kept, or that of a preprocessed source, which
\* the driver takes for its own even when a file of the user has the name.
Beside(j, f) ==
    {<<"absent">>} \cup {<<"asm", Preprocessed(s)>> :
       s \in {x \in ToSet(j.srcs) : /\ f = WithExtension(x, "s") /\ f # x
                                    /\ j.keep \/ x[2] = "i"}}

\* Files that are written in place: the target of a link, and a kept .i.
Promised == {f \in UserFiles : f[2] # "i" /\ f \notin DOMAIN Links \cup LinkTargets}

\* An output is never seen half written, whoever runs, fails or is killed.
OutputsAreWhole == \A f \in Promised : fs[f].data \notin {Partial, <<"empty">>}

\* Every step is one that users may see: the driver implements Publication.
Published == INSTANCE Publication WITH
    Commands <- Procs,
    Files    <- Promised,
    visible  <- [f \in Promised |-> fs[f].data],
    may      <- [p \in Procs |-> [f \in Promised |->
                   Asked(job[p], f) \cup (IF Cardinality(Beside(job[p], f)) > 1
                                          THEN Beside(job[p], f) ELSE {})]],
    must     <- [p \in Procs |-> {f \in Promised : Asked(job[p], f) # {}}],
    status   <- res
FilesArePublished == Published!Spec

\* A command that has ended leaves no temporary of its own, unless it was told
\* to keep them (what it left when it was killed stays), or it failed over a dependency file or
\* an unprintable source, whose error paths forget what came before or after.
Forgets(p) ==
    /\ res[p] = "error"
    /\ \/ w[p].then = "noted" /\ ~w[p].ok
       \/ job[p].stage = "E" /\ Len(me[p].done) = Len(job[p].srcs)
NothingIsLeftBehind ==
    \A p \in Procs :
       pc[p] = "end" /\ ~job[p].keep /\ ~job[p].debug /\ ~Forgets(p)
       => \A f \in TempFiles :
             f[1][2] = p /\ fs[f].ino > me[p].born => fs[f].data = Foreign

\* A file somebody else put at a name the driver would reserve stays.
ForeignFilesStay ==
    [][\A f \in TempFiles : fs[f].data = Foreign => fs'[f] = fs[f]]_vars
============================================================================
