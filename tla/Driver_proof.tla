---------------------------- MODULE Driver_proof ----------------------------
(***************************************************************************)
(* Theorems about the driver and the files it leaves.                      *)
(***************************************************************************)
EXTENDS Driver, WellFoundedInduction, TLAPS

(* The files of a process: its temporaries, those of the preprocessor, and *)
(* those that a staged write fills.                                        *)
Own(p) == {f \in TempFiles : f[1][2] = p}
Tmp(p, e) == {<<<<"tmp", p, n>>, e>> : n \in 0 .. MaxTemp}
Staging(p) == {<<<<"copy", p, n>>, "">> : n \in 0 .. MaxTemp}
              \cup {<<<<"asm", p, n>>, "">> : n \in 0 .. MaxTemp}

(* A staged write or a move returns to the point that asked for it.        *)
Staged == {"open", "fill", "publish", "drop", "through", "writing", "move", "copied"}
Phase(l, v) == IF l \notin Staged THEN l ELSE IF v.then = "copied" THEN v.after ELSE v.then

Fetching == {"reserve", "preprocess", "preprocessing"}
Preprocessing == {"preprocess", "preprocessing", "dependencies", "listed", "noted",
                  "compile", "compiled"}
Sourcing == Fetching \cup Preprocessing \cup {"stdin", "moved"}
Finishing == {"print", "assemble", "assembled", "link", "linked", "delivered"}
Active == Sourcing \cup Finishing \cup {"take"}
Labels == {"start", "end", "crashed"} \cup Active \cup Staged
Results == {"running", "ok", "error", "crashed"}

Whole(d) == d \notin {Partial, <<"empty">>}
Asm(m) == WithExtension(m.pre, "s")
----------------------------------------------------------------------------
(* The inductive invariant.                                                *)
IsJob(j) ==
    /\ j.srcs \in Seq(UserFiles \cup {Stdin}) /\ j.srcs # <<>>
    /\ {j.out, j.depfile} \subseteq UserFiles \cup {NoPath}
    /\ {j.keep, j.debug} \subseteq BOOLEAN
    /\ j.keep => Stdin \notin ToSet(j.srcs)
    /\ j.stage \in {"E", "S", "c", "ir", "exe"} /\ j.dep \in {"only", "side", "no"}
    /\ j.dep = "only" => j.stage = "E"
    /\ Beneath(j) \cap (DOMAIN Links \cup LinkTargets) = {}
JobsOK ==
    /\ \A p \in Procs : IsJob(job[p])
    /\ \A p, q \in Procs : p # q =>
          KeptFiles(job[p]) \cap (ToSet(job[q].srcs) \cup KeptFiles(job[q])) = {}

LocalsShape(m) ==
    m = [born |-> m.born, i |-> m.i, src |-> m.src, pre |-> m.pre, gen |-> m.gen,
         done |-> m.done, next |-> m.next]
IsLocals(m) ==
    /\ LocalsShape(m)
    /\ m.born \in Nat /\ m.i \in Nat \ {0} /\ m.gen \in BOOLEAN
    /\ m.done \in Seq([src : UserFiles \cup {Stdin}, path : Path, generated : BOOLEAN])
    /\ m.next \in [{"tmp", "copy", "asm"} -> Nat]
IsWrite(v) ==
    v = [area |-> v.area, dst |-> v.dst, data |-> v.data, from |-> v.from, temp |-> v.temp,
         ino |-> v.ino, then |-> v.then, after |-> v.after, ok |-> v.ok]
IsFile(r) == r = [data |-> r.data, ino |-> r.ino] /\ r.ino \in 0 .. inodes
TypeOK ==
    /\ DOMAIN fs = Path /\ \A f \in Path : IsFile(fs[f])
    /\ inodes \in Nat /\ kills \in Nat /\ strangers \in Nat
    /\ pc \in [Procs -> Labels]
    /\ DOMAIN me = Procs /\ \A p \in Procs : IsLocals(me[p])
    /\ DOMAIN w = Procs /\ \A p \in Procs : IsWrite(w[p])
    /\ res \in [Procs -> Results]

(* How far a command is.                                                   *)
Progress(j, ph, m) ==
    /\ ph \in Active \cup {"start", "end", "crashed"}
    /\ ph \in Active => ~Rejected(j)
    /\ ph \in Sourcing => m.i <= Len(j.srcs)
    /\ ph \in Sourcing \cup {"take"} =>
          m.i <= Len(j.srcs) + 1 /\ Len(m.done) = IF j.dep = "only" THEN 0 ELSE m.i - 1
    /\ ph = "listed" => j.dep = "only"
    /\ ph = "noted" => j.dep = "side"
    /\ ph \in {"compile", "compiled", "moved"} \cup Finishing => j.dep # "only"
    /\ ph \in {"compiled", "moved"} => j.stage \notin {"E", "ir"}
    /\ ph = "moved" => j.stage = "S" /\ j.out = NoPath
    /\ ph \in Finishing => Len(m.done) = Len(j.srcs)
    /\ ph = "print" => j.stage = "E"
    /\ ph \in {"assemble", "assembled"} => j.stage = "c"
    /\ ph \in {"link", "linked"} => j.stage = "exe"
    /\ ph = "delivered" => j.stage \in {"E", "S"} /\ j.out # NoPath /\ Len(j.srcs) = 1
    /\ ph = "assembled" => m.i <= Len(m.done)
    /\ ph = "start" => m.done = <<>> /\ m.i = 1

(* Where what it made is.                                                  *)
ReadsFrom(p, j, m) ==
    \/ m.src = j.srcs[m.i] /\ m.src \in UserFiles /\ m.src[2] # "i"
    \/ m.src \in Tmp(p, "c") /\ ~j.keep
PreOK(p, j, m) ==
    IF ~m.gen THEN m.pre \in ToSet(j.srcs) \cap UserFiles
    ELSE IF j.keep THEN m.pre \in KeptFiles(j) ELSE m.pre \in Tmp(p, "i")
ArtifactOK(p, j, a) ==
    IF ~a.generated THEN a.path \in UserFiles /\ (j.out # NoPath => a.path \in ToSet(j.srcs))
    ELSE IF j.stage = "E"
    THEN IF j.keep THEN a.path \in KeptFiles(j) ELSE a.path \in Tmp(p, "i")
    ELSE /\ a.path \in Tmp(p, "s") \cup (Beneath(j) \cap UserFiles) /\ a.path[2] = "s"
         /\ j.stage # "S" \/ j.out # NoPath
Places(p, j, ph, m) ==
    /\ ph = "stdin" => j.srcs[m.i] = Stdin
    /\ ph \in Fetching => ReadsFrom(p, j, m)
    /\ ph \in {"preprocess", "preprocessing"} => m.gen
    /\ ph \in Preprocessing \cup {"moved"} => PreOK(p, j, m)
    /\ \A n \in DOMAIN m.done : ArtifactOK(p, j, m.done[n])

(* What a staged write or a move is about.                                 *)
Writing(p, j, ph, m, v, l) ==
    /\ l = "noted" => v.then = "noted"
    /\ l = "moved" => v.from = Asm(m) /\ v.dst \in UserFiles
    /\ l \in Staged =>
       /\ ph \in {"listed", "noted", "compiled", "moved", "delivered"}
       /\ v.then = "copied" => v.after \in {"moved", "delivered"}
       /\ l = "copied" => v.then = "copied"
       /\ l = "move" => v.then # "copied" /\ ph \in {"moved", "delivered"}
       /\ (l = "move" \/ v.then = "copied") /\ ph = "delivered" => m.done[1].generated
       /\ l # "move" => v.then # "moved"
       /\ l # "move" /\ v.then = "delivered" => ~m.done[1].generated
       /\ ph # "compiled" => v.area = "copy" /\ v.dst \in UserFiles
       /\ ph = "compiled" => v.area = "asm" /\ v.dst = Asm(m) /\ v.data[1] = "asm"
       /\ ph = "compiled" /\ l \in {"open", "fill", "publish"} => v.ok
       /\ ph \in {"listed", "noted"} => v.data[1] = "dep"
       /\ ph \in {"listed", "noted", "compiled"} => v.from = NoPath
       /\ ph = "moved" => v.from = Asm(m)
       /\ ph = "delivered" => v.from = m.done[1].path
       /\ l \in {"fill", "publish", "drop"} => v.temp \in Staging(p) /\ v.ino \in Nat \ {0}
       /\ l \in {"through", "writing"} => v.dst \in DOMAIN Links /\ v.area = "copy"

(* The temporary files that a command counts on, and those it may leave if *)
(* it were killed now.                                                     *)
Pending(ph, m, v, l) ==
    {n \in DOMAIN m.done : /\ m.done[n].generated
                           /\ ph \in {"print", "assemble", "assembled"} => n >= m.i
                           /\ ~(l = "delivered" /\ v.ok)}
Working(ph, m) ==
    {f \in {m.src} : ph \in Fetching} \cup {f \in {m.pre} : ph \in Preprocessing /\ m.gen}
Held(j, ph, m, v, l) ==
    IF j.keep \/ ph \notin Active THEN {}
    ELSE (Working(ph, m) \cap TempFiles)
         \cup {m.done[n].path : n \in {k \in Pending(ph, m, v, l) : j.stage = "E"}}
Remaining(j, ph, m, v, l) ==
    IF ph \notin Active THEN {}
    ELSE Working(ph, m)
         \cup {m.done[n].path : n \in {k \in Pending(ph, m, v, l) : j.stage # "ir"}}
         \cup {f \in {Asm(m)} : \/ ph = "compiled" /\ v.ok /\ l \notin {"open", "fill", "publish"}
                                \/ ph = "moved" /\ ~(l = "moved" /\ v.ok)}
         \cup {f \in {v.temp} : l \in {"fill", "publish", "drop"}}

HeldExist(j, ph, m, v, l, F) ==
    \A f \in Held(j, ph, m, v, l) : F[f].data \notin {Foreign, <<"absent">>}
Distinct(j, ph, m) ==
    ph \in Active /\ ~j.keep /\ j.stage = "E" =>
    \A n \in DOMAIN m.done : m.done[n].generated =>
       /\ \A k \in DOMAIN m.done : k # n /\ m.done[k].generated => m.done[n].path # m.done[k].path
       /\ ph \in Preprocessing /\ m.gen => m.pre # m.done[n].path
TempOK(v, l, F, n) ==
    l \in {"fill", "publish", "drop"} =>
    /\ v.ino <= n
    /\ F[v.temp].ino = v.ino => F[v.temp].data # Foreign
    /\ l \in {"fill", "publish"} => F[v.temp].ino = v.ino
    /\ l = "publish" => Whole(F[v.temp].data)
ReadyWhole(j, ph, m, F) ==
    j.stage = "E" /\ j.out # NoPath =>
    /\ ph \in {"dependencies", "noted", "compile"} => Whole(F[m.pre].data)
    /\ ph \in {"take", "delivered"} /\ m.done # <<>> => Whole(F[m.done[1].path].data)
LeftOK(p, j, ph, m, v, l, F) ==
    ~j.keep /\ ~j.debug /\ l # "crashed" =>
    \A f \in Own(p) : F[f].ino > m.born /\ F[f].data # Foreign =>
       /\ f \in Remaining(j, ph, m, v, l)
       /\ l = "drop" /\ f = v.temp => F[f].ino = v.ino

LocalOK(p, j, ph, m, v, l, F, n) ==
    /\ Progress(j, ph, m)
    /\ Places(p, j, ph, m)
    /\ Writing(p, j, ph, m, v, l)
    /\ HeldExist(j, ph, m, v, l, F)
    /\ Distinct(j, ph, m)
    /\ TempOK(v, l, F, n)
    /\ ReadyWhole(j, ph, m, F)
Local(p) == LocalOK(p, job[p], Phase(pc[p], w[p]), me[p], w[p], pc[p], fs, inodes)

\* Forgets, of the values that a process has.
ForgetsAt(j, m, v, r) ==
    /\ r = "error"
    /\ \/ v.then = "noted" /\ ~v.ok
       \/ j.stage = "E" /\ Len(m.done) = Len(j.srcs)
LeavesOK(p, j, l, m, v, r, F) ==
    ~(l = "end" /\ ForgetsAt(j, m, v, r)) => LeftOK(p, j, Phase(l, v), m, v, l, F)
Leaves(p) == LeavesOK(p, job[p], pc[p], me[p], w[p], res[p], fs)

(* What is true of every file.                                             *)
InPlace == DOMAIN Links \cup LinkTargets \cup UNION {KeptFiles(job[q]) : q \in Procs}
LinksStay ==
    \A f \in Path : IsLink(f) => f \in DOMAIN Links /\ fs[f].data = <<"link", Links[f]>>
StrangersStay == \A f \in Path : fs[f].data = Foreign => f \in Intrusions
HalvesInPlace ==
    \A f \in Path :
       f \in UserFiles \/ f[2] = "s" => Whole(fs[f].data) \/ f \in InPlace

Inv ==
    /\ TypeOK /\ JobsOK
    /\ LinksStay /\ StrangersStay /\ HalvesInPlace
    /\ \A p \in Procs : Local(p) /\ Leaves(p)
----------------------------------------------------------------------------
(* Paths and names.                                                        *)

(* What a user names is no temporary; a temporary belongs to one process   *)
(* and serves one purpose.                                                 *)
LEMMA PathFacts ==
    /\ Path = UserFiles \cup TempFiles /\ \A f \in UserFiles : f \notin TempFiles
    /\ NoPath \notin Path
    /\ \A f \in UserFiles : Len(f[1]) = 1
    /\ \A f \in TempFiles : Len(f[1]) = 3
<1>1. \A f \in TempFiles : Len(f[1]) = 3
  <2> SUFFICES ASSUME NEW f \in TempFiles
               PROVE  Len(f[1]) = 3
    OBVIOUS
  <2>1. PICK a \in Areas, p \in Procs, n \in 0 .. MaxTemp : f = <<<<a[1], p, n>>, a[2]>>
    BY DEF TempFiles
  <2>2. f[1] = <<a[1], p, n>>
    BY <2>1
  <2> QED
    BY <2>2
<1>2. \A f \in UserFiles : Len(f[1]) = 1
  BY DriverAssumption
<1>3. Len(NoPath[1]) = 0
  BY DEF NoPath
<1> QED
  BY <1>1, <1>2, <1>3 DEF Path

(* The temporaries of a process are its own, and each kind has its         *)
(* extension.                                                              *)
LEMMA TempFacts ==
    ASSUME NEW p \in Procs
    PROVE  /\ Own(p) \subseteq TempFiles
           /\ \A q \in Procs : q # p => Own(p) \cap Own(q) = {}
           /\ Tmp(p, "i") \subseteq Own(p) /\ Tmp(p, "s") \subseteq Own(p) /\ Tmp(p, "c") \subseteq Own(p)
           /\ Staging(p) \subseteq Own(p)
           /\ \A f \in Tmp(p, "i") : f[2] = "i"
           /\ \A f \in Tmp(p, "s") : f[2] = "s"
           /\ \A f \in Tmp(p, "c") : f[2] = "c"
           /\ \A f \in Staging(p) : f[2] = ""
           /\ \A f \in Tmp(p, "i") : WithExtension(f, "s") \in Tmp(p, "s")
<1>1. \A q \in Procs : q # p => Own(p) \cap Own(q) = {}
  BY DEF Own
<1>2. ASSUME NEW e \in {"i", "s", "c"}, NEW f \in Tmp(p, e)
      PROVE  f \in Own(p) /\ f[2] = e
  <2>1. PICK n \in 0 .. MaxTemp : f = <<<<"tmp", p, n>>, e>>
    BY DEF Tmp
  <2>2. <<"tmp", e>> \in Areas
    BY DEF Areas
  <2>3. f = <<<<<<"tmp", e>>[1], p, n>>, <<"tmp", e>>[2]>>
    BY <2>1
  <2>4. f \in TempFiles
    BY <2>2, <2>3 DEF TempFiles
  <2> QED
    BY <2>1, <2>4 DEF Own
<1>3. ASSUME NEW n \in 0 .. MaxTemp, NEW a, a \in {"copy", "asm"}
      PROVE  <<<<a, p, n>>, "">> \in Own(p)
  <2>1. <<"copy", "">> \in Areas /\ <<"asm", "">> \in Areas
    BY DEF Areas
  <2>2. \A b \in Areas : <<<<b[1], p, n>>, b[2]>> \in TempFiles
    BY DEF TempFiles
  <2>3. <<<<"copy", p, n>>, "">> \in TempFiles
    <3> DEFINE b == <<"copy", "">>
    <3>1. b[1] = "copy" /\ b[2] = ""
      OBVIOUS
    <3> QED
      BY <2>1, <2>2, <3>1
  <2>4. <<<<"asm", p, n>>, "">> \in TempFiles
    <3> DEFINE b == <<"asm", "">>
    <3>1. b[1] = "asm" /\ b[2] = ""
      OBVIOUS
    <3> QED
      BY <2>1, <2>2, <3>1
  <2>5. <<<<a, p, n>>, "">> \in TempFiles
    BY <1>3, <2>3, <2>4
  <2> QED
    BY <2>5 DEF Own
<1>4. Staging(p) \subseteq Own(p)
  <2>1. \A n \in 0 .. MaxTemp : <<<<"copy", p, n>>, "">> \in Own(p)
    BY <1>3
  <2>2. \A n \in 0 .. MaxTemp : <<<<"asm", p, n>>, "">> \in Own(p)
    BY <1>3
  <2> QED
    BY <2>1, <2>2 DEF Staging
<1>5. ASSUME NEW f \in Staging(p)
      PROVE  f[2] = ""
  <2>1. CASE f \in {<<<<"copy", p, n>>, "">> : n \in 0 .. MaxTemp}
    <3>1. PICK n \in 0 .. MaxTemp : f = <<<<"copy", p, n>>, "">>
      BY <2>1
    <3> QED
      BY <3>1
  <2>2. CASE f \in {<<<<"asm", p, n>>, "">> : n \in 0 .. MaxTemp}
    <3>1. PICK n \in 0 .. MaxTemp : f = <<<<"asm", p, n>>, "">>
      BY <2>2
    <3> QED
      BY <3>1
  <2> QED
    BY <1>5, <2>1, <2>2 DEF Staging
<1>6. ASSUME NEW f \in Tmp(p, "i")
      PROVE  WithExtension(f, "s") \in Tmp(p, "s")
  <2>1. PICK n \in 0 .. MaxTemp : f = <<<<"tmp", p, n>>, "i">>
    BY <1>6 DEF Tmp
  <2>2. WithExtension(f, "s") = <<<<"tmp", p, n>>, "s">>
    BY <2>1 DEF WithExtension
  <2> QED
    BY <2>2 DEF Tmp
<1>7. \A e \in {"i", "s", "c"} : Tmp(p, e) \subseteq Own(p) /\ \A f \in Tmp(p, e) : f[2] = e
  BY <1>2
<1>8. Own(p) \subseteq TempFiles
  BY DEF Own
<1> QED
  BY <1>1, <1>4, <1>5, <1>6, <1>7, <1>8

(* What is read or made beside the sources of a command.                   *)
LEMMA CommandFacts ==
    ASSUME NEW j, IsJob(j)
    PROVE  /\ Len(j.srcs) \in Nat /\ Len(j.srcs) >= 1
           /\ \A n \in 1 .. Len(j.srcs) : j.srcs[n] \in UserFiles \cup {Stdin}
           /\ \A n \in 1 .. Len(j.srcs) : j.srcs[n] \in ToSet(j.srcs)
           /\ \A f \in ToSet(j.srcs) : f \in UserFiles \cup {Stdin}
           /\ KeptFiles(j) \subseteq UserFiles
           /\ \A f \in KeptFiles(j) : f[2] = "i" /\ f \in Beneath(j)
           /\ \A f \in KeptFiles(j) : WithExtension(f, "s") \in Beneath(j) \cap UserFiles
           /\ \A f \in ToSet(j.srcs) : WithExtension(f, "s") \in Beneath(j) \cap UserFiles
           /\ \A f \in ToSet(j.srcs) : f \in Beneath(j)
           /\ \A f \in ToSet(j.srcs), e \in {"i", "s", "o", "d", ""} :
                 WithExtension(f, e) \in UserFiles
<1> DEFINE S == UserFiles \cup {Stdin}
<1>1. j.srcs \in Seq(S) /\ j.srcs # <<>>
  BY DEF IsJob
<1>2. Len(j.srcs) \in Nat /\ Len(j.srcs) >= 1 /\ DOMAIN j.srcs = 1 .. Len(j.srcs)
  BY <1>1
<1>3. \A n \in 1 .. Len(j.srcs) : j.srcs[n] \in S
  BY <1>1
<1>4. ToSet(j.srcs) = {j.srcs[n] : n \in 1 .. Len(j.srcs)}
  BY <1>2 DEF ToSet
<1>5. ToSet(j.srcs) \subseteq S
  BY <1>3, <1>4
<1>6. ASSUME NEW f \in ToSet(j.srcs), NEW e \in {"i", "s", "o", "d", ""}
      PROVE  WithExtension(f, e) \in UserFiles
  BY <1>5, DriverAssumption
<1>7. ASSUME NEW f \in ToSet(j.srcs)
      PROVE  /\ WithExtension(f, "s") \in Beneath(j)
             /\ WithExtension(f, "i") \in Beneath(j)
             /\ WithExtension(f, "i")[2] = "i"
             /\ WithExtension(WithExtension(f, "i"), "s") = WithExtension(f, "s")
  <2>1. WithExtension(f, "s") \in Beneath(j) /\ WithExtension(f, "i") \in Beneath(j)
    BY DEF Beneath
  <2> QED
    BY <2>1 DEF WithExtension
<1>8. \A f \in KeptFiles(j) : \E s \in ToSet(j.srcs) : f = WithExtension(s, "i")
  BY DEF KeptFiles
<1>9. \A f \in ToSet(j.srcs) : f \in Beneath(j)
  BY DEF Beneath
<1>10. \A f \in ToSet(j.srcs) : WithExtension(f, "s") \in UserFiles /\ WithExtension(f, "i") \in UserFiles
  BY <1>6
<1>11. KeptFiles(j) \subseteq UserFiles
  BY <1>8, <1>10
<1>12. \A f \in KeptFiles(j) : f[2] = "i" /\ f \in Beneath(j)
  BY <1>8, <1>7
<1>13. \A f \in KeptFiles(j) : WithExtension(f, "s") \in Beneath(j) \cap UserFiles
  <2> SUFFICES ASSUME NEW f \in KeptFiles(j)
               PROVE  WithExtension(f, "s") \in Beneath(j) \cap UserFiles
    OBVIOUS
  <2>1. PICK s \in ToSet(j.srcs) : f = WithExtension(s, "i")
    BY <1>8
  <2>2. WithExtension(f, "s") = WithExtension(s, "s")
    BY <2>1, <1>7
  <2> QED
    BY <2>2, <1>7, <1>10
<1>14. \A f \in ToSet(j.srcs) : WithExtension(f, "s") \in Beneath(j) \cap UserFiles
  BY <1>7, <1>10
<1>15. \A n \in 1 .. Len(j.srcs) : j.srcs[n] \in ToSet(j.srcs)
  BY <1>4
<1> HIDE DEF S
<1> QED
  BY <1>2, <1>3, <1>5, <1>6, <1>9, <1>11, <1>12, <1>13, <1>14, <1>15 DEF S
----------------------------------------------------------------------------
(* What a step of a process does to the files.                             *)
Shared(p) == DOMAIN Links \cup LinkTargets \cup KeptFiles(job[p])
Settled(p) ==
    /\ DOMAIN fs' = Path /\ inodes' \in Nat /\ inodes <= inodes' /\ job' = job
    /\ \A f \in Path : fs'[f] = [data |-> fs'[f].data, ino |-> fs'[f].ino]
    /\ \A f \in Path : fs'[f].ino \in 0 .. inodes'
    /\ LinksStay' /\ StrangersStay' /\ HalvesInPlace'
    /\ \A f \in Path : fs'[f] = fs[f] \/ f \in Own(p) \cup UserFiles
    /\ \A f \in UserFiles : Whole(fs[f].data) => Whole(fs'[f].data) \/ f \in Shared(p)
    /\ \A f \in TempFiles : fs[f].data = Foreign => fs'[f] = fs[f]

(* A step that writes only so settles.                                     *)
MayWrite(p, f, r) ==
    /\ f \in Own(p) \cup UserFiles
    /\ r = [data |-> r.data, ino |-> r.ino] /\ r.ino \in 0 .. inodes'
    /\ r.data[1] # "link" /\ r.data # Foreign
    /\ f \in TempFiles => fs[f].data # Foreign
    /\ Whole(r.data) \/ f \in Shared(p) \/ (f \in TempFiles /\ f[2] # "s")

(* Writing a file that is its own to write disturbs no other process.      *)
LEMMA WritesSettle ==
    ASSUME Inv, NEW p \in Procs, job' = job, inodes' \in Nat, inodes <= inodes', DOMAIN fs' = Path,
           \A f \in Path : fs'[f] = fs[f] \/ MayWrite(p, f, fs'[f])
    PROVE  Settled(p)
<1>1. \A f \in Path : fs'[f] = [data |-> fs'[f].data, ino |-> fs'[f].ino]
  BY DEF Inv, TypeOK, IsFile, MayWrite
<1>2. \A f \in Path : fs'[f].ino \in 0 .. inodes'
  BY DEF Inv, TypeOK, IsFile, MayWrite
<1>3. LinksStay'
  BY DEF Inv, LinksStay, IsLink, MayWrite
<1>4. StrangersStay'
  BY DEF Inv, StrangersStay, MayWrite
<1>5. HalvesInPlace'
  <2> SUFFICES ASSUME NEW f \in Path, f \in UserFiles \/ f[2] = "s", ~Whole(fs'[f].data)
               PROVE  f \in InPlace'
    BY DEF HalvesInPlace
  <2>1. InPlace' = InPlace /\ Shared(p) \subseteq InPlace
    BY DEF InPlace, Shared
  <2>2. CASE fs'[f] = fs[f]
    BY <2>1, <2>2 DEF Inv, HalvesInPlace
  <2>3. CASE MayWrite(p, f, fs'[f])
    BY <2>1, <2>3, PathFacts DEF MayWrite
  <2> QED
    BY <2>2, <2>3
<1>6. \A f \in Path : fs'[f] = fs[f] \/ f \in Own(p) \cup UserFiles
  BY DEF MayWrite
<1>7. \A f \in UserFiles : Whole(fs[f].data) => Whole(fs'[f].data) \/ f \in Shared(p)
  BY PathFacts DEF MayWrite
<1>8. \A f \in TempFiles : fs[f].data = Foreign => fs'[f] = fs[f]
  BY PathFacts DEF MayWrite
<1> QED
  BY <1>1, <1>2, <1>3, <1>4, <1>5, <1>6, <1>7, <1>8 DEF Settled

(* A step that leaves the files alone disturbs no other process.           *)
LEMMA NoWriteSettles ==
    ASSUME Inv, NEW p \in Procs, UNCHANGED <<fs, inodes, job>>
    PROVE  Settled(p)
<1>1. DOMAIN fs' = Path /\ inodes' \in Nat /\ inodes <= inodes'
  BY DEF Inv, TypeOK
<1> QED
  BY <1>1, WritesSettle

(* Files that are removed: none of a stranger.                             *)
Removes(S) == DOMAIN fs' = Path /\ \A f \in Path : fs'[f] = IF f \in S THEN Absent ELSE fs[f]
Ours(p, S) == \A f \in S \cap TempFiles : f \in Own(p) /\ fs[f].data # Foreign

(* Removing its own temporaries disturbs no other process.                 *)
LEMMA RemovalSettles ==
    ASSUME Inv, NEW p \in Procs, UNCHANGED <<inodes, job>>, NEW S, Removes(S), Ours(p, S)
    PROVE  Settled(p)
<1>1. inodes' \in Nat /\ inodes <= inodes'
  BY DEF Inv, TypeOK
<1>2. ASSUME NEW f \in Path, f \in S
      PROVE  MayWrite(p, f, fs'[f])
  <2>1. fs'[f] = Absent
    BY <1>2 DEF Removes
  <2>2. /\ Absent = [data |-> Absent.data, ino |-> Absent.ino] /\ Absent.ino = 0
        /\ Absent.data[1] = "absent" /\ Absent.data # Foreign /\ Whole(Absent.data)
    BY DEF Absent, Foreign, Whole, Partial
  <2>3. 0 \in 0 .. inodes'
    BY <1>1
  <2> HIDE DEF Absent
  <2> QED
    BY <1>2, <2>1, <2>2, <2>3, PathFacts DEF MayWrite, Ours
<1> QED
  BY <1>1, <1>2, WritesSettle DEF Removes

(* What the other processes know stays true.                               *)
LEMMA OthersKeep ==
    ASSUME Inv, NEW p \in Procs, Settled(p), NEW q \in Procs, q # p,
           pc'[q] = pc[q], me'[q] = me[q], w'[q] = w[q], res'[q] = res[q]
    PROVE  (Local(q) /\ Leaves(q))'
<1> DEFINE j == job[q]
           l == pc[q]
           m == me[q]
           v == w[q]
           ph == Phase(l, v)
<1>1. /\ IsJob(j) /\ Local(q) /\ Leaves(q)
      /\ Own(p) \cap Own(q) = {} /\ Own(q) \subseteq TempFiles
  BY TempFacts DEF Inv, JobsOK
<1>2. /\ job'[q] = j /\ pc'[q] = l /\ me'[q] = m /\ w'[q] = v /\ Phase(pc'[q], w'[q]) = ph
  BY DEF Settled
<1>3. /\ Progress(j, ph, m) /\ Places(q, j, ph, m) /\ Writing(q, j, ph, m, v, l)
      /\ HeldExist(j, ph, m, v, l, fs) /\ Distinct(j, ph, m) /\ TempOK(v, l, fs, inodes)
      /\ ReadyWhole(j, ph, m, fs)
  BY <1>1 DEF Local, LocalOK
<1>4. \A f \in Own(q) : f \in TempFiles /\ f \in Path /\ fs'[f] = fs[f]
  BY <1>1, PathFacts DEF Settled
<1>5. HeldExist(j, ph, m, v, l, fs')
  <2>1. Held(j, ph, m, v, l) \subseteq Own(q)
    <3> SUFFICES ASSUME ~j.keep, ph \in Active
                 PROVE  Held(j, ph, m, v, l) \subseteq Own(q)
      BY DEF Held
    <3>1. ASSUME NEW f \in Working(ph, m), f \in TempFiles
          PROVE  f \in Own(q)
      <4>1. CASE f = m.src /\ ph \in Fetching
        <5>1. m.src \in UserFiles \/ m.src \in Tmp(q, "c")
          BY <1>3, <4>1 DEF Places, ReadsFrom
        <5> QED
          BY <3>1, <4>1, <5>1, PathFacts, TempFacts
      <4>2. CASE f = m.pre /\ ph \in Preprocessing /\ m.gen
        <5>1. PreOK(q, j, m)
          BY <1>3, <4>2 DEF Places
        <5>2. m.pre \in Tmp(q, "i")
          BY <4>2, <5>1 DEF PreOK
        <5> QED
          BY <4>2, <5>2, TempFacts
      <4> QED
        BY <3>1, <4>1, <4>2 DEF Working
    <3>2. ASSUME NEW n \in Pending(ph, m, v, l), j.stage = "E"
          PROVE  m.done[n].path \in Own(q)
      <4>1. n \in DOMAIN m.done /\ m.done[n].generated
        BY DEF Pending
      <4>2. ArtifactOK(q, j, m.done[n])
        BY <1>3, <4>1 DEF Places, ReadsFrom
      <4> QED
        BY <3>2, <4>1, <4>2, TempFacts DEF ArtifactOK
    <3> QED
      BY <3>1, <3>2 DEF Held
  <2> QED
    BY <1>3, <1>4, <2>1 DEF HeldExist
<1>6. TempOK(v, l, fs', inodes')
  <2> SUFFICES ASSUME l \in {"fill", "publish", "drop"}
               PROVE  TempOK(v, l, fs', inodes')
    BY DEF TempOK
  <2>1. l \in Staged
    BY DEF Staged
  <2>2. v.temp \in Own(q)
    BY <1>3, <2>1, TempFacts DEF Writing
  <2>3. fs'[v.temp] = fs[v.temp] /\ inodes <= inodes' /\ inodes \in Nat /\ inodes' \in Nat
        /\ v.ino \in Nat
    BY <1>3, <1>4, <2>1, <2>2 DEF Settled, Inv, TypeOK, Writing
  <2> QED
    BY <1>3, <2>3 DEF TempOK
<1>7. ReadyWhole(j, ph, m, fs')
  <2> SUFFICES ASSUME j.stage = "E", j.out # NoPath
               PROVE  ReadyWhole(j, ph, m, fs')
    BY DEF ReadyWhole
  <2>1. ASSUME NEW f, f \in Own(q) \/ f \in KeptFiles(j) \/ (f \in ToSet(j.srcs) /\ f \in UserFiles),
               Whole(fs[f].data)
        PROVE  Whole(fs'[f].data)
    <3>1. CASE f \in Own(q)
      BY <1>4, <2>1, <3>1
    <3>2. CASE f \notin Own(q)
      <4>1. f \in UserFiles /\ f \in Beneath(j) /\ f \in KeptFiles(j) \cup ToSet(j.srcs)
        BY <1>1, <2>1, <3>2, CommandFacts
      <4>2. f \notin DOMAIN Links \cup LinkTargets
        BY <1>1, <4>1 DEF IsJob
      <4>3. f \notin KeptFiles(job[p])
        BY <4>1 DEF Inv, JobsOK
      <4> QED
        BY <2>1, <4>1, <4>2, <4>3 DEF Settled, Shared
    <3> QED
      BY <3>1, <3>2
  <2>2. ASSUME ph \in {"dependencies", "noted", "compile"}
        PROVE  Whole(fs'[m.pre].data)
    <3>1. PreOK(q, j, m)
      BY <1>3, <2>2 DEF Places, Preprocessing
    <3>2. m.pre \in Own(q) \/ m.pre \in KeptFiles(j) \/ (m.pre \in ToSet(j.srcs) /\ m.pre \in UserFiles)
      BY <3>1, TempFacts DEF PreOK
    <3> QED
      BY <1>3, <2>1, <2>2, <3>2 DEF ReadyWhole
  <2>3. ASSUME ph \in {"take", "delivered"}, m.done # <<>>
        PROVE  Whole(fs'[m.done[1].path].data)
    <3>1. 1 \in DOMAIN m.done
      <4>1. IsLocals(m)
        BY DEF Inv, TypeOK
      <4> DEFINE A == [src : UserFiles \cup {Stdin}, path : Path, generated : BOOLEAN]
                 d == m.done
      <4>2. d \in Seq(A) /\ d # <<>>
        BY <2>3, <4>1 DEF IsLocals
      <4> HIDE DEF A, d
      <4>3. 1 \in DOMAIN d
        BY <4>2
      <4> QED
        BY <4>3 DEF d
    <3>2. ArtifactOK(q, j, m.done[1])
      BY <1>3, <3>1 DEF Places
    <3> DEFINE a == m.done[1]
    <3>3. \/ a.path \in Tmp(q, "i") \/ a.path \in KeptFiles(j)
          \/ (a.path \in ToSet(j.srcs) /\ a.path \in UserFiles)
      <4> HIDE DEF a
      <4>1. ArtifactOK(q, j, a)
        BY <3>2 DEF a
      <4> QED
        BY <4>1 DEF ArtifactOK
    <3> QED
      BY <1>3, <2>1, <2>3, <3>3, TempFacts DEF ReadyWhole
  <2> QED
    BY <2>2, <2>3 DEF ReadyWhole
<1>8. LocalOK(q, j, ph, m, v, l, fs', inodes')
  BY <1>3, <1>5, <1>6, <1>7 DEF LocalOK
<1>9. Local(q)'
  BY <1>2, <1>8 DEF Local
<1>10. LeftOK(q, j, ph, m, v, l, fs) => LeftOK(q, j, ph, m, v, l, fs')
  BY <1>4 DEF LeftOK
<1>11. Leaves(q)'
  BY <1>1, <1>2, <1>10 DEF Leaves, LeavesOK
<1> QED
  BY <1>9, <1>11
----------------------------------------------------------------------------
(* A step of a process, by what it has before and after.                   *)
LEMMA ProcessKnows ==
    ASSUME Inv, NEW p \in Procs
    PROVE  LET j == job[p]
               l == pc[p]
               m == me[p]
               v == w[p]
               ph == Phase(l, v)
           IN  /\ IsJob(j) /\ IsLocals(m) /\ IsWrite(v) /\ l \in Labels
               /\ Progress(j, ph, m) /\ Places(p, j, ph, m) /\ Writing(p, j, ph, m, v, l)
               /\ HeldExist(j, ph, m, v, l, fs) /\ Distinct(j, ph, m)
               /\ TempOK(v, l, fs, inodes) /\ ReadyWhole(j, ph, m, fs)
               /\ LeavesOK(p, j, l, m, v, res[p], fs)
  BY DEF Inv, TypeOK, JobsOK, Local, LocalOK, Leaves

Turns(p, l, m, v, r) ==
    /\ pc' = [pc EXCEPT ![p] = l] /\ res' = [res EXCEPT ![p] = r]
    /\ DOMAIN me' = Procs /\ me'[p] = m /\ \A q \in Procs : q # p => me'[q] = me[q]
    /\ DOMAIN w' = Procs /\ w'[p] = v /\ \A q \in Procs : q # p => w'[q] = w[q]

(* A step that disturbs no other process keeps the invariant when it holds *)
(* again of the process that took it.                                      *)
LEMMA StepKeeps ==
    ASSUME Inv, NEW p \in Procs, Settled(p), NEW l, NEW m, NEW v, NEW r, Turns(p, l, m, v, r),
           l \in Labels, IsLocals(m), IsWrite(v), r \in Results,
           kills' \in Nat, strangers' \in Nat,
           LocalOK(p, job[p], Phase(l, v), m, v, l, fs', inodes'),
           LeavesOK(p, job[p], l, m, v, r, fs')
    PROVE  Inv'
<1>1. TypeOK'
  <2>1. \A f \in Path : IsFile(fs[f])'
    BY DEF Settled, IsFile
  <2>2. pc' \in [Procs -> Labels] /\ res' \in [Procs -> Results]
    BY DEF Turns, Inv, TypeOK
  <2>3. \A q \in Procs : IsLocals(me'[q]) /\ IsWrite(w'[q])
    BY DEF Turns, Inv, TypeOK
  <2> QED
    BY <2>1, <2>2, <2>3 DEF TypeOK, Turns, Settled
<1>2. JobsOK'
  BY DEF Inv, JobsOK, Settled
<1>3. LinksStay' /\ StrangersStay' /\ HalvesInPlace'
  BY DEF Settled
<1>4. ASSUME NEW q \in Procs
      PROVE  (Local(q) /\ Leaves(q))'
  <2>1. CASE q = p
    <3>1. pc'[q] = l /\ me'[q] = m /\ w'[q] = v /\ res'[q] = r /\ job'[q] = job[p]
      BY <2>1 DEF Turns, Settled, Inv, TypeOK
    <3> QED
      BY <2>1, <3>1 DEF Local, Leaves
  <2>2. CASE q # p
    <3>1. pc'[q] = pc[q] /\ me'[q] = me[q] /\ w'[q] = w[q] /\ res'[q] = res[q]
      BY <2>2 DEF Turns, Inv, TypeOK
    <3> QED
      BY <2>2, <3>1, OthersKeep
  <2> QED
    BY <2>1, <2>2
<1> QED
  BY <1>1, <1>2, <1>3, <1>4 DEF Inv

(* A step that ends a command leaves nothing when it removes what remains. *)
LEMMA EndKeeps ==
    ASSUME Inv, NEW p \in Procs, UNCHANGED <<inodes, job, kills, strangers>>,
           NEW S, Removes(S), Ours(p, S), NEW m, NEW r, Turns(p, "end", m, w[p], r), r \in Results,
           IsLocals(m), m.born = me[p].born, m.done = me[p].done, pc[p] \notin {"end", "crashed"},
           ~job[p].keep /\ ~job[p].debug /\ ~ForgetsAt(job[p], m, w[p], r) =>
              Remaining(job[p], Phase(pc[p], w[p]), me[p], w[p], pc[p]) \cap Own(p) \subseteq S
    PROVE  Inv' /\ Settled(p)
<1> DEFINE j == job[p]
           v == w[p]
<1>1. Phase("end", v) = "end"
  BY DEF Phase, Staged
<1>2. Settled(p)
  BY RemovalSettles
<1>3. LocalOK(p, j, "end", m, v, "end", fs', inodes')
  <2>1. Progress(j, "end", m) /\ Writing(p, j, "end", m, v, "end") /\ TempOK(v, "end", fs', inodes')
    BY DEF Progress, Writing, TempOK, Active, Sourcing, Fetching, Preprocessing, Finishing, Staged
  <2>2. /\ HeldExist(j, "end", m, v, "end", fs') /\ Distinct(j, "end", m)
        /\ ReadyWhole(j, "end", m, fs')
    BY DEF HeldExist, Held, Distinct, ReadyWhole, Active, Sourcing, Fetching, Preprocessing, Finishing
  <2>3. \A n \in DOMAIN m.done : ArtifactOK(p, j, m.done[n])
    BY ProcessKnows DEF Places
  <2>4. Places(p, j, "end", m)
    BY <2>3 DEF Places, Sourcing, Fetching, Preprocessing
  <2> QED
    BY <2>1, <2>2, <2>4 DEF LocalOK
<1>4. LeavesOK(p, j, "end", m, v, r, fs')
  <2> SUFFICES ASSUME ~ForgetsAt(j, m, v, r), ~j.keep, ~j.debug, NEW f \in Own(p),
                      fs'[f].ino > m.born, fs'[f].data # Foreign
               PROVE  FALSE
    BY <1>1 DEF LeavesOK, LeftOK
  <2>1. f \in Path
    BY PathFacts, TempFacts
  <2>2. m.born \in Nat
    BY DEF IsLocals
  <2>3. f \notin S
    <3>1. f \in S => fs'[f].ino = 0
      BY <2>1 DEF Removes, Absent
    <3> QED
      BY <3>1, <2>2
  <2>4. fs'[f] = fs[f]
    BY <2>1, <2>3 DEF Removes
  <2>5. LeavesOK(p, j, pc[p], me[p], v, res[p], fs)
    BY ProcessKnows
  <2>6. f \in Remaining(j, Phase(pc[p], v), me[p], v, pc[p])
    BY <2>4, <2>5 DEF LeavesOK, LeftOK
  <2> QED
    BY <2>3, <2>6
<1>5. IsWrite(v) /\ "end" \in Labels /\ kills' \in Nat /\ strangers' \in Nat
  BY ProcessKnows DEF Labels, Inv, TypeOK
<1> QED
  BY <1>1, <1>2, <1>3, <1>4, <1>5, StepKeeps

(* What the driver removes is its own, and no stranger's.                  *)
LEMMA AssemblyIsOurs ==
    ASSUME Inv, NEW p \in Procs, NEW f, f \in TempFiles => f \in Tmp(p, "s")
    PROVE  Ours(p, {f})
<1> SUFFICES ASSUME f \in TempFiles
             PROVE  f \in Own(p) /\ fs[f].data # Foreign
  BY DEF Ours
<1>1. f \in Own(p) /\ f[2] = "s" /\ f \in Path
  BY TempFacts, PathFacts
<1>2. f \notin Intrusions
  BY <1>1, DriverAssumption
<1> QED
  BY <1>1, <1>2 DEF Inv, StrangersStay

(* A generated artifact is a temporary of the process or no temporary at   *)
(* all.                                                                    *)
LEMMA ArtifactIsOurs ==
    ASSUME Inv, NEW p \in Procs, Phase(pc[p], w[p]) \in Active,
           NEW n \in DOMAIN me[p].done, me[p].done[n].generated,
           \/ job[p].stage # "E"
           \/ ~job[p].keep /\ n \in Pending(Phase(pc[p], w[p]), me[p], w[p], pc[p])
    PROVE  Ours(p, {me[p].done[n].path})
<1> DEFINE a == me[p].done[n]
           j == job[p]
           ph == Phase(pc[p], w[p])
<1>1. ArtifactOK(p, j, a) /\ a.generated
  BY ProcessKnows DEF Places
<1>2. CASE j.stage # "E"
  <2>1. a.path \in Tmp(p, "s") \cup UserFiles
    <3> HIDE DEF a
    <3> QED
      BY <1>1, <1>2 DEF ArtifactOK
  <2> HIDE DEF a
  <2>2. Ours(p, {a.path})
    BY <2>1, AssemblyIsOurs, PathFacts
  <2> QED
    BY <2>2 DEF a
<1>3. CASE j.stage = "E"
  <2>1. ~j.keep /\ n \in Pending(ph, me[p], w[p], pc[p])
    BY <1>3
  <2>2. a.path \in Tmp(p, "i")
    <3> HIDE DEF a
    <3> QED
      BY <1>1, <1>3, <2>1 DEF ArtifactOK
  <2>3. a.path \in Held(j, ph, me[p], w[p], pc[p])
    BY <1>3, <2>1 DEF Held
  <2>4. fs[a.path].data # Foreign
    <3>1. HeldExist(j, ph, me[p], w[p], pc[p], fs)
      BY ProcessKnows
    <3> QED
      BY <2>3, <3>1 DEF HeldExist
  <2>5. a.path \in Own(p)
    BY <2>2, TempFacts
  <2> QED
    BY <2>4, <2>5 DEF Ours
<1> QED
  BY <1>2, <1>3

(* What the clean-up of a command removes is its own.                      *)
LEMMA CleanupIsOurs ==
    ASSUME Inv, NEW p \in Procs, Phase(pc[p], w[p]) \in Active \ {"print"},
           ~(pc[p] = "delivered" /\ w[p].ok)
    PROVE  Ours(p, Cleanup(p))
<1> DEFINE j == job[p]
           ph == Phase(pc[p], w[p])
<1> SUFFICES ASSUME ~j.keep, NEW f \in Generated(me[p].done)
             PROVE  Ours(p, {f})
  BY DEF Cleanup, Ours
<1>1. PICK n \in DOMAIN me[p].done : me[p].done[n].generated /\ f = me[p].done[n].path
  BY DEF Generated
<1>2. j.stage = "E" => n \in Pending(ph, me[p], w[p], pc[p])
  BY <1>1, ProcessKnows DEF Pending, Progress
<1> QED
  BY <1>1, <1>2, ArtifactIsOurs

(* The temporaries a command works on are its own.                         *)
LEMMA WorkIsOurs ==
    ASSUME Inv, NEW p \in Procs, Phase(pc[p], w[p]) \in Active, ~job[p].keep
    PROVE  Ours(p, Working(Phase(pc[p], w[p]), me[p]))
<1> DEFINE j == job[p]
           ph == Phase(pc[p], w[p])
           m == me[p]
<1> SUFFICES ASSUME NEW f \in Working(ph, m), f \in TempFiles
             PROVE  f \in Own(p) /\ fs[f].data # Foreign
  BY DEF Ours
<1>1. fs[f].data # Foreign
  <2>1. HeldExist(j, ph, m, w[p], pc[p], fs)
    BY ProcessKnows
  <2>2. f \in Held(j, ph, m, w[p], pc[p])
    BY DEF Held
  <2> QED
    BY <2>1, <2>2 DEF HeldExist
<1>2. CASE f = m.src /\ ph \in Fetching
  <2>1. m.src \in UserFiles \/ m.src \in Tmp(p, "c")
    <3>1. Places(p, j, ph, m)
      BY ProcessKnows
    <3> QED
      BY <1>2, <3>1 DEF Places, ReadsFrom
  <2> QED
    BY <1>1, <1>2, <2>1, PathFacts, TempFacts
<1>3. CASE f = m.pre /\ ph \in Preprocessing /\ m.gen
  <2>1. PreOK(p, j, m)
    <3>1. Places(p, j, ph, m)
      BY ProcessKnows
    <3> QED
      BY <1>3, <3>1 DEF Places
  <2>2. m.pre \in Tmp(p, "i")
    BY <1>3, <2>1 DEF PreOK
  <2> QED
    BY <1>1, <1>3, <2>2, TempFacts
<1> QED
  BY <1>2, <1>3 DEF Working

(* What a command may leave after a step, when nothing new is left that is *)
(* not among what it still knows of.                                       *)
LEMMA LeavesKeep ==
    ASSUME Inv, NEW p \in Procs, pc[p] \notin {"end", "crashed"},
           NEW l, NEW m, NEW v, NEW r, m.born = me[p].born,
           ~job[p].keep /\ ~job[p].debug =>
              \A f \in Own(p) :
                 \/ fs'[f].ino = 0 \/ ~(fs'[f].ino > me[p].born) \/ fs'[f].data = Foreign
                 \/ /\ f \in Remaining(job[p], Phase(l, v), m, v, l)
                    /\ l = "drop" /\ f = v.temp => fs'[f].ino = v.ino
                 \/ /\ fs'[f] = fs[f]
                    /\ f \notin Remaining(job[p], Phase(pc[p], w[p]), me[p], w[p], pc[p])
    PROVE  LeavesOK(p, job[p], l, m, v, r, fs')
<1>1. LeavesOK(p, job[p], pc[p], me[p], w[p], res[p], fs) /\ me[p].born \in Nat
  BY ProcessKnows DEF IsLocals
<1> SUFFICES ASSUME ~job[p].keep, ~job[p].debug, NEW f \in Own(p),
                    fs'[f].ino > m.born, fs'[f].data # Foreign
             PROVE  /\ f \in Remaining(job[p], Phase(l, v), m, v, l)
                    /\ l = "drop" /\ f = v.temp => fs'[f].ino = v.ino
  BY DEF LeavesOK, LeftOK
<1>2. CASE fs'[f] = fs[f] /\ f \notin Remaining(job[p], Phase(pc[p], w[p]), me[p], w[p], pc[p])
  BY <1>1, <1>2 DEF LeavesOK, LeftOK
<1>3. fs'[f].ino # 0
  BY <1>1
<1> QED
  BY <1>2, <1>3

Artifacts == [src : UserFiles \cup {Stdin}, path : Path, generated : BOOLEAN]

Pushed(m, a) == [m EXCEPT !.i = @ + 1, !.done = Append(@, a)]

(* Recording an artifact: `artifacts.push(...)` and the next source.       *)
LEMMA PushedLocals ==
    ASSUME NEW m, IsLocals(m), NEW a \in Artifacts, NEW t, t = Pushed(m, a)
    PROVE  /\ IsLocals(t) /\ t.born = m.born /\ t.i = m.i + 1
           /\ t.src = m.src /\ t.pre = m.pre /\ t.gen = m.gen /\ t.next = m.next
           /\ Len(m.done) \in Nat /\ DOMAIN m.done = 1 .. Len(m.done)
           /\ Len(t.done) = Len(m.done) + 1 /\ DOMAIN t.done = 1 .. (Len(m.done) + 1)
           /\ \A n \in DOMAIN m.done : t.done[n] = m.done[n]
           /\ t.done[Len(m.done) + 1] = a
<1> DEFINE k == m.i + 1
           d == m.done
           e == Append(d, a)
<1>1. t = [born |-> m.born, i |-> k, src |-> m.src, pre |-> m.pre, gen |-> m.gen,
           done |-> e, next |-> m.next]
  <2>1. t = [m EXCEPT !.i = k, !.done = e]
    BY DEF IsLocals, LocalsShape, Pushed
  <2> HIDE DEF k, e, d
  <2> QED
    BY <2>1 DEF IsLocals, LocalsShape
<1>4. /\ t.born = m.born /\ t.i = k /\ t.src = m.src /\ t.pre = m.pre /\ t.gen = m.gen
      /\ t.next = m.next /\ t.done = e
  BY <1>1
<1>2. d \in Seq(Artifacts)
  BY DEF IsLocals, Artifacts
<1> HIDE DEF d
<1>3. /\ e \in Seq(Artifacts) /\ Len(d) \in Nat /\ DOMAIN d = 1 .. Len(d)
      /\ Len(e) = Len(d) + 1 /\ DOMAIN e = 1 .. (Len(d) + 1) /\ e[Len(d) + 1] = a
      /\ \A n \in DOMAIN d : e[n] = d[n]
  BY <1>2
<1> HIDE DEF e
<1>5. LocalsShape(t)
  BY <1>1, <1>4 DEF LocalsShape
<1>6. IsLocals(t)
  <2>1. e \in Seq([src : UserFiles \cup {Stdin}, path : Path, generated : BOOLEAN])
    BY <1>3 DEF Artifacts
  <2>2. m.born \in Nat /\ k \in Nat \ {0} /\ m.gen \in BOOLEAN
        /\ m.next \in [{"tmp", "copy", "asm"} -> Nat]
    BY DEF IsLocals
  <2> HIDE DEF k
  <2> QED
    BY <1>4, <1>5, <2>1, <2>2 DEF IsLocals
<1> QED
  BY <1>3, <1>4, <1>6 DEF d
----------------------------------------------------------------------------
(* The steps of the driver, one by one.                                    *)
LEMMA StartKeeps ==
    ASSUME Inv, NEW p \in Procs, Start(p)
    PROVE  Inv' /\ Settled(p)
<1> DEFINE j == job[p]
           m == me[p]
           v == w[p]
<1>1. pc[p] = "start" /\ Phase(pc[p], v) = "start"
  BY DEF Start, Phase, Staged
<1>2. /\ UNCHANGED <<fs, inodes, job, me, w, kills, strangers>>
      /\ DOMAIN me = Procs /\ DOMAIN w = Procs
      /\ IsLocals(m) /\ IsWrite(v) /\ kills \in Nat /\ strangers \in Nat
  BY DEF Start, Inv, TypeOK
<1>3. CASE Rejected(j)
  <2>1. Turns(p, "end", m, v, "error")
    BY <1>2, <1>3 DEF Start, Turns, End, Go
  <2>2. Removes({}) /\ Ours(p, {})
    BY <1>2 DEF Removes, Ours, Inv, TypeOK
  <2>3. Remaining(j, "start", m, v, "start") = {}
    BY DEF Remaining, Active, Sourcing, Fetching, Preprocessing, Finishing
  <2> QED
    BY <1>1, <1>2, <2>1, <2>2, <2>3, EndKeeps DEF Results
<1>4. CASE ~Rejected(j)
  <2>1. Turns(p, "take", m, v, res[p])
    BY <1>2, <1>4 DEF Start, Turns, Go, Inv, TypeOK
  <2>2. Phase("take", v) = "take" /\ "take" \in Labels /\ res[p] \in Results
    BY DEF Phase, Staged, Labels, Active, Inv, TypeOK
  <2>3. Settled(p)
    BY <1>2, NoWriteSettles
  <2>4. Progress(j, "start", m) /\ Places(p, j, "start", m)
    BY <1>1, ProcessKnows
  <2>5. m.done = <<>> /\ m.i = 1 /\ Len(j.srcs) \in Nat
    BY <2>4, CommandFacts, ProcessKnows DEF Progress
  <2>6. Progress(j, "take", m)
    BY <1>4, <2>5 DEF Progress, Active, Sourcing, Fetching, Preprocessing, Finishing
  <2>7. Places(p, j, "take", m)
    BY <2>4 DEF Places, Sourcing, Fetching, Preprocessing
  <2>8. Writing(p, j, "take", m, v, "take") /\ TempOK(v, "take", fs, inodes)
    BY DEF Writing, TempOK, Staged
  <2>9. Distinct(j, "take", m) /\ ReadyWhole(j, "take", m, fs)
    BY <2>5 DEF Distinct, ReadyWhole
  <2>10. HeldExist(j, "take", m, v, "take", fs)
    BY <2>5 DEF HeldExist, Held, Working, Pending, Fetching, Preprocessing
  <2>11. LocalOK(p, j, "take", m, v, "take", fs', inodes')
    BY <1>2, <2>6, <2>7, <2>8, <2>9, <2>10 DEF LocalOK
  <2>12. LeavesOK(p, j, "take", m, v, res[p], fs')
    <3>1. LeavesOK(p, j, "start", m, v, res[p], fs)
      BY <1>1, ProcessKnows
    <3>2. Remaining(j, "start", m, v, "start") = {}
      BY DEF Remaining, Active, Sourcing, Fetching, Preprocessing, Finishing
    <3> QED
      BY <1>1, <1>2, <2>2, <3>1, <3>2 DEF LeavesOK, LeftOK
  <2> QED
    BY <1>2, <2>1, <2>2, <2>3, <2>11, <2>12, StepKeeps
<1> QED
  BY <1>3, <1>4

(* A source has given its artifact: the next one is taken.                 *)
LEMMA PushKeeps ==
    ASSUME Inv, NEW p \in Procs, UNCHANGED <<inodes, job, kills, strangers>>,
           NEW S, Removes(S), Ours(p, S), NEW a \in Artifacts, ArtifactOK(p, job[p], a),
           NEW m, m = Pushed(me[p], a),
           Turns(p, "take", m, w[p], res[p]), pc[p] \notin Staged,
           Phase(pc[p], w[p]) \in {"take", "compile", "compiled", "moved"}, job[p].dep # "only",
           me[p].i <= Len(job[p].srcs),
           job[p].stage = "E" => /\ pc[p] = "compile" /\ S = {}
                                 /\ a.path = me[p].pre /\ a.generated = me[p].gen,
           ~job[p].keep =>
           \A f \in Remaining(job[p], Phase(pc[p], w[p]), me[p], w[p], pc[p]) :
              f \notin S =>
              \/ f \in {me[p].done[n].path : n \in {k \in DOMAIN me[p].done :
                           me[p].done[k].generated /\ job[p].stage # "ir"}}
              \/ f = a.path /\ a.generated /\ job[p].stage # "ir"
    PROVE  Inv' /\ Settled(p)
<1> DEFINE j == job[p]
           o == me[p]
           v == w[p]
           ph == Phase(pc[p], v)
<1>1. /\ IsJob(j) /\ IsLocals(o) /\ IsWrite(v) /\ Progress(j, ph, o) /\ Places(p, j, ph, o)
      /\ HeldExist(j, ph, o, v, pc[p], fs) /\ Distinct(j, ph, o) /\ ReadyWhole(j, ph, o, fs)
  BY ProcessKnows
<1>a. /\ a \in Artifacts /\ ArtifactOK(p, j, a) /\ m = Pushed(o, a) /\ pc[p] \notin Staged
      /\ ph \in {"take", "compile", "compiled", "moved"} /\ j.dep # "only"
      /\ o.i <= Len(j.srcs)
      /\ j.stage = "E" => pc[p] = "compile" /\ S = {} /\ a.path = o.pre /\ a.generated = o.gen
      /\ Removes(S) /\ ph = Phase(pc[p], v) /\ p \in Procs
  OBVIOUS
<1>b. ~j.keep =>
      \A f \in Remaining(j, ph, o, v, pc[p]) :
         f \notin S =>
         \/ f \in {o.done[n].path : n \in {k \in DOMAIN o.done : o.done[k].generated /\ j.stage # "ir"}}
         \/ f = a.path /\ a.generated /\ j.stage # "ir"
  OBVIOUS
<1>c. Settled(p)
  BY RemovalSettles
<1>d. res[p] \in Results /\ kills' \in Nat /\ strangers' \in Nat
  BY DEF Inv, TypeOK
<1>e. ASSUME NEW l, l \in Labels, IsLocals(m), IsWrite(v), l = "take",
             LocalOK(p, j, Phase(l, v), m, v, l, fs', inodes'),
             LeavesOK(p, j, l, m, v, res[p], fs')
      PROVE  Inv'
  BY <1>c, <1>d, <1>e, StepKeeps
<1>f. ASSUME NEW l, m.born = o.born, pc[p] \notin {"end", "crashed"},
             ~j.keep => \A f \in Own(p) :
                \/ fs'[f].ino = 0 \/ fs'[f].data = Foreign
                \/ /\ f \in Remaining(j, Phase(l, v), m, v, l)
                   /\ l = "drop" /\ f = v.temp => fs'[f].ino = v.ino
                \/ /\ fs'[f] = fs[f]
                   /\ f \notin Remaining(j, ph, o, v, pc[p])
      PROVE  LeavesOK(p, j, l, m, v, res[p], fs')
  BY <1>f, LeavesKeep
<1> HIDE DEF j, o, v, ph
<1>2. /\ IsLocals(m) /\ m.born = o.born /\ m.i = o.i + 1
      /\ Len(o.done) \in Nat /\ DOMAIN o.done = 1 .. Len(o.done)
      /\ Len(m.done) = Len(o.done) + 1 /\ DOMAIN m.done = 1 .. (Len(o.done) + 1)
      /\ \A n \in DOMAIN o.done : m.done[n] = o.done[n]
      /\ m.done[Len(o.done) + 1] = a
  BY <1>1, <1>a, PushedLocals
<1>3. Phase("take", v) = "take" /\ "take" \in Labels /\ "take" \in Active /\ ph \in Active
      /\ ph = pc[p] /\ pc[p] \notin {"end", "crashed"}
  BY <1>a DEF Phase, Staged, Labels, Active, Sourcing, Preprocessing
<1>5. Progress(j, "take", m)
  <2>1. o.i \in Nat /\ Len(j.srcs) \in Nat /\ ~Rejected(j) /\ Len(o.done) = o.i - 1
    BY <1>1, <1>3, <1>a, CommandFacts DEF Progress, IsLocals, Sourcing, Preprocessing, Fetching, Active
  <2> QED
    BY <1>2, <1>a, <2>1 DEF Progress, Active, Sourcing, Fetching, Preprocessing, Finishing
<1>6. \A n \in DOMAIN m.done : ArtifactOK(p, j, m.done[n])
  BY <1>1, <1>2, <1>a DEF Places
<1>7. Places(p, j, "take", m)
  BY <1>6 DEF Places, Fetching, Preprocessing
<1>8. Writing(p, j, "take", m, v, "take") /\ TempOK(v, "take", fs', inodes')
  BY DEF Writing, TempOK, Staged
<1>9. ASSUME j.stage = "E", ~j.keep
      PROVE  /\ \A n \in DOMAIN o.done : o.done[n].generated =>
                    /\ o.done[n].path \in Held(j, ph, o, v, pc[p])
                    /\ a.generated => a.path # o.done[n].path
             /\ a.generated => a.path \in Held(j, ph, o, v, pc[p])
  <2>1. ph = "compile" /\ pc[p] = "compile" /\ a.path = o.pre /\ a.generated = o.gen
    BY <1>3, <1>9, <1>a
  <2>2. \A n \in DOMAIN o.done : o.done[n].generated => n \in Pending(ph, o, v, pc[p])
    BY <2>1 DEF Pending
  <2>3. \A n \in DOMAIN o.done : o.done[n].generated =>
           o.done[n].path \in Held(j, ph, o, v, pc[p])
    BY <1>3, <1>9, <2>2 DEF Held
  <2>4. a.generated => a.path \in Tmp(p, "i")
    BY <1>9, <1>a DEF ArtifactOK
  <2>5. a.generated => a.path \in Held(j, ph, o, v, pc[p])
    BY <1>3, <1>9, <2>1, <2>4, TempFacts DEF Held, Working, Preprocessing
  <2>6. \A n \in DOMAIN o.done : o.done[n].generated /\ a.generated => a.path # o.done[n].path
    BY <1>1, <1>3, <1>9, <2>1 DEF Distinct, Preprocessing
  <2> QED
    BY <2>3, <2>5, <2>6
<1>10. HeldExist(j, "take", m, v, "take", fs')
  <2> SUFFICES ASSUME NEW f \in Held(j, "take", m, v, "take")
               PROVE  fs'[f].data \notin {Foreign, <<"absent">>}
    BY DEF HeldExist
  <2>1. j.stage = "E" /\ ~j.keep /\ \E n \in DOMAIN m.done : m.done[n].generated /\ f = m.done[n].path
    BY DEF Held, Working, Pending, Fetching, Preprocessing
  <2>2. PICK n \in DOMAIN m.done : m.done[n].generated /\ f = m.done[n].path
    BY <2>1
  <2>3. f \in Held(j, ph, o, v, pc[p])
    BY <1>2, <1>9, <2>1, <2>2
  <2>4. f \in Path
    <3>1. ArtifactOK(p, j, m.done[n])
      BY <1>6
    <3>2. f \in Tmp(p, "i")
      BY <2>1, <2>2, <3>1 DEF ArtifactOK
    <3> QED
      BY <3>2, TempFacts, PathFacts
  <2>5. fs'[f] = fs[f]
    BY <1>a, <2>1, <2>4 DEF Removes
  <2> QED
    BY <1>1, <2>3, <2>5 DEF HeldExist
<1>11. Distinct(j, "take", m)
  <2> SUFFICES ASSUME ~j.keep, j.stage = "E",
                      NEW n \in DOMAIN m.done, m.done[n].generated,
                      NEW k \in DOMAIN m.done, k # n, m.done[k].generated
               PROVE  m.done[n].path # m.done[k].path
    BY DEF Distinct, Preprocessing
  <2>1. \A i1, i2 \in DOMAIN o.done : i1 # i2 /\ o.done[i1].generated /\ o.done[i2].generated
           => o.done[i1].path # o.done[i2].path
    BY <1>1, <1>3 DEF Distinct
  <2>2. \A x \in DOMAIN m.done : x \in DOMAIN o.done \/ x = Len(o.done) + 1
    <3> SUFFICES ASSUME NEW x \in DOMAIN m.done, x \notin DOMAIN o.done
                 PROVE  x = Len(o.done) + 1
      OBVIOUS
    <3>1. x \in 1 .. (Len(o.done) + 1) /\ x \notin 1 .. Len(o.done)
      BY <1>2
    <3>2. \A L \in Nat : x \in 1 .. (L + 1) /\ x \notin 1 .. L => x = L + 1
      OBVIOUS
    <3> QED
      BY <1>2, <3>1, <3>2
  <2>3. \A x \in DOMAIN o.done : o.done[x].generated /\ a.generated => a.path # o.done[x].path
    BY <1>9
  <2>4. CASE n \in DOMAIN o.done /\ k \in DOMAIN o.done
    BY <1>2, <2>1, <2>4
  <2>5. CASE n = Len(o.done) + 1
    <3>1. m.done[n] = a /\ k \in DOMAIN o.done /\ m.done[k] = o.done[k]
      BY <1>2, <2>2, <2>5
    <3> QED
      BY <2>3, <3>1
  <2>6. CASE k = Len(o.done) + 1
    <3>1. m.done[k] = a /\ n \in DOMAIN o.done /\ m.done[n] = o.done[n]
      BY <1>2, <2>2, <2>6
    <3> QED
      BY <2>3, <3>1
  <2> QED
    BY <2>2, <2>4, <2>5, <2>6
<1>12. ReadyWhole(j, "take", m, fs')
  <2> SUFFICES ASSUME j.stage = "E", j.out # NoPath
               PROVE  Whole(fs'[m.done[1].path].data)
    BY DEF ReadyWhole
  <2>1. Len(j.srcs) = 1
    <3>1. ~Rejected(j)
      BY <1>1, <1>3 DEF Progress
    <3> QED
      BY <3>1 DEF Rejected
  <2>2. Len(o.done) = 0
    BY <1>1, <1>3, <1>a, <2>1 DEF Progress, IsLocals, Sourcing, Preprocessing
  <2>3. m.done[1] = a /\ a.path = o.pre /\ ph = "compile"
    BY <1>2, <1>3, <1>a, <2>2
  <2>4. Whole(fs[o.pre].data)
    BY <1>1, <2>3 DEF ReadyWhole
  <2>5. a.path \in Path
    BY <1>a DEF Artifacts
  <2> QED
    BY <1>a, <2>3, <2>4, <2>5 DEF Removes
<1>13. LocalOK(p, j, "take", m, v, "take", fs', inodes')
  BY <1>5, <1>7, <1>8, <1>10, <1>11, <1>12 DEF LocalOK
<1>14. LeavesOK(p, j, "take", m, v, res[p], fs')
  <2>1. ASSUME ~j.keep, NEW f \in Own(p), f \in Remaining(j, ph, o, v, pc[p]), f \notin S
        PROVE  f \in Remaining(j, "take", m, v, "take")
    <3>1. CASE f = a.path /\ a.generated /\ j.stage # "ir"
      <4>1. Len(o.done) + 1 \in Pending("take", m, v, "take")
        BY <1>2, <3>1 DEF Pending
      <4> QED
        BY <1>2, <1>3, <3>1, <4>1 DEF Remaining
    <3>2. ASSUME NEW n \in DOMAIN o.done, o.done[n].generated, j.stage # "ir", f = o.done[n].path
          PROVE  f \in Remaining(j, "take", m, v, "take")
      <4>1. n \in Pending("take", m, v, "take") /\ m.done[n].path = f
        BY <1>2, <3>2 DEF Pending
      <4> QED
        BY <1>3, <3>2, <4>1 DEF Remaining
    <3> QED
      BY <1>b, <2>1, <3>1, <3>2
  <2>2. \A f \in Own(p) : f \in Path
    BY <1>a, TempFacts, PathFacts
  <2>3. \A f \in Own(p) : IF f \in S THEN fs'[f].ino = 0 ELSE fs'[f] = fs[f]
    BY <1>a, <2>2 DEF Removes, Absent
  <2> QED
    BY <1>2, <1>3, <1>f, <2>1, <2>3
<1> QED
  BY <1>1, <1>2, <1>3, <1>13, <1>14, <1>c, <1>e

(* A step with which a command goes on with what it has.                   *)
SameWork(m, o) ==
    /\ m.born = o.born /\ m.src = o.src /\ m.pre = o.pre /\ m.gen = o.gen /\ m.done = o.done
Counted == {"print", "assemble", "assembled"}
Follows(ph, to, i, k) ==
    /\ ph \in Active /\ to \in Active
    /\ to \in Fetching \cup {"stdin"} => ph = "preprocess" /\ to = "preprocessing" /\ k = i
    /\ to \in Preprocessing => ph \in Preprocessing
    /\ to = "moved" => ph \in Preprocessing \cup {"moved"}
    /\ ph \in Counted => to \in Counted /\ k >= i
NoneLost(p, l, m, v) ==
    \A f \in Own(p) :
       \/ fs'[f].ino = 0 \/ ~(fs'[f].ino > me[p].born) \/ fs'[f].data = Foreign
       \/ /\ f \in Remaining(job[p], Phase(l, v), m, v, l)
          /\ l = "drop" /\ f = v.temp => fs'[f].ino = v.ino
       \/ /\ fs'[f] = fs[f]
          /\ f \notin Remaining(job[p], Phase(pc[p], w[p]), me[p], w[p], pc[p])

(* A step from one point of a command to the next keeps the invariant when *)
(* the new point is consistent and nothing the command made is forgotten.  *)
LEMMA MoveOnKeeps ==
    ASSUME Inv, NEW p \in Procs, Settled(p), UNCHANGED <<kills, strangers>>,
           NEW l \in Labels, NEW m, NEW v, Turns(p, l, m, v, res[p]), IsLocals(m), IsWrite(v),
           SameWork(m, me[p]), pc[p] \notin {"end", "crashed", "delivered"},
           Follows(Phase(pc[p], w[p]), Phase(l, v), me[p].i, m.i),
           Progress(job[p], Phase(l, v), m), Writing(p, job[p], Phase(l, v), m, v, l),
           TempOK(v, l, fs', inodes'), ReadyWhole(job[p], Phase(l, v), m, fs'),
           \A f \in Held(job[p], Phase(l, v), m, v, l) :
              fs'[f] = fs[f] \/ fs'[f].data \notin {Foreign, <<"absent">>},
           ~job[p].keep /\ ~job[p].debug => NoneLost(p, l, m, v)
    PROVE  Inv'
<1> DEFINE j == job[p]
           o == me[p]
           x == w[p]
           ph == Phase(pc[p], x)
           to == Phase(l, v)
<1>1. /\ IsJob(j) /\ IsLocals(o) /\ Progress(j, ph, o) /\ Places(p, j, ph, o)
      /\ HeldExist(j, ph, o, x, pc[p], fs) /\ Distinct(j, ph, o)
  BY ProcessKnows
<1>2. /\ SameWork(m, o) /\ Follows(ph, to, o.i, m.i) /\ Progress(j, to, m)
      /\ Writing(p, j, to, m, v, l) /\ TempOK(v, l, fs', inodes') /\ ReadyWhole(j, to, m, fs')
      /\ pc[p] # "delivered" /\ p \in Procs
  OBVIOUS
<1>3. \A f \in Held(j, to, m, v, l) :
         fs'[f] = fs[f] \/ fs'[f].data \notin {Foreign, <<"absent">>}
  OBVIOUS
<1>4. LeavesOK(p, j, l, m, v, res[p], fs')
  BY LeavesKeep DEF NoneLost, SameWork
<1>5. ASSUME LocalOK(p, j, to, m, v, l, fs', inodes')
      PROVE  Inv'
  <2>1. res[p] \in Results /\ kills' \in Nat /\ strangers' \in Nat
    BY DEF Inv, TypeOK
  <2> QED
    BY <1>4, <1>5, <2>1, StepKeeps
<1>a. o.i \in Nat /\ m.i \in Nat
  BY <1>1 DEF IsLocals
<1> HIDE DEF j, o, x, ph, to
<1>6. Places(p, j, to, m)
  <2>1. \A n \in DOMAIN m.done : ArtifactOK(p, j, m.done[n])
    BY <1>1, <1>2 DEF Places, SameWork
  <2>2. to \in Preprocessing \cup {"moved"} => PreOK(p, j, m)
    <3>1. PreOK(p, j, o) => PreOK(p, j, m)
      BY <1>2 DEF PreOK, SameWork
    <3> QED
      BY <1>1, <1>2, <3>1 DEF Places, Follows
  <2>3. to \in Fetching \cup {"stdin"} => /\ to = "preprocessing" /\ ph \in {"preprocess", "preprocessing"}
                                          /\ ph \in Fetching /\ m.i = o.i
    BY <1>2 DEF Follows, Fetching
  <2>4. to \in Fetching => m.gen /\ ReadsFrom(p, j, m)
    <3>1. ph \in Fetching => ReadsFrom(p, j, o)
      BY <1>1 DEF Places
    <3>2. ph \in {"preprocess", "preprocessing"} => o.gen
      BY <1>1 DEF Places
    <3>3. m.src = o.src /\ m.gen = o.gen
      BY <1>2 DEF SameWork
    <3>4. to \in Fetching /\ ReadsFrom(p, j, o) => ReadsFrom(p, j, m)
      BY <2>3, <3>3 DEF ReadsFrom
    <3> QED
      BY <2>3, <3>1, <3>2, <3>3, <3>4
  <2>5. to \in {"preprocess", "preprocessing"} => to \in Fetching
    BY DEF Fetching
  <2> QED
    BY <2>1, <2>2, <2>3, <2>4, <2>5 DEF Places
<1>7. \A n \in Pending(to, m, v, l) : n \in Pending(ph, o, x, pc[p]) /\ m.done[n].path = o.done[n].path
  <2> SUFFICES ASSUME NEW n \in Pending(to, m, v, l)
               PROVE  n \in Pending(ph, o, x, pc[p]) /\ m.done[n].path = o.done[n].path
    OBVIOUS
  <2>1. n \in DOMAIN o.done /\ o.done[n].generated /\ m.done = o.done
    BY <1>2 DEF Pending, SameWork
  <2>2. ph \in Counted => n >= o.i
    <3>1. m.done \in Seq([src : UserFiles \cup {Stdin}, path : Path, generated : BOOLEAN])
      BY DEF IsLocals
    <3>2. n \in Int
      BY <2>1, <3>1
    <3>3. ph \in Counted => n >= m.i /\ m.i >= o.i
      BY <1>2 DEF Pending, Follows, Counted
    <3> QED
      BY <1>a, <3>2, <3>3
  <2> QED
    BY <1>2, <2>1, <2>2 DEF Pending, Counted
<1>8. HeldExist(j, to, m, v, l, fs')
  <2>1. \A f \in Working(to, m) : f \in Working(ph, o)
    BY <1>2 DEF Working, Follows, SameWork, Fetching, Preprocessing
  <2>2. \A f \in Held(j, to, m, v, l) : f \in Held(j, ph, o, x, pc[p])
    BY <1>2, <1>7, <2>1 DEF Held, Follows
  <2> QED
    BY <1>1, <1>3, <2>2 DEF HeldExist
<1>9. Distinct(j, to, m)
  BY <1>1, <1>2 DEF Distinct, Follows, SameWork
<1>10. LocalOK(p, j, to, m, v, l, fs', inodes')
  BY <1>2, <1>6, <1>8, <1>9 DEF LocalOK
<1> QED
  BY <1>5, <1>10

(* What is ready to be copied to an output stays whole.                    *)
LEMMA ReadyStays ==
    ASSUME Inv, NEW p \in Procs, NEW m, NEW to, SameWork(m, me[p]),
           to \in {"dependencies", "noted", "compile"} =>
              Phase(pc[p], w[p]) \in {"dependencies", "noted", "compile"},
           to \in {"take", "delivered"} /\ m.done # <<>> =>
              Phase(pc[p], w[p]) \in {"take", "delivered"},
           \A f \in Path : Whole(fs[f].data) =>
              Whole(fs'[f].data) \/ f \in Staging(p) \cup DOMAIN Links \cup LinkTargets
    PROVE  ReadyWhole(job[p], to, m, fs')
<1> DEFINE j == job[p]
           o == me[p]
           ph == Phase(pc[p], w[p])
<1>1. /\ IsJob(j) /\ IsLocals(o) /\ Places(p, j, ph, o) /\ ReadyWhole(j, ph, o, fs)
  BY ProcessKnows
<1>2. SameWork(m, o)
  OBVIOUS
<1>3. ASSUME NEW f, f \in Tmp(p, "i") \/ f \in KeptFiles(j) \/ (f \in ToSet(j.srcs) /\ f \in UserFiles),
             Whole(fs[f].data)
      PROVE  Whole(fs'[f].data)
  <2>1. CASE f \in Tmp(p, "i")
    <3>1. f \in Own(p) /\ f \in Path /\ f \notin UserFiles /\ f[2] = "i"
      BY <2>1, TempFacts, PathFacts
    <3>2. f \notin Staging(p)
      BY <3>1, TempFacts
    <3>3. f \notin DOMAIN Links \cup LinkTargets
      BY <3>1, DriverAssumption
    <3> QED
      BY <1>3, <3>1, <3>2, <3>3
  <2>2. CASE f \notin Tmp(p, "i")
    <3>1. f \in UserFiles /\ f \in Beneath(j)
      BY <1>1, <1>3, <2>2, CommandFacts
    <3>2. f \notin DOMAIN Links \cup LinkTargets
      BY <1>1, <3>1 DEF IsJob
    <3>3. f \in Path /\ f \notin Staging(p)
      BY <3>1, PathFacts, TempFacts
    <3> QED
      BY <1>3, <3>2, <3>3
  <2> QED
    BY <2>1, <2>2
<1>4. ASSUME j.stage = "E", j.out # NoPath, to \in {"dependencies", "noted", "compile"}
      PROVE  Whole(fs'[m.pre].data)
  <2>1. ph \in {"dependencies", "noted", "compile"} /\ m.pre = o.pre
    BY <1>2, <1>4 DEF SameWork
  <2>2. PreOK(p, j, o)
    BY <1>1, <2>1 DEF Places, Preprocessing
  <2>3. o.pre \in Tmp(p, "i") \/ o.pre \in KeptFiles(j) \/ (o.pre \in ToSet(j.srcs) /\ o.pre \in UserFiles)
    BY <2>2 DEF PreOK
  <2>4. Whole(fs[o.pre].data)
    BY <1>1, <1>4, <2>1 DEF ReadyWhole
  <2> QED
    BY <1>3, <2>1, <2>3, <2>4
<1>5. ASSUME j.stage = "E", j.out # NoPath, to \in {"take", "delivered"}, m.done # <<>>
      PROVE  Whole(fs'[m.done[1].path].data)
  <2>1. ph \in {"take", "delivered"} /\ m.done = o.done /\ o.done # <<>>
    BY <1>2, <1>5 DEF SameWork
  <2> DEFINE d == o.done
             a == d[1]
             A == [src : UserFiles \cup {Stdin}, path : Path, generated : BOOLEAN]
  <2>2. d \in Seq(A) /\ d # <<>>
    BY <1>1, <2>1 DEF IsLocals
  <2> HIDE DEF A
  <2>3. 1 \in DOMAIN d
    <3> HIDE DEF d
    <3> QED
      BY <2>2
  <2>4. ArtifactOK(p, j, a)
    BY <1>1, <2>3 DEF Places
  <2>5. Whole(fs[a.path].data)
    BY <1>1, <1>5, <2>1 DEF ReadyWhole
  <2> HIDE DEF a
  <2>6. \/ a.path \in Tmp(p, "i") \/ a.path \in KeptFiles(j)
        \/ (a.path \in ToSet(j.srcs) /\ a.path \in UserFiles)
    BY <1>5, <2>4 DEF ArtifactOK
  <2>7. Whole(fs'[a.path].data)
    BY <1>3, <2>5, <2>6
  <2> QED
    BY <2>1, <2>7 DEF a
<1> QED
  BY <1>4, <1>5 DEF ReadyWhole

(* A removal loses nothing but what it removes.                            *)
LEMMA RemovalLosesNone ==
    ASSUME NEW p \in Procs, NEW S, Removes(S), NEW l, NEW m, NEW v,
           \A f \in Own(p) :
              f \in Remaining(job[p], Phase(pc[p], w[p]), me[p], w[p], pc[p]) =>
                 f \in S \/ f \in Remaining(job[p], Phase(l, v), m, v, l),
           l # "drop"
    PROVE  NoneLost(p, l, m, v)
<1>1. \A f \in Own(p) : f \in Path
  BY TempFacts, PathFacts
<1>2. \A f \in Own(p) : IF f \in S THEN fs'[f].ino = 0 ELSE fs'[f] = fs[f]
  BY <1>1 DEF Removes, Absent
<1> QED
  BY <1>2 DEF NoneLost

(* A removal leaves no file half written.                                  *)
LEMMA RemovalKeepsWhole ==
    ASSUME NEW S, Removes(S), NEW f \in Path, Whole(fs[f].data)
    PROVE  Whole(fs'[f].data)
<1>1. Whole(Absent.data)
  BY DEF Whole, Absent, Partial
<1> QED
  BY <1>1 DEF Removes

(* What an assignment to a field leaves.                                   *)
Updated(new, old, p, x) == new = [old EXCEPT ![p] = x] \/ (new = old /\ x = old[p])

(* The assignments of a step, in the form the lemmas above expect.         *)
LEMMA TurnsTo ==
    ASSUME Inv, NEW p \in Procs, NEW l, NEW m, NEW v, NEW r,
           Updated(pc', pc, p, l), Updated(me', me, p, m), Updated(w', w, p, v),
           Updated(res', res, p, r)
    PROVE  Turns(p, l, m, v, r)
<1>1. /\ pc \in [Procs -> Labels] /\ res \in [Procs -> Results]
      /\ DOMAIN me = Procs /\ DOMAIN w = Procs
  BY DEF Inv, TypeOK
<1>2. pc' = [pc EXCEPT ![p] = l] /\ res' = [res EXCEPT ![p] = r]
  BY <1>1 DEF Updated
<1>3. DOMAIN me' = Procs /\ me'[p] = m /\ \A q \in Procs : q # p => me'[q] = me[q]
  BY <1>1 DEF Updated
<1>4. DOMAIN w' = Procs /\ w'[p] = v /\ \A q \in Procs : q # p => w'[q] = w[q]
  BY <1>1 DEF Updated
<1> QED
  BY <1>2, <1>3, <1>4 DEF Turns

Record(b, i, s, f, g, d, n) ==
    [born |-> b, i |-> i, src |-> s, pre |-> f, gen |-> g, done |-> d, next |-> n]

(* The fields of a record of locals.                                       *)
LEMMA FieldsOf ==
    ASSUME NEW b, NEW i, NEW s, NEW f, NEW g, NEW d, NEW n, NEW t, t = Record(b, i, s, f, g, d, n)
    PROVE  /\ LocalsShape(t) /\ t.born = b /\ t.i = i /\ t.src = s /\ t.pre = f /\ t.gen = g
           /\ t.done = d /\ t.next = n
<1>1. /\ t.born = b /\ t.i = i /\ t.src = s /\ t.pre = f /\ t.gen = g /\ t.done = d /\ t.next = n
  BY DEF Record
<1> QED
  BY <1>1 DEF Record, LocalsShape

(* Locals that keep their shape are locals.                                *)
LEMMA StillLocals ==
    ASSUME NEW m, IsLocals(m), NEW t, LocalsShape(t),
           t.born = m.born, t.i \in Nat \ {0}, t.gen \in BOOLEAN, t.done = m.done,
           t.next = m.next \/ t.next \in [{"tmp", "copy", "asm"} -> Nat]
    PROVE  IsLocals(t)
  BY DEF IsLocals

At(m, k) == [m EXCEPT !.i = k]

(* Going to another source of the command.                                 *)
LEMMA AtSource ==
    ASSUME NEW m, IsLocals(m), NEW k \in Nat \ {0}, NEW t, t = At(m, k)
    PROVE  /\ IsLocals(t) /\ SameWork(t, m) /\ t.i = k
<1>1. t = Record(m.born, k, m.src, m.pre, m.gen, m.done, m.next)
  BY DEF IsLocals, LocalsShape, Record, At
<1>2. /\ LocalsShape(t) /\ t.born = m.born /\ t.i = k /\ t.src = m.src /\ t.pre = m.pre
      /\ t.gen = m.gen /\ t.done = m.done /\ t.next = m.next
  BY <1>1, FieldsOf
<1>3. m.gen \in BOOLEAN
  BY DEF IsLocals
<1> QED
  BY <1>2, <1>3, StillLocals DEF SameWork

(* Naming the file to preprocess.                                          *)
LEMMA WithSource ==
    ASSUME NEW m, IsLocals(m), NEW s, NEW t, t = [m EXCEPT !.src = s]
    PROVE  /\ IsLocals(t) /\ t.born = m.born /\ t.i = m.i /\ t.src = s /\ t.pre = m.pre
           /\ t.gen = m.gen /\ t.done = m.done
<1>1. t = Record(m.born, m.i, s, m.pre, m.gen, m.done, m.next)
  BY DEF IsLocals, LocalsShape, Record
<1>2. /\ LocalsShape(t) /\ t.born = m.born /\ t.i = m.i /\ t.src = s /\ t.pre = m.pre
      /\ t.gen = m.gen /\ t.done = m.done /\ t.next = m.next
  BY <1>1, FieldsOf
<1>3. m.gen \in BOOLEAN /\ m.i \in Nat \ {0}
  BY DEF IsLocals
<1> QED
  BY <1>2, <1>3, StillLocals

Given(m, s) == [m EXCEPT !.src = s, !.pre = s, !.gen = FALSE]

(* A source that is preprocessed already stands for itself.                *)
LEMMA WithPreprocessed ==
    ASSUME NEW m, IsLocals(m), NEW s, NEW t, t = Given(m, s)
    PROVE  /\ IsLocals(t) /\ t.born = m.born /\ t.i = m.i /\ t.src = s /\ t.pre = s
           /\ ~t.gen /\ t.done = m.done
<1>1. t = Record(m.born, m.i, s, s, FALSE, m.done, m.next)
  BY DEF IsLocals, LocalsShape, Record, Given
<1>2. /\ LocalsShape(t) /\ t.born = m.born /\ t.i = m.i /\ t.src = s /\ t.pre = s
      /\ t.gen = FALSE /\ t.done = m.done /\ t.next = m.next
  BY <1>1 DEF Record, LocalsShape
<1>3. m.i \in Nat \ {0}
  BY DEF IsLocals
<1> QED
  BY <1>2, <1>3, StillLocals

Kept(m, f) == [m EXCEPT !.pre = f, !.gen = TRUE]

(* A kept intermediate file becomes the preprocessed one.                  *)
LEMMA WithKept ==
    ASSUME NEW m, IsLocals(m), NEW f, NEW t, t = Kept(m, f)
    PROVE  /\ IsLocals(t) /\ t.born = m.born /\ t.i = m.i /\ t.src = m.src /\ t.pre = f
           /\ t.gen /\ t.done = m.done
<1>1. t = Record(m.born, m.i, m.src, f, TRUE, m.done, m.next)
  BY DEF IsLocals, LocalsShape, Record, Kept
<1>2. /\ LocalsShape(t) /\ t.born = m.born /\ t.i = m.i /\ t.src = m.src /\ t.pre = f
      /\ t.gen = TRUE /\ t.done = m.done /\ t.next = m.next
  BY <1>1 DEF Record, LocalsShape
<1>3. m.i \in Nat \ {0}
  BY DEF IsLocals
<1> QED
  BY <1>2, <1>3, StillLocals

Reserving(m, f, n) == [m EXCEPT !.pre = f, !.gen = TRUE, !.next["tmp"] = n]

(* A reserved temporary becomes the preprocessed file.                     *)
LEMMA WithReserved ==
    ASSUME NEW m, IsLocals(m), NEW f, NEW n \in Nat, NEW t, t = Reserving(m, f, n)
    PROVE  /\ IsLocals(t) /\ t.born = m.born /\ t.i = m.i /\ t.src = m.src /\ t.pre = f
           /\ t.gen /\ t.done = m.done
<1>1. PICK x \in [{"tmp", "copy", "asm"} -> Nat] :
         t = Record(m.born, m.i, m.src, f, TRUE, m.done, x)
  <2> DEFINE y == [m.next EXCEPT !["tmp"] = n]
  <2>1. t = Record(m.born, m.i, m.src, f, TRUE, m.done, y)
    BY DEF IsLocals, LocalsShape, Record, Reserving
  <2>2. y \in [{"tmp", "copy", "asm"} -> Nat]
    BY DEF IsLocals
  <2> QED
    BY <2>1, <2>2
<1>2. /\ LocalsShape(t) /\ t.born = m.born /\ t.i = m.i /\ t.src = m.src /\ t.pre = f
      /\ t.gen = TRUE /\ t.done = m.done /\ t.next = x
  BY <1>1 DEF Record, LocalsShape
<1>3. m.i \in Nat \ {0}
  BY DEF IsLocals
<1> QED
  BY <1>2, <1>3, StillLocals

Reading(m, s, n) == [m EXCEPT !.src = s, !.next["tmp"] = n]

(* The temporary that takes standard input becomes the source.             *)
LEMMA WithStdin ==
    ASSUME NEW m, IsLocals(m), NEW s, NEW n \in Nat, NEW t, t = Reading(m, s, n)
    PROVE  /\ IsLocals(t) /\ t.born = m.born /\ t.i = m.i /\ t.src = s /\ t.pre = m.pre
           /\ t.gen = m.gen /\ t.done = m.done
<1>1. PICK x \in [{"tmp", "copy", "asm"} -> Nat] :
         t = Record(m.born, m.i, s, m.pre, m.gen, m.done, x)
  <2> DEFINE y == [m.next EXCEPT !["tmp"] = n]
  <2>1. t = Record(m.born, m.i, s, m.pre, m.gen, m.done, y)
    BY DEF IsLocals, LocalsShape, Record, Reading
  <2>2. y \in [{"tmp", "copy", "asm"} -> Nat]
    BY DEF IsLocals
  <2> QED
    BY <2>1, <2>2
<1>2. /\ LocalsShape(t) /\ t.born = m.born /\ t.i = m.i /\ t.src = s /\ t.pre = m.pre
      /\ t.gen = m.gen /\ t.done = m.done /\ t.next = x
  BY <1>1, FieldsOf
<1>3. m.gen \in BOOLEAN /\ m.i \in Nat \ {0}
  BY DEF IsLocals
<1> QED
  BY <1>2, <1>3, StillLocals

Numbering(m, a, n) == [m EXCEPT !.next[a] = n]

(* Counting a temporary name.                                              *)
LEMMA WithNumber ==
    ASSUME NEW m, IsLocals(m), NEW a \in {"copy", "asm"}, NEW n \in Nat, NEW t, t = Numbering(m, a, n)
    PROVE  IsLocals(t) /\ SameWork(t, m) /\ t.i = m.i
<1>1. PICK x \in [{"tmp", "copy", "asm"} -> Nat] :
         t = Record(m.born, m.i, m.src, m.pre, m.gen, m.done, x)
  <2> DEFINE y == [m.next EXCEPT ![a] = n]
  <2>1. t = Record(m.born, m.i, m.src, m.pre, m.gen, m.done, y)
    BY DEF IsLocals, LocalsShape, Record, Numbering
  <2>2. y \in [{"tmp", "copy", "asm"} -> Nat]
    BY DEF IsLocals
  <2> QED
    BY <2>1, <2>2
<1>2. /\ LocalsShape(t) /\ t.born = m.born /\ t.i = m.i /\ t.src = m.src /\ t.pre = m.pre
      /\ t.gen = m.gen /\ t.done = m.done /\ t.next = x
  BY <1>1, FieldsOf
<1>3. m.gen \in BOOLEAN /\ m.i \in Nat \ {0}
  BY DEF IsLocals
<1> QED
  BY <1>2, <1>3, StillLocals DEF SameWork

Write(a, t, d, s, n) ==
    [NoWrite EXCEPT !.area = a, !.dst = t, !.data = d, !.from = s, !.then = n]
Movement(t, s, n) == [NoWrite EXCEPT !.area = "copy", !.dst = t, !.from = s, !.then = n]

(* A staged write that begins.                                             *)
LEMMA StagedWrite ==
    ASSUME NEW a, NEW t, NEW d, NEW s, NEW n, NEW v, v = Write(a, t, d, s, n)
    PROVE  /\ IsWrite(v) /\ v.area = a /\ v.dst = t /\ v.data = d /\ v.from = s /\ v.then = n
           /\ v.ok
<1>1. v = [area |-> a, dst |-> t, data |-> d, from |-> s, temp |-> NoPath,
           ino |-> 0, then |-> n, after |-> "", ok |-> NoWrite.ok]
  BY DEF NoWrite, Write
<1>2. IsWrite(v)
  BY <1>1 DEF IsWrite
<1>3. v.ok
  BY Zenon DEF NoWrite, Write
<1>4. v.area = a /\ v.dst = t /\ v.data = d /\ v.from = s /\ v.then = n
  BY DEF NoWrite, Write
<1> QED
  BY <1>2, <1>3, <1>4, Zenon

(* A move that begins.                                                     *)
LEMMA MovedFile ==
    ASSUME NEW t, NEW s, NEW n, NEW v, v = Movement(t, s, n)
    PROVE  IsWrite(v) /\ v.area = "copy" /\ v.dst = t /\ v.from = s /\ v.then = n /\ v.ok
<1>1. v = [area |-> "copy", dst |-> t, data |-> <<"absent">>, from |-> s, temp |-> NoPath,
           ino |-> 0, then |-> n, after |-> "", ok |-> NoWrite.ok]
  BY DEF NoWrite, Movement
<1>2. IsWrite(v)
  BY <1>1 DEF IsWrite
<1>3. v.ok
  BY Zenon DEF NoWrite, Movement
<1>4. v.area = "copy" /\ v.dst = t /\ v.from = s /\ v.then = n
  BY DEF NoWrite, Movement
<1> QED
  BY <1>2, <1>3, <1>4, Zenon

\* The fields of a write, but for whether it went well.
SameWrite(v, u) ==
    /\ v.area = u.area /\ v.dst = u.dst /\ v.data = u.data /\ v.from = u.from
    /\ v.temp = u.temp /\ v.ino = u.ino /\ v.then = u.then /\ v.after = u.after

Ended(u, b) == [u EXCEPT !.ok = b]

(* A staged write that ends.                                               *)
LEMMA WriteEnds ==
    ASSUME NEW u, IsWrite(u), NEW b, NEW v, v = Ended(u, b)
    PROVE  IsWrite(v) /\ SameWrite(v, u) /\ v.ok = b
<1>1. v = [area |-> u.area, dst |-> u.dst, data |-> u.data, from |-> u.from, temp |-> u.temp,
           ino |-> u.ino, then |-> u.then, after |-> u.after, ok |-> b]
  BY DEF IsWrite, Ended
<1> QED
  BY <1>1 DEF IsWrite, SameWrite

Opened(u, t, n) == [u EXCEPT !.temp = t, !.ino = n]

(* A staged write whose temporary is open.                                 *)
LEMMA WriteOpens ==
    ASSUME NEW u, IsWrite(u), NEW t, NEW n, NEW v, v = Opened(u, t, n)
    PROVE  /\ IsWrite(v) /\ v.temp = t /\ v.ino = n
           /\ v.area = u.area /\ v.dst = u.dst /\ v.data = u.data /\ v.from = u.from
           /\ v.then = u.then /\ v.after = u.after /\ v.ok = u.ok
<1>1. v = [area |-> u.area, dst |-> u.dst, data |-> u.data, from |-> u.from, temp |-> t,
           ino |-> n, then |-> u.then, after |-> u.after, ok |-> u.ok]
  BY DEF IsWrite, Opened
<1> QED
  BY <1>1 DEF IsWrite

Copying(u, n, a) == [u EXCEPT !.then = n, !.after = a]

(* A move across file systems turns into a staged copy.                    *)
LEMMA MoveCopies ==
    ASSUME NEW u, IsWrite(u), NEW n, NEW a, NEW v, v = Copying(u, n, a)
    PROVE  /\ IsWrite(v) /\ v.then = n /\ v.after = a
           /\ v.area = u.area /\ v.dst = u.dst /\ v.data = u.data /\ v.from = u.from
           /\ v.temp = u.temp /\ v.ino = u.ino /\ v.ok = u.ok
<1>1. v = [area |-> u.area, dst |-> u.dst, data |-> u.data, from |-> u.from, temp |-> u.temp,
           ino |-> u.ino, then |-> n, after |-> a, ok |-> u.ok]
  BY DEF IsWrite, Copying
<1> QED
  BY <1>1 DEF IsWrite

(* Outside a staged write nothing is asked of one.                         *)
LEMMA NotWriting ==
    ASSUME NEW p, NEW j, NEW m, NEW v, NEW l, NEW F, NEW n,
           l \notin Staged \cup {"noted", "moved"}
    PROVE  Phase(l, v) = l /\ Writing(p, j, l, m, v, l) /\ TempOK(v, l, F, n)
<1>1. l \notin {"fill", "publish", "drop"}
  BY DEF Staged
<1> QED
  BY <1>1 DEF Phase, Writing, TempOK

(* What removing a set of files does.                                      *)
LEMMA RemovalIs ==
    ASSUME NEW S, fs' = Without(S)
    PROVE  Removes(S)
  BY DEF Without, Removes

(* Removing nothing.                                                       *)
LEMMA NothingRemoved ==
    ASSUME Inv, NEW p, fs' = fs
    PROVE  Removes({}) /\ Ours(p, {})
  BY DEF Removes, Ours, Inv, TypeOK

(* Two sets of files of its own are one.                                   *)
LEMMA Together ==
    ASSUME NEW p, NEW S, NEW T, Ours(p, S), Ours(p, T)
    PROVE  Ours(p, S \cup T)
  BY DEF Ours

(* What remains of a command that stands at one of its own points.         *)
LEMMA Remains ==
    ASSUME NEW p \in Procs, ~job[p].keep, NEW ph,
           NEW f \in Remaining(job[p], ph, me[p], w[p], ph), ph \notin Staged
    PROVE  \/ f \in Working(ph, me[p])
           \/ f \in Cleanup(p)
           \/ f = Asm(me[p]) /\ ph = "compiled" /\ w[p].ok
           \/ f = Asm(me[p]) /\ ph = "moved" /\ ~w[p].ok
<1>1. ph \notin {"fill", "publish", "drop"}
  BY DEF Staged
<1> DEFINE P == Pending(ph, me[p], w[p], ph)
<1>3. \A n \in P : me[p].done[n].path \in Cleanup(p)
  BY DEF Pending, Cleanup, Generated
<1>4. \/ f \in Working(ph, me[p])
      \/ f \in {me[p].done[n].path : n \in {k \in P : job[p].stage # "ir"}}
      \/ f \in {g \in {Asm(me[p])} : \/ ph = "compiled" /\ w[p].ok
                                     \/ ph = "moved" /\ ~(ph = "moved" /\ w[p].ok)}
  BY <1>1 DEF Remaining
<1> HIDE DEF P
<1>5. CASE f \in {me[p].done[n].path : n \in {k \in P : job[p].stage # "ir"}}
  <2>1. PICK n \in {k \in P : job[p].stage # "ir"} : f = me[p].done[n].path
    BY <1>5
  <2> QED
    BY <1>3, <2>1
<1>6. CASE f \in {g \in {Asm(me[p])} : \/ ph = "compiled" /\ w[p].ok
                                       \/ ph = "moved" /\ ~(ph = "moved" /\ w[p].ok)}
  BY <1>6, Zenon
<1> QED
  BY <1>4, <1>5, <1>6

(* What `cleanup_generated_temp` removes is the preprocessed file the      *)
(* command works on.                                                       *)
LEMMA CleanupPreIs ==
    ASSUME NEW p \in Procs, ~job[p].keep, NEW ph \in Preprocessing \ Fetching
    PROVE  Working(ph, me[p]) = CleanupPre(p)
  BY DEF Working, CleanupPre

(* The preprocessed file that is removed is the process's own.             *)
LEMMA CleanupPreIsOurs ==
    ASSUME Inv, NEW p \in Procs, pc[p] \in Preprocessing \ Fetching
    PROVE  Ours(p, CleanupPre(p))
<1>1. CASE job[p].keep
  BY <1>1 DEF CleanupPre, Ours
<1>2. CASE ~job[p].keep
  <2>1. Phase(pc[p], w[p]) = pc[p] /\ pc[p] \in Active
    BY DEF Phase, Staged, Active, Sourcing, Preprocessing, Fetching
  <2> QED
    BY <1>2, <2>1, WorkIsOurs, CleanupPreIs
<1> QED
  BY <1>1, <1>2

(* The source a command is at.                                             *)
LEMMA SourceIs ==
    ASSUME Inv, NEW p \in Procs, Phase(pc[p], w[p]) \in Sourcing
    PROVE  /\ me[p].i \in 1 .. Len(job[p].srcs) /\ Source(p) = job[p].srcs[me[p].i]
           /\ Source(p) \in UserFiles \cup {Stdin} /\ Source(p) \in ToSet(job[p].srcs)
           /\ ~Rejected(job[p])
<1> DEFINE j == job[p]
           m == me[p]
<1>1. IsJob(j) /\ IsLocals(m) /\ Progress(j, Phase(pc[p], w[p]), m)
  BY ProcessKnows
<1> HIDE DEF j, m
<1>2. Len(j.srcs) \in Nat /\ m.i \in Nat \ {0} /\ m.i <= Len(j.srcs) /\ ~Rejected(j)
  BY <1>1, CommandFacts DEF Progress, IsLocals, Active
<1>3. m.i \in 1 .. Len(j.srcs)
  BY <1>2
<1>4. j.srcs[m.i] \in UserFiles \cup {Stdin} /\ j.srcs[m.i] \in ToSet(j.srcs)
  BY <1>1, <1>3, CommandFacts
<1> QED
  BY <1>2, <1>3, <1>4 DEF j, m, Source

(* -M: the rule is written, and the next source is taken.                  *)
LEMMA RulePrinted ==
    ASSUME Inv, NEW p \in Procs, pc[p] \in {"dependencies", "listed"}, job[p].dep = "only",
           UNCHANGED <<inodes, job, w, kills, strangers>>, fs' = Without(CleanupPre(p))
    PROVE  /\ End(p, "error") /\ UNCHANGED me => Inv' /\ Settled(p)
           /\ Set(p, [me[p] EXCEPT !.i = @ + 1]) /\ Go(p, "take") /\ UNCHANGED res
                 => Inv' /\ Settled(p)
<1> DEFINE j == job[p]
           o == me[p]
           v == w[p]
           l == pc[p]
           m == [o EXCEPT !.i = @ + 1]
           S == CleanupPre(p)
<1>1. /\ Phase(l, v) = l /\ l \in Active /\ l \in Preprocessing \ Fetching /\ l \notin Staged
      /\ l \notin {"end", "crashed", "delivered"}
  BY DEF Phase, Staged, Active, Sourcing, Preprocessing, Fetching
<1>2. UNCHANGED <<inodes, job, w, kills, strangers>> /\ Removes(S)
  BY RemovalIs
<1>3. IsJob(j) /\ IsLocals(o) /\ IsWrite(v) /\ Progress(j, l, o) /\ Places(p, j, l, o)
  BY <1>1, ProcessKnows
<1>4. Ours(p, S)
  BY <1>1, CleanupPreIsOurs
<1>5. /\ j.dep = "only" /\ j.stage = "E" /\ Len(o.done) = 0 /\ o.i \in Nat \ {0}
      /\ o.i <= Len(j.srcs) /\ ~Rejected(j) /\ Len(j.srcs) \in Nat
  BY <1>1, <1>3, CommandFacts DEF Progress, Active, Sourcing, Preprocessing, IsJob, IsLocals
<1>6. DOMAIN o.done = {}
  BY <1>3, <1>5 DEF IsLocals
<1>7. ASSUME ~j.keep, NEW f \in Remaining(j, l, o, v, l)
      PROVE  f \in S
  <2>1. f \notin Cleanup(p)
    BY <1>6 DEF Cleanup, Generated
  <2>2. l \notin {"compiled", "moved"}
    OBVIOUS
  <2> QED
    BY <1>1, <1>7, <2>1, <2>2, Remains, CleanupPreIs
<1>8. CASE End(p, "error") /\ UNCHANGED me
  <2>1. Turns(p, "end", o, v, "error")
    BY <1>2, <1>8, TurnsTo DEF Updated, End, Go
  <2> QED
    BY <1>1, <1>2, <1>3, <1>4, <1>7, <2>1, EndKeeps DEF Results
<1>9. CASE Set(p, m) /\ Go(p, "take") /\ UNCHANGED res
  <2>1. Settled(p)
    BY <1>2, <1>4, RemovalSettles
  <2>2. Turns(p, "take", m, v, res[p])
    BY <1>2, <1>9, TurnsTo DEF Updated, Set, Go
  <2>3. IsLocals(m) /\ SameWork(m, o) /\ m.i = o.i + 1
    <3>1. m = At(o, o.i + 1) /\ o.i + 1 \in Nat \ {0}
      BY <1>5 DEF At
    <3> HIDE DEF m, o
    <3> QED
      BY <1>3, <3>1, AtSource
  <2> HIDE DEF m
  <2>4. "take" \in Labels /\ "take" \notin Staged \cup {"noted", "moved"} /\ "take" \in Active
    BY DEF Labels, Active, Staged
  <2>5. Phase("take", v) = "take" /\ Writing(p, j, "take", m, v, "take") /\ TempOK(v, "take", fs', inodes')
    BY <2>4, NotWriting
  <2>6. Follows(l, "take", o.i, m.i)
    BY <1>1, <2>4 DEF Follows, Counted, Fetching, Preprocessing
  <2>7. Progress(j, "take", m)
    BY <1>5, <2>3, <2>4 DEF Progress, SameWork, Sourcing, Fetching, Preprocessing, Finishing
  <2>8. ReadyWhole(j, "take", m, fs')
    BY <1>5, <2>3 DEF ReadyWhole, SameWork
  <2>9. Held(j, "take", m, v, "take") = {}
    BY <1>6, <2>3 DEF Held, Working, Pending, Fetching, Preprocessing, SameWork
  <2>10. ~j.keep => NoneLost(p, "take", m, v)
    BY <1>1, <1>2, <1>7, <2>5, RemovalLosesNone
  <2> QED
    BY <1>1, <1>2, <1>3, <2>1, <2>2, <2>3, <2>4, <2>5, <2>6, <2>7, <2>8, <2>9, <2>10, MoveOnKeeps
<1> QED
  BY <1>8, <1>9

(* The dependency listing's end keeps the invariant.                       *)
LEMMA ListedKeeps ==
    ASSUME Inv, NEW p \in Procs, Listed(p)
    PROVE  Inv' /\ Settled(p)
<1>1. pc[p] = "listed" /\ Phase("listed", w[p]) = "listed"
  BY DEF Listed, Phase, Staged
<1>2. job[p].dep = "only"
  BY <1>1, ProcessKnows DEF Progress
<1>3. /\ UNCHANGED <<inodes, job, w, kills, strangers>> /\ fs' = Without(CleanupPre(p))
      /\ \/ Set(p, [me[p] EXCEPT !.i = @ + 1]) /\ Go(p, "take") /\ UNCHANGED res
         \/ End(p, "error") /\ UNCHANGED me
  BY DEF Listed
<1> QED
  BY <1>1, <1>2, <1>3, RulePrinted

(* The end of writing the dependency file keeps the invariant.             *)
LEMMA NotedKeeps ==
    ASSUME Inv, NEW p \in Procs, Noted(p)
    PROVE  Inv' /\ Settled(p)
<1> DEFINE j == job[p]
           m == me[p]
           v == w[p]
           S == CleanupPre(p)
<1>1. /\ pc[p] = "noted" /\ Phase("noted", v) = "noted" /\ "noted" \in Active
      /\ pc[p] \in Preprocessing \ Fetching /\ pc[p] \notin Staged
  BY DEF Noted, Phase, Staged, Active, Sourcing, Preprocessing, Fetching
<1>2. /\ UNCHANGED <<inodes, job, me, w, kills, strangers>>
      /\ IF v.ok THEN Go(p, "compile") /\ UNCHANGED <<fs, res>>
         ELSE fs' = Without(S) /\ End(p, "error")
  BY DEF Noted
<1>3. /\ IsJob(j) /\ IsLocals(m) /\ IsWrite(v) /\ Progress(j, "noted", m)
      /\ Writing(p, j, "noted", m, v, "noted")
  BY <1>1, ProcessKnows
<1>4. CASE ~v.ok
  <2>1. Removes(S) /\ Ours(p, S)
    BY <1>1, <1>2, <1>4, CleanupPreIsOurs, RemovalIs
  <2>2. Turns(p, "end", m, v, "error")
    BY <1>2, <1>4, TurnsTo DEF Updated, End, Go
  <2>3. ForgetsAt(j, m, v, "error")
    BY <1>3, <1>4 DEF Writing, ForgetsAt
  <2> QED
    BY <1>1, <1>2, <1>3, <2>1, <2>2, <2>3, EndKeeps DEF Results
<1>5. CASE v.ok
  <2>1. Settled(p) /\ fs' = fs /\ Removes({})
    BY <1>2, <1>5, NoWriteSettles, NothingRemoved
  <2>2. Turns(p, "compile", m, v, res[p])
    BY <1>2, <1>5, TurnsTo DEF Updated, Go
  <2>3. "compile" \in Labels /\ "compile" \notin Staged \cup {"noted", "moved"} /\ "compile" \in Active
    BY DEF Labels, Active, Sourcing, Preprocessing, Staged
  <2>4. /\ Phase("compile", v) = "compile" /\ Writing(p, j, "compile", m, v, "compile")
        /\ TempOK(v, "compile", fs', inodes')
    BY <2>3, NotWriting
  <2>5. Follows("noted", "compile", m.i, m.i) /\ SameWork(m, m)
    BY <1>1, <2>3 DEF Follows, Counted, Fetching, Preprocessing, SameWork
  <2>6. Progress(j, "compile", m)
    BY <1>1, <1>3, <2>3 DEF Progress, Active, Sourcing, Fetching, Preprocessing, Finishing
  <2>7. ReadyWhole(j, "compile", m, fs')
    BY <1>1, <2>1, <2>5, ReadyStays
  <2>8. ~j.keep => NoneLost(p, "compile", m, v)
    <3> SUFFICES ASSUME ~j.keep
                 PROVE  NoneLost(p, "compile", m, v)
      OBVIOUS
    <3>1. \A f \in Remaining(j, "noted", m, v, "noted") : f \in Remaining(j, "compile", m, v, "compile")
      BY <1>1, <2>3 DEF Remaining, Working, Pending, Fetching, Preprocessing, Staged
    <3> QED
      BY <1>1, <2>1, <2>3, <2>4, <3>1, RemovalLosesNone
  <2>9. \A f \in Held(j, "compile", m, v, "compile") : fs'[f] = fs[f]
    BY <2>1
  <2> QED
    BY <1>1, <1>2, <1>3, <2>1, <2>2, <2>3, <2>4, <2>5, <2>6, <2>7, <2>8, <2>9, MoveOnKeeps
<1> QED
  BY <1>4, <1>5

(* The end of moving the assembly of a source keeps the invariant.         *)
LEMMA MovedKeeps ==
    ASSUME Inv, NEW p \in Procs, Moved(p)
    PROVE  Inv' /\ Settled(p)
<1> DEFINE j == job[p]
           o == me[p]
           v == w[p]
           a == Artifact(Source(p), v.dst, FALSE)
           m == Pushed(o, a)
<1>1. /\ pc[p] = "moved" /\ Phase("moved", v) = "moved" /\ "moved" \in Active
      /\ pc[p] \notin Staged
  BY DEF Moved, Phase, Staged, Active, Sourcing
<1>2. UNCHANGED <<inodes, job, w, kills, strangers>>
  BY DEF Moved
<1>3. /\ IsJob(j) /\ IsLocals(o) /\ IsWrite(v) /\ Progress(j, "moved", o)
      /\ Places(p, j, "moved", o) /\ Writing(p, j, "moved", o, v, "moved")
  BY <1>1, ProcessKnows
<1>4. /\ j.dep # "only" /\ j.stage = "S" /\ j.out = NoPath /\ o.i <= Len(j.srcs) /\ o.i \in Nat \ {0}
      /\ v.from = Asm(o) /\ v.dst \in UserFiles /\ PreOK(p, j, o) /\ Len(j.srcs) \in Nat
  BY <1>1, <1>3, CommandFacts DEF Progress, Sourcing, Writing, Places, IsLocals
<1>5. Working("moved", o) = {}
  BY DEF Working, Fetching, Preprocessing
<1>6. \A f \in Cleanup(p) : \E n \in DOMAIN o.done : o.done[n].generated
  BY DEF Cleanup, Generated
<1>7. \A f : f \notin Cleanup(p)
  <2>1. \A n \in DOMAIN o.done : ArtifactOK(p, j, o.done[n])
    BY <1>3 DEF Places
  <2>2. \A n \in DOMAIN o.done : ~o.done[n].generated
    BY <1>4, <2>1 DEF ArtifactOK
  <2> QED
    BY <1>6, <2>2
<1>8. CASE ~v.ok
  <2> DEFINE S == IF j.keep THEN {} ELSE {v.from}
  <2>1. fs' = Without(S) /\ End(p, "error") /\ UNCHANGED me
    BY <1>8 DEF Moved
  <2>2. Removes(S)
    BY <2>1, RemovalIs
  <2>3. Turns(p, "end", o, v, "error")
    BY <1>2, <2>1, TurnsTo DEF Updated, End, Go
  <2>4. Ours(p, S)
    <3>1. CASE j.keep
      BY <3>1 DEF Ours
    <3>2. CASE ~j.keep /\ o.gen
      <4>1. Asm(o) \in Tmp(p, "s")
        BY <1>4, <3>2, TempFacts DEF PreOK, Asm
      <4> QED
        BY <1>4, <3>2, <4>1, AssemblyIsOurs
    <3>3. CASE ~j.keep /\ ~o.gen
      <4>1. Asm(o) \in UserFiles
        BY <1>3, <1>4, <3>3, CommandFacts DEF PreOK, Asm
      <4> QED
        BY <1>4, <3>3, <4>1, AssemblyIsOurs, PathFacts
    <3> QED
      BY <3>1, <3>2, <3>3
  <2>5. ~j.keep => Remaining(j, "moved", o, v, "moved") \subseteq S
    BY <1>1, <1>4, <1>5, <1>7, Remains
  <2> QED
    BY <1>1, <1>2, <1>3, <2>2, <2>3, <2>4, <2>5, EndKeeps DEF Results
<1>9. CASE v.ok
  <2>1. Set(p, m) /\ Go(p, "take") /\ UNCHANGED <<fs, res>>
    BY <1>9 DEF Moved, Push, Pushed
  <2>2. Turns(p, "take", m, v, res[p])
    BY <1>2, <2>1, TurnsTo DEF Updated, Set, Go
  <2>3. a \in Artifacts /\ a.path = v.dst /\ ~a.generated
    <3>1. Source(p) \in UserFiles \cup {Stdin}
      BY <1>1, SourceIs DEF Sourcing
    <3>2. v.dst \in Path
      BY <1>4, PathFacts
    <3> QED
      BY <3>1, <3>2 DEF Artifacts, Artifact
  <2> HIDE DEF a
  <2>4. ArtifactOK(p, j, a)
    BY <1>4, <2>3 DEF ArtifactOK
  <2>5. Removes({}) /\ Ours(p, {})
    BY <2>1, NothingRemoved
  <2>6. \A f \in Remaining(j, "moved", o, v, "moved") :
           f \in {o.done[n].path : n \in {k \in DOMAIN o.done : o.done[k].generated /\ j.stage # "ir"}}
    BY <1>5, <1>9, <1>4 DEF Remaining, Pending
  <2>7. m = Pushed(o, a) /\ j.stage # "E"
    BY <1>4
  <2> HIDE DEF m
  <2> QED
    BY <1>1, <1>2, <1>4, <2>2, <2>3, <2>4, <2>5, <2>6, <2>7, PushKeeps
<1> QED
  BY <1>8, <1>9

(* The end of delivering the only output keeps the invariant.              *)
LEMMA DeliveredKeeps ==
    ASSUME Inv, NEW p \in Procs, Delivered(p)
    PROVE  Inv' /\ Settled(p)
<1> DEFINE j == job[p]
           m == me[p]
           v == w[p]
           r == IF v.ok THEN "ok" ELSE "error"
<1>1. /\ pc[p] = "delivered" /\ Phase("delivered", v) = "delivered" /\ "delivered" \in Active
      /\ pc[p] \notin Staged
  BY DEF Delivered, Phase, Staged, Active, Finishing
<1>2. /\ UNCHANGED <<inodes, job, me, w, kills, strangers>>
      /\ fs' = (IF v.ok THEN fs ELSE Without(Cleanup(p))) /\ End(p, r)
  BY DEF Delivered
<1>3. IsLocals(m)
  BY ProcessKnows
<1>4. Turns(p, "end", m, v, r)
  BY <1>2, TurnsTo DEF Updated, End, Go
<1>5. Working("delivered", m) = {}
  BY DEF Working, Fetching, Preprocessing
<1>6. CASE v.ok
  <2>1. Removes({}) /\ Ours(p, {})
    BY <1>2, <1>6, NothingRemoved
  <2>2. Remaining(j, "delivered", m, v, "delivered") = {}
    BY <1>5, <1>6 DEF Remaining, Pending
  <2> QED
    BY <1>1, <1>2, <1>3, <1>4, <2>1, <2>2, EndKeeps DEF Results
<1>7. CASE ~v.ok
  <2>1. Removes(Cleanup(p)) /\ Ours(p, Cleanup(p))
    <3>1. fs' = Without(Cleanup(p))
      BY <1>2, <1>7
    <3> QED
      BY <1>1, <1>7, <3>1, RemovalIs, CleanupIsOurs
  <2>2. ~j.keep => Remaining(j, "delivered", m, v, "delivered") \subseteq Cleanup(p)
    BY <1>1, <1>5, Remains
  <2> QED
    BY <1>1, <1>2, <1>3, <1>4, <2>1, <2>2, EndKeeps DEF Results
<1> QED
  BY <1>6, <1>7

(* The linker's end keeps the invariant.                                   *)
LEMMA LinkedKeeps ==
    ASSUME Inv, NEW p \in Procs, Linked(p)
    PROVE  Inv' /\ Settled(p)
<1> DEFINE j == job[p]
           m == me[p]
           v == w[p]
           r == IF v.ok THEN "ok" ELSE "error"
<1>1. /\ pc[p] = "linked" /\ Phase("linked", v) = "linked" /\ "linked" \in Active
      /\ pc[p] \notin Staged
  BY DEF Linked, Phase, Staged, Active, Finishing
<1>2. /\ UNCHANGED <<inodes, job, me, w, kills, strangers>>
      /\ fs' = (IF j.debug \/ j.keep THEN fs ELSE Without(Generated(m.done))) /\ End(p, r)
  BY DEF Linked
<1>3. IsLocals(m)
  BY ProcessKnows
<1>4. Turns(p, "end", m, v, r)
  BY <1>2, TurnsTo DEF Updated, End, Go
<1>5. Working("linked", m) = {}
  BY DEF Working, Fetching, Preprocessing
<1>6. CASE j.debug \/ j.keep
  <2>1. Removes({}) /\ Ours(p, {})
    BY <1>2, <1>6, NothingRemoved
  <2> QED
    BY <1>1, <1>2, <1>3, <1>4, <1>6, <2>1, EndKeeps DEF Results
<1>7. CASE ~j.debug /\ ~j.keep
  <2>1. Removes(Cleanup(p)) /\ Ours(p, Cleanup(p))
    <3>1. fs' = Without(Cleanup(p))
      BY <1>2, <1>7 DEF Cleanup
    <3> QED
      BY <1>1, <1>7, <3>1, RemovalIs, CleanupIsOurs
  <2>2. Remaining(j, "linked", m, v, "linked") \subseteq Cleanup(p)
    BY <1>1, <1>5, <1>7, Remains
  <2> QED
    BY <1>1, <1>2, <1>3, <1>4, <2>1, <2>2, EndKeeps DEF Results
<1> QED
  BY <1>6, <1>7

(* What a command with one artifact generated.                             *)
LEMMA OneArtifact ==
    ASSUME NEW a
    PROVE  Generated(<<a>>) = {f \in {a.path} : a.generated}
<1>1. DOMAIN <<a>> = {1} /\ <<a>>[1] = a
  OBVIOUS
<1> QED
  BY <1>1 DEF Generated

(* Printing a preprocessed source keeps the invariant.                     *)
LEMMA PrintSourceKeeps ==
    ASSUME Inv, NEW p \in Procs, PrintSource(p)
    PROVE  Inv' /\ Settled(p)
<1> DEFINE j == job[p]
           o == me[p]
           v == w[p]
           d == o.done
           a == d[o.i]
           S == IF j.keep THEN {} ELSE Generated(<<a>>)
           m == At(o, o.i + 1)
<1>1. /\ pc[p] = "print" /\ Phase("print", v) = "print" /\ "print" \in Active
      /\ pc[p] \notin Staged
  BY DEF PrintSource, Phase, Staged, Active, Finishing
<1>2. /\ UNCHANGED <<inodes, job, w, kills, strangers>>
      /\ \/ o.i > Len(d) /\ End(p, "ok") /\ UNCHANGED <<fs, me>>
         \/ /\ ~(o.i > Len(d)) /\ fs' = Without(S)
            /\ \/ Set(p, m) /\ UNCHANGED <<pc, res>>
               \/ End(p, "error") /\ UNCHANGED me
  BY DEF PrintSource, At
<1>3. /\ IsJob(j) /\ IsLocals(o) /\ IsWrite(v) /\ Progress(j, "print", o)
      /\ Distinct(j, "print", o)
  BY <1>1, ProcessKnows
<1>4. /\ d \in Seq(Artifacts) /\ o.i \in Nat \ {0} /\ Len(d) \in Nat /\ DOMAIN d = 1 .. Len(d)
      /\ j.stage = "E" /\ Len(d) = Len(j.srcs) /\ ~Rejected(j) /\ j.dep # "only"
  BY <1>1, <1>3 DEF IsLocals, Artifacts, Progress, Finishing
<1>5. Working("print", o) = {} /\ Working("print", m) = {}
  BY DEF Working, Fetching, Preprocessing
<1>6. CASE o.i > Len(d)
  <2>1. End(p, "ok") /\ UNCHANGED <<fs, me>>
    BY <1>2, <1>6
  <2>2. Turns(p, "end", o, v, "ok")
    BY <1>2, <2>1, TurnsTo DEF Updated, End, Go
  <2>3. Removes({}) /\ Ours(p, {})
    BY <2>1, NothingRemoved
  <2>4. Pending("print", o, v, "print") = {}
    BY <1>4, <1>6 DEF Pending
  <2>5. Remaining(j, "print", o, v, "print") = {}
    BY <1>5, <2>4 DEF Remaining
  <2> QED
    BY <1>1, <1>2, <1>3, <2>2, <2>3, <2>5, EndKeeps DEF Results
<1>7. CASE ~(o.i > Len(d))
  <2>1. o.i \in DOMAIN d
    BY <1>4, <1>7
  <2>2. Removes(S)
    BY <1>2, <1>7, RemovalIs
  <2>3. ~j.keep /\ a.generated => o.i \in Pending("print", o, v, "print")
    BY <1>4, <2>1 DEF Pending
  <2>4. Ours(p, S)
    <3>1. CASE j.keep \/ ~a.generated
      BY <3>1, OneArtifact DEF Ours
    <3>2. CASE ~j.keep /\ a.generated
      <4>1. Ours(p, {a.path})
        BY <1>1, <2>1, <2>3, <3>2, ArtifactIsOurs
      <4> QED
        BY <3>2, <4>1, OneArtifact DEF Ours
    <3> QED
      BY <3>1, <3>2
  <2>5. CASE End(p, "error") /\ UNCHANGED me
    <3>1. Turns(p, "end", o, v, "error")
      BY <1>2, <2>5, TurnsTo DEF Updated, End, Go
    <3>2. ForgetsAt(j, o, v, "error")
      BY <1>4 DEF ForgetsAt
    <3> QED
      BY <1>1, <1>2, <1>3, <2>2, <2>4, <3>1, <3>2, EndKeeps DEF Results
  <2>6. CASE Set(p, m) /\ UNCHANGED <<pc, res>>
    <3>1. Settled(p)
      BY <1>2, <2>2, <2>4, RemovalSettles
    <3>2. Turns(p, "print", m, v, res[p])
      BY <1>1, <1>2, <2>6, TurnsTo DEF Updated, Set
    <3>3. IsLocals(m) /\ SameWork(m, o) /\ m.i = o.i + 1
      <4>1. o.i + 1 \in Nat \ {0}
        BY <1>4
      <4> QED
        BY <1>3, <4>1, AtSource
    <3> HIDE DEF m
    <3>4. "print" \in Labels /\ "print" \notin Staged \cup {"noted", "moved"}
      BY DEF Labels, Active, Finishing, Staged
    <3>5. Writing(p, j, "print", m, v, "print") /\ TempOK(v, "print", fs', inodes')
      BY <3>4, NotWriting
    <3>6. Follows("print", "print", o.i, m.i)
      BY <1>1, <1>4, <3>3 DEF Follows, Counted, Fetching, Preprocessing
    <3>7. Progress(j, "print", m)
      BY <1>1, <1>4, <3>3 DEF Progress, SameWork, Sourcing, Fetching, Preprocessing, Finishing
    <3>8. ReadyWhole(j, "print", m, fs')
      BY DEF ReadyWhole
    <3>9. ASSUME NEW n \in DOMAIN d, d[n].generated
          PROVE  /\ n \in Pending("print", o, v, "print") <=> n >= o.i
                 /\ n \in Pending("print", m, v, "print") <=> n >= o.i + 1
      BY <3>3, <3>9 DEF Pending, SameWork
    <3>10. ASSUME NEW f \in Held(j, "print", m, v, "print")
           PROVE  fs'[f] = fs[f]
      <4>1. ~j.keep /\ f \in {m.done[n].path : n \in {k \in Pending("print", m, v, "print") : j.stage = "E"}}
        BY <1>5, <3>10, <1>1 DEF Held, Working, Preprocessing, Fetching
      <4>2. PICK n \in Pending("print", m, v, "print") : f = d[n].path
        BY <3>3, <4>1 DEF SameWork
      <4>3. n \in DOMAIN d /\ d[n].generated /\ n # o.i
        BY <1>4, <3>3, <4>2 DEF Pending, SameWork
      <4>4. a.generated => f # a.path
        BY <1>1, <1>3, <1>4, <2>1, <4>1, <4>2, <4>3 DEF Distinct
      <4>5. f \notin S
        BY <4>4, OneArtifact
      <4>6. f \in Path
        <5>1. ArtifactOK(p, j, d[n])
          BY <1>1, <4>3, ProcessKnows DEF Places
        <5> DEFINE b == d[n]
        <5>2. b.path \in Tmp(p, "i")
          <6>1. ArtifactOK(p, j, b) /\ b.generated
            BY <4>3, <5>1
          <6> HIDE DEF b
          <6> QED
            BY <1>4, <4>1, <6>1 DEF ArtifactOK
        <5> QED
          BY <4>2, <5>2, TempFacts, PathFacts
      <4> QED
        BY <2>2, <4>5, <4>6 DEF Removes
    <3>11. ~j.keep => NoneLost(p, "print", m, v)
      <4> SUFFICES ASSUME ~j.keep, NEW f \in Remaining(j, "print", o, v, "print"), f \notin S
                   PROVE  f \in Remaining(j, "print", m, v, "print")
        BY <1>1, <2>2, <3>4, <3>5, NotWriting, RemovalLosesNone
      <4>1. f \in {d[n].path : n \in Pending("print", o, v, "print")}
        BY <1>5 DEF Remaining
      <4>2. PICK n \in Pending("print", o, v, "print") : f = d[n].path
        BY <4>1
      <4>3. n \in DOMAIN d /\ d[n].generated /\ n >= o.i
        BY <3>9, <4>2 DEF Pending
      <4>4. n # o.i
        BY <4>2, <4>3, OneArtifact
      <4>5. n \in Pending("print", m, v, "print") /\ m.done[n].path = f
        <5>1. n >= o.i + 1
          BY <1>4, <4>3, <4>4
        <5> QED
          BY <3>3, <3>9, <4>2, <4>3, <5>1 DEF SameWork
      <4> QED
        BY <1>1, <1>4, <4>5 DEF Remaining
    <3> QED
      BY <1>1, <1>2, <1>3, <3>1, <3>2, <3>3, <3>4, <3>5, <3>6, <3>7, <3>8, <3>10, <3>11, MoveOnKeeps
  <2> QED
    BY <1>2, <1>7, <2>5, <2>6
<1> QED
  BY <1>6, <1>7

(* The assembler's end keeps the invariant.                                *)
LEMMA AssembledKeeps ==
    ASSUME Inv, NEW p \in Procs, Assembled(p)
    PROVE  Inv' /\ Settled(p)
<1> DEFINE j == job[p]
           o == me[p]
           v == w[p]
           d == o.done
           a == d[o.i]
           T == IF v.ok THEN Generated(<<a>>) ELSE Generated(d)
           S == IF j.debug \/ j.keep THEN {} ELSE T
           m == At(o, o.i + 1)
<1>1. /\ pc[p] = "assembled" /\ Phase("assembled", v) = "assembled" /\ "assembled" \in Active
      /\ pc[p] \notin Staged
  BY DEF Assembled, Phase, Staged, Active, Finishing
<1>2. /\ UNCHANGED <<inodes, job, w, kills, strangers>>
      /\ fs' = (IF j.debug \/ j.keep THEN fs ELSE Without(T))
      /\ \/ ~v.ok /\ End(p, "error") /\ UNCHANGED me
         \/ v.ok /\ Set(p, m) /\ o.i = Len(d) /\ End(p, "ok")
         \/ v.ok /\ Set(p, m) /\ o.i # Len(d) /\ Go(p, "assemble") /\ UNCHANGED res
  BY DEF Assembled, At
<1>3. /\ IsJob(j) /\ IsLocals(o) /\ IsWrite(v) /\ Progress(j, "assembled", o)
  BY <1>1, ProcessKnows
<1>4. /\ d \in Seq(Artifacts) /\ o.i \in Nat \ {0} /\ Len(d) \in Nat /\ DOMAIN d = 1 .. Len(d)
      /\ j.stage = "c" /\ Len(d) = Len(j.srcs) /\ ~Rejected(j) /\ j.dep # "only" /\ o.i <= Len(d)
  BY <1>1, <1>3 DEF IsLocals, Artifacts, Progress, Finishing
<1>5. \A ph \in {"assemble", "assembled"} : Working(ph, o) = {} /\ Working(ph, m) = {}
  BY DEF Working, Fetching, Preprocessing
<1>6. o.i \in DOMAIN d
  BY <1>4
<1>7. Removes(S)
  <2>1. CASE j.debug \/ j.keep
    BY <1>2, <2>1, NothingRemoved
  <2>2. CASE ~(j.debug \/ j.keep)
    BY <1>2, <2>2, RemovalIs
  <2> QED
    BY <2>1, <2>2
<1>8. Ours(p, S)
  <2>1. CASE j.debug \/ j.keep
    BY <2>1 DEF Ours
  <2>2. CASE ~(j.debug \/ j.keep) /\ v.ok
    <3>1. a.generated => Ours(p, {a.path})
      BY <1>1, <1>4, <1>6, ArtifactIsOurs
    <3> QED
      BY <2>2, <3>1, OneArtifact DEF Ours
  <2>3. CASE ~(j.debug \/ j.keep) /\ ~v.ok
    <3>1. Ours(p, Cleanup(p))
      BY <1>1, CleanupIsOurs
    <3> QED
      BY <2>3, <3>1 DEF Cleanup
  <2> QED
    BY <2>1, <2>2, <2>3
<1>9. IsLocals(m) /\ SameWork(m, o) /\ m.i = o.i + 1
  <2>1. o.i + 1 \in Nat \ {0}
    BY <1>4
  <2> QED
    BY <1>3, <2>1, AtSource
<1>10. m.born = o.born /\ m.done = o.done
  BY <1>9 DEF SameWork
<1>11. CASE ~v.ok /\ End(p, "error") /\ UNCHANGED me
  <2>1. Turns(p, "end", o, v, "error")
    BY <1>2, <1>11, TurnsTo DEF Updated, End, Go
  <2>2. ~j.keep /\ ~j.debug => Remaining(j, "assembled", o, v, "assembled") \subseteq S
    <3> SUFFICES ASSUME ~j.keep, ~j.debug, NEW f \in Remaining(j, "assembled", o, v, "assembled")
                 PROVE  f \in S
      OBVIOUS
    <3>1. f \in Cleanup(p)
      BY <1>1, <1>5, Remains
    <3> QED
      BY <1>11, <3>1 DEF Cleanup
  <2> QED
    BY <1>1, <1>2, <1>3, <1>7, <1>8, <2>1, <2>2, EndKeeps DEF Results
<1>12. ASSUME v.ok, ~j.keep, ~j.debug, NEW f \in Remaining(j, "assembled", o, v, "assembled"), f \notin S
       PROVE  \E n \in DOMAIN d : n >= o.i + 1 /\ d[n].generated /\ f = d[n].path
  <2>1. f \in {d[n].path : n \in Pending("assembled", o, v, "assembled")}
    BY <1>4, <1>5, <1>12 DEF Remaining
  <2>2. PICK n \in Pending("assembled", o, v, "assembled") : f = d[n].path
    BY <2>1
  <2>3. n \in DOMAIN d /\ d[n].generated /\ n >= o.i
    BY <2>2 DEF Pending
  <2>4. n # o.i
    BY <1>12, <2>2, <2>3, OneArtifact
  <2>5. n >= o.i + 1
    BY <1>4, <2>3, <2>4
  <2> QED
    BY <2>2, <2>3, <2>5
<1>13. CASE v.ok /\ Set(p, m) /\ o.i = Len(d) /\ End(p, "ok")
  <2>1. Turns(p, "end", m, v, "ok")
    BY <1>2, <1>13, TurnsTo DEF Updated, End, Set, Go
  <2> HIDE DEF m
  <2>2. ~j.keep /\ ~j.debug => Remaining(j, "assembled", o, v, "assembled") \subseteq S
    BY <1>4, <1>12, <1>13
  <2> QED
    BY <1>1, <1>2, <1>7, <1>8, <1>9, <1>10, <2>1, <2>2, EndKeeps DEF Results
<1>14. CASE v.ok /\ Set(p, m) /\ o.i # Len(d) /\ Go(p, "assemble") /\ UNCHANGED res
  <2>1. Settled(p)
    BY <1>2, <1>7, <1>8, RemovalSettles
  <2>2. Turns(p, "assemble", m, v, res[p])
    BY <1>1, <1>2, <1>14, TurnsTo DEF Updated, Set, Go
  <2>3. Working("assemble", m) = {}
    BY <1>5
  <2> HIDE DEF m
  <2>4. "assemble" \in Labels /\ "assemble" \notin Staged \cup {"noted", "moved"} /\ "assemble" \in Active
    BY DEF Labels, Active, Finishing, Staged
  <2>5. /\ Phase("assemble", v) = "assemble"
        /\ Writing(p, j, "assemble", m, v, "assemble") /\ TempOK(v, "assemble", fs', inodes')
    BY <2>4, NotWriting
  <2>6. Follows("assembled", "assemble", o.i, m.i)
    BY <1>1, <1>4, <1>9, <2>4 DEF Follows, Counted, Fetching, Preprocessing
  <2>7. Progress(j, "assemble", m)
    BY <1>1, <1>4, <1>9, <2>4 DEF Progress, SameWork, Sourcing, Fetching, Preprocessing, Finishing
  <2>8. ReadyWhole(j, "assemble", m, fs')
    BY DEF ReadyWhole
  <2>9. Held(j, "assemble", m, v, "assemble") = {}
    BY <1>4, <2>3 DEF Held
  <2>10. ~j.keep /\ ~j.debug => NoneLost(p, "assemble", m, v)
    <3> SUFFICES ASSUME ~j.keep, ~j.debug, NEW f \in Remaining(j, "assembled", o, v, "assembled"), f \notin S
                 PROVE  f \in Remaining(j, "assemble", m, v, "assemble")
      BY <1>1, <1>7, <2>4, <2>5, RemovalLosesNone
    <3>1. PICK n \in DOMAIN d : n >= o.i + 1 /\ d[n].generated /\ f = d[n].path
      BY <1>12, <1>14
    <3>2. n \in Pending("assemble", m, v, "assemble")
      BY <1>9, <1>10, <3>1 DEF Pending
    <3> QED
      BY <1>4, <1>10, <2>4, <3>1, <3>2 DEF Remaining
  <2> QED
    BY <1>1, <1>2, <1>3, <1>9, <2>1, <2>2, <2>4, <2>5, <2>6, <2>7, <2>8, <2>9, <2>10, MoveOnKeeps
<1> QED
  BY <1>2, <1>11, <1>13, <1>14

(* What a command answers for stays in its account while it moves on       *)
(* between points of the same part.                                        *)
LEMMA RemainingGrows ==
    ASSUME NEW j, NEW ph, NEW to \in Active, NEW o, NEW m, NEW u, NEW v, NEW k, NEW l,
           SameWork(m, o), ph \notin {"compiled", "moved"}, k \notin Staged,
           ph \in Fetching => to \in Fetching, ph \in Preprocessing => to \in Preprocessing,
           to \notin Counted, l # "delivered", NEW f \in Remaining(j, ph, o, u, k)
    PROVE  f \in Remaining(j, to, m, v, l)
<1>1. k \notin {"fill", "publish", "drop"}
  BY DEF Staged
<1>2. \/ f \in Working(ph, o)
      \/ f \in {o.done[n].path : n \in {i \in Pending(ph, o, u, k) : j.stage # "ir"}}
  BY <1>1 DEF Remaining
<1>3. CASE f \in Working(ph, o)
  <2>1. f \in Working(to, m)
    BY <1>3 DEF Working, SameWork
  <2> QED
    BY <2>1 DEF Remaining
<1>4. CASE f \in {o.done[n].path : n \in {i \in Pending(ph, o, u, k) : j.stage # "ir"}}
  <2>1. PICK n \in {i \in Pending(ph, o, u, k) : j.stage # "ir"} : f = o.done[n].path
    BY <1>4
  <2>2. n \in Pending(to, m, v, l) /\ m.done[n].path = f
    BY <2>1 DEF Pending, Counted, SameWork
  <2> QED
    BY <2>1, <2>2 DEF Remaining
<1> QED
  BY <1>2, <1>3, <1>4

(* The rule of a source is to be written to a file.                        *)
LEMMA RuleStaged ==
    ASSUME Inv, NEW p \in Procs, pc[p] = "dependencies", NEW d \in UserFiles, NEW n,
           \/ n = "listed" /\ job[p].dep = "only"
           \/ n = "noted" /\ job[p].dep = "side",
           NEW s, Stage(p, "copy", d, <<"dep", s>>, NoPath, n),
           UNCHANGED <<fs, me, inodes, job, res, kills, strangers>>
    PROVE  Inv' /\ Settled(p)
<1> DEFINE j == job[p]
           m == me[p]
           u == w[p]
           ph == "dependencies"
           rule == <<"dep", s>>
           v == Write("copy", d, rule, NoPath, n)
<1>1. /\ Phase(ph, u) = ph /\ ph \in Active /\ pc[p] = ph /\ ph \notin Staged
  BY DEF Phase, Staged, Active, Sourcing, Preprocessing
<1>2. IsJob(j) /\ IsLocals(m) /\ Progress(j, ph, m)
  BY <1>1, ProcessKnows
<1>3. Turns(p, "open", m, v, res[p])
  BY TurnsTo DEF Updated, Go, Stage, Write
<1>4. /\ IsWrite(v) /\ v.area = "copy" /\ v.dst = d /\ v.data = rule /\ v.from = NoPath
      /\ v.then = n /\ v.ok
  BY StagedWrite
<1> HIDE DEF v
<1>5. Settled(p) /\ fs' = fs /\ Removes({})
  BY NoWriteSettles, NothingRemoved
<1>6. /\ "open" \in Labels /\ Phase("open", v) = n /\ n \in Active
      /\ n \in Preprocessing /\ n \notin Fetching \cup {"stdin"} /\ n # "moved"
  BY <1>4 DEF Labels, Active, Staged, Phase, Sourcing, Preprocessing, Fetching
<1>7. Writing(p, j, n, m, v, "open")
  BY <1>4 DEF Writing
<1>8. TempOK(v, "open", fs', inodes')
  BY DEF TempOK
<1>9. Follows(ph, n, m.i, m.i) /\ SameWork(m, m)
  BY <1>1, <1>6 DEF Follows, Counted, Preprocessing, SameWork
<1>10. Progress(j, n, m)
  BY <1>1, <1>2, <1>6 DEF Progress, Sourcing, Active, Finishing, Fetching, Preprocessing
<1>11. ReadyWhole(j, n, m, fs')
  BY <1>1, <1>5, <1>9, ReadyStays
<1>12. NoneLost(p, "open", m, v)
  <2>1. \A f \in Remaining(j, ph, m, u, ph) : f \in Remaining(j, n, m, v, "open")
    BY <1>1, <1>6, <1>9, RemainingGrows DEF Counted, Fetching
  <2> QED
    BY <1>1, <1>5, <1>6, <2>1, RemovalLosesNone
<1>13. \A f \in Held(j, n, m, v, "open") : fs'[f] = fs[f]
  BY <1>5
<1> QED
  BY <1>1, <1>2, <1>3, <1>4, <1>5, <1>6, <1>7, <1>8, <1>9, <1>10, <1>11, <1>12, <1>13, MoveOnKeeps

(* Deciding what becomes of the dependencies keeps the invariant.          *)
LEMMA DependenciesKeep ==
    ASSUME Inv, NEW p \in Procs, Dependencies(p)
    PROVE  Inv' /\ Settled(p)
<1> DEFINE j == job[p]
           m == me[p]
           v == w[p]
           rule == <<"dep", <<"src", Source(p)>>>>
<1>1. /\ pc[p] = "dependencies" /\ Phase("dependencies", v) = "dependencies"
      /\ "dependencies" \in Active /\ pc[p] \notin Staged
      /\ "dependencies" \in Preprocessing /\ "dependencies" \in Sourcing
  BY DEF Dependencies, Phase, Staged, Active, Sourcing, Preprocessing
<1>2. UNCHANGED <<inodes, job, res, kills, strangers>>
  BY DEF Dependencies
<1>3. IsJob(j) /\ IsLocals(m) /\ IsWrite(v) /\ Progress(j, "dependencies", m)
  BY <1>1, ProcessKnows
<1>4. CASE /\ j.dep = "only" /\ j.depfile # NoPath
           /\ Stage(p, "copy", j.depfile, rule, NoPath, "listed") /\ UNCHANGED <<fs, me>>
  <2>1. j.depfile \in UserFiles
    BY <1>3, <1>4 DEF IsJob
  <2> QED
    BY <1>1, <1>2, <1>4, <2>1, RuleStaged
<1>5. CASE /\ j.dep = "only" /\ fs' = Without(CleanupPre(p))
           /\ Set(p, [m EXCEPT !.i = @ + 1]) /\ Go(p, "take") /\ UNCHANGED w
  BY <1>1, <1>2, <1>5, RulePrinted
<1>6. CASE /\ j.dep = "side"
           /\ Stage(p, "copy", IF j.depfile # NoPath THEN j.depfile
                               ELSE WithExtension(Source(p), "d"), rule, NoPath, "noted")
           /\ UNCHANGED <<fs, me>>
  <2> DEFINE d == IF j.depfile # NoPath THEN j.depfile ELSE WithExtension(Source(p), "d")
  <2>1. d \in UserFiles
    <3>1. j.depfile # NoPath => j.depfile \in UserFiles
      BY <1>3 DEF IsJob
    <3>2. Source(p) \in ToSet(j.srcs)
      BY <1>1, SourceIs
    <3>3. WithExtension(Source(p), "d") \in UserFiles
      BY <1>3, <3>2, CommandFacts
    <3> QED
      BY <3>1, <3>3
  <2> HIDE DEF d
  <2>2. Stage(p, "copy", d, rule, NoPath, "noted")
    BY <1>6 DEF d
  <2> QED
    BY <1>1, <1>2, <1>6, <2>1, <2>2, RuleStaged
<1>7. CASE j.dep = "no" /\ Go(p, "compile") /\ UNCHANGED <<fs, me, w>>
  <2>1. Settled(p) /\ fs' = fs /\ Removes({})
    BY <1>2, <1>7, NoWriteSettles, NothingRemoved
  <2>2. Turns(p, "compile", m, v, res[p])
    BY <1>2, <1>7, TurnsTo DEF Updated, Go
  <2>3. "compile" \in Labels /\ "compile" \notin Staged \cup {"noted", "moved"} /\ "compile" \in Active
    BY DEF Labels, Active, Sourcing, Preprocessing, Staged
  <2>4. /\ Phase("compile", v) = "compile" /\ Writing(p, j, "compile", m, v, "compile")
        /\ TempOK(v, "compile", fs', inodes')
    BY <2>3, NotWriting
  <2>5. Follows("dependencies", "compile", m.i, m.i) /\ SameWork(m, m)
    BY <1>1, <2>3 DEF Follows, Counted, Fetching, Preprocessing, SameWork
  <2>6. Progress(j, "compile", m)
    BY <1>1, <1>3, <1>7, <2>3 DEF Progress, Active, Sourcing, Fetching, Preprocessing, Finishing
  <2>7. ReadyWhole(j, "compile", m, fs')
    BY <1>1, <2>1, <2>5, ReadyStays
  <2>8. NoneLost(p, "compile", m, v)
    <3>1. \A f \in Remaining(j, "dependencies", m, v, "dependencies") :
             f \in Remaining(j, "compile", m, v, "compile")
      BY <1>1, <2>3, <2>5, RemainingGrows DEF Counted, Fetching, Preprocessing
    <3> QED
      BY <1>1, <2>1, <2>3, <2>4, <3>1, RemovalLosesNone
  <2>9. \A f \in Held(j, "compile", m, v, "compile") : fs'[f] = fs[f]
    BY <2>1
  <2> QED
    BY <1>1, <1>2, <1>3, <2>1, <2>2, <2>3, <2>4, <2>5, <2>6, <2>7, <2>8, <2>9, MoveOnKeeps
<1> QED
  BY <1>4, <1>5, <1>6, <1>7 DEF Dependencies

(* Where the assembly of a preprocessed file goes.                         *)
LEMMA MadeFrom ==
    ASSUME NEW p \in Procs, NEW j, IsJob(j), NEW m, PreOK(p, j, m)
    PROVE  /\ m.pre \in Path
           /\ Asm(m) \in Path /\ Asm(m) \in Tmp(p, "s") \cup (Beneath(j) \cap UserFiles)
           /\ Asm(m) \in TempFiles => Asm(m) \in Tmp(p, "s")
<1>1. CASE ~m.gen
  BY <1>1, CommandFacts, PathFacts DEF PreOK, Asm
<1>2. CASE m.gen /\ j.keep
  BY <1>2, CommandFacts, PathFacts DEF PreOK, Asm
<1>3. CASE m.gen /\ ~j.keep
  <2>1. m.pre \in Tmp(p, "i")
    BY <1>3 DEF PreOK
  <2>2. m.pre \in Own(p) /\ Asm(m) \in Tmp(p, "s")
    BY <2>1, TempFacts DEF Asm
  <2> QED
    BY <2>2, TempFacts, PathFacts
<1> QED
  BY <1>1, <1>2, <1>3

(* Starting a compilation keeps the invariant.                             *)
LEMMA CompileKeeps ==
    ASSUME Inv, NEW p \in Procs, Compile(p)
    PROVE  Inv' /\ Settled(p)
<1> DEFINE j == job[p]
           m == me[p]
           u == w[p]
           ph == "compile"
           compiles == Exists(m.pre) /\ Contents(m.pre) \notin
                       UNION {{<<"src", f>>, <<"pre", <<"src", f>>>>} : f \in Broken}
<1>1. /\ pc[p] = ph /\ Phase(ph, u) = ph /\ ph \in Active /\ ph \notin Staged
      /\ ph \in Preprocessing \ Fetching /\ ph \in Sourcing
  BY DEF Compile, Phase, Staged, Active, Sourcing, Preprocessing, Fetching
<1>2. UNCHANGED <<inodes, job, kills, strangers>>
  BY DEF Compile
<1>a. /\ IsJob(j) /\ IsLocals(m) /\ IsWrite(u) /\ Progress(j, ph, m) /\ Places(p, j, ph, m)
  BY <1>1, ProcessKnows
<1>b. m.gen \in BOOLEAN
  BY <1>a DEF IsLocals
<1>c. j.dep # "only" /\ PreOK(p, j, m)
  BY <1>1, <1>a DEF Progress, Places
<1>3. /\ IsJob(j) /\ IsLocals(m) /\ IsWrite(u) /\ Progress(j, ph, m) /\ Places(p, j, ph, m)
      /\ j.dep # "only" /\ PreOK(p, j, m) /\ m.gen \in BOOLEAN
  BY <1>a, <1>b, <1>c
<1>4. m.i <= Len(j.srcs) /\ Source(p) \in UserFiles \cup {Stdin} /\ Source(p) \in ToSet(j.srcs)
  BY <1>1, <1>3, SourceIs DEF Progress
<1>5. /\ m.pre \in Path
      /\ Asm(m) \in Path /\ Asm(m) \in Tmp(p, "s") \cup (Beneath(j) \cap UserFiles)
  BY <1>3, MadeFrom
<1>6. Ours(p, CleanupPre(p)) /\ Ours(p, Cleanup(p))
  BY <1>1, CleanupPreIsOurs, CleanupIsOurs
<1>7. ~j.keep => \A f \in Remaining(j, ph, m, u, ph) : f \in CleanupPre(p) \/ f \in Cleanup(p)
  BY <1>1, Remains, CleanupPreIs
<1>8. CASE /\ j.stage = "E" /\ Push(p, Artifact(Source(p), m.pre, m.gen))
           /\ Go(p, "take") /\ UNCHANGED <<fs, w, res>>
  <2> DEFINE a == Artifact(Source(p), m.pre, m.gen)
             n == Pushed(m, a)
  <2>1. Turns(p, "take", n, u, res[p])
    BY <1>2, <1>8, TurnsTo DEF Updated, Set, Push, Pushed, Go
  <2>2. a \in Artifacts /\ a.path = m.pre /\ a.generated = m.gen
    BY <1>3, <1>4, <1>5 DEF Artifacts, Artifact
  <2> HIDE DEF a
  <2>3. n = Pushed(m, a)
    OBVIOUS
  <2> HIDE DEF n
  <2>4. ArtifactOK(p, j, a)
    BY <1>3, <1>8, <2>2, CommandFacts DEF ArtifactOK, PreOK
  <2>5. Removes({}) /\ Ours(p, {})
    BY <1>8, NothingRemoved
  <2>6. ASSUME ~j.keep, NEW f \in Remaining(j, ph, m, u, ph)
        PROVE  \/ f \in {m.done[k].path : k \in {x \in DOMAIN m.done : m.done[x].generated /\ j.stage # "ir"}}
               \/ f = a.path /\ a.generated /\ j.stage # "ir"
    BY <1>7, <1>8, <2>2, <2>6 DEF CleanupPre, Cleanup, Generated
  <2> QED
    BY <1>1, <1>2, <1>3, <1>4, <1>8, <2>1, <2>2, <2>3, <2>4, <2>5, <2>6, PushKeeps
<1>9. CASE /\ j.stage # "E" /\ ~compiles
           /\ fs' = Without(CleanupPre(p) \cup Cleanup(p)) /\ End(p, "error")
           /\ UNCHANGED <<me, w>>
  <2> DEFINE S == CleanupPre(p) \cup Cleanup(p)
  <2>1. Removes(S) /\ Ours(p, S)
    BY <1>6, <1>9, RemovalIs, Together
  <2>2. Turns(p, "end", m, u, "error")
    BY <1>2, <1>9, TurnsTo DEF Updated, End, Go
  <2>3. ~j.keep => Remaining(j, ph, m, u, ph) \subseteq S
    BY <1>7
  <2> QED
    BY <1>1, <1>2, <1>3, <2>1, <2>2, <2>3, EndKeeps DEF Results
<1>10. CASE /\ j.stage = "ir" /\ compiles /\ fs' = Without(CleanupPre(p))
            /\ Push(p, Artifact(Source(p), Asm(m), TRUE)) /\ Go(p, "take") /\ UNCHANGED <<w, res>>
  <2> DEFINE a == Artifact(Source(p), Asm(m), TRUE)
             n == Pushed(m, a)
  <2>1. Turns(p, "take", n, u, res[p])
    BY <1>2, <1>10, TurnsTo DEF Updated, Set, Push, Pushed, Go
  <2>2. a \in Artifacts /\ a.path = Asm(m) /\ a.generated
    BY <1>4, <1>5 DEF Artifacts, Artifact
  <2> HIDE DEF a
  <2>3. n = Pushed(m, a)
    OBVIOUS
  <2> HIDE DEF n
  <2>4. ArtifactOK(p, j, a)
    <3>1. Asm(m)[2] = "s"
      BY DEF Asm, WithExtension
    <3> QED
      BY <1>5, <1>10, <2>2, <3>1 DEF ArtifactOK
  <2>5. Removes(CleanupPre(p))
    BY <1>10, RemovalIs
  <2>6. ~j.keep => \A f \in Remaining(j, ph, m, u, ph) : f \in CleanupPre(p)
    <3>1. Pending(ph, m, u, ph) \cap {k \in DOMAIN m.done : j.stage # "ir"} = {}
      BY <1>10
    <3>2. Remaining(j, ph, m, u, ph) = Working(ph, m)
      BY <1>1, <1>10 DEF Remaining, Staged
    <3> QED
      BY <1>1, <3>2, CleanupPreIs
  <2> QED
    BY <1>1, <1>2, <1>3, <1>4, <1>6, <1>10, <2>1, <2>2, <2>3, <2>4, <2>5, <2>6, PushKeeps
<1>11. CASE /\ j.stage \notin {"E", "ir"} /\ compiles
            /\ Stage(p, "asm", Asm(m), <<"asm", Contents(m.pre)>>, NoPath, "compiled")
            /\ UNCHANGED <<fs, me, res>>
  <2> DEFINE c == Contents(m.pre)
             d == <<"asm", c>>
             v == Write("asm", Asm(m), d, NoPath, "compiled")
             to == "compiled"
  <2>1. Turns(p, "open", m, v, res[p])
    BY <1>2, <1>11, TurnsTo DEF Updated, Go, Stage, Write
  <2>2. /\ IsWrite(v) /\ v.area = "asm" /\ v.dst = Asm(m) /\ v.data = d /\ v.from = NoPath
        /\ v.then = to /\ v.ok
    BY StagedWrite
  <2> HIDE DEF v
  <2>3. d[1] = "asm"
    <3> HIDE DEF c
    <3> QED
      OBVIOUS
  <2> HIDE DEF d
  <2>4. Settled(p) /\ fs' = fs /\ Removes({})
    BY <1>2, <1>11, NoWriteSettles, NothingRemoved
  <2>5. /\ "open" \in Labels /\ Phase("open", v) = to /\ to \in Active
        /\ to \in Preprocessing /\ to \notin Fetching \cup {"stdin"} /\ to # "moved"
    BY <2>2 DEF Labels, Active, Staged, Phase, Sourcing, Preprocessing, Fetching
  <2>6. Writing(p, j, to, m, v, "open")
    BY <2>2, <2>3 DEF Writing
  <2>7. TempOK(v, "open", fs', inodes')
    BY DEF TempOK
  <2>8. Follows(ph, to, m.i, m.i) /\ SameWork(m, m)
    BY <1>1, <2>5 DEF Follows, Counted, Preprocessing, SameWork
  <2>9. Progress(j, to, m)
    BY <1>1, <1>3, <1>11, <2>5 DEF Progress, Sourcing, Active, Finishing, Fetching, Preprocessing
  <2>10. ReadyWhole(j, to, m, fs')
    BY DEF ReadyWhole
  <2>11. NoneLost(p, "open", m, v)
    <3>1. \A f \in Remaining(j, ph, m, u, ph) : f \in Remaining(j, to, m, v, "open")
      BY <1>1, <2>5, <2>8, RemainingGrows DEF Counted, Fetching
    <3> QED
      BY <1>1, <2>4, <2>5, <3>1, RemovalLosesNone
  <2>12. \A f \in Held(j, to, m, v, "open") : fs'[f] = fs[f]
    BY <2>4
  <2> QED
    BY <1>1, <1>2, <1>3, <2>1, <2>2, <2>4, <2>5, <2>6, <2>7, <2>8, <2>9, <2>10, <2>11, <2>12, MoveOnKeeps
<1> QED
  BY <1>8, <1>9, <1>10, <1>11 DEF Compile, Asm

(* The compilation's end keeps the invariant.                              *)
LEMMA CompiledKeeps ==
    ASSUME Inv, NEW p \in Procs, Compiled(p)
    PROVE  Inv' /\ Settled(p)
<1> DEFINE j == job[p]
           m == me[p]
           u == w[p]
           ph == "compiled"
<1>1. /\ pc[p] = ph /\ Phase(ph, u) = ph /\ ph \in Active /\ ph \notin Staged
      /\ ph \in Preprocessing \ Fetching /\ ph \in Sourcing
  BY DEF Compiled, Phase, Staged, Active, Sourcing, Preprocessing, Fetching
<1>2. UNCHANGED <<inodes, job, kills, strangers>>
  BY DEF Compiled
<1>a. /\ IsJob(j) /\ IsLocals(m) /\ IsWrite(u) /\ Progress(j, ph, m) /\ Places(p, j, ph, m)
  BY <1>1, ProcessKnows
<1>3. j.dep # "only" /\ PreOK(p, j, m) /\ j.stage \notin {"E", "ir"}
  BY <1>1, <1>a DEF Progress, Places
<1>4. m.i <= Len(j.srcs) /\ Source(p) \in UserFiles \cup {Stdin} /\ Source(p) \in ToSet(j.srcs)
  BY <1>1, <1>a, SourceIs DEF Progress
<1>5. Asm(m) \in Path /\ Asm(m) \in Tmp(p, "s") \cup (Beneath(j) \cap UserFiles)
  BY <1>a, <1>3, MadeFrom
<1>6. Ours(p, CleanupPre(p)) /\ Ours(p, Cleanup(p))
  BY <1>1, CleanupPreIsOurs, CleanupIsOurs
<1>7. ~j.keep => \A f \in Remaining(j, ph, m, u, ph) :
         \/ f \in CleanupPre(p)
         \/ f \in Cleanup(p)
         \/ f = Asm(m) /\ u.ok
  BY <1>1, Remains, CleanupPreIs
<1>8. CASE ~u.ok /\ fs' = Without(CleanupPre(p) \cup Cleanup(p)) /\ End(p, "error") /\ UNCHANGED <<me, w>>
  <2> DEFINE S == CleanupPre(p) \cup Cleanup(p)
  <2>1. Removes(S) /\ Ours(p, S)
    BY <1>6, <1>8, RemovalIs, Together
  <2>2. Turns(p, "end", m, u, "error")
    BY <1>2, <1>8, TurnsTo DEF Updated, End, Go
  <2>3. ~j.keep => Remaining(j, ph, m, u, ph) \subseteq S
    BY <1>7, <1>8
  <2> QED
    BY <1>1, <1>2, <1>a, <2>1, <2>2, <2>3, EndKeeps DEF Results
<1>9. CASE /\ u.ok /\ (j.stage # "S" \/ j.out # NoPath)
           /\ fs' = Without(CleanupPre(p))
           /\ Push(p, Artifact(Source(p), Asm(m), TRUE)) /\ Go(p, "take") /\ UNCHANGED <<w, res>>
  <2> DEFINE a == Artifact(Source(p), Asm(m), TRUE)
             n == Pushed(m, a)
  <2>1. Turns(p, "take", n, u, res[p])
    BY <1>2, <1>9, TurnsTo DEF Updated, Set, Push, Pushed, Go
  <2>2. a \in Artifacts /\ a.path = Asm(m) /\ a.generated
    BY <1>4, <1>5 DEF Artifacts, Artifact
  <2> HIDE DEF a
  <2>3. n = Pushed(m, a)
    OBVIOUS
  <2> HIDE DEF n
  <2>4. ArtifactOK(p, j, a)
    <3>1. Asm(m)[2] = "s"
      BY DEF Asm, WithExtension
    <3> QED
      BY <1>3, <1>5, <1>9, <2>2, <3>1 DEF ArtifactOK
  <2>5. Removes(CleanupPre(p))
    BY <1>9, RemovalIs
  <2>6. ASSUME ~j.keep, NEW f \in Remaining(j, ph, m, u, ph), f \notin CleanupPre(p)
        PROVE  \/ f \in {m.done[k].path : k \in {x \in DOMAIN m.done : m.done[x].generated /\ j.stage # "ir"}}
               \/ f = a.path /\ a.generated /\ j.stage # "ir"
    <3>1. CASE f \in Cleanup(p)
      <4>1. PICK k \in DOMAIN m.done : m.done[k].generated /\ f = m.done[k].path
        BY <3>1 DEF Cleanup, Generated
      <4> QED
        BY <1>3, <4>1
    <3>2. CASE f = Asm(m)
      BY <1>3, <2>2, <3>2
    <3> QED
      BY <1>7, <2>6, <3>1, <3>2
  <2> QED
    BY <1>1, <1>2, <1>3, <1>4, <1>6, <2>1, <2>2, <2>3, <2>4, <2>5, <2>6, PushKeeps
<1>10. CASE /\ u.ok /\ j.stage = "S" /\ j.out = NoPath
            /\ fs' = Without(CleanupPre(p))
            /\ MoveTo(p, Asm(m), WithExtension(Source(p), "s"), "moved") /\ UNCHANGED <<me, res>>
  <2> DEFINE S == CleanupPre(p)
             t == WithExtension(Source(p), "s")
             v == Movement(t, Asm(m), "moved")
             to == "moved"
  <2>1. Turns(p, "move", m, v, res[p])
    BY <1>2, <1>10, TurnsTo DEF Updated, Go, MoveTo, Movement
  <2>2. /\ IsWrite(v) /\ v.area = "copy" /\ v.dst = t /\ v.from = Asm(m) /\ v.then = to
    BY MovedFile
  <2>3. t \in UserFiles
    BY <1>a, <1>4, CommandFacts
  <2> HIDE DEF v, t
  <2>4. Removes(S) /\ Settled(p)
    BY <1>2, <1>6, <1>10, RemovalIs, RemovalSettles
  <2>5. /\ "move" \in Labels /\ Phase("move", v) = to /\ to \in Active
        /\ to \notin Preprocessing \cup Fetching \cup {"stdin"}
    BY <2>2 DEF Labels, Active, Staged, Phase, Sourcing, Preprocessing, Fetching
  <2>6. Writing(p, j, to, m, v, "move")
    BY <2>2, <2>3 DEF Writing
  <2>7. TempOK(v, "move", fs', inodes')
    BY DEF TempOK
  <2>8. Follows(ph, to, m.i, m.i) /\ SameWork(m, m)
    BY <1>1, <2>5 DEF Follows, Counted, Preprocessing, SameWork
  <2>9. Progress(j, to, m)
    BY <1>1, <1>a, <1>10, <2>5 DEF Progress, Sourcing, Active, Finishing, Fetching, Preprocessing
  <2>10. ReadyWhole(j, to, m, fs')
    BY DEF ReadyWhole
  <2>11. ~j.keep => NoneLost(p, "move", m, v)
    <3> SUFFICES ASSUME ~j.keep, NEW f \in Remaining(j, ph, m, u, ph), f \notin S
                 PROVE  f \in Remaining(j, to, m, v, "move")
      BY <1>1, <2>4, <2>5, RemovalLosesNone
    <3>1. CASE f \in Cleanup(p)
      <4>1. PICK k \in DOMAIN m.done : m.done[k].generated /\ f = m.done[k].path
        BY <3>1 DEF Cleanup, Generated
      <4>2. k \in Pending(to, m, v, "move")
        BY <4>1 DEF Pending
      <4> QED
        BY <1>10, <2>5, <4>1, <4>2 DEF Remaining
    <3>2. CASE f = Asm(m)
      BY <2>5, <3>2 DEF Remaining
    <3> QED
      BY <1>7, <3>1, <3>2
  <2>12. Held(j, to, m, v, "move") = {}
    BY <1>10, <2>5 DEF Held, Working
  <2> QED
    BY <1>1, <1>2, <1>a, <2>1, <2>2, <2>4, <2>5, <2>6, <2>7, <2>8, <2>9, <2>10, <2>11, <2>12, MoveOnKeeps
<1> QED
  BY <1>8, <1>9, <1>10 DEF Compiled, Asm

(* Turning to the stage after the last source keeps the invariant.         *)
LEMMA FinishKeeps ==
    ASSUME Inv, NEW p \in Procs, Finish(p)
    PROVE  Inv' /\ Settled(p)
<1> DEFINE j == job[p]
           o == me[p]
           u == w[p]
           ph == "take"
           d == o.done
           first == d[1]
<1>1. /\ pc[p] = ph /\ Phase(ph, u) = ph /\ ph \in Active /\ ph \notin Staged
      /\ ph \notin Sourcing \cup {"compiled", "moved", "end", "crashed", "delivered"}
      /\ ph \notin Fetching \cup Preprocessing \cup Counted
  BY DEF Finish, Phase, Staged, Active, Sourcing, Preprocessing, Fetching, Counted
<1>2. UNCHANGED <<fs, inodes, job, kills, strangers>> /\ o.i > Len(j.srcs)
  BY DEF Finish
<1>a. /\ IsJob(j) /\ IsLocals(o) /\ IsWrite(u) /\ Progress(j, ph, o) /\ Places(p, j, ph, o)
  BY <1>1, ProcessKnows
<1>b. Len(j.srcs) \in Nat /\ Len(j.srcs) >= 1 /\ o.i \in Nat \ {0}
  BY <1>a, CommandFacts DEF IsLocals
<1>3. ~Rejected(j) /\ Len(d) = (IF j.dep = "only" THEN 0 ELSE Len(j.srcs))
  <2>1. ~Rejected(j) /\ o.i <= Len(j.srcs) + 1 /\ Len(d) = (IF j.dep = "only" THEN 0 ELSE o.i - 1)
    BY <1>1, <1>a DEF Progress
  <2> QED
    BY <1>2, <1>b, <2>1
<1>4. Settled(p) /\ fs' = fs /\ Removes({}) /\ Ours(p, {})
  BY <1>2, NoWriteSettles, NothingRemoved
<1>5. d \in Seq(Artifacts) /\ DOMAIN d = 1 .. Len(d)
  BY <1>a DEF IsLocals, Artifacts
<1>6. ASSUME NEW l \in Labels, NEW m, NEW v, IsLocals(m), IsWrite(v), SameWork(m, o),
             Turns(p, l, m, v, res[p]), j.dep # "only",
             NEW to \in Finishing, to = Phase(l, v), to \in Counted => m.i = 1,
             \/ l = to /\ l \in Finishing \ {"delivered"}
             \/ to = "delivered" /\ l \in {"open", "move"},
             Writing(p, j, to, m, v, l), Progress(j, to, m)
      PROVE  Inv'
  <2>1. TempOK(v, l, fs', inodes')
    BY <1>6 DEF TempOK, Finishing
  <2>2. /\ to \in Active /\ to \notin Fetching \cup Preprocessing \cup {"stdin", "moved"}
        /\ l \notin {"fill", "publish", "drop", "delivered"}
    BY <1>6 DEF Active, Fetching, Preprocessing, Finishing
  <2>3. Follows(ph, to, o.i, m.i)
    BY <1>1, <2>2 DEF Follows
  <2>4. ReadyWhole(j, to, m, fs')
    <3>1. to \notin {"dependencies", "noted", "compile"}
      BY <2>2 DEF Preprocessing
    <3> QED
      BY <1>1, <1>4, <1>6, <3>1, ReadyStays
  <2>5. ASSUME ~j.keep, NEW f \in Remaining(j, ph, o, u, ph)
        PROVE  f \in Remaining(j, to, m, v, l)
    <3>1. f \in {d[n].path : n \in {k \in Pending(ph, o, u, ph) : j.stage # "ir"}}
      BY <1>1 DEF Remaining, Working
    <3>2. PICK n \in {k \in Pending(ph, o, u, ph) : j.stage # "ir"} : f = d[n].path
      BY <3>1
    <3>3. n \in DOMAIN d /\ d[n].generated /\ n \in 1 .. Len(d)
      BY <1>5, <3>2 DEF Pending
    <3>4. n >= 1
      BY <1>3, <1>b, <3>3
    <3>5. n \in Pending(to, m, v, l) /\ m.done[n].path = f
      BY <1>6, <2>2, <3>2, <3>3, <3>4 DEF Pending, SameWork, Counted
    <3> QED
      BY <2>2, <3>2, <3>5 DEF Remaining
  <2>6. ~j.keep => NoneLost(p, l, m, v)
    BY <1>1, <1>4, <1>6, <2>2, <2>5, RemovalLosesNone
  <2>7. \A f \in Held(j, to, m, v, l) : fs'[f] = fs[f]
    BY <1>4
  <2> QED
    BY <1>1, <1>2, <1>4, <1>6, <2>1, <2>3, <2>4, <2>6, <2>7, MoveOnKeeps
<1>c. SameWork(o, o)
  BY DEF SameWork
<1>7. CASE j.dep # "only" /\ j.stage \in {"E", "S"} /\ j.out # NoPath
  <2>1. Len(j.srcs) = 1 /\ Len(d) = 1 /\ j.out \in UserFiles
    BY <1>3, <1>7, <1>a DEF Rejected, IsJob
  <2>2. Progress(j, "delivered", o)
    BY <1>1, <1>3, <1>7, <2>1 DEF Progress, Active, Sourcing, Fetching, Preprocessing, Finishing
  <2>3. CASE first.generated
    <3> DEFINE v == Movement(j.out, first.path, "delivered")
    <3>1. MoveTo(p, first.path, j.out, "delivered") /\ UNCHANGED <<me, res>>
      BY <1>7, <2>3 DEF Finish
    <3>2. Turns(p, "move", o, v, res[p])
      BY <1>2, <3>1, TurnsTo DEF Updated, Go, MoveTo, Movement
    <3>3. /\ IsWrite(v) /\ v.area = "copy" /\ v.dst = j.out /\ v.from = first.path
          /\ v.then = "delivered"
      BY MovedFile
    <3> HIDE DEF v
    <3>4. "move" \in Labels /\ Phase("move", v) = "delivered" /\ "delivered" \in Finishing \ Counted
      BY <3>3 DEF Labels, Staged, Phase, Finishing, Counted
    <3>5. Writing(p, j, "delivered", o, v, "move")
      BY <2>1, <2>3, <3>3 DEF Writing
    <3> QED
      BY <1>4, <1>6, <1>7, <1>a, <1>c, <2>2, <3>2, <3>3, <3>4, <3>5
  <2>4. CASE ~first.generated
    <3> DEFINE v == Write("copy", j.out, <<"absent">>, first.path, "delivered")
    <3>1. Stage(p, "copy", j.out, <<"absent">>, first.path, "delivered") /\ UNCHANGED <<me, res>>
      BY <1>7, <2>4 DEF Finish
    <3>2. Turns(p, "open", o, v, res[p])
      BY <1>2, <3>1, TurnsTo DEF Updated, Go, Stage, Write
    <3>3. /\ IsWrite(v) /\ v.area = "copy" /\ v.dst = j.out /\ v.from = first.path
          /\ v.then = "delivered"
      BY StagedWrite
    <3> HIDE DEF v
    <3>4. "open" \in Labels /\ Phase("open", v) = "delivered" /\ "delivered" \in Finishing \ Counted
      BY <3>3 DEF Labels, Staged, Phase, Finishing, Counted
    <3>5. Writing(p, j, "delivered", o, v, "open")
      BY <2>1, <2>4, <3>3 DEF Writing
    <3> QED
      BY <1>4, <1>6, <1>7, <1>a, <1>c, <2>2, <3>2, <3>3, <3>4, <3>5
  <2> QED
    BY <2>3, <2>4
<1>8. CASE j.dep # "only" /\ ~(j.stage \in {"E", "S"} /\ j.out # NoPath) /\ j.stage = "exe"
  <2>1. Go(p, "link") /\ UNCHANGED <<me, w, res>>
    BY <1>8 DEF Finish
  <2>2. Turns(p, "link", o, u, res[p])
    BY <1>2, <2>1, TurnsTo DEF Updated, Go
  <2>3. "link" \in Labels /\ "link" \notin Staged \cup {"noted", "moved"} /\ "link" \in Finishing \ Counted
    BY DEF Labels, Active, Finishing, Staged, Counted
  <2>4. Phase("link", u) = "link" /\ Writing(p, j, "link", o, u, "link")
    BY <2>3, NotWriting
  <2>5. Progress(j, "link", o)
    BY <1>1, <1>3, <1>8 DEF Progress, Active, Sourcing, Fetching, Preprocessing, Finishing
  <2> QED
    BY <1>4, <1>6, <1>8, <1>a, <1>c, <2>2, <2>3, <2>4, <2>5
<1>9. CASE /\ j.dep # "only" /\ ~(j.stage \in {"E", "S"} /\ j.out # NoPath) /\ j.stage # "exe"
           /\ j.stage \in {"E", "c"}
  <2> DEFINE to == IF j.stage = "E" THEN "print" ELSE "assemble"
             m == At(o, 1)
  <2>1. Go(p, to) /\ Set(p, m) /\ UNCHANGED <<w, res>>
    BY <1>9 DEF Finish, At
  <2>2. Turns(p, to, m, u, res[p])
    BY <1>2, <2>1, TurnsTo DEF Updated, Go, Set
  <2>3. IsLocals(m) /\ SameWork(m, o) /\ m.i = 1
    BY <1>a, AtSource
  <2> HIDE DEF m
  <2>4. to \in Labels /\ to \notin Staged \cup {"noted", "moved"} /\ to \in Finishing \ {"delivered"}
    BY DEF Labels, Active, Finishing, Staged
  <2>5. Phase(to, u) = to /\ Writing(p, j, to, m, u, to)
    BY <2>4, NotWriting
  <2>6. Progress(j, to, m)
    <3>1. Len(m.done) = Len(j.srcs) /\ (j.stage = "E" => to = "print") /\ (j.stage = "c" => to = "assemble")
      BY <1>3, <1>9, <2>3 DEF SameWork
    <3> HIDE DEF to
    <3>2. to \in {"print", "assemble"}
      BY DEF to
    <3> QED
      BY <1>3, <1>9, <3>1, <3>2 DEF Progress, Active, Sourcing, Fetching, Preprocessing, Finishing
  <2> HIDE DEF to
  <2>7. to \in Finishing /\ to # "delivered" /\ j.dep # "only"
    BY <1>9, <2>4
  <2>8. Inv'
    BY <1>6, <1>a, <2>2, <2>3, <2>4, <2>5, <2>6, <2>7
  <2> QED
    BY <1>4, <2>8
<1>10. CASE \/ j.dep = "only"
            \/ ~(j.stage \in {"E", "S"} /\ j.out # NoPath) /\ j.stage \notin {"exe", "E", "c"}
  <2>1. End(p, "ok") /\ UNCHANGED <<me, w>>
    BY <1>10 DEF Finish
  <2>2. Turns(p, "end", o, u, "ok")
    BY <1>2, <2>1, TurnsTo DEF Updated, End, Go
  <2>3. ~j.keep => Remaining(j, ph, o, u, ph) = {}
    <3>1. CASE j.dep = "only"
      <4>1. Pending(ph, o, u, ph) = {}
        BY <1>3, <1>5, <3>1 DEF Pending
      <4> QED
        BY <1>1, <4>1 DEF Remaining, Working
    <3>2. CASE j.stage = "ir"
      BY <1>1, <3>2 DEF Remaining, Working
    <3>3. CASE j.stage = "S" /\ j.out = NoPath /\ j.dep # "only"
      <4>1. \A n \in DOMAIN d : ArtifactOK(p, j, d[n])
        BY <1>a DEF Places
      <4>2. \A n \in DOMAIN d : ~d[n].generated
        BY <3>3, <4>1 DEF ArtifactOK
      <4>3. Pending(ph, o, u, ph) = {}
        BY <4>2 DEF Pending
      <4> QED
        BY <1>1, <4>3 DEF Remaining, Working
    <3> QED
      BY <1>10, <1>a, <3>1, <3>2, <3>3 DEF IsJob
  <2> QED
    BY <1>1, <1>2, <1>4, <1>a, <2>2, <2>3, EndKeeps DEF Results
<1> QED
  BY <1>4, <1>7, <1>8, <1>9, <1>10

(* A step with which a command gets one more source to where it is         *)
(* preprocessed: only what it works on from now on can be new.             *)
LEMMA FetchKeeps ==
    ASSUME Inv, NEW p \in Procs, Settled(p), UNCHANGED <<kills, strangers>>,
           NEW l \in {"stdin", "reserve", "preprocess", "dependencies"}, NEW m,
           Turns(p, l, m, w[p], res[p]), IsLocals(m),
           m.born = me[p].born, m.i = me[p].i, m.done = me[p].done,
           pc[p] \in {"take", "stdin", "reserve"}, m.i <= Len(job[p].srcs),
           l = "stdin" => job[p].srcs[m.i] = Stdin,
           l \in Fetching => ReadsFrom(p, job[p], m),
           l \in Preprocessing => PreOK(p, job[p], m),
           l = "preprocess" => m.gen /\ (~job[p].keep => fs[m.pre].data = <<"absent">>),
           l = "dependencies" => /\ ~m.gen
                                 /\ job[p].stage = "E" /\ job[p].out # NoPath => Whole(fs'[m.pre].data),
           Working(pc[p], me[p]) \subseteq Working(l, m),
           \A f \in Path : \/ fs'[f] = fs[f]
                           \/ fs[f].data = <<"absent">> /\ (f \in Own(p) => f \in Working(l, m)),
           ~job[p].keep => \A f \in Working(l, m) \cap TempFiles :
              f \in Working(pc[p], me[p]) \/ fs'[f].data \notin {Foreign, <<"absent">>}
    PROVE  Inv'
<1> DEFINE j == job[p]
           o == me[p]
           v == w[p]
           ph == pc[p]
<1>1. /\ Phase(pc[p], v) = pc[p] /\ Phase(l, v) = l
      /\ pc[p] \in Active /\ l \in Active /\ l \in Labels
  BY DEF Phase, Staged, Active, Sourcing, Fetching, Preprocessing, Labels
<1>2. /\ IsJob(j) /\ IsLocals(o) /\ IsWrite(v) /\ Progress(j, ph, o) /\ Places(p, j, ph, o)
      /\ HeldExist(j, ph, o, v, pc[p], fs) /\ Distinct(j, ph, o)
  BY <1>1, ProcessKnows
<1>3. /\ m.born = o.born /\ m.i = o.i /\ m.done = o.done /\ ph \in {"take", "stdin", "reserve"}
      /\ l \in {"stdin", "reserve", "preprocess", "dependencies"} /\ m.i <= Len(j.srcs)
      /\ pc[p] = ph /\ ph \in Active /\ l \in Active
  BY <1>1
<1>4. /\ l = "stdin" => j.srcs[m.i] = Stdin
      /\ l \in Fetching => ReadsFrom(p, j, m)
      /\ l \in Preprocessing => PreOK(p, j, m)
      /\ l = "preprocess" => m.gen /\ (~j.keep => fs[m.pre].data = <<"absent">>)
      /\ l = "dependencies" => ~m.gen /\ (j.stage = "E" /\ j.out # NoPath => Whole(fs'[m.pre].data))
  OBVIOUS
<1>5. /\ Working(ph, o) \subseteq Working(l, m)
      /\ \A f \in Path : \/ fs'[f] = fs[f]
                         \/ fs[f].data = <<"absent">> /\ (f \in Own(p) => f \in Working(l, m))
      /\ ~j.keep => \A f \in Working(l, m) \cap TempFiles :
            f \in Working(ph, o) \/ fs'[f].data \notin {Foreign, <<"absent">>}
  OBVIOUS
<1>a. \A f \in TempFiles : f \in Path
  BY PathFacts
<1>b. \A n \in DOMAIN o.done : o.done[n].path \in Path
  <2>1. o.done \in Seq(Artifacts)
    BY <1>2 DEF IsLocals, Artifacts
  <2>2. \A n \in DOMAIN o.done : o.done[n] \in Artifacts
    <3> HIDE DEF o
    <3> QED
      BY <2>1
  <2> QED
    BY <2>2 DEF Artifacts
<1>c. Own(p) \subseteq TempFiles
  BY TempFacts
<1>d. ASSUME LocalOK(p, j, l, m, v, l, fs', inodes'), LeavesOK(p, j, l, m, v, res[p], fs')
      PROVE  Inv'
  <2>1. res[p] \in Results /\ kills' \in Nat /\ strangers' \in Nat
    BY DEF Inv, TypeOK
  <2> QED
    BY <1>1, <1>2, <1>d, <2>1, StepKeeps
<1>e. ASSUME ~j.keep /\ ~j.debug =>
               \A f \in Own(p) :
                  \/ f \in Remaining(j, l, m, v, l)
                  \/ fs'[f] = fs[f] /\ f \notin Remaining(j, ph, o, v, pc[p])
      PROVE  LeavesOK(p, j, l, m, v, res[p], fs')
  BY <1>1, <1>3, <1>e, LeavesKeep
<1> HIDE DEF j, o, v, ph
<1>6. Progress(j, l, m)
  BY <1>2, <1>3 DEF Progress, Active, Sourcing, Fetching, Preprocessing, Finishing
<1>7. Places(p, j, l, m)
  <2>1. \A n \in DOMAIN m.done : ArtifactOK(p, j, m.done[n])
    BY <1>2, <1>3 DEF Places
  <2>2. l \in {"preprocess", "preprocessing"} => m.gen
    BY <1>3, <1>4
  <2>3. l \in Preprocessing \cup {"moved"} => PreOK(p, j, m)
    BY <1>3, <1>4
  <2> QED
    BY <1>4, <2>1, <2>2, <2>3 DEF Places
<1>8. Writing(p, j, l, m, v, l) /\ TempOK(v, l, fs', inodes')
  BY <1>3, NotWriting DEF Staged
<1>9. Pending(l, m, v, l) = {n \in DOMAIN o.done : o.done[n].generated}
  BY <1>3 DEF Pending
<1>10. Pending(ph, o, v, pc[p]) = {n \in DOMAIN o.done : o.done[n].generated}
  BY <1>3 DEF Pending
<1>11. HeldExist(j, l, m, v, l, fs')
  <2> SUFFICES ASSUME NEW f \in Held(j, l, m, v, l)
               PROVE  fs'[f].data \notin {Foreign, <<"absent">>}
    BY DEF HeldExist
  <2>1. ~j.keep
    BY DEF Held
  <2>2. ASSUME f \in Held(j, ph, o, v, pc[p]), f \in Path
        PROVE  fs'[f].data \notin {Foreign, <<"absent">>}
    BY <1>2, <1>5, <2>2 DEF HeldExist
  <2>3. CASE f \in Working(l, m) \cap TempFiles
    <3>1. CASE f \in Working(ph, o)
      BY <1>3, <1>a, <2>1, <2>2, <2>3, <3>1 DEF Held
    <3> QED
      BY <1>5, <2>1, <2>3, <3>1
  <2>4. CASE f \in {m.done[n].path : n \in {k \in Pending(l, m, v, l) : j.stage = "E"}}
    <3>1. f \in {o.done[n].path : n \in {k \in Pending(ph, o, v, pc[p]) : j.stage = "E"}}
      BY <1>3, <1>9, <1>10, <2>4
    <3>2. f \in Held(j, ph, o, v, pc[p])
      BY <1>3, <2>1, <3>1 DEF Held
    <3>3. f \in Path
      BY <1>b, <1>10, <3>1
    <3> QED
      BY <2>2, <3>2, <3>3
  <2> QED
    BY <1>3, <2>1, <2>3, <2>4 DEF Held
<1>12. Distinct(j, l, m)
  <2> SUFFICES ASSUME ~j.keep, j.stage = "E", NEW n \in DOMAIN m.done, m.done[n].generated
               PROVE  /\ \A k \in DOMAIN m.done : k # n /\ m.done[k].generated =>
                            m.done[n].path # m.done[k].path
                      /\ l \in Preprocessing /\ m.gen => m.pre # m.done[n].path
    BY DEF Distinct
  <2>1. \A k \in DOMAIN m.done : k # n /\ m.done[k].generated => m.done[n].path # m.done[k].path
    BY <1>2, <1>3 DEF Distinct
  <2>2. l \in Preprocessing /\ m.gen => fs[m.pre].data = <<"absent">>
    BY <1>3, <1>4 DEF Preprocessing
  <2>3. o.done[n].path \in Held(j, ph, o, v, pc[p])
    BY <1>3, <1>10 DEF Held
  <2>4. fs[o.done[n].path].data # <<"absent">>
    BY <1>2, <2>3 DEF HeldExist
  <2> QED
    BY <1>3, <2>1, <2>2, <2>4
<1>13. ReadyWhole(j, l, m, fs')
  BY <1>3, <1>4 DEF ReadyWhole
<1>14. ASSUME NEW f \in Own(p)
       PROVE  \/ f \in Remaining(j, l, m, v, l)
              \/ fs'[f] = fs[f] /\ f \notin Remaining(j, ph, o, v, pc[p])
  <2>1. CASE f \in Working(l, m)
    BY <1>3, <2>1 DEF Remaining
  <2>2. CASE f \notin Working(l, m)
    <3>1. fs'[f] = fs[f]
      BY <1>5, <1>14, <1>a, <1>c, <2>2
    <3>2. ASSUME f \in Remaining(j, ph, o, v, pc[p])
          PROVE  f \in Remaining(j, l, m, v, l)
      <4>1. f \notin Working(ph, o)
        BY <1>5, <2>2
      <4>2. f \in {o.done[n].path : n \in {k \in Pending(ph, o, v, pc[p]) : j.stage # "ir"}}
        BY <1>3, <3>2, <4>1 DEF Remaining
      <4>3. f \in {m.done[n].path : n \in {k \in Pending(l, m, v, l) : j.stage # "ir"}}
        BY <1>3, <1>9, <1>10, <4>2
      <4> QED
        BY <1>3, <4>3 DEF Remaining
    <3> QED
      BY <3>1, <3>2
  <2> QED
    BY <2>1, <2>2
<1>15. LocalOK(p, j, l, m, v, l, fs', inodes')
  BY <1>6, <1>7, <1>8, <1>11, <1>12, <1>13 DEF LocalOK
<1> QED
  BY <1>15, <1>14, <1>d, <1>e

(* A non-empty set of natural numbers has a least element.                 *)
LEMMA LeastNumber ==
    ASSUME NEW T \in SUBSET Nat, T # {}
    PROVE  \E m \in T : \A k \in T : m <= k
<1> DEFINE Below == {s \in Nat \X Nat : s[1] < s[2]}
<1>1. IsWellFoundedOn(Below, Nat)
  BY NatLessThanWellFounded DEF OpToRel
<1> HIDE DEF Below
<1>2. PICK m \in T : \A k \in T : <<k, m>> \notin Below
  BY <1>1, WFMin
<1>3. ASSUME NEW k \in T
      PROVE  m <= k
  <2>1. ~(k < m)
    BY <1>2 DEF Below
  <2> QED
    BY <2>1
<1> QED
  BY <1>3

(* A temporary name that is found is the process's own, and free.          *)
Numbered == {"tmp", "copy", "asm"}

(* A temporary name that is found is a name of this process that no file   *)
(* has.                                                                    *)
LEMMA FreeTempFacts ==
    ASSUME Inv, NEW p \in Procs, NEW a \in Numbered, NEW e, <<a, e>> \in Areas,
           NEW t, t = FreeTemp(p, a, e), t # NoPath
    PROVE  /\ \E n \in 0 .. MaxTemp : t = <<<<a, p, n>>, e>>
           /\ t[1][3] + 1 \in Nat /\ t[2] = e
           /\ t \in Own(p) /\ t \in TempFiles /\ t \in Path /\ t \notin UserFiles
           /\ fs[t] = Absent
<1> DEFINE free == {n \in me[p].next[a] .. MaxTemp : ~Exists(<<<<a, p, n>>, e>>)}
<1>1. me[p].next[a] \in Nat
  <2>1. IsLocals(me[p])
    BY ProcessKnows
  <2> QED
    BY <2>1 DEF IsLocals, Numbered
<1>2. MaxTemp \in Nat
  BY DriverAssumption
<1>3. free \subseteq 0 .. MaxTemp /\ free \in SUBSET Nat
  BY <1>1, <1>2
<1>4. free # {} /\ t = <<<<a, p, CHOOSE n \in free : \A m \in free : n <= m>>, e>>
  BY DEF FreeTemp
<1> HIDE DEF free
<1>5. \E n \in free : \A m \in free : n <= m
  BY <1>3, <1>4, LeastNumber
<1>6. PICK n \in free : t = <<<<a, p, n>>, e>>
  BY <1>4, <1>5
<1>7. n \in 0 .. MaxTemp /\ n \in Nat /\ ~Exists(t)
  BY <1>3, <1>6 DEF free
<1>8. t \in TempFiles
  <2> DEFINE b == <<a, e>>
  <2>1. b \in Areas /\ b[1] = a /\ b[2] = e
    OBVIOUS
  <2>2. t = <<<<b[1], p, n>>, b[2]>>
    BY <1>6
  <2> HIDE DEF b
  <2> QED
    BY <1>7, <2>1, <2>2 DEF TempFiles
<1>9. t[1][2] = p /\ t[1][3] = n /\ t[2] = e
  BY <1>6
<1>10. t \in Own(p) /\ t \in Path /\ t \notin UserFiles
  BY <1>8, <1>9, PathFacts DEF Own
<1>11. fs[t] = Absent
  <2>1. ~IsLink(t)
    BY <1>10, DriverAssumption DEF Inv, LinksStay
  <2> QED
    BY <1>7, <1>10, <2>1 DEF Exists, Resolve
<1> QED
  BY <1>6, <1>7, <1>8, <1>9, <1>10, <1>11

\* A step that changes one file alone.
Changes(t, d) ==
    /\ DOMAIN fs' = Path /\ \A f \in Path : f # t => fs'[f] = fs[f]
    /\ fs'[t] = [data |-> d, ino |-> inodes + 1]

(* A file that is made where the process may write.                        *)
LEMMA ChangeSettles ==
    ASSUME Inv, NEW p \in Procs, UNCHANGED job, inodes' = inodes + 1,
           NEW t \in Own(p) \cup UserFiles, NEW d, Changes(t, d), d[1] # "link", d # Foreign,
           t \in TempFiles => fs[t].data # Foreign,
           Whole(d) \/ t \in Shared(p) \/ (t \in TempFiles /\ t[2] # "s")
    PROVE  Settled(p)
<1>1. inodes' \in Nat /\ inodes <= inodes' /\ inodes + 1 \in 0 .. inodes'
  BY DEF Inv, TypeOK
<1>2. MayWrite(p, t, fs'[t])
  BY <1>1 DEF Changes, MayWrite
<1> QED
  BY <1>1, <1>2, WritesSettle DEF Changes

(* Creating a file changes that file only.                                 *)
LEMMA CreationChanges ==
    ASSUME Inv, NEW t \in Path, NEW d, fs' = Create(t, d)
    PROVE  Changes(t, d)
BY DEF Create, Changes, Inv, TypeOK

(* The one source of a command is whole: nobody writes it in place.        *)
LEMMA SourceIsWhole ==
    ASSUME Inv, NEW p \in Procs, Len(job[p].srcs) = 1,
           NEW f \in ToSet(job[p].srcs), f \in UserFiles
    PROVE  Whole(fs[f].data)
<1> DEFINE j == job[p]
<1>1. IsJob(j) /\ f \in Beneath(j)
  BY ProcessKnows, CommandFacts
<1>2. f \notin DOMAIN Links \cup LinkTargets
  BY <1>1 DEF IsJob
<1>3. f \notin KeptFiles(j)
  <2>1. DOMAIN j.srcs = 1 .. 1
    BY <1>1 DEF IsJob
  <2>2. ToSet(j.srcs) = {j.srcs[1]}
    BY <2>1 DEF ToSet
  <2>3. \A x : WithExtension(x, "i")[2] = "i"
    BY DEF WithExtension
  <2> QED
    BY <2>2, <2>3 DEF KeptFiles
<1>4. ASSUME NEW q \in Procs, q # p
      PROVE  f \notin KeptFiles(job[q])
  BY <1>4 DEF Inv, JobsOK
<1>5. f \notin InPlace
  BY <1>2, <1>3, <1>4 DEF InPlace
<1> QED
  BY <1>5, PathFacts DEF Inv, HalvesInPlace

(* Taking the next source keeps the invariant.                             *)
LEMMA TakeKeeps ==
    ASSUME Inv, NEW p \in Procs, Take(p)
    PROVE  Inv' /\ Settled(p)
<1> DEFINE j == job[p]
           o == me[p]
           v == w[p]
           ph == "take"
           src == j.srcs[o.i]
           k == InputKind(src, j.lang)
<1>1. /\ pc[p] = ph /\ Phase(ph, v) = ph /\ ph \in Active /\ ph \notin Staged
  BY DEF Take, Phase, Staged, Active
<1>2. UNCHANGED <<inodes, job, w, kills, strangers>> /\ o.i <= Len(j.srcs)
  BY DEF Take
<1>3. IsJob(j) /\ IsLocals(o) /\ IsWrite(v) /\ Progress(j, ph, o) /\ Places(p, j, ph, o)
  BY <1>1, ProcessKnows
<1>4. ~Rejected(j) /\ o.i \in 1 .. Len(j.srcs) /\ src \in ToSet(j.srcs) /\ src \in UserFiles \cup {Stdin}
  <2>1. ~Rejected(j) /\ o.i \in Nat \ {0} /\ Len(j.srcs) \in Nat
    BY <1>1, <1>3, CommandFacts DEF Progress, IsLocals
  <2>2. o.i \in 1 .. Len(j.srcs)
    BY <1>2, <2>1
  <2> HIDE DEF j, o
  <2> QED
    BY <1>3, <2>1, <2>2, CommandFacts
<1>5. Working(ph, o) = {}
  BY DEF Working, Fetching, Preprocessing
<1>6. k \in {InputKind(s, j.lang) : s \in ToSet(j.srcs)}
  BY <1>4
<1>7. IsLinkerInput(k) => j.dep # "only"
  <2>1. IsLinkerInput(k) => ~IsCompilable(k)
    BY DEF IsLinkerInput, IsCompilable
  <2> HIDE DEF k
  <2> QED
    BY <1>4, <1>6, <2>1 DEF Rejected
<1>8. IsLinkerInput(k) => src \in UserFiles
  <2>1. Stdin[2] = ""
    BY DEF Stdin
  <2>2. IsLinkerInput(k) => src # Stdin
    BY <2>1 DEF IsLinkerInput, InputKind
  <2> QED
    BY <1>4, <2>2
<1>9. ~j.keep => \A f \in Remaining(j, ph, o, v, ph) : f \in Cleanup(p)
  BY <1>1, <1>5, Remains
<1>10. CASE /\ PassedOn(k, j.stage) /\ Set(p, Pushed(o, Artifact(src, src, FALSE)))
            /\ UNCHANGED <<fs, pc, res>>
  <2> DEFINE a == Artifact(src, src, FALSE)
             m == Pushed(o, a)
  <2>1. Turns(p, "take", m, v, res[p])
    BY <1>1, <1>2, <1>10, TurnsTo DEF Updated, Set
  <2>2. IsLinkerInput(k) /\ j.stage # "E"
    BY <1>10 DEF PassedOn
  <2>3. a \in Artifacts /\ a.path = src /\ ~a.generated /\ src \in UserFiles
    BY <1>8, <2>2, PathFacts DEF Artifacts, Artifact
  <2> HIDE DEF a
  <2>4. m = Pushed(o, a)
    OBVIOUS
  <2> HIDE DEF m
  <2>5. ArtifactOK(p, j, a)
    BY <1>4, <2>3 DEF ArtifactOK
  <2>6. Removes({}) /\ Ours(p, {})
    BY <1>10, NothingRemoved
  <2>7. ASSUME ~j.keep, NEW f \in Remaining(j, ph, o, v, ph)
        PROVE  f \in {o.done[n].path : n \in {x \in DOMAIN o.done : o.done[x].generated /\ j.stage # "ir"}}
    BY <1>1, <1>5, <2>7 DEF Remaining, Pending
  <2> QED
    BY <1>1, <1>2, <1>3, <1>7, <2>1, <2>2, <2>3, <2>4, <2>5, <2>6, <2>7, PushKeeps
<1>11. CASE fs' = Without(Cleanup(p)) /\ End(p, "error") /\ UNCHANGED me
  <2>1. Removes(Cleanup(p)) /\ Ours(p, Cleanup(p))
    BY <1>1, <1>11, RemovalIs, CleanupIsOurs
  <2>2. Turns(p, "end", o, v, "error")
    BY <1>2, <1>11, TurnsTo DEF Updated, End, Go
  <2> QED
    BY <1>1, <1>2, <1>3, <1>9, <2>1, <2>2, EndKeeps DEF Results
<1>12. CASE /\ src # Stdin /\ src[2] = "i" /\ Go(p, "dependencies") /\ UNCHANGED <<fs, res>>
            /\ Set(p, [o EXCEPT !.src = src, !.pre = src, !.gen = FALSE])
  <2> DEFINE m == [o EXCEPT !.src = src, !.pre = src, !.gen = FALSE]
             l == "dependencies"
  <2>1. Turns(p, l, m, v, res[p])
    BY <1>2, <1>12, TurnsTo DEF Updated, Set, Go
  <2>2. /\ IsLocals(m) /\ m.born = o.born /\ m.i = o.i /\ m.src = src /\ m.pre = src
        /\ ~m.gen /\ m.done = o.done
    <3>1. m = Given(o, src)
      BY DEF Given
    <3> HIDE DEF m, o, src
    <3> QED
      BY <1>3, <3>1, WithPreprocessed
  <2> HIDE DEF m
  <2>3. Settled(p)
    BY <1>2, <1>12, NoWriteSettles
  <2>4. l \notin Fetching /\ Working(l, m) = {} /\ l \in Preprocessing
    BY <2>2 DEF Working, Fetching, Preprocessing
  <2>5. PreOK(p, j, m) /\ src \in UserFiles
    BY <1>4, <1>12, <2>2 DEF PreOK
  <2>6. j.stage = "E" /\ j.out # NoPath => Whole(fs'[m.pre].data)
    <3>1. j.stage = "E" /\ j.out # NoPath => Len(j.srcs) = 1
      BY <1>4 DEF Rejected
    <3> QED
      BY <1>4, <1>12, <2>2, <2>5, <3>1, SourceIsWhole
  <2> QED
    BY <1>1, <1>2, <1>3, <1>5, <1>12, <2>1, <2>2, <2>3, <2>4, <2>5, <2>6, FetchKeeps
<1>13. CASE /\ src[2] # "i" /\ Set(p, [o EXCEPT !.src = src]) /\ UNCHANGED <<fs, res>>
            /\ Go(p, IF src = Stdin THEN "stdin" ELSE "reserve")
  <2> DEFINE m == [o EXCEPT !.src = src]
             l == IF src = Stdin THEN "stdin" ELSE "reserve"
  <2>1. Turns(p, l, m, v, res[p])
    BY <1>2, <1>13, TurnsTo DEF Updated, Set, Go
  <2>2. /\ IsLocals(m) /\ m.born = o.born /\ m.i = o.i /\ m.src = src /\ m.done = o.done
    BY <1>3, WithSource
  <2> HIDE DEF m
  <2>3. Settled(p)
    BY <1>2, <1>13, NoWriteSettles
  <2>4. CASE src = Stdin
    <3>1. l = "stdin" /\ "stdin" \notin Fetching /\ "stdin" \notin Preprocessing
      BY <2>4 DEF Fetching, Preprocessing
    <3>2. Working("stdin", m) = {}
      BY <3>1 DEF Working
    <3> HIDE DEF l
    <3> QED
      BY <1>1, <1>2, <1>3, <1>5, <1>13, <2>1, <2>2, <2>3, <2>4, <3>1, <3>2, FetchKeeps
  <2>5. CASE src # Stdin
    <3>1. l = "reserve" /\ "reserve" \notin Preprocessing /\ src \in UserFiles
      BY <1>4, <2>5 DEF Preprocessing
    <3>2. Working("reserve", m) = {src}
      BY <2>2, <3>1 DEF Working, Fetching
    <3>3. src \notin TempFiles
      BY <3>1, PathFacts
    <3>4. ReadsFrom(p, j, m)
      BY <1>13, <2>2, <3>1 DEF ReadsFrom
    <3> HIDE DEF l
    <3> QED
      BY <1>1, <1>2, <1>3, <1>5, <1>13, <2>1, <2>2, <2>3, <3>1, <3>2, <3>3, <3>4, FetchKeeps
  <2> QED
    BY <2>4, <2>5
<1> QED
  BY <1>10, <1>11, <1>12, <1>13 DEF Take, Pushed

(* Reading standard input keeps the invariant.                             *)
LEMMA ReadStdinKeeps ==
    ASSUME Inv, NEW p \in Procs, ReadStdin(p)
    PROVE  Inv' /\ Settled(p)
<1> DEFINE j == job[p]
           o == me[p]
           v == w[p]
           ph == "stdin"
           t == FreeTemp(p, "tmp", "c")
<1>1. /\ pc[p] = ph /\ Phase(ph, v) = ph /\ ph \in Active /\ ph \notin Staged /\ ph \in Sourcing
  BY DEF ReadStdin, Phase, Staged, Active, Sourcing
<1>2. UNCHANGED <<job, w, kills, strangers>>
  BY DEF ReadStdin
<1>3. IsJob(j) /\ IsLocals(o) /\ IsWrite(v) /\ Progress(j, ph, o) /\ Places(p, j, ph, o)
  BY <1>1, ProcessKnows
<1>4. /\ o.i <= Len(j.srcs) /\ j.srcs[o.i] = Stdin /\ j.srcs[o.i] \in ToSet(j.srcs)
      /\ Working(ph, o) = {}
  BY <1>1, <1>3, SourceIs DEF Progress, Places, Working, Fetching, Preprocessing
<1>5. ~j.keep
  BY <1>3, <1>4 DEF IsJob
<1>6. CASE /\ t # NoPath /\ fs' = Create(t, <<"src", Stdin>>) /\ inodes' = inodes + 1
           /\ Set(p, Reading(o, t, t[1][3] + 1)) /\ Go(p, "reserve") /\ UNCHANGED res
  <2> DEFINE m == Reading(o, t, t[1][3] + 1)
             l == "reserve"
             d == <<"src", Stdin>>
  <2>1. Turns(p, l, m, v, res[p])
    BY <1>2, <1>6, TurnsTo DEF Updated, Set, Go
  <2>2. /\ \E n \in 0 .. MaxTemp : t = <<<<"tmp", p, n>>, "c">>
        /\ t[1][3] + 1 \in Nat /\ t \in Own(p) /\ t \in TempFiles /\ t \in Path /\ fs[t] = Absent
    <3>1. <<"tmp", "c">> \in Areas /\ "tmp" \in Numbered
      BY DEF Areas, Numbered
    <3> HIDE DEF t
    <3> QED
      BY <1>6, <3>1, FreeTempFacts DEF t
  <2>3. t \in Tmp(p, "c")
    BY <2>2 DEF Tmp
  <2>4. d[1] = "src" /\ d # Foreign /\ d # <<"absent">> /\ Whole(d)
    BY DEF Foreign, Whole, Partial
  <2>5. Changes(t, d) /\ fs[t].data = <<"absent">> /\ fs[t].data # Foreign
    BY <1>6, <2>2, CreationChanges DEF Absent, Foreign
  <2> HIDE DEF t, d
  <2>6. /\ IsLocals(m) /\ m.born = o.born /\ m.i = o.i /\ m.src = t /\ m.done = o.done
    BY <1>3, <2>2, WithStdin
  <2> HIDE DEF m
  <2>7. Settled(p)
    BY <1>2, <1>6, <2>2, <2>4, <2>5, ChangeSettles
  <2>8. l \in Fetching /\ l \notin Preprocessing /\ Working(l, m) = {t}
    BY <2>6 DEF Working, Fetching, Preprocessing
  <2>9. ReadsFrom(p, j, m)
    BY <1>5, <2>3, <2>6 DEF ReadsFrom
  <2>10. \A f \in Path : fs'[f] = fs[f] \/ f = t
    BY <2>5 DEF Changes
  <2>11. fs'[t].data = d
    BY <2>5 DEF Changes
  <2> QED
    BY <1>1, <1>2, <1>3, <1>4, <2>1, <2>4, <2>5, <2>6, <2>7, <2>8, <2>9, <2>10, <2>11, FetchKeeps
<1>7. CASE fs' = Without(Cleanup(p)) /\ End(p, "error") /\ UNCHANGED <<me, inodes>>
  <2>1. Removes(Cleanup(p)) /\ Ours(p, Cleanup(p))
    BY <1>1, <1>7, RemovalIs, CleanupIsOurs
  <2>2. Turns(p, "end", o, v, "error")
    BY <1>2, <1>7, TurnsTo DEF Updated, End, Go
  <2>3. \A f \in Remaining(j, ph, o, v, ph) : f \in Cleanup(p)
    BY <1>1, <1>4, <1>5, Remains
  <2> QED
    BY <1>1, <1>2, <1>3, <1>7, <2>1, <2>2, <2>3, EndKeeps DEF Results
<1> QED
  BY <1>6, <1>7 DEF ReadStdin, Reading

(* The temporary that holds standard input.                                *)
Input(p) == IF me[p].src \in TempFiles THEN {me[p].src} ELSE {}

(* The temporary that holds standard input is the process's own.           *)
LEMMA InputIsOurs ==
    ASSUME Inv, NEW p \in Procs, pc[p] \in Fetching
    PROVE  /\ Ours(p, Input(p))
           /\ job[p].keep => Input(p) = {}
           /\ \A f \in Input(p) : f \in Tmp(p, "c")
<1>1. Phase(pc[p], w[p]) = pc[p] /\ pc[p] \in Active
  BY DEF Phase, Staged, Active, Sourcing, Fetching
<1>2. ReadsFrom(p, job[p], me[p])
  <2>1. Places(p, job[p], pc[p], me[p])
    BY <1>1, ProcessKnows
  <2> QED
    BY <2>1 DEF Places
<1>3. \A f \in Input(p) : f \in Tmp(p, "c")
  BY <1>2, PathFacts DEF Input, ReadsFrom
<1>4. job[p].keep => Input(p) = {}
  BY <1>2, PathFacts DEF Input, ReadsFrom
<1>5. Input(p) \subseteq Working(pc[p], me[p])
  BY DEF Input, Working
<1>6. Ours(p, Input(p))
  <2>1. CASE job[p].keep
    BY <1>4, <2>1 DEF Ours
  <2>2. CASE ~job[p].keep
    BY <1>1, <1>5, <2>2, WorkIsOurs DEF Ours
  <2> QED
    BY <2>1, <2>2
<1> QED
  BY <1>3, <1>4, <1>6

(* Reserving a temporary keeps the invariant.                              *)
LEMMA ReserveKeeps ==
    ASSUME Inv, NEW p \in Procs, Reserve(p)
    PROVE  Inv' /\ Settled(p)
<1> DEFINE j == job[p]
           o == me[p]
           v == w[p]
           ph == "reserve"
           t == FreeTemp(p, "tmp", "i")
           S == Cleanup(p) \cup Input(p)
<1>1. /\ pc[p] = ph /\ Phase(ph, v) = ph /\ ph \in Active /\ ph \notin Staged /\ ph \in Sourcing
      /\ ph \in Fetching /\ ph \notin Preprocessing
  BY DEF Reserve, Phase, Staged, Active, Sourcing, Fetching, Preprocessing
<1>2. UNCHANGED <<job, w, kills, strangers>>
  BY DEF Reserve
<1>3. IsJob(j) /\ IsLocals(o) /\ IsWrite(v) /\ Progress(j, ph, o) /\ Places(p, j, ph, o)
  BY <1>1, ProcessKnows
<1>4. /\ o.i <= Len(j.srcs) /\ ReadsFrom(p, j, o) /\ Working(ph, o) = {o.src}
      /\ j.srcs[o.i] \in ToSet(j.srcs)
  BY <1>1, <1>3, SourceIs DEF Progress, Places, Working
<1>5. Ours(p, Input(p))
  BY <1>1, InputIsOurs
<1>6. CASE /\ j.keep /\ Set(p, [o EXCEPT !.pre = WithExtension(o.src, "i"), !.gen = TRUE])
           /\ Go(p, "preprocess") /\ UNCHANGED <<fs, inodes, res>>
  <2> DEFINE k == WithExtension(o.src, "i")
             m == [o EXCEPT !.pre = k, !.gen = TRUE]
             l == "preprocess"
  <2>1. Turns(p, l, m, v, res[p])
    BY <1>2, <1>6, TurnsTo DEF Updated, Set, Go
  <2>2. k \in KeptFiles(j)
    BY <1>4, <1>6 DEF KeptFiles, ReadsFrom
  <2>3. Settled(p)
    BY <1>2, <1>6, NoWriteSettles
  <2> HIDE DEF k
  <2>4. /\ IsLocals(m) /\ m.born = o.born /\ m.i = o.i /\ m.src = o.src /\ m.pre = k
        /\ m.gen /\ m.done = o.done
    <3>1. m = Kept(o, k)
      BY DEF Kept
    <3> HIDE DEF m, o
    <3> QED
      BY <1>3, <3>1, WithKept
  <2> HIDE DEF m
  <2>5. l \in Fetching /\ l \in Preprocessing /\ Working(l, m) = {o.src, k}
    BY <2>4 DEF Working, Fetching, Preprocessing
  <2>6. ReadsFrom(p, j, m) /\ PreOK(p, j, m)
    BY <1>4, <1>6, <2>2, <2>4 DEF ReadsFrom, PreOK
  <2> QED
    BY <1>1, <1>2, <1>3, <1>4, <1>6, <2>1, <2>3, <2>4, <2>5, <2>6, FetchKeeps
<1>7. CASE /\ ~j.keep /\ t # NoPath /\ fs' = Create(t, <<"empty">>) /\ inodes' = inodes + 1
           /\ Set(p, Reserving(o, t, t[1][3] + 1)) /\ Go(p, "preprocess") /\ UNCHANGED res
  <2> DEFINE m == Reserving(o, t, t[1][3] + 1)
             l == "preprocess"
             d == <<"empty">>
  <2>1. Turns(p, l, m, v, res[p])
    BY <1>2, <1>7, TurnsTo DEF Updated, Set, Go
  <2>2. /\ \E n \in 0 .. MaxTemp : t = <<<<"tmp", p, n>>, "i">>
        /\ t[1][3] + 1 \in Nat /\ t \in Own(p) /\ t \in TempFiles /\ t \in Path /\ fs[t] = Absent
        /\ t[2] = "i"
    <3>1. <<"tmp", "i">> \in Areas /\ "tmp" \in Numbered
      BY DEF Areas, Numbered
    <3> HIDE DEF t
    <3> QED
      BY <1>7, <3>1, FreeTempFacts DEF t
  <2>3. t \in Tmp(p, "i")
    BY <2>2 DEF Tmp
  <2>4. d[1] = "empty" /\ d # Foreign /\ d # <<"absent">>
    BY DEF Foreign
  <2>5. Changes(t, d) /\ fs[t].data = <<"absent">> /\ fs[t].data # Foreign
    BY <1>7, <2>2, CreationChanges DEF Absent, Foreign
  <2> HIDE DEF t, d
  <2>6. /\ IsLocals(m) /\ m.born = o.born /\ m.i = o.i /\ m.src = o.src /\ m.pre = t
        /\ m.gen /\ m.done = o.done
    BY <1>3, <2>2, WithReserved
  <2> HIDE DEF m
  <2>7. Settled(p)
    BY <1>2, <1>7, <2>2, <2>4, <2>5, ChangeSettles
  <2>8. l \in Fetching /\ l \in Preprocessing /\ Working(l, m) = {o.src, t}
    BY <2>6 DEF Working, Fetching, Preprocessing
  <2>9. ReadsFrom(p, j, m) /\ PreOK(p, j, m)
    BY <1>4, <1>7, <2>3, <2>6 DEF ReadsFrom, PreOK
  <2>10. \A f \in Path : fs'[f] = fs[f] \/ f = t
    BY <2>5 DEF Changes
  <2>11. fs'[t].data = d
    BY <2>5 DEF Changes
  <2> QED
    BY <1>1, <1>2, <1>3, <1>4, <2>1, <2>4, <2>5, <2>6, <2>7, <2>8, <2>9, <2>10, <2>11, FetchKeeps
<1>8. CASE ~j.keep /\ fs' = Without(S) /\ End(p, "error") /\ UNCHANGED <<me, inodes>>
  <2>1. Removes(S) /\ Ours(p, S)
    BY <1>1, <1>5, <1>8, RemovalIs, CleanupIsOurs, Together
  <2>2. Turns(p, "end", o, v, "error")
    BY <1>2, <1>8, TurnsTo DEF Updated, End, Go
  <2>3. ASSUME NEW f \in Remaining(j, ph, o, v, ph), f \in Own(p)
        PROVE  f \in S
    <3>1. f \in Cleanup(p) \/ f = o.src
      BY <1>1, <1>4, <1>8, <2>3, Remains
    <3>2. f \in TempFiles
      BY <2>3, TempFacts
    <3> QED
      BY <3>1, <3>2 DEF Input
  <2> QED
    BY <1>1, <1>2, <1>3, <1>8, <2>1, <2>2, <2>3, EndKeeps DEF Results
<1> QED
  BY <1>6, <1>7, <1>8 DEF Reserve, Reserving, Input

(* Artifacts are named by paths.                                           *)
LEMMA DonePaths ==
    ASSUME NEW m, IsLocals(m), NEW n \in DOMAIN m.done
    PROVE  /\ m.done[n] \in Artifacts /\ m.done[n].path \in Path
           /\ m.done[n].src \in UserFiles \cup {Stdin} /\ m.done[n].generated \in BOOLEAN
<1> DEFINE d == m.done
<1>1. d \in Seq(Artifacts) /\ n \in DOMAIN d
  BY DEF IsLocals, Artifacts
<1> HIDE DEF d
<1>2. d[n] \in Artifacts
  BY <1>1
<1> QED
  BY <1>2 DEF Artifacts, d

(* What a command preprocesses into.                                       *)
LEMMA OutputIs ==
    ASSUME Inv, NEW p \in Procs, pc[p] \in {"preprocess", "preprocessing"}
    PROVE  /\ me[p].pre \in Path /\ me[p].pre[2] = "i" /\ me[p].gen
           /\ me[p].pre \in Own(p) \cup KeptFiles(job[p]) /\ KeptFiles(job[p]) \subseteq UserFiles
           /\ job[p].keep <=> me[p].pre \in KeptFiles(job[p])
           /\ me[p].pre \in TempFiles => fs[me[p].pre].data # Foreign
           /\ ReadsFrom(p, job[p], me[p]) /\ PreOK(p, job[p], me[p])
<1> DEFINE j == job[p]
           m == me[p]
           ph == pc[p]
<1>1. /\ Phase(pc[p], w[p]) = ph /\ ph \in Active /\ ph \in Fetching /\ ph \in Preprocessing
      /\ ph \in {"preprocess", "preprocessing"} /\ p \in Procs
  BY DEF Phase, Staged, Active, Sourcing, Fetching, Preprocessing
<1>2. IsJob(j) /\ Places(p, j, ph, m) /\ HeldExist(j, ph, m, w[p], ph, fs)
  BY <1>1, ProcessKnows
<1> HIDE DEF j, m, ph
<1>3. m.gen /\ PreOK(p, j, m) /\ ReadsFrom(p, j, m)
  BY <1>1, <1>2 DEF Places
<1>4. KeptFiles(j) \subseteq UserFiles /\ \A f \in KeptFiles(j) : f[2] = "i"
  BY <1>2, CommandFacts
<1>5. IF j.keep THEN m.pre \in KeptFiles(j) ELSE m.pre \in Tmp(p, "i")
  BY <1>3 DEF PreOK
<1>6. m.pre \in Tmp(p, "i") => m.pre \in Own(p) /\ m.pre[2] = "i" /\ m.pre \in TempFiles
  BY <1>1, TempFacts
<1>7. m.pre \in Path /\ m.pre[2] = "i" /\ m.pre \in Own(p) \cup KeptFiles(j)
  BY <1>4, <1>5, <1>6, PathFacts
<1>8. j.keep <=> m.pre \in KeptFiles(j)
  BY <1>4, <1>5, <1>6, PathFacts
<1>9. m.pre \in TempFiles => fs[m.pre].data # Foreign
  <2>1. m.pre \in TempFiles => ~j.keep
    BY <1>4, <1>8, PathFacts
  <2>2. ~j.keep => m.pre \in Held(j, ph, m, w[p], ph)
    BY <1>1, <1>3, <1>5, <1>6 DEF Held, Working
  <2> QED
    BY <1>2, <2>1, <2>2 DEF HeldExist
<1> QED
  BY <1>3, <1>4, <1>7, <1>8, <1>9 DEF j, m

(* Emptying the preprocessor's output keeps the invariant.                 *)
LEMMA TruncateKeeps ==
    ASSUME Inv, NEW p \in Procs, Truncate(p)
    PROVE  Inv' /\ Settled(p)
<1> DEFINE j == job[p]
           m == me[p]
           v == w[p]
           ph == "preprocess"
           l == "preprocessing"
<1>1. /\ pc[p] = ph /\ Phase(ph, v) = ph /\ ph \in Active /\ ph \notin Staged
      /\ ph \in Fetching /\ ph \in Preprocessing /\ ph \in Sourcing
  BY DEF Truncate, Phase, Staged, Active, Sourcing, Fetching, Preprocessing
<1>2. /\ UNCHANGED <<job, me, w, res, kills, strangers>> /\ Go(p, l)
      /\ fs' = Create(m.pre, Partial) /\ inodes' = inodes + 1
  BY DEF Truncate
<1>3. IsJob(j) /\ IsLocals(m) /\ IsWrite(v) /\ Progress(j, ph, m)
  BY <1>1, ProcessKnows
<1>4. /\ m.pre \in Path /\ m.pre[2] = "i" /\ m.gen
      /\ m.pre \in Own(p) \cup KeptFiles(j) /\ KeptFiles(j) \subseteq UserFiles
      /\ m.pre \in TempFiles => fs[m.pre].data # Foreign
  BY <1>1, OutputIs
<1>5. Changes(m.pre, Partial)
  BY <1>2, <1>4, CreationChanges
<1>6. Partial[1] = "partial" /\ Partial # Foreign /\ Partial # <<"absent">>
  BY DEF Partial, Foreign
<1>7. Settled(p)
  <2>1. m.pre \in Own(p) \cup UserFiles
    BY <1>4
  <2>2. m.pre \in Shared(p) \/ (m.pre \in TempFiles /\ m.pre[2] # "s")
    BY <1>4, TempFacts DEF Shared
  <2> QED
    BY <1>2, <1>4, <1>5, <1>6, <2>1, <2>2, ChangeSettles
<1>8. Turns(p, l, m, v, res[p])
  BY <1>2, TurnsTo DEF Updated, Go
<1>9. /\ l \in Labels /\ l \notin Staged \cup {"noted", "moved"} /\ l \in Active /\ l \in Fetching
      /\ l \in Preprocessing
  BY DEF Labels, Active, Staged, Sourcing, Fetching, Preprocessing
<1>10. Phase(l, v) = l /\ Writing(p, j, l, m, v, l) /\ TempOK(v, l, fs', inodes')
  BY <1>9, NotWriting
<1>11. Follows(ph, l, m.i, m.i) /\ SameWork(m, m)
  BY <1>1, <1>9 DEF Follows, Counted, SameWork
<1>12. Progress(j, l, m)
  BY <1>1, <1>3, <1>9 DEF Progress, Active, Sourcing, Fetching, Preprocessing, Finishing
<1>13. ReadyWhole(j, l, m, fs')
  BY DEF ReadyWhole
<1>14. \A f \in Path : fs'[f] = fs[f] \/ (f = m.pre /\ fs'[f].data = Partial)
  BY <1>5 DEF Changes
<1>15. Held(j, l, m, v, l) \subseteq Path
  <2>1. Held(j, l, m, v, l) \subseteq TempFiles \cup {m.done[n].path : n \in DOMAIN m.done}
    BY DEF Held, Pending
  <2>2. \A n \in DOMAIN m.done : m.done[n].path \in Path
    BY <1>3, DonePaths
  <2> QED
    BY <2>1, <2>2, PathFacts
<1>16. \A f \in Held(j, l, m, v, l) :
          fs'[f] = fs[f] \/ fs'[f].data \notin {Foreign, <<"absent">>}
  BY <1>6, <1>14, <1>15
<1>17. NoneLost(p, l, m, v)
  <2>1. \A f \in Remaining(j, ph, m, v, ph) : f \in Remaining(j, l, m, v, l)
    BY <1>1, <1>9, <1>11, RemainingGrows DEF Counted
  <2>2. m.pre \in Remaining(j, l, m, v, l)
    BY <1>4, <1>9 DEF Remaining, Working
  <2>3. \A f \in Own(p) : f \in Path
    BY TempFacts, PathFacts
  <2> QED
    BY <1>1, <1>9, <1>10, <1>14, <2>1, <2>2, <2>3 DEF NoneLost
<1> QED
  BY <1>1, <1>2, <1>3, <1>7, <1>8, <1>9, <1>10, <1>11, <1>12, <1>13, <1>16, <1>17, MoveOnKeeps

(* The preprocessor's end keeps the invariant.                             *)
LEMMA PreprocessKeeps ==
    ASSUME Inv, NEW p \in Procs, Preprocess(p)
    PROVE  Inv' /\ Settled(p)
<1> DEFINE j == job[p]
           m == me[p]
           v == w[p]
           ph == "preprocessing"
           l == "dependencies"
           S == Input(p) \cup CleanupPre(p) \cup Cleanup(p)
<1>1. /\ pc[p] = ph /\ Phase(ph, v) = ph /\ ph \in Active /\ ph \notin Staged
      /\ ph \in Fetching /\ ph \in Preprocessing /\ ph \in Sourcing
  BY DEF Preprocess, Phase, Staged, Active, Sourcing, Fetching, Preprocessing
<1>2. UNCHANGED <<inodes, job, me, w, kills, strangers>>
  BY DEF Preprocess
<1>3. /\ IsJob(j) /\ IsLocals(m) /\ IsWrite(v) /\ Progress(j, ph, m) /\ Places(p, j, ph, m)
  BY <1>1, ProcessKnows
<1>4. /\ m.pre \in Path /\ m.pre[2] = "i" /\ m.gen
      /\ m.pre \in Own(p) \cup KeptFiles(j) /\ KeptFiles(j) \subseteq UserFiles
      /\ m.pre \in TempFiles => fs[m.pre].data # Foreign
  BY <1>1, OutputIs
<1>5. Ours(p, Input(p)) /\ (j.keep => Input(p) = {}) /\ \A f \in Input(p) : f \in Tmp(p, "c")
  BY <1>1, InputIsOurs
<1>6. Working(ph, m) = {m.src, m.pre} /\ Working(l, m) = {m.pre}
  BY <1>1, <1>4 DEF Working, Fetching, Preprocessing
<1>7. \A f \in Own(p) : f \in Path /\ (f = m.src => f \in Input(p))
  <2>1. \A f \in Own(p) : f \in TempFiles /\ f \in Path
    BY TempFacts, PathFacts
  <2>2. m.src \in TempFiles => m.src \in Input(p)
    BY DEF Input
  <2> HIDE DEF m
  <2> QED
    BY <2>1, <2>2
<1>8. \A f \in Input(p) : f \in Own(p) /\ f[2] = "c" /\ f \in Path
  BY <1>5, TempFacts, PathFacts
<1>9. CASE /\ fs' = [Without(Input(p)) EXCEPT ![m.pre].data = <<"pre", Contents(m.src)>>]
           /\ Go(p, l) /\ UNCHANGED res
  <2> DEFINE c == Contents(m.src)
             d == <<"pre", c>>
  <2>1. d[1] = "pre"
    <3> HIDE DEF c
    <3> QED
      OBVIOUS
  <2>2. /\ DOMAIN fs' = Path
        /\ \A f \in Input(p) : fs'[f] = Absent
        /\ \A f \in Path : f \notin Input(p) /\ f # m.pre => fs'[f] = fs[f]
    BY <1>4, <1>8, <1>9 DEF Without
  <2>3. fs'[m.pre] = [data |-> d, ino |-> fs[m.pre].ino]
    <3>1. Without(Input(p))[m.pre] = fs[m.pre] /\ m.pre \in DOMAIN Without(Input(p))
      BY <1>4, <1>8 DEF Without
    <3>2. fs[m.pre] = [data |-> fs[m.pre].data, ino |-> fs[m.pre].ino]
      BY <1>4 DEF Inv, TypeOK, IsFile
    <3> HIDE DEF d
    <3>3. fs'[m.pre] = [fs[m.pre] EXCEPT !.data = d]
      BY <1>4, <1>9, <3>1 DEF d
    <3> QED
      BY <3>2, <3>3
  <2>4. d # Foreign /\ d # <<"absent">> /\ Whole(d)
    <3> HIDE DEF d
    <3> QED
      BY <2>1 DEF Foreign, Whole, Partial
  <2> HIDE DEF d
  <2>5. Settled(p)
    <3>1. inodes' \in Nat /\ inodes <= inodes'
      BY <1>2 DEF Inv, TypeOK
    <3>2. ASSUME NEW f \in Input(p)
          PROVE  MayWrite(p, f, fs'[f])
      <4>1. fs'[f] = Absent /\ f \in Own(p) /\ (f \in TempFiles => fs[f].data # Foreign)
        BY <1>5, <1>8, <2>2 DEF Ours
      <4>2. /\ Absent = [data |-> Absent.data, ino |-> Absent.ino] /\ Absent.ino = 0
            /\ Absent.data[1] = "absent" /\ Absent.data # Foreign /\ Whole(Absent.data)
        BY DEF Absent, Foreign, Whole, Partial
      <4>3. 0 \in 0 .. inodes'
        BY <3>1
      <4> HIDE DEF Absent
      <4> QED
        BY <4>1, <4>2, <4>3 DEF MayWrite
    <3>3. MayWrite(p, m.pre, fs'[m.pre])
      <4>1. fs[m.pre].ino \in 0 .. inodes'
        BY <1>2, <1>4 DEF Inv, TypeOK, IsFile
      <4> DEFINE r == fs'[m.pre]
      <4>2. r = [data |-> r.data, ino |-> r.ino] /\ r.ino \in 0 .. inodes' /\ r.data = d
        BY <2>3, <4>1
      <4> HIDE DEF r
      <4> QED
        BY <1>4, <2>1, <2>4, <4>2 DEF MayWrite, r
    <3> QED
      BY <1>2, <2>2, <3>1, <3>2, <3>3, WritesSettle
  <2>6. Turns(p, l, m, v, res[p])
    BY <1>2, <1>9, TurnsTo DEF Updated, Go
  <2>7. /\ l \in Labels /\ l \notin Staged \cup {"noted", "moved"} /\ l \in Active
        /\ l \in Preprocessing /\ l \notin Fetching
    BY DEF Labels, Active, Staged, Sourcing, Fetching, Preprocessing
  <2>8. Phase(l, v) = l /\ Writing(p, j, l, m, v, l) /\ TempOK(v, l, fs', inodes')
    BY <2>7, NotWriting
  <2>9. Follows(ph, l, m.i, m.i) /\ SameWork(m, m)
    BY <1>1, <2>7 DEF Follows, Counted, Fetching, Preprocessing, SameWork
  <2>10. Progress(j, l, m)
    BY <1>1, <1>3, <2>7 DEF Progress, Active, Sourcing, Fetching, Preprocessing, Finishing
  <2>11. ReadyWhole(j, l, m, fs')
    BY <2>3, <2>4 DEF ReadyWhole
  <2>12. ASSUME NEW f \in Held(j, l, m, v, l)
         PROVE  fs'[f] = fs[f] \/ fs'[f].data \notin {Foreign, <<"absent">>}
    <3>1. CASE f = m.pre
      BY <2>3, <2>4, <3>1
    <3>2. ASSUME f # m.pre
          PROVE  fs'[f] = fs[f]
      <4>1. ~j.keep /\ f \in {m.done[n].path : n \in {k \in Pending(l, m, v, l) : j.stage = "E"}}
        BY <1>6, <3>2 DEF Held
      <4>2. PICK n \in Pending(l, m, v, l) : f = m.done[n].path /\ j.stage = "E"
        BY <4>1
      <4>3. n \in DOMAIN m.done /\ m.done[n].generated
        BY DEF Pending
      <4>4. ArtifactOK(p, j, m.done[n])
        BY <1>3, <4>3 DEF Places
      <4>5. f \in Tmp(p, "i")
        BY <4>1, <4>2, <4>3, <4>4 DEF ArtifactOK
      <4>6. f \in Own(p) /\ f[2] = "i"
        BY <4>5, TempFacts
      <4> QED
        BY <1>7, <1>8, <2>2, <3>2, <4>6
    <3> QED
      BY <3>1, <3>2
  <2>13. NoneLost(p, l, m, v)
    <3>1. ASSUME NEW f \in Remaining(j, ph, m, v, ph)
          PROVE  f = m.src \/ f \in Remaining(j, l, m, v, l)
      <4>1. Pending(ph, m, v, ph) = Pending(l, m, v, l)
        BY DEF Pending
      <4> QED
        BY <1>1, <1>6, <2>7, <3>1, <4>1 DEF Remaining, Staged
    <3>2. m.pre \in Remaining(j, l, m, v, l)
      BY <1>6, <2>7 DEF Remaining
    <3>3. Absent.ino = 0
      BY DEF Absent
    <3> QED
      BY <1>1, <1>7, <2>2, <2>7, <2>8, <3>1, <3>2, <3>3 DEF NoneLost
  <2> QED
    BY <1>1, <1>2, <1>3, <2>5, <2>6, <2>7, <2>8, <2>9, <2>10, <2>11, <2>12, <2>13, MoveOnKeeps
<1>10. CASE fs' = Without(S) /\ End(p, "error")
  <2>1. Ours(p, CleanupPre(p))
    <3>1. CleanupPre(p) \subseteq Working(ph, m)
      BY <1>6 DEF CleanupPre
    <3>2. j.keep => CleanupPre(p) = {}
      BY DEF CleanupPre
    <3>3. ~j.keep => Ours(p, Working(ph, m))
      BY <1>1, WorkIsOurs
    <3> QED
      BY <3>1, <3>2, <3>3 DEF Ours
  <2>2. Removes(S) /\ Ours(p, S)
    BY <1>1, <1>5, <1>10, <2>1, RemovalIs, CleanupIsOurs, Together
  <2>3. Turns(p, "end", m, v, "error")
    BY <1>2, <1>10, TurnsTo DEF Updated, End, Go
  <2>4. ASSUME ~j.keep, NEW f \in Remaining(j, ph, m, v, ph), f \in Own(p)
        PROVE  f \in S
    <3>1. f \in Cleanup(p) \/ f = m.src \/ f = m.pre
      BY <1>1, <1>6, <2>4, Remains
    <3>2. m.pre \in CleanupPre(p)
      BY <1>4, <2>4 DEF CleanupPre
    <3> QED
      BY <1>7, <2>4, <3>1, <3>2
  <2> QED
    BY <1>1, <1>2, <1>3, <2>2, <2>3, <2>4, EndKeeps DEF Results
<1> QED
  BY <1>9, <1>10 DEF Preprocess, Input

(* A link leads from a file of the user to another one.                    *)
LEMMA LinksLead ==
    ASSUME Inv, NEW f \in UserFiles
    PROVE  Resolve(f) \in UserFiles /\ (IsLink(f) => Resolve(f) \in LinkTargets)
<1>1. CASE IsLink(f)
  <2>1. f \in DOMAIN Links /\ fs[f].data = <<"link", Links[f]>> /\ f \in Path
    BY <1>1, PathFacts DEF Inv, LinksStay
  <2>2. Resolve(f) = Links[f] /\ Links[f] \in LinkTargets
    BY <1>1, <2>1 DEF Resolve, LinkTargets
  <2> QED
    BY <2>2, DriverAssumption
<1>2. CASE ~IsLink(f)
  BY <1>2 DEF Resolve
<1> QED
  BY <1>1, <1>2

(* Running `gcc` on what was made, to assemble or to link, keeps the       *)
(* invariant: the child may write its output in part.                      *)
LEMMA RunCompilerKeeps ==
    ASSUME Inv, NEW p \in Procs, UNCHANGED <<job, me, res, kills, strangers>>,
           NEW out \in UserFiles, NEW inputs, NEW d, d[1] \in {"obj", "exe"}, NEW l,
           RunCompiler(p, out, inputs, d, l),
           \/ pc[p] = "assemble" /\ l = "assembled" /\ me[p].i <= Len(me[p].done)
           \/ pc[p] = "link" /\ l = "linked"
    PROVE  Inv' /\ Settled(p)
<1> DEFINE j == job[p]
           m == me[p]
           u == w[p]
           ph == pc[p]
<1>1. /\ Phase(ph, u) = ph /\ ph \in Active /\ ph \notin Staged /\ ph \in Finishing
      /\ ph \notin {"end", "crashed", "delivered", "compiled", "moved"}
      /\ ph \notin Fetching /\ ph \notin Preprocessing
      /\ ph = "assemble" => l = "assembled" /\ m.i <= Len(m.done)
      /\ ph = "link" => l = "linked"
      /\ ph \in {"assemble", "link"} /\ p \in Procs
  BY DEF Phase, Staged, Active, Finishing, Fetching, Preprocessing
<1>2. /\ l \in Labels /\ l \notin Staged \cup {"noted", "moved"} /\ l \in Active
      /\ l \notin Fetching \cup {"stdin", "moved"} /\ l \notin Preprocessing /\ l \in Finishing
      /\ l \in {"assembled", "linked"}
  BY DEF Labels, Active, Staged, Sourcing, Finishing, Fetching, Preprocessing
<1>3. IsJob(j) /\ IsLocals(m) /\ IsWrite(u) /\ Progress(j, ph, m)
  BY <1>1, ProcessKnows
<1>4. PICK b \in BOOLEAN : w' = [w EXCEPT ![p].ok = b]
  BY DEF RunCompiler
<1> DEFINE v == Ended(u, b)
<1>5. Turns(p, l, m, v, res[p])
  BY <1>4, TurnsTo DEF RunCompiler, Updated, Go, Ended
<1>6. IsWrite(v)
  BY <1>3, WriteEnds
<1> HIDE DEF v
<1>7. Settled(p) /\ (\A f \in Own(p) : fs'[f] = fs[f])
  <2>1. CASE UNCHANGED <<fs, inodes>>
    BY <2>1, NoWriteSettles
  <2>2. CASE fs' = [fs EXCEPT ![Resolve(out)] = [data |-> d, ino |-> inodes + 1]] /\ inodes' = inodes + 1
    <3> DEFINE t == Resolve(out)
    <3>1. t \in UserFiles
      BY LinksLead
    <3> HIDE DEF t
    <3>2. t \in Path /\ t \notin TempFiles
      BY <3>1, PathFacts
    <3>3. Changes(t, d)
      BY <2>2, <3>2 DEF Inv, TypeOK, Changes, t
    <3>4. d[1] # "link" /\ d # Foreign /\ Whole(d)
      BY DEF Foreign, Whole, Partial
    <3>5. Settled(p)
      BY <2>2, <3>1, <3>2, <3>3, <3>4, ChangeSettles
    <3>6. \A f \in Own(p) : f \in Path /\ f # t
      <4>1. Own(p) \subseteq TempFiles
        BY TempFacts
      <4>2. TempFiles \subseteq Path
        BY PathFacts
      <4> QED
        BY <3>2, <4>1, <4>2
    <3>7. \A f \in Own(p) : fs'[f] = fs[f]
      BY <3>3, <3>6 DEF Changes
    <3> QED
      BY <3>5, <3>7
  <2> QED
    BY <2>1, <2>2 DEF RunCompiler
<1> HIDE DEF j, m, u, ph
<1>8. Phase(l, v) = l /\ Writing(p, j, l, m, v, l) /\ TempOK(v, l, fs', inodes')
  BY <1>2, NotWriting
<1>9. SameWork(m, m) /\ m.i \in Nat
  BY <1>3 DEF SameWork, IsLocals
<1>10. Follows(ph, l, m.i, m.i)
  BY <1>1, <1>2, <1>9 DEF Follows, Counted
<1>11. Progress(j, l, m)
  BY <1>1, <1>2, <1>3 DEF Progress, Sourcing
<1>12. j.stage # "E"
  BY <1>1, <1>3 DEF Progress
<1>13. ReadyWhole(j, l, m, fs')
  BY <1>12 DEF ReadyWhole
<1>14. Held(j, l, m, v, l) = {}
  BY <1>2, <1>12 DEF Held, Working
<1>15. NoneLost(p, l, m, v)
  <2>1. ASSUME NEW f \in Remaining(j, ph, m, u, ph)
        PROVE  f \in Remaining(j, l, m, v, l)
    <3>1. Pending(ph, m, u, ph) \subseteq Pending(l, m, v, l)
      BY <1>1, <1>2 DEF Pending
    <3>2. f \in {m.done[n].path : n \in {k \in Pending(ph, m, u, ph) : j.stage # "ir"}}
      BY <1>1, <2>1 DEF Remaining, Working, Staged
    <3>3. f \in {m.done[n].path : n \in {k \in Pending(l, m, v, l) : j.stage # "ir"}}
      BY <3>1, <3>2
    <3> QED
      BY <1>2, <3>3 DEF Remaining
  <2> QED
    BY <1>1, <1>2, <1>7, <1>8, <2>1 DEF NoneLost, Staged, j, m, u, ph
<1> QED
  BY <1>1, <1>2, <1>3, <1>5, <1>6, <1>7, <1>8, <1>9, <1>10, <1>11, <1>13, <1>14, <1>15, MoveOnKeeps
     DEF j, m, u, ph

(* Assembling an artifact keeps the invariant.                             *)
LEMMA AssembleKeeps ==
    ASSUME Inv, NEW p \in Procs, Assemble(p)
    PROVE  Inv' /\ Settled(p)
<1> DEFINE j == job[p]
           m == me[p]
           a == m.done[m.i]
           out == IF j.out # NoPath THEN j.out ELSE WithExtension(a.src, "o")
           c == Contents(a.path)
<1>1. /\ pc[p] = "assemble" /\ m.i <= Len(m.done) /\ UNCHANGED <<job, me, res, kills, strangers>>
      /\ RunCompiler(p, out, {a.path}, <<"obj", c>>, "assembled")
  BY DEF Assemble
<1>2. IsJob(j) /\ IsLocals(m)
  BY ProcessKnows
<1>3. m.i \in DOMAIN m.done
  BY <1>1, <1>2 DEF IsLocals
<1>4. a.src \in UserFiles \cup {Stdin}
  BY <1>2, <1>3, DonePaths
<1>5. out \in UserFiles
  BY <1>2, <1>4, DriverAssumption DEF IsJob
<1> HIDE DEF out, c
<1>6. <<"obj", c>>[1] = "obj"
  OBVIOUS
<1> QED
  BY <1>1, <1>5, <1>6, RunCompilerKeeps

(* Linking the artifacts keeps the invariant.                              *)
LEMMA LinkKeeps ==
    ASSUME Inv, NEW p \in Procs, Link(p)
    PROVE  Inv' /\ Settled(p)
<1> DEFINE j == job[p]
           done == me[p].done
           out == IF j.out # NoPath THEN j.out ELSE WithExtension(j.srcs[1], "")
           c == [n \in DOMAIN done |-> Contents(done[n].path)]
           inputs == {done[n].path : n \in DOMAIN done}
<1>1. /\ pc[p] = "link" /\ UNCHANGED <<job, me, res, kills, strangers>>
      /\ RunCompiler(p, out, inputs, <<"exe", c>>, "linked")
  BY DEF Link
<1>2. IsJob(j)
  BY ProcessKnows
<1>3. j.srcs[1] \in UserFiles \cup {Stdin}
  <2>1. Len(j.srcs) \in Nat /\ Len(j.srcs) >= 1
    BY <1>2, CommandFacts
  <2>2. 1 \in 1 .. Len(j.srcs)
    BY <2>1
  <2>3. \A n \in 1 .. Len(j.srcs) : j.srcs[n] \in UserFiles \cup {Stdin}
    BY <1>2, CommandFacts
  <2> QED
    BY <2>2, <2>3
<1>4. out \in UserFiles
  BY <1>2, <1>3, DriverAssumption DEF IsJob
<1> HIDE DEF out, c, inputs
<1>5. <<"exe", c>>[1] = "exe"
  OBVIOUS
<1> QED
  BY <1>1, <1>4, <1>5, RunCompilerKeeps

(* A command that writes stands for the point that asked for it.           *)
LEMMA StagedFacts ==
    ASSUME Inv, NEW p \in Procs, pc[p] \in Staged
    PROVE  LET ph == Phase(pc[p], w[p]) IN
           /\ ph \in {"listed", "noted", "compiled", "moved", "delivered"}
           /\ ph \in Active /\ ph \notin Staged /\ ph \notin Fetching \cup Counted \cup {"stdin"}
           /\ IF w[p].then = "copied" THEN w[p].after = ph ELSE w[p].then = ph
           /\ pc[p] \notin {"end", "crashed", "delivered", "moved"}
<1>1. Writing(p, job[p], Phase(pc[p], w[p]), me[p], w[p], pc[p])
  BY ProcessKnows
<1>2. Phase(pc[p], w[p]) \in {"listed", "noted", "compiled", "moved", "delivered"}
  BY <1>1 DEF Writing
<1>3. IF w[p].then = "copied" THEN w[p].after = Phase(pc[p], w[p]) ELSE w[p].then = Phase(pc[p], w[p])
  BY DEF Phase
<1> QED
  BY <1>2, <1>3 DEF Active, Staged, Sourcing, Fetching, Preprocessing, Finishing, Counted

(* A step within a staged write or move.                                   *)
LEMMA StagedKeeps ==
    ASSUME Inv, NEW p \in Procs, Settled(p), pc[p] \in Staged, UNCHANGED <<kills, strangers>>,
           NEW l \in Labels, NEW m, NEW v, Turns(p, l, m, v, res[p]), IsLocals(m), IsWrite(v),
           SameWork(m, me[p]), m.i = me[p].i, Phase(l, v) = Phase(pc[p], w[p]),
           Writing(p, job[p], Phase(l, v), m, v, l), TempOK(v, l, fs', inodes'),
           \A f \in Path : \/ fs'[f] = fs[f] \/ f \in Staging(p) \cup UserFiles \cup {Asm(m)}
                           \/ l = "delivered" /\ v.ok,
           \A f \in Path : Whole(fs[f].data) =>
              Whole(fs'[f].data) \/ f \in Staging(p) \cup DOMAIN Links \cup LinkTargets,
           ~job[p].keep /\ ~job[p].debug => NoneLost(p, l, m, v)
    PROVE  Inv'
<1> DEFINE j == job[p]
           o == me[p]
           ph == Phase(l, v)
<1>1. /\ ph = Phase(pc[p], w[p]) /\ ph \in {"listed", "noted", "compiled", "moved", "delivered"}
      /\ ph \in Active /\ ph \notin Staged /\ ph \notin Fetching \cup Counted \cup {"stdin"}
      /\ pc[p] \notin {"end", "crashed", "delivered"}
  BY StagedFacts
<1>2. IsJob(j) /\ IsLocals(o) /\ Progress(j, ph, o) /\ Places(p, j, ph, o)
  BY <1>1, ProcessKnows
<1>3. /\ SameWork(m, o) /\ m.i = o.i /\ p \in Procs
      /\ \A f \in Path : \/ fs'[f] = fs[f] \/ f \in Staging(p) \cup UserFiles \cup {Asm(m)}
                         \/ l = "delivered" /\ v.ok
      /\ l = "delivered" => ph = "delivered"
  BY DEF Phase, Staged
<1>4. ReadyWhole(j, ph, m, fs')
  BY <1>1, ReadyStays
<1> HIDE DEF j, o, ph
<1>5. Follows(ph, ph, o.i, m.i)
  BY <1>1, <1>3 DEF Follows
<1>6. Progress(j, ph, m)
  BY <1>2, <1>3 DEF Progress, SameWork
<1>7. ASSUME NEW f \in Held(j, ph, m, v, l)
      PROVE  fs'[f] = fs[f]
  <2>1. f \in Tmp(p, "i") /\ ~(l = "delivered" /\ v.ok)
    <3>1. ~j.keep
      BY <1>7 DEF Held
    <3>2. CASE f \in Working(ph, m)
      <4>1. ph \in Preprocessing /\ f = o.pre /\ o.gen
        BY <1>1, <1>3, <3>2 DEF Working, SameWork
      <4>2. PreOK(p, j, o)
        BY <1>2, <4>1 DEF Places
      <4>3. ph # "delivered"
        BY <4>1 DEF Preprocessing
      <4> QED
        BY <1>3, <3>1, <4>1, <4>2, <4>3 DEF PreOK
    <3>3. CASE f \in {m.done[n].path : n \in {k \in Pending(ph, m, v, l) : j.stage = "E"}}
      <4>1. PICK n \in Pending(ph, m, v, l) : f = m.done[n].path /\ j.stage = "E"
        BY <3>3
      <4>2. n \in DOMAIN o.done /\ o.done[n].generated /\ f = o.done[n].path /\ ~(l = "delivered" /\ v.ok)
        BY <1>3, <4>1 DEF Pending, SameWork
      <4>3. ArtifactOK(p, j, o.done[n])
        BY <1>2, <4>2 DEF Places
      <4> QED
        BY <3>1, <4>1, <4>2, <4>3 DEF ArtifactOK
    <3> QED
      BY <1>7, <3>1, <3>2, <3>3 DEF Held
  <2>2. f \in Own(p) /\ f[2] = "i"
    BY <1>3, <2>1, TempFacts
  <2>3. f \in Path /\ f \notin UserFiles
    BY <1>3, <2>2, TempFacts, PathFacts
  <2>4. f \notin Staging(p)
    BY <1>3, <2>2, TempFacts
  <2>5. f # Asm(m)
    BY <2>2 DEF Asm, WithExtension
  <2> QED
    BY <1>3, <2>1, <2>3, <2>4, <2>5
<1> QED
  BY <1>1, <1>4, <1>5, <1>6, <1>7, MoveOnKeeps DEF j, o, ph

(* What remains after such a step, and what may be gone.                   *)
Temporary == {"fill", "publish", "drop"}
(* A file a staged write answered for stays in its account, or the write   *)
(* has ended and said so.                                                  *)
LEMMA StagedRemains ==
    ASSUME NEW j, NEW ph, NEW o, NEW u, NEW k \in Staged, NEW m, NEW v, NEW l,
           SameWork(m, o), ph \in Active, ph \notin Counted,
           NEW f \in Remaining(j, ph, o, u, k)
    PROVE  \/ f \in Remaining(j, ph, m, v, l)
           \/ f = u.temp /\ k \in Temporary /\ (l \notin Temporary \/ v.temp # u.temp)
           \/ /\ f = Asm(o) /\ ph = "compiled" /\ u.ok /\ k \notin {"open", "fill", "publish"}
              /\ ~v.ok \/ l \in {"open", "fill", "publish"}
           \/ f = Asm(o) /\ ph = "moved" /\ l = "moved" /\ v.ok
           \/ /\ l = "delivered" /\ v.ok
              /\ \E n \in DOMAIN o.done : o.done[n].generated /\ f = o.done[n].path
<1>1. Asm(m) = Asm(o) /\ Working(ph, m) = Working(ph, o) /\ m.done = o.done
  BY DEF SameWork, Asm, Working
<1>2. CASE f \in Working(ph, o)
  BY <1>1, <1>2 DEF Remaining
<1>3. CASE f \in {o.done[n].path : n \in {i \in Pending(ph, o, u, k) : j.stage # "ir"}}
  <2>1. PICK n \in Pending(ph, o, u, k) : f = o.done[n].path /\ j.stage # "ir"
    BY <1>3
  <2>2. n \in DOMAIN o.done /\ o.done[n].generated
    BY DEF Pending
  <2>3. ~(l = "delivered" /\ v.ok) => n \in Pending(ph, m, v, l)
    BY <1>1, <2>2 DEF Pending, Counted
  <2>4. n \in Pending(ph, m, v, l) => f \in Remaining(j, ph, m, v, l)
    BY <1>1, <2>1 DEF Remaining
  <2> QED
    BY <2>1, <2>2, <2>3, <2>4
<1>4. CASE f = Asm(o) /\ ph = "compiled" /\ u.ok /\ k \notin {"open", "fill", "publish"}
  BY <1>1, <1>4 DEF Remaining
<1>5. CASE f = Asm(o) /\ ph = "moved"
  BY <1>1, <1>5 DEF Remaining
<1>6. CASE f = u.temp /\ k \in Temporary
  BY <1>1, <1>6 DEF Remaining, Temporary
<1> QED
  BY <1>2, <1>3, <1>4, <1>5, <1>6 DEF Remaining, Temporary

(* A staged write or a move that returns, well or not.                     *)
LEMMA ReturnKeeps ==
    ASSUME Inv, NEW p \in Procs, Settled(p), pc[p] \in Staged, UNCHANGED <<kills, strangers>>,
           NEW v, IsWrite(v), SameWrite(v, w[p]), Turns(p, w[p].then, me[p], v, res[p]),
           Phase(pc[p], w[p]) = "compiled" /\ pc[p] \notin {"open", "fill", "publish"} /\ w[p].ok => v.ok,
           \A f \in Path : \/ fs'[f] = fs[f] \/ f \in Staging(p) \cup UserFiles \cup {Asm(me[p])}
                           \/ w[p].then = "delivered" /\ v.ok,
           \A f \in Path : Whole(fs[f].data) =>
              Whole(fs'[f].data) \/ f \in Staging(p) \cup DOMAIN Links \cup LinkTargets,
           ~job[p].keep /\ ~job[p].debug => \A f \in Own(p) :
              /\ fs'[f] = fs[f] \/ fs'[f].ino = 0
              /\ f = w[p].temp /\ pc[p] \in Temporary =>
                    fs'[f].ino = 0 \/ ~(fs'[f].ino > me[p].born) \/ fs'[f].data = Foreign
              /\ f = w[p].from /\ pc[p] = "move" /\ v.ok => fs'[f].ino = 0
    PROVE  Inv'
<1> DEFINE j == job[p]
           m == me[p]
           u == w[p]
           k == pc[p]
           ph == Phase(k, u)
           l == u.then
<1>1. /\ ph \in {"listed", "noted", "compiled", "moved", "delivered"}
      /\ ph \in Active /\ ph \notin Staged /\ ph \notin Fetching \cup Counted \cup {"stdin"}
      /\ IF l = "copied" THEN u.after = ph ELSE l = ph
      /\ k \in Staged
  BY StagedFacts
<1>2. IsJob(j) /\ IsLocals(m) /\ Progress(j, ph, m) /\ Writing(p, j, ph, m, u, k)
  BY ProcessKnows
<1>3. /\ v.area = u.area /\ v.dst = u.dst /\ v.data = u.data /\ v.from = u.from
      /\ v.temp = u.temp /\ v.ino = u.ino /\ v.then = u.then /\ v.after = u.after
  BY DEF SameWrite
<1>4. ph = "compiled" /\ k \notin {"open", "fill", "publish"} /\ u.ok => v.ok
  OBVIOUS
<1>5. ~j.keep /\ ~j.debug => \A f \in Own(p) :
         /\ fs'[f] = fs[f] \/ fs'[f].ino = 0
         /\ f = u.temp /\ k \in Temporary =>
               fs'[f].ino = 0 \/ ~(fs'[f].ino > m.born) \/ fs'[f].data = Foreign
         /\ f = u.from /\ k = "move" /\ v.ok => fs'[f].ino = 0
  OBVIOUS
<1>6. SameWork(m, m)
  BY DEF SameWork
<1> HIDE DEF j, m, u, k, ph, l
<1>7. /\ l \in Labels /\ Phase(l, v) = ph /\ l \notin Temporary
      /\ l \notin {"open", "move", "through", "writing", "drop", "fill", "publish"}
  <2>1. CASE l = "copied"
    <3>1. "copied" \in Staged /\ "copied" \in Labels
      BY DEF Staged, Labels
    <3> QED
      BY <1>1, <1>3, <2>1, <3>1 DEF Phase, l, Temporary
  <2>2. CASE l # "copied"
    BY <1>1, <2>2 DEF Phase, Labels, Temporary
  <2> QED
    BY <2>1, <2>2
<1>8. Writing(p, j, ph, m, v, l)
  <2>1. l = "moved" => k = "move"
    BY <1>1, <1>2 DEF Writing, l
  <2>2. l = "moved" => v.from = Asm(m) /\ v.dst \in UserFiles
    BY <1>1, <1>2, <1>3 DEF Writing
  <2>3. l = "noted" => v.then = "noted"
    BY <1>3 DEF l
  <2>4. l \in Staged => l = "copied" /\ v.then = "copied"
    BY <1>1, <1>3 DEF l
  <2> QED
    BY <1>1, <1>2, <1>3, <1>7, <2>2, <2>3, <2>4 DEF Writing
<1>9. TempOK(v, l, fs', inodes')
  BY <1>7 DEF TempOK
<1>10. ~j.keep /\ ~j.debug => NoneLost(p, l, m, v)
  <2> SUFFICES ASSUME ~j.keep /\ ~j.debug, NEW f \in Own(p)
               PROVE  \/ fs'[f].ino = 0 \/ ~(fs'[f].ino > m.born) \/ fs'[f].data = Foreign
                      \/ f \in Remaining(j, ph, m, v, l)
                      \/ fs'[f] = fs[f] /\ f \notin Remaining(j, ph, m, u, k)
    BY <1>7 DEF NoneLost, j, m, u, k, ph, Temporary
  <2>1. fs'[f] = fs[f] \/ fs'[f].ino = 0
    BY <1>5
  <2> SUFFICES ASSUME f \in Remaining(j, ph, m, u, k), f \notin Remaining(j, ph, m, v, l)
               PROVE  fs'[f].ino = 0 \/ ~(fs'[f].ino > m.born) \/ fs'[f].data = Foreign
    BY <2>1
  <2>2. \/ f = u.temp /\ k \in Temporary
        \/ f = Asm(m) /\ ph = "compiled" /\ u.ok /\ k \notin {"open", "fill", "publish"} /\ ~v.ok
        \/ f = Asm(m) /\ ph = "moved" /\ l = "moved" /\ v.ok
        \/ /\ l = "delivered" /\ v.ok
           /\ \E n \in DOMAIN m.done : m.done[n].generated /\ f = m.done[n].path
    BY <1>1, <1>6, <1>7, StagedRemains
  <2>3. CASE f = u.temp /\ k \in Temporary
    BY <1>5, <2>3
  <2>4. CASE f = Asm(m) /\ ph = "moved" /\ l = "moved" /\ v.ok
    <3>1. k = "move" /\ u.from = Asm(m)
      BY <1>1, <1>2, <2>4 DEF Writing, l
    <3> QED
      BY <1>5, <2>4, <3>1
  <2>5. CASE /\ l = "delivered" /\ v.ok
             /\ \E n \in DOMAIN m.done : m.done[n].generated /\ f = m.done[n].path
    <3>1. ph = "delivered" /\ u.then = "delivered"
      BY <1>1, <2>5 DEF l
    <3>2. Len(m.done) = 1
      BY <1>2, <3>1 DEF Progress, Finishing
    <3>3. DOMAIN m.done = 1 .. 1
      BY <1>2, <3>2 DEF IsLocals
    <3>4. m.done[1].generated /\ f = m.done[1].path
      BY <2>5, <3>3
    <3>5. k = "move" /\ u.from = m.done[1].path
      BY <1>1, <1>2, <3>1, <3>4 DEF Writing
    <3> QED
      BY <1>5, <2>5, <3>4, <3>5
  <2> QED
    BY <1>4, <2>2, <2>3, <2>4, <2>5
<1> QED
  BY <1>1, <1>2, <1>6, <1>7, <1>8, <1>9, <1>10, StagedKeeps DEF j, m, u, k, ph, l

(* What is copied or moved: a whole file, of the user or of the process.   *)
LEMMA FromFacts ==
    ASSUME Inv, NEW p \in Procs, pc[p] \in Staged, Phase(pc[p], w[p]) \in {"moved", "delivered"}
    PROVE  /\ w[p].from \in Path /\ w[p].from \in Own(p) \cup UserFiles
           /\ Resolve(w[p].from) = w[p].from /\ fs[w[p].from].data[1] # "link"
           /\ Whole(fs[w[p].from].data) /\ fs[w[p].from].data # Foreign
           /\ w[p].dst \in UserFiles
           /\ Phase(pc[p], w[p]) = "moved" => w[p].from = Asm(me[p])
           /\ Phase(pc[p], w[p]) = "delivered" => w[p].from = me[p].done[1].path
<1> DEFINE j == job[p]
           m == me[p]
           u == w[p]
           k == pc[p]
           ph == Phase(k, u)
           f == u.from
<1>1. /\ IsJob(j) /\ IsLocals(m) /\ Progress(j, ph, m) /\ Places(p, j, ph, m)
      /\ Writing(p, j, ph, m, u, k) /\ HeldExist(j, ph, m, u, k, fs) /\ ReadyWhole(j, ph, m, fs)
  BY ProcessKnows
<1>2. ph \in {"moved", "delivered"} /\ k \in Staged /\ k # "delivered" /\ p \in Procs
  BY DEF Staged
<1>3. Len(j.srcs) = 1 => \A g \in ToSet(j.srcs) : g \in UserFiles => Whole(fs[g].data)
  BY SourceIsWhole
<1> HIDE DEF j, m, u, k, ph, f
<1>4. /\ u.dst \in UserFiles
      /\ ph = "moved" => f = Asm(m)
      /\ ph = "delivered" => f = m.done[1].path
  BY <1>1, <1>2 DEF Writing, f
<1>5. ASSUME f \in Tmp(p, "s") \cup (Beneath(j) \cap UserFiles), f[2] = "s"
      PROVE  f \in Own(p) \cup UserFiles /\ Whole(fs[f].data) /\ fs[f].data # Foreign
  <2>1. f \in Own(p) \cup UserFiles /\ f \in Path
    BY <1>2, <1>5, TempFacts, PathFacts
  <2>2. f \notin DOMAIN Links \cup LinkTargets
    <3>1. CASE f \in Tmp(p, "s")
      <4>1. f \notin UserFiles
        BY <1>2, <3>1, TempFacts, PathFacts
      <4> QED
        BY <4>1, DriverAssumption
    <3>2. CASE f \in Beneath(j)
      BY <1>1, <3>2 DEF IsJob
    <3> QED
      BY <1>5, <3>1, <3>2
  <2>3. \A q \in Procs : f \notin KeptFiles(job[q])
    <3>1. \A q \in Procs : \A g \in KeptFiles(job[q]) : g[2] = "i"
      <4>1. \A q \in Procs : IsJob(job[q])
        BY DEF Inv, JobsOK
      <4> QED
        BY <4>1, CommandFacts
    <3> QED
      BY <1>5, <3>1
  <2>4. f \notin InPlace
    BY <2>2, <2>3 DEF InPlace
  <2>5. Whole(fs[f].data)
    BY <1>5, <2>1, <2>4 DEF Inv, HalvesInPlace
  <2>6. f \notin Intrusions
    BY <1>5, DriverAssumption
  <2> QED
    BY <2>1, <2>5, <2>6 DEF Inv, StrangersStay
<1>6. ASSUME f \in UserFiles
      PROVE  fs[f].data # Foreign
  <2>1. f \notin Intrusions
    <3>1. \A g \in UserFiles : Len(g[1]) = 1
      BY DriverAssumption
    <3>2. \A g \in Intrusions : Len(g[1]) = 3
      BY DriverAssumption
    <3> QED
      BY <1>6, <3>1, <3>2
  <2> QED
    BY <1>6, <2>1, PathFacts DEF Inv, StrangersStay
<1>7. CASE ph = "moved"
  <2>1. PreOK(p, j, m)
    BY <1>1, <1>7 DEF Places
  <2>2. f \in Tmp(p, "s") \cup (Beneath(j) \cap UserFiles) /\ f[2] = "s"
    BY <1>1, <1>2, <1>4, <1>7, <2>1, MadeFrom DEF Asm, WithExtension
  <2>3. f \notin DOMAIN Links
    <3>1. f \in Tmp(p, "s") => f \notin UserFiles
      BY <1>2, TempFacts, PathFacts
    <3> QED
      BY <1>1, <2>2, <3>1, DriverAssumption DEF IsJob
  <2> QED
    BY <1>4, <1>5, <1>7, <2>2, <2>3, PathFacts, TempFacts DEF Inv, LinksStay, IsLink, Resolve, f, ph, k, u, m
<1>8. CASE ph = "delivered"
  <2> DEFINE a == m.done[1]
  <2>1. /\ j.stage \in {"E", "S"} /\ j.out # NoPath /\ Len(j.srcs) = 1 /\ Len(m.done) = 1
    BY <1>1, <1>8 DEF Progress, Finishing
  <2>2. 1 \in DOMAIN m.done /\ m.done # <<>>
    <3> DEFINE d == m.done
    <3>1. d \in Seq(Artifacts) /\ Len(d) = 1
      BY <1>1, <2>1 DEF IsLocals, Artifacts
    <3> HIDE DEF d
    <3>2. 1 \in DOMAIN d /\ d # <<>>
      <4>1. DOMAIN d = 1 .. 1
        BY <3>1
      <4>2. 1 \in 1 .. 1 /\ Len(<<>>) = 0
        OBVIOUS
      <4>3. d # <<>>
        <5>1. Len(d) # Len(<<>>)
          BY <3>1, <4>2
        <5> QED
          BY <5>1, Zenon
      <4> QED
        BY <4>1, <4>2, <4>3
    <3> QED
      BY <3>2 DEF d
  <2>3. ArtifactOK(p, j, a) /\ f = a.path
    BY <1>1, <1>4, <1>8, <2>2 DEF Places
  <2>4. CASE ~a.generated
    <3>1. f \in UserFiles /\ f \in ToSet(j.srcs)
      BY <2>1, <2>3, <2>4 DEF ArtifactOK
    <3>2. f \in Beneath(j)
      BY <1>1, <3>1, CommandFacts
    <3>3. f \notin DOMAIN Links
      BY <1>1, <3>2 DEF IsJob
    <3>4. Whole(fs[f].data)
      BY <1>3, <2>1, <3>1
    <3> QED
      BY <1>4, <1>6, <1>8, <3>1, <3>3, <3>4, PathFacts DEF Inv, LinksStay, IsLink, Resolve, f, ph, k, u, m
  <2>5. CASE a.generated /\ j.stage = "E"
    <3>1. IF j.keep THEN f \in KeptFiles(j) ELSE f \in Tmp(p, "i")
      BY <2>3, <2>5 DEF ArtifactOK
    <3>2. Whole(fs[f].data)
      BY <1>1, <1>8, <2>1, <2>2, <2>3, <2>5 DEF ReadyWhole
    <3>3. CASE j.keep
      <4>1. f \in UserFiles /\ f \in Beneath(j)
        BY <1>1, <3>1, <3>3, CommandFacts
      <4>2. f \notin DOMAIN Links
        BY <1>1, <4>1 DEF IsJob
      <4> QED
        BY <1>4, <1>6, <1>8, <3>2, <4>1, <4>2, PathFacts DEF Inv, LinksStay, IsLink, Resolve, f, ph, k, u, m
    <3>4. CASE ~j.keep
      <4>1. f \in Own(p) /\ f \in Path /\ f \notin UserFiles
        BY <1>2, <3>1, <3>4, TempFacts, PathFacts
      <4>2. f \notin DOMAIN Links
        BY <4>1, DriverAssumption
      <4>3. 1 \in Pending(ph, m, u, k)
        BY <1>2, <1>8, <2>2, <2>5 DEF Pending
      <4>4. f \in Held(j, ph, m, u, k)
        BY <1>8, <2>3, <2>5, <3>4, <4>3 DEF Held, Active, Finishing
      <4>5. fs[f].data # Foreign
        BY <1>1, <4>4 DEF HeldExist
      <4> QED
        BY <1>4, <1>8, <3>2, <4>1, <4>2, <4>5 DEF Inv, LinksStay, IsLink, Resolve, f, ph, k, u, m
    <3> QED
      BY <3>3, <3>4
  <2>6. CASE a.generated /\ j.stage # "E"
    <3>1. f \in Tmp(p, "s") \cup (Beneath(j) \cap UserFiles) /\ f[2] = "s"
      BY <2>3, <2>6 DEF ArtifactOK
    <3>2. f \notin DOMAIN Links
      <4>1. f \in Tmp(p, "s") => f \notin UserFiles
        BY <1>2, TempFacts, PathFacts
      <4> QED
        BY <1>1, <3>1, <4>1, DriverAssumption DEF IsJob
    <3> QED
      BY <1>4, <1>5, <1>8, <3>1, <3>2, PathFacts, TempFacts DEF Inv, LinksStay, IsLink, Resolve, f, ph, k, u, m
  <2> QED
    BY <2>4, <2>5, <2>6
<1> QED
  BY <1>2, <1>7, <1>8

(* What a staged write fills its file with.                                *)
LEMMA TextFacts ==
    ASSUME Inv, NEW p \in Procs, pc[p] \in Staged
    PROVE  Whole(Text(p)) /\ Text(p)[1] # "link" /\ Text(p) # Foreign
<1> DEFINE u == w[p]
           ph == Phase(pc[p], u)
<1>1. ph \in {"listed", "noted", "compiled", "moved", "delivered"}
  BY StagedFacts
<1>2. Writing(p, job[p], ph, me[p], u, pc[p])
  BY ProcessKnows
<1>3. CASE ph \in {"moved", "delivered"}
  <2>1. /\ u.from \in Path /\ Resolve(u.from) = u.from /\ fs[u.from].data[1] # "link"
        /\ Whole(fs[u.from].data) /\ fs[u.from].data # Foreign
    BY <1>3, FromFacts
  <2>2. Text(p) = fs[u.from].data
    BY <2>1, PathFacts DEF Text, Contents
  <2> QED
    BY <2>1, <2>2
<1>4. CASE ph \in {"listed", "noted", "compiled"}
  <2>1. u.from = NoPath /\ u.data[1] \in {"dep", "asm"}
    BY <1>2, <1>4 DEF Writing
  <2>2. Text(p) = u.data
    BY <2>1 DEF Text
  <2> QED
    BY <2>1, <2>2 DEF Whole, Partial, Foreign
<1> QED
  BY <1>1, <1>3, <1>4

(* How a staged write returns.                                             *)
LEMMA Returns ==
    ASSUME Inv, NEW p \in Procs, NEW b \in BOOLEAN, Return(p, b), UNCHANGED <<me, res>>
    PROVE  \E v : /\ IsWrite(v) /\ SameWrite(v, w[p]) /\ v.ok = b
                  /\ Turns(p, w[p].then, me[p], v, res[p])
<1> DEFINE v == Ended(w[p], b)
<1>1. IsWrite(w[p])
  BY ProcessKnows
<1>2. IsWrite(v) /\ SameWrite(v, w[p]) /\ v.ok = b
  BY <1>1, WriteEnds
<1>3. Updated(w', w, p, v) /\ Updated(pc', pc, p, w[p].then)
  BY DEF Return, Go, Updated, Ended
<1> HIDE DEF v
<1>4. Turns(p, w[p].then, me[p], v, res[p])
  BY <1>3, TurnsTo DEF Updated
<1> QED
  BY <1>2, <1>4

(* A write that gives up, or that was not needed, at the point p is at.    *)
LEMMA NothingWritten ==
    ASSUME Inv, NEW p \in Procs, NEW b \in BOOLEAN, Return(p, b),
           pc[p] \in {"open", "through", "writing"},
           UNCHANGED <<fs, inodes, job, me, res, kills, strangers>>
    PROVE  Inv' /\ Settled(p)
<1>1. PICK v : /\ IsWrite(v) /\ SameWrite(v, w[p]) /\ v.ok = b
               /\ Turns(p, w[p].then, me[p], v, res[p])
  BY Returns
<1>2. Settled(p) /\ pc[p] \in Staged /\ pc[p] \notin Temporary /\ pc[p] # "move"
  BY NoWriteSettles DEF Staged, Temporary
<1>3. ASSUME Phase(pc[p], w[p]) = "compiled", pc[p] \notin {"open", "fill", "publish"}
      PROVE  FALSE
  <2>1. Writing(p, job[p], Phase(pc[p], w[p]), me[p], w[p], pc[p])
    BY ProcessKnows
  <2> QED
    BY <1>2, <1>3, <2>1 DEF Writing
<1> QED
  BY <1>1, <1>2, <1>3, ReturnKeeps

(* The temporary file of a staged write.                                   *)
Stages == {"copy", "asm"}
Blank == ""

(* The temporary of a staged write is a name of this process that no file  *)
(* has.                                                                    *)
LEMMA StagingTemp ==
    ASSUME Inv, NEW p \in Procs, NEW a \in Stages, NEW t, t = FreeTemp(p, a, Blank), t # NoPath
    PROVE  /\ t[1][3] + 1 \in Nat /\ t[2] = Blank /\ t \in Staging(p)
           /\ t \in Own(p) /\ t \in TempFiles /\ t \in Path /\ t \notin UserFiles
           /\ fs[t] = Absent /\ fs[t].data # Foreign
<1>1. <<a, Blank>> \in Areas
  BY DEF Areas, Stages, Blank
<1>2. a \in Numbered
  BY DEF Numbered, Stages
<1>3. /\ \E n \in 0 .. MaxTemp : t = <<<<a, p, n>>, Blank>>
      /\ t[1][3] + 1 \in Nat /\ t[2] = Blank
      /\ t \in Own(p) /\ t \in TempFiles /\ t \in Path /\ t \notin UserFiles
      /\ fs[t] = Absent
  BY <1>1, <1>2, FreeTempFacts
<1>4. t \in Staging(p)
  <2>1. PICK n \in 0 .. MaxTemp : t = <<<<a, p, n>>, Blank>>
    BY <1>3
  <2>2. a = "copy" \/ a = "asm"
    BY DEF Stages
  <2> QED
    BY <2>1, <2>2, Zenon DEF Staging, Blank
<1>5. Absent.data # Foreign
  BY DEF Absent, Foreign
<1>6. fs[t].data # Foreign
  BY <1>3, <1>5
<1> QED
  BY <1>3, <1>4, <1>6

(* Opening the temporary of a staged write keeps the invariant.            *)
LEMMA OpenKeeps ==
    ASSUME Inv, NEW p \in Procs, Open(p)
    PROVE  Inv' /\ Settled(p)
<1> DEFINE j == job[p]
           m == me[p]
           u == w[p]
           ph == Phase("open", u)
           d == u.dst
           a == u.area
           same == u.from # NoPath /\ SameExistingPath(u.from, d)
           t == FreeTemp(p, a, "")
<1>1. pc[p] = "open" /\ "open" \in Staged /\ UNCHANGED <<job, res, kills, strangers>> /\ p \in Procs
  BY DEF Open, Staged
<1>2. /\ ph \in {"listed", "noted", "compiled", "moved", "delivered"}
      /\ ph \in Active /\ ph \notin Staged /\ ph \notin Counted
  BY <1>1, StagedFacts
<1>3. IsLocals(m) /\ IsWrite(u) /\ Writing(p, j, ph, m, u, "open")
  BY <1>1, ProcessKnows
<1>a. SameWork(m, m)
  BY DEF SameWork
<1>4. CASE same /\ Return(p, TRUE) /\ UNCHANGED <<fs, inodes, me>>
  <2>1. TRUE \in BOOLEAN
    OBVIOUS
  <2> QED
    BY <1>1, <1>4, <2>1, NothingWritten
<1>5. CASE ~same /\ ~(a = "copy" /\ IsLink(d)) /\ Return(p, FALSE) /\ UNCHANGED <<fs, inodes, me>>
  <2>1. FALSE \in BOOLEAN
    OBVIOUS
  <2> QED
    BY <1>1, <1>5, <2>1, NothingWritten
<1>6. CASE a = "copy" /\ IsLink(d) /\ Go(p, "through") /\ UNCHANGED <<fs, inodes, me, w>>
  <2> DEFINE l == "through"
  <2>1. Settled(p) /\ Turns(p, l, m, u, res[p])
    BY <1>1, <1>6, NoWriteSettles, TurnsTo DEF Updated, Go
  <2>2. l \in Labels /\ l \in Staged /\ l \notin Temporary /\ Phase(l, u) = ph
    BY DEF Labels, Staged, Phase, Temporary
  <2>3. d \in DOMAIN Links
    <3>1. d \in UserFiles
      BY <1>3, <1>6 DEF Writing, Staged
    <3> QED
      BY <1>6, <3>1, PathFacts DEF Inv, LinksStay
  <2>4. Writing(p, j, ph, m, u, l)
    BY <1>1, <1>3, <1>6, <2>3 DEF Writing
  <2>5. TempOK(u, l, fs', inodes')
    BY DEF TempOK
  <2>6. NoneLost(p, l, m, u)
    <3>1. \A f \in Remaining(j, ph, m, u, "open") : f \in Remaining(j, ph, m, u, l)
      BY <1>1, <1>2, <1>a, StagedRemains DEF Temporary
    <3> QED
      BY <1>1, <1>6, <2>2, <3>1 DEF NoneLost
  <2> QED
    BY <1>1, <1>3, <1>6, <1>a, <2>1, <2>2, <2>4, <2>5, <2>6, StagedKeeps
<1>7. CASE /\ ~same /\ ~(a = "copy" /\ IsLink(d)) /\ t # NoPath
           /\ fs' = Create(t, <<"empty">>) /\ inodes' = inodes + 1
           /\ w' = [w EXCEPT ![p].temp = t, ![p].ino = inodes + 1]
           /\ Set(p, Numbering(m, a, t[1][3] + 1)) /\ Go(p, "fill")
  <2> DEFINE n == inodes + 1
             v == Opened(u, t, n)
             x == Numbering(m, a, t[1][3] + 1)
             l == "fill"
             e == <<"empty">>
  <2>1. Turns(p, l, x, v, res[p])
    <3>1. Updated(w', w, p, v)
      <4>1. w' = [w EXCEPT ![p] = v]
        BY <1>7 DEF Opened
      <4> QED
        BY <4>1 DEF Updated
    <3> HIDE DEF v
    <3> QED
      BY <1>1, <1>7, <3>1, TurnsTo DEF Updated, Set, Go
  <2>2. a \in {"copy", "asm"} /\ (ph = "compiled" => u.ok)
    BY <1>1, <1>2, <1>3 DEF Writing
  <2>3. /\ t[1][3] + 1 \in Nat /\ t[2] = "" /\ t \in Staging(p)
        /\ t \in Own(p) /\ t \in TempFiles /\ t \in Path /\ t \notin UserFiles
        /\ fs[t] = Absent /\ fs[t].data # Foreign
    <3>1. t = FreeTemp(p, a, Blank) /\ t # NoPath
      BY <1>7, Zenon DEF Blank
    <3>2. a \in Stages
      BY <2>2 DEF Stages
    <3> HIDE DEF t, a
    <3>3. /\ t[1][3] + 1 \in Nat /\ t[2] = Blank /\ t \in Staging(p)
          /\ t \in Own(p) /\ t \in TempFiles /\ t \in Path /\ t \notin UserFiles
          /\ fs[t] = Absent /\ fs[t].data # Foreign
      BY <3>1, <3>2, StagingTemp
    <3> QED
      BY <3>3, Zenon DEF Blank
  <2>4. t \in Staging(p)
    BY <2>3
  <2>5. e[1] = "empty" /\ e # Foreign
    BY DEF Foreign
  <2> HIDE DEF t, e
  <2>6. Changes(t, e) /\ fs[t].data # Foreign
    <3>1. fs' = Create(t, e)
      BY <1>7 DEF e
    <3>2. Changes(t, e)
      BY <2>3, <3>1, CreationChanges
    <3> QED
      BY <2>3, <3>2
  <2>7. IsLocals(x) /\ SameWork(x, m) /\ x.i = m.i
    <3>1. x = Numbering(m, a, t[1][3] + 1)
      OBVIOUS
    <3> HIDE DEF x, m, a
    <3> QED
      BY <1>3, <2>2, <2>3, <3>1, WithNumber
  <2>8. /\ IsWrite(v) /\ v.temp = t /\ v.ino = n
        /\ v.area = u.area /\ v.dst = u.dst /\ v.data = u.data /\ v.from = u.from
        /\ v.then = u.then /\ v.after = u.after /\ v.ok = u.ok
    <3>1. v = Opened(u, t, n)
      OBVIOUS
    <3> HIDE DEF v, u, n
    <3> QED
      BY <1>3, <3>1, WriteOpens
  <2>9. n \in Nat \ {0} /\ n <= inodes'
    BY <1>7 DEF Inv, TypeOK
  <2> HIDE DEF v, x, n
  <2>10. Settled(p)
    BY <1>1, <1>7, <2>3, <2>5, <2>6, ChangeSettles
  <2>11. l \in Labels /\ l \in Staged /\ l \in Temporary /\ Phase(l, v) = ph
    BY <1>1, <2>8 DEF Labels, Staged, Phase, Temporary
  <2>12. Asm(x) = Asm(m) /\ x.done = m.done
    BY <2>7 DEF SameWork, Asm
  <2>13. Writing(p, j, ph, x, v, l)
    BY <1>1, <1>3, <2>2, <2>4, <2>8, <2>9, <2>12 DEF Writing
  <2>14. fs'[t].ino = n /\ fs'[t].data = e /\ \A f \in Path : f # t => fs'[f] = fs[f]
    BY <2>6 DEF Changes, n
  <2>15. TempOK(v, l, fs', inodes')
    BY <2>5, <2>8, <2>9, <2>14 DEF TempOK
  <2>16. NoneLost(p, l, x, v)
    <3>1. \A f \in Remaining(j, ph, m, u, "open") : f \in Remaining(j, ph, x, v, l)
      BY <1>1, <1>2, <2>7, StagedRemains DEF Temporary
    <3>2. t \in Remaining(j, ph, x, v, l)
      BY <1>2, <2>8 DEF Remaining
    <3>3. Own(p) \subseteq Path
      BY TempFacts, PathFacts
    <3> QED
      BY <1>1, <2>11, <2>14, <3>1, <3>2, <3>3 DEF NoneLost
  <2> QED
    BY <1>1, <1>3, <2>1, <2>4, <2>7, <2>8, <2>10, <2>11, <2>13, <2>14, <2>15, <2>16, StagedKeeps
<1> QED
  BY <1>4, <1>5, <1>6, <1>7 DEF Open, Numbering

(* A file whose text is replaced in place.                                 *)
Refilled(t, d) ==
    /\ DOMAIN fs' = Path /\ \A f \in Path : f # t => fs'[f] = fs[f]
    /\ fs'[t] = [data |-> d, ino |-> fs[t].ino]

(* Replacing the text of a file in place.                                  *)
LEMMA Refills ==
    ASSUME Inv, NEW t \in Path, NEW d, fs' = [fs EXCEPT ![t].data = d]
    PROVE  Refilled(t, d)
<1>1. fs[t] = [data |-> fs[t].data, ino |-> fs[t].ino] /\ DOMAIN fs = Path
  BY DEF Inv, TypeOK, IsFile
<1> QED
  BY <1>1 DEF Refilled

(* The temporary file of a staged write is filled, or half of it is.       *)
LEMMA Fills ==
    ASSUME Inv, NEW p \in Procs, pc[p] = "fill", NEW d, Refilled(w[p].temp, d),
           d[1] # "link", d # Foreign, UNCHANGED <<inodes, job, kills, strangers>>,
           NEW l \in {"publish", "drop"}, l = "publish" => Whole(d),
           NEW v, IsWrite(v), SameWrite(v, w[p]), l = "publish" => v.ok = w[p].ok,
           Turns(p, l, me[p], v, res[p])
    PROVE  Inv' /\ Settled(p)
<1> DEFINE j == job[p]
           m == me[p]
           u == w[p]
           ph == Phase("fill", u)
           t == u.temp
<1>1. /\ "fill" \in Staged /\ "fill" \in Temporary /\ l \in Staged /\ l \in Temporary /\ l \in Labels
      /\ l \notin {"open", "through", "writing", "move", "copied", "moved", "noted", "delivered"}
      /\ \A k \in {"compiled", "listed", "noted", "moved", "delivered"} : l # k
  BY DEF Staged, Labels, Temporary
<1>2. /\ ph \in {"listed", "noted", "compiled", "moved", "delivered"}
      /\ ph \in Active /\ ph \notin Staged /\ ph \notin Counted
  BY <1>1, StagedFacts
<1>3. IsLocals(m) /\ IsWrite(u) /\ Writing(p, j, ph, m, u, "fill") /\ TempOK(u, "fill", fs, inodes)
  BY ProcessKnows
<1>4. t \in Staging(p) /\ u.ino \in Nat \ {0} /\ u.ino <= inodes /\ fs[t].ino = u.ino /\ fs[t].data # Foreign
  BY <1>1, <1>3 DEF Writing, TempOK
<1>5. t \in Own(p) /\ t \in TempFiles /\ t \in Path /\ t[2] = ""
  BY <1>4, TempFacts, PathFacts
<1>6. /\ DOMAIN fs' = Path /\ \A f \in Path : f # t => fs'[f] = fs[f]
      /\ fs'[t] = [data |-> d, ino |-> fs[t].ino]
  BY DEF Refilled
<1>7. inodes' \in Nat /\ inodes <= inodes' /\ fs[t].ino \in 0 .. inodes'
  <2>1. inodes \in Nat /\ fs[t].ino \in 0 .. inodes
    BY <1>5 DEF Inv, TypeOK, IsFile
  <2>2. inodes' = inodes
    OBVIOUS
  <2> QED
    BY <2>1, <2>2
<1>8. Settled(p)
  <2>1. MayWrite(p, t, fs'[t])
    <3>1. /\ fs'[t] = [data |-> fs'[t].data, ino |-> fs'[t].ino]
          /\ fs'[t].data = d /\ fs'[t].ino \in 0 .. inodes'
      BY <1>6, <1>7
    <3> QED
      BY <1>4, <1>5, <3>1 DEF MayWrite
  <2> QED
    BY <1>6, <1>7, <2>1, WritesSettle
<1>9. Phase(l, v) = ph
  BY <1>1 DEF Phase, SameWrite
<1>10. Writing(p, j, ph, m, v, l)
  BY <1>1, <1>3 DEF Writing, SameWrite
<1>11. TempOK(v, l, fs', inodes')
  BY <1>4, <1>6, <1>7 DEF TempOK, SameWrite
<1>a. SameWork(m, m)
  BY DEF SameWork
<1>12. NoneLost(p, l, m, v)
  <2> SUFFICES ASSUME NEW f \in Own(p), f \in Path
               PROVE  \/ f \in Remaining(j, ph, m, v, l) /\ (f = v.temp => fs'[f].ino = v.ino)
                      \/ fs'[f] = fs[f] /\ f \notin Remaining(j, ph, m, u, "fill")
    BY <1>9, TempFacts, PathFacts DEF NoneLost
  <2>1. CASE f = t
    BY <1>1, <1>2, <1>4, <1>6, <2>1 DEF Remaining, SameWrite, Temporary
  <2>2. CASE f # t /\ f \in Remaining(j, ph, m, u, "fill")
    <3>1. f \in Remaining(j, ph, m, v, l)
      BY <1>1, <1>2, <1>a, <2>2, StagedRemains
    <3> QED
      BY <2>2, <3>1 DEF SameWrite
  <2>3. CASE f # t /\ f \notin Remaining(j, ph, m, u, "fill")
    BY <1>6, <2>3
  <2> QED
    BY <2>1, <2>2, <2>3
<1> QED
  BY <1>1, <1>3, <1>a, <1>4, <1>6, <1>8, <1>9, <1>10, <1>11, <1>12, StagedKeeps

(* Filling the temporary keeps the invariant.                              *)
LEMMA FillKeeps ==
    ASSUME Inv, NEW p \in Procs, Fill(p)
    PROVE  Inv' /\ Settled(p)
<1>1. /\ pc[p] = "fill" /\ "fill" \in Staged /\ UNCHANGED <<inodes, job, kills, strangers>>
      /\ UNCHANGED <<me, res>>
  BY DEF Fill, Staged
<1>2. w[p].temp \in Path
  <2>1. Writing(p, job[p], Phase(pc[p], w[p]), me[p], w[p], pc[p])
    BY ProcessKnows
  <2>2. w[p].temp \in Staging(p)
    BY <1>1, <2>1 DEF Writing
  <2> QED
    BY <2>2, TempFacts, PathFacts
<1>3. IsWrite(w[p])
  BY ProcessKnows
<1>4. CASE /\ fs' = [fs EXCEPT ![w[p].temp].data = Text(p)]
           /\ Go(p, "publish") /\ UNCHANGED w
  <2>1. Turns(p, "publish", me[p], w[p], res[p])
    BY <1>1, <1>4, TurnsTo DEF Updated, Go
  <2>2. Refilled(w[p].temp, Text(p))
    BY <1>2, <1>4, Refills
  <2>3. Whole(Text(p)) /\ Text(p)[1] # "link" /\ Text(p) # Foreign
    BY <1>1, TextFacts
  <2>4. SameWrite(w[p], w[p])
    BY DEF SameWrite
  <2> QED
    BY <1>1, <1>3, <2>1, <2>2, <2>3, <2>4, Fills
<1>5. CASE /\ fs' = [fs EXCEPT ![w[p].temp].data = Partial]
           /\ Go(p, "drop") /\ w' = [w EXCEPT ![p].ok = FALSE]
  <2> DEFINE v == Ended(w[p], FALSE)
  <2>1. IsWrite(v) /\ SameWrite(v, w[p])
    BY <1>3, WriteEnds
  <2>2. Updated(w', w, p, v)
    BY <1>5 DEF Updated, Ended
  <2> HIDE DEF v
  <2>3. Turns(p, "drop", me[p], v, res[p])
    BY <1>1, <1>5, <2>2, TurnsTo DEF Updated, Go
  <2>4. Refilled(w[p].temp, Partial)
    BY <1>2, <1>5, Refills
  <2>5. Partial[1] # "link" /\ Partial # Foreign
    BY DEF Partial, Foreign
  <2> QED
    BY <1>1, <2>1, <2>3, <2>4, <2>5, Fills
<1> QED
  BY <1>4, <1>5 DEF Fill

(* Where a staged write puts its text.                                     *)
LEMMA DestinationIs ==
    ASSUME Inv, NEW p \in Procs, pc[p] \in Staged, Phase(pc[p], w[p]) # "compiled" \/ pc[p] = "publish"
    PROVE  /\ w[p].dst \in Path /\ w[p].dst \in Own(p) \cup UserFiles
           /\ Phase(pc[p], w[p]) # "compiled" => w[p].dst \in UserFiles
           /\ Phase(pc[p], w[p]) = "compiled" => w[p].dst = Asm(me[p]) /\ w[p].dst[2] = "s"
           /\ w[p].dst \in TempFiles => fs[w[p].dst].data # Foreign
<1> DEFINE ph == Phase(pc[p], w[p])
           m == me[p]
<1>1. IsJob(job[p]) /\ Places(p, job[p], ph, m) /\ Writing(p, job[p], ph, m, w[p], pc[p])
  BY ProcessKnows
<1>2. CASE ph # "compiled"
  <2>1. w[p].dst \in UserFiles
    BY <1>1, <1>2 DEF Writing
  <2> QED
    BY <1>2, <2>1, PathFacts
<1>3. CASE ph = "compiled"
  <2>1. w[p].dst = Asm(m)
    BY <1>1, <1>3 DEF Writing
  <2>2. PreOK(p, job[p], m)
    BY <1>1, <1>3 DEF Places, Preprocessing
  <2>3. Asm(m) \in Path /\ (Asm(m) \in TempFiles => Asm(m) \in Tmp(p, "s"))
    BY <1>1, <2>2, MadeFrom
  <2>4. Ours(p, {Asm(m)})
    BY <2>3, AssemblyIsOurs
  <2>5. Asm(m)[2] = "s"
    BY DEF Asm, WithExtension
  <2> QED
    BY <1>3, <2>1, <2>3, <2>4, <2>5, PathFacts DEF Ours
<1> QED
  BY <1>2, <1>3

(* What is known of the temporary file of a staged write.                  *)
LEMMA TempKnown ==
    ASSUME Inv, NEW p \in Procs, pc[p] \in Temporary
    PROVE  /\ w[p].temp \in Staging(p) /\ w[p].temp \in Own(p) /\ w[p].temp \in TempFiles
           /\ w[p].temp \in Path /\ w[p].temp[2] = "" /\ w[p].temp \notin UserFiles
           /\ w[p].ino \in Nat \ {0} /\ w[p].ino <= inodes
           /\ fs[w[p].temp].ino = w[p].ino => fs[w[p].temp].data # Foreign
           /\ pc[p] # "drop" => fs[w[p].temp].ino = w[p].ino
           /\ pc[p] = "publish" => Whole(fs[w[p].temp].data)
           /\ fs[w[p].temp].data[1] # "link"
<1> DEFINE u == w[p]
           t == u.temp
<1>1. Writing(p, job[p], Phase(pc[p], w[p]), me[p], w[p], pc[p]) /\ TempOK(w[p], pc[p], fs, inodes)
  BY ProcessKnows
<1>2. t \in Staging(p) /\ u.ino \in Nat \ {0}
  BY <1>1 DEF Writing, Temporary, Staged
<1>3. t \in Own(p) /\ t \in TempFiles /\ t \in Path /\ t[2] = "" /\ t \notin UserFiles
  BY <1>2, TempFacts, PathFacts
<1>4. fs[t].data[1] # "link"
  BY <1>3, DriverAssumption DEF Inv, LinksStay, IsLink
<1>5. /\ u.ino <= inodes /\ (fs[t].ino = u.ino => fs[t].data # Foreign)
      /\ pc[p] # "drop" => fs[t].ino = u.ino
      /\ pc[p] = "publish" => Whole(fs[t].data)
  BY <1>1 DEF TempOK, Temporary
<1> QED
  BY <1>2, <1>3, <1>4, <1>5

(* Renaming the temporary over the output keeps the invariant.             *)
LEMMA PublishKeeps ==
    ASSUME Inv, NEW p \in Procs, Publish(p)
    PROVE  Inv' /\ Settled(p)
<1> DEFINE j == job[p]
           m == me[p]
           u == w[p]
           ph == Phase("publish", u)
           t == u.temp
           d == u.dst
           l == "drop"
<1>1. /\ pc[p] = "publish" /\ "publish" \in Staged /\ "publish" \in Temporary
      /\ UNCHANGED <<inodes, job, kills, strangers>> /\ UNCHANGED <<me, res>> /\ Go(p, l)
  BY DEF Publish, Staged, Temporary
<1>2. /\ ph \in {"listed", "noted", "compiled", "moved", "delivered"}
      /\ ph \in Active /\ ph \notin Staged /\ ph \notin Counted
  BY <1>1, StagedFacts
<1>3. IsLocals(m) /\ IsWrite(u) /\ Writing(p, j, ph, m, u, "publish")
  BY <1>1, ProcessKnows
<1>4. /\ t \in Staging(p) /\ t \in Own(p) /\ t \in TempFiles /\ t \in Path /\ t[2] = "" /\ t \notin UserFiles
      /\ u.ino \in Nat \ {0} /\ u.ino <= inodes /\ fs[t].ino = u.ino /\ fs[t].data # Foreign
      /\ Whole(fs[t].data) /\ fs[t].data[1] # "link"
  BY <1>1, TempKnown
<1>5. /\ d \in Path /\ d \in Own(p) \cup UserFiles
      /\ ph # "compiled" => d \in UserFiles
      /\ ph = "compiled" => d = Asm(m) /\ d[2] = "s" /\ u.ok
      /\ d \in TempFiles => fs[d].data # Foreign
  BY <1>1, <1>3, DestinationIs DEF Writing
<1>6. d # t
  BY <1>4, <1>5
<1>a. SameWork(m, m)
  BY DEF SameWork
<1>7. l \in Labels /\ l \in Staged /\ l \in Temporary
  BY DEF Labels, Staged, Temporary
<1> HIDE DEF t, d
<1>8. CASE /\ fs' = [fs EXCEPT ![d] = fs[t], ![t] = Absent]
           /\ UNCHANGED w
  <2>1. Turns(p, l, m, u, res[p])
    BY <1>1, <1>8, TurnsTo DEF Updated, Go
  <2>2. /\ DOMAIN fs' = Path /\ fs'[d] = fs[t] /\ fs'[t] = Absent
        /\ \A f \in Path : f \notin {d, t} => fs'[f] = fs[f]
    BY <1>4, <1>5, <1>6, <1>8 DEF Inv, TypeOK
  <2>3. IsFile(fs[t]) /\ inodes' \in Nat /\ inodes <= inodes' /\ 0 \in 0 .. inodes'
    <3>1. IsFile(fs[t]) /\ inodes \in Nat
      BY <1>4 DEF Inv, TypeOK
    <3>2. inodes' = inodes
      BY <1>1
    <3> QED
      BY <3>1, <3>2
  <2>4. MayWrite(p, d, fs[t])
    BY <1>1, <1>4, <1>5, <2>3 DEF MayWrite, IsFile
  <2>5. /\ Absent = [data |-> Absent.data, ino |-> Absent.ino] /\ Absent.ino = 0
        /\ Absent.data[1] = "absent" /\ Absent.data # Foreign /\ Whole(Absent.data)
    BY DEF Absent, Foreign, Whole, Partial
  <2> HIDE DEF Absent
  <2>6. MayWrite(p, t, Absent)
    BY <1>4, <2>3, <2>5 DEF MayWrite
  <2>7. Settled(p)
    BY <1>1, <2>2, <2>3, <2>4, <2>6, WritesSettle
  <2>8. Phase(l, u) = ph /\ Writing(p, j, ph, m, u, l)
    BY <1>3, <1>4, <1>7 DEF Phase, Staged, Writing, t
  <2>9. TempOK(u, l, fs', inodes')
    BY <1>1, <1>4, <2>2, <2>5 DEF TempOK, t
  <2>10. \A f \in Path : fs'[f] = fs[f] \/ f \in Staging(p) \cup UserFiles \cup {Asm(m)}
    BY <1>4, <1>5, <2>2
  <2>11. \A f \in Path : Whole(fs[f].data) =>
              Whole(fs'[f].data) \/ f \in Staging(p) \cup DOMAIN Links \cup LinkTargets
    BY <1>4, <2>2, <2>5
  <2>12. NoneLost(p, l, m, u)
    <3> SUFFICES ASSUME NEW f \in Own(p), f \in Path, f \notin UserFiles
                 PROVE  \/ fs'[f].ino = 0
                        \/ f \in Remaining(j, ph, m, u, l) /\ f # t
                        \/ fs'[f] = fs[f] /\ f \notin Remaining(j, ph, m, u, "publish")
      BY <1>1, <2>8, TempFacts, PathFacts DEF NoneLost, t
    <3>1. CASE f = t
      BY <2>2, <2>5, <3>1
    <3>2. CASE f = d
      <4>1. ph = "compiled" /\ u.ok /\ f = Asm(m)
        BY <1>5, <3>2
      <4> QED
        BY <1>2, <1>6, <3>2, <4>1 DEF Remaining
    <3>3. CASE f \notin {d, t} /\ f \in Remaining(j, ph, m, u, "publish")
      <4>1. f \in Remaining(j, ph, m, u, l)
        BY <1>1, <1>2, <1>7, <1>a, <3>3, StagedRemains DEF t
      <4> QED
        BY <3>3, <4>1
    <3>4. CASE f \notin {d, t} /\ f \notin Remaining(j, ph, m, u, "publish")
      BY <2>2, <3>4
    <3> QED
      BY <3>1, <3>2, <3>3, <3>4
  <2> QED
    BY <1>1, <1>3, <1>7, <1>a, <2>1, <2>7, <2>8, <2>9, <2>10, <2>11, <2>12, StagedKeeps
<1>9. CASE w' = [w EXCEPT ![p].ok = FALSE] /\ UNCHANGED fs
  <2> DEFINE v == Ended(u, FALSE)
  <2>1. IsWrite(v) /\ SameWrite(v, u)
    BY <1>3, WriteEnds
  <2>2. Updated(w', w, p, v)
    BY <1>9 DEF Updated, Ended
  <2> HIDE DEF v
  <2>3. Turns(p, l, m, v, res[p])
    BY <1>1, <2>2, TurnsTo DEF Updated, Go
  <2>4. Settled(p)
    BY <1>1, <1>9, NoWriteSettles
  <2>5. Phase(l, v) = ph /\ Writing(p, j, ph, m, v, l)
    BY <1>3, <1>4, <1>7, <2>1 DEF Phase, Staged, Writing, SameWrite, t
  <2>6. TempOK(v, l, fs', inodes')
    BY <1>1, <1>4, <1>9, <2>1 DEF TempOK, SameWrite, t
  <2>7. NoneLost(p, l, m, v)
    <3> SUFFICES ASSUME NEW f \in Own(p), f \in Remaining(j, ph, m, u, "publish")
                 PROVE  f \in Remaining(j, ph, m, v, l) /\ (f = v.temp => fs[f].ino = v.ino)
      BY <1>1, <1>9, <2>5 DEF NoneLost
    <3>1. v.temp = t /\ v.ino = u.ino
      BY <2>1 DEF SameWrite, t
    <3>2. f \in Remaining(j, ph, m, v, l)
      BY <1>1, <1>2, <1>7, <1>a, <3>1, StagedRemains DEF t
    <3> QED
      BY <1>4, <3>1, <3>2
  <2> QED
    BY <1>1, <1>3, <1>7, <1>9, <1>a, <2>1, <2>3, <2>4, <2>5, <2>6, <2>7, StagedKeeps
<1> QED
  BY <1>8, <1>9 DEF Publish, t, d

(* Removing the temporary after an error keeps the invariant.              *)
LEMMA DropKeeps ==
    ASSUME Inv, NEW p \in Procs, Drop(p)
    PROVE  Inv' /\ Settled(p)
<1> DEFINE u == w[p]
           t == u.temp
<1>1. /\ pc[p] = "drop" /\ "drop" \in Staged /\ "drop" \in Temporary
      /\ UNCHANGED <<inodes, job, kills, strangers>> /\ UNCHANGED <<me, w, res>> /\ Go(p, u.then)
      /\ fs' = IF fs[t].ino = u.ino THEN Without({t}) ELSE fs
  BY DEF Drop, Staged, Temporary
<1>2. IsWrite(u) /\ LeavesOK(p, job[p], "drop", me[p], u, res[p], fs)
  BY <1>1, ProcessKnows
<1>3. /\ t \in Staging(p) /\ t \in Own(p) /\ t \in TempFiles /\ t \in Path
      /\ fs[t].ino = u.ino => fs[t].data # Foreign
  BY <1>1, TempKnown
<1>4. Turns(p, u.then, me[p], u, res[p]) /\ SameWrite(u, u)
  BY <1>1, TurnsTo DEF Updated, Go, SameWrite
<1>5. CASE fs[t].ino = u.ino
  <2>1. Removes({t}) /\ Ours(p, {t})
    BY <1>1, <1>3, <1>5, RemovalIs DEF Ours
  <2>2. Settled(p)
    BY <1>1, <2>1, RemovalSettles
  <2>3. /\ Absent.ino = 0 /\ Whole(Absent.data)
    BY DEF Absent, Whole, Partial
  <2>4. \A f \in Path : fs'[f] = fs[f] \/ (f \in Staging(p) /\ f = t /\ fs'[f] = Absent)
    BY <1>3, <2>1 DEF Removes
  <2>5. fs'[t].ino = 0
    BY <1>3, <2>1, <2>3 DEF Removes
  <2>6. \A f \in Own(p) : f \in Path
    BY TempFacts, PathFacts
  <2>7. ASSUME NEW f \in Own(p)
        PROVE  /\ fs'[f] = fs[f] \/ fs'[f].ino = 0
               /\ f = u.temp => fs'[f].ino = 0
    BY <2>4, <2>5, <2>6
  <2> QED
    BY <1>1, <1>2, <1>4, <2>2, <2>3, <2>4, <2>7, ReturnKeeps
<1>6. CASE fs[t].ino # u.ino
  <2>1. fs' = fs
    BY <1>1, <1>6
  <2>2. Settled(p)
    BY <1>1, <2>1, NoWriteSettles
  <2>3. ASSUME ~job[p].keep /\ ~job[p].debug
        PROVE  ~(fs[t].ino > me[p].born) \/ fs[t].data = Foreign
    BY <1>2, <1>3, <1>6, <2>3 DEF LeavesOK, LeftOK
  <2> QED
    BY <1>1, <1>2, <1>4, <2>1, <2>2, <2>3, ReturnKeeps
<1> QED
  BY <1>5, <1>6

(* What a link leads to is written in place.                               *)
LEMMA ThroughLink ==
    ASSUME Inv, NEW p \in Procs, pc[p] \in {"through", "writing"}
    PROVE  /\ Resolve(w[p].dst) \in DOMAIN Links \cup LinkTargets
           /\ Resolve(w[p].dst) \in UserFiles /\ Resolve(w[p].dst) \in Path
           /\ Resolve(w[p].dst) \in Shared(p) /\ Resolve(w[p].dst) \notin TempFiles
           /\ Phase(pc[p], w[p]) # "compiled"
<1> DEFINE d == w[p].dst
           r == Resolve(d)
<1>1. Writing(p, job[p], Phase(pc[p], w[p]), me[p], w[p], pc[p])
  BY ProcessKnows
<1>2. d \in DOMAIN Links /\ w[p].area = "copy"
  BY <1>1 DEF Writing, Staged
<1>3. Phase(pc[p], w[p]) # "compiled"
  BY <1>1, <1>2 DEF Writing, Staged
<1>4. d \in UserFiles
  BY <1>2, DriverAssumption
<1>5. r = d \/ IsLink(d)
  BY DEF Resolve
<1>6. r \in UserFiles /\ (IsLink(d) => r \in LinkTargets)
  BY <1>4, LinksLead
<1> HIDE DEF r, d
<1>7. r \in DOMAIN Links \cup LinkTargets
  BY <1>2, <1>5, <1>6
<1> QED
  BY <1>3, <1>6, <1>7, PathFacts DEF Shared, r, d

(* Opening the target of a link keeps the invariant.                       *)
LEMMA WriteThroughKeeps ==
    ASSUME Inv, NEW p \in Procs, WriteThrough(p)
    PROVE  Inv' /\ Settled(p)
<1> DEFINE j == job[p]
           m == me[p]
           u == w[p]
           ph == Phase("through", u)
           t == Resolve(u.dst)
           l == "writing"
<1>1. /\ pc[p] = "through" /\ "through" \in Staged /\ "through" \notin Temporary
      /\ UNCHANGED <<job, me, res, kills, strangers>>
  BY DEF WriteThrough, Staged, Temporary
<1>2. /\ ph \in {"listed", "noted", "compiled", "moved", "delivered"}
      /\ ph \in Active /\ ph \notin Staged /\ ph \notin Counted
  BY <1>1, StagedFacts
<1>3. IsLocals(m) /\ IsWrite(u) /\ Writing(p, j, ph, m, u, "through")
  BY <1>1, ProcessKnows
<1>4. /\ t \in DOMAIN Links \cup LinkTargets /\ t \in UserFiles /\ t \in Path
      /\ t \in Shared(p) /\ t \notin TempFiles /\ ph # "compiled"
  BY <1>1, ThroughLink
<1>a. SameWork(m, m)
  BY DEF SameWork
<1> HIDE DEF t
<1>5. CASE /\ fs' = [fs EXCEPT ![t] = [data |-> Partial, ino |-> inodes + 1]]
           /\ inodes' = inodes + 1 /\ Go(p, "writing") /\ UNCHANGED w
  <2>1. Turns(p, l, m, u, res[p])
    BY <1>1, <1>5, TurnsTo DEF Updated, Go
  <2>2. Changes(t, Partial)
    <3>1. DOMAIN fs = Path
      BY DEF Inv, TypeOK
    <3> QED
      BY <1>4, <1>5, <3>1 DEF Changes
  <2>3. Partial[1] # "link" /\ Partial # Foreign
    BY DEF Partial, Foreign
  <2>4. Settled(p)
    BY <1>1, <1>4, <1>5, <2>2, <2>3, ChangeSettles
  <2>5. l \in Labels /\ l \in Staged /\ l \notin Temporary /\ Phase(l, u) = ph
    BY DEF Labels, Staged, Phase, Temporary
  <2>6. Writing(p, j, ph, m, u, l)
    BY <1>3, <2>5 DEF Writing, Staged
  <2>7. TempOK(u, l, fs', inodes')
    BY DEF TempOK
  <2>8. \A f \in Path : fs'[f] = fs[f] \/ f = t
    BY <2>2 DEF Changes
  <2>9. NoneLost(p, l, m, u)
    <3> SUFFICES ASSUME NEW f \in Own(p), f \in Path, f \notin UserFiles
                 PROVE  /\ fs'[f] = fs[f]
                        /\ f \in Remaining(j, ph, m, u, "through") => f \in Remaining(j, ph, m, u, l)
      BY <1>1, <2>5, TempFacts, PathFacts DEF NoneLost
    <3>1. f \in Remaining(j, ph, m, u, "through") => f \in Remaining(j, ph, m, u, l)
      BY <1>1, <1>2, <1>4, <1>a, StagedRemains
    <3> QED
      BY <1>4, <2>8, <3>1
  <2> QED
    BY <1>1, <1>3, <1>4, <1>a, <2>1, <2>4, <2>5, <2>6, <2>7, <2>8, <2>9, StagedKeeps
<1>6. CASE Return(p, FALSE) /\ UNCHANGED <<fs, inodes>>
  <2>1. FALSE \in BOOLEAN
    OBVIOUS
  <2> QED
    BY <1>1, <1>6, <2>1, NothingWritten
<1> QED
  BY <1>5, <1>6 DEF WriteThrough, t

(* A write through a link that ends keeps the invariant.                   *)
LEMMA ThroughWritten ==
    ASSUME Inv, NEW p \in Procs, NEW b \in BOOLEAN, Return(p, b), pc[p] = "writing",
           Refilled(Resolve(w[p].dst), Text(p)),
           UNCHANGED <<inodes, job, me, res, kills, strangers>>
    PROVE  Inv' /\ Settled(p)
<1> DEFINE t == Resolve(w[p].dst)
<1>1. PICK v : /\ IsWrite(v) /\ SameWrite(v, w[p]) /\ v.ok = b
               /\ Turns(p, w[p].then, me[p], v, res[p])
  BY Returns
<1>2. pc[p] \in Staged /\ pc[p] \notin Temporary /\ pc[p] # "move"
  BY DEF Staged, Temporary
<1>3. /\ t \in DOMAIN Links \cup LinkTargets /\ t \in UserFiles /\ t \in Path
      /\ t \in Shared(p) /\ t \notin TempFiles /\ Phase(pc[p], w[p]) # "compiled"
  BY ThroughLink
<1> HIDE DEF t
<1>4. /\ DOMAIN fs' = Path /\ \A f \in Path : f # t => fs'[f] = fs[f]
      /\ fs'[t] = [data |-> Text(p), ino |-> fs[t].ino]
  BY DEF Refilled, t
<1>5. Text(p)[1] # "link" /\ Text(p) # Foreign
  BY <1>2, TextFacts
<1>6. inodes' \in Nat /\ inodes <= inodes' /\ fs[t].ino \in 0 .. inodes'
  BY <1>3 DEF Inv, TypeOK, IsFile
<1>7. MayWrite(p, t, fs'[t])
  BY <1>3, <1>4, <1>5, <1>6 DEF MayWrite
<1>8. Settled(p)
  BY <1>4, <1>6, <1>7, WritesSettle
<1>9. \A f \in Own(p) : fs'[f] = fs[f]
  <2>1. \A f \in Own(p) : f \in Path /\ f \notin UserFiles
    BY TempFacts, PathFacts
  <2> QED
    BY <1>3, <1>4, <2>1
<1> QED
  BY <1>1, <1>2, <1>3, <1>4, <1>8, <1>9, ReturnKeeps

(* Writing the target of a link keeps the invariant.                       *)
LEMMA WrittenThroughKeeps ==
    ASSUME Inv, NEW p \in Procs, WrittenThrough(p)
    PROVE  Inv' /\ Settled(p)
<1>1. pc[p] = "writing" /\ UNCHANGED <<inodes, job, me, res, kills, strangers>>
  BY DEF WrittenThrough
<1>2. FALSE \in BOOLEAN /\ TRUE \in BOOLEAN
  OBVIOUS
<1>3. CASE fs' = [fs EXCEPT ![Resolve(w[p].dst)].data = Text(p)] /\ Return(p, TRUE)
  <2>1. Resolve(w[p].dst) \in Path
    BY <1>1, ThroughLink
  <2>2. Refilled(Resolve(w[p].dst), Text(p))
    BY <1>3, <2>1, Refills
  <2> QED
    BY <1>1, <1>2, <1>3, <2>2, ThroughWritten
<1>4. CASE Return(p, FALSE) /\ UNCHANGED fs
  BY <1>1, <1>2, <1>4, NothingWritten
<1> QED
  BY <1>3, <1>4 DEF WrittenThrough

(* A file of the process is never the one it moves to.                     *)
LEMMA NotOntoItself ==
    ASSUME Inv, NEW p \in Procs, pc[p] \in Staged, Phase(pc[p], w[p]) \in {"moved", "delivered"},
           SameExistingPath(w[p].from, w[p].dst)
    PROVE  w[p].from \notin Own(p)
<1>1. /\ w[p].from \in Path /\ Resolve(w[p].from) = w[p].from /\ w[p].dst \in UserFiles
  BY FromFacts
<1>2. Resolve(w[p].dst) \in UserFiles
  BY <1>1, LinksLead
<1>3. w[p].from \in UserFiles
  BY <1>1, <1>2 DEF SameExistingPath
<1> QED
  BY <1>3, TempFacts, PathFacts

(* The move that was not needed, and the one that is a renaming.           *)
LEMMA MoveEnds ==
    ASSUME Inv, NEW p \in Procs, NEW b \in BOOLEAN, b, Return(p, b), pc[p] = "move",
           UNCHANGED <<inodes, job, me, res, kills, strangers>>,
           \/ SameExistingPath(w[p].from, w[p].dst) /\ UNCHANGED fs
           \/ /\ ~SameExistingPath(w[p].from, w[p].dst)
              /\ fs' = [fs EXCEPT ![w[p].dst] = fs[w[p].from], ![w[p].from] = Absent]
    PROVE  Inv' /\ Settled(p)
<1> DEFINE u == w[p]
           ph == Phase("move", u)
           s == u.from
           d == u.dst
<1>1. pc[p] \in Staged /\ pc[p] \notin Temporary
  BY DEF Staged, Temporary
<1>2. PICK v : /\ IsWrite(v) /\ SameWrite(v, u) /\ v.ok = b
               /\ Turns(p, u.then, me[p], v, res[p])
  BY Returns
<1>3. v.ok
  BY <1>2
<1>4. Writing(p, job[p], ph, me[p], u, "move")
  BY ProcessKnows
<1>5. ph \in {"moved", "delivered"} /\ u.then = ph
  BY <1>4 DEF Writing, Staged, Phase
<1>6. /\ s \in Path /\ s \in Own(p) \cup UserFiles
      /\ fs[s].data[1] # "link" /\ Whole(fs[s].data) /\ fs[s].data # Foreign
      /\ d \in UserFiles /\ (ph = "moved" => s = Asm(me[p]))
  BY <1>1, <1>5, FromFacts
<1>7. \A f \in Own(p) : f \in Path /\ f \notin UserFiles
  BY TempFacts, PathFacts
<1>8. CASE SameExistingPath(s, d) /\ UNCHANGED fs
  <2>1. s \notin Own(p)
    BY <1>1, <1>5, <1>8, NotOntoItself
  <2>2. Settled(p)
    BY <1>8, NoWriteSettles
  <2> QED
    BY <1>1, <1>2, <1>5, <1>8, <2>1, <2>2, ReturnKeeps
<1>9. CASE /\ ~SameExistingPath(s, d)
           /\ fs' = [fs EXCEPT ![d] = fs[s], ![s] = Absent]
  <2>1. s # d
    BY <1>9 DEF SameExistingPath
  <2> HIDE DEF s, d
  <2>2. /\ DOMAIN fs' = Path /\ fs'[d] = fs[s] /\ fs'[s] = Absent
        /\ \A f \in Path : f \notin {d, s} => fs'[f] = fs[f]
    BY <1>6, <1>9, <2>1, PathFacts DEF Inv, TypeOK
  <2>3. IsFile(fs[s]) /\ inodes' \in Nat /\ inodes <= inodes' /\ 0 \in 0 .. inodes'
    BY <1>6 DEF Inv, TypeOK
  <2>4. MayWrite(p, d, fs[s])
    BY <1>6, <2>3, PathFacts DEF MayWrite, IsFile
  <2>5. /\ Absent = [data |-> Absent.data, ino |-> Absent.ino] /\ Absent.ino = 0
        /\ Absent.data[1] = "absent" /\ Absent.data # Foreign /\ Whole(Absent.data)
    BY DEF Absent, Foreign, Whole, Partial
  <2> HIDE DEF Absent
  <2>6. MayWrite(p, s, Absent)
    BY <1>6, <2>3, <2>5 DEF MayWrite
  <2>7. Settled(p)
    BY <2>2, <2>3, <2>4, <2>6, WritesSettle
  <2>8. \A f \in Path : fs'[f] = fs[f] \/ f \in UserFiles \cup {Asm(me[p])} \/ u.then = "delivered"
    BY <1>5, <1>6, <2>2
  <2>9. \A f \in Path : Whole(fs[f].data) => Whole(fs'[f].data)
    BY <1>6, <2>2, <2>5
  <2>10. ASSUME NEW f \in Own(p)
         PROVE  /\ fs'[f] = fs[f] \/ fs'[f].ino = 0
                /\ f = u.from => fs'[f].ino = 0
    BY <1>6, <1>7, <2>2, <2>5 DEF s
  <2> QED
    BY <1>1, <1>2, <1>3, <1>5, <2>7, <2>8, <2>9, <2>10, ReturnKeeps
<1> QED
  BY <1>8, <1>9

(* Renaming an output keeps the invariant.                                 *)
LEMMA MoveKeeps ==
    ASSUME Inv, NEW p \in Procs, Move(p)
    PROVE  Inv' /\ Settled(p)
<1> DEFINE j == job[p]
           m == me[p]
           u == w[p]
           ph == Phase("move", u)
           l == "open"
<1>1. /\ pc[p] = "move" /\ "move" \in Staged /\ "move" \notin Temporary
      /\ UNCHANGED <<inodes, job, me, res, kills, strangers>>
  BY DEF Move, Staged, Temporary
<1>2. TRUE \in BOOLEAN /\ TRUE
  OBVIOUS
<1>3. CASE SameExistingPath(u.from, u.dst) /\ Return(p, TRUE) /\ UNCHANGED fs
  BY <1>1, <1>2, <1>3, MoveEnds
<1>4. CASE /\ ~SameExistingPath(u.from, u.dst)
           /\ fs' = [fs EXCEPT ![u.dst] = fs[u.from], ![u.from] = Absent]
           /\ Return(p, TRUE)
  BY <1>1, <1>2, <1>4, MoveEnds
<1>5. CASE /\ w' = [w EXCEPT ![p].then = "copied", ![p].after = w[p].then]
           /\ Go(p, "open") /\ UNCHANGED fs
  <2> DEFINE v == Copying(u, "copied", u.then)
  <2>1. IsLocals(m) /\ IsWrite(u) /\ Writing(p, j, ph, m, u, "move")
    BY <1>1, ProcessKnows
  <2>2. /\ ph \in {"moved", "delivered"} /\ u.then = ph /\ u.then # "copied"
        /\ ph \in Active /\ ph \notin Staged /\ ph \notin Counted
    <3>1. ph \in {"moved", "delivered"} /\ u.then = ph /\ u.then # "copied"
      BY <1>1, <2>1 DEF Writing, Staged, Phase
    <3> QED
      BY <1>1, <3>1, StagedFacts
  <2>3. Updated(w', w, p, v)
    BY <1>5 DEF Updated, Copying
  <2>4. /\ IsWrite(v) /\ v.then = "copied" /\ v.after = u.then
        /\ v.area = u.area /\ v.dst = u.dst /\ v.data = u.data /\ v.from = u.from
        /\ v.temp = u.temp /\ v.ino = u.ino /\ v.ok = u.ok
    BY <2>1, MoveCopies
  <2> HIDE DEF v
  <2>5. Turns(p, l, m, v, res[p])
    BY <1>1, <1>5, <2>3, TurnsTo DEF Updated, Go
  <2>6. Settled(p)
    BY <1>1, <1>5, NoWriteSettles
  <2>7. l \in Labels /\ l \in Staged /\ l \notin Temporary
    BY DEF Labels, Staged, Temporary
  <2>8. Phase(l, v) = ph
    BY <2>2, <2>4, <2>7 DEF Phase
  <2>9. Writing(p, j, ph, m, v, l)
    BY <1>1, <2>1, <2>2, <2>4 DEF Writing
  <2>10. TempOK(v, l, fs', inodes')
    BY DEF TempOK
  <2>11. SameWork(m, m)
    BY DEF SameWork
  <2>12. NoneLost(p, l, m, v)
    <3>1. \A f \in Remaining(j, ph, m, u, "move") : f \in Remaining(j, ph, m, v, l)
      BY <1>1, <2>2, <2>11, StagedRemains
    <3> QED
      BY <1>1, <1>5, <2>8, <3>1 DEF NoneLost
  <2> QED
    BY <1>1, <1>5, <2>1, <2>4, <2>5, <2>6, <2>7, <2>8, <2>9, <2>10, <2>11, <2>12, StagedKeeps
<1> QED
  BY <1>3, <1>4, <1>5 DEF Move

(* Removing what was copied keeps the invariant.                           *)
LEMMA CopiedKeeps ==
    ASSUME Inv, NEW p \in Procs, Copied(p)
    PROVE  Inv' /\ Settled(p)
<1> DEFINE j == job[p]
           m == me[p]
           u == w[p]
           ph == Phase("copied", u)
           l == u.after
           s == u.from
<1>1. /\ pc[p] = "copied" /\ "copied" \in Staged /\ "copied" \notin Temporary
      /\ UNCHANGED <<inodes, job, me, res, kills, strangers>> /\ Go(p, l)
  BY DEF Copied, Staged, Temporary
<1>2. IsLocals(m) /\ IsWrite(u) /\ Writing(p, j, ph, m, u, "copied") /\ Progress(j, ph, m)
  BY <1>1, ProcessKnows
<1>3. /\ ph \in {"moved", "delivered"} /\ l = ph /\ u.then = "copied"
      /\ ph \in Active /\ ph \notin Staged /\ ph \notin Counted
  <2>1. ph \in {"moved", "delivered"} /\ l = ph /\ u.then = "copied"
    BY <1>1, <1>2 DEF Writing, Staged, Phase
  <2> QED
    BY <1>1, <2>1, StagedFacts
<1>4. /\ s \in Path /\ s \in Own(p) \cup UserFiles /\ fs[s].data # Foreign
      /\ ph = "moved" => s = Asm(m)
      /\ ph = "delivered" => s = m.done[1].path
      /\ u.dst \in UserFiles
  BY <1>1, <1>3, FromFacts
<1>5. l \in Labels /\ l \notin Staged /\ l \notin Temporary
  BY <1>3 DEF Labels, Active, Sourcing, Finishing, Temporary
<1>6. SameWork(m, m)
  BY DEF SameWork
<1>7. ASSUME NEW v, SameWrite(v, u)
      PROVE  Phase(l, v) = ph /\ Writing(p, j, ph, m, v, l) /\ TempOK(v, l, fs', inodes')
  <2>1. v.from = u.from /\ v.dst = u.dst
    BY <1>7 DEF SameWrite
  <2> QED
    BY <1>3, <1>4, <1>5, <2>1 DEF Phase, Writing, TempOK, Temporary
<1>8. CASE u.ok /\ fs' = Without({s}) /\ UNCHANGED w
  <2>1. Removes({s}) /\ Ours(p, {s})
    BY <1>4, <1>8, PathFacts, RemovalIs DEF Ours
  <2>2. Settled(p)
    BY <1>1, <2>1, RemovalSettles
  <2>3. Turns(p, l, m, u, res[p]) /\ SameWrite(u, u)
    BY <1>1, <1>8, TurnsTo DEF Updated, Go, SameWrite
  <2>4. Absent.ino = 0
    BY DEF Absent
  <2>5. \A f \in Path : fs'[f] = fs[f] \/ f = s
    BY <2>1 DEF Removes
  <2>6. \A f \in Path : Whole(fs[f].data) => Whole(fs'[f].data)
    BY <2>1, RemovalKeepsWhole
  <2>7. NoneLost(p, l, m, u)
    <3> SUFFICES ASSUME NEW f \in Own(p), f \in Path
                 PROVE  \/ fs'[f].ino = 0
                        \/ fs'[f] = fs[f] /\ f \notin Remaining(j, ph, m, u, "copied")
                        \/ f \in Remaining(j, ph, m, u, l)
      BY <1>1, <1>5, <1>7, <2>3, TempFacts, PathFacts DEF NoneLost, Temporary
    <3>1. CASE f = s
      BY <2>1, <2>4, <3>1 DEF Removes
    <3>2. CASE f # s /\ f \in Remaining(j, ph, m, u, "copied")
      <4> SUFFICES ASSUME f \notin Remaining(j, ph, m, u, l)
                   PROVE  FALSE
        OBVIOUS
      <4>1. \/ f = Asm(m) /\ ph = "moved"
            \/ /\ l = "delivered"
               /\ \E n \in DOMAIN m.done : m.done[n].generated /\ f = m.done[n].path
        BY <1>1, <1>3, <1>5, <1>6, <3>2, StagedRemains
      <4>2. CASE f = Asm(m) /\ ph = "moved"
        BY <1>4, <3>2, <4>2
      <4>3. CASE /\ l = "delivered"
                 /\ \E n \in DOMAIN m.done : m.done[n].generated /\ f = m.done[n].path
        <5>1. Len(m.done) = 1
          BY <1>2, <1>3, <4>3 DEF Progress, Finishing
        <5>2. DOMAIN m.done = 1 .. 1
          BY <1>2, <5>1 DEF IsLocals
        <5> QED
          BY <1>3, <1>4, <3>2, <4>3, <5>2
      <4> QED
        BY <4>1, <4>2, <4>3
    <3>3. CASE f # s /\ f \notin Remaining(j, ph, m, u, "copied")
      BY <2>5, <3>3
    <3> QED
      BY <3>1, <3>2, <3>3
  <2>8. \A f \in Path : fs'[f] = fs[f] \/ f = Asm(m) \/ (l = "delivered" /\ u.ok)
    BY <1>3, <1>4, <1>8, <2>5
  <2> QED
    BY <1>1, <1>2, <1>3, <1>5, <1>6, <1>7, <2>2, <2>3, <2>6, <2>7, <2>8, StagedKeeps
<1>9. CASE w' = [w EXCEPT ![p].ok = FALSE] /\ UNCHANGED fs
  <2> DEFINE v == Ended(u, FALSE)
  <2>1. IsWrite(v) /\ SameWrite(v, u) /\ ~v.ok
    BY <1>2, WriteEnds
  <2>2. Updated(w', w, p, v)
    BY <1>9 DEF Updated, Ended
  <2> HIDE DEF v
  <2>3. Turns(p, l, m, v, res[p])
    BY <1>1, <2>2, TurnsTo DEF Updated, Go
  <2>4. Settled(p)
    BY <1>1, <1>9, NoWriteSettles
  <2>5. Phase(l, v) = ph /\ Writing(p, j, ph, m, v, l) /\ TempOK(v, l, fs', inodes')
    BY <1>7, <2>1
  <2>6. NoneLost(p, l, m, v)
    <3>1. \A f \in Remaining(j, ph, m, u, "copied") : f \in Remaining(j, ph, m, v, l)
      BY <1>1, <1>3, <1>6, <2>1, StagedRemains
    <3> QED
      BY <1>1, <1>5, <1>9, <2>5, <3>1 DEF NoneLost, Temporary
  <2> QED
    BY <1>1, <1>2, <1>5, <1>6, <1>9, <2>1, <2>3, <2>4, <2>5, <2>6, StagedKeeps
<1> QED
  BY <1>8, <1>9 DEF Copied

(* A command that is killed gives up what it counted on.                   *)
LEMMA CrashKeeps ==
    ASSUME Inv, NEW p \in Procs, Crash(p)
    PROVE  Inv' /\ Settled(p)
<1> DEFINE j == job[p]
           m == me[p]
           v == w[p]
           l == "crashed"
<1>1. /\ UNCHANGED <<fs, inodes, job, me, w, strangers>> /\ kills' \in Nat /\ strangers' \in Nat
      /\ Go(p, l) /\ res' = [res EXCEPT ![p] = "crashed"]
  BY DEF Crash, Inv, TypeOK
<1>2. Turns(p, l, m, v, "crashed")
  BY <1>1, TurnsTo DEF Updated, Go
<1>3. Settled(p)
  BY <1>1, NoWriteSettles
<1>4. /\ IsLocals(m) /\ IsWrite(v) /\ \A n \in DOMAIN m.done : ArtifactOK(p, j, m.done[n])
  <2>1. IsLocals(m) /\ IsWrite(v) /\ Places(p, j, Phase(pc[p], v), m)
    BY ProcessKnows
  <2> QED
    BY <2>1 DEF Places
<1>5. /\ l \in Labels /\ l \notin Staged /\ l \notin Active /\ l \notin Preprocessing
      /\ l \notin Sourcing /\ l \notin Fetching /\ l \notin Finishing
      /\ "crashed" \in Results /\ Phase(l, v) = l
  BY DEF Labels, Staged, Active, Preprocessing, Sourcing, Fetching, Finishing, Results, Phase
<1>6. LocalOK(p, j, l, m, v, l, fs', inodes')
  <2>1. Progress(j, l, m)
    BY <1>5 DEF Progress
  <2>2. Places(p, j, l, m)
    BY <1>4, <1>5 DEF Places
  <2>3. Writing(p, j, l, m, v, l)
    BY <1>5 DEF Writing
  <2>4. HeldExist(j, l, m, v, l, fs')
    BY <1>5 DEF HeldExist, Held
  <2>5. Distinct(j, l, m)
    BY <1>5 DEF Distinct
  <2>6. TempOK(v, l, fs', inodes') /\ ReadyWhole(j, l, m, fs')
    BY DEF TempOK, ReadyWhole
  <2> QED
    BY <2>1, <2>2, <2>3, <2>4, <2>5, <2>6 DEF LocalOK
<1>7. LeavesOK(p, j, l, m, v, "crashed", fs')
  BY DEF LeavesOK, LeftOK
<1> QED
  BY <1>1, <1>2, <1>3, <1>4, <1>5, <1>6, <1>7, StepKeeps

(* One that is run again takes no file for its own that is there already.  *)
Fresh(n) ==
    [born |-> n, i |-> 1, src |-> NoPath, pre |-> NoPath, gen |-> FALSE, done |-> <<>>,
     next |-> [tmp |-> 0, copy |-> 0, asm |-> 0]]

(* The locals of a process that starts again.                              *)
LEMMA Reborn ==
    ASSUME NEW n, NEW m, m = [Idle EXCEPT !.born = n]
    PROVE  m = Fresh(n)
BY DEF Idle, Fresh

(* Fresh locals are locals.                                                *)
LEMMA IdleFacts ==
    ASSUME NEW n \in Nat, NEW m, m = Fresh(n)
    PROVE  IsLocals(m) /\ m.born = n /\ m.i = 1 /\ m.done = <<>>
<1>1. m = [born |-> n, i |-> 1, src |-> NoPath, pre |-> NoPath, gen |-> FALSE, done |-> <<>>,
           next |-> [tmp |-> 0, copy |-> 0, asm |-> 0]]
  BY DEF Fresh
<1>2. m.born = n /\ m.i = 1 /\ m.done = <<>> /\ m.gen \in BOOLEAN /\ LocalsShape(m)
  <2> DEFINE x == [tmp |-> 0, copy |-> 0, asm |-> 0]
  <2>1. m = [born |-> n, i |-> 1, src |-> NoPath, pre |-> NoPath, gen |-> FALSE, done |-> <<>>,
             next |-> x]
    BY <1>1
  <2> HIDE DEF x
  <2>2. m.born = n /\ m.i = 1 /\ m.done = <<>> /\ m.gen = FALSE
    BY <2>1
  <2>3. LocalsShape(m)
    BY <2>1, Zenon DEF LocalsShape
  <2>4. m.gen \in BOOLEAN
    BY <2>2, Zenon
  <2> QED
    BY <2>2, <2>3, <2>4
<1>3. m.next \in [{"tmp", "copy", "asm"} -> Nat]
  <2>1. m.next = [tmp |-> 0, copy |-> 0, asm |-> 0]
    BY <1>1
  <2> QED
    BY <2>1
<1>4. m.done \in Seq([src : UserFiles \cup {Stdin}, path : Path, generated : BOOLEAN])
  <2>1. \A S : <<>> \in Seq(S)
    OBVIOUS
  <2> QED
    BY <1>2, <2>1, Zenon
<1> QED
  BY <1>2, <1>3, <1>4 DEF IsLocals

(* A process that has only started owns nothing yet.                       *)
LEMMA StartsAfresh ==
    ASSUME NEW p \in Procs, NEW j, NEW m, m.i = 1, m.done = <<>>, NEW v, NEW F, NEW n,
           m.born \in Nat, \A f \in Own(p) : F[f].ino \in 0 .. m.born
    PROVE  /\ LocalOK(p, j, "start", m, v, "start", F, n) /\ Phase("start", v) = "start"
           /\ "start" \in Labels /\ \A r : LeavesOK(p, j, "start", m, v, r, F)
<1> DEFINE l == "start"
<1>1. /\ l \in Labels /\ l \notin Staged /\ l \notin Active /\ l \notin Preprocessing
      /\ l \notin Sourcing /\ l \notin Fetching /\ l \notin Finishing
      /\ l \notin {"take", "dependencies", "noted", "compile", "delivered", "fill", "publish", "drop"}
      /\ Phase(l, v) = l
  BY DEF Labels, Staged, Active, Preprocessing, Sourcing, Fetching, Finishing, Phase
<1>2. DOMAIN m.done = {}
  BY DEF Seq
<1>3. Progress(j, l, m)
  BY <1>1 DEF Progress
<1>4. Places(p, j, l, m)
  BY <1>1, <1>2 DEF Places
<1>5. Writing(p, j, l, m, v, l)
  BY <1>1 DEF Writing
<1>6. HeldExist(j, l, m, v, l, F)
  BY <1>1 DEF HeldExist, Held
<1>7. Distinct(j, l, m)
  BY <1>1 DEF Distinct
<1>8. TempOK(v, l, F, n) /\ ReadyWhole(j, l, m, F)
  BY DEF TempOK, ReadyWhole
<1>9. \A r : LeavesOK(p, j, l, m, v, r, F)
  BY DEF LeavesOK, LeftOK
<1> QED
  BY <1>1, <1>3, <1>4, <1>5, <1>6, <1>7, <1>8, <1>9 DEF LocalOK

(* A restart keeps the invariant.                                          *)
LEMMA RestartKeeps ==
    ASSUME Inv, NEW p \in Procs, Restart(p)
    PROVE  Inv' /\ Settled(p)
<1> DEFINE m == [Idle EXCEPT !.born = inodes]
           l == "start"
<1>1. /\ UNCHANGED <<fs, inodes, job, kills, strangers>> /\ kills' \in Nat /\ strangers' \in Nat
      /\ Go(p, l) /\ res' = [res EXCEPT ![p] = "running"] /\ inodes \in Nat
      /\ Set(p, m) /\ w' = [w EXCEPT ![p] = NoWrite]
  BY DEF Restart, Inv, TypeOK
<1>2. IsLocals(m) /\ m.born = inodes /\ m.i = 1 /\ m.done = <<>>
  <2>1. m = Fresh(inodes)
    BY Reborn
  <2> HIDE DEF m
  <2> QED
    BY <1>1, <2>1, IdleFacts
<1>3. IsWrite(NoWrite)
  BY DEF IsWrite, NoWrite
<1> HIDE DEF m
<1>4. Turns(p, l, m, NoWrite, "running")
  BY <1>1, TurnsTo DEF Updated, Go, Set
<1>5. Settled(p)
  BY <1>1, NoWriteSettles
<1>6. \A f \in Own(p) : fs[f].ino \in 0 .. inodes
  BY TempFacts, PathFacts DEF Inv, TypeOK, IsFile
<1>7. /\ LocalOK(p, job[p], l, m, NoWrite, l, fs, inodes) /\ Phase(l, NoWrite) = l
      /\ l \in Labels /\ LeavesOK(p, job[p], l, m, NoWrite, "running", fs)
  BY <1>1, <1>2, <1>6, StartsAfresh
<1>8. "running" \in Results
  BY DEF Results
<1> QED
  BY <1>1, <1>2, <1>3, <1>4, <1>5, <1>7, <1>8, StepKeeps

(* A stranger's file takes the place of none.                              *)
LEMMA IntrudeKeeps ==
    ASSUME Inv, Intrude
    PROVE  Inv' /\ \A g \in TempFiles : fs[g].data = Foreign => fs'[g] = fs[g]
<1>1. PICK f \in Intrusions : fs[f] = Absent /\ fs' = Create(f, Foreign)
  BY DEF Intrude
<1>2. /\ inodes' = inodes + 1 /\ inodes \in Nat /\ inodes' \in Nat
      /\ strangers' \in Nat /\ kills' \in Nat /\ UNCHANGED <<job, pc, me, w, res>>
  BY DEF Intrude, Inv, TypeOK
<1>3. Len(f[1]) = 3 /\ f[2] # "s" /\ f \notin UserFiles
  <2>1. Len(f[1]) = 3 /\ f[2] # "s"
    BY DriverAssumption
  <2>2. \A g \in UserFiles : Len(g[1]) = 1
    BY PathFacts
  <2> QED
    BY <2>1, <2>2
<1>4. /\ DOMAIN fs' = Path
      /\ \A g \in Path : IF g = f THEN fs'[g] = [data |-> Foreign, ino |-> inodes + 1]
                         ELSE fs'[g] = fs[g]
  BY <1>1 DEF Create, Inv, TypeOK
<1>5. fs[f].data = <<"absent">> /\ fs[f].ino = 0
  BY <1>1 DEF Absent
<1>6. Foreign[1] # "link" /\ Whole(Foreign) /\ Foreign # <<"absent">>
  BY DEF Foreign, Whole, Partial
<1> HIDE DEF Foreign
<1>7. TypeOK'
  <2>1. \A g \in Path : fs[g] = [data |-> fs[g].data, ino |-> fs[g].ino] /\ fs[g].ino \in 0 .. inodes
    BY DEF Inv, TypeOK, IsFile
  <2>2. \A g \in Path : fs'[g] = [data |-> fs'[g].data, ino |-> fs'[g].ino] /\ fs'[g].ino \in 0 .. inodes'
    <3>1. inodes + 1 \in 0 .. inodes' /\ \A n \in 0 .. inodes : n \in 0 .. inodes'
      BY <1>2
    <3> SUFFICES ASSUME NEW g \in Path
                 PROVE  fs'[g] = [data |-> fs'[g].data, ino |-> fs'[g].ino] /\ fs'[g].ino \in 0 .. inodes'
      OBVIOUS
    <3>2. CASE g = f
      BY <1>4, <3>1, <3>2
    <3>3. CASE g # f
      BY <1>4, <2>1, <3>1, <3>3
    <3> QED
      BY <3>2, <3>3
  <2> QED
    BY <1>2, <1>4, <2>2 DEF Inv, TypeOK, IsFile
<1>8. JobsOK'
  BY <1>2 DEF Inv, JobsOK
<1>9. LinksStay'
  BY <1>4, <1>6 DEF Inv, LinksStay, IsLink
<1>10. StrangersStay'
  BY <1>1, <1>4 DEF Inv, StrangersStay
<1>11. HalvesInPlace'
  <2>1. InPlace' = InPlace
    BY <1>2 DEF InPlace
  <2> QED
    BY <1>3, <1>4, <2>1 DEF Inv, HalvesInPlace
<1>12. ASSUME NEW p \in Procs
       PROVE  (Local(p) /\ Leaves(p))'
  <2> DEFINE j == job[p]
             m == me[p]
             v == w[p]
             l == pc[p]
             ph == Phase(l, v)
  <2>1. /\ Progress(j, ph, m) /\ Places(p, j, ph, m) /\ Writing(p, j, ph, m, v, l)
        /\ HeldExist(j, ph, m, v, l, fs) /\ Distinct(j, ph, m)
        /\ TempOK(v, l, fs, inodes) /\ ReadyWhole(j, ph, m, fs)
        /\ LeavesOK(p, j, l, m, v, res[p], fs) /\ IsJob(j) /\ IsLocals(m)
    BY ProcessKnows
  <2>2. job'[p] = j /\ me'[p] = m /\ w'[p] = v /\ pc'[p] = l /\ res'[p] = res[p] /\ Phase(l, v) = ph
    BY <1>2
  <2> HIDE DEF j, m, v, l, ph
  <2>3. \A g \in Held(j, ph, m, v, l) : g # f
    BY <1>5, <2>1 DEF HeldExist
  <2>4. HeldExist(j, ph, m, v, l, fs')
    <3>1. \A g \in Held(j, ph, m, v, l) : g \in Path => fs'[g] = fs[g]
      BY <1>4, <2>3
    <3>2. fs' = [fs EXCEPT ![f] = [data |-> Foreign, ino |-> inodes + 1]]
      BY <1>1 DEF Create
    <3>3. \A g \in Held(j, ph, m, v, l) : fs'[g] = fs[g]
      BY <2>3, <3>2
    <3> QED
      BY <2>1, <3>3 DEF HeldExist
  <2>5. TempOK(v, l, fs', inodes')
    <3> SUFFICES ASSUME l \in {"fill", "publish", "drop"}
                 PROVE  TempOK(v, l, fs', inodes')
      BY DEF TempOK
    <3>1. v.temp \in Staging(p) /\ v.ino \in Nat \ {0}
      BY <2>1 DEF Writing, Staged
    <3>2. v.temp \in Path
      BY <3>1, TempFacts, PathFacts
    <3> QED
      BY <1>2, <1>4, <1>5, <2>1, <3>1, <3>2 DEF TempOK
  <2>6. \A g : Whole(fs[g].data) => Whole(fs'[g].data)
    <3>1. fs' = [fs EXCEPT ![f] = [data |-> Foreign, ino |-> inodes + 1]]
      BY <1>1 DEF Create
    <3>2. \A g : g # f => fs'[g] = fs[g]
      BY <3>1
    <3>3. fs'[f] = fs[f] \/ fs'[f].data = Foreign
      BY <3>1
    <3> QED
      BY <1>6, <3>2, <3>3
  <2>7. ReadyWhole(j, ph, m, fs')
    BY <2>1, <2>6 DEF ReadyWhole
  <2>8. LeavesOK(p, j, l, m, v, res[p], fs')
    <3>1. \A g \in Own(p) : fs'[g].data # Foreign => fs'[g] = fs[g]
      <4>1. \A g \in Own(p) : g \in Path
        BY TempFacts, PathFacts
      <4>2. \A g \in Path : g # f => fs'[g] = fs[g]
        BY <1>4
      <4>3. f \in Path => fs'[f].data = Foreign
        BY <1>4
      <4> QED
        BY <4>1, <4>2, <4>3
    <3> QED
      BY <2>1, <3>1 DEF LeavesOK, LeftOK
  <2> QED
    BY <2>1, <2>2, <2>4, <2>5, <2>7, <2>8 DEF Local, LocalOK, Leaves
<1>13. \A g \in TempFiles : fs[g].data = Foreign => fs'[g] = fs[g]
  BY <1>4, <1>5, <1>6, PathFacts
<1> QED
  BY <1>7, <1>8, <1>9, <1>10, <1>11, <1>12, <1>13 DEF Inv

(* The commands that were given.                                           *)
LEMMA UnderstoodFacts ==
    ASSUME NEW c, IsCommand(c), Beneath(c) \cap (DOMAIN Links \cup LinkTargets) = {}
    PROVE  /\ IsJob(Understood(c)) /\ KeptFiles(Understood(c)) = KeptFiles(c)
           /\ ToSet(Understood(c).srcs) = ToSet(c.srcs)
<1> DEFINE j == Understood(c)
<1>1. /\ j.srcs = c.srcs /\ j.out = c.out /\ j.depfile = c.depfile /\ j.keep = c.keep
      /\ j.debug = c.debug /\ j.stage = StageOf(c) /\ j.dep = DependencyMode(c)
  BY DEF Understood
<1>2. DependencyMode(c) \in {"only", "side", "no"}
  BY DEF DependencyMode
<1>3. StageOf(c) \in {"E", "S", "c", "ir", "exe"} /\ (DependencyMode(c) = "only" => StageOf(c) = "E")
  BY DEF StageOf
<1> HIDE DEF j
<1>4. Beneath(j) = Beneath(c) /\ KeptFiles(j) = KeptFiles(c)
  BY <1>1 DEF Beneath, KeptFiles
<1>5. IsJob(j)
  BY <1>1, <1>2, <1>3, <1>4 DEF IsJob, IsCommand
<1> QED
  BY <1>1, <1>4, <1>5 DEF j

(* The invariant holds at first.                                           *)
LEMMA InitInv ==
    ASSUME Init
    PROVE  Inv
<1>1. PICK s \in Scenarios :
         job = [p \in Procs |-> Understood(s.commands[p])] /\ kills = s.kills /\ strangers = s.strangers
  BY DEF Init
<1>2. /\ inodes = 0 /\ pc = [p \in Procs |-> "start"] /\ me = [p \in Procs |-> Idle]
      /\ w = [p \in Procs |-> NoWrite] /\ res = [p \in Procs |-> "running"]
  BY DEF Init
<1>3. JobsOK
  <2>1. \A p \in Procs : /\ IsCommand(s.commands[p])
                         /\ Beneath(s.commands[p]) \cap (DOMAIN Links \cup LinkTargets) = {}
    BY ScenariosAssumption
  <2>2. \A p, q \in Procs : p # q =>
           KeptFiles(s.commands[p]) \cap (ToSet(s.commands[q].srcs) \cup KeptFiles(s.commands[q])) = {}
    BY ScenariosAssumption
  <2>3. ASSUME NEW p \in Procs
        PROVE  /\ IsJob(job[p]) /\ KeptFiles(job[p]) = KeptFiles(s.commands[p])
               /\ ToSet(job[p].srcs) = ToSet(s.commands[p].srcs)
    <3>1. job[p] = Understood(s.commands[p])
      BY <1>1
    <3> QED
      BY <2>1, <3>1, UnderstoodFacts
  <2> QED
    BY <2>2, <2>3 DEF JobsOK
<1>4. \A f \in Path :
         \/ f \in DOMAIN Links /\ fs[f] = [data |-> <<"link", Links[f]>>, ino |-> 0]
         \/ fs[f] = [data |-> <<"src", f>>, ino |-> 0]
         \/ fs[f] = [data |-> <<"absent">>, ino |-> 0]
  BY DEF Init, Absent
<1>5. DOMAIN fs = Path
  BY DEF Init
<1>6. ASSUME NEW f \in Path
      PROVE  /\ fs[f] = [data |-> fs[f].data, ino |-> fs[f].ino] /\ fs[f].ino = 0
             /\ \/ f \in DOMAIN Links /\ fs[f].data = <<"link", Links[f]>>
                \/ fs[f].data[1] # "link"
             /\ fs[f].data[1] \in {"link", "src", "absent"}
  <2>1. CASE f \in DOMAIN Links /\ fs[f] = [data |-> <<"link", Links[f]>>, ino |-> 0]
    BY <2>1
  <2>2. CASE fs[f] = [data |-> <<"src", f>>, ino |-> 0]
    BY <2>2
  <2>3. CASE fs[f] = [data |-> <<"absent">>, ino |-> 0]
    BY <2>3
  <2> QED
    BY <1>4, <2>1, <2>2, <2>3
<1>7. ASSUME NEW f \in Path
      PROVE  Whole(fs[f].data) /\ fs[f].data # Foreign
  <2>1. fs[f].data[1] \notin {"partial", "empty", "foreign"}
    BY <1>6
  <2>2. Partial[1] = "partial" /\ <<"empty">>[1] = "empty" /\ Foreign[1] = "foreign"
    BY DEF Partial, Foreign
  <2>3. fs[f].data # Partial /\ fs[f].data # <<"empty">> /\ fs[f].data # Foreign
    BY <2>1, <2>2, Zenon
  <2> QED
    BY <2>3 DEF Whole
<1>8. TypeOK
  <2>1. kills \in Nat /\ strangers \in Nat
    BY <1>1, ScenariosAssumption
  <2>2. \A f \in Path : IsFile(fs[f])
    BY <1>2, <1>6 DEF IsFile
  <2>3. IsLocals(Idle)
    <3>1. Idle = Fresh(0) /\ 0 \in Nat
      BY DEF Idle, Fresh
    <3> HIDE DEF Idle
    <3> QED
      BY <3>1, IdleFacts
  <2>4. IsWrite(NoWrite)
    BY DEF IsWrite, NoWrite
  <2>5. "start" \in Labels /\ "running" \in Results
    BY DEF Labels, Results
  <2> QED
    BY <1>2, <1>5, <2>1, <2>2, <2>3, <2>4, <2>5 DEF TypeOK
<1>9. LinksStay
  BY <1>6 DEF LinksStay, IsLink
<1>10. StrangersStay /\ HalvesInPlace
  BY <1>7 DEF StrangersStay, HalvesInPlace
<1>11. ASSUME NEW p \in Procs
       PROVE  Local(p) /\ Leaves(p)
  <2>1. Idle.born = 0 /\ Idle.i = 1 /\ Idle.done = <<>>
    BY DEF Idle
  <2>2. \A f \in Own(p) : fs[f].ino \in 0 .. 0
    <3>1. \A f \in Own(p) : f \in Path
      BY TempFacts, PathFacts
    <3>2. \A f \in Path : fs[f].ino = 0
      BY <1>6
    <3> QED
      BY <3>1, <3>2
  <2>3. pc[p] = "start" /\ me[p] = Idle /\ w[p] = NoWrite
    BY <1>2
  <2> HIDE DEF Idle, NoWrite
  <2>4. /\ LocalOK(p, job[p], "start", Idle, NoWrite, "start", fs, inodes) /\ Phase("start", NoWrite) = "start"
        /\ LeavesOK(p, job[p], "start", Idle, NoWrite, res[p], fs)
    <3> DEFINE m == Idle
               v == NoWrite
               j == job[p]
    <3>1. m.i = 1 /\ m.done = <<>> /\ m.born \in Nat /\ \A f \in Own(p) : fs[f].ino \in 0 .. m.born
      BY <2>1, <2>2
    <3> HIDE DEF m, v, j
    <3>2. /\ LocalOK(p, j, "start", m, v, "start", fs, inodes) /\ Phase("start", v) = "start"
          /\ \A r : LeavesOK(p, j, "start", m, v, r, fs)
      BY <3>1, StartsAfresh
    <3> QED
      BY <3>2 DEF m, v, j
  <2> QED
    BY <2>3, <2>4 DEF Local, Leaves
<1> QED
  BY <1>3, <1>8, <1>9, <1>10, <1>11 DEF Inv
----------------------------------------------------------------------------
(* Every step keeps the invariant.                                         *)
LEMMA ProcessStep ==
    ASSUME Inv, NEW p \in Procs, Step(p) \/ Crash(p) \/ Restart(p)
    PROVE  Inv' /\ Settled(p)
<1>1. CASE \/ Start(p) \/ Take(p) \/ ReadStdin(p) \/ Reserve(p) \/ Truncate(p) \/ Preprocess(p)
           \/ Dependencies(p) \/ Listed(p) \/ Noted(p)
  BY <1>1, StartKeeps, TakeKeeps, ReadStdinKeeps, ReserveKeeps, TruncateKeeps, PreprocessKeeps,
     DependenciesKeep, ListedKeeps, NotedKeeps
<1>2. CASE \/ Compile(p) \/ Compiled(p) \/ Moved(p) \/ Finish(p) \/ Delivered(p) \/ PrintSource(p)
           \/ Assemble(p) \/ Assembled(p) \/ Link(p) \/ Linked(p)
  BY <1>2, CompileKeeps, CompiledKeeps, MovedKeeps, FinishKeeps, DeliveredKeeps, PrintSourceKeeps,
     AssembleKeeps, AssembledKeeps, LinkKeeps, LinkedKeeps
<1>3. CASE \/ Open(p) \/ Fill(p) \/ Publish(p) \/ Drop(p) \/ WriteThrough(p) \/ WrittenThrough(p)
           \/ Move(p) \/ Copied(p) \/ Crash(p) \/ Restart(p)
  BY <1>3, OpenKeeps, FillKeeps, PublishKeeps, DropKeeps, WriteThroughKeeps, WrittenThroughKeeps,
     MoveKeeps, CopiedKeeps, CrashKeeps, RestartKeeps
<1> QED
  BY <1>1, <1>2, <1>3 DEF Step

(* A step that changes nothing keeps the invariant.                        *)
LEMMA NothingHappens ==
    ASSUME Inv, UNCHANGED vars
    PROVE  Inv'
<1>1. /\ fs' = fs /\ inodes' = inodes /\ job' = job /\ pc' = pc /\ me' = me /\ w' = w /\ res' = res
      /\ kills' = kills /\ strangers' = strangers
  BY DEF vars
<1>2. TypeOK' /\ JobsOK'
  BY <1>1 DEF Inv, TypeOK, IsFile, JobsOK
<1>3. LinksStay' /\ StrangersStay' /\ HalvesInPlace'
  BY <1>1 DEF Inv, LinksStay, IsLink, StrangersStay, HalvesInPlace, InPlace
<1>4. \A p \in Procs : (Local(p) /\ Leaves(p))'
  BY <1>1 DEF Inv, Local, Leaves
<1> QED
  BY <1>2, <1>3, <1>4 DEF Inv

(* Every step keeps the invariant, and leaves the files of strangers as    *)
(* they are.                                                               *)
LEMMA NextKeeps ==
    ASSUME Inv, [Next]_vars
    PROVE  Inv' /\ \A f \in TempFiles : fs[f].data = Foreign => fs'[f] = fs[f]
<1>1. ASSUME NEW p \in Procs, Step(p) \/ Crash(p) \/ Restart(p)
      PROVE  Inv' /\ \A f \in TempFiles : fs[f].data = Foreign => fs'[f] = fs[f]
  BY <1>1, ProcessStep DEF Settled
<1>2. CASE UNCHANGED vars
  <2>1. fs' = fs
    BY <1>2 DEF vars
  <2> QED
    BY <1>2, <2>1, NothingHappens
<1> QED
  BY <1>1, <1>2, IntrudeKeeps DEF Next, Finished

(* The inductive invariant is one.                                         *)
THEOREM InvariantHolds == Spec => []Inv
<1>1. Init => Inv
  BY InitInv
<1>2. Inv /\ [Next]_vars => Inv'
  BY NextKeeps
<1> QED
  BY <1>1, <1>2, PTL DEF Spec
----------------------------------------------------------------------------
(* The state has its type, whatever the commands are, however they are     *)
(* interleaved, fail, are killed and are run again.                        *)
THEOREM TypeCorrect == Spec => []TypeOK
<1>1. Inv => TypeOK
  BY DEF Inv
<1> QED
  BY <1>1, InvariantHolds, PTL

(* No file that a command promises is ever seen empty or half written: what*)
(* is written in place is a temporary, a link's target or a kept .i.       *)
THEOREM OutputsNeverHalfWritten == Spec => []OutputsAreWhole
<1>1. ASSUME Inv PROVE OutputsAreWhole
  <2> SUFFICES ASSUME NEW f \in Promised
               PROVE  fs[f].data \notin {Partial, <<"empty">>}
    BY DEF OutputsAreWhole
  <2>1. f \in UserFiles /\ f[2] # "i" /\ f \notin DOMAIN Links \cup LinkTargets
    BY DEF Promised, LinkTargets
  <2>2. \A q \in Procs : f \notin KeptFiles(job[q])
    <3>1. \A q \in Procs : IsJob(job[q])
      BY <1>1 DEF Inv, JobsOK
    <3>2. \A q \in Procs : \A g \in KeptFiles(job[q]) : g[2] = "i"
      BY <3>1, CommandFacts
    <3> QED
      BY <2>1, <3>2
  <2>3. f \notin InPlace
    BY <2>1, <2>2 DEF InPlace
  <2>4. Whole(fs[f].data)
    BY <1>1, <2>1, <2>3, PathFacts DEF Inv, HalvesInPlace
  <2> QED
    BY <2>4 DEF Whole
<1> QED
  BY <1>1, InvariantHolds, PTL

(* A file that a stranger put where the driver makes up names stays as it  *)
(* is: no staged write takes the name, and no cleanup removes the file.    *)
THEOREM StrangersFilesStay == Spec => ForeignFilesStay
<1>1. ASSUME Inv, [Next]_vars
      PROVE  [\A f \in TempFiles : fs[f].data = Foreign => fs'[f] = fs[f]]_vars
  BY <1>1, NextKeeps
<1> QED
  BY <1>1, InvariantHolds, PTL DEF Spec, ForeignFilesStay

(* A command that has ended leaves no temporary file of its own that it    *)
(* made since it was last started, but for the error paths that forget one.*)
THEOREM NoTemporaryIsLeft == Spec => []NothingIsLeftBehind
<1>1. ASSUME Inv PROVE NothingIsLeftBehind
  <2> SUFFICES ASSUME NEW p \in Procs, pc[p] = "end", ~job[p].keep, ~job[p].debug, ~Forgets(p),
                      NEW f \in TempFiles, f[1][2] = p, fs[f].ino > me[p].born
               PROVE  fs[f].data = Foreign
    BY DEF NothingIsLeftBehind
  <2>1. LeavesOK(p, job[p], "end", me[p], w[p], res[p], fs)
    BY <1>1, ProcessKnows
  <2>2. ~ForgetsAt(job[p], me[p], w[p], res[p])
    BY DEF Forgets, ForgetsAt
  <2>3. Phase("end", w[p]) = "end" /\ "end" \notin Active
    BY DEF Phase, Staged, Active, Sourcing, Fetching, Preprocessing, Finishing
  <2>4. Remaining(job[p], "end", me[p], w[p], "end") = {}
    BY <2>3 DEF Remaining
  <2>5. f \in Own(p)
    BY DEF Own
  <2> QED
    BY <2>1, <2>2, <2>3, <2>4, <2>5 DEF LeavesOK, LeftOK
<1> QED
  BY <1>1, InvariantHolds, PTL
=============================================================================
