----------------------------- MODULE MCDriver ------------------------------
(***************************************************************************)
(* Two commands at a time, on three sources.                               *)
(***************************************************************************)
EXTENDS Driver

U(name, e) == <<<<name>>, e>>
AC == U("a", "c")
BC == U("b", "c")
CI == U("c", "i")
DS == U("d", "s")
OutLink == U("l", "s")
OutFile == U("f", "s")

MCProcs == {1, 2}
MCUserFiles ==
    {U(n, e) : n \in {"a", "b", "c", "d", "l", "f", "-"}, e \in {"c", "i", "s", "o", "d", ""}}
MCInitially == {AC, BC, CI, DS, OutLink, OutFile, U("a", "o"), U("a", "s")}
MCLinks == [f \in {OutLink} |-> OutFile]
MCBroken == {BC}
MCUnprintable == {AC}

\* A stranger takes the first name for a copy, or one that was let go of.
MCIntrusions == {<<<<"copy", 1, 0>>, "">>, <<<<"tmp", 1, 0>>, "i">>}

Job(mode, srcs, out) ==
    [modes |-> {mode}, srcs |-> srcs, out |-> out, lang |-> "", keep |-> FALSE,
     debug |-> FALSE, deps |-> {}, depfile |-> NoPath]

Kept == [Job("exe", <<AC, DS>>, U("a", "")) EXCEPT !.keep = TRUE]
Noting == [Job("c", <<AC, CI>>, NoPath) EXCEPT !.deps = {"MD"}]
Listing == [Job("c", <<CI>>, NoPath) EXCEPT !.deps = {"M"}, !.depfile = U("a", "d")]
Printing == [Job("S", <<CI, AC>>, NoPath) EXCEPT !.deps = {"MM"}]
Piped == [Job("c", <<Stdin>>, NoPath) EXCEPT !.lang = "c"]
Nothing == [Job("c", <<AC>>, NoPath) EXCEPT !.depfile = U("a", "d")]   \* refused

Together(j1, j2) == [commands |-> <<j1, j2>>, kills |-> 0, strangers |-> 0]
Disturbed(j) == [commands |-> <<j, Nothing>>, kills |-> 1, strangers |-> 1]

MCScenarios == {
    \* one source and one output, three times
    Together(Job("c", <<AC, AC>>, NoPath), Job("c", <<AC>>, NoPath)),
    \* two sources, one broken; and another command's output among theirs
    Together(Job("S", <<AC, BC>>, NoPath), Job("S", <<DS>>, U("a", "s"))),
    \* a dependency file of each kind, under one name
    Together(Noting, Listing),
    Together(Printing, Kept),
    Together(Job("E", <<AC, BC>>, NoPath), Job("S", <<CI>>, U("b", "s"))),
    Together(Job("c", <<AC, BC>>, U("a", "o")), Job("c", <<CI, DS>>, NoPath)),
    Disturbed(Job("c", <<AC>>, NoPath)),
    Disturbed(Job("S", <<CI>>, U("b", "s"))),
    Disturbed(Job("E", <<AC>>, U("b", "s"))),
    Disturbed(Piped),
    Disturbed(Job("ir", <<AC, DS>>, NoPath)),
    Disturbed(Job("E", <<CI>>, OutLink))}
============================================================================
