------------------------------- MODULE MCPages --------------------------------
(* Two workers and two files: a page that includes a part and links, that   *)
(* is once written wrong, and once has another text; and a part with a link. *)
EXTENDS Pages, TemplateBlocks, TLC

CONSTANTS w1, w2

MCWorkers == {w1, w2}
Symmetry == Permutations(MCWorkers)

MCLines ==
    [page |-> <<<<"include", "if true", "link", "endif">>,
                <<"include", "endfor">>,
                <<"if false", "else", "link", "endif", "for no range", "endfor">>>>,
     part |-> <<<<"text">>, <<"link">>>>]

MCText == [f \in Files |-> [n \in DOMAIN MCLines[f] |-> TemplateOf(MCLines[f][n])]]
===============================================================================
