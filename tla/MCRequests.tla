------------------------------ MODULE MCRequests ------------------------------
(***************************************************************************)
(* Requests over four families of inputs: messages of every kind, files of *)
(* every kind, paths against tables of two routes, and templates up to two *)
(* blocks deep.                                                            *)
(***************************************************************************)
EXTENDS Requests

Plainly == [method |-> "GET", path |-> <<"7">>, accept |-> TRUE, cookie |-> "none",
            length |-> "none", type |-> "none", body |-> NoBody, split |-> FALSE]

Parameter(type, name) == [type |-> type, text |-> name]
Literal == Parameter("literal", "word")

To(pattern, methods) == [pattern |-> pattern, slash |-> pattern = <<>>, methods |-> methods]
NumberOrHome == <<To(<<Parameter("int", "x")>>, Methods), To(<<>>, Methods)>>

Sent(m, routes, target, template) ==
    [message |-> m, routes |-> routes, target |-> target, file |-> "readable", template |-> template]

------------------------------------------------------------------------------
\* Every message with up to two fields or some JSON.
SmallBodies ==
    [kind : {"form"}, fields : UNION {[1 .. n -> FieldValues] : n \in 0 .. 2}, right : {TRUE}, lines : {1}]
        \cup JSONs \cup {NoBody}

VariedMessages ==
    {Sent(m, NumberOrHome, target, <<"text">>) :
        m \in [method : {"POST"}, path : {<<"7">>}, accept : BOOLEAN,
                     cookie : {"none", "token", "junk"},
                     length : {"none", "right", "short", "zero", "word", "too big"},
                     type : {"none", "form", "form; charset", "json", "other"},
                     body : SmallBodies, split : BOOLEAN],
        target \in {"route", "file", "public"}}

------------------------------------------------------------------------------
\* Every file in every place, asked for with and without the headers that matter.
\* ("/" is not in the public folder.)
Places == {place \in {<<"7">>, <<"word">>, <<"10000000000">>, <<>>} \X Targets :
              place[1] = <<>> => place[2] \notin {"public", "dangerous"}}

VariedFiles ==
    {[Sent([Plainly EXCEPT !.path = place[1], !.accept = accept, !.split = split, !.type = type,
                           !.length = length],
           NumberOrHome, place[2], <<"text">>) EXCEPT !.file = file] :
        place \in Places, accept \in BOOLEAN, split \in BOOLEAN,
        type \in {"none", "json"}, length \in {"none", "zero"}, file \in Files}

------------------------------------------------------------------------------
\* Paths and patterns of up to two segments.
PatternParts ==
    {Literal, Parameter("int", "x"), Parameter("int", "y"), Parameter("string", "x"),
     Parameter("bool", "x"), Parameter("float", "y")}

UpToTwo(S) == UNION {[1 .. n -> S] : n \in 0 .. 2}

Tables ==
    {<<To(p, {"GET"}), To(q, Methods)>> : p, q \in UpToTwo(PatternParts)}
        \cup {<<To(p, {"POST"})>> : p \in UpToTwo(PatternParts)}
        \cup {<<[To(p, {"GET"}) EXCEPT !.slash = TRUE]>> : p \in UpToTwo({Literal})}
        \cup {<<>>}

VariedPaths ==
    {Sent([Plainly EXCEPT !.path = path], routes, "route", <<"text">>) :
        path \in UpToTwo({"7", "10000000000", "word"}) \cup {<<"1">>, <<"3.5">>, <<"true">>},
        routes \in Tables}

------------------------------------------------------------------------------
\* Templates: a block around `bodies`, with or without an else, twice.
Plain == {<<>>, <<"text">>, <<"include">>}

Wrapped(bodies, elses) ==
    {<<c>> \o b \o <<"endif">> : c \in Conditions, b \in bodies}
        \cup {<<c>> \o b \o <<"else">> \o e \o <<"endif">> : c \in Conditions, b \in bodies, e \in elses}
        \cup {<<l>> \o b \o <<"endfor">> : l \in Loops, b \in bodies}

OneBlock == Wrapped(Plain, Plain)
OneDeep == Plain \cup {a \o b \o c : a \in Plain, b \in OneBlock, c \in Plain}
TwoDeep == {a \o b \o a : a \in {<<>>, <<"text">>}, b \in Wrapped(OneDeep, {<<>>, <<"text">>})}
InARow == {a \o b : a, b \in OneBlock}

\* And every sequence of up to four statements of an if, closed or not.
Branches == UNION {[1 .. n -> {"if false", "elif true", "elif false", "else", "endif", "text"}] : n \in 0 .. 4}

VariedTemplates ==
    {Sent(Plainly, NumberOrHome, "route", template) : template \in OneDeep \cup TwoDeep \cup InARow \cup Branches}

------------------------------------------------------------------------------
MCInputs == {VariedMessages, VariedFiles, VariedPaths, VariedTemplates}
==============================================================================
