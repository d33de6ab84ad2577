--------------------------- MODULE TemplateBlocks ----------------------------
(***************************************************************************)
(* How the template engine reads the lines of a template into blocks and   *)
(* renders them (templating.cpp).  A line is text, or holds one statement; *)
(* what a condition or an iterable evaluates to is part of the statement.  *)
(* A page is the sequence of the lines it shows, by their numbers.  All    *)
(* loops use one variable: the data of a page is whether it is set.        *)
(***************************************************************************)
EXTENDS Naturals, Sequences, FiniteSets, SequencesExt

Conditions == {"if true", "if false"}

Loops == {"for list",       \* two elements of an array, range or string
          "for object",     \* two members of an object
          "for nothing",    \* an array with no element
          "for no range"}   \* range(0), or an object with no member

Lines == Conditions \cup Loops
            \cup {"text", "link", "include", "elif true", "elif false", "else", "endif", "endfor"}

\* A block: `at` is indexToPlace, and what it has in place of the expression is
\* the statement.
Block(statement, at) ==
    [statement |-> statement, at |-> at, content |-> <<>>, subBlocks |-> <<>>, children |-> <<>>]

SubBlock(statement) == [statement |-> statement, content |-> <<>>, children |-> <<>>]

Root == Block("root", 0)

IsIf(block) == block.statement \in Conditions
HasElse(block) == block.subBlocks # <<>> /\ Last(block.subBlocks).statement = "else"

Closes(line, block) ==
    \/ line = "endif" /\ IsIf(block)
    \/ line = "endfor" /\ block.statement \in Loops

InLastSub(block, sub) == [block EXCEPT !.subBlocks = Append(Front(@), sub)]

\* Variant: every line goes to the main content of its block.
AddToMain(block, i) == [block EXCEPT !.content = Append(@, i)]

\* A line of text goes to the last sub-block, if there is one.
AddText(block, i) ==
    IF block.subBlocks = <<>> THEN AddToMain(block, i)
    ELSE LET sub == Last(block.subBlocks)
         IN  InLastSub(block, [sub EXCEPT !.content = Append(@, i)])

\* A loop goes to the last sub-block too, under the index it has in the main
\* content; an if and an include are children of the block itself.
AddBlock(block, child) ==
    IF child.statement \in Loops /\ block.subBlocks # <<>>
    THEN LET sub == Last(block.subBlocks)
         IN  InLastSub(block, [sub EXCEPT !.children = Append(@, child)])
    ELSE [block EXCEPT !.children = Append(@, child)]

\* What the parser returns: "parsed", an exception, or subBlocks.back() of an
\* empty vector, a read before address 0.
Returned(status, next, block) == [status |-> status, next |-> next, block |-> block]

\* BlockParser from line i on, `block` being what it has of its block.  A block
\* with no end is closed by the end of the file.
RECURSIVE BlockParser(_, _, _)
BlockParser(lines, i, block) ==
    IF i > Len(lines) THEN Returned("parsed", i, block)
    ELSE
    LET line == lines[i]
        child == Block(line, Len(block.content))
    IN  CASE line \in {"text", "link"} -> BlockParser(lines, i + 1, AddText(block, i))
          [] line = "include" -> BlockParser(lines, i + 1, AddBlock(block, child))
          [] line \in Conditions \cup Loops ->
                LET inner == BlockParser(lines, i + 1, child)
                IN  IF inner.status # "parsed" THEN inner
                    ELSE BlockParser(lines, inner.next, AddBlock(block, inner.block))
          [] line \in {"elif true", "elif false"} /\ IsIf(block) ->
                IF block.subBlocks = <<>> THEN Returned("crash", i, block)
                ELSE IF HasElse(block) THEN Returned("parsed", i + 1, block)
                ELSE BlockParser(lines, i + 1, [block EXCEPT !.subBlocks = Append(@, SubBlock(line))])
          [] line = "else" /\ IsIf(block) ->
                IF HasElse(block) THEN Returned("parsed", i + 1, block)
                ELSE BlockParser(lines, i + 1, [block EXCEPT !.subBlocks = Append(@, SubBlock(line))])
          [] Closes(line, block) -> Returned("parsed", i + 1, block)
          [] OTHER -> Returned("error", i, block)

Parse(lines) == BlockParser(lines, 1, Root)

------------------------------------------------------------------------------
\* What is rendered of content and children: before line n of the content come
\* the children placed there, and there are as many n as lines and children.
Items(content, children) ==
    LET here(n) == SelectSeq(children, LAMBDA child : child.at = n)
        items(n) == [i \in DOMAIN here(n) |-> [block |-> here(n)[i], line |-> 0]]
                        \o (IF n < Len(content)
                            THEN <<[block |-> Root, line |-> content[n + 1]]>> ELSE <<>>)
    IN  FlattenSeq([m \in 1 .. Len(content) + Len(children) |-> items(m - 1)])

\* A page so far: its lines, whether the loop variable is in the data, and
\* whether an exception has been thrown.
Blank == [shown |-> <<>>, set |-> FALSE, thrown |-> FALSE]

Throw(page) == [page EXCEPT !.thrown = TRUE]

RECURSIVE Render(_, _, _)

\* __renderIfBlock: the first sub-block is rendered, or it is an ELIF that
\* does not hold, which throws.
RenderIf(block, page) ==
    IF block.statement = "if true" THEN Render(block.content, block.children, page)
    ELSE IF block.subBlocks = <<>> THEN page
    ELSE LET sub == Head(block.subBlocks)
         IN  IF sub.statement = "elif false" THEN Throw(page)
             ELSE Render(sub.content, sub.children, page)

\* __renderForBlock: the variable of an array stays in the data; a member of an
\* object gets a copy of it, and must not find the variable there.
RenderFor(block, page) ==
    LET body(p) == Render(block.content, block.children, [p EXCEPT !.set = TRUE])
    IN  CASE block.statement = "for list" -> body(body(page))
          [] block.statement = "for object" ->
                IF page.set THEN Throw(page) ELSE [body(body(page)) EXCEPT !.set = FALSE]
          [] block.statement = "for nothing" -> page
          [] OTHER -> Throw(page)

RenderItem(page, item) ==
    IF page.thrown THEN page
    ELSE IF item.line # 0 THEN [page EXCEPT !.shown = Append(@, item.line)]
    ELSE IF IsIf(item.block) THEN RenderIf(item.block, page)
    ELSE IF item.block.statement \in Loops THEN RenderFor(item.block, page)
    ELSE [page EXCEPT !.shown = Append(@, 0)]      \* the included file, as line 0

Render(content, children, page) == FoldLeft(RenderItem, page, Items(content, children))

\* RenderString: parse and render.
RenderString(lines) ==
    LET parsed == Parse(lines)
    IN  IF parsed.status # "parsed" THEN Throw(Blank)
        ELSE Render(parsed.block.content, parsed.block.children, Blank)

\* What a template makes the engine call (Pages).  Parsing calls generateCache
\* for every include before the end, or before the statement that is wrong;
\* rendering, the includes and the links in the order of the lines shown.
TemplateOf(lines) ==
    LET parsed == Parse(lines)
        result == Render(parsed.block.content, parsed.block.children, Blank)
        kind(i) == IF i = 0 THEN "include" ELSE lines[i]
    IN  [includes |-> Cardinality({i \in 1 .. parsed.next - 1 : lines[i] = "include"}),
         parsed |-> parsed.status = "parsed",
         effects |-> SelectSeq([n \in DOMAIN result.shown |-> kind(result.shown[n])],
                               LAMBDA k : k \in {"include", "link"}),
         thrown |-> result.thrown]

------------------------------------------------------------------------------
(***************************************************************************)
(* What a template means, read off its lines                               *)
(***************************************************************************)
Opens(line) == line \in Conditions \cup Loops

\* How many blocks are open before line i.
Depth(lines, i) ==
    FoldLeft(LAMBDA d, line : IF Opens(line) THEN d + 1
                              ELSE IF line \in {"endif", "endfor"} THEN d - 1 ELSE d,
             0, SubSeq(lines, 1, i - 1))

\* The first line after i, at the depth of the body that i opens, that is in `which`.
FirstAfter(lines, i, which) ==
    CHOOSE j \in i + 1 .. Len(lines) :
        /\ lines[j] \in which /\ Depth(lines, j) = Depth(lines, i) + 1
        /\ \A k \in i + 1 .. j - 1 :
              ~(lines[k] \in which /\ Depth(lines, k) = Depth(lines, i) + 1)

EndOf(lines, i) == FirstAfter(lines, i, {"endif", "endfor"})
ElseOf(lines, i) == FirstAfter(lines, i, {"else", "endif", "endfor"})

\* The lines shown from line i up to line j.
RECURSIVE Meaning(_, _, _)
Meaning(lines, i, j) ==
    IF i >= j THEN <<>>
    ELSE IF ~Opens(lines[i])
    THEN <<IF lines[i] = "include" THEN 0 ELSE i>> \o Meaning(lines, i + 1, j)
    ELSE LET end == EndOf(lines, i)
             else == ElseOf(lines, i)
             body == Meaning(lines, i + 1, else)
             otherwise == Meaning(lines, else + 1, end)
         IN  (CASE lines[i] = "if true" -> body
                [] lines[i] = "if false" -> otherwise
                [] lines[i] \in {"for list", "for object"} -> body \o body
                [] OTHER -> <<>>)
             \o Meaning(lines, end + 1, j)

Closed(lines) == Depth(lines, Len(lines) + 1) = 0

\* Only text between an else and its endif.
PlainElse(lines) ==
    \A i \in DOMAIN lines : lines[i] = "else" =>
        \E j \in i + 1 .. Len(lines) :
            lines[j] = "endif" /\ \A k \in i + 1 .. j - 1 : lines[k] \in {"text", "link"}

\* The variable of a loop over an object is not used before.
FreshVariables(lines) ==
    \A i, j \in DOMAIN lines :
        i < j /\ lines[j] = "for object" =>
            /\ lines[i] # "for list"
            /\ lines[i] = "for object" => EndOf(lines, i) < j

\* A template whose blocks are closed, with no elif, no statement inside an
\* else, no empty range and a fresh variable for each loop over an object shows
\* its lines as they are written: each branch and body where it stands, however
\* they nest.  (Without these restrictions it does not: elif crashes, an if in
\* an else goes to the other branch, a loop there is misplaced or dropped.)
ShownAsWritten(lines) ==
    Closed(lines) /\ PlainElse(lines) /\ FreshVariables(lines) =>
        RenderString(lines) \in
            {[shown |-> Meaning(lines, 1, Len(lines) + 1), set |-> s, thrown |-> FALSE] : s \in BOOLEAN}
==============================================================================
