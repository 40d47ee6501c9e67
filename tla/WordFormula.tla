---------------------------- MODULE WordFormula ----------------------------
(***************************************************************************)
(* How a LaTeX formula reaches a Word file (web-app shared/mathir-parser.js *)
(* and the two Word writers).                                              *)
(*                                                                         *)
(* A formula is the sequence of its tokens: a name or a number, a          *)
(* delimiter, an operator, or a command (written without its backslash).   *)
(* The parser turns it into a tree and either accepts it or keeps it as    *)
(* source.  The default writer and the streaming writer each walk the      *)
(* tree; what they write is abstracted to the sequence of the texts of the *)
(* runs, in the order a reader of the file meets them.                     *)
(***************************************************************************)
EXTENDS Integers, FiniteSets, FiniteSetsExt, Sequences, SequencesExt

CONSTANT Names      \* the names and numbers that formulas are made of

Opening == {"{", "[", "("}
Closing == [c \in Opening |-> CASE c = "{" -> "}" [] c = "[" -> "]" [] c = "(" -> ")"]
Closers == {"}", "]", ")"}
Operators == {"=", "+", "-", "*", "/", "^", "_", "&", "<", ">"}
Scripts == {"_", "^"}

Accents == {"hat", "bar", "vec", "dot", "tilde"}
Styles == {"mathrm", "mathbf", "text"}
FunctionCommands == {"sin", "log", "max"}
SymbolCommands == {"alpha", "pi", "infty"}
OperatorCommands == {"times", "leq", "to"}
Matrices == {"pmatrix", "bmatrix", "smallmatrix", "array", "cases"}
SupportedCommands ==
    {"frac", "sqrt", "sum", "prod", "int", "operatorname", "linebreak", "quad",
     "begin", "end", "left", "right"}
      \cup Accents \cup Styles \cup FunctionCommands \cup SymbolCommands
      \cup OperatorCommands \cup Matrices

-----------------------------------------------------------------------------
(* Trees.  A node's value is the sequence of the tokens its text is made   *)
(* of; its children stand in a fixed order for each type.                  *)

Node(type, value, kids) == [type |-> type, value |-> value, kids |-> kids]
Leaf(type, t) == Node(type, <<t>>, <<>>)
NoNode == Node("none", <<>>, <<>>)
Blank == Node("text", <<>>, <<>>)
Leaves == {"identifier", "number", "text", "symbol", "operator"}
IsOperator(n) == n.type = "operator"

\* What a parsing function returns: the next token, whether it reported an
\* error, and the node it read.
Got(at, bad, node) == [at |-> at, bad |-> bad, node |-> node]

\* The trees that the functions below are defined for: those whose nodes are
\* less than MaxDepth below the root, a bound of the model.
MaxDepth == 128
Tree[depth \in 0..MaxDepth] ==
    IF depth = 0 THEN {}
    ELSE [type : STRING, value : Seq(STRING), kids : Seq(Tree[depth - 1])]
Trees == Tree[MaxDepth]

TextValue[n \in Trees] ==
    IF n.type \in Leaves THEN n.value
    ELSE IF n.type \in {"sequence", "group"}
         THEN FlattenSeq([i \in DOMAIN n.kids |-> TextValue[n.kids[i]]])
         ELSE <<>>

OperatorType(op) ==
    CASE op = "+" -> "sum" [] op = "-" -> "difference"
      [] op \in {"*", "times"} -> "product" [] op = "/" -> "quotient"
      [] op = "=" -> "equation" [] OTHER -> "binary"

Alternates(items) ==
    \A i \in DOMAIN items : IsOperator(items[i]) <=> i % 2 = 0

\* The items between two operators are the operands of a left-leaning tree;
\* an operator with nothing behind it is left out of it.
BinaryExpression(items) ==
    IF items = <<>> THEN NoNode
    ELSE IF ~(\E i \in DOMAIN items : IsOperator(items[i])) \/ ~Alternates(items)
         THEN IF Len(items) = 1 THEN items[1] ELSE Node("sequence", <<>>, items)
         ELSE LET Grow(tree, i) ==
                      IF i % 2 = 1 \/ i = Len(items) THEN tree
                      ELSE Node(OperatorType(items[i].value[1]), items[i].value,
                                <<tree, items[i + 1]>>)
              IN FoldLeft(Grow, items[1], [i \in DOMAIN items |-> i])

GroupFromItems(items) ==
    IF items = <<>> THEN Node("group", <<>>, <<>>)
    ELSE IF Len(items) = 1 THEN items[1] ELSE BinaryExpression(items)

-----------------------------------------------------------------------------
(* The parser.  ts is the token sequence and i the token to read.          *)

AtScript(ts, i) == i <= Len(ts) /\ ts[i] \in Scripts

\* The text between two braces, and the token behind it.
GroupText(ts, i) ==
    IF i > Len(ts) \/ ts[i] # "{" THEN [at |-> i, bad |-> FALSE, text |-> <<>>]
    ELSE LET Depth(k) == Len(SelectSeq(SubSeq(ts, i, k), LAMBDA t : t = "{"))
                           - Len(SelectSeq(SubSeq(ts, i, k), LAMBDA t : t = "}"))
             ends == {k \in i..Len(ts) : Depth(k) = 0}
         IN IF ends = {}
            THEN [at |-> Len(ts) + 1, bad |-> TRUE, text |-> SubSeq(ts, i + 1, Len(ts))]
            ELSE LET end == CHOOSE k \in ends : \A l \in ends : k <= l
                 IN [at |-> end + 1, bad |-> FALSE, text |-> SubSeq(ts, i + 1, end - 1)]

\* A delimiter of \left or \right is a text, unless a dot stands for none.
Fence(ts, i) == IF i > Len(ts) \/ ts[i] = "." THEN <<>> ELSE <<Leaf("text", ts[i])>>

\* A base with the scripts behind it, each wrapped round the one before.
Scripted(base, scripts) ==
    LET Wrap(n, script) == [script EXCEPT !.kids = <<n>> \o @]
    IN IF base.node = NoNode THEN base
       ELSE Got(scripts.at, base.bad \/ scripts.bad, FoldLeft(Wrap, base.node, scripts.items))

\* The limits of a sum, a product or an integral: of the scripts of each kind
\* the last one counts.
Limit(scripts, type) ==
    LET found == SelectSeq(scripts.items, LAMBDA n : n.type = type)
    IN IF found = <<>> THEN NoNode ELSE Last(found).kids[1]

\* The commands with operands.  R[what, i] is what stands at i, read as `what'.
Fraction(R, i) ==
    LET num == R["atom", i]
        den == R["atom", num.at]
    IN IF NoNode \in {num.node, den.node} THEN Got(den.at, TRUE, Node("unsupported", <<"frac">>, <<>>))
       ELSE Got(den.at, num.bad \/ den.bad, Node("fraction", <<>>, <<num.node, den.node>>))

Root(R, ts, i) ==
    LET degree == IF i <= Len(ts) /\ ts[i] = "[" THEN R["atom", i] ELSE Got(i, FALSE, NoNode)
        value == R["atom", degree.at]
    IN IF value.node = NoNode THEN Got(value.at, TRUE, Node("unsupported", <<"sqrt">>, <<>>))
       ELSE Got(value.at, degree.bad \/ value.bad, Node("root", <<>>, <<degree.node, value.node>>))

\* An integral keeps `d' and the variable behind it together.
BigOperator(R, i, command) ==
    LET limits == R["scripts", i]
        body == R["scripted", limits.at]
        first == R["scripted", body.at]
        second == R["scripted", first.at]
        pair == first.node # NoNode /\ TextValue[first.node] = <<"d">>
                  /\ second.node # NoNode
        differential ==
            IF pair THEN Got(second.at, first.bad \/ second.bad,
                             Node("sequence", <<>>, <<first.node, second.node>>))
            ELSE first
        bad == limits.bad \/ body.bad \/ body.node = NoNode
        kids == <<Limit(limits, "subscript"), Limit(limits, "superscript"), body.node>>
    IN IF command = "int"
       THEN Got(differential.at, bad \/ differential.bad,
                Node("integral", <<>>, Append(kids, differential.node)))
       ELSE Got(body.at, bad, Node(command, <<>>, kids))

\* One command with its arguments.  An environment has the items up to \end,
\* whatever its name, or to the end of the formula, which is no error.
CommandAtom(R, ts, i, command) ==
    LET operand == R["atom", i]
        argument == R["scripted", i]
        name == GroupText(ts, i)
        body == R["environment", name.at]
        fence == R["fenced", i + 1]
    IN CASE command \notin SupportedCommands ->
              Got(i, FALSE, Node("unsupported", <<command>>, <<>>))
         [] command = "frac" -> Fraction(R, i)
         [] command = "sqrt" -> Root(R, ts, i)
         [] command \in {"sum", "prod", "int"} -> BigOperator(R, i, command)
         [] command \in Styles ->
              Got(operand.at, operand.bad, Node("text", TextValue[operand.node], <<>>))
         [] command \in Accents ->
              IF operand.node = NoNode THEN Got(operand.at, TRUE, Node("unsupported", <<command>>, <<>>))
              ELSE Got(operand.at, operand.bad, Node("accent", <<command>>, <<operand.node>>))
         [] command \in SymbolCommands -> Got(i, FALSE, Leaf("symbol", command))
         [] command \in OperatorCommands -> Got(i, FALSE, Leaf("operator", command))
         [] command \in FunctionCommands ->
              Got(argument.at, argument.bad \/ argument.node = NoNode,
                  Node("function", <<command>>, <<argument.node>>))
         [] command = "operatorname" -> Got(name.at, name.bad, Node("text", name.text, <<>>))
         [] command = "linebreak" -> Got(i, FALSE, Node("linebreak", <<>>, <<>>))
         [] command = "quad" -> Got(i, FALSE, Blank)
         [] command = "begin" ->
              Got(body.at, name.bad \/ body.bad,
                  Node("environment", name.text, <<GroupFromItems(body.items)>>))
         [] command = "end" -> Got(i, FALSE, Node("environment-end", <<>>, <<>>))
         [] command = "left" -> Got(fence.at, fence.bad, GroupFromItems(Fence(ts, i) \o fence.items))
         [] command = "right" ->
              Got(i + 1, FALSE, IF Fence(ts, i) = <<>> THEN Blank ELSE Leaf("text", ts[i]))
         [] command \in Matrices ->
              Got(operand.at, operand.bad, Node("environment", <<command>>, <<operand.node>>))

Atom(R, ts, i) ==
    LET group == R[Closing[ts[i]], i + 1]
    IN IF i > Len(ts) THEN Got(i, FALSE, NoNode)
       ELSE CASE ts[i] \in Opening -> Got(group.at, group.bad, GroupFromItems(group.items))
              [] ts[i] \in Names -> Got(i + 1, FALSE, Leaf("identifier", ts[i]))
              [] ts[i] \in Operators -> Got(i + 1, FALSE, Leaf("operator", ts[i]))
              [] ts[i] = "}" -> Got(i, FALSE, NoNode)
              [] ts[i] \in {")", "]"} -> Got(i + 1, FALSE, Leaf("text", ts[i]))
              [] OTHER -> CommandAtom(R, ts, i + 1, ts[i])

\* What may be read: one node, or the items up to an end.  A closing delimiter
\* stands for the items of the group it closes, "formula" for the whole formula,
\* up to an unmatched delimiter.
Readings == {"atom", "scripted", "scripts", "environment", "fenced", "formula"} \cup Closers

Read[ts \in Seq(STRING), what \in Readings, i \in Nat] ==
    LET R == [reading \in Readings, j \in Nat |-> Read[ts, reading, j]]
        End(bad) == [at |-> i, bad |-> bad, items |-> <<>>]
        Past(at, bad, items) == [at |-> at, bad |-> bad, items |-> items]
        a == R["scripted", i]
        script == R["atom", i + 1]
        operator == what = "formula" /\ a.at <= Len(ts) /\ ts[a.at] \in Operators \ Scripts
        \* The items behind the first one, and the first one with them.
        rest == R[what, IF operator THEN a.at + 1 ELSE a.at]
        first == IF operator THEN <<a.node, Leaf("operator", ts[a.at])>> ELSE <<a.node>>
        Items == Past(rest.at, a.bad \/ rest.bad, first \o rest.items)
        over == i > Len(ts)
    IN CASE what = "atom" -> Atom(R, ts, i)
         [] what = "scripted" -> Scripted(R["atom", i], R["scripts", R["atom", i].at])
         [] what = "scripts" ->
              IF ~AtScript(ts, i) THEN End(FALSE)
              ELSE IF script.node = NoNode THEN Past(script.at, TRUE, <<>>)
              ELSE LET others == R["scripts", script.at]
                       type == IF ts[i] = "_" THEN "subscript" ELSE "superscript"
                   IN Past(others.at, script.bad \/ others.bad,
                           <<Node(type, <<>>, <<script.node>>)>> \o others.items)
         [] what \in Closers ->
              IF over THEN End(TRUE)
              ELSE IF ts[i] \in Closers THEN Past(i + 1, ts[i] # what, <<>>)
              ELSE IF a.node = NoNode THEN Past(a.at, a.bad \/ a.at > Len(ts), <<>>)
              ELSE Items
         [] what = "environment" ->
              IF over THEN End(FALSE)
              ELSE IF ts[i] = "end"
                   THEN Past(GroupText(ts, i + 1).at, GroupText(ts, i + 1).bad, <<>>)
              ELSE IF a.node = NoNode THEN Past(a.at, a.bad, <<>>) ELSE Items
         [] what = "fenced" ->
              IF over THEN End(TRUE)
              ELSE IF ts[i] = "right" THEN Past(i + 2, FALSE, Fence(ts, i + 1))
              ELSE IF a.node = NoNode THEN Past(a.at, TRUE, <<>>) ELSE Items
         [] what = "formula" ->
              IF over \/ ts[i] \in Closers THEN End(FALSE)
              ELSE IF a.node = NoNode THEN Past(a.at, a.bad, <<>>) ELSE Items

MissingOperand(items) ==
    \/ items = <<>>
    \/ IsOperator(items[1]) \/ IsOperator(Last(items))
    \/ \E i \in 1..(Len(items) - 1) : IsOperator(items[i]) /\ IsOperator(items[i + 1])

\* The whole formula: one relation at most, with operands on both sides.
Equals(items) == {i \in DOMAIN items : IsOperator(items[i]) /\ items[i].value = <<"=">>}

Relation(items, at, left, right) ==
    LET Side(side, other) == IF side = <<>> THEN other ELSE BinaryExpression(side)
    IN Got(at, MissingOperand(left) \/ MissingOperand(right) \/ Cardinality(Equals(items)) > 1,
           Node("equation", <<"=">>, <<Side(left, items[1]), Side(right, Last(items))>>))

Expression(at, items) ==
    IF Equals(items) # {}
    THEN LET first == Min(Equals(items))
         IN Relation(items, at, SubSeq(items, 1, first - 1), SubSeq(items, first + 1, Len(items)))
    ELSE Got(at, (\E i \in DOMAIN items : IsOperator(items[i])) /\ MissingOperand(items),
             GroupFromItems(items))

\* Whether the tree holds a command the parser does not know.  The limits of
\* sums, products and integrals are not looked into.
HasUnsupported[n \in Trees] ==
    \/ n.type = "unsupported"
    \/ \E i \in DOMAIN n.kids :
          /\ ~(n.type \in {"sum", "prod", "integral"} /\ Len(n.kids) > 2 /\ i <= 2)
          /\ HasUnsupported[n.kids[i]]

\* parseLatexToMathIR: the tree, and whether it is accepted or only preserved.
Parsed(ts, bad, e) ==
    [accepted |-> ~bad /\ ~e.bad /\ e.at > Len(ts) /\ ~HasUnsupported[e.node], tree |-> e.node]

ParsedItems(ts, top) == Parsed(ts, top.bad, Expression(top.at, top.items))

ParseLatex(ts) ==
    IF ts = <<>> THEN [accepted |-> TRUE, tree |-> Blank] ELSE ParsedItems(ts, Read[ts, "formula", 1])

-----------------------------------------------------------------------------
(* The writers.  raw is the formula's source, which the default writer     *)
(* also puts where a node has nothing to show.                             *)

\* The text of a run made of one node: only a leaf has one.
RunText(n) == IF n.type \in Leaves \cup {"unsupported"} THEN n.value ELSE <<>>

\* Mutant: of a subscript and a superscript only the last is written.
ScriptPartsLast(n) ==
    LET base == n.kids[1]
    IN IF base.type \in {"subscript", "superscript"} /\ base.type # n.type
       THEN <<base.kids[1], n.kids[2]>> ELSE <<base, n.kids[2]>>

\* A script over a script of the other kind shares its base.
ScriptParts(n) ==
    LET base == n.kids[1]
        both == base.type \in {"subscript", "superscript"} /\ base.type # n.type
        inner == base.kids[2]
    IN IF ~both THEN <<base, n.kids[2]>>
       ELSE IF n.type = "subscript" THEN <<base.kids[1], n.kids[2], inner>>
            ELSE <<base.kids[1], inner, n.kids[2]>>

WordRuns[n \in Trees, raw \in Seq(STRING)] ==
    LET All(nodes) == FlattenSeq([i \in DOMAIN nodes |-> WordRuns[nodes[i], raw]])
    IN CASE n.type \in Leaves -> n.value
         [] n.type = "none" \/ n.type = "linebreak" -> <<>>
         [] n.type \in {"subscript", "superscript"} -> All(ScriptParts(n))
         [] n.type \in {"sum", "difference", "product", "quotient", "equation", "binary"}
              /\ Len(n.kids) = 2 ->
              WordRuns[n.kids[1], raw] \o n.value \o WordRuns[n.kids[2], raw]
         [] n.type \in {"fraction", "root", "integral", "sum", "prod"} -> All(n.kids)
         [] n.type = "function" -> n.value \o All(n.kids)
         [] n.type = "accent" -> n.value \o RunText(n.kids[1])
         [] n.type = "environment" /\ Len(n.value) = 1 /\ n.value[1] \in Matrices ->
              IF n.kids[1].type \in {"sequence", "group"}
              THEN All(SelectSeq(n.kids[1].kids, LAMBDA k : k # Leaf("operator", "&")))
              ELSE <<>>
         [] n.type = "environment" -> All(n.kids)
         [] n.type \in {"sequence", "group"} /\ n.kids # <<>> -> All(n.kids)
         [] OTHER -> raw

StreamedRuns[n \in Trees] ==
    LET All(nodes) == FlattenSeq([i \in DOMAIN nodes |-> StreamedRuns[nodes[i]]])
    IN CASE n.type \in {"subscript", "superscript"} -> All(ScriptParts(n))
         [] n.type \in {"sum", "difference", "product", "quotient", "equation", "binary"}
              /\ Len(n.kids) = 2 ->
              StreamedRuns[n.kids[1]] \o n.value \o StreamedRuns[n.kids[2]]
         [] n.type = "function" -> n.value \o All(n.kids)
         [] n.type \in {"fraction", "root", "integral", "sum", "prod", "sequence", "group",
                        "environment"} -> All(n.kids)
         [] OTHER -> RunText(n)

\* A formula as each writer puts it into the file: editable when the parser
\* accepts it, as its source when it does not.
Written(parsed, streamed, ts) ==
    IF ~parsed.accepted THEN [editable |-> FALSE, runs |-> ts]
    ELSE [editable |-> TRUE, runs |-> IF streamed THEN StreamedRuns[parsed.tree]
                                      ELSE WordRuns[parsed.tree, ts]]

=============================================================================
