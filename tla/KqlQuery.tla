------------------------------ MODULE KqlQuery ------------------------------
(***************************************************************************)
(* Search queries: how the nodes of a KQL query are connected, and how     *)
(* they are compiled to a bleve query.  A query is typed token by token;   *)
(* whenever it is complete, what the compiled query finds is compared with *)
(* what the query says: NOT binds tightest, then AND, then OR, and groups  *)
(* hold together.                                                          *)
(*                                                                         *)
(* A term is a field and a value.  The values of a query are all distinct, *)
(* so a document is the set of terms it matches.                           *)
(***************************************************************************)
EXTENDS Naturals, Sequences, FiniteSets, SequencesExt

CONSTANTS Keys, Kinds, MaxTokens, MaxTerms, MaxDepth

VARIABLES
    stack,      \* the groups that are open, innermost last, and their nodes
    terms,      \* terms typed
    tokens

vars == <<stack, terms, tokens>>

Term(kind, key, v) == [t |-> kind, key |-> key, v |-> v, nodes |-> <<>>]
Op(o) == [t |-> o, key |-> "", v |-> 0, nodes |-> <<>>]
Group(key, nodes) == [t |-> "group", key |-> key, v |-> 0, nodes |-> nodes]

IsOp(n) == n.t \in {"AND", "OR", "NOT"}
Is(n, o) == n.t = o
Binary(n) == Is(n, "AND") \/ Is(n, "OR")

Nodes == Last(stack).nodes
Complete == Len(stack) = 1 /\ Nodes # <<>>

Init == stack = <<[key |-> "", nodes |-> <<>>]>> /\ terms = 0 /\ tokens = 0

Typed(s) == stack' = s /\ tokens < MaxTokens /\ tokens' = tokens + 1
Added(n) == Typed([stack EXCEPT ![Len(stack)].nodes = Append(@, n)])

\* no node in a group with a key has a key of its own
Fits(key) == Last(stack).key # "" => key = ""

----------------------------------------------------------------------------
(* The parser                                                              *)

TypeTerm ==
    \E kind \in Kinds, key \in Keys :
        /\ kind # "plain" => key = "" /\ Last(stack).key = ""
        /\ Fits(key) /\ terms < MaxTerms
        /\ Added(Term(kind, IF kind = "plain" THEN key ELSE "mediatype", terms + 1))
        /\ terms' = terms + 1

\* neither a query nor a group begins with AND or OR
TypeOperator ==
    \E o \in {"AND", "OR", "NOT"} :
        /\ o # "NOT" => Nodes # <<>> /\ ~IsOp(Last(Nodes))
        /\ Added(Op(o))
        /\ UNCHANGED terms

OpenGroup ==
    \E key \in Keys :
        /\ Fits(key) /\ Len(stack) <= MaxDepth
        /\ Typed(Append(stack, [key |-> key, nodes |-> <<>>]))
        /\ UNCHANGED terms

CloseGroup ==
    /\ Len(stack) > 1 /\ Nodes # <<>>
    /\ LET rest == Front(stack) IN
       Typed([rest EXCEPT ![Len(rest)].nodes = Append(@, Group(Last(stack).key, Nodes))])
    /\ UNCHANGED terms

Next == TypeTerm \/ TypeOperator \/ OpenGroup \/ CloseGroup

Spec == Init /\ [][Next]_vars

----------------------------------------------------------------------------
(* connectNodes, from the last node to the first                           *)

\* a node, its nearest neighbour that is no operator, and the operators in between
Connect(head, neighbour, ops) ==
    IF IsOp(head) \/ (ops # <<>> /\ Binary(ops[1])) THEN <<>>
    ELSE IF head.key = neighbour.key /\ head.key # "" /\ ops = <<>> THEN <<Op("OR")>>
    ELSE <<Op("AND")>>

ConnectNode(head, tail) ==
    IF \A i \in 1..Len(tail) : IsOp(tail[i]) THEN <<>>
    ELSE LET near == CHOOSE i \in 1..Len(tail) : ~IsOp(tail[i]) /\ \A j \in 1..(i - 1) : IsOp(tail[j])
         IN  Connect(head, tail[near], SubSeq(tail, 1, near - 1))

ConnectNodes(nodes) ==
    FoldRight(LAMBDA head, connected : <<head>> \o ConnectNode(head, connected) \o connected, nodes, <<>>)

RECURSIVE BuildAST(_)
BuildAST(nodes) ==
    ConnectNodes([i \in 1..Len(nodes) |->
        IF nodes[i].t = "group" THEN Group(nodes[i].key, BuildAST(nodes[i].nodes)) ELSE nodes[i]])

----------------------------------------------------------------------------
(* The compiler                                                            *)

None == [q |-> "none"]
Query(n, i) == [q |-> "term", a |-> <<n.key, n.v, i>>]
Conj(s) == [q |-> "conj", s |-> s]
Disj(s) == [q |-> "disj", s |-> s]
Not(q) == [q |-> "not", s |-> <<q>>]

\* a class of media types is a disjunction
MimeType(n) ==
    CASE n.t = "class" -> Disj(<<Query(n, 1), Query(n, 2)>>)
      [] n.t = "file" -> Not(Query(n, 1))
      [] OTHER -> Query(n, 1)

MapBinaryLoose(op, ln, rn, leftIsGroup) ==
    IF op = "OR" THEN Disj((IF ln.q = "disj" THEN ln.s ELSE <<ln>>) \o (IF rn.q = "disj" /\ ln.q # "conj" THEN rn.s ELSE <<rn>>))
    ELSE IF ln.q = "conj" THEN Conj(Append(ln.s, rn))
    ELSE Conj(<<ln, rn>>)

\* AND takes the last disjunct of what is on its left, unless that is a group
MapBinary(op, ln, rn, leftIsGroup) ==
    IF op = "OR" THEN Disj((IF ln.q = "disj" THEN ln.s ELSE <<ln>>) \o (IF rn.q = "disj" /\ ln.q # "conj" THEN rn.s ELSE <<rn>>))
    ELSE IF ln.q = "conj" THEN Conj(Append(ln.s, rn))
    ELSE IF ln.q = "disj" /\ ~leftIsGroup THEN Disj(Append(Front(ln.s), Conj(<<Last(ln.s), rn>>)))
    ELSE Conj(<<ln, rn>>)

NormalizeGroupingProperty(n) ==
    IF n.key = "" THEN n.nodes
    ELSE [i \in 1..Len(n.nodes) |-> IF n.nodes[i].t = "plain" THEN [n.nodes[i] EXCEPT !.key = n.key] ELSE n.nodes[i]]

\* the loop's variables; skip is the code's offset, in positions that count from 1
Start(from) == [i |-> from, skip |-> from, prev |-> None, next |-> None, op |-> "", isGroup |-> FALSE, out |-> "ok"]

Operand(w, q, isGroup) ==
    IF w.prev = None THEN [w EXCEPT !.prev = q, !.isGroup = isGroup] ELSE [w EXCEPT !.next = q]

Combine(w) ==
    IF w.prev # None /\ w.next # None /\ w.op # ""
    THEN [w EXCEPT !.prev = MapBinary(w.op, w.prev, w.next, w.isGroup), !.isGroup = FALSE, !.op = "", !.next = None]
    ELSE w

\* past what nextNode consumed, and on
Advance(w) == [w EXCEPT !.i = (IF w.i < w.skip THEN w.skip ELSE w.i) + 1]

RECURSIVE Walk(_, _), NextNode(_, _)

\* the next operand is left in next when there was nothing before the NOT
Negate(w, nodes) ==
    LET r == NextNode(w.i + 1, nodes) IN
    IF r.out # "ok" THEN [w EXCEPT !.out = r.out]
    ELSE IF w.prev = None THEN [w EXCEPT !.prev = Not(r.prev), !.next = r.prev, !.skip = r.skip]
    ELSE [w EXCEPT !.next = Not(r.prev), !.skip = r.skip]

WalkNode(w, nodes) ==
    LET n == nodes[w.i] IN
    CASE Binary(n) -> [w EXCEPT !.op = n.t]
      [] Is(n, "NOT") -> Negate(w, nodes)
      [] n.t = "group" -> LET r == Walk(Start(1), NormalizeGroupingProperty(n)) IN
                          IF r.out # "ok" THEN [w EXCEPT !.out = r.out] ELSE Operand(w, r.prev, TRUE)
      [] OTHER -> Operand(w, MimeType(n), n.t = "class")

Walk(w, nodes) ==
    IF w.out # "ok" THEN w
    ELSE IF w.i > Len(nodes) THEN IF w.prev = None THEN [w EXCEPT !.out = "error"] ELSE w
    ELSE Walk(Advance(Combine(WalkNode(w, nodes))), nodes)

\* an index past the end panics
NextNode(at, nodes) ==
    IF at > Len(nodes) THEN [Start(at) EXCEPT !.out = "panic"]
    ELSE IF nodes[at].t = "group" THEN [Walk(Start(1), nodes[at].nodes) EXCEPT !.skip = at + 1]
    ELSE IF Is(nodes[at], "NOT") THEN Walk(Start(at), nodes)
    ELSE Walk(Start(at), SubSeq(nodes, 1, at))

Compile(nodes) == Walk(Start(1), BuildAST(nodes))

\* how the search engine evaluates a query on a document
RECURSIVE Finds(_, _)
Finds(q, doc) ==
    CASE q.q = "term" -> q.a \in doc
      [] q.q = "conj" -> \A i \in 1..Len(q.s) : Finds(q.s[i], doc)
      [] q.q = "disj" -> \E i \in 1..Len(q.s) : Finds(q.s[i], doc)
      [] OTHER -> ~Finds(q.s[1], doc)

----------------------------------------------------------------------------
(* What a query says                                                       *)

\* an operator between operands that have none
Joint(nodes, i) ==
    IF i = Len(nodes) THEN <<>>
    ELSE IF IsOp(nodes[i]) \/ Binary(nodes[i + 1]) THEN <<>>
    ELSE IF ~IsOp(nodes[i + 1]) /\ nodes[i].key # "" /\ nodes[i].key = nodes[i + 1].key THEN <<Op("OR")>>
    ELSE <<Op("AND")>>

Explicit(nodes) == FlattenSeq([i \in 1..Len(nodes) |-> <<nodes[i]>> \o Joint(nodes, i)])

Before(s, i) == SubSeq(s, 1, i - 1)
After(s, i) == SubSeq(s, i + 1, Len(s))
At(s, o) == {i \in 1..Len(s) : Is(s[i], o)}

RECURSIVE Says(_, _, _)
Says(s, key, doc) ==
    LET n == s[1]
        k == IF key = "" THEN n.key ELSE key
    IN  CASE At(s, "OR") # {} -> LET i == CHOOSE i \in At(s, "OR") : TRUE IN Says(Before(s, i), key, doc) \/ Says(After(s, i), key, doc)
          [] At(s, "OR") = {} /\ At(s, "AND") # {} ->
                LET i == CHOOSE i \in At(s, "AND") : TRUE IN Says(Before(s, i), key, doc) /\ Says(After(s, i), key, doc)
          [] Len(s) > 1 /\ At(s, "OR") \cup At(s, "AND") = {} -> ~Says(Tail(s), key, doc)
          [] OTHER -> CASE n.t = "group" -> Says(Explicit(n.nodes), k, doc)
                        [] n.t = "class" -> <<n.key, n.v, 1>> \in doc \/ <<n.key, n.v, 2>> \in doc
                        [] n.t = "file" -> <<n.key, n.v, 1>> \notin doc
                        [] OTHER -> <<k, n.v, 1>> \in doc

\* the nodes of the query and of its groups, with the key that holds for them
RECURSIVE Lists(_, _)
Lists(nodes, key) ==
    {<<nodes, key>>} \cup UNION {Lists(nodes[i].nodes, IF key = "" THEN nodes[i].key ELSE key) :
                                  i \in {j \in 1..Len(nodes) : nodes[j].t = "group"}}


\* every operator has its operands
WellFormed == \A l \in Lists(Nodes, "") : ~IsOp(Last(l[1]))

\* the shapes the compiler reads differently
NotFirst(s, key) == Is(s[1], "NOT") /\ At(s, "AND") \cup At(s, "OR") # {}
NotNot(s, key) == \E i \in 1..(Len(s) - 1) : Is(s[i], "NOT") /\ Is(s[i + 1], "NOT")
NotGroup(s, key) == \E i \in 1..(Len(s) - 2) : Is(s[i], "NOT") /\ s[i + 1].t = "group"
InOr(s, key) == \E i \in 1..(Len(s) - 2) : Is(s[i], "OR") /\ s[i + 1].t \in {"group", "class"} /\ Is(s[i + 2], "AND")
LostKey(s, key) ==
    \E i \in 1..Len(s) : s[i].t = "group" /\ (key # "" \/ (s[i].key # "" /\ i > 1 /\ Is(s[i - 1], "NOT")))

Docs ==
    LET leaves == {n \in UNION {Range(l[1]) : l \in Lists(Nodes, "")} : n.t \in Kinds} IN
    SUBSET UNION {IF n.t = "plain" THEN {<<k, n.v, 1>> : k \in Keys} ELSE {<<n.key, n.v, i>> : i \in 1..2} : n \in leaves}

Has(P(_, _)) == \E l \in Lists(Nodes, "") : P(Explicit(l[1]), l[2])

Same ==
    LET c == Compile(Nodes) IN
    c.out = "ok" /\ LET d == Docs e == Explicit(Nodes) IN \A doc \in d : Finds(c.prev, doc) = Says(e, "", doc)

Plain == Complete /\ WellFormed /\ ~Has(NotNot)

----------------------------------------------------------------------------
(* connectNodes puts exactly one operator between operands, the one that   *)
(* the two have at their sides decide, also across groups and negations.   *)
Connected == (Complete /\ WellFormed) => ConnectNodes(Nodes) = Explicit(Nodes)

(* The compiled query finds the documents that the query describes.  Left  *)
(* out are the shapes that the compiler reads differently: NOT after NOT,  *)
(* a list that begins with NOT and goes on, a group after NOT, a group or  *)
(* a media class between OR and AND, and a group in a group with a key.    *)
FindsTheSame == (Plain /\ ~Has(NotFirst) /\ ~Has(NotGroup) /\ ~Has(InOr) /\ ~Has(LostKey)) => Same
=============================================================================
