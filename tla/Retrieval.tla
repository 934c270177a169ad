----------------------------- MODULE Retrieval -----------------------------
(***************************************************************************)
(* A search in the levels of one engine: query::compile, then for each     *)
(* level compile_to_isr, the walk over the documents that match, and what  *)
(* the ranker is told of them (src/engine/search_engine.hpp,               *)
(* src/query/query_compiler.hpp).                                          *)
(*                                                                         *)
(* The levels are built from pages, written and loaded when the engine     *)
(* starts, and then only read.                                             *)
(***************************************************************************)
EXTENDS QueryAst, Isr, IndexLevels, Ranking

CONSTANTS
    Texts,     \* what users may type
    Dropped    \* pages with an excluded address or title, or a score below zero

ASSUME RetrievalAssumption == Texts # {} /\ Corpora # <<>>

VARIABLES
    raw,       \* the text, until a level is searched
    tree,      \* the tree as it was parsed
    ast,       \* the tree, normalized
    terms,     \* its words for ranking
    level,     \* the level that is searched, or 0
    root,      \* the reader
    matches,   \* the documents found and their spans
    results    \* those search_level returns, with the signals their scores are made of

query == <<raw, tree, ast, terms>>
vars == <<pc, query, levels, level, root, matches, results>>

Index == levels[level]

\* query::compile.  Without a tree there is nothing to search for.
Submit(text) ==
    /\ pc = "idle"
    /\ raw' = text
    /\ tree' = Parse(text)
    /\ ast' = Normal(tree')
    /\ terms' = ExtractTerms(ast')
    /\ pc' = IF IsNull(tree') \/ terms' = <<>> THEN "searched" ELSE "compiled"
    /\ UNCHANGED <<levels, level, root, matches, results>>

\* search_level: the tree becomes a reader of the next level.
SearchLevel ==
    /\ pc = "compiled"
    /\ level' = level + 1
    /\ root' = Compile(levels[level'], ast)
    /\ matches' = <<>>
    /\ raw' = <<>>
    /\ pc' = "walk"
    /\ UNCHANGED <<tree, ast, terms, levels, results>>

-----------------------------------------------------------------------------
(* Spans, for the ranker *)

Exact(span, n, ordered) == span = n - 1 /\ ordered

\* GetMatchSpan: of a conjunction, from the first match of any child to the last end.
RECURSIVE SpanOf(_)
SpanOf(it) ==
    LET n == Len(it.kids)
        ordered == \A i \in 2 .. n : it.kids[i].start >= it.kids[i - 1].start
    IN  CASE it.kind = "word" -> [span |-> 0, ordered |-> TRUE, exact |-> TRUE]
          [] it.kind = "phrase" -> [span |-> n - 1, ordered |-> TRUE, exact |-> TRUE]
          [] it.kind = "or" -> SpanOf(it.kids[it.child])
          [] it.kind = "all" -> [span |-> it.end - it.start, ordered |-> ordered,
                                 exact |-> Exact(it.end - it.start, n, ordered)]

-----------------------------------------------------------------------------
(* The walk *)

HasMatch == root.valid /\ DocId(Index, root) >= 0

Advance(it, d) == SkipToDoc(Index, it, d + 1)

\* One round of the loop of walk_isr_docs; SkipToDoc fails past the last document.
WalkOn ==
    LET d == DocId(Index, root)
    IN  /\ pc = "walk"
        /\ HasMatch
        /\ matches' = IF matches # <<>> /\ Last(matches).doc = d THEN matches
                      ELSE Append(matches, [doc |-> d, span |-> SpanOf(root)])
        /\ root' = Advance(root, d)
        /\ pc' = IF d + 1 < NumDocs(Index) /\ root'.valid THEN "walk" ELSE "walked"
        /\ UNCHANGED <<query, levels, level, results>>

WalkEnds ==
    /\ pc = "walk"
    /\ ~HasMatch
    /\ pc' = "walked"
    /\ UNCHANGED <<query, levels, level, root, matches, results>>

\* GetFieldTermFrequency of each word of the query, in the body.
InBody(d) == [t \in DOMAIN terms |-> Cardinality(FieldPositions(Index, d, terms[t], "body"))]

\* The rest of search_level, but for the order that the scores put the results in.
Rank ==
    LET meta(m) == Index.docs[m.doc + 1]
        ranked == SelectSeq(matches, LAMBDA m : Index.pages[m.doc + 1] \notin Dropped)
    IN  /\ pc = "walked"
        /\ results' = [i \in DOMAIN ranked |->
                          Candidate(ranked[i], terms, meta(ranked[i]), InBody(ranked[i].doc))]
        /\ pc' = "searched"
        /\ UNCHANGED <<query, levels, level, root, matches>>

\* search() goes on to the next level ...
NextLevel ==
    /\ pc = "searched"
    /\ level \in 1 .. Len(levels) - 1
    /\ pc' = "compiled"
    /\ root' = NoIsr
    /\ matches' = <<>>
    /\ results' = <<>>
    /\ UNCHANGED <<query, levels, level>>

\* ... and returns after the last, or at once if there is nothing to search for.
Return ==
    /\ pc = "searched"
    /\ level \in {0, Len(levels)}
    /\ pc' = "idle"
    /\ raw' = <<>>
    /\ tree' = Null
    /\ ast' = Null
    /\ terms' = <<>>
    /\ level' = 0
    /\ root' = NoIsr
    /\ matches' = <<>>
    /\ results' = <<>>
    /\ UNCHANGED levels

Init ==
    /\ pc = "idle"
    /\ raw = <<>>
    /\ tree = Null
    /\ ast = Null
    /\ terms = <<>>
    /\ LoadLevels
    /\ level = 0
    /\ root = NoIsr
    /\ matches = <<>>
    /\ results = <<>>

Next ==
    \/ \E text \in Texts : Submit(text)
    \/ SearchLevel
    \/ WalkOn
    \/ WalkEnds
    \/ Rank
    \/ NextLevel
    \/ Return

Spec == Init /\ [][Next]_vars

-----------------------------------------------------------------------------
(* What pages say and queries ask for *)

Spelled(tokens) == [i \in DOMAIN tokens |-> tokens[i].term]

\* Where the words stand next to each other, as positions in the page.
PlacesIn(page, words) ==
    {i \in 1 .. Len(Tokens(page)) - Len(words) + 1 :
        SubSeq(Spelled(Tokens(page)), i, i + Len(words) - 1) = words}

\* The words stand next to each other in one field of the page.
Says(page, words) ==
    \E i \in PlacesIn(page, words) :
        \A j \in i .. i + Len(words) - 1 : Tokens(page)[j].dec = Tokens(page)[i].dec

\* A NOT by itself asks for nothing, nor does an AND of nothing else.
RECURSIVE Asks(_)
Asks(n) ==
    CASE n.kind \in {"null", "not"} -> FALSE
      [] n.kind \in {"word", "phrase"} -> TRUE
      [] OTHER -> \E i \in DOMAIN n.kids : Asks(n.kids[i])

\* The query as a Boolean expression, without the parts that ask for nothing.
RECURSIVE Wants(_, _)
Wants(n, page) ==
    CASE n.kind = "word" -> Says(page, <<n.term>>)
      [] n.kind = "phrase" -> Says(page, WordsOf(n))
      [] n.kind = "not" -> ~Asks(n.kids[1]) \/ ~Wants(n.kids[1], page)
      [] n.kind = "or" -> \E k \in Range(n.kids) : Asks(k) /\ Wants(k, page)
      [] n.kind = "and" -> /\ Asks(n)
                           /\ \A k \in Range(n.kids) : (Asks(k) \/ k.kind = "not") => Wants(k, page)
      [] OTHER -> FALSE

\* No stop words, and each NOT of something that asks, next to something else that asks.
RECURSIVE Plain(_)
Plain(n) ==
    CASE n.kind = "word" -> n.term \notin StopWords
      [] n.kind = "phrase" -> TRUE
      [] n.kind = "or" -> \A k \in Range(n.kids) : k.kind # "not" /\ Plain(k)
      [] n.kind = "and" -> /\ \E k \in Range(n.kids) : k.kind # "not"
                           /\ \A k \in Range(n.kids) :
                                IF k.kind = "not" THEN k.kids[1].kind # "not" /\ Plain(k.kids[1])
                                ELSE Plain(k)
      [] OTHER -> FALSE

RECURSIVE Means(_, _)
Means(n, page) ==
    CASE n.kind = "word" -> Says(page, <<n.term>>)
      [] n.kind = "phrase" -> Says(page, WordsOf(n))
      [] n.kind = "not" -> ~Means(n.kids[1], page)
      [] n.kind = "or" -> \E k \in Range(n.kids) : Means(k, page)
      [] n.kind = "and" -> \A k \in Range(n.kids) : Means(k, page)

\* The query as one would type it.
RECURSIVE Printed(_)
Printed(n) ==
    LET group(k) == <<"(">> \o Printed(k) \o <<")">>
        inAnd(k) == IF k.kind \in {"and", "or"} THEN group(k) ELSE Printed(k)
        inOr(k) == IF k.kind = "or" THEN group(k) ELSE Printed(k)
    IN  CASE n.kind = "null" -> <<>>
          [] n.kind = "word" -> <<n.term>>
          [] n.kind = "phrase" -> <<"\"">> \o WordsOf(n) \o <<"\"">>
          [] n.kind = "not" -> <<"-">> \o (IF n.kids[1].kind = "not" THEN group(n.kids[1])
                                           ELSE inAnd(n.kids[1]))
          [] n.kind = "and" -> FlattenSeq([i \in DOMAIN n.kids |-> inAnd(n.kids[i])])
          [] n.kind = "or" -> Tail(FlattenSeq([i \in DOMAIN n.kids |-> <<"|">> \o inOr(n.kids[i])]))

-----------------------------------------------------------------------------
(* Properties of the parser and of the search *)

QuotesIn(text) == {i \in DOMAIN text : text[i] = "\""}

\* Every quoted text has words in it, a minus sign has something after it, and no
\* parenthesis is closed that was not opened.
WellFormed(text) ==
    /\ \A i, j \in QuotesIn(text) :
          (i < j /\ ~\E k \in QuotesIn(text) : i < k /\ k < j) =>
              \E k \in i .. j : IsWord(text[k])
    /\ \A n \in 1 .. Len(text) :
          Cardinality({i \in 1 .. n : text[i] = ")"}) <= Cardinality({i \in 1 .. n : text[i] = "("})
    /\ text # <<>> => IsWord(Last(text)) \/ Last(text) \in {"\"", ")"}

\* The parser makes up no word, changes no order, and gives up none of the words of a
\* text with balanced parentheses, no empty quotes and no dangling end; and typed as
\* it is understood, with the parentheses its grammar asks for, a query is understood
\* the same again: AND binds before OR, NOT before both.  (Parser, and the grammar at
\* the head of query_ast.hpp.)
QueryKept ==
    LET said == SelectSeq(raw, IsWord)
    IN  raw # <<>> => /\ IsPrefix(WordsOf(tree), said)
                      /\ WellFormed(raw) => WordsOf(tree) = said
                      /\ Parse(Printed(tree)) = tree

Found == [i \in DOMAIN matches |-> matches[i].doc]

DocsWhere(Test(_)) == SetToSortSeq({d \in 0 .. NumDocs(Index) - 1 : Test(Index.pages[d + 1])}, <)

\* The walk finds each document that the normalized query wants once, in order, and no
\* other, however the readers leapfrog.  (isr.cpp, walk_isr_docs.)
FindsExactly ==
    (pc = "searched" /\ level > 0 /\ InRange(Index)) =>
        Found = DocsWhere(LAMBDA page : Asks(ast) /\ Wants(ast, page))

\* A query without stop words and stray NOTs finds the documents that it is true of,
\* as it was typed: normalization and compilation change nothing.
MeansWhatItSays ==
    (pc = "searched" /\ level > 0 /\ InRange(Index) /\ Plain(tree)) =>
        Found = DocsWhere(LAMBDA page : Means(tree, page))

DistinctWords(n) ==
    /\ n.kind = "and"
    /\ \A k \in Range(n.kids) : k.kind = "word"
    /\ IsInjective(WordsOf(n))

\* A place in the title for each word of the query.
PlacesOf(title) ==
    {f \in [DOMAIN terms -> DOMAIN title] : \A t \in DOMAIN terms : title[f[t]] = terms[t]}

Width(f) == Max(Range(f)) - Min(Range(f))

Tightest(title) == {f \in PlacesOf(title) : \A g \in PlacesOf(title) : Width(f) <= Width(g)}

Reads(title, f) == SubSeq(title, Min(Range(f)), Max(Range(f))) = terms

\* The ranker is told the truth.  A document that is said to have the words of a query
\* as an exact phrase has them next to each other, in its text or in its title; the
\* window of the title is as tight as any that has every word, and exact if all those
\* as tight are; and the body counts are those of the page.  (ISRAnd::GetMatchSpan,
\* find_span, GetFieldTermFrequency.)
SignalsTrue ==
    (pc = "searched" /\ level > 0 /\ InRange(Index)) =>
        \A r \in Range(results) :
            LET page == Index.pages[r.doc + 1]
                tightest == Tightest(page.title)
            IN  /\ (DistinctWords(ast) /\ r.bodySpan.exact) => PlacesIn(page, WordsOf(ast)) # {}
                /\ r.titleSpan.all = (PlacesOf(page.title) # {})
                /\ \A f \in tightest : r.titleSpan.span = Width(f)
                /\ r.titleSpan.exact => \E f \in tightest : Reads(page.title, f)
                /\ (r.titleSpan.all /\ \A f \in tightest : Reads(page.title, f)) => r.titleSpan.exact
                /\ \A t \in DOMAIN terms :
                      r.bodyTf[t] = Cardinality({i \in DOMAIN page.words : page.words[i] = terms[t]})
=============================================================================
