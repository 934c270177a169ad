------------------------------ MODULE Ranking ------------------------------
(***************************************************************************)
(* What the ranker is told of a document (src/engine/search_engine.hpp,    *)
(* src/ranker/dynamic/dynamic_ranker.hpp and span_finder.hpp): how often   *)
(* each word of the query is in the body, the best field each word is in,  *)
(* the words that are in the title, and the tightest window of the title   *)
(* that has them all.  The formulas that make a score of them, and of the  *)
(* address and the length of the title, are floating point and left out.   *)
(***************************************************************************)
EXTENDS Integers, Sequences, FiniteSets, FiniteSetsExt, SequencesExt

\* build_positions: where each word of the query is in a field.
Positions(query, field) == [t \in DOMAIN query |-> {j \in DOMAIN field : field[j] = query[t]}]

-----------------------------------------------------------------------------
(* find_span.  The words of a query are different, so no two hits are at   *)
(* the same place.                                                         *)

Hits(positions) ==
    SetToSortSeq(UNION {{[pos |-> p, term |-> t] : p \in positions[t]} : t \in DOMAIN positions},
                 LAMBDA a, b : a.pos < b.pos)

Covers(hits, n, left, right) == {hits[i].term : i \in left .. right} = 1 .. n

\* Mutant: a window is recorded as soon as it is complete, before it is shrunk.
LazySlide(hits, n, at, right) ==
    LET complete == Covers(hits, n, at.left, right)
        span == hits[right].pos - hits[at.left].pos
    IN  [left |-> IF complete THEN at.left + 1 ELSE at.left,
         best |-> IF complete /\ (at.best = <<>> \/ span < at.best.span)
                  THEN [span |-> span, left |-> at.left, right |-> right] ELSE at.best]

\* One step of the sliding window: it takes in the next hit and gives up hits on its
\* left while it has every word; the last window that still had them all is the tightest.
Slide(hits, n, at, right) ==
    LET lefts == {l \in at.left .. right : Covers(hits, n, l, right)}
        last == Max(lefts)
        span == hits[right].pos - hits[last].pos
    IN  IF lefts = {} THEN at
        ELSE [left |-> last + 1,
              best |-> IF at.best = <<>> \/ span < at.best.span
                       THEN [span |-> span, left |-> last, right |-> right] ELSE at.best]

BestWindow(hits, n) ==
    FoldLeft(LAMBDA at, right : Slide(hits, n, at, right), [left |-> 1, best |-> <<>>],
             [i \in DOMAIN hits |-> i]).best

\* The first place of each word in the window; they rise if the words are in order.
InOrder(hits, n, window) ==
    LET first(t) == Min({i \in window.left .. window.right : hits[i].term = t})
    IN  \A t \in 2 .. n : first(t - 1) <= first(t)

NoSpan == [all |-> FALSE, span |-> 0, ordered |-> FALSE, exact |-> FALSE]

WindowSpan(hits, n, window) ==
    LET ordered == InOrder(hits, n, window)
    IN  [all |-> TRUE, span |-> window.span, ordered |-> ordered,
         exact |-> window.span = n - 1 /\ ordered]

FindSpan(positions) ==
    LET n == Len(positions)
        hits == Hits(positions)
    IN  CASE n = 0 \/ (\E t \in 1 .. n : positions[t] = {}) -> NoSpan
          [] n = 1 /\ positions[1] # {} -> [all |-> TRUE, span |-> 0, ordered |-> TRUE, exact |-> TRUE]
          [] OTHER -> WindowSpan(hits, n, BestWindow(hits, n))

-----------------------------------------------------------------------------
(* The other signals *)

\* t1_metastream: the address counts more than the title, and that more than the body.
\* Anchor texts do not count.
BestField(word, meta, inBody) ==
    CASE word \in Range(meta.url) -> "url"
      [] word \notin Range(meta.url) /\ word \in Range(meta.title) -> "title"
      [] word \notin Range(meta.url) \cup Range(meta.title) /\ inBody > 0 -> "body"
      [] OTHER -> "none"

\* What search_level gathers of a match: the span the readers found, and for the words
\* of the query, of which inBody says how often they are in the body, the rest.
Candidate(match, query, meta, inBody) ==
    [doc |-> match.doc,
     bodySpan |-> match.span,
     bodyTf |-> inBody,
     fields |-> [t \in DOMAIN query |-> BestField(query[t], meta, inBody[t])],
     titleSpan |-> FindSpan(Positions(query, meta.title)),
     inTitle |-> {t \in DOMAIN query : query[t] \in Range(meta.title)}]
=============================================================================
