-------------------------------- MODULE Isr --------------------------------
(***************************************************************************)
(* The index stream readers (src/index/isr.cpp): iterators over one level  *)
(* of the index, composed into a tree, and compile_to_isr, which makes the *)
(* tree for a query (src/query/query_ast.hpp).                             *)
(*                                                                         *)
(* An iterator is a record, and an operation returns the record as it is   *)
(* afterwards.  All have: kind, valid, start, end and dec of the current   *)
(* match.  A word reader is that of WordReader, an "or" has the child that *)
(* its match comes from, an "all" the document.  An "all" is     *)
(* ISRContainer, and ISRAnd, which does the same with nothing excluded.    *)
(***************************************************************************)
EXTENDS WordReader

\* GetCurrentDocId searches the ranges for the start of the match.
DocAt(lv, pos) ==
    LET at == {d \in 0 .. NumDocs(lv) - 1 : DocStart(lv, d) <= pos /\ pos <= lv.docs[d + 1].end}
    IN  IF at = {} THEN -1 ELSE Min(at)

DocId(lv, it) ==
    CASE ~it.valid -> -1
      [] it.valid /\ it.kind = "all" -> it.doc
      [] OTHER -> DocAt(lv, it.start)

Exhausted(it) == [it EXCEPT !.valid = FALSE]

-----------------------------------------------------------------------------
(* ISRPhrase, over words *)

\* Word i of a phrase is in its place after the first, and in the same field.
Fits(tail, i, head) == tail.valid /\ tail.start = head.start + i - 1 /\ tail.dec = head.dec

\* The other words are sought after the first.
SoughtAfter(lv, kids) ==
    [i \in DOMAIN kids |-> IF i = 1 THEN kids[1] ELSE SeekWord(lv, kids[i], kids[1].start + i - 1)]

PhraseAt(kids) ==
    [kind |-> "phrase", kids |-> kids, valid |-> TRUE, start |-> kids[1].start,
     end |-> kids[1].start + Len(kids) - 1, dec |-> kids[1].dec]

RECURSIVE PhraseFrom(_, _)

\* Once the others are sought: a match, or the first word goes on.
PhraseOrNext(lv, kids) ==
    IF \A i \in 2 .. Len(kids) : Fits(kids[i], i, kids[1]) THEN PhraseAt(kids)
    ELSE PhraseFrom(lv, [kids EXCEPT ![1] = NextWord(lv, @)])

\* findFromCurrent: the first word goes on until the others are found after it.  The
\* code leaves the rest of a phrase be at the first word that does not fit; looking
\* for all of them changes nothing, because no later place of theirs is missed.
PhraseFrom(lv, kids) ==
    IF kids[1].valid THEN PhraseOrNext(lv, SoughtAfter(lv, kids)) ELSE Exhausted(PhraseAt(kids))

-----------------------------------------------------------------------------
(* ISROr *)

\* pickMin: the child with the first match, the first of them if there are several.
PickMin(kids) ==
    LET valid == {i \in DOMAIN kids : kids[i].valid}
        least == {i \in valid : \A j \in valid : kids[i].start <= kids[j].start}
        child == Min(least)
        none == [kind |-> "or", kids |-> kids, child |-> 0, valid |-> FALSE, start |-> 0, end |-> 0,
                 dec |-> NoDecoration]
    IN  IF valid = {} THEN none
        ELSE [none EXCEPT !.child = child, !.valid = TRUE, !.start = kids[child].start,
                          !.end = kids[child].end]

-----------------------------------------------------------------------------
(* ISRContainer and ISRAnd, and seeking in any of them *)

RECURSIVE Seek(_, _, _), Converge(_, _, _), AllFrom(_, _, _, _)

SkipToDoc(lv, it, d) ==
    IF d \notin 0 .. NumDocs(lv) - 1 THEN it ELSE Seek(lv, it, DocStart(lv, d))

SkipAll(lv, kids, d) ==
    [i \in DOMAIN kids |-> IF kids[i].valid /\ DocId(lv, kids[i]) < d
                           THEN SkipToDoc(lv, kids[i], d) ELSE kids[i]]

\* The children have been sent to the target: it is the document, or the furthest of
\* them has the next target.
ConvergeOn(lv, moved, target) ==
    LET last == Max({DocId(lv, moved[i]) : i \in DOMAIN moved})
    IN  IF target >= NumDocs(lv) \/ (\E i \in DOMAIN moved : ~moved[i].valid)
        THEN [doc |-> -1, kids |-> moved]
        ELSE IF last = target THEN [doc |-> target, kids |-> moved]
        ELSE Converge(lv, moved, last)

\* The first document from the target on that every child has a match in; -1 as soon
\* as one has no more.
Converge(lv, kids, target) == ConvergeOn(lv, SkipAll(lv, kids, target), target)

\* Mutant: an excluded child is asked where it is and not moved.
StaleBar(lv, nots, doc) == nots

\* anyExcludedIn brings the excluded children up to the document; the code stops at
\* the first that is in it and moves the others when it asks again.
Bar(lv, nots, doc) == SkipAll(lv, nots, doc)

AllAt(met, nots) ==
    [kind |-> "all", kids |-> met.kids, nots |-> nots, valid |-> TRUE, doc |-> met.doc,
     start |-> Min({k.start : k \in Range(met.kids)}), end |-> Max({k.end : k \in Range(met.kids)}),
     dec |-> NoDecoration]

\* The excluded children have been brought up to the document that was met.
AllUnlessBarred(lv, met, nots) ==
    IF \E i \in DOMAIN nots : DocId(lv, nots[i]) = met.doc
    THEN AllFrom(lv, met.kids, nots, met.doc + 1)
    ELSE AllAt(met, nots)

AllMet(lv, met, nots) ==
    IF met.doc < 0 THEN Exhausted(AllAt(met, nots))
    ELSE AllUnlessBarred(lv, met, Bar(lv, nots, met.doc))

\* findNext: past the documents an excluded child is in.
AllFrom(lv, kids, nots, target) == AllMet(lv, Converge(lv, kids, target), nots)

\* ISREndDoc::Seek: the first document that ends at the location or after it.
DocFrom(lv, loc) == {d \in 0 .. NumDocs(lv) - 1 : loc <= lv.docs[d + 1].end}

Seek(lv, it, loc) ==
    CASE it.kind = "word" -> SeekWord(lv, it, loc)
      [] it.kind = "phrase" ->
            PhraseFrom(lv, [it.kids EXCEPT ![1] = SeekWord(lv, @, loc)])
      [] it.kind = "or" ->
            PickMin([i \in DOMAIN it.kids |-> IF it.kids[i].valid /\ it.kids[i].start < loc
                                              THEN Seek(lv, it.kids[i], loc) ELSE it.kids[i]])
      [] it.kind = "all" ->
            IF DocFrom(lv, loc) = {} THEN Exhausted(it)
            ELSE AllFrom(lv, it.kids, it.nots, Min(DocFrom(lv, loc)))

-----------------------------------------------------------------------------
(* compile_to_isr *)

NoIsr == [kind |-> "none", valid |-> FALSE]

\* A tree of one child is the child.
Composed(lv, kind, kids) ==
    IF kids = <<>> THEN NoIsr
    ELSE IF Len(kids) = 1 THEN kids[1]
    ELSE CASE kind = "phrase" -> PhraseFrom(lv, kids)
           [] kind = "or" -> PickMin(kids)
           [] kind = "and" -> AllFrom(lv, kids, <<>>, 0)

RECURSIVE Compile(_, _)
Compile(lv, n) ==
    LET readers(kids) == SelectSeq([i \in DOMAIN kids |-> Compile(lv, kids[i])], LAMBDA it : it.kind # "none")
        plain == SelectSeq(n.kids, LAMBDA k : k.kind # "not")
        nots == SelectSeq(n.kids, LAMBDA k : k.kind = "not")
        excluded == readers([i \in DOMAIN nots |-> nots[i].kids[1]])
    IN  CASE n.kind \in {"null", "not"} -> NoIsr
          [] n.kind = "word" -> NewWord(lv, n.term)
          [] n.kind = "and" /\ excluded # <<>> /\ readers(plain) # <<>> ->
                AllFrom(lv, readers(plain), excluded, 0)
          [] OTHER -> Composed(lv, n.kind, readers(plain))
=============================================================================
