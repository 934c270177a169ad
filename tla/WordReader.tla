----------------------------- MODULE WordReader -----------------------------
(***************************************************************************)
(* ISRWord (src/index/isr.cpp): the iterator over the posts of a word in   *)
(* one level of the index.  It is a record with the word, the index of its *)
(* post and, like all readers of Isr, kind, valid, start, end and dec of   *)
(* the match; an operation returns the record as it is afterwards.         *)
(***************************************************************************)
EXTENDS InvertedIndex

NoDecoration == "mixed"

\* SkipToDoc finds the start of the document; callers see to it that it exists.
DocStart(lv, d) == lv.docs[d + 1].start

NumDocs(lv) == Len(lv.docs)

WordAt(lv, t, index, abs) ==
    LET posts == lv.lists[t].posts
        valid == index <= Len(posts)
    IN  [kind |-> "word", term |-> t, index |-> index, valid |-> valid, start |-> abs, end |-> abs,
         dec |-> IF valid THEN posts[index].dec ELSE NoDecoration]

\* The reader at the first of the posts that is not an end of document.
FirstWordAt(lv, t, indexes, abs) ==
    LET words == {i \in indexes : lv.lists[t].posts[i].dec # "end"}
    IN  IF words = {} THEN WordAt(lv, t, Len(lv.lists[t].posts) + 1, 0)
        ELSE WordAt(lv, t, Min(words), abs[Min(words)])

NewWord(lv, t) ==
    IF lv.lists[t].posts = <<>> THEN WordAt(lv, t, 1, 0)
    ELSE WordAt(lv, t, 1, lv.lists[t].posts[1].delta)

NextWord(lv, it) ==
    LET abs == AbsolutesFrom(lv.lists[it.term], [index |-> it.index, abs |-> it.start])
    IN  FirstWordAt(lv, it.term, DOMAIN abs \ {it.index}, abs)

\* Mutant: an end of document may be found.
RawSeekWord(lv, it, loc) ==
    LET pl == lv.lists[it.term]
        abs == AbsolutesFrom(pl, Checkpoint(pl, loc))
        reached == {i \in DOMAIN abs : abs[i] >= loc}
    IN  IF ~it.valid THEN it
        ELSE IF reached = {} THEN WordAt(lv, it.term, Len(pl.posts) + 1, 0)
        ELSE WordAt(lv, it.term, Min(reached), abs[Min(reached)])

\* From the last checkpoint at or before the location.
SeekWord(lv, it, loc) ==
    LET pl == lv.lists[it.term]
        abs == AbsolutesFrom(pl, Checkpoint(pl, loc))
    IN  IF ~it.valid THEN it
        ELSE FirstWordAt(lv, it.term, {i \in DOMAIN abs : abs[i] >= loc}, abs)
=============================================================================
