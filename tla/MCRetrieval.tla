---------------------------- MODULE MCRetrieval ----------------------------
(***************************************************************************)
(* Levels of up to three of four pages; every text of up to four tokens,  *)
(* and some longer ones.  "zig" is in no page and has the hash of "ant";   *)
(* "ant" and "http" share a chain in every dictionary.                     *)
(***************************************************************************)
EXTENDS Retrieval

CONSTANTS MaxTokens, MaxDocs

MCTerms == {"ant", "bee", "the", "http", "zig"}
MCHash == [t \in MCTerms |-> CASE t = "ant" -> 0 [] t = "bee" -> 2 [] t = "the" -> 3
                               [] t = "http" -> 16 [] t = "zig" -> 0]
\* A tuple is 24 bytes, the word and a NUL, and "bee" is long enough to need all of them.
MCTermLen == [t \in MCTerms |-> IF t = "bee" THEN 8 ELSE 3]

Page(url, title, words, anchor) == [url |-> url, title |-> title, words |-> words, anchor |-> anchor]

MCPages == {
    \* "ant bee" in the text; in title and text, next to each other.
    Page(<<"http">>, <<"ant">>, <<"bee", "the", "ant", "bee">>, <<>>),
    \* From the text into the anchors.
    Page(<<"http", "bee">>, <<>>, <<"the", "bee">>, <<"ant">>),
    \* With a word in between; in the title, after a wider window.
    Page(<<"http">>, <<"bee", "the", "bee", "ant">>, <<"ant", "the", "bee">>, <<>>),
    \* Nothing but an address and a title.
    Page(<<"http", "the">>, <<"the">>, <<>>, <<>>)}

\* Left out of the results, for its address or title.
MCDropped == {p \in MCPages : p.words = <<>>}

\* All different, if there are three.
MCLevels == UNION {{pages \in [1 .. n -> MCPages] : n > 2 => IsInjective(pages)} : n \in 0 .. MaxDocs}

MCCorpora == FoldSet(LAMBDA pages, all : Append(all, pages), <<>>, MCLevels)

MCTokens == {"ant", "bee", "the", "-", "|", "(", ")", "\"", "?"}

LongTexts == {
    <<"ant", "-", "(", "bee", "|", "the", ")">>,
    <<"(", "ant", "|", "the", ")", "-", "http">>,
    <<"\"", "ant", "bee", "\"", "|", "the">>,
    <<"the", "-", "\"", "bee", "ant", "\"">>,
    <<"(", "the", "zig", ")", "|", "\"", "the", "bee", "\"">>,
    <<"http", "(", "ant", "bee", "|", "\"", "the", "bee", "\"", ")">>,
    <<"http", "-", "(", "ant", "the", "bee", ")">>,
    <<"http", "(", "\"", "bee", "ant", "\"", "|", "(", "the", "ant", ")", ")">>,
    <<"(", "-", "ant", ")", "bee">>,
    <<"ant", "|", "(", "bee", "|", "the", ")">>,
    <<"bee", "ant", "-", "(", "the", "-", "ant", ")">>}

MCTexts == UNION {[1 .. n -> MCTokens] : n \in 0 .. MaxTokens} \cup LongTexts
=============================================================================
