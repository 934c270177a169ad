------------------------------ MODULE QueryAst ------------------------------
(***************************************************************************)
(* A query from its text to its tree: the parser, normalize() and          *)
(* extract_terms() of src/query/query_ast.hpp.                             *)
(*                                                                         *)
(* The text is a sequence of tokens: words, in lower case, the characters  *)
(* the parser knows, and others ("?").  White space only keeps words       *)
(* apart; the parser asks for it nowhere else.                             *)
(***************************************************************************)
EXTENDS Naturals, Sequences, FiniteSetsExt, SequencesExt

CONSTANT StopWords   \* stop_words()

Characters == {"-", "|", "(", ")", "\"", "?"}

ASSUME AstAssumption == StopWords \cap Characters = {}

Null == [kind |-> "null"]
Word(t) == [kind |-> "word", term |-> t]
Tree(kind, kids) == [kind |-> kind, kids |-> kids]

IsNull(n) == n.kind = "null"
IsWord(x) == x \notin Characters

-----------------------------------------------------------------------------
(* The parser.  Each operator returns a tree, or Null, and what is left.   *)

Parsed(node, rest) == [node |-> node, rest |-> rest]

Peeks(text, c) == text # <<>> /\ Head(text) = c

Phrase(words) ==
    CASE words = <<>> -> Null
      [] Len(words) = 1 -> Word(words[1])
      [] OTHER -> Tree("phrase", [i \in DOMAIN words |-> Word(words[i])])

QuoteEnd(text) == Min({Len(text) + 1} \cup {i \in DOMAIN text : text[i] = "\""})

\* Words up to the closing quote or the end of the text; a phrase of one is a word.
ParsePhraseBody(text) ==
    Parsed(Phrase(SelectSeq(SubSeq(text, 1, QuoteEnd(text) - 1), IsWord)),
           SubSeq(text, QuoteEnd(text) + 1, Len(text)))

RECURSIVE ParseOr(_), ParseAnd(_), ParsePrimary(_), AndRest(_, _), OrRest(_, _)

\* An unknown character is skipped, whatever follows it is taken as a primary.
ParsePrimary(text) ==
    CASE text = <<>> -> Parsed(Null, text)
      [] Peeks(text, "(") ->
            LET inner == ParseOr(Tail(text))
            IN  Parsed(inner.node, IF Peeks(inner.rest, ")") THEN Tail(inner.rest) ELSE inner.rest)
      [] Peeks(text, "\"") -> ParsePhraseBody(Tail(text))
      [] text # <<>> /\ IsWord(Head(text)) -> Parsed(Word(Head(text)), Tail(text))
      [] OTHER -> ParsePrimary(Tail(text))

\* Mutant: a minus sign stands for all that follows.
LooseParseUnary(text) ==
    IF Peeks(text, "-")
    THEN LET inner == ParseAnd(Tail(text))
         IN  IF IsNull(inner.node) THEN inner ELSE Parsed(Tree("not", <<inner.node>>), inner.rest)
    ELSE ParsePrimary(text)

ParseUnary(text) ==
    IF Peeks(text, "-")
    THEN LET inner == ParsePrimary(Tail(text))
         IN  IF IsNull(inner.node) THEN inner ELSE Parsed(Tree("not", <<inner.node>>), inner.rest)
    ELSE ParsePrimary(text)

Conjunction(kids) == IF Len(kids) = 1 THEN kids[1] ELSE Tree("and", kids)

AndRest(kids, text) ==
    IF text = <<>> \/ Peeks(text, "|") \/ Peeks(text, ")") THEN Parsed(Conjunction(kids), text)
    ELSE LET next == ParseUnary(text)
         IN  IF IsNull(next.node) THEN Parsed(Conjunction(kids), next.rest)
             ELSE AndRest(Append(kids, next.node), next.rest)

ParseAnd(text) ==
    LET first == ParseUnary(text)
    IN  IF IsNull(first.node) THEN first ELSE AndRest(<<first.node>>, first.rest)

Disjunction(left, right) ==
    CASE IsNull(left) -> right
      [] left.kind = "or" -> Tree("or", Append(left.kids, right))
      [] OTHER -> Tree("or", <<left, right>>)

OrRest(left, text) ==
    IF ~Peeks(text, "|") THEN Parsed(left, text)
    ELSE LET right == ParseAnd(Tail(text))
         IN  IF IsNull(right.node) THEN Parsed(left, right.rest)
             ELSE OrRest(Disjunction(left, right.node), right.rest)

ParseOr(text) == LET first == ParseAnd(text) IN OrRest(first.node, first.rest)

\* What the parser leaves at the end is ignored.
Parse(text) == ParseOr(text).node

-----------------------------------------------------------------------------
(* Normalization *)

IsStop(n) == n.kind = "word" /\ n.term \in StopWords

\* Stop words go from an AND unless that leaves it empty.
WithoutStops(kind, kids) ==
    LET kept == SelectSeq(kids, LAMBDA k : ~IsStop(k))
    IN  IF kind = "and" /\ kept # <<>> THEN kept ELSE kids

\* Mutant: an OR under an AND loses its parentheses, and the other way round.
MixedFlat(kind, kids) ==
    FlattenSeq([i \in DOMAIN kids |-> IF kids[i].kind \in {"and", "or"} /\ kind # "not"
                                      THEN kids[i].kids ELSE <<kids[i]>>])

\* AND in AND and OR in OR are taken apart.
Flat(kind, kids) ==
    FlattenSeq([i \in DOMAIN kids |-> IF kids[i].kind = kind /\ kind # "not"
                                      THEN kids[i].kids ELSE <<kids[i]>>])

RECURSIVE Normal(_)
Normal(n) ==
    IF n.kind \in {"null", "word", "phrase"} THEN n
    ELSE Tree(n.kind, WithoutStops(n.kind, Flat(n.kind, [i \in DOMAIN n.kids |-> Normal(n.kids[i])])))

\* The words of a tree from left to right.
RECURSIVE WordsOf(_)
WordsOf(n) ==
    CASE n.kind = "null" -> <<>>
      [] n.kind = "word" -> <<n.term>>
      [] OTHER -> FlattenSeq([i \in DOMAIN n.kids |-> WordsOf(n.kids[i])])

RECURSIVE PhraseTerms(_)
PhraseTerms(n) ==
    CASE n.kind \in {"null", "word"} -> {}
      [] n.kind = "phrase" -> Range(WordsOf(n))
      [] OTHER -> UNION {PhraseTerms(n.kids[i]) : i \in DOMAIN n.kids}

FirstSeen(words) == SelectSeq([i \in DOMAIN words |-> <<i, words[i]>>],
                              LAMBDA w : \A j \in 1 .. w[1] - 1 : words[j] # w[2])

\* extract_terms: without stop words, unless in a phrase or there is nothing else.
ExtractTerms(n) ==
    LET raw == WordsOf(n)
        filtered == SelectSeq(raw, LAMBDA t : t \notin StopWords \/ t \in PhraseTerms(n))
        kept == FirstSeen(IF filtered = <<>> THEN raw ELSE filtered)
    IN  [i \in DOMAIN kept |-> kept[i][2]]
=============================================================================
