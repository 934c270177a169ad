----------------------------- MODULE RobotsTxt -----------------------------
(***************************************************************************)
(* What a site's robots.txt allows                                         *)
(* (src/crawler/robots.txt/RobotsTxt.cpp).                                 *)
(*                                                                         *)
(* A file is the sequence of its lines, each a statement with its argument;*)
(* comments, blank lines and lines that are no statement are "other".  The *)
(* constructor groups the lines into rules, FindDirective picks the        *)
(* directive that decides, and Match compares a pattern with a path.       *)
(*                                                                         *)
(* Patterns and paths are sequences of symbols: one character each, but    *)
(* for the escapes "%78" (of x) and "%2f" (of the slash).                  *)
(***************************************************************************)
EXTENDS Naturals, Sequences, FiniteSets, SequencesExt, FiniteSetsExt

\* An escape stands for its character, but %2f stays three literal bytes.
Unescaped(c) == IF c = "%78" THEN "x" ELSE c

Bytes(c) == IF c \in {"%2f", "%78"} THEN 3 ELSE 1

Unescape(s) == [i \in DOMAIN s |-> Unescaped(s[i])]

\* UrlDecode reads two characters after a percent sign before it decides: with
\* fewer left in the path, they are gone along with the sign.
WithoutCutEscape(s) ==
    LET n == Len(s)
    IN  IF n > 1 /\ s[n - 1] = "%" /\ Bytes(s[n]) = 1 THEN SubSeq(s, 1, n - 2)
        ELSE IF n > 0 /\ s[n] = "%" THEN SubSeq(s, 1, n - 1)
        ELSE s

UrlDecode(path) == Unescape(WithoutCutEscape(path))

WithoutSlash(s) == IF s # <<>> /\ s[1] = "/" THEN Tail(s) ELSE s

-----------------------------------------------------------------------------
(* Patterns *)

\* The pattern that a directive makes of its argument.
Wildcard(arg) == Unescape(WithoutSlash(arg))

EndsInDollarSign(w) == w # <<>> /\ Last(w) = "$"

\* All bytes but stars, and but the dollar sign at the end.
LiteralBytes(w) ==
    LET literal == SelectSeq(w, LAMBDA c : c # "*")
    IN  FoldLeft(LAMBDA sum, c : sum + Bytes(c), 0, literal)
            - (IF EndsInDollarSign(w) THEN 1 ELSE 0)

\* Wildcard::Match: from[i][j] says whether the pattern from its i-th symbol on
\* matches the path from its j-th.  A star tries every rest of the path, the
\* empty one included, a dollar sign that comes last wants the end of the path,
\* and a pattern that is used up has matched.
Match(w, path) ==
    LET from[i \in 1 .. Len(w) + 1] ==
            [j \in 1 .. Len(path) + 1 |->
                IF i > Len(w) THEN TRUE
                ELSE IF w[i] = "*" THEN \E k \in j .. Len(path) + 1 : from[i + 1][k]
                ELSE IF w[i] = "$" /\ i = Len(w) THEN j > Len(path)
                ELSE j <= Len(path) /\ w[i] = path[j] /\ from[i + 1][j + 1]]
    IN  from[1][1]

-----------------------------------------------------------------------------
(* Directives and rules *)

Directive(type, arg) == [type |-> type, wildcard |-> Wildcard(arg)]

MoreSpecific(a, b) ==
    \/ LiteralBytes(a) > LiteralBytes(b)
    \/ /\ LiteralBytes(a) = LiteralBytes(b)
       /\ EndsInDollarSign(a) /\ ~EndsInDollarSign(b)

\* The second line asks nothing of how specific the two are: of an allow and a
\* disallow each may take priority over the other.
TakesPriority(a, b) ==
    \/ MoreSpecific(a.wildcard, b.wildcard)
    \/ a.type = "allow" /\ b.type = "disallow"

\* Before the first directive it takes priority over.
Insert(ds, d) ==
    InsertAt(ds, Min({i \in DOMAIN ds : TakesPriority(d, ds[i])} \cup {Len(ds) + 1}), d)

\* Directives with an empty pattern are dropped, and "/" makes an empty pattern.
AddDirective(ds, type, arg) ==
    IF Wildcard(arg) = <<>> THEN ds ELSE Insert(ds, Directive(type, arg))

NewRule(agent) == [agents |-> <<agent>>, directives |-> <<>>, delay |-> 0]

\* A rule with one more statement.
WithStatement(rule, line) ==
    CASE line.word = "agent" -> [rule EXCEPT !.agents = Append(@, line.arg)]
      [] line.word = "delay" -> [rule EXCEPT !.delay = Max({@, line.arg})]
      [] OTHER -> [rule EXCEPT !.directives = AddDirective(@, line.word, line.arg)]

\* One line of the constructor's loops.  Agents that follow each other share a
\* rule; an agent after a directive begins the next; what comes before the first
\* agent is skipped, and other lines are skipped everywhere.
ReadLine(acc, line) ==
    IF line.word = "agent" /\ ~acc.naming
    THEN [rules |-> Append(acc.rules, NewRule(line.arg)), naming |-> TRUE]
    ELSE IF line.word \in {"agent", "allow", "disallow", "delay"} /\ acc.rules # <<>>
    THEN [rules |-> [acc.rules EXCEPT ![Len(acc.rules)] = WithStatement(@, line)],
          naming |-> line.word = "agent"]
    ELSE acc

\* The constructor: what it has after each line, and in the end.
Rules(file) ==
    LET after[n \in 0 .. Len(file)] ==
            IF n = 0 THEN [rules |-> <<>>, naming |-> FALSE] ELSE ReadLine(after[n - 1], file[n])
    IN  after[Len(file)].rules

-----------------------------------------------------------------------------
(* Asking *)

\* "own" is any name that occurs in USER_AGENT; an empty name matches any.
MatchesAny(agent) == agent \in {"*", ""}
MatchesUser(agent) == MatchesAny(agent) \/ agent = "own"

\* The first of those that match, as a sequence of one or none.
FirstOf(seq, matching) == IF matching = {} THEN <<>> ELSE <<seq[Min(matching)]>>

FirstAgent(rule) ==
    FirstOf(rule.agents, {i \in DOMAIN rule.agents : MatchesUser(rule.agents[i])})

FirstMatch(rule, path) ==
    FirstOf(rule.directives, {i \in DOMAIN rule.directives : Match(rule.directives[i].wildcard, path)})

\* What becomes of the best directive so far when the loop of FindDirective comes
\* to a rule: agent and found are the rule's first matching agent and directive.
\* A rule without one of them counts for nothing, not even for its delay.
Better(best, rule, agent, found) ==
    LET taken == \/ best.directive = <<>>
                 \/ best.any /\ ~MatchesAny(agent[1])
                 \/ /\ best.any = MatchesAny(agent[1])
                    /\ TakesPriority(found[1], best.directive[1])
    IN  IF agent = <<>> \/ found = <<>> THEN best
        ELSE [directive |-> IF taken THEN found ELSE best.directive,
              any |-> IF taken THEN MatchesAny(agent[1]) ELSE best.any,
              delay |-> Max({best.delay, rule.delay})]

FindDirective(rules, path) ==
    LET after[k \in 0 .. Len(rules)] ==
            IF k = 0 THEN [directive |-> <<>>, any |-> FALSE, delay |-> 1]
            ELSE Better(after[k - 1], rules[k], FirstAgent(rules[k]), FirstMatch(rules[k], path))
    IN  after[Len(rules)]

\* PathAllowed, by way of UrlAllowed: the path comes without its first slash and
\* loses another if it has one.
PathAllowed(file, path) ==
    LET best == FindDirective(Rules(file), UrlDecode(WithoutSlash(path))).directive
    IN  best = <<>> \/ best[1].type = "allow"

\* The crawl delay that UrlAllowed reports, in seconds.
CrawlDelay(file, path) ==
    FindDirective(Rules(file), UrlDecode(WithoutSlash(path))).delay
=============================================================================
