--------------------------- MODULE RobotsPromise ---------------------------
(***************************************************************************)
(* What the header of the robots.txt parser says a file means              *)
(* (src/crawler/robots.txt/RobotsTxt.h), in terms of the lines of the file *)
(* and the symbols of the path, with no rules, no sorting and no decoding. *)
(* RobotsTxt is checked against it.                                        *)
(***************************************************************************)
EXTENDS Naturals, Sequences, FiniteSetsExt

IsDirective(line) == line.word \in {"allow", "disallow"}

\* Lines that end a run of User-agent lines.
EndsAgents(line) == line.word \in {"allow", "disallow", "delay"}

\* The User-agent lines that line i is subject to: the last run of them before i,
\* in which lines without a meaning may stand.
AgentLines(file, i) ==
    {j \in 1 .. i - 1 :
        /\ file[j].word = "agent"
        /\ \A k, m \in j .. i - 1 :
              (k < m /\ EndsAgents(file[k])) => file[m].word # "agent"}

NamesMe(file, j) == file[j].arg = "own"
NamesAny(file, j) == file[j].arg \in {"*", ""}

\* Line i applies to the crawler.
Applies(file, i) ==
    \E j \in AgentLines(file, i) : NamesMe(file, j) \/ NamesAny(file, j)

\* It does so by name: the first agent line to match has the crawler's name.
ByName(file, i) ==
    \E j \in AgentLines(file, i) :
        /\ NamesMe(file, j)
        /\ \A k \in AgentLines(file, i) : NamesAny(file, k) => j < k

-----------------------------------------------------------------------------
(* Matching *)

\* An octet and its escape are the same, except for the slash.
SameOctet(c, d) == c = d \/ {c, d} = {"x", "%78"}

\* An argument of a directive, or a path, as if it did not start with a slash.
Record(arg) == IF arg # <<>> /\ arg[1] = "/" THEN Tail(arg) ELSE arg

IsAnchored(r) == r # <<>> /\ r[Len(r)] = "$"

\* The record's literal characters lie on octets of the path: in order, next to
\* each other unless a star stands between them, from the start of the path, and
\* up to its end if the record ends with a dollar sign.
Covers(r, path) ==
    LET body == IF IsAnchored(r) THEN Len(r) - 1 ELSE Len(r)
        literal == {i \in 1 .. body : r[i] # "*"}
    IN  \E on \in [literal -> DOMAIN path] :
            /\ \A i \in literal : SameOctet(r[i], path[on[i]])
            /\ \A i, j \in literal : i < j => on[i] < on[j]
            /\ \A i \in literal : i + 1 \in literal => on[i + 1] = on[i] + 1
            /\ 1 \in literal => on[1] = 1
            /\ (IsAnchored(r) /\ body \in literal) => on[body] = Len(path)
            /\ (IsAnchored(r) /\ body = 0) => path = <<>>

\* A directive without a path has no effect ("Disallow:"); "/" covers every path.
NoEffect(arg) == arg = <<>>

\* A line such as "Disallow: /" applies to the crawler.  Here the code is known not to
\* do what its header says: the parser drops the slash (RobotsTxt.cpp:590), and then
\* the directive, as if it were empty (:736).
BareSlash(file) ==
    \E i \in DOMAIN file :
        IsDirective(file[i]) /\ file[i].arg = <<"/">> /\ Applies(file, i)

\* The directives that apply and whose record matches the path.
Matching(file, path) ==
    {i \in DOMAIN file :
        /\ IsDirective(file[i])
        /\ ~NoEffect(file[i].arg)
        /\ Applies(file, i)
        /\ Covers(Record(file[i].arg), Record(path))}

\* Those that count: the ones that apply by name, if any.
Deciding(file, path) ==
    LET named == {i \in Matching(file, path) : ByName(file, i)}
    IN  IF named = {} THEN Matching(file, path) ELSE named

Verdicts(file, path) == {file[i].word : i \in Deciding(file, path)}

\* The path must not be asked for, or must not be refused.  When directives of
\* both types decide, neither is said here.
Forbidden(file, path) == Verdicts(file, path) = {"disallow"}
Open(file, path) == "disallow" \notin Verdicts(file, path)

\* The largest delay named for the crawler in a group of lines that has a
\* directive that matches the path, or a second.
Delay(file, path) ==
    Max({1} \cup {file[k].arg : k \in {n \in DOMAIN file :
            /\ file[n].word = "delay"
            /\ \E i \in Matching(file, path) : AgentLines(file, i) = AgentLines(file, n)}})
=============================================================================
