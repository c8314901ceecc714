--------------------------------- MODULE Url ---------------------------------
(***************************************************************************)
(* What url_parse (src/src/url.cc) makes of the target of a request.  The  *)
(* map of the query's fields, which nobody reads, is left out.             *)
(***************************************************************************)
EXTENDS Str

CONSTANT NULL

\* Where the first of these characters is from position i on, or the end.
Find(s, i, chars) ==
    Min({j \in i .. Len(s) - 1 : s[j + 1] \in chars} \cup {Len(s)})

\* regexec with REGEXP_PTRN_URL: start and end of path, query and fragment;
\* a part that is not there starts at -1.
Parts(s) ==
    LET p == Find(s, 0, {"?", "#"})
        q == Find(s, p, {"#"})
    IN  << <<0, p>>, IF p = q THEN <<-1, -1>> ELSE <<p, q>>,
           IF q = Len(s) THEN <<-1, -1>> ELSE <<q, Len(s)>> >>

\* From a part's start to its end, and one more.
Part(s, part) == Sub(s, part[1], part[2] - part[1] + 1)

\* The query goes into the fragment; then the fragment does, unless there
\* was no query, where the loop is left.
Fragment(s) ==
    LET q == Parts(s)[2]
        f == Parts(s)[3]
    IN  IF q[1] = -1 THEN NULL ELSE IF f[1] = -1 THEN Part(s, q) ELSE Part(s, f)

\* Mutant of UrlPath: the end is taken for the last character.
UrlPathShort(s) == Sub(s, Parts(s)[1][1], Parts(s)[1][2] - Parts(s)[1][1] - 1)

UrlPath(s) == Part(s, Parts(s)[1])

UrlParse(s) ==
    IF s = <<>> \/ s[1] # "/" THEN NULL
    ELSE [path |-> UrlPath(s), fragment |-> Fragment(s)]

----------------------------------------------------------------------------
(* Properties of all targets.                                              *)

\* A target without query and fragment is its path, and has no fragment, as
\* "/[path][?query][#fragment]" (url.h:5) has it.  With one of them UrlPath has
\* one character more, and Fragment may be the query, or nothing.
PathAsWritten(s) ==
    UrlParse(s) # NULL /\ (\A i \in DOMAIN s : s[i] \notin {"?", "#"}) =>
        UrlParse(s) = [path |-> s, fragment |-> NULL]
=============================================================================
