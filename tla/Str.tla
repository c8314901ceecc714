--------------------------------- MODULE Str ---------------------------------
(***************************************************************************)
(* The string functions of ehp (src/src/str.cc): a str_t is a sequence of  *)
(* characters.  Positions count from 0, as in the code.                    *)
(***************************************************************************)
EXTENDS Integers, FiniteSetsExt, SequencesExt

CONSTANT Spaces   \* the characters isspace() is true of

\* CORD_substr: positions are unsigned, so that -1 is beyond every end.
Sub(s, i, n) ==
    IF i \notin 0 .. Len(s) - 1 THEN <<>> ELSE SubSeq(s, i + 1, Min({i + n, Len(s)}))

NonSpaces(s)    == {i \in 0 .. Len(s) - 1 : s[i + 1] \notin Spaces}
FirstNonSpace(s) == IF NonSpaces(s) = {} THEN -1 ELSE Min(NonSpaces(s))
LastNonSpace(s)  == IF NonSpaces(s) = {} THEN -1 ELSE Max(NonSpaces(s))

\* Mutant of Trim: the length of what is left is one short.
TrimShort(s) == Sub(s, FirstNonSpace(s), LastNonSpace(s) - FirstNonSpace(s))

Trim(s) == Sub(s, FirstNonSpace(s), LastNonSpace(s) - FirstNonSpace(s) + 1)
LTrim(s) == Sub(s, FirstNonSpace(s), Len(s))
RTrim(s) == Sub(s, 0, LastNonSpace(s) + 1)

\* The loop of str_nsplit: up to the next separator, while more than one
\* piece may come; the rest is the last piece, and may be empty.
Pieces(s, sep, m) ==
    LET rest[k \in 1 .. m] ==
          [i \in 0 .. Len(s) |->
             LET seps == {j \in i .. Len(s) - 1 : s[j + 1] = sep} IN
             IF k = 1 \/ seps = {} THEN <<Sub(s, i, Len(s) - i)>>
             ELSE <<Sub(s, i, Min(seps) - i)>> \o rest[k - 1][Min(seps) + 1]]
    IN  rest[m][0]

\* Mutant of NSplit: as many pieces as characters.
NSplitFew(s, sep, n) ==
    IF n = 0 THEN <<>> ELSE Pieces(s, sep, IF n = -1 THEN Len(s) ELSE n)

\* At most n pieces; -1 is as many as there are.  Of an empty string the
\* code makes a null pointer, not an array.
NSplit(s, sep, n) ==
    IF n = 0 THEN <<>> ELSE Pieces(s, sep, IF n = -1 THEN Len(s) + 1 ELSE n)

----------------------------------------------------------------------------
(* Properties of all strings, for the module that explores them.           *)

\* Both sides are trimmed as by trimming one after the other, in any order,
\* and only spaces go, for strings of spaces only as well.
TrimsBoth(s) ==
    /\ Trim(s) = LTrim(RTrim(s)) /\ Trim(s) = RTrim(LTrim(s))
    /\ \E l, r \in 0 .. Len(s) :
          /\ l + Len(Trim(s)) + r = Len(s)
          /\ Trim(s) = SubSeq(s, l + 1, Len(s) - r)
          /\ \A i \in 1 .. Len(s) :
                i <= l \/ i > Len(s) - r => s[i] \in Spaces
    /\ Trim(s) # <<>> => {Head(Trim(s)), Last(Trim(s))} \cap Spaces = {}

Joined(p, sep) ==
    LET join[i \in DOMAIN p] ==
          IF i = Len(p) THEN p[i] ELSE p[i] \o <<sep>> \o join[i + 1]
    IN  join[1]

\* Split and joined again a string is the same; the pieces are no more than
\* asked for, and only the last of all that were asked for has separators.
SplitsToJoin(s, sep, n) ==
    LET p == NSplit(s, sep, n) IN
    s # <<>> /\ n # 0 =>
        /\ Joined(p, sep) = s
        /\ n > 0 => Len(p) <= n
        /\ \A i \in DOMAIN p : Contains(p[i], sep) => i = n
=============================================================================
