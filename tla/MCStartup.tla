------------------------------ MODULE MCStartup ------------------------------
(* Up to three words of every kind with a configuration that serves, and no *)
(* words with every configuration of up to six pieces.                      *)
EXTENDS Startup, SequencesExt

CONSTANTS two, zero, site

Long(name)     == [kind |-> "long", name |-> name]
Short(letters) == [kind |-> "short", letters |-> letters]
Plain          == [kind |-> "plain"]

Words == {Long(n) : n \in Name} \cup {Plain}
         \cup {Short(s) : s \in {<<>>, <<"d">>, <<"d", "c">>, <<"c", "d">>, <<"other">>}}

Line1 == [kind |-> "spaced", key |-> Worker, value |-> two]
Line2 == [kind |-> "spaced", key |-> Root, value |-> site]
Pieces == {Line1, [Line1 EXCEPT !.value = zero], [Line1 EXCEPT !.kind = "bare"],
           Line2, [Line2 EXCEPT !.kind = "tight"], [kind |-> "comment"], Nothing}

Serving == <<Line1, Line2, Nothing, Nothing>>

MCInputs ==
    [argv : BoundedSeq(Words, 3), file : {Serving}]
    \cup [argv : {<<>>}, file : BoundedSeq(Pieces, 6) \ {<<>>}]

\* A file may have the name of an option.
MCConfigFiles == {DefaultFile, Plain, Long("debug")}
=============================================================================
