------------------------------- MODULE Status -------------------------------
(***************************************************************************)
(* The status messages of ehp (src/src/http_constant.cc): arrays of texts, *)
(* one per class of codes.  A text is written here as the code it is the   *)
(* text of, which is the comment beside it.                                *)
(***************************************************************************)
EXTENDS Integers, SequencesExt

Codes(first, last) == [i \in 1 .. last - first + 1 |-> first + i - 1]

\* The literal of 300 has no comma and is one text with that of 301.
Moved == "300 and 301"

StatusMsgs == <<
    Codes(100, 103),
    Codes(200, 208) \o <<226>>,
    <<Moved>> \o Codes(302, 308),
    Codes(400, 418) \o Codes(421, 426) \o <<428, 429, 431, 451>>,
    Codes(500, 508) \o <<510, 511>> >>

\* Mutant of StatusMsg: the arrays count from one.
StatusMsgFromOne(code) ==
    LET class == code \div 100 IN StatusMsgs[class][code - 100 * class + 2]

\* http_get_status_msg, for codes that have an entry at their index.
StatusMsg(code) ==
    LET class == code \div 100 IN StatusMsgs[class][code - 100 * class + 1]

----------------------------------------------------------------------------
\* The codes that the arrays list before the first gap of their class, those
\* of redirection excepted.  200 and 404 are all that responses have.
Listed == (100 .. 103) \cup (200 .. 208) \cup (400 .. 418) \cup (500 .. 508)

\* A code of those gets its own text, and no code below it has the same.
OwnText(code) ==
    /\ StatusMsg(code) = code
    /\ \A below \in Listed : below < code => StatusMsg(below) # StatusMsg(code)
=============================================================================
