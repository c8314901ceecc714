------------------------------ MODULE MCLibrary ------------------------------
(* The parts of ehp that others use and that use none, each explored by     *)
(* itself: all strings up to a length, all lists and buffers, and every     *)
(* half millisecond of some years.                                          *)
EXTENDS Url, Status, List, Buffers, Ptime

CONSTANTS Chars, MaxLen

ASSUME LibraryAssumption == MaxLen \in Nat

VARIABLES text, code

tvars == <<text, code>>
vars  == <<tvars, lvars, bvars, pvars>>

NoText    == text = <<>> /\ code = 0
NoList    == nodes = <<>>
NoBuffers == BuffersInit
NoTime    == year = Min(Years) /\ month = 1 /\ day = 1 /\ half = 0

Write ==
    /\ code = 0 /\ Len(text) < MaxLen
    /\ \E c \in Chars : text' = Append(text, c)
    /\ UNCHANGED code

Respond ==
    /\ text = <<>>
    /\ code' \in Listed
    /\ UNCHANGED text

Init == text = <<>> /\ code = 0 /\ ListInit /\ BuffersInit /\ PtimeInit

Next ==
    \/ NoList /\ NoBuffers /\ NoTime /\ (Write \/ Respond) /\ UNCHANGED <<lvars, bvars, pvars>>
    \/ NoText /\ NoBuffers /\ NoTime /\ ListNext /\ UNCHANGED <<tvars, bvars, pvars>>
    \/ NoText /\ NoList /\ NoTime /\ BuffersNext /\ UNCHANGED <<tvars, lvars, pvars>>
    \/ NoText /\ NoList /\ NoBuffers /\ PtimeTick /\ UNCHANGED <<tvars, lvars, bvars>>

Spec == Init /\ [][Next]_vars

\* Every text is trimmed and split at separators as Str says, and is its own
\* path where it is a target of nothing else; every code has the text of Status.
TextsRight ==
    /\ TrimsBoth(text)
    /\ \A n \in -1 .. MaxLen : SplitsToJoin(text, "?", n)
    /\ PathAsWritten(text)
    /\ code # 0 => OwnText(code)
=============================================================================
