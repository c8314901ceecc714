----------------------------- MODULE FifoCache ------------------------------
(***************************************************************************)
(* What the cache of responses promises: a key that was asked for is found *)
(* with the value it was stored with until it is among the oldest entries  *)
(* and has to make room; a hit does not make an entry younger.  Entries    *)
(* are only dropped when the new one does not fit.                         *)
(***************************************************************************)
EXTENDS Naturals, Sequences, FiniteSets

CONSTANTS Keys, Values, Size, Cap, NULL

VARIABLES
    entries,   \* the entries <<key, value>>, the youngest first
    answer     \* what a look-up of each key returns, NULL for a miss

vars == <<entries, answer>>

Bytes(s) == Cardinality(UNION {{i} \X (1 .. Size[s[i][2]]) : i \in DOMAIN s})

Init ==
    /\ entries = <<>>
    /\ answer = [k \in Keys |-> NULL]

Store(k, v) ==
    /\ answer[k] = NULL
    /\ \E n \in 0 .. Len(entries) :
          LET kept == SubSeq(entries, 1, n) IN
          /\ Bytes(entries) + Size[v] < Cap => n = Len(entries)
          /\ n = 0 \/ Bytes(kept) + Size[v] < Cap
          /\ entries' = <<<<k, v>>>> \o kept
    /\ answer' = [x \in Keys |->
                    IF \E i \in DOMAIN entries' : entries'[i][1] = x
                    THEN LET i == CHOOSE i \in DOMAIN entries' :
                                     entries'[i][1] = x
                         IN  entries'[i][2]
                    ELSE NULL]

Next == \E k \in Keys, v \in Values : Store(k, v)

Spec == Init /\ [][Next]_vars
=============================================================================
