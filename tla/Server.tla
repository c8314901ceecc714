------------------------------- MODULE Server -------------------------------
(***************************************************************************)
(* What the process pool promises, without pipes, signals, events or       *)
(* process ids: connections wait in one queue; a running worker takes one  *)
(* out, serves it alone and releases it; a worker that goes takes its own  *)
(* connections with it and nobody else's; the head of the pool leaves      *)
(* regularly only after the last worker, and the queue is dropped only     *)
(* when nobody is left who could serve it.                                 *)
(***************************************************************************)
EXTENDS Naturals

CONSTANTS Workers, Conns

VARIABLES
    queue,   \* connections waiting
    unseen,  \* connections not opened yet
    serves,  \* connections each worker serves
    status,  \* of each worker: new, running, gone
    head     \* the process in charge: on, off, or killed

vars == <<queue, unseen, serves, status, head>>

Running == {w \in Workers : status[w] = "running"}

\* The server accepts connections as long as one process is left.
Up == head = "on" \/ Running # {}

Init ==
    /\ queue = {}
    /\ unseen = Conns
    /\ serves = [w \in Workers |-> {}]
    /\ status = [w \in Workers |-> "new"]
    /\ head = "on"

Start(w) ==
    /\ head = "on"
    /\ status[w] = "new"
    /\ status' = [status EXCEPT ![w] = "running"]
    /\ UNCHANGED <<queue, unseen, serves, head>>

Arrive(c) ==
    /\ Up
    /\ c \in unseen
    /\ unseen' = unseen \ {c}
    /\ queue' = queue \cup {c}
    /\ UNCHANGED <<serves, status, head>>

TakeConn(w, c) ==
    /\ w \in Running
    /\ c \in queue
    /\ queue' = queue \ {c}
    /\ serves' = [serves EXCEPT ![w] = @ \cup {c}]
    /\ UNCHANGED <<unseen, status, head>>

\* The client has given up before anybody took the connection.
Abort(c) ==
    /\ Running # {}
    /\ c \in queue
    /\ queue' = queue \ {c}
    /\ UNCHANGED <<unseen, serves, status, head>>

Release(w, c) ==
    /\ w \in Running
    /\ c \in serves[w]
    /\ serves' = [serves EXCEPT ![w] = @ \ {c}]
    /\ UNCHANGED <<queue, unseen, status, head>>

Go(w) ==
    /\ w \in Running
    /\ status' = [status EXCEPT ![w] = "gone"]
    /\ serves' = [serves EXCEPT ![w] = {}]
    /\ queue' = IF Up' THEN queue ELSE {}
    /\ UNCHANGED <<unseen, head>>

Stop ==
    /\ head = "on"
    /\ \A w \in Workers : status[w] = "gone"
    /\ head' = "off"
    /\ queue' = {}
    /\ UNCHANGED <<unseen, serves, status>>

Kill ==
    /\ head = "on"
    /\ head' = "killed"
    /\ queue' = IF Running = {} THEN {} ELSE queue
    /\ UNCHANGED <<unseen, serves, status>>

Next ==
    \/ \E w \in Workers : Start(w) \/ Go(w)
    \/ \E c \in Conns : Arrive(c) \/ Abort(c)
    \/ \E w \in Workers, c \in Conns : TakeConn(w, c) \/ Release(w, c)
    \/ Stop
    \/ Kill

Spec == Init /\ [][Next]_vars
=============================================================================
