------------------------------- MODULE Worker -------------------------------
(***************************************************************************)
(* One worker of ehp and its connections in time: the event loop of        *)
(* prspool_run_worker (src/src/process.cc:219), the timers that close idle *)
(* connections (src/src/ptimer.cc) and the poller's batches of events      *)
(* (poller.cc).                                                            *)
(*                                                                         *)
(* A connection gets a timer in the heap when it is accepted.  Whatever    *)
(* the connection sends only renews its time stamp; when SIGALRM is        *)
(* handled, the timer at the root closes its connection, if the stamp is   *)
(* old enough, or goes back into the heap.  A timer knows the descriptor   *)
(* of its connection only: it stays when the connection is closed, and the *)
(* kernel gives the descriptor to the next connection.                     *)
(*                                                                         *)
(* The time stamps are kept in a map_t.  It is used here by what           *)
(* Dictionary.tla promises: setting a stamp may make it forget the others. *)
(***************************************************************************)
EXTENDS Integers, Sequences, FiniteSetsExt

CONSTANTS
    NFds,        \* number of descriptors
    Delay,       \* timeout_in_ms
    Start,       \* time at the start; the epoch is 0, long ago
    MaxTime,     \* bound on the time
    MaxAccepts,  \* bound on the connections accepted
    MaxForgets,  \* bound on how often the map of time stamps grows
    MaxLag       \* how long a SIGALRM may wait to be handled

ASSUME WorkerAssumption ==
    /\ NFds \in Nat \ {0}
    /\ Delay \in Nat \ {0}
    /\ Start \in Nat /\ Start >= Delay
    /\ MaxTime \in Nat /\ MaxTime >= Start
    /\ MaxAccepts \in Nat
    /\ MaxForgets \in Nat
    /\ MaxLag \in 0 .. Delay - 1

Fds   == 1 .. NFds
\* The pipe from the master and signal_pipefd[0]; which numbers these are
\* does not matter.
PipeFd == 0
SigFd  == -1

Time  == 0 .. MaxTime
Timer == [fd : Fds, due : 0 .. MaxTime + Delay]

\* No time at all: an alarm that is not set, a stamp that is missing (which
\* map_get_uint64 reads as 0).
None == 0

VARIABLES
    pc,       \* loop, accept, or signals
    left,     \* SIGALRMs read from signal_pipefd and not handled yet
    open,     \* descriptors of connections
    ready,    \* epoll's ready list
    batch,    \* events epoll_wait returned, still to be taken
    heap,     \* the_timer->heap
    updated,  \* the_timer->updated_at
    alarm,    \* when setitimer's timer expires
    bytes,    \* SIGALRMs in signal_pipefd
    now,      \* ptime_epoch
    lag,      \* for how long a SIGALRM has been waiting
    active,   \* history: when each connection was last accepted or served
    accepts,  \* connections accepted so far
    forgets   \* how often the map of time stamps has grown

tvars == <<heap, updated, alarm, forgets>>
cvars == <<now, lag, bytes>>
vars  == <<pc, left, open, ready, batch, tvars, cvars, active, accepts>>

Heap == INSTANCE TimerHeap WITH Timers <- Timer, MaxLen <- MaxAccepts

----------------------------------------------------------------------------
(* Timers.                                                                 *)

\* Mutant of Run: an empty heap is not asked for, and nothing is switched off.
RunAnyway(h, u) ==
    alarm' = IF h # <<>> /\ now - u[h[1].fd] < Delay
             THEN u[h[1].fd] + Delay ELSE now + 1

\* ptimer_run: the alarm is set to what is left of the time of the timer at
\* the root.  If nothing is left, setitimer gets 0, which switches it off.
Run(h, u) ==
    alarm' = IF h = <<>> THEN alarm
             ELSE IF now - u[h[1].fd] < Delay THEN u[h[1].fd] + Delay
             ELSE None

\* Mutant of Update: the stamp is when the timer is due next.
UpdateDue(fd, t) ==
    /\ updated' = [updated EXCEPT ![fd] = t + Delay]
    /\ UNCHANGED forgets

\* ptimer_update: map_set, in place or in a map that has just grown.
Update(fd, t) ==
    \/ /\ updated' = [updated EXCEPT ![fd] = t]
       /\ UNCHANGED forgets
    \/ /\ forgets < MaxForgets
       /\ forgets' = forgets + 1
       /\ updated' = [f \in Fds |-> IF f = fd THEN t ELSE None]

\* Mutant of HandleAlarm: a stamp that was renewed does not save anyone.
CloseAtDue ==
    /\ pc = "signals" /\ left > 0 /\ heap # <<>>
    /\ left' = left - 1
    /\ open' = open \ {heap[1].fd}
    /\ ready' = ready \ {heap[1].fd}
    /\ heap' = Heap!Popped(heap)
    /\ Run(heap', updated)
    /\ UNCHANGED <<pc, batch, updated, forgets, cvars, active, accepts>>

\* Mutant of HandleAlarm: the timer is not put back.
NotRenewed ==
    /\ pc = "signals" /\ left > 0 /\ heap # <<>>
    /\ left' = left - 1
    /\ IF now - updated[heap[1].fd] >= Delay
       THEN open' = open \ {heap[1].fd} /\ ready' = ready \ {heap[1].fd}
       ELSE UNCHANGED <<open, ready>>
    /\ heap' = Heap!Popped(heap)
    /\ Run(heap', updated)
    /\ UNCHANGED <<pc, batch, updated, forgets, cvars, active, accepts>>

\* ptimer_signal_handler: the connection of the timer at the root is closed
\* if it has been idle for Delay (whoever has its descriptor now), else a
\* new timer, due Delay after its time stamp, is pushed; then one is popped.
HandleAlarm ==
    /\ pc = "signals"
    /\ left > 0
    /\ heap # <<>>
    /\ left' = left - 1
    /\ LET fd == heap[1].fd
           u  == updated[fd]
       IN  \/ /\ now - u >= Delay
              /\ open' = open \ {fd}
              /\ ready' = ready \ {fd}
              /\ heap' = Heap!Popped(heap)
              /\ UNCHANGED <<updated, forgets>>
           \/ /\ now - u < Delay
              /\ heap' = Heap!Popped(Heap!Pushed(heap, [fd |-> fd, due |-> u + Delay]))
              /\ Update(fd, u)
              /\ UNCHANGED <<open, ready>>
    /\ Run(heap', updated')
    /\ UNCHANGED <<pc, batch, cvars, active, accepts>>

----------------------------------------------------------------------------
(* The event loop.                                                         *)

EpollWait ==
    /\ pc = "loop"
    /\ batch = {}
    /\ ready # {}
    /\ batch' = ready
    /\ ready' = {}
    /\ UNCHANGED <<pc, left, open, tvars, cvars, active, accepts>>

Take(e) ==
    /\ pc = "loop"
    /\ e \in batch
    /\ batch' = batch \ {e}

\* The pipe from the master: accept() until it has none left.
TakePipe ==
    /\ Take(PipeFd)
    /\ pc' = "accept"
    /\ UNCHANGED <<left, open, ready, tvars, cvars, active, accepts>>

\* accept() returns the lowest descriptor that is free; ptimer_add.
Accept ==
    /\ pc = "accept"
    /\ accepts < MaxAccepts
    /\ open # Fds
    /\ accepts' = accepts + 1
    /\ LET fd == Min(Fds \ open)
       IN  /\ open' = open \cup {fd}
           /\ active' = [active EXCEPT ![fd] = now]
           /\ heap' = Heap!Pushed(heap, [fd |-> fd, due |-> now + Delay])
           /\ Update(fd, now)
    /\ Run(heap', updated')
    /\ UNCHANGED <<pc, left, ready, batch, cvars>>

AcceptAgain ==
    /\ pc = "accept"
    /\ pc' = "loop"
    /\ UNCHANGED <<left, open, ready, batch, tvars, cvars, active, accepts>>

\* worker_handle_signals reads what is in the pipe.
TakeSignals ==
    /\ Take(SigFd)
    /\ ready' = ready \ {SigFd}
    /\ left' = bytes
    /\ bytes' = 0
    /\ pc' = "signals"
    /\ UNCHANGED <<open, tvars, now, lag, active, accepts>>

SignalsDone ==
    /\ pc = "signals"
    /\ left = 0
    /\ pc' = "loop"
    /\ UNCHANGED <<left, open, ready, batch, tvars, cvars, active, accepts>>

\* An event of a descriptor: its time stamp is renewed, whoever has it now;
\* the connection is read empty, served, and perhaps closed.
Serve(fd) ==
    /\ Take(fd)
    /\ Update(fd, now)
    /\ ready' = ready \ {fd}
    /\ active' = [active EXCEPT ![fd] = now]
    /\ open' \in {open, open \ {fd}}
    /\ UNCHANGED <<pc, left, heap, alarm, cvars, accepts>>

\* Another part of the world: a byte from the master, data from a client.
Notified ==
    /\ accepts < MaxAccepts
    /\ ready' = ready \cup {PipeFd}
    /\ UNCHANGED <<pc, left, open, batch, tvars, cvars, active, accepts>>

Data(fd) ==
    /\ fd \in open
    /\ ready' = ready \cup {fd}
    /\ UNCHANGED <<pc, left, open, batch, tvars, cvars, active, accepts>>

\* Time passes, between any two steps; the alarm goes off when it is due.
Tick ==
    /\ now < MaxTime
    /\ bytes + left > 0 => lag < MaxLag
    /\ now' = now + 1
    /\ lag' = IF bytes + left > 0 THEN lag + 1 ELSE 0
    /\ \/ /\ alarm = now'
          /\ alarm' = None
          /\ bytes' = bytes + 1
          /\ ready' = ready \cup {SigFd}
       \/ /\ alarm # now'
          /\ UNCHANGED <<alarm, bytes, ready>>
    /\ UNCHANGED <<pc, left, open, batch, heap, updated, forgets, active, accepts>>

Init ==
    /\ pc = "loop"
    /\ left = 0
    /\ open = {}
    /\ ready = {}
    /\ batch = {}
    /\ heap = <<>>
    /\ updated = [fd \in Fds |-> None]
    /\ alarm = None
    /\ bytes = 0
    /\ now = Start
    /\ lag = 0
    /\ active = [fd \in Fds |-> None]
    /\ accepts = 0
    /\ forgets = 0

Next ==
    \/ EpollWait
    \/ TakePipe
    \/ Accept
    \/ AcceptAgain
    \/ TakeSignals
    \/ HandleAlarm
    \/ SignalsDone
    \/ \E fd \in Fds : Serve(fd)
    \/ Notified
    \/ \E fd \in Fds : Data(fd)
    \/ Tick

Spec == Init /\ [][Next]_vars

----------------------------------------------------------------------------
(* Properties.                                                             *)

\* Types.
TypeOK ==
    /\ pc \in {"loop", "accept", "signals"}
    /\ left \in Nat
    /\ open \subseteq Fds
    /\ ready \subseteq Fds \cup {PipeFd, SigFd}
    /\ batch \subseteq Fds \cup {PipeFd, SigFd}
    /\ heap \in Seq(Timer)
    /\ updated \in [Fds -> Time]
    /\ alarm \in 0 .. MaxTime + Delay
    /\ bytes \in Nat
    /\ now \in Time
    /\ lag \in 0 .. MaxLag
    /\ active \in [Fds -> Time]
    /\ accepts \in 0 .. MaxAccepts
    /\ forgets \in 0 .. MaxForgets

\* Every connection has a timer that is due no later than Delay after it was
\* last active, although timers outlive connections, descriptors are used
\* again, and a pop need not take out the timer the handler looked at.
EveryConnTimed ==
    \A fd \in open : \E i \in DOMAIN heap :
        heap[i].fd = fd /\ heap[i].due <= active[fd] + Delay

\* A SIGALRM that waits finds a timer: the handler, which reads heap[0] and
\* heap[len - 1] unchecked, never meets an empty heap.  This takes signals
\* that do not wait for Delay, and a map of stamps that has not grown: an
\* alarm set before stays set when the last timer goes.
AlarmHasTimer == forgets = 0 /\ bytes + left > 0 => heap # <<>>

\* A timer only closes a connection that has been idle for Delay, be it one
\* of an earlier connection with the same descriptor; or one whose stamp the
\* map has forgotten.
ClosesOnlyIdle ==
    [][\A fd \in open \ open' :
          pc = "signals" => \/ now - active[fd] >= Delay
                            \/ updated[fd] = None]_vars

\* "connection timeout in milliseconds" (process.cc:232): no connection is
\* idle for longer than the timeout and the time its SIGALRM may wait.
IdleIsClosed == \A fd \in open : now - active[fd] <= Delay + MaxLag
=============================================================================
