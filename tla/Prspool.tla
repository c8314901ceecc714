------------------------------ MODULE Prspool ------------------------------
(***************************************************************************)
(* The process pool of ehp (src/src/process.cc) with the parts it is built *)
(* from: the signal pipe (psignal.cc) and the edge-triggered poller        *)
(* (poller.cc).                                                            *)
(*                                                                         *)
(* One master forks NPrs workers and keeps a pipe to each.  All of them    *)
(* share one listening socket, and only the master watches it.  When the   *)
(* socket becomes readable the master writes one byte to the pipe of the   *)
(* next worker in round-robin order; that worker drains its pipe and       *)
(* accepts connections until accept() has none left.  A signal handler     *)
(* does nothing but write the signal's number to the process's own signal  *)
(* pipe, which the event loop reads.                                       *)
(*                                                                         *)
(* What a worker does with the bytes of a connection is not modelled here: *)
(* a connection it holds is simply closed at some time (Close).            *)
(***************************************************************************)
EXTENDS Naturals

CONSTANTS
    NPrs,            \* number of workers, the option "worker" of the config
    Conns,           \* connections the clients open, each of them once
    PipeCap,         \* bytes the kernel buffers in a pipe to a worker
    BufSize,         \* bytes a worker reads from it at a time (512, line 221)
    Crashable,       \* workers that may die of a crash or of SIGKILL
    MaxAcceptErrors, \* bound on failing accept() calls
    MaxStops         \* bound on the signals an operator sends

ASSUME ConstAssumption ==
    /\ NPrs \in Nat \ {0}
    /\ PipeCap \in Nat \ {0}
    /\ BufSize \in Nat \ {0}
    /\ Crashable \subseteq 0 .. NPrs - 1
    /\ MaxAcceptErrors \in Nat
    /\ MaxStops \in Nat

Wid    == 0 .. NPrs - 1
Master == NPrs
Procs  == 0 .. NPrs

Signals == {"CHLD", "TERM", "INT"}
Events  == {"listen", "pipe", "sig"}

VARIABLES
    mpc,      \* where the master is
    rridx,    \* its round-robin index
    stop,     \* its flag `stop'
    sigs,     \* signals it has read and not yet handled
    pid,      \* prs[w]->pid: unset, running, or joined (-1)
    wpc,      \* where each worker is
    conns,    \* connections each worker has accepted and not closed
    pipe,     \* bytes in the pipe from the master to each worker
    pending,  \* per process: epoll's ready list
    batch,    \* per process: events epoll_wait returned, still to be taken
    sigpend,  \* per process: signals sent and not yet delivered
    sigpipe,  \* per process: signals the handler has put in signal_pipefd
    backlog,  \* connections waiting in the listening socket
    fresh,    \* connections the clients have not opened yet
    lost,     \* history: a fault swallowed a wake-up the backlog waited for
    errors,   \* failing accept() calls so far
    stops     \* signals the operator has sent so far

mvars == <<mpc, rridx, stop, sigs, pid>>
wvars == <<wpc, conns>>
evars == <<pending, batch>>
svars == <<sigpend, sigpipe>>
bvars == <<errors, stops>>
vars  == <<mvars, wvars, pipe, evars, svars, backlog, fresh, lost, bvars>>

MasterLoop  == {"wait", "notify", "signals"}
MasterUp    == mpc \notin {"exited", "killed"}
\* The handlers are installed at the start of prspool_run_master.
MasterReady == mpc \in MasterLoop

WorkerLoop == {"wait", "accept", "exiting"}
Alive(w)   == wpc[w] \in {"boot"} \cup WorkerLoop
Ready(w)   == wpc[w] \in WorkerLoop

\* The listening socket is open as long as one process holds it.
Listening == MasterUp \/ \E w \in Wid : Alive(w)

\* A signal sent while it still has its default effect is fatal: the process
\* takes no other step.
Doomed(p) ==
    /\ IF p = Master THEN ~MasterReady ELSE ~Ready(p)
    /\ sigpend[p] # {}

----------------------------------------------------------------------------
(* The poller: epoll in edge-triggered mode.                               *)

\* Whether the file behind an event has anything to read.
Readable(p, e) ==
    \/ e = "listen" /\ p = Master /\ backlog # {}
    \/ e = "pipe" /\ p \in Wid /\ pipe[p] > 0
    \/ e = "sig" /\ sigpipe[p] # {}

\* epoll_wait: the ready files move to the batch, in no particular order.
EpollWait(p) ==
    /\ batch[p] = {}
    /\ \E e \in pending[p] : Readable(p, e)
    /\ batch' = [batch EXCEPT ![p] = {e \in pending[p] : Readable(p, e)}]
    /\ pending' = [pending EXCEPT ![p] = {}]
    /\ UNCHANGED <<mvars, wvars, pipe, svars, backlog, fresh, lost, bvars>>

\* poller_wait takes one event out of the batch.
Take(p, e) ==
    /\ e \in batch[p]
    /\ batch' = [batch EXCEPT ![p] = @ \ {e}]

\* poller_addfd: what is readable already when it is added is an edge.
Register(p, es) ==
    pending' = [pending EXCEPT ![p] = {e \in es : Readable(p, e)}]

----------------------------------------------------------------------------
(* Steps of the master.                                                    *)

\* prspool_init: one turn of the loop that creates the workers.
Fork(w) ==
    /\ mpc = "fork"
    /\ ~Doomed(Master)
    /\ wpc[w] = "none"
    /\ \A v \in Wid : v < w => wpc[v] # "none"
    /\ wpc' = [wpc EXCEPT ![w] = "boot"]
    /\ pid' = [pid EXCEPT ![w] = "running"]
    /\ mpc' = IF w = NPrs - 1 THEN "boot" ELSE "fork"
    /\ UNCHANGED <<rridx, stop, sigs, conns, pipe, evars, svars, backlog,
                   fresh, lost, bvars>>

\* prspool_run_master up to its loop: handlers first, then the two files.
MasterBoot ==
    /\ mpc = "boot"
    /\ ~Doomed(Master)
    /\ mpc' = "wait"
    /\ Register(Master, {"listen", "sig"})
    /\ UNCHANGED <<rridx, stop, sigs, pid, wvars, pipe, batch, svars, backlog,
                   fresh, lost, bvars>>

MasterWait == mpc = "wait" /\ ~stop /\ EpollWait(Master)

MasterTakeListen ==
    /\ mpc = "wait"
    /\ ~stop
    /\ Take(Master, "listen")
    /\ mpc' = "notify"
    /\ UNCHANGED <<rridx, stop, sigs, pid, wvars, pipe, pending, svars,
                   backlog, fresh, lost, bvars>>

\* Mutant of Advance: the index is not wrapped.
AdvanceUnwrapped ==
    /\ mpc' = "wait"
    /\ rridx' = rridx + 1
    /\ UNCHANGED <<stop, sigs, pid, wvars, batch, backlog, fresh, bvars>>

\* After the write, whatever came of it, the next worker is up.
Advance ==
    /\ mpc' = "wait"
    /\ rridx' = (rridx + 1) % NPrs
    /\ UNCHANGED <<stop, sigs, pid, wvars, batch, backlog, fresh, bvars>>

\* write() to the pipe of a living worker; it blocks while the pipe is full.
Notify ==
    /\ mpc = "notify"
    /\ Alive(rridx)
    /\ pipe[rridx] < PipeCap
    /\ pipe' = [pipe EXCEPT ![rridx] = @ + 1]
    /\ pending' = IF Ready(rridx)
                  THEN [pending EXCEPT ![rridx] = @ \cup {"pipe"}]
                  ELSE pending
    /\ lost' = (backlog # {} /\ (lost \/ wpc[rridx] = "exiting"))
    /\ Advance
    /\ UNCHANGED svars

\* write() to the pipe of a dead worker fails with EPIPE, unnoticed.
NotifyDead ==
    /\ mpc = "notify"
    /\ ~Alive(rridx)
    /\ lost' = (backlog # {})
    /\ Advance
    /\ UNCHANGED <<pipe, pending, svars>>

\* master_handle_signals reads everything the handler has written.
MasterReadSignals ==
    /\ mpc = "wait"
    /\ ~stop
    /\ Take(Master, "sig")
    /\ sigs' = sigpipe[Master]
    /\ sigpipe' = [sigpipe EXCEPT ![Master] = {}]
    /\ mpc' = "signals"
    /\ UNCHANGED <<rridx, stop, pid, wvars, pipe, pending, sigpend, backlog,
                   fresh, lost, bvars>>

\* Mutants of HandleChld: one worker joined per SIGCHLD (`if' for `while'),
\* the process id kept, and the loop over prs[] stopped at the first hit.
JoinOne ==
    /\ mpc = "signals" /\ "CHLD" \in sigs
    /\ sigs' = sigs \ {"CHLD"}
    /\ \/ \A w \in Wid : wpc[w] # "zombie" /\ UNCHANGED <<wpc, pid>>
       \/ \E w \in Wid : /\ wpc[w] = "zombie"
                         /\ wpc' = [wpc EXCEPT ![w] = "reaped"]
                         /\ pid' = [pid EXCEPT ![w] = "joined"]
    /\ stop' = (\A w \in Wid : pid'[w] = "joined")
    /\ UNCHANGED <<mpc, rridx, conns, pipe, evars, svars, backlog, fresh,
                   lost, bvars>>

KeepPid ==
    /\ mpc = "signals" /\ "CHLD" \in sigs
    /\ sigs' = sigs \ {"CHLD"}
    /\ wpc' = [w \in Wid |-> IF wpc[w] = "zombie" THEN "reaped" ELSE wpc[w]]
    /\ UNCHANGED <<mpc, rridx, stop, pid, conns, pipe, evars, svars, backlog,
                   fresh, lost, bvars>>

StopAtFirst ==
    /\ mpc = "signals" /\ "CHLD" \in sigs
    /\ sigs' = sigs \ {"CHLD"}
    /\ wpc' = [w \in Wid |-> IF wpc[w] = "zombie" THEN "reaped" ELSE wpc[w]]
    /\ pid' = [w \in Wid |-> IF wpc[w] = "zombie" THEN "joined" ELSE pid[w]]
    /\ stop' = (\E w \in Wid : pid'[w] = "joined")
    /\ UNCHANGED <<mpc, rridx, conns, pipe, evars, svars, backlog, fresh,
                   lost, bvars>>

\* SIGCHLD: join every dead worker; stop once no worker is left.
HandleChld ==
    /\ mpc = "signals"
    /\ "CHLD" \in sigs
    /\ sigs' = sigs \ {"CHLD"}
    /\ wpc' = [w \in Wid |-> IF wpc[w] = "zombie" THEN "reaped" ELSE wpc[w]]
    /\ pid' = [w \in Wid |-> IF wpc[w] = "zombie" THEN "joined" ELSE pid[w]]
    /\ stop' = (\A w \in Wid : pid'[w] = "joined")
    /\ UNCHANGED <<mpc, rridx, conns, pipe, evars, svars, backlog, fresh,
                   lost, bvars>>

\* Mutants of HandleTerm: the last worker forgotten, and the master's own
\* flag set without waiting for the workers.
TermButLast(s) ==
    /\ mpc = "signals" /\ s \in sigs \cap {"TERM", "INT"}
    /\ sigs' = sigs \ {s}
    /\ sigpend' = [p \in Procs |->
                     IF p + 1 \in Wid /\ pid[p] # "joined"
                     THEN sigpend[p] \cup {"TERM"} ELSE sigpend[p]]
    /\ UNCHANGED <<mpc, rridx, stop, pid, wvars, pipe, evars, sigpipe,
                   backlog, fresh, lost, bvars>>

TermAndStop(s) ==
    /\ mpc = "signals" /\ s \in sigs \cap {"TERM", "INT"}
    /\ sigs' = sigs \ {s}
    /\ stop' = TRUE
    /\ sigpend' = [p \in Procs |->
                     IF p \in Wid /\ pid[p] # "joined"
                     THEN sigpend[p] \cup {"TERM"} ELSE sigpend[p]]
    /\ UNCHANGED <<mpc, rridx, pid, wvars, pipe, evars, sigpipe,
                   backlog, fresh, lost, bvars>>

\* SIGTERM and SIGINT: send SIGTERM to every worker not joined.  A dead one
\* that is not joined yet never gets it.
HandleTerm(s) ==
    /\ mpc = "signals"
    /\ s \in sigs \cap {"TERM", "INT"}
    /\ sigs' = sigs \ {s}
    /\ sigpend' = [p \in Procs |->
                     IF p \in Wid /\ pid[p] # "joined"
                     THEN sigpend[p] \cup {"TERM"} ELSE sigpend[p]]
    /\ UNCHANGED <<mpc, rridx, stop, pid, wvars, pipe, evars, sigpipe,
                   backlog, fresh, lost, bvars>>

SignalsDone ==
    /\ mpc = "signals"
    /\ sigs = {}
    /\ mpc' = "wait"
    /\ UNCHANGED <<rridx, stop, sigs, pid, wvars, pipe, evars, svars, backlog,
                   fresh, lost, bvars>>

\* The loop ends; with the last process the kernel closes the socket.
MasterExit ==
    /\ mpc = "wait"
    /\ stop
    /\ mpc' = "exited"
    /\ UNCHANGED <<rridx, stop, sigs, pid, wvars, pipe, evars, svars, fresh,
                   bvars>>
    /\ backlog' = IF Listening' THEN backlog ELSE {}
    /\ lost' = (lost /\ backlog' # {})

\* Delivery of a signal to the master.  A write() it interrupts is not
\* tried again: the byte is lost and the index moves on.
DeliverMaster(s) ==
    /\ MasterReady
    /\ s \in sigpend[Master]
    /\ sigpend' = [sigpend EXCEPT ![Master] = @ \ {s}]
    /\ sigpipe' = [sigpipe EXCEPT ![Master] = @ \cup {s}]
    /\ pending' = [pending EXCEPT ![Master] = @ \cup {"sig"}]
    /\ UNCHANGED pipe
    /\ \/ UNCHANGED <<mvars, wvars, batch, backlog, fresh, lost, bvars>>
       \/ /\ mpc = "notify"
          /\ Alive(rridx)
          /\ pipe[rridx] = PipeCap
          /\ lost' = (backlog # {})
          /\ Advance

\* Before the handlers are installed SIGTERM and SIGINT kill the master.
MasterKilled ==
    /\ mpc \in {"fork", "boot"}
    /\ Doomed(Master)
    /\ mpc' = "killed"
    /\ sigpend' = [sigpend EXCEPT ![Master] = {}]
    /\ UNCHANGED <<rridx, stop, sigs, pid, wvars, pipe, evars, sigpipe, fresh,
                   bvars>>
    /\ backlog' = IF Listening' THEN backlog ELSE {}
    /\ lost' = (lost /\ backlog' # {})

MasterStep ==
    \/ \E w \in Wid : Fork(w)
    \/ MasterBoot
    \/ MasterWait
    \/ MasterTakeListen
    \/ Notify
    \/ NotifyDead
    \/ MasterReadSignals
    \/ HandleChld
    \/ \E s \in Signals : HandleTerm(s)
    \/ SignalsDone
    \/ MasterExit

----------------------------------------------------------------------------
(* Steps of a worker.                                                      *)

\* A byte is on its way to w that will make it accept, or it is accepting.
Woken(w) ==
    \/ wpc[w] = "boot" /\ pipe[w] > 0
    \/ wpc[w] = "wait" /\ pipe[w] > 0 /\ "pipe" \in pending[w] \cup batch[w]
    \/ wpc[w] = "accept"

\* w is gone: its files are closed, and its parent, if it has handlers by
\* now, gets SIGCHLD; without a handler SIGCHLD is discarded.
Die(w) ==
    /\ UNCHANGED <<mvars, fresh>>
    /\ wpc' = [wpc EXCEPT ![w] = "zombie"]
    /\ conns' = [conns EXCEPT ![w] = {}]
    /\ pipe' = [pipe EXCEPT ![w] = 0]
    /\ pending' = [pending EXCEPT ![w] = {}]
    /\ batch' = [batch EXCEPT ![w] = {}]
    /\ sigpend' = [sigpend EXCEPT ![w] = {},
                     ![Master] = IF MasterReady THEN @ \cup {"CHLD"} ELSE @]
    /\ sigpipe' = [sigpipe EXCEPT ![w] = {}]
    /\ backlog' = IF Listening' THEN backlog ELSE {}
    /\ lost' = ((lost \/ Woken(w)) /\ backlog' # {})

\* Mutant of WorkerBoot: a byte that came before poller_addfd is no edge.
BootUnseen(w) ==
    /\ wpc[w] = "boot" /\ ~Doomed(w)
    /\ wpc' = [wpc EXCEPT ![w] = "wait"]
    /\ UNCHANGED <<mvars, conns, pipe, evars, svars, backlog, fresh, lost,
                   bvars>>

\* prspool_run_worker up to its loop.
WorkerBoot(w) ==
    /\ wpc[w] = "boot"
    /\ ~Doomed(w)
    /\ wpc' = [wpc EXCEPT ![w] = "wait"]
    /\ Register(w, {"pipe", "sig"})
    /\ UNCHANGED <<mvars, conns, pipe, batch, svars, backlog, fresh, lost,
                   bvars>>

WorkerWait(w) == wpc[w] = "wait" /\ EpollWait(w)

\* Mutant of ReadPipe: the worker accepts without reading its pipe.
AcceptUnread(w) ==
    /\ wpc[w] = "wait" /\ Take(w, "pipe")
    /\ wpc' = [wpc EXCEPT ![w] = "accept"]
    /\ UNCHANGED <<mvars, conns, pipe, pending, svars, backlog, fresh, lost,
                   bvars>>

\* The event of the pipe: read what fits the buffer, then start accepting.
ReadPipe(w) ==
    /\ wpc[w] = "wait"
    /\ Take(w, "pipe")
    /\ pipe' = [pipe EXCEPT ![w] = IF @ < BufSize THEN 0 ELSE @ - BufSize]
    /\ wpc' = [wpc EXCEPT ![w] = "accept"]
    /\ UNCHANGED <<mvars, conns, pending, svars, backlog, fresh, lost, bvars>>

\* accept() returns a connection; it is watched and gets a timer.
Accept(w, c) ==
    /\ wpc[w] = "accept"
    /\ c \in backlog
    /\ backlog' = backlog \ {c}
    /\ conns' = [conns EXCEPT ![w] = @ \cup {c}]
    /\ lost' = (lost /\ backlog' # {})
    /\ UNCHANGED <<mvars, wpc, pipe, evars, svars, fresh, bvars>>

\* Mutant of AcceptAgain: `if' for `while', the loop ends when it likes.
AcceptOnce(w) ==
    /\ wpc[w] = "accept"
    /\ wpc' = [wpc EXCEPT ![w] = "wait"]
    /\ UNCHANGED <<mvars, conns, pipe, evars, svars, backlog, fresh, lost,
                   bvars>>

\* accept() has no connection left (EAGAIN): the loop ends.
AcceptAgain(w) ==
    /\ wpc[w] = "accept"
    /\ backlog = {}
    /\ wpc' = [wpc EXCEPT ![w] = "wait"]
    /\ UNCHANGED <<mvars, conns, pipe, evars, svars, backlog, fresh, lost,
                   bvars>>

\* accept() fails otherwise, and the loop ends as well: the connection stays
\* (EMFILE) or is gone (ECONNABORTED).
AcceptError(w) ==
    /\ wpc[w] = "accept"
    /\ errors < MaxAcceptErrors
    /\ errors' = errors + 1
    /\ \E c \in backlog : backlog' \in {backlog, backlog \ {c}}
    /\ lost' = (backlog' # {})
    /\ wpc' = [wpc EXCEPT ![w] = "wait"]
    /\ UNCHANGED <<mvars, conns, pipe, evars, svars, fresh, stops>>

\* worker_handle_signals: SIGTERM and SIGINT end the loop.
WorkerReadSignals(w) ==
    /\ wpc[w] = "wait"
    /\ Take(w, "sig")
    /\ sigpipe' = [sigpipe EXCEPT ![w] = {}]
    /\ wpc' = [wpc EXCEPT ![w] = IF sigpipe[w] \cap {"TERM", "INT"} # {}
                                 THEN "exiting" ELSE "wait"]
    /\ lost' = (lost \/ (wpc'[w] = "exiting" /\ Woken(w) /\ backlog # {}))
    /\ UNCHANGED <<mvars, conns, pipe, pending, sigpend, backlog, fresh,
                   bvars>>

\* The worker closes what it holds and returns from main.
WorkerExit(w) == wpc[w] = "exiting" /\ Die(w) /\ UNCHANGED bvars

\* poller_delfd on a connection: answered and not kept alive, closed by the
\* client, or timed out.
Close(w, c) ==
    /\ wpc[w] = "wait"
    /\ c \in conns[w]
    /\ conns' = [conns EXCEPT ![w] = @ \ {c}]
    /\ UNCHANGED <<mvars, wpc, pipe, evars, svars, backlog, fresh, lost,
                   bvars>>

DeliverWorker(w, s) ==
    /\ Ready(w)
    /\ s \in sigpend[w]
    /\ sigpend' = [sigpend EXCEPT ![w] = @ \ {s}]
    /\ sigpipe' = [sigpipe EXCEPT ![w] = @ \cup {s}]
    /\ pending' = [pending EXCEPT ![w] = @ \cup {"sig"}]
    /\ UNCHANGED <<mvars, wvars, pipe, batch, backlog, fresh, lost, bvars>>

\* Before its handlers are installed a worker dies of the signal.
WorkerKilled(w) ==
    /\ wpc[w] = "boot"
    /\ Doomed(w)
    /\ Die(w)
    /\ UNCHANGED bvars

WorkerStep(w) ==
    \/ WorkerBoot(w)
    \/ WorkerWait(w)
    \/ ReadPipe(w)
    \/ \E c \in Conns : Accept(w, c)
    \/ AcceptAgain(w)
    \/ WorkerReadSignals(w)
    \/ WorkerExit(w)

----------------------------------------------------------------------------
(* The clients, the operator and the faults.                               *)

Connect(c) ==
    /\ Listening
    /\ c \in fresh
    /\ fresh' = fresh \ {c}
    /\ backlog' = backlog \cup {c}
    /\ pending' = IF MasterReady
                  THEN [pending EXCEPT ![Master] = @ \cup {"listen"}]
                  ELSE pending
    /\ UNCHANGED <<mvars, wvars, pipe, batch, svars, lost, bvars>>

\* `kill' on the master.
Terminate ==
    /\ stops < MaxStops
    /\ stops' = stops + 1
    /\ MasterUp
    /\ sigpend' = [sigpend EXCEPT ![Master] = @ \cup {"TERM"}]
    /\ UNCHANGED <<mvars, wvars, pipe, evars, sigpipe, backlog, fresh, lost,
                   errors>>

\* Ctrl-C at the terminal: the whole process group gets SIGINT.
CtrlC ==
    /\ stops < MaxStops
    /\ stops' = stops + 1
    /\ MasterUp
    /\ sigpend' = [p \in Procs |-> IF p = Master \/ Alive(p)
                                   THEN sigpend[p] \cup {"INT"}
                                   ELSE sigpend[p]]
    /\ UNCHANGED <<mvars, wvars, pipe, evars, sigpipe, backlog, fresh, lost,
                   errors>>

Crash(w) == w \in Crashable /\ Alive(w) /\ Die(w) /\ UNCHANGED bvars

Environment ==
    \/ \E c \in Conns : Connect(c)
    \/ Terminate
    \/ CtrlC
    \/ \E w \in Wid : Crash(w)
    \/ \E w \in Wid : AcceptError(w)
    \/ \E w \in Wid, c \in Conns : Close(w, c)

Delivery ==
    \/ \E s \in Signals : DeliverMaster(s)
    \/ MasterKilled
    \/ \E w \in Wid, s \in Signals : DeliverWorker(w, s)
    \/ \E w \in Wid : WorkerKilled(w)

Init ==
    /\ mpc = "fork"
    /\ rridx = 0
    /\ stop = FALSE
    /\ sigs = {}
    /\ pid = [w \in Wid |-> "unset"]
    /\ wpc = [w \in Wid |-> "none"]
    /\ conns = [w \in Wid |-> {}]
    /\ pipe = [w \in Wid |-> 0]
    /\ pending = [p \in Procs |-> {}]
    /\ batch = [p \in Procs |-> {}]
    /\ sigpend = [p \in Procs |-> {}]
    /\ sigpipe = [p \in Procs |-> {}]
    /\ backlog = {}
    /\ fresh = Conns
    /\ lost = FALSE
    /\ errors = 0
    /\ stops = 0

Next ==
    \/ MasterStep
    \/ \E w \in Wid : WorkerStep(w)
    \/ Delivery
    \/ Environment

Spec == Init /\ [][Next]_vars

(* Every process gets the processor, and every signal is delivered.  What  *)
(* clients, operator and faults do is left to them.                        *)
Fairness ==
    /\ WF_vars(MasterStep)
    /\ \A w \in Wid : WF_vars(WorkerStep(w))
    /\ \A s \in Signals : WF_vars(DeliverMaster(s))
    /\ WF_vars(MasterKilled)
    /\ \A w \in Wid : WF_vars(WorkerKilled(w))
    /\ \A w \in Wid, s \in Signals : WF_vars(DeliverWorker(w, s))

FairSpec == Spec /\ Fairness

----------------------------------------------------------------------------
(* What the pool promises: the abstract server of Server.tla.  A process   *)
(* that holds the listening socket keeps the server up.                    *)

StatusOf(w) ==
    CASE wpc[w] = "none" -> "new" [] Alive(w) -> "running" [] OTHER -> "gone"

Status == [w \in Wid |-> StatusOf(w)]

Head == CASE MasterUp -> "on" [] mpc = "killed" -> "killed" [] OTHER -> "off"

Abstract == INSTANCE Server WITH
    Workers <- Wid, queue <- backlog, unseen <- fresh, serves <- conns,
    status <- Status, head <- Head

\* The pool implements the abstract server.
ImplementsServer == Abstract!Spec

----------------------------------------------------------------------------
(* Properties.                                                             *)

\* Every variable has its type; in particular the round-robin index always
\* names a worker and a pipe never holds more than its capacity.
TypeOK ==
    /\ mpc \in {"fork", "boot", "exited", "killed"} \cup MasterLoop
    /\ rridx \in Wid
    /\ stop \in BOOLEAN
    /\ sigs \subseteq Signals
    /\ pid \in [Wid -> {"unset", "running", "joined"}]
    /\ wpc \in [Wid -> {"none", "boot", "zombie", "reaped"} \cup WorkerLoop]
    /\ conns \in [Wid -> SUBSET Conns]
    /\ pipe \in [Wid -> 0 .. PipeCap]
    /\ pending \in [Procs -> SUBSET Events]
    /\ batch \in [Procs -> SUBSET Events]
    /\ sigpend \in [Procs -> SUBSET Signals]
    /\ sigpipe \in [Procs -> SUBSET Signals]
    /\ backlog \subseteq Conns
    /\ fresh \subseteq Conns
    /\ lost \in BOOLEAN
    /\ errors \in 0 .. MaxAcceptErrors
    /\ stops \in 0 .. MaxStops

\* While the master runs, a waiting connection always has a wake-up on its
\* way: an edge or an event at the master, a byte with its edge at a worker,
\* or a worker that is accepting.  Only a fault loses one: a dead or stopping
\* worker is notified, a signal interrupts the write, a woken worker dies or
\* stops, or accept() fails.
NoLostWakeup ==
    MasterReady /\ backlog # {} /\ ~lost =>
        \/ "listen" \in pending[Master] \cup batch[Master]
        \/ mpc = "notify"
        \/ \E w \in Wid : Woken(w)

\* A pipe that is full has an edge its worker has not consumed, although a
\* worker reads no more than BufSize bytes per edge: the master that blocks
\* on the pipe is always let go.
FullPipeSeen ==
    \A w \in Wid :
        wpc[w] \in {"wait", "accept"} /\ pipe[w] = PipeCap =>
            "pipe" \in pending[w] \cup batch[w]

\* The master leaves only when every worker it forked is dead and joined: no
\* orphan, no zombie, although SIGCHLD is coalesced and workers die while the
\* master joins others.
ExitReapsAll ==
    stop \/ mpc = "exited" => \A w \in Wid : wpc[w] = "reaped"

\* kill() is only ever called on a process id that is still the worker's
\* own: never on one that was joined, which the kernel may have given away.
KillsOnlyOwn ==
    [][\A w \in Wid : wpc[w] \in {"none", "reaped"} =>
                        sigpend'[w] \subseteq sigpend[w]]_vars

\* Every connection is taken from the backlog in the end, by whichever worker
\* is woken, although workers crash, stop and compete for the backlog; unless
\* a fault swallows a wake-up (see `lost').
HandledUnlessLost ==
    \A c \in Conns :
        c \in backlog ~> c \notin backlog \/ mpc = "killed" \/ lost

\* The write to a worker's pipe never blocks the master for ever, whatever
\* becomes of the worker.
NotifyCompletes == mpc = "notify" ~> mpc # "notify"

\* SIGTERM or SIGINT that reaches the handler of a master with a living
\* worker ends the whole server.
ShutdownCompletes ==
    (sigpipe[Master] \cap {"TERM", "INT"} # {} /\ \E w \in Wid : Alive(w))
        ~> mpc = "exited"

\* When the last worker is dead, of whatever cause and in whatever order the
\* others died, a master that had its handlers before joins them all and
\* leaves: coalesced SIGCHLDs never leave it behind without workers.
LastDeathEndsMaster ==
    (MasterReady /\ \E w \in Wid : Alive(w)) /\ <>(\A w \in Wid : ~Alive(w))
        ~> mpc = "exited"
============================================================================
