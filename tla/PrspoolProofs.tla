--------------------------- MODULE PrspoolProofs ---------------------------
(***************************************************************************)
(* Theorems about the process pool, for every number of workers and every  *)
(* set of connections.                                                     *)
(***************************************************************************)
EXTENDS Prspool, TLAPS

LEMMA RoundRobin ==
    ASSUME NEW i \in Wid
    PROVE  (i + 1) % NPrs \in Wid
  BY ConstAssumption DEF Wid

LEMMA ProcsAre == Wid \subseteq Procs /\ Master \in Procs /\ Master \notin Wid
  BY ConstAssumption DEF Wid, Procs, Master

----------------------------------------------------------------------------
(* Type correctness.                                                       *)

LEMMA TypeInit == Init => TypeOK
  <1>1. 0 \in Wid /\ 0 \in 0 .. PipeCap
        /\ 0 \in 0 .. MaxAcceptErrors /\ 0 \in 0 .. MaxStops
    BY ConstAssumption DEF Wid
  <1> SUFFICES ASSUME Init PROVE TypeOK
    OBVIOUS
  <1>2. /\ pid \in [Wid -> {"unset", "running", "joined"}]
        /\ wpc \in [Wid -> {"none", "boot", "zombie", "reaped"} \cup WorkerLoop]
        /\ conns \in [Wid -> SUBSET Conns]
        /\ pipe \in [Wid -> 0 .. PipeCap]
    BY <1>1 DEF Init
  <1>3. /\ pending \in [Procs -> SUBSET Events]
        /\ batch \in [Procs -> SUBSET Events]
        /\ sigpend \in [Procs -> SUBSET Signals]
        /\ sigpipe \in [Procs -> SUBSET Signals]
    BY DEF Init
  <1> QED
    BY <1>1, <1>2, <1>3 DEF Init, TypeOK

\* What a process loses when it dies, and what its parent then sees.
LEMMA TypeDie ==
    ASSUME TypeOK, NEW w \in Wid, Die(w), UNCHANGED bvars
    PROVE  TypeOK'
  <1>1. w \in Procs /\ Master \in Procs /\ Master # w
    BY ProcsAre
  <1>2. pipe' \in [Wid -> 0 .. PipeCap]
    BY ConstAssumption DEF TypeOK, Die
  <1>3. sigpend' \in [Procs -> SUBSET Signals]
    BY <1>1 DEF TypeOK, Die, Signals
  <1>4. backlog' \subseteq Conns /\ lost' \in BOOLEAN
    BY DEF TypeOK, Die
  <1> QED
    BY <1>1, <1>2, <1>3, <1>4 DEF TypeOK, Die, mvars, bvars

LEMMA TypeEpollWait ==
    ASSUME TypeOK, NEW p \in Procs, EpollWait(p)
    PROVE  TypeOK'
  BY DEF TypeOK, EpollWait, mvars, wvars, svars, bvars

LEMMA TypeMasterStep == TypeOK /\ MasterStep => TypeOK'
  <1> SUFFICES ASSUME TypeOK, MasterStep PROVE TypeOK'
    OBVIOUS
  <1> USE ProcsAre DEF mvars, wvars, evars, svars, bvars
  <1>1. ASSUME NEW w \in Wid, Fork(w) PROVE TypeOK'
    BY <1>1 DEF TypeOK, Fork
  <1>2. CASE MasterBoot
    BY <1>2 DEF TypeOK, MasterBoot, Register, Events, MasterLoop
  <1>3. CASE MasterWait
    BY <1>3, TypeEpollWait DEF MasterWait
  <1>4. CASE MasterTakeListen
    BY <1>4 DEF TypeOK, MasterTakeListen, Take, MasterLoop
  <1>5. CASE Notify
    <2>1. pipe' \in [Wid -> 0 .. PipeCap]
      BY <1>5, ConstAssumption DEF TypeOK, Notify
    <2>2. pending' \in [Procs -> SUBSET Events]
      BY <1>5 DEF TypeOK, Notify, Events
    <2>3. rridx' \in Wid
      BY <1>5, RoundRobin DEF TypeOK, Notify, Advance
    <2> QED
      BY <1>5, <2>1, <2>2, <2>3 DEF TypeOK, Notify, Advance, MasterLoop
  <1>6. CASE NotifyDead
    <2>1. rridx' \in Wid
      BY <1>6, RoundRobin DEF TypeOK, NotifyDead, Advance
    <2> QED
      BY <1>6, <2>1 DEF TypeOK, NotifyDead, Advance, MasterLoop
  <1>7. CASE MasterReadSignals
    BY <1>7 DEF TypeOK, MasterReadSignals, Take, MasterLoop
  <1>8. CASE HandleChld
    BY <1>8 DEF TypeOK, HandleChld
  <1>9. ASSUME NEW s \in Signals, HandleTerm(s) PROVE TypeOK'
    BY <1>9 DEF TypeOK, HandleTerm, Signals
  <1>10. CASE SignalsDone
    BY <1>10 DEF TypeOK, SignalsDone, MasterLoop
  <1>11. CASE MasterExit
    BY <1>11 DEF TypeOK, MasterExit
  <1> QED
    BY <1>1, <1>2, <1>3, <1>4, <1>5, <1>6, <1>7, <1>8, <1>9, <1>10, <1>11
    DEF MasterStep

LEMMA TypeWorkerStep ==
    ASSUME TypeOK, NEW w \in Wid, WorkerStep(w)
    PROVE  TypeOK'
  <1> USE ProcsAre DEF mvars, wvars, evars, svars, bvars
  <1>1. CASE WorkerBoot(w)
    BY <1>1 DEF TypeOK, WorkerBoot, Register, Events, WorkerLoop
  <1>2. CASE WorkerWait(w)
    BY <1>2, TypeEpollWait DEF WorkerWait
  <1>3. CASE ReadPipe(w)
    <2>1. pipe' \in [Wid -> 0 .. PipeCap]
      BY <1>3, ConstAssumption DEF TypeOK, ReadPipe
    <2> QED
      BY <1>3, <2>1 DEF TypeOK, ReadPipe, Take, WorkerLoop
  <1>4. ASSUME NEW c \in Conns, Accept(w, c) PROVE TypeOK'
    BY <1>4 DEF TypeOK, Accept
  <1>5. CASE AcceptAgain(w)
    BY <1>5 DEF TypeOK, AcceptAgain, WorkerLoop
  <1>6. CASE WorkerReadSignals(w)
    BY <1>6 DEF TypeOK, WorkerReadSignals, Take, WorkerLoop
  <1>7. CASE WorkerExit(w)
    BY <1>7, TypeDie DEF WorkerExit
  <1> QED
    BY <1>1, <1>2, <1>3, <1>4, <1>5, <1>6, <1>7 DEF WorkerStep

LEMMA TypeDelivery == TypeOK /\ Delivery => TypeOK'
  <1> SUFFICES ASSUME TypeOK, Delivery PROVE TypeOK'
    OBVIOUS
  <1> USE ProcsAre DEF mvars, wvars, evars, svars, bvars
  <1>1. ASSUME NEW s \in Signals, DeliverMaster(s) PROVE TypeOK'
    <2>1. /\ sigpend' \in [Procs -> SUBSET Signals]
          /\ sigpipe' \in [Procs -> SUBSET Signals]
          /\ pending' \in [Procs -> SUBSET Events]
      BY <1>1 DEF TypeOK, DeliverMaster, Events
    <2>2. CASE UNCHANGED <<mvars, wvars, batch, backlog, fresh, lost, bvars>>
      BY <1>1, <2>1, <2>2 DEF TypeOK, DeliverMaster
    <2>3. CASE lost' = (backlog # {}) /\ Advance
      <3>1. rridx' \in Wid
        BY <2>3, RoundRobin DEF TypeOK, Advance
      <3> QED
        BY <1>1, <2>1, <2>3, <3>1 DEF TypeOK, DeliverMaster, Advance, MasterLoop
    <2> QED
      BY <1>1, <2>2, <2>3 DEF DeliverMaster
  <1>2. CASE MasterKilled
    BY <1>2 DEF TypeOK, MasterKilled
  <1>3. ASSUME NEW w \in Wid, NEW s \in Signals, DeliverWorker(w, s)
        PROVE  TypeOK'
    BY <1>3 DEF TypeOK, DeliverWorker, Events
  <1>4. ASSUME NEW w \in Wid, WorkerKilled(w) PROVE TypeOK'
    BY <1>4, TypeDie DEF WorkerKilled
  <1> QED
    BY <1>1, <1>2, <1>3, <1>4 DEF Delivery

LEMMA TypeEnvironment == TypeOK /\ Environment => TypeOK'
  <1> SUFFICES ASSUME TypeOK, Environment PROVE TypeOK'
    OBVIOUS
  <1> USE ProcsAre DEF mvars, wvars, evars, svars, bvars
  <1>1. ASSUME NEW c \in Conns, Connect(c) PROVE TypeOK'
    BY <1>1 DEF TypeOK, Connect, Events
  <1>2. CASE Terminate
    BY <1>2, ConstAssumption DEF TypeOK, Terminate, Signals
  <1>3. CASE CtrlC
    BY <1>3, ConstAssumption DEF TypeOK, CtrlC, Signals
  <1>4. ASSUME NEW w \in Wid, Crash(w) PROVE TypeOK'
    BY <1>4, TypeDie DEF Crash
  <1>5. ASSUME NEW w \in Wid, AcceptError(w) PROVE TypeOK'
    BY <1>5, ConstAssumption DEF TypeOK, AcceptError, WorkerLoop
  <1>6. ASSUME NEW w \in Wid, NEW c \in Conns, Close(w, c) PROVE TypeOK'
    BY <1>6 DEF TypeOK, Close
  <1> QED
    BY <1>1, <1>2, <1>3, <1>4, <1>5, <1>6 DEF Environment

LEMMA TypeNext == TypeOK /\ [Next]_vars => TypeOK'
  <1>1. TypeOK /\ UNCHANGED vars => TypeOK'
    BY DEF TypeOK, vars, mvars, wvars, evars, svars, bvars
  <1> QED
    BY <1>1, TypeMasterStep, TypeWorkerStep, TypeDelivery, TypeEnvironment
    DEF Next

\* The variables of the pool always have their types: in particular the
\* round-robin index of prspool_run_master names a worker after any number
\* of connections, and no pipe holds more than its capacity.
THEOREM TypeCorrect == Spec => []TypeOK
  BY TypeInit, TypeNext, PTL DEF Spec

----------------------------------------------------------------------------
(* Joining the workers.  What the master's process ids say of the workers   *)
(* is an inductive invariant, and the master's flag follows from it.        *)

Bookkeeping ==
    /\ \A w \in Wid : pid[w] = "joined" <=> wpc[w] = "reaped"
    /\ mpc \notin {"fork", "killed"} => \A w \in Wid : wpc[w] # "none"
    /\ stop => \A w \in Wid : pid[w] = "joined"
    /\ mpc = "exited" => stop

LEMMA BookkeepingInit == Init => Bookkeeping
  BY DEF Init, Bookkeeping

LEMMA BookkeepingDie ==
    ASSUME TypeOK, Bookkeeping, NEW w \in Wid, Alive(w), Die(w)
    PROVE  Bookkeeping'
  BY DEF TypeOK, Bookkeeping, Alive, WorkerLoop, Die, mvars

LEMMA BookkeepingMasterStep ==
    TypeOK /\ Bookkeeping /\ MasterStep => Bookkeeping'
  <1> SUFFICES ASSUME TypeOK, Bookkeeping, MasterStep PROVE Bookkeeping'
    OBVIOUS
  <1> USE DEF wvars
  <1>1. ASSUME NEW w \in Wid, Fork(w) PROVE Bookkeeping'
    <2>1. ~stop
      BY <1>1 DEF Bookkeeping, Fork
    <2>2. mpc' # "fork" => \A v \in Wid : wpc'[v] # "none"
      BY <1>1, ConstAssumption DEF TypeOK, Fork, Wid
    <2> QED
      BY <1>1, <2>1, <2>2 DEF TypeOK, Bookkeeping, Fork
  <1>2. CASE MasterBoot
    BY <1>2 DEF Bookkeeping, MasterBoot
  <1>3. CASE MasterWait
    BY <1>3 DEF Bookkeeping, MasterWait, EpollWait, mvars
  <1>4. CASE MasterTakeListen
    BY <1>4 DEF Bookkeeping, MasterTakeListen
  <1>5. CASE Notify \/ NotifyDead
    BY <1>5 DEF Bookkeeping, Notify, NotifyDead, Advance
  <1>6. CASE MasterReadSignals
    BY <1>6 DEF Bookkeeping, MasterReadSignals
  <1>7. CASE HandleChld
    <2>1. \A w \in Wid : pid'[w] = "joined" <=> wpc'[w] = "reaped"
      BY <1>7 DEF TypeOK, Bookkeeping, HandleChld
    <2>2. \A w \in Wid : wpc'[w] # "none"
      BY <1>7 DEF Bookkeeping, HandleChld
    <2> QED
      BY <1>7, <2>1, <2>2 DEF Bookkeeping, HandleChld
  <1>8. ASSUME NEW s \in Signals, HandleTerm(s) PROVE Bookkeeping'
    BY <1>8 DEF Bookkeeping, HandleTerm
  <1>9. CASE SignalsDone
    BY <1>9 DEF Bookkeeping, SignalsDone
  <1>10. CASE MasterExit
    BY <1>10 DEF Bookkeeping, MasterExit
  <1> QED
    BY <1>1, <1>2, <1>3, <1>4, <1>5, <1>6, <1>7, <1>8, <1>9, <1>10
    DEF MasterStep

LEMMA BookkeepingWorkerStep ==
    ASSUME TypeOK, Bookkeeping, NEW w \in Wid, WorkerStep(w)
    PROVE  Bookkeeping'
  <1> USE DEF mvars, wvars
  <1>1. CASE WorkerBoot(w)
    BY <1>1 DEF TypeOK, Bookkeeping, WorkerBoot
  <1>2. CASE WorkerWait(w)
    BY <1>2 DEF Bookkeeping, WorkerWait, EpollWait
  <1>3. CASE ReadPipe(w)
    BY <1>3 DEF TypeOK, Bookkeeping, ReadPipe
  <1>4. ASSUME NEW c \in Conns, Accept(w, c) PROVE Bookkeeping'
    BY <1>4 DEF Bookkeeping, Accept
  <1>5. CASE AcceptAgain(w)
    BY <1>5 DEF TypeOK, Bookkeeping, AcceptAgain
  <1>6. CASE WorkerReadSignals(w)
    BY <1>6 DEF TypeOK, Bookkeeping, WorkerReadSignals
  <1>7. CASE WorkerExit(w)
    BY <1>7, BookkeepingDie DEF WorkerExit, Alive, WorkerLoop
  <1> QED
    BY <1>1, <1>2, <1>3, <1>4, <1>5, <1>6, <1>7 DEF WorkerStep

LEMMA BookkeepingNext == TypeOK /\ Bookkeeping /\ [Next]_vars => Bookkeeping'
  <1> SUFFICES ASSUME TypeOK, Bookkeeping, [Next]_vars PROVE Bookkeeping'
    OBVIOUS
  <1> USE DEF mvars, wvars
  <1>1. CASE UNCHANGED vars
    BY <1>1 DEF Bookkeeping, vars
  <1>2. CASE Delivery
    <2>1. ASSUME NEW s \in Signals, DeliverMaster(s) PROVE Bookkeeping'
      BY <2>1 DEF Bookkeeping, DeliverMaster, Advance
    <2>2. CASE MasterKilled
      BY <2>2 DEF Bookkeeping, MasterKilled
    <2>3. ASSUME NEW w \in Wid, NEW s \in Signals, DeliverWorker(w, s)
          PROVE  Bookkeeping'
      BY <2>3 DEF Bookkeeping, DeliverWorker
    <2>4. ASSUME NEW w \in Wid, WorkerKilled(w) PROVE Bookkeeping'
      BY <2>4, BookkeepingDie DEF WorkerKilled, Alive
    <2> QED
      BY <1>2, <2>1, <2>2, <2>3, <2>4 DEF Delivery
  <1>3. CASE Environment
    <2>1. ASSUME NEW c \in Conns, Connect(c) PROVE Bookkeeping'
      BY <2>1 DEF Bookkeeping, Connect
    <2>2. CASE Terminate \/ CtrlC
      BY <2>2 DEF Bookkeeping, Terminate, CtrlC
    <2>3. ASSUME NEW w \in Wid, Crash(w) PROVE Bookkeeping'
      BY <2>3, BookkeepingDie DEF Crash
    <2>4. ASSUME NEW w \in Wid, AcceptError(w) PROVE Bookkeeping'
      BY <2>4 DEF TypeOK, Bookkeeping, AcceptError
    <2>5. ASSUME NEW w \in Wid, NEW c \in Conns, Close(w, c)
          PROVE  Bookkeeping'
      BY <2>5 DEF Bookkeeping, Close
    <2> QED
      BY <1>3, <2>1, <2>2, <2>3, <2>4, <2>5 DEF Environment
  <1> QED
    BY <1>1, <1>2, <1>3, BookkeepingMasterStep, BookkeepingWorkerStep
    DEF Next

LEMMA BookkeepingCorrect == Spec => []Bookkeeping
  BY BookkeepingInit, BookkeepingNext, TypeCorrect, PTL DEF Spec

\* When the loop of prspool_run_master ends, by `stop' of
\* master_handle_signals, every worker has been joined, whatever the number
\* of workers and the order in which they died.
THEOREM ExitReapsAllHolds == Spec => []ExitReapsAll
  <1>1. Bookkeeping => ExitReapsAll
    BY DEF Bookkeeping, ExitReapsAll
  <1> QED
    BY <1>1, BookkeepingCorrect, PTL

\* The loop over prs[] in master_handle_signals that calls kill() never uses
\* a process id that waitpid() has given back.
THEOREM KillsOnlyOwnHolds == Spec => KillsOnlyOwn
  <1> DEFINE Own == \A w \in Wid : wpc[w] \in {"none", "reaped"} =>
                                   sigpend'[w] \subseteq sigpend[w]
  <1>1. TypeOK /\ Bookkeeping /\ [Next]_vars => [Own]_vars
    <2> SUFFICES ASSUME TypeOK, Bookkeeping, Next PROVE Own
      BY DEF vars, mvars, wvars, evars, svars, bvars
    <2> USE ProcsAre DEF mvars, wvars, evars, svars, bvars
    <2>1. ASSUME NEW w \in Wid, Die(w) PROVE Own
      BY <2>1 DEF TypeOK, Die
    <2>2. CASE MasterStep
      <3>1. ASSUME NEW w \in Wid, Fork(w) PROVE Own
        BY <3>1 DEF Fork
      <3>2. CASE MasterWait
        BY <3>2 DEF MasterWait, EpollWait
      <3>3. CASE Notify \/ NotifyDead
        BY <3>3 DEF Notify, NotifyDead
      <3>4. ASSUME NEW s \in Signals, HandleTerm(s) PROVE Own
        BY <3>4 DEF TypeOK, Bookkeeping, HandleTerm
      <3>5. CASE \/ MasterBoot \/ MasterTakeListen \/ MasterReadSignals
                 \/ HandleChld \/ SignalsDone \/ MasterExit
        BY <3>5 DEF MasterBoot, MasterTakeListen, MasterReadSignals,
                    HandleChld, SignalsDone, MasterExit
      <3> QED
        BY <2>2, <3>1, <3>2, <3>3, <3>4, <3>5 DEF MasterStep
    <2>3. ASSUME NEW w \in Wid, WorkerStep(w) PROVE Own
      <3>1. CASE WorkerWait(w)
        BY <3>1 DEF WorkerWait, EpollWait
      <3>2. CASE WorkerExit(w)
        BY <2>1, <3>2 DEF WorkerExit
      <3>3. ASSUME NEW c \in Conns, Accept(w, c) PROVE Own
        BY <3>3 DEF Accept
      <3>4. CASE \/ WorkerBoot(w) \/ ReadPipe(w) \/ AcceptAgain(w)
                 \/ WorkerReadSignals(w)
        BY <3>4 DEF WorkerBoot, ReadPipe, AcceptAgain, WorkerReadSignals
      <3> QED
        BY <2>3, <3>1, <3>2, <3>3, <3>4 DEF WorkerStep
    <2>4. CASE Delivery
      <3>1. ASSUME NEW s \in Signals, DeliverMaster(s) PROVE Own
        BY <3>1 DEF TypeOK, DeliverMaster
      <3>2. CASE MasterKilled
        BY <3>2 DEF TypeOK, MasterKilled
      <3>3. ASSUME NEW w \in Wid, NEW s \in Signals, DeliverWorker(w, s)
            PROVE  Own
        BY <3>3 DEF TypeOK, DeliverWorker
      <3>4. ASSUME NEW w \in Wid, WorkerKilled(w) PROVE Own
        BY <2>1, <3>4 DEF WorkerKilled
      <3> QED
        BY <2>4, <3>1, <3>2, <3>3, <3>4 DEF Delivery
    <2>5. CASE Environment
      <3>1. CASE Terminate
        BY <3>1 DEF TypeOK, Terminate
      <3>2. CASE CtrlC
        BY <3>2 DEF TypeOK, CtrlC, Alive, WorkerLoop
      <3>3. ASSUME NEW w \in Wid, Crash(w) PROVE Own
        BY <2>1, <3>3 DEF Crash
      <3>4. ASSUME NEW c \in Conns, Connect(c) PROVE Own
        BY <3>4 DEF Connect
      <3>5. ASSUME NEW w \in Wid, AcceptError(w) PROVE Own
        BY <3>5 DEF AcceptError
      <3>6. ASSUME NEW w \in Wid, NEW c \in Conns, Close(w, c) PROVE Own
        BY <3>6 DEF Close
      <3> QED
        BY <2>5, <3>1, <3>2, <3>3, <3>4, <3>5, <3>6 DEF Environment
    <2> QED
      BY <2>2, <2>3, <2>4, <2>5 DEF Next
  <1> QED
    BY <1>1, TypeCorrect, BookkeepingCorrect, PTL DEF Spec, KillsOnlyOwn

----------------------------------------------------------------------------
(* The pipe to a worker.  FullPipeSeen is inductive relative to TypeOK.     *)

LEMMA FullPipeInit == Init => FullPipeSeen
  BY DEF Init, FullPipeSeen

LEMMA FullPipeDie ==
    ASSUME TypeOK, FullPipeSeen, NEW w \in Wid, Die(w)
    PROVE  FullPipeSeen'
  BY ProcsAre DEF TypeOK, FullPipeSeen, Die

LEMMA FullPipeEpollWait ==
    ASSUME TypeOK, FullPipeSeen, NEW p \in Procs, EpollWait(p)
    PROVE  FullPipeSeen'
  <1> SUFFICES ASSUME NEW w \in Wid,
                      wpc[w] \in {"wait", "accept"}, pipe[w] = PipeCap
               PROVE  "pipe" \in pending'[w] \cup batch'[w]
    BY DEF FullPipeSeen, EpollWait, wvars
  <1>1. Readable(w, "pipe")
    BY ConstAssumption DEF Readable
  <1> QED
    BY <1>1, ProcsAre DEF TypeOK, FullPipeSeen, EpollWait

LEMMA FullPipeMasterStep ==
    TypeOK /\ FullPipeSeen /\ MasterStep => FullPipeSeen'
  <1> SUFFICES ASSUME TypeOK, FullPipeSeen, MasterStep PROVE FullPipeSeen'
    OBVIOUS
  <1> USE ProcsAre DEF mvars, wvars, evars
  <1>1. ASSUME NEW w \in Wid, Fork(w) PROVE FullPipeSeen'
    BY <1>1 DEF TypeOK, FullPipeSeen, Fork
  <1>2. CASE MasterBoot
    BY <1>2 DEF TypeOK, FullPipeSeen, MasterBoot, Register
  <1>3. CASE MasterWait
    BY <1>3, FullPipeEpollWait DEF MasterWait
  <1>4. CASE MasterTakeListen \/ MasterReadSignals
    BY <1>4 DEF TypeOK, FullPipeSeen, MasterTakeListen, MasterReadSignals,
                Take
  <1>5. CASE Notify
    BY <1>5 DEF TypeOK, FullPipeSeen, Notify, Advance, Ready, WorkerLoop
  <1>6. CASE NotifyDead
    BY <1>6 DEF FullPipeSeen, NotifyDead, Advance
  <1>7. CASE HandleChld
    BY <1>7 DEF TypeOK, FullPipeSeen, HandleChld
  <1>8. ASSUME NEW s \in Signals, HandleTerm(s) PROVE FullPipeSeen'
    BY <1>8 DEF FullPipeSeen, HandleTerm
  <1>9. CASE SignalsDone \/ MasterExit
    BY <1>9 DEF FullPipeSeen, SignalsDone, MasterExit
  <1> QED
    BY <1>1, <1>2, <1>3, <1>4, <1>5, <1>6, <1>7, <1>8, <1>9 DEF MasterStep

LEMMA FullPipeWorkerStep ==
    ASSUME TypeOK, FullPipeSeen, NEW w \in Wid, WorkerStep(w)
    PROVE  FullPipeSeen'
  <1> USE ProcsAre DEF mvars, wvars, evars
  <1>1. CASE WorkerBoot(w)
    <2>1. pipe[w] = PipeCap => Readable(w, "pipe")
      BY ConstAssumption DEF Readable
    <2> QED
      BY <1>1, <2>1 DEF TypeOK, FullPipeSeen, WorkerBoot, Register
  <1>2. CASE WorkerWait(w)
    BY <1>2, FullPipeEpollWait DEF WorkerWait
  <1>3. CASE ReadPipe(w)
    <2>1. pipe'[w] # PipeCap
      BY <1>3, ConstAssumption DEF TypeOK, ReadPipe
    <2> QED
      BY <1>3, <2>1 DEF TypeOK, FullPipeSeen, ReadPipe, Take
  <1>4. ASSUME NEW c \in Conns, Accept(w, c) PROVE FullPipeSeen'
    BY <1>4 DEF FullPipeSeen, Accept
  <1>5. CASE AcceptAgain(w)
    BY <1>5 DEF TypeOK, FullPipeSeen, AcceptAgain
  <1>6. CASE WorkerReadSignals(w)
    BY <1>6 DEF TypeOK, FullPipeSeen, WorkerReadSignals, Take
  <1>7. CASE WorkerExit(w)
    BY <1>7, FullPipeDie DEF WorkerExit
  <1> QED
    BY <1>1, <1>2, <1>3, <1>4, <1>5, <1>6, <1>7 DEF WorkerStep

LEMMA FullPipeNext ==
    TypeOK /\ FullPipeSeen /\ [Next]_vars => FullPipeSeen'
  <1> SUFFICES ASSUME TypeOK, FullPipeSeen, [Next]_vars PROVE FullPipeSeen'
    OBVIOUS
  <1> USE ProcsAre DEF mvars, wvars, evars
  <1>1. CASE UNCHANGED vars
    BY <1>1 DEF FullPipeSeen, vars
  <1>2. CASE Delivery
    <2>1. ASSUME NEW s \in Signals, DeliverMaster(s) PROVE FullPipeSeen'
      BY <2>1 DEF TypeOK, FullPipeSeen, DeliverMaster, Advance
    <2>2. CASE MasterKilled
      BY <2>2 DEF FullPipeSeen, MasterKilled
    <2>3. ASSUME NEW w \in Wid, NEW s \in Signals, DeliverWorker(w, s)
          PROVE  FullPipeSeen'
      BY <2>3 DEF TypeOK, FullPipeSeen, DeliverWorker
    <2>4. ASSUME NEW w \in Wid, WorkerKilled(w) PROVE FullPipeSeen'
      BY <2>4, FullPipeDie DEF WorkerKilled
    <2> QED
      BY <1>2, <2>1, <2>2, <2>3, <2>4 DEF Delivery
  <1>3. CASE Environment
    <2>1. ASSUME NEW c \in Conns, Connect(c) PROVE FullPipeSeen'
      BY <2>1 DEF TypeOK, FullPipeSeen, Connect
    <2>2. CASE Terminate \/ CtrlC
      BY <2>2 DEF FullPipeSeen, Terminate, CtrlC
    <2>3. ASSUME NEW w \in Wid, Crash(w) PROVE FullPipeSeen'
      BY <2>3, FullPipeDie DEF Crash
    <2>4. ASSUME NEW w \in Wid, AcceptError(w) PROVE FullPipeSeen'
      BY <2>4 DEF TypeOK, FullPipeSeen, AcceptError
    <2>5. ASSUME NEW w \in Wid, NEW c \in Conns, Close(w, c)
          PROVE  FullPipeSeen'
      BY <2>5 DEF FullPipeSeen, Close
    <2> QED
      BY <1>3, <2>1, <2>2, <2>3, <2>4, <2>5 DEF Environment
  <1> QED
    BY <1>1, <1>2, <1>3, FullPipeMasterStep, FullPipeWorkerStep DEF Next

\* Whatever the sizes of the pipe and of the worker's buffer, a pipe the
\* master could block on has an event its worker is still to take, so the
\* blocking write in prspool_run_master is always answered by a read.
THEOREM FullPipeSeenHolds == Spec => []FullPipeSeen
  BY FullPipeInit, FullPipeNext, TypeCorrect, PTL DEF Spec

----------------------------------------------------------------------------
(* Wake-ups.  NoLostWakeup is inductive relative to TypeOK.                 *)

Coming ==
    \/ "listen" \in pending[Master] \cup batch[Master]
    \/ mpc = "notify"
    \/ \E w \in Wid : Woken(w)

LEMMA WakeupDef ==
    NoLostWakeup <=> (MasterReady /\ backlog # {} /\ ~lost => Coming)
  BY DEF NoLostWakeup, Coming

\* A step that leaves the backlog, the master and every worker as they are
\* and takes no event and no byte away keeps every wake-up.
LEMMA WakeupKept ==
    ASSUME NoLostWakeup, TypeOK, UNCHANGED <<mpc, wpc, pipe, backlog, lost>>,
           \A p \in Procs : pending[p] \cup batch[p]
                            \subseteq pending'[p] \cup batch'[p]
    PROVE  NoLostWakeup'
  BY ProcsAre DEF NoLostWakeup, MasterReady, Woken

LEMMA WakeupInit == Init => NoLostWakeup
  BY DEF Init, NoLostWakeup

LEMMA WakeupDie ==
    ASSUME TypeOK, NoLostWakeup, NEW w \in Wid, Die(w)
    PROVE  NoLostWakeup'
  <1> SUFFICES ASSUME MasterReady, backlog' # {}, ~lost'
               PROVE  Coming'
    BY WakeupDef DEF NoLostWakeup, Coming, Die, mvars, MasterReady
  <1>1. backlog # {} /\ ~lost /\ ~Woken(w)
    BY DEF Die
  <1>2. Coming
    BY <1>1, WakeupDef
  <1>3. \A v \in Wid : Woken(v) => Woken(v)'
    BY <1>1, ProcsAre DEF TypeOK, Die, Woken
  <1> QED
    BY <1>2, <1>3, ProcsAre DEF TypeOK, Coming, Die, mvars

LEMMA WakeupEpollWait ==
    ASSUME TypeOK, NoLostWakeup, NEW p \in Procs, EpollWait(p)
    PROVE  NoLostWakeup'
  <1> USE ProcsAre DEF mvars, wvars
  <1> SUFFICES ASSUME MasterReady, backlog # {}, ~lost
               PROVE  Coming'
    BY WakeupDef DEF NoLostWakeup, Coming, EpollWait, MasterReady
  <1>1. Coming
    BY WakeupDef
  <1>2. ASSUME NEW w \in Wid, Woken(w) PROVE Woken(w)'
    <2>1. pipe[w] > 0 => Readable(w, "pipe")
      BY DEF Readable
    <2> QED
      BY <1>2, <2>1 DEF TypeOK, Woken, EpollWait
  <1>3. "listen" \in pending[Master] \cup batch[Master]
        => "listen" \in pending'[Master] \cup batch'[Master]
    BY DEF TypeOK, EpollWait, Readable
  <1> QED
    BY <1>1, <1>2, <1>3 DEF Coming, EpollWait

LEMMA WakeupNotify ==
    ASSUME TypeOK, NoLostWakeup, Notify
    PROVE  NoLostWakeup'
  <1> USE ProcsAre DEF TypeOK, Notify, Advance, wvars
  <1> SUFFICES ASSUME backlog # {}, wpc[rridx] # "exiting"
               PROVE  Coming'
    BY WakeupDef DEF NoLostWakeup, Coming
  <1>1. PICK w \in Wid : w = rridx
    OBVIOUS
  <1>2. pipe'[w] > 0 /\ (Ready(w) => "pipe" \in pending'[w])
    BY <1>1
  <1>3. Woken(w)'
    BY <1>1, <1>2 DEF Woken, Alive, Ready, WorkerLoop
  <1> QED
    BY <1>3 DEF Coming

LEMMA WakeupMasterStep ==
    TypeOK /\ NoLostWakeup /\ MasterStep => NoLostWakeup'
  <1> SUFFICES ASSUME TypeOK, NoLostWakeup, MasterStep PROVE NoLostWakeup'
    OBVIOUS
  <1> USE ProcsAre DEF mvars, wvars, evars, svars, bvars
  <1>1. ASSUME NEW w \in Wid, Fork(w) PROVE NoLostWakeup'
    BY <1>1 DEF NoLostWakeup, Fork, MasterReady, MasterLoop
  <1>2. CASE MasterBoot
    <2>1. backlog # {} => Readable(Master, "listen")
      BY DEF Readable
    <2> QED
      BY <1>2, <2>1 DEF TypeOK, NoLostWakeup, MasterBoot, Register
  <1>3. CASE MasterWait
    BY <1>3, WakeupEpollWait DEF MasterWait
  <1>4. CASE MasterTakeListen
    BY <1>4 DEF NoLostWakeup, MasterTakeListen
  <1>5. CASE Notify
    BY <1>5, WakeupNotify
  <1>6. CASE NotifyDead
    BY <1>6 DEF NoLostWakeup, NotifyDead, Advance
  <1>7. CASE MasterReadSignals
    <2>1. mpc \in MasterLoop /\ mpc # "notify"
      BY <1>7 DEF MasterReadSignals, MasterLoop
    <2>2. \A w \in Wid : Woken(w) => Woken(w)'
      BY <1>7 DEF TypeOK, MasterReadSignals, Take, Woken
    <2>3. "listen" \in pending[Master] \cup batch[Master]
          => "listen" \in pending'[Master] \cup batch'[Master]
      BY <1>7 DEF TypeOK, MasterReadSignals, Take
    <2> QED
      BY <1>7, <2>1, <2>2, <2>3 DEF NoLostWakeup, MasterReadSignals,
                                    MasterReady
  <1>8. CASE HandleChld
    <2>1. \A w \in Wid : Woken(w) => Woken(w)'
      BY <1>8 DEF TypeOK, HandleChld, Woken
    <2> QED
      BY <1>8, <2>1 DEF NoLostWakeup, HandleChld, MasterReady
  <1>9. ASSUME NEW s \in Signals, HandleTerm(s) PROVE NoLostWakeup'
    BY <1>9, WakeupKept DEF HandleTerm
  <1>10. CASE SignalsDone
    BY <1>10 DEF NoLostWakeup, SignalsDone, Woken, MasterReady, MasterLoop
  <1>11. CASE MasterExit
    BY <1>11 DEF NoLostWakeup, MasterExit, MasterReady, MasterLoop
  <1> QED
    BY <1>1, <1>2, <1>3, <1>4, <1>5, <1>6, <1>7, <1>8, <1>9, <1>10, <1>11
    DEF MasterStep

LEMMA WakeupWorkerStep ==
    ASSUME TypeOK, NoLostWakeup, NEW w \in Wid, WorkerStep(w)
    PROVE  NoLostWakeup'
  <1> USE ProcsAre DEF mvars, wvars, evars, svars, bvars
  <1>1. CASE WorkerBoot(w)
    <2>1. pipe[w] > 0 => Readable(w, "pipe")
      BY DEF Readable
    <2>2. \A v \in Wid : Woken(v) => Woken(v)'
      BY <1>1, <2>1 DEF TypeOK, WorkerBoot, Register, Woken
    <2> QED
      BY <1>1, <2>2 DEF TypeOK, NoLostWakeup, WorkerBoot, Register,
                        MasterReady
  <1>2. CASE WorkerWait(w)
    BY <1>2, WakeupEpollWait DEF WorkerWait
  <1>3. CASE ReadPipe(w)
    <2>1. Woken(w)'
      BY <1>3 DEF TypeOK, ReadPipe, Woken
    <2> QED
      BY <2>1 DEF NoLostWakeup
  <1>4. ASSUME NEW c \in Conns, Accept(w, c) PROVE NoLostWakeup'
    <2>1. Woken(w)'
      BY <1>4 DEF Accept, Woken
    <2> QED
      BY <2>1 DEF NoLostWakeup
  <1>5. CASE AcceptAgain(w)
    BY <1>5 DEF NoLostWakeup, AcceptAgain
  <1>6. CASE WorkerReadSignals(w)
    <2>1. \A v \in Wid : /\ Woken(v)
                         /\ v # w \/ wpc'[w] = "wait"
                         => Woken(v)'
      BY <1>6 DEF TypeOK, WorkerReadSignals, Take, Woken
    <2>2. "listen" \in pending[Master] \cup batch[Master]
          => "listen" \in pending'[Master] \cup batch'[Master]
      BY <1>6 DEF TypeOK, WorkerReadSignals, Take
    <2>3. wpc'[w] \in {"wait", "exiting"}
      BY <1>6 DEF TypeOK, WorkerReadSignals
    <2> QED
      BY <1>6, <2>1, <2>2, <2>3 DEF NoLostWakeup, WorkerReadSignals,
                                    MasterReady
  <1>7. CASE WorkerExit(w)
    BY <1>7, WakeupDie DEF WorkerExit
  <1> QED
    BY <1>1, <1>2, <1>3, <1>4, <1>5, <1>6, <1>7 DEF WorkerStep

LEMMA WakeupNext == TypeOK /\ NoLostWakeup /\ [Next]_vars => NoLostWakeup'
  <1> SUFFICES ASSUME TypeOK, NoLostWakeup, [Next]_vars PROVE NoLostWakeup'
    OBVIOUS
  <1> USE ProcsAre DEF mvars, wvars, evars, svars, bvars
  <1>1. CASE UNCHANGED vars
    BY <1>1, WakeupKept DEF vars
  <1>2. CASE Delivery
    <2>1. ASSUME NEW s \in Signals, DeliverMaster(s) PROVE NoLostWakeup'
      <3>1. CASE UNCHANGED <<mvars, wvars, batch, backlog, fresh, lost, bvars>>
        BY <2>1, <3>1, WakeupKept DEF TypeOK, DeliverMaster
      <3>2. CASE lost' = (backlog # {}) /\ UNCHANGED backlog
        BY <3>2 DEF NoLostWakeup
      <3> QED
        BY <2>1, <3>1, <3>2 DEF DeliverMaster, Advance
    <2>2. CASE MasterKilled
      BY <2>2 DEF NoLostWakeup, MasterKilled, MasterReady, MasterLoop
    <2>3. ASSUME NEW w \in Wid, NEW s \in Signals, DeliverWorker(w, s)
          PROVE  NoLostWakeup'
      BY <2>3, WakeupKept DEF TypeOK, DeliverWorker
    <2>4. ASSUME NEW w \in Wid, WorkerKilled(w) PROVE NoLostWakeup'
      BY <2>4, WakeupDie DEF WorkerKilled
    <2> QED
      BY <1>2, <2>1, <2>2, <2>3, <2>4 DEF Delivery
  <1>3. CASE Environment
    <2>1. ASSUME NEW c \in Conns, Connect(c) PROVE NoLostWakeup'
      BY <2>1 DEF TypeOK, NoLostWakeup, Connect, MasterReady
    <2>2. CASE Terminate \/ CtrlC
      BY <2>2, WakeupKept DEF Terminate, CtrlC
    <2>3. ASSUME NEW w \in Wid, Crash(w) PROVE NoLostWakeup'
      BY <2>3, WakeupDie DEF Crash
    <2>4. ASSUME NEW w \in Wid, AcceptError(w) PROVE NoLostWakeup'
      BY <2>4 DEF NoLostWakeup, AcceptError
    <2>5. ASSUME NEW w \in Wid, NEW c \in Conns, Close(w, c)
          PROVE  NoLostWakeup'
      BY <2>5, WakeupKept DEF Close
    <2> QED
      BY <1>3, <2>1, <2>2, <2>3, <2>4, <2>5 DEF Environment
  <1> QED
    BY <1>1, <1>2, <1>3, WakeupMasterStep, WakeupWorkerStep DEF Next

\* No interleaving of clients, master, workers and signals makes the pool
\* forget a waiting connection, short of the faults NoLostWakeup lists:
\* edge-triggered polling, coalesced edges and the worker's accept loop
\* together lose nothing, for every number of workers and connections.
THEOREM NoLostWakeupHolds == Spec => []NoLostWakeup
  BY WakeupInit, WakeupNext, TypeCorrect, PTL DEF Spec

----------------------------------------------------------------------------
(* The pool implements the abstract server: every step of it is a step of   *)
(* Server.tla, or leaves what Server.tla speaks of as it is.                *)

LEMMA StatusIs ==
    /\ \A w \in Wid : StatusOf(w) = "running" <=> Alive(w)
    /\ \A w \in Wid : StatusOf(w) = "new" <=> wpc[w] = "none"
    /\ \A w \in Wid : StatusOf(w) \in {"new", "running", "gone"}
    /\ Head = "on" <=> MasterUp
    /\ mpc = "killed" <=> Head = "killed"
    /\ mpc = "exited" <=> Head = "off"
  BY DEF StatusOf, Alive, WorkerLoop, Head, MasterUp

LEMMA UpIsListening == Abstract!Up <=> Listening
  BY StatusIs DEF Abstract!Up, Abstract!Running, Status, Listening

LEMMA RunningIsAlive == Abstract!Running = {w \in Wid : Alive(w)}
  BY StatusIs DEF Abstract!Running, Status

\* A step that moves no worker into or out of life, and the master neither,
\* keeps the abstract status and head.
LEMMA SameStatus ==
    ASSUME UNCHANGED <<conns, backlog, fresh>>,
           \A w \in Wid : /\ Alive(w)' = Alive(w)
                         /\ (wpc'[w] = "none") = (wpc[w] = "none"),
           MasterUp' = MasterUp, (mpc' = "killed") = (mpc = "killed")
    PROVE  UNCHANGED Abstract!vars
  <1>1. \A w \in Wid : StatusOf(w)' = StatusOf(w)
    BY DEF StatusOf
  <1>2. Head' = Head
    BY DEF Head
  <1> QED
    BY <1>1, <1>2 DEF Abstract!vars, Status

LEMMA ImplInit == Init => Abstract!Init
  <1> SUFFICES ASSUME Init PROVE Abstract!Init
    OBVIOUS
  <1>1. \A w \in Wid : StatusOf(w) = "new"
    BY DEF Init, StatusOf, Alive, WorkerLoop
  <1>2. Head = "on"
    BY DEF Init, Head, MasterUp
  <1> QED
    BY <1>1, <1>2 DEF Init, Abstract!Init, Status

LEMMA ImplDie ==
    ASSUME TypeOK, NEW w \in Wid, Alive(w), Die(w)
    PROVE  Abstract!Go(w)
  <1>1. w \in Abstract!Running
    BY RunningIsAlive
  <1>2. (Abstract!Up <=> Listening)'
    BY UpIsListening, PTL
  <1>3. Status' = [Status EXCEPT ![w] = "gone"]
    <2>1. StatusOf(w)' = "gone"
      BY DEF TypeOK, Die, StatusOf, Alive, WorkerLoop
    <2>2. \A v \in Wid \ {w} : StatusOf(v)' = StatusOf(v)
      BY DEF TypeOK, Die, StatusOf, Alive
    <2> QED
      BY <2>1, <2>2 DEF Status
  <1>4. Head' = Head
    BY DEF Die, mvars, Head, MasterUp
  <1> QED
    BY <1>1, <1>2, <1>3, <1>4 DEF Abstract!Go, Die

LEMMA ImplMasterStep ==
    ASSUME TypeOK, Bookkeeping, Bookkeeping', MasterStep
    PROVE  Abstract!Next \/ UNCHANGED Abstract!vars
  <1> USE DEF mvars, wvars, evars, svars, bvars
  <1>1. ASSUME NEW w \in Wid, Fork(w) PROVE Abstract!Start(w)
    <2>1. Head = "on" /\ Head' = "on"
      BY <1>1 DEF Fork, Head, MasterUp
    <2>2. StatusOf(w) = "new" /\ StatusOf(w)' = "running"
      BY <1>1 DEF TypeOK, Fork, StatusOf, Alive, WorkerLoop
    <2>3. \A v \in Wid \ {w} : StatusOf(v)' = StatusOf(v)
      BY <1>1 DEF TypeOK, Fork, StatusOf, Alive
    <2> QED
      BY <1>1, <2>1, <2>2, <2>3 DEF Abstract!Start, Fork, Status
  <1>2. CASE MasterExit
    <2>1. ~MasterUp' /\ \A w \in Wid : wpc[w] = "reaped"
      BY <1>2 DEF MasterExit, MasterUp, Bookkeeping
    <2>2. ~Listening'
      BY <1>2, <2>1 DEF MasterExit, Listening, Alive, WorkerLoop
    <2>3. \A w \in Wid : StatusOf(w) = "gone"
      BY <2>1 DEF StatusOf, Alive, WorkerLoop
    <2>4. Head = "on" /\ Head' = "off" /\ Status' = Status
      BY <1>2 DEF MasterExit, Head, MasterUp, Status, StatusOf, Alive
    <2>5. Abstract!Stop
      BY <1>2, <2>2, <2>3, <2>4 DEF Abstract!Stop, MasterExit, Status
    <2> QED
      BY <2>5 DEF Abstract!Next
  <1>3. ASSUME NEW s \in Signals, HandleTerm(s) PROVE UNCHANGED Abstract!vars
    BY <1>3, SameStatus DEF HandleTerm, Alive, MasterUp
  <1>4. CASE HandleChld
    <2>1. \A w \in Wid : /\ Alive(w)' = Alive(w)
                        /\ (wpc'[w] = "none") = (wpc[w] = "none")
      BY <1>4 DEF TypeOK, HandleChld, Alive, WorkerLoop
    <2> QED
      BY <1>4, <2>1, SameStatus DEF HandleChld, MasterUp
  <1>5. CASE MasterBoot \/ MasterTakeListen \/ MasterReadSignals \/ SignalsDone
    BY <1>5, SameStatus DEF MasterBoot, MasterTakeListen, MasterReadSignals,
                            SignalsDone, Alive, MasterUp
  <1>6. CASE MasterWait
    BY <1>6, SameStatus DEF MasterWait, EpollWait, Alive, MasterUp
  <1>7. CASE Notify \/ NotifyDead
    BY <1>7, SameStatus DEF Notify, NotifyDead, Advance, Alive, MasterUp
  <1> QED
    BY <1>1, <1>2, <1>3, <1>4, <1>5, <1>6, <1>7
    DEF MasterStep, Abstract!Next

LEMMA ImplWorkerStep ==
    ASSUME TypeOK, NEW w \in Wid, WorkerStep(w)
    PROVE  Abstract!Next \/ UNCHANGED Abstract!vars
  <1> USE DEF mvars, wvars, evars, svars, bvars
  <1>1. ASSUME NEW c \in Conns, Accept(w, c) PROVE Abstract!TakeConn(w, c)
    <2>1. w \in Abstract!Running
      BY <1>1, RunningIsAlive DEF Accept, Alive, WorkerLoop
    <2>2. Status' = Status /\ Head' = Head
      BY <1>1 DEF Accept, Status, StatusOf, Alive, Head, MasterUp
    <2> QED
      BY <1>1, <2>1, <2>2 DEF Abstract!TakeConn, Accept
  <1>2. CASE WorkerExit(w)
    BY <1>2, ImplDie DEF WorkerExit, Alive, WorkerLoop, Abstract!Next
  <1>3. CASE WorkerWait(w)
    BY <1>3, SameStatus DEF WorkerWait, EpollWait, Alive, MasterUp
  <1>4. CASE \/ WorkerBoot(w) \/ ReadPipe(w) \/ AcceptAgain(w)
             \/ WorkerReadSignals(w)
    <2>1. \A v \in Wid : /\ Alive(v)' = Alive(v)
                        /\ (wpc'[v] = "none") = (wpc[v] = "none")
      BY <1>4 DEF TypeOK, WorkerBoot, ReadPipe, AcceptAgain,
                  WorkerReadSignals, Alive, WorkerLoop
    <2> QED
      BY <1>4, <2>1, SameStatus DEF WorkerBoot, ReadPipe, AcceptAgain,
                                    WorkerReadSignals, MasterUp
  <1> QED
    BY <1>1, <1>2, <1>3, <1>4 DEF WorkerStep, Abstract!Next

LEMMA ImplDelivery ==
    ASSUME TypeOK, Delivery
    PROVE  Abstract!Next \/ UNCHANGED Abstract!vars
  <1> USE DEF mvars, wvars, evars, svars, bvars
  <1>1. ASSUME NEW s \in Signals, DeliverMaster(s)
        PROVE  UNCHANGED Abstract!vars
    BY <1>1, SameStatus DEF DeliverMaster, Advance, Alive, MasterUp
  <1>2. CASE MasterKilled
    <2>1. Head = "on" /\ Head' = "killed" /\ Status' = Status
      BY <1>2 DEF MasterKilled, Head, MasterUp, Status, StatusOf, Alive
    <2>2. Listening' <=> Abstract!Running # {}
      BY <1>2, RunningIsAlive DEF MasterKilled, Listening, MasterUp, Alive
    <2>3. Abstract!Kill
      BY <1>2, <2>1, <2>2 DEF Abstract!Kill, MasterKilled
    <2> QED
      BY <2>3 DEF Abstract!Next
  <1>3. ASSUME NEW w \in Wid, NEW s \in Signals, DeliverWorker(w, s)
        PROVE  UNCHANGED Abstract!vars
    BY <1>3, SameStatus DEF DeliverWorker, Alive, MasterUp
  <1>4. ASSUME NEW w \in Wid, WorkerKilled(w) PROVE Abstract!Go(w)
    BY <1>4, ImplDie DEF WorkerKilled, Alive
  <1> QED
    BY <1>1, <1>2, <1>3, <1>4 DEF Delivery, Abstract!Next

LEMMA ImplEnvironment ==
    ASSUME TypeOK, Environment
    PROVE  Abstract!Next \/ UNCHANGED Abstract!vars
  <1> USE DEF mvars, wvars, evars, svars, bvars
  <1>1. ASSUME NEW c \in Conns, Connect(c) PROVE Abstract!Arrive(c)
    <2>1. Status' = Status /\ Head' = Head
      BY <1>1 DEF Connect, Status, StatusOf, Alive, Head, MasterUp
    <2> QED
      BY <1>1, <2>1, UpIsListening DEF Abstract!Arrive, Connect
  <1>2. CASE Terminate \/ CtrlC
    BY <1>2, SameStatus DEF Terminate, CtrlC, Alive, MasterUp
  <1>3. ASSUME NEW w \in Wid, Crash(w) PROVE Abstract!Go(w)
    BY <1>3, ImplDie DEF Crash
  <1>4. ASSUME NEW w \in Wid, AcceptError(w)
        PROVE  (\E c \in Conns : Abstract!Abort(c)) \/ UNCHANGED Abstract!vars
    <2>1. \A v \in Wid : /\ Alive(v)' = Alive(v)
                        /\ (wpc'[v] = "none") = (wpc[v] = "none")
      BY <1>4 DEF TypeOK, AcceptError, Alive, WorkerLoop
    <2>2. PICK c \in backlog : backlog' \in {backlog, backlog \ {c}}
      BY <1>4 DEF AcceptError
    <2>3. CASE backlog' = backlog
      BY <1>4, <2>1, <2>3, SameStatus DEF AcceptError, MasterUp
    <2>4. CASE backlog' = backlog \ {c}
      <3>1. \A v \in Wid : StatusOf(v)' = StatusOf(v)
        BY <2>1 DEF StatusOf
      <3>2. Status' = Status /\ Head' = Head
        BY <1>4, <3>1 DEF AcceptError, Status, Head, MasterUp
      <3>3. w \in Abstract!Running
        BY <1>4, RunningIsAlive DEF AcceptError, Alive, WorkerLoop
      <3>4. Abstract!Abort(c)
        BY <1>4, <2>2, <2>4, <3>2, <3>3 DEF Abstract!Abort, AcceptError
      <3> QED
        BY <2>2, <3>4 DEF TypeOK
    <2> QED
      BY <2>2, <2>3, <2>4
  <1>5. ASSUME NEW w \in Wid, NEW c \in Conns, Close(w, c)
        PROVE  Abstract!Release(w, c)
    <2>1. w \in Abstract!Running
      BY <1>5, RunningIsAlive DEF Close, Alive, WorkerLoop
    <2>2. Status' = Status /\ Head' = Head
      BY <1>5 DEF Close, Status, StatusOf, Alive, Head, MasterUp
    <2> QED
      BY <1>5, <2>1, <2>2 DEF Abstract!Release, Close
  <1> QED
    BY <1>1, <1>2, <1>3, <1>4, <1>5 DEF Environment, Abstract!Next

\* The process pool implements the abstract server: whatever the number of
\* workers and the order of accepts, deaths and signals, one worker at most
\* takes a connection, a dying worker takes along only its own, and the
\* master stops regularly only when nobody is left to serve.
THEOREM PoolImplementsServer == Spec => ImplementsServer
  <1>1. TypeOK /\ Bookkeeping /\ Bookkeeping' /\ [Next]_vars
        => [Abstract!Next]_(Abstract!vars)
    <2>1. UNCHANGED vars => UNCHANGED Abstract!vars
      BY DEF vars, mvars, wvars, Abstract!vars, Status, StatusOf, Alive,
             Head, MasterUp
    <2> QED
      BY <2>1, ImplMasterStep, ImplWorkerStep, ImplDelivery, ImplEnvironment
      DEF Next
  <1> QED
    BY <1>1, ImplInit, TypeCorrect, BookkeepingCorrect, PTL
    DEF Spec, ImplementsServer, Abstract!Spec
============================================================================
