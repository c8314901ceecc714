---------------------------- MODULE WorkerProofs ----------------------------
(***************************************************************************)
(* Whom the timers of ehp close and whom they never miss, for any number   *)
(* of descriptors, any delay and any order in the heap.                    *)
(***************************************************************************)
EXTENDS Worker, WellFoundedInduction, TLAPS

\* There is a lowest free descriptor.
LEMMA LowestIsFd ==
    ASSUME NEW S \in SUBSET Fds, S # {}
    PROVE  Min(S) \in S
  <1> DEFINE R == {p \in Nat \X Nat : p[1] < p[2]}
  <1>1. IsWellFoundedOn(R, Nat)
    BY NatLessThanWellFounded DEF OpToRel
  <1>2. S \subseteq Nat
    BY WorkerAssumption DEF Fds
  <1> HIDE DEF R
  <1>3. PICK x \in S : \A y \in S : ~(<<y, x>> \in R)
    BY <1>1, <1>2, WFMin
  <1>4. \A y \in S : x <= y
    <2>1. ASSUME NEW y \in S, y < x PROVE <<y, x>> \in R
      BY <1>2, <2>1 DEF R
    <2>2. \A y \in S : ~(y < x)
      BY <1>3, <2>1
    <2> QED
      BY <1>2, <2>2
  <1> QED
    BY <1>4 DEF Min

\* The stamp of a descriptor is when its connection was last active, or gone.
StampTrue ==
    /\ updated = [fd \in Fds |-> updated[fd]] /\ active = [fd \in Fds |-> active[fd]]
    /\ \A fd \in Fds : updated[fd] \in {active[fd], None}
    /\ open \subseteq Fds

LEMMA StampTrueHolds == Spec => []StampTrue
  <1>1. Init => StampTrue
    BY DEF Init, StampTrue
  <1>2. StampTrue /\ [Next]_vars => StampTrue'
    <2> SUFFICES ASSUME StampTrue, [Next]_vars PROVE StampTrue'
      OBVIOUS
    <2>1. ASSUME NEW fd, NEW t, Update(fd, t), active' = [active EXCEPT ![fd] = t],
                 open' \subseteq Fds
          PROVE  StampTrue'
      BY <2>1 DEF Update, StampTrue
    <2>2. CASE UNCHANGED <<updated, active, open>>
      BY <2>2 DEF StampTrue
    <2>3. CASE Accept
      <3> DEFINE fd == Min(Fds \ open)
      <3>1. Update(fd, now) /\ active' = [active EXCEPT ![fd] = now]
            /\ open' = open \cup {fd} /\ open # Fds
        BY <2>3 DEF Accept
      <3>2. Fds \ open # {}
        BY <3>1 DEF StampTrue
      <3>3. fd \in Fds
        BY <3>2, LowestIsFd
      <3>4. open' \subseteq Fds
        BY <3>1, <3>3 DEF StampTrue
      <3> HIDE DEF fd
      <3> QED
        BY <2>1, <3>1, <3>4
    <2>4. ASSUME NEW fd \in Fds, Serve(fd)
          PROVE  StampTrue'
      <3>1. open' \subseteq Fds
        BY <2>4 DEF Serve, StampTrue
      <3> QED
        BY <2>1, <2>4, <3>1 DEF Serve
    <2>5. CASE HandleAlarm
      <3>1. active' = active /\ open' \subseteq Fds
        BY <2>5 DEF HandleAlarm, StampTrue
      <3>2. (updated' = updated) \/ \E fd : Update(fd, updated[fd])
        BY <2>5 DEF HandleAlarm
      <3>3. ASSUME NEW fd, Update(fd, updated[fd])
            PROVE  StampTrue'
        BY <3>1, <3>3 DEF Update, StampTrue
      <3> QED
        BY <3>1, <3>2, <3>3 DEF StampTrue
    <2> QED
      BY <2>2, <2>3, <2>4, <2>5 DEF Next, EpollWait, TakePipe, AcceptAgain, TakeSignals,
         SignalsDone, Notified, Data, Tick, tvars, vars
  <1> QED
    BY <1>1, <1>2, PTL DEF Spec

\* A timer of an earlier connection never closes a later one with the same
\* descriptor before its time, unless the map has forgotten its stamp
\* (ptimer_signal_handler).
THEOREM ClosesOnlyIdleHolds == Spec => ClosesOnlyIdle
  <1>1. StampTrue /\ [Next]_vars =>
           [\A fd \in open \ open' :
              pc = "signals" => \/ now - active[fd] >= Delay
                                \/ updated[fd] = None]_vars
    <2> SUFFICES ASSUME StampTrue, Next, NEW fd \in open \ open', pc = "signals"
                 PROVE  now - active[fd] >= Delay \/ updated[fd] = None
      OBVIOUS
    <2>1. HandleAlarm
      BY DEF Next, EpollWait, TakePipe, Accept, AcceptAgain, TakeSignals, SignalsDone,
             Serve, Take, Notified, Data, Tick
    <2>2. fd = heap[1].fd /\ now - updated[fd] >= Delay
      BY <2>1 DEF HandleAlarm
    <2> QED
      <3>1. fd \in Fds
        BY DEF StampTrue
      <3> QED
        BY <2>2, <3>1 DEF StampTrue
  <1> QED
    BY <1>1, StampTrueHolds, PTL DEF Spec, ClosesOnlyIdle

----------------------------------------------------------------------------
(* The heap of timers, as TimerHeapProofs knows it.                        *)

HP == INSTANCE TimerHeapProofs WITH Timers <- Timer, MaxLen <- MaxAccepts

LEMMA HeapAssumption == HP!TimerAssumption
  BY WorkerAssumption DEF HP!TimerAssumption, Timer

LEMMA SameHeap ==
    /\ \A h, t : Heap!Pushed(h, t) = HP!Pushed(h, t)
    /\ \A h : Heap!Popped(h) = HP!Popped(h)
    /\ Heap!HeapOrdered <=> HP!Ordered(heap)
  <1>1. HP!Upwards = Heap!Upwards
    BY DEF HP!Upwards, Heap!Upwards
  <1>2. ASSUME NEW h, NEW t PROVE Heap!Pushed(h, t) = HP!Pushed(h, t)
    BY <1>1 DEF HP!Pushed, Heap!Pushed, HP!Min, Heap!Min
  <1>3. ASSUME NEW h PROVE Heap!Popped(h) = HP!Popped(h)
    <2>1. \A i : Heap!Child(h, i) = HP!Child(h, i)
      BY DEF Heap!Child, HP!Child
    <2>2. Heap!Emptied(h) = HP!Emptied(h)
      BY <1>1, <2>1 DEF Heap!Emptied, HP!Emptied
    <2>3. Heap!Max(Heap!Emptied(h)) = HP!Max(HP!Emptied(h))
      BY <2>2 DEF Heap!Max, HP!Max
    <2> QED
      BY <2>1, <2>2, <2>3 DEF Heap!Popped, HP!Popped
  <1>4. Heap!HeapOrdered <=> HP!Ordered(heap)
    BY DEF Heap!HeapOrdered, HP!Ordered
  <1> QED
    BY <1>2, <1>3, <1>4

\* The timers of a heap.
LEMMA InHeap ==
    ASSUME NEW h \in Seq(Timer)
    PROVE  /\ \A i \in DOMAIN h : h[i].fd \in Fds /\ h[i].due \in Nat
           /\ h # <<>> => 1 \in DOMAIN h
  <1>1. \A t \in Timer : t.fd \in Fds /\ t.due \in Nat
    BY WorkerAssumption DEF Timer
  <1>2. \A i \in DOMAIN h : h[i] \in Timer
    OBVIOUS
  <1>3. h # <<>> => 1 \in DOMAIN h
    OBVIOUS
  <1> QED
    BY <1>1, <1>2, <1>3

\* A heap of timers in order.
IsHeap(h) == h \in Seq(Timer) /\ HP!Ordered(h)

Among(h, t) == \E i \in DOMAIN h : h[i] = t

\* A push.
LEMMA PushKeeps ==
    ASSUME NEW h, IsHeap(h), NEW t \in Timer
    PROVE  /\ IsHeap(Heap!Pushed(h, t)) /\ Heap!Pushed(h, t) # <<>>
           /\ Among(Heap!Pushed(h, t), t)
           /\ \A i \in DOMAIN h : Among(Heap!Pushed(h, t), h[i])
  <1> DEFINE g == HP!Pushed(h, t)
  <1>1. g \in Seq(Timer) /\ Len(g) = Len(h) + 1 /\ HP!Ordered(g)
    BY HeapAssumption, HP!PushedOrdered DEF IsHeap
  <1>2. HP!Holds(g, t) /\ \A i \in 1 .. Len(h) : HP!Holds(g, h[i])
    BY HeapAssumption, HP!PushedHolds DEF IsHeap
  <1>3. g # <<>> /\ DOMAIN h = 1 .. Len(h)
    BY <1>1 DEF IsHeap
  <1>4. Heap!Pushed(h, t) = g
    BY SameHeap
  <1> HIDE DEF g
  <1> QED
    BY <1>1, <1>2, <1>3, <1>4 DEF IsHeap, Among, HP!Holds

\* A pop.
LEMMA PopKeeps ==
    ASSUME NEW h, IsHeap(h), h # <<>>
    PROVE  /\ IsHeap(Heap!Popped(h))
           /\ \A i \in DOMAIN h \ {1} : Among(Heap!Popped(h), h[i])
  <1> DEFINE g == HP!Popped(h)
  <1>1. g \in Seq(Timer) /\ HP!Ordered(g)
    BY HeapAssumption, HP!PoppedOrdered DEF IsHeap
  <1>2. \A i \in 2 .. Len(h) : HP!Holds(g, h[i])
    BY HeapAssumption, HP!PoppedHolds DEF IsHeap
  <1>3. \A i \in DOMAIN h \ {1} : i \in 2 .. Len(h)
    BY DEF IsHeap
  <1>4. Heap!Popped(h) = g
    BY SameHeap
  <1> HIDE DEF g
  <1> QED
    BY <1>1, <1>2, <1>3, <1>4 DEF IsHeap, Among, HP!Holds

\* A push and then a pop.
LEMMA RenewKeeps ==
    ASSUME NEW h, IsHeap(h), h # <<>>, NEW t \in Timer
    PROVE  LET g == Heap!Popped(Heap!Pushed(h, t))
           IN  /\ IsHeap(g) /\ g # <<>>
               /\ \/ \A i \in DOMAIN h : Among(g, h[i])
                  \/ Among(g, t) /\ \A i \in DOMAIN h \ {1} : Among(g, h[i])
  <1> DEFINE f == HP!Pushed(h, t)
             g == HP!Popped(f)
  <1>1. f \in Seq(Timer) /\ Len(f) = Len(h) + 1 /\ HP!Ordered(f)
    BY HeapAssumption, HP!PushedOrdered DEF IsHeap
  <1>2. f # <<>>
    BY <1>1 DEF IsHeap
  <1>3. g \in Seq(Timer) /\ Len(g) = Len(f) - 1 /\ HP!Ordered(g)
    <2> HIDE DEF f
    <2> QED
      BY <1>1, <1>2, HeapAssumption, HP!PoppedOrdered
  <1>4. \/ \A i \in 1 .. Len(h) : HP!Holds(g, h[i])
        \/ HP!Holds(g, t) /\ \A i \in 2 .. Len(h) : HP!Holds(g, h[i])
    BY HeapAssumption, HP!RenewedHolds DEF IsHeap
  <1>5. DOMAIN h = 1 .. Len(h) /\ \A i \in DOMAIN h \ {1} : i \in 2 .. Len(h)
    BY DEF IsHeap
  <1>6. Heap!Popped(Heap!Pushed(h, t)) = g
    BY SameHeap
  <1> HIDE DEF f, g
  <1>7. g # <<>>
    <2>1. Len(h) > 0
      BY DEF IsHeap
    <2> QED
      BY <1>1, <1>3, <2>1
  <1> QED
    BY <1>3, <1>4, <1>5, <1>6, <1>7 DEF IsHeap, Among, HP!Holds

----------------------------------------------------------------------------
(* No connection is without a timer.                                       *)

\* What makes EveryConnTimed inductive: the heap is in order, and a stamp that
\* the map has forgotten is older than the delay, so that a timer is only
\* renewed by a stamp that is true.
TimedInv ==
    /\ TypeOK
    /\ IsHeap(heap)
    /\ now >= Start
    /\ \A fd \in Fds : /\ updated[fd] \in {active[fd], None}
                        /\ active[fd] <= now
    /\ EveryConnTimed

\* An alarm is set for a time that a timer may be due.
LEMMA RunType ==
    ASSUME NEW h \in Seq(Timer), NEW u \in [Fds -> Time], now \in Time,
           alarm \in 0 .. MaxTime + Delay, Run(h, u)
    PROVE  alarm' \in 0 .. MaxTime + Delay
  <1>1. CASE h = <<>>
    BY <1>1 DEF Run
  <1>2. CASE h # <<>>
    <2>1. h[1].fd \in Fds
      BY <1>2, InHeap
    <2>2. u[h[1].fd] \in 0 .. MaxTime
      BY <2>1 DEF Time
    <2> QED
      BY <1>2, <2>2, WorkerAssumption DEF Run, None
  <1> QED
    BY <1>1, <1>2

\* The map of stamps holds times.
LEMMA UpdateType ==
    ASSUME updated \in [Fds -> Time], forgets \in 0 .. MaxForgets,
           NEW fd \in Fds, NEW t \in Time, Update(fd, t)
    PROVE  /\ updated' \in [Fds -> Time] /\ forgets' \in 0 .. MaxForgets
           /\ updated'[fd] = t
           /\ \A f \in Fds \ {fd} : updated'[f] \in {updated[f], None}
           /\ forgets' >= forgets
           /\ forgets' = forgets => updated' = [updated EXCEPT ![fd] = t]
  <1>1. None \in Time /\ MaxForgets \in Nat
    BY WorkerAssumption DEF None, Time
  <1> QED
    BY <1>1 DEF Update

LEMMA TimedInvHolds == Spec => []TimedInv
  <1>1. Init => TimedInv
    <2> SUFFICES ASSUME Init PROVE TimedInv
      OBVIOUS
    <2>1. heap \in Seq(Timer) /\ HP!Ordered(heap)
      BY DEF Init, HP!Ordered
    <2>2. TypeOK
      BY <2>1, WorkerAssumption DEF Init, TypeOK, None, Time
    <2> QED
      BY <2>1, <2>2, WorkerAssumption DEF Init, TimedInv, IsHeap, EveryConnTimed, None
  <1>2. TimedInv /\ [Next]_vars => TimedInv'
    <2> SUFFICES ASSUME TimedInv, [Next]_vars PROVE TimedInv'
      OBVIOUS
    <2> USE DEF TimedInv
    <2>0. /\ now \in Nat /\ Delay \in Nat \ {0} /\ Start \in Nat /\ Start >= Delay
          /\ MaxTime \in Nat /\ \A t \in Time : t \in Nat /\ t <= MaxTime
          /\ \A fd \in Fds : active[fd] \in Nat
      BY WorkerAssumption DEF TypeOK, Time
    <2>1. CASE UNCHANGED <<open, heap, updated, forgets, alarm, now, lag, active, accepts>>
               /\ TypeOK'
      BY <2>1 DEF EveryConnTimed, IsHeap
    <2>2. CASE EpollWait \/ TakePipe \/ AcceptAgain \/ TakeSignals \/ SignalsDone \/ Notified
               \/ (\E fd \in Fds : Data(fd)) \/ UNCHANGED vars
      <3>1. UNCHANGED <<open, heap, updated, forgets, alarm, now, lag, active, accepts>>
        BY <2>2 DEF EpollWait, TakePipe, AcceptAgain, TakeSignals, SignalsDone, Notified,
              Data, tvars, cvars, vars
      <3>2. TypeOK'
        BY <2>2, <3>1 DEF TypeOK, EpollWait, TakePipe, AcceptAgain, TakeSignals, SignalsDone,
              Notified, Data, Take, tvars, cvars, vars
      <3> QED
        BY <2>1, <3>1, <3>2
    <2>3. CASE Accept
      <3> DEFINE fd == Min(Fds \ open)
                 t == [fd |-> fd, due |-> now + Delay]
      <3>1. fd \in Fds /\ fd \notin open
        <4>1. Fds \ open # {} /\ Fds \ open \in SUBSET Fds
          BY <2>3 DEF Accept, TypeOK
        <4> QED
          BY <4>1, LowestIsFd
      <3>2. t \in Timer
        BY <2>0, <3>1, WorkerAssumption DEF Timer, TypeOK, Time
      <3>3. /\ accepts < MaxAccepts /\ accepts' = accepts + 1
            /\ open' = open \cup {fd} /\ active' = [active EXCEPT ![fd] = now]
            /\ heap' = Heap!Pushed(heap, t)
            /\ Update(fd, now) /\ Run(heap', updated')
            /\ UNCHANGED <<pc, left, ready, batch, now, lag, bytes>>
        BY <2>3 DEF Accept, cvars
      <3> HIDE DEF fd, t
      <3>4. /\ IsHeap(heap') /\ Among(heap', t)
            /\ \A i \in DOMAIN heap : Among(heap', heap[i])
        BY <3>2, <3>3, PushKeeps
      <3>5. /\ updated' \in [Fds -> Time] /\ forgets' \in 0 .. MaxForgets
            /\ updated'[fd] = now
            /\ \A f \in Fds \ {fd} : updated'[f] \in {updated[f], None}
        BY <3>1, <3>3, UpdateType DEF TypeOK
      <3>6. alarm' \in 0 .. MaxTime + Delay
        BY <3>3, <3>4, <3>5, RunType DEF TypeOK, IsHeap
      <3>7. TypeOK'
        <4>1. accepts' \in 0 .. MaxAccepts /\ active' \in [Fds -> Time]
          <5>1. accepts' \in 0 .. MaxAccepts
            BY <3>3, WorkerAssumption DEF TypeOK
          <5> QED
            BY <3>3, <5>1 DEF TypeOK
        <4> QED
          BY <3>1, <3>3, <3>4, <3>5, <3>6, <4>1 DEF TypeOK, IsHeap
      <3>8. ASSUME NEW f \in Fds
            PROVE  updated'[f] \in {active'[f], None} /\ active'[f] <= now'
        BY <2>0, <3>3, <3>5 DEF TypeOK
      <3>9. EveryConnTimed'
        <4> SUFFICES ASSUME NEW f \in open'
                     PROVE  \E i \in DOMAIN heap' :
                               heap'[i].fd = f /\ heap'[i].due <= active'[f] + Delay
          BY DEF EveryConnTimed
        <4>1. CASE f = fd
          <5>1. PICK i \in DOMAIN heap' : heap'[i] = t
            BY <3>4 DEF Among
          <5>2. heap'[i].fd = f /\ heap'[i].due = now + Delay /\ active'[f] = now
            BY <3>1, <3>3, <4>1, <5>1 DEF t, TypeOK
          <5> QED
            BY <2>0, <5>2
        <4>2. CASE f # fd
          <5>1. f \in open /\ active'[f] = active[f]
            BY <3>3, <4>2 DEF TypeOK
          <5>2. PICK i \in DOMAIN heap : heap[i].fd = f /\ heap[i].due <= active[f] + Delay
            BY <5>1 DEF EveryConnTimed
          <5>3. PICK k \in DOMAIN heap' : heap'[k] = heap[i]
            BY <3>4 DEF Among
          <5> QED
            BY <5>1, <5>2, <5>3
        <4> QED
          BY <4>1, <4>2
      <3> QED
        BY <3>3, <3>4, <3>7, <3>8, <3>9
    <2>4. CASE HandleAlarm
      <3> DEFINE fd == heap[1].fd
                 u == updated[fd]
                 t == [fd |-> fd, due |-> u + Delay]
      <3>1. /\ pc = "signals" /\ left > 0 /\ heap # <<>> /\ left' = left - 1
            /\ \/ /\ now - u >= Delay
                  /\ open' = open \ {fd} /\ ready' = ready \ {fd}
                  /\ heap' = Heap!Popped(heap)
                  /\ UNCHANGED <<updated, forgets>>
               \/ /\ now - u < Delay
                  /\ heap' = Heap!Popped(Heap!Pushed(heap, t))
                  /\ Update(fd, u)
                  /\ UNCHANGED <<open, ready>>
            /\ Run(heap', updated')
            /\ UNCHANGED <<pc, batch, now, lag, bytes, active, accepts>>
        BY <2>4 DEF HandleAlarm, cvars
      <3>2. fd \in Fds
        BY <3>1, InHeap DEF TypeOK
      <3>3. u \in Time /\ u \in Nat /\ u <= MaxTime
        BY <2>0, <3>2 DEF TypeOK
      <3>4. t \in Timer
        BY <2>0, <3>2, <3>3, WorkerAssumption DEF Timer
      <3>5. now - u < Delay => u = active[fd]
        BY <2>0, <3>2, <3>3 DEF None
      <3>6. t.fd = fd /\ t.due = u + Delay
        OBVIOUS
      <3> HIDE DEF fd, u, t
      <3>7. /\ updated' \in [Fds -> Time] /\ forgets' \in 0 .. MaxForgets
            /\ updated'[fd] = u
            /\ \A f \in Fds \ {fd} : updated'[f] \in {updated[f], None}
        <4>1. CASE UNCHANGED <<updated, forgets>>
          BY <4>1 DEF TypeOK, u
        <4>2. CASE Update(fd, u)
          BY <3>2, <3>3, <4>2, UpdateType DEF TypeOK
        <4> QED
          BY <3>1, <4>1, <4>2
      <3>8. IsHeap(heap')
        BY <3>1, <3>4, PopKeeps, RenewKeeps
      <3>9. ASSUME NEW f \in Fds
            PROVE  updated'[f] \in {active'[f], None} /\ active'[f] <= now'
        BY <3>1, <3>7 DEF u
      <3>10. alarm' \in 0 .. MaxTime + Delay
        BY <3>1, <3>7, <3>8, RunType DEF TypeOK, IsHeap
      <3>11. TypeOK'
        BY <3>1, <3>7, <3>8, <3>10 DEF TypeOK, IsHeap
      <3>12. EveryConnTimed'
        <4> SUFFICES ASSUME NEW f \in open'
                     PROVE  \E i \in DOMAIN heap' :
                               heap'[i].fd = f /\ heap'[i].due <= active[f] + Delay
          BY <3>1 DEF EveryConnTimed
        <4>1. f \in open
          BY <3>1
        <4>2. PICK i \in DOMAIN heap : heap[i].fd = f /\ heap[i].due <= active[f] + Delay
          BY <4>1 DEF EveryConnTimed
        <4>3. CASE Among(heap', heap[i])
          BY <4>2, <4>3 DEF Among
        <4>4. CASE ~Among(heap', heap[i]) /\ now - u >= Delay
          <5>1. heap' = Heap!Popped(heap) /\ f # fd
            BY <2>0, <3>1, <3>3, <4>4
          <5>2. i # 1
            BY <4>2, <5>1 DEF fd
          <5> QED
            BY <3>1, <4>4, <5>1, <5>2, PopKeeps
        <4>5. CASE ~Among(heap', heap[i]) /\ now - u < Delay
          <5>1. heap' = Heap!Popped(Heap!Pushed(heap, t))
            BY <2>0, <3>1, <3>3, <4>5
          <5>2. i = 1 /\ Among(heap', t)
            BY <3>1, <3>4, <4>5, <5>1, RenewKeeps
          <5>3. f = fd /\ t.due <= active[f] + Delay
            BY <2>0, <3>2, <3>5, <3>6, <4>2, <4>5, <5>2 DEF fd
          <5>4. PICK k \in DOMAIN heap' : heap'[k] = t
            BY <5>2 DEF Among
          <5> QED
            BY <3>6, <5>3, <5>4
        <4> QED
          BY <2>0, <3>3, <4>3, <4>4, <4>5
      <3> QED
        BY <3>1, <3>8, <3>9, <3>11, <3>12
    <2>5. ASSUME NEW fd \in Fds, Serve(fd) PROVE TimedInv'
      <3>1. /\ Update(fd, now) /\ active' = [active EXCEPT ![fd] = now]
            /\ open' \subseteq open /\ ready' = ready \ {fd} /\ batch' = batch \ {fd}
            /\ UNCHANGED <<pc, left, heap, alarm, now, lag, bytes, accepts>>
        BY <2>5 DEF Serve, Take, cvars
      <3>2. /\ updated' \in [Fds -> Time] /\ forgets' \in 0 .. MaxForgets
            /\ updated'[fd] = now
            /\ \A f \in Fds \ {fd} : updated'[f] \in {updated[f], None}
        BY <3>1, UpdateType DEF TypeOK
      <3>3. TypeOK'
        BY <3>1, <3>2 DEF TypeOK
      <3>4. ASSUME NEW f \in Fds
            PROVE  /\ updated'[f] \in {active'[f], None} /\ active'[f] <= now'
                   /\ active[f] <= active'[f] /\ active'[f] \in Nat
        BY <2>0, <3>1, <3>2 DEF TypeOK
      <3>5. EveryConnTimed'
        <4> SUFFICES ASSUME NEW f \in open'
                     PROVE  \E i \in DOMAIN heap :
                               heap[i].fd = f /\ heap[i].due <= active'[f] + Delay
          BY <3>1 DEF EveryConnTimed
        <4>1. PICK i \in DOMAIN heap : heap[i].fd = f /\ heap[i].due <= active[f] + Delay
          BY <3>1 DEF EveryConnTimed
        <4>2. heap[i].due \in Nat /\ f \in Fds
          BY <3>1, InHeap DEF TypeOK
        <4> QED
          BY <2>0, <3>4, <4>1, <4>2
      <3>6. IsHeap(heap')
        BY <3>1 DEF IsHeap
      <3> QED
        BY <3>1, <3>3, <3>4, <3>5, <3>6
    <2>6. CASE Tick
      <3>1. /\ now < MaxTime /\ now' = now + 1
            /\ (bytes + left > 0 => lag < MaxLag)
            /\ lag' = IF bytes + left > 0 THEN lag + 1 ELSE 0
            /\ alarm' \in {alarm, None} /\ bytes' \in {bytes, bytes + 1}
            /\ ready' \in {ready, ready \cup {SigFd}}
            /\ UNCHANGED <<pc, left, open, batch, heap, updated, forgets, active, accepts>>
        BY <2>6 DEF Tick
      <3>2. lag' \in 0 .. MaxLag
        BY <3>1, WorkerAssumption DEF TypeOK
      <3>3. now' \in Time /\ now' >= Start /\ now <= now'
        BY <2>0, <3>1 DEF Time
      <3>4. alarm' \in 0 .. MaxTime + Delay
        BY <2>0, <3>1 DEF TypeOK, None
      <3>5. TypeOK'
        BY <3>1, <3>2, <3>3, <3>4 DEF TypeOK
      <3>6. IsHeap(heap') /\ EveryConnTimed'
        BY <3>1 DEF IsHeap, EveryConnTimed
      <3>7. \A fd \in Fds : updated'[fd] \in {active'[fd], None} /\ active'[fd] <= now'
        BY <2>0, <3>1, <3>3
      <3> QED
        BY <3>3, <3>5, <3>6, <3>7
    <2> QED
      BY <2>2, <2>3, <2>4, <2>5, <2>6 DEF Next
  <1> QED
    BY <1>1, <1>2, PTL DEF Spec

\* The state of a worker is always of its types.
THEOREM TypeOKHolds == Spec => []TypeOK
  <1>1. TimedInv => TypeOK
    BY DEF TimedInv
  <1> QED
    BY <1>1, TimedInvHolds, PTL

\* Every open connection has a timer that is due no later than Delay after it
\* was last active, whatever timers of earlier connections with its descriptor
\* are in the heap and whichever of them a pop takes out
\* (ptimer_signal_handler, ptimer_add).
THEOREM EveryConnTimedHolds == Spec => []EveryConnTimed
  <1>1. TimedInv => EveryConnTimed
    BY DEF TimedInv
  <1> QED
    BY <1>1, TimedInvHolds, PTL

----------------------------------------------------------------------------
(* A SIGALRM finds a timer.                                                *)

\* A timer whose connection was served since the oldest SIGALRM that waits
\* was sent: no alarm that waits closes it.
Young == \E i \in DOMAIN heap : updated[heap[i].fd] >= now - lag

\* What makes AlarmHasTimer inductive.  The alarm that is set is not yet due,
\* nor set later than its timer asks for; and two SIGALRMs under way, waiting
\* or to come, mean that one of the timers is young.
AlarmInv ==
    /\ pc # "signals" => left = 0
    /\ forgets = 0 =>
        /\ heap # <<>> /\ alarm # None =>
              now < alarm /\ alarm <= updated[heap[1].fd] + Delay
        /\ heap = <<>> => alarm = None /\ bytes + left = 0
        /\ bytes + left > 0 /\ (alarm # None \/ bytes + left >= 2) => Young

\* A timer whose stamp is within the delay asks for an alarm to come.
LEMMA RunSets ==
    ASSUME NEW h \in Seq(Timer), NEW u \in [Fds -> Time], now \in Nat, Run(h, u), h # <<>>
    PROVE  alarm' # None => now < alarm' /\ alarm' <= u[h[1].fd] + Delay
  <1>1. u[h[1].fd] \in Nat
    BY InHeap, WorkerAssumption DEF Time
  <1> QED
    BY <1>1, WorkerAssumption DEF Run, None

LEMMA AlarmInvHolds == Spec => []AlarmInv
  <1>1. Init => AlarmInv
    BY DEF Init, AlarmInv
  <1>2. TimedInv /\ TimedInv' /\ AlarmInv /\ [Next]_vars => AlarmInv'
    <2> SUFFICES ASSUME TimedInv, TimedInv', AlarmInv, [Next]_vars PROVE AlarmInv'
      OBVIOUS
    <2>0. /\ now \in Nat /\ lag \in Nat /\ lag < Delay /\ Delay \in Nat \ {0}
          /\ left \in Nat /\ bytes \in Nat /\ forgets \in Nat /\ alarm \in Nat
          /\ \A fd \in Fds : updated[fd] \in Nat /\ updated[fd] <= now
          /\ \A i \in DOMAIN heap : heap[i].fd \in Fds
          /\ heap # <<>> => 1 \in DOMAIN heap
      <3>1. \A fd \in Fds : updated[fd] \in Nat /\ updated[fd] <= now
        <4> SUFFICES ASSUME NEW fd \in Fds
                     PROVE  updated[fd] \in Nat /\ updated[fd] <= now
          OBVIOUS
        <4>1. updated[fd] \in Time /\ active[fd] \in Time /\ now \in Time
          BY DEF TimedInv, TypeOK
        <4>2. updated[fd] \in {active[fd], None} /\ active[fd] <= now
          BY DEF TimedInv
        <4> QED
          BY <4>1, <4>2, WorkerAssumption DEF Time, None
      <3>2. /\ \A i \in DOMAIN heap : heap[i].fd \in Fds
            /\ heap # <<>> => 1 \in DOMAIN heap
        BY InHeap DEF TimedInv, TypeOK
      <3> QED
        BY <3>1, <3>2, WorkerAssumption DEF TimedInv, TypeOK, Time
    <2>00. heap' \in Seq(Timer) /\ updated' \in [Fds -> Time] /\ forgets' \in Nat
      BY WorkerAssumption DEF TimedInv, TypeOK
    <2>1. CASE EpollWait \/ TakePipe \/ AcceptAgain \/ SignalsDone \/ Notified
               \/ (\E fd \in Fds : Data(fd)) \/ UNCHANGED vars
      <3>1. /\ UNCHANGED <<heap, updated, alarm, forgets, now, lag, bytes, left>>
            /\ pc' # "signals" => pc # "signals" \/ left = 0
        BY <2>1 DEF EpollWait, TakePipe, AcceptAgain, SignalsDone, Notified,
              Data, tvars, cvars, vars, Take
      <3> QED
        BY <3>1 DEF AlarmInv, Young
    <2>2. CASE TakeSignals
      <3>1. /\ UNCHANGED <<heap, updated, alarm, forgets, now, lag>>
            /\ pc = "loop" /\ pc' = "signals" /\ left' = bytes /\ bytes' = 0
        BY <2>2 DEF TakeSignals, Take, tvars
      <3>2. bytes' + left' = bytes + left
        BY <2>0, <3>1 DEF AlarmInv
      <3> QED
        BY <3>1, <3>2 DEF AlarmInv, Young
    <2>3. CASE Accept
      <3> DEFINE fd == Min(Fds \ open)
                 t == [fd |-> fd, due |-> now + Delay]
      <3>1. fd \in Fds
        <4>1. Fds \ open # {} /\ Fds \ open \in SUBSET Fds
          BY <2>3 DEF Accept, TimedInv, TypeOK
        <4> QED
          BY <4>1, LowestIsFd
      <3>2. t \in Timer /\ t.fd = fd
        BY <2>0, <3>1, WorkerAssumption DEF Timer, TimedInv, TypeOK, Time
      <3>3. /\ heap' = Heap!Pushed(heap, t) /\ pc = "accept"
            /\ Update(fd, now) /\ Run(heap', updated')
            /\ UNCHANGED <<pc, left, now, lag, bytes>>
        BY <2>3 DEF Accept, cvars
      <3> HIDE DEF fd, t
      <3>4. heap' # <<>> /\ Among(heap', t)
        BY <3>2, <3>3, PushKeeps DEF TimedInv
      <3>5. updated'[fd] = now
        BY <3>1, <3>3, UpdateType DEF TimedInv, TypeOK
      <3>6. Young'
        <4>1. PICK i \in DOMAIN heap' : heap'[i] = t
          BY <3>4 DEF Among
        <4>2. updated'[heap'[i].fd] >= now' - lag'
          BY <2>0, <3>2, <3>3, <3>5, <4>1
        <4> QED
          BY <4>1, <4>2 DEF Young
      <3>7. alarm' # None => now < alarm' /\ alarm' <= updated'[heap'[1].fd] + Delay
        BY <2>0, <2>00, <3>3, <3>4, RunSets
      <3> QED
        BY <3>3, <3>4, <3>6, <3>7 DEF AlarmInv
    <2>4. CASE HandleAlarm
      <3> DEFINE fd == heap[1].fd
                 u == updated[fd]
                 t == [fd |-> fd, due |-> u + Delay]
      <3>1. /\ pc = "signals" /\ left > 0 /\ heap # <<>> /\ left' = left - 1
            /\ \/ /\ now - u >= Delay
                  /\ heap' = Heap!Popped(heap)
                  /\ UNCHANGED <<updated, forgets>>
               \/ /\ now - u < Delay
                  /\ heap' = Heap!Popped(Heap!Pushed(heap, t))
                  /\ Update(fd, u)
            /\ Run(heap', updated')
            /\ UNCHANGED <<pc, now, lag, bytes>>
        BY <2>4 DEF HandleAlarm, cvars
      <3>2. fd \in Fds /\ u \in Nat /\ u \in Time /\ u <= MaxTime
        BY <2>0, <3>1, WorkerAssumption DEF TimedInv, TypeOK, Time
      <3>3. t \in Timer /\ t.fd = fd
        BY <2>0, <3>2, WorkerAssumption DEF Timer
      <3> HIDE DEF fd, u, t
      <3> SUFFICES ASSUME forgets' = 0 PROVE AlarmInv'
        BY <3>1 DEF AlarmInv
      <3>4. forgets = 0 /\ updated' = updated
        <4>1. CASE Update(fd, u)
          <5>1. /\ forgets' >= forgets
                /\ forgets' = forgets => updated' = [updated EXCEPT ![fd] = u]
            BY <3>2, <4>1, UpdateType DEF TimedInv, TypeOK
          <5>2. forgets = 0
            BY <2>0, <5>1
          <5>3. updated' = [updated EXCEPT ![fd] = u]
            BY <5>1, <5>2
          <5> QED
            BY <2>0, <5>2, <5>3 DEF u, TimedInv, TypeOK
        <4> QED
          BY <3>1, <4>1
      <3>5. Young => Young' /\ heap' # <<>>
        <4> SUFFICES ASSUME NEW i \in DOMAIN heap, updated[heap[i].fd] >= now - lag
                     PROVE  Young' /\ heap' # <<>>
          BY DEF Young
        <4>1. CASE Among(heap', heap[i])
          <5>1. PICK k \in DOMAIN heap' : heap'[k] = heap[i]
            BY <4>1 DEF Among
          <5> QED
            BY <3>1, <3>4, <5>1 DEF Young
        <4>2. CASE ~Among(heap', heap[i]) /\ now - u >= Delay
          <5>1. heap' = Heap!Popped(heap)
            BY <2>0, <3>1, <3>2, <4>2
          <5>2. i # 1
            BY <2>0, <3>2, <4>2 DEF fd, u
          <5> QED
            BY <3>1, <4>2, <5>1, <5>2, PopKeeps DEF TimedInv
        <4>3. CASE ~Among(heap', heap[i]) /\ now - u < Delay
          <5>1. heap' = Heap!Popped(Heap!Pushed(heap, t))
            BY <2>0, <3>1, <3>2, <4>3
          <5>2. i = 1 /\ Among(heap', t)
            BY <3>1, <3>3, <4>3, <5>1, RenewKeeps DEF TimedInv
          <5>3. PICK k \in DOMAIN heap' : heap'[k] = t
            BY <5>2 DEF Among
          <5> QED
            BY <3>1, <3>3, <3>4, <5>2, <5>3 DEF Young, fd
        <4> QED
          BY <2>0, <3>2, <4>1, <4>2, <4>3
      <3>6. heap' # <<>> /\ alarm' # None =>
               now' < alarm' /\ alarm' <= updated'[heap'[1].fd] + Delay
        BY <2>0, <2>00, <3>1, RunSets
      <3>7. bytes' + left' > 0 => Young
        BY <2>0, <3>1, <3>4 DEF AlarmInv
      <3>8. heap' = <<>> => alarm' = None /\ bytes' + left' = 0
        <4> SUFFICES ASSUME heap' = <<>> PROVE alarm' = None /\ bytes' + left' = 0
          OBVIOUS
        <4>1. ~Young /\ alarm' = alarm
          BY <3>1, <3>5 DEF Run
        <4> QED
          BY <2>0, <3>1, <3>4, <3>7, <4>1 DEF AlarmInv
      <3> QED
        BY <3>1, <3>5, <3>6, <3>7, <3>8 DEF AlarmInv
    <2>5. ASSUME NEW fd \in Fds, Serve(fd) PROVE AlarmInv'
      <3>1. /\ Update(fd, now)
            /\ UNCHANGED <<pc, left, heap, alarm, now, lag, bytes>>
        BY <2>5 DEF Serve, cvars
      <3> SUFFICES ASSUME forgets' = 0 PROVE AlarmInv'
        BY <3>1 DEF AlarmInv
      <3>2. forgets = 0 /\ updated' = [updated EXCEPT ![fd] = now]
        <4>1. /\ forgets' >= forgets
              /\ forgets' = forgets => updated' = [updated EXCEPT ![fd] = now]
          BY <3>1, UpdateType DEF TimedInv, TypeOK
        <4> QED
          BY <2>0, <4>1
      <3>3. \A f \in Fds : updated'[f] \in Nat /\ updated[f] <= updated'[f]
        <4>1. /\ updated \in [Fds -> Time] /\ now \in Nat
              /\ \A f \in Fds : updated[f] \in Nat /\ updated[f] <= now
          BY <2>0 DEF TimedInv, TypeOK
        <4>2. \A f \in Fds : updated'[f] = updated[f] \/ updated'[f] = now
          BY <3>2, <4>1
        <4> QED
          BY <4>1, <4>2
      <3>4. Young => Young'
        <4> SUFFICES ASSUME NEW i \in DOMAIN heap, updated[heap[i].fd] >= now - lag
                     PROVE  Young'
          BY DEF Young
        <4>1. updated'[heap[i].fd] >= now - lag
          BY <2>0, <3>3
        <4> QED
          BY <3>1, <4>1 DEF Young
      <3>5. heap # <<>> => heap[1].fd \in Fds
        BY <2>0
      <3>6. heap # <<>> /\ alarm # None =>
               now < alarm /\ alarm <= updated'[heap[1].fd] + Delay
        BY <2>0, <3>2, <3>3, <3>5 DEF AlarmInv
      <3> QED
        BY <3>1, <3>2, <3>4, <3>6 DEF AlarmInv
    <2>6. CASE Tick
      <3>1. /\ now' = now + 1
            /\ lag' = IF bytes + left > 0 THEN lag + 1 ELSE 0
            /\ UNCHANGED <<pc, left, heap, updated, forgets>>
            /\ \/ alarm = now' /\ alarm' = None /\ bytes' = bytes + 1
               \/ alarm # now' /\ alarm' = alarm /\ bytes' = bytes
        BY <2>6 DEF Tick
      <3>2. bytes + left > 0 /\ Young => Young'
        <4> SUFFICES ASSUME bytes + left > 0, NEW i \in DOMAIN heap,
                            updated[heap[i].fd] >= now - lag
                     PROVE  Young'
          BY DEF Young
        <4>1. now' - lag' = now - lag
          BY <2>0, <3>1
        <4> QED
          BY <3>1, <4>1 DEF Young
      <3> SUFFICES ASSUME forgets = 0 PROVE AlarmInv'
        BY <3>1 DEF AlarmInv
      <3>3. CASE alarm = now'
        <4>1. alarm # None /\ alarm' = None /\ bytes' = bytes + 1 /\ heap # <<>>
          BY <2>0, <3>1, <3>3 DEF AlarmInv, None
        <4>2. bytes' + left' >= 2 => bytes + left > 0
          BY <2>0, <3>1, <4>1
        <4> QED
          BY <3>1, <3>2, <4>1, <4>2 DEF AlarmInv
      <3>4. CASE alarm # now'
        <4>1. alarm' = alarm /\ bytes' = bytes
          BY <3>1, <3>4
        <4>2. heap # <<>> /\ alarm # None => now' < alarm
          BY <2>0, <3>1, <3>4 DEF AlarmInv
        <4> QED
          BY <3>1, <3>2, <4>1, <4>2 DEF AlarmInv
      <3> QED
        BY <3>3, <3>4
    <2> QED
      BY <2>1, <2>2, <2>3, <2>4, <2>5, <2>6 DEF Next
  <1> QED
    BY <1>1, <1>2, TimedInvHolds, PTL DEF Spec

\* A SIGALRM that waits to be handled finds a timer, as long as it waits for
\* less than the delay and the map of stamps has not grown: the handler's
\* unchecked heap[0] is then never read from an empty heap
\* (ptimer_signal_handler).
THEOREM AlarmHasTimerHolds == Spec => []AlarmHasTimer
  <1>1. TimedInv /\ AlarmInv => AlarmHasTimer
    BY DEF TimedInv, TypeOK, AlarmInv, AlarmHasTimer
  <1> QED
    BY <1>1, TimedInvHolds, AlarmInvHolds, PTL

----------------------------------------------------------------------------
(* The map of stamps.                                                      *)

\* The stamps as a dictionary: what was written last is when the connection of
\* a descriptor was last active.
Stamps == INSTANCE Dictionary WITH
    Keys <- Fds, Values <- Time, NULL <- None, store <- updated, written <- active

\* ptimer_update sets the stamp of one descriptor.
LEMMA UpdatePuts ==
    ASSUME NEW fd \in Fds, NEW t \in Time, Update(fd, t),
           active' = [active EXCEPT ![fd] = t]
    PROVE  Stamps!Next
  <1>1. Stamps!Put(fd, t)
    BY DEF Update, Stamps!Put
  <1> QED
    BY <1>1 DEF Stamps!Next

\* The worker uses the map of stamps as Dictionary allows, whose promise the
\* hash table keeps (TableImplementsDictionary): of a descriptor that is still
\* in the map it reads when its connection was last active. In particular, a
\* handler that renews a timer writes the stamp it has read, and never the 0 of
\* a missing one (ptimer_signal_handler, ptimer_add).
THEOREM StampsHold == Spec => Stamps!Spec
  <1>1. Init => Stamps!Init
    BY DEF Init, Stamps!Init
  <1>2. TimedInv /\ [Next]_vars => [Stamps!Next]_(Stamps!vars)
    <2> SUFFICES ASSUME TimedInv, [Next]_vars PROVE [Stamps!Next]_(Stamps!vars)
      OBVIOUS
    <2>1. TypeOK /\ now \in Time /\ Time \subseteq Int
      BY WorkerAssumption DEF TimedInv, TypeOK, Time
    <2>2. CASE UNCHANGED <<updated, active>>
      BY <2>2 DEF Stamps!vars
    <2>3. CASE Accept
      <3>1. PICK fd : fd = Min(Fds \ open)
        OBVIOUS
      <3>2. Update(fd, now) /\ active' = [active EXCEPT ![fd] = now]
        BY <2>3, <3>1 DEF Accept
      <3>3. Fds \ open \in SUBSET Fds /\ Fds \ open # {}
        BY <2>1, <2>3 DEF Accept, TypeOK
      <3>4. fd \in Fds
        BY <3>1, <3>3, LowestIsFd
      <3> QED
        BY <2>1, <3>2, <3>4, UpdatePuts
    <2>4. ASSUME NEW fd \in Fds, Serve(fd)
          PROVE  Stamps!Next
      BY <2>1, <2>4, UpdatePuts DEF Serve
    <2>5. CASE HandleAlarm
      <3>1. active' = active /\ heap # <<>>
        BY <2>5 DEF HandleAlarm
      <3>2. PICK fd \in Fds : fd = heap[1].fd
        BY <2>1, <3>1, InHeap DEF TypeOK
      <3>3. PICK u \in Time : u = updated[fd]
        BY <2>1 DEF TypeOK
      <3>4. updated' = updated \/ (now - u < Delay /\ Update(fd, u))
        BY <2>5, <3>2, <3>3 DEF HandleAlarm
      <3>5. CASE now - u < Delay /\ Update(fd, u)
        <4>1. now \in Nat /\ now >= Delay
          BY <2>1, WorkerAssumption DEF TimedInv, Time
        <4>2. u # None
          <5>1. SUFFICES ASSUME u = 0 PROVE FALSE
            BY DEF None
          <5>2. now - u = now /\ ~(now < Delay)
            BY <4>1, <5>1, WorkerAssumption
          <5> QED
            BY <3>5, <5>2
        <4>3. active[fd] = u
          BY <3>3, <4>2 DEF TimedInv
        <4>4. active' = [active EXCEPT ![fd] = u]
          BY <2>1, <3>1, <4>3 DEF TypeOK
        <4> QED
          BY <3>5, <4>4, UpdatePuts
      <3> QED
        BY <3>1, <3>4, <3>5 DEF Stamps!vars
    <2> QED
      BY <2>2, <2>3, <2>4, <2>5 DEF Next, EpollWait, TakePipe, AcceptAgain, TakeSignals,
         SignalsDone, Notified, Data, Tick, tvars, vars
  <1> QED
    BY <1>1, <1>2, TimedInvHolds, PTL DEF Spec, Stamps!Spec
=============================================================================
