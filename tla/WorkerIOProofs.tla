--------------------------- MODULE WorkerIOProofs ---------------------------
(***************************************************************************)
(* Theorems about what the workers of ehp read and write, for any numbers  *)
(* of workers, connections, requests, descriptors, segments and edits.     *)
(***************************************************************************)
EXTENDS WorkerIO, SequenceTheorems, TLAPS

\* A descriptor of a connection is the only one of it, and of its worker.
Owned ==
    \A w \in Workers, fd \in Fds : file[w][fd] \in Conns =>
        /\ home[file[w][fd]] = w
        /\ \A e \in Fds : file[w][e] = file[w][fd] => e = fd

\* What is cached was answered before.
Remembered ==
    \A w \in Workers : \A e \in cache[w] : <<w, e[1], e[2]>> \in given

\* A connection that nobody has accepted has not been read.
FirstAccepted == \A c \in Conns : home[c] = NULL => last[c] = NULL

IInv ==
    /\ TypeOK /\ Owned /\ Remembered /\ FirstAccepted
    /\ UnreadIsAnnounced /\ ClosesAsAsked

----------------------------------------------------------------------------
(* What a worker may do with an event.                                     *)

\* The answer is the file or the page as it is, or the data of the connection
\* that the page's descriptor belongs to, or it was given before.
Fair(w, t, a) ==
    LET p == t[1].req.path IN
    \/ a = IF www[p] = 0 THEN Page ELSE <<p, www[p]>>
    \/ a = Foreign /\ file[w][PageFd] \in Conns
    \/ <<w, t, a>> \in given

\* Why there may be no answer.
Excused(w, t) ==
    LET p == t[1].req.path IN
    \/ ~IsWhole(t)
    \/ t[1].req.form # "sound"
    \/ www[p] = Directory
    \/ www[p] = 0 /\ (atEnd \/ file[w][PageFd] # Page)

\* What was not cached is, and some of the rest may be gone.
Kept(w, t, a) ==
    \E kept \in SUBSET cache[w] : cache' = [cache EXCEPT ![w] = kept \cup {<<t, a>>}]

Answered(w, fd, a, gone) ==
    LET t == inbox[file[w][fd]] IN
    /\ Answer(w, fd, a, gone)
    /\ a \in Answers /\ Fair(w, t, a)
    /\ \/ gone = {}
       \/ gone = {PageFd} /\ file[w][PageFd] # file[w][fd]
    /\ \/ cache' = cache
       \/ Missed(w, t) /\ Kept(w, t, a)
    /\ forgets' \in 0 .. MaxForgets /\ atEnd' \in BOOLEAN

\* A text that starts with a request is of segments, and the path is known.
LEMMA TextType ==
    ASSUME TypeOK, NEW c \in Conns, inbox[c] # <<>>
    PROVE  /\ inbox[c] \in Seq(Segment) /\ inbox[c][1] \in Segment
           /\ inbox[c][1].req \in Requests /\ inbox[c][1].req \in Request
           /\ inbox[c][1].req.path \in Paths
  <1>1. inbox[c] \in Seq(Segment)
    BY DEF TypeOK
  <1>2. inbox[c][1] \in Segment
    BY <1>1
  <1> QED
    BY <1>1, <1>2, WorkerIOAssumption DEF Segment, Request

\* Storing an answer, whether or not the cache drops others.
LEMMA Stored ==
    ASSUME TypeOK, NEW w \in Workers, NEW t, NEW a, Store(w, t, a)
    PROVE  Kept(w, t, a) /\ forgets' \in 0 .. MaxForgets
  <1>1. Kept(w, t, a)
    BY DEF Store, Kept, Memory!Stored
  <1>2. forgets' = forgets \/ (forgets < MaxForgets /\ forgets' = forgets + 1)
    BY DEF Store
  <1>3. forgets \in 0 .. MaxForgets /\ MaxForgets \in Nat
    BY WorkerIOAssumption DEF TypeOK
  <1> QED
    BY <1>1, <1>2, <1>3

\* What an event leads to: nothing, the end of the connection, the end of the
\* worker, which has an excuse, or an answer.
LEMMA ServeKinds ==
    ASSUME TypeOK, Remembered, NEW w \in Workers, NEW fd \in Fds, Serve(w, fd)
    PROVE  /\ alive[w] /\ fd \in ready[w] /\ file[w][fd] \in Conns
           /\ \/ ReadNothing(w, fd)
              \/ ReadEnd(w, fd)
              \/ Die(w, fd) /\ inbox[file[w][fd]] # <<>> /\ Excused(w, inbox[file[w][fd]])
              \/ \E a \in Answers, gone \in SUBSET Fds :
                    inbox[file[w][fd]] # <<>> /\ Answered(w, fd, a, gone)
  <1> DEFINE c == file[w][fd]
             t == inbox[c]
             p == t[1].req.path
  <1>1. alive[w] /\ fd \in ready[w] /\ c \in Conns
    BY DEF Serve
  <1>2. PageFd \in Fds
    BY WorkerIOAssumption DEF PageFd, Fds
  <1>3. t # <<>> => p \in Paths
    BY <1>1, TextType
  <1>4. CASE ServeUnparsable(w, fd)
    <2>1. t # <<>> /\ Die(w, fd)
          /\ (~Parses(t) \/ ~IsWhole(t) \/ t[1].req.form = "nocolon")
      BY <1>4 DEF ServeUnparsable
    <2>2. ~IsWhole(t) \/ t[1].req.form # "sound"
      BY <2>1 DEF Parses, IsWhole
    <2> QED
      BY <1>1, <2>1, <2>2 DEF Excused
  <1>5. CASE ServeCached(w, fd)
    <2>1. PICK e \in cache[w] : e[1] = t /\ Answer(w, fd, e[2], {})
      BY <1>5 DEF ServeCached
    <2>2. e[2] \in Answers /\ <<w, t, e[2]>> \in given
      BY <2>1 DEF TypeOK, Remembered
    <2>3. t # <<>>
      BY <2>1 DEF Answer, Parses
    <2>4. Answered(w, fd, e[2], {})
      BY <1>5, <2>1, <2>2 DEF Answered, Fair, ServeCached, TypeOK
    <2> QED
      BY <1>1, <2>2, <2>3, <2>4
  <1>6. CASE ServeFile(w, fd)
    <2>1. Answer(w, fd, <<p, www[p]>>, {}) /\ www[p] > 0 /\ Store(w, t, <<p, www[p]>>)
          /\ atEnd' = atEnd /\ Missed(w, t)
      BY <1>6 DEF ServeFile
    <2>2. t # <<>>
      BY <2>1 DEF Answer, Parses
    <2>3. www[p] \in 1 .. MaxEdits + 1
      <3>1. www[p] \in Directory .. MaxEdits + 1
        BY <1>3, <2>2 DEF TypeOK
      <3>2. PICK n \in Nat : n = MaxEdits + 1
        BY WorkerIOAssumption
      <3>3. \A x \in -1 .. n : x > 0 => x \in 1 .. n
        OBVIOUS
      <3> QED
        BY <2>1, <3>1, <3>2, <3>3 DEF Directory
    <2>4. <<p, www[p]>> \in Answers
      <3>1. <<p, www[p]>> \in Paths \X (1 .. MaxEdits + 1)
        BY <1>3, <2>2, <2>3
      <3> QED
        BY <3>1 DEF Answers
    <2>5. Fair(w, t, <<p, www[p]>>)
      <3>1. www[p] # 0
        BY <2>3, WorkerIOAssumption
      <3> QED
        BY <3>1 DEF Fair
    <2>6. Answered(w, fd, <<p, www[p]>>, {})
      <3>1. Kept(w, t, <<p, www[p]>>) /\ forgets' \in 0 .. MaxForgets
        <4>1. PICK a : a = <<p, www[p]>>
          OBVIOUS
        <4>2. Store(w, t, a)
          BY <2>1, <4>1
        <4>3. Kept(w, t, a) /\ forgets' \in 0 .. MaxForgets
          BY <4>2, Stored
        <4> QED
          BY <4>1, <4>3
      <3> QED
        BY <2>1, <2>4, <2>5, <3>1 DEF Answered, TypeOK
    <2> QED
      BY <1>1, <2>2, <2>4, <2>6
  <1>7. CASE ServeDirectory(w, fd)
    <2>1. t # <<>> /\ Die(w, fd) /\ www[p] = Directory
      BY <1>7 DEF ServeDirectory, Parses
    <2> QED
      BY <1>1, <2>1 DEF Excused
  <1>8. CASE ServePage(w, fd)
    <2>1. Answer(w, fd, Page, {PageFd}) /\ www[p] = 0 /\ Store(w, t, Page) /\ atEnd' = TRUE
          /\ file[w][PageFd] = Page /\ Missed(w, t)
      BY <1>8 DEF ServePage, NoFile
    <2>2. t # <<>>
      BY <2>1 DEF Answer, Parses
    <2>3. Page \in Answers /\ Fair(w, t, Page) /\ file[w][PageFd] # c
      BY <1>1, <2>1, WorkerIOAssumption DEF Answers, Fair
    <2>4. Answered(w, fd, Page, {PageFd})
      BY <2>1, <2>3, Stored DEF Answered
    <2> QED
      BY <1>1, <1>2, <2>2, <2>3, <2>4
  <1>9. CASE ServeForeign(w, fd)
    <2>1. /\ Answer(w, fd, Foreign, {PageFd}) /\ Store(w, t, Foreign) /\ atEnd' = atEnd
          /\ file[w][PageFd] \in Conns /\ file[w][PageFd] # c /\ Missed(w, t)
      BY <1>9 DEF ServeForeign, NoFile
    <2>2. t # <<>>
      BY <2>1 DEF Answer, Parses
    <2>3. Foreign \in Answers /\ Fair(w, t, Foreign)
      BY <2>1 DEF Answers, Fair
    <2>4. Answered(w, fd, Foreign, {PageFd})
      <3>1. Kept(w, t, Foreign) /\ forgets' \in 0 .. MaxForgets
        BY <2>1, Stored
      <3> QED
        BY <2>1, <2>3, <3>1 DEF Answered, TypeOK
    <2> QED
      BY <1>1, <1>2, <2>2, <2>3, <2>4
  <1>10. CASE ServeNoPage(w, fd)
    <2>1. /\ t # <<>> /\ Die(w, fd) /\ www[p] = 0
          /\ ~(file[w][PageFd] = Page /\ ~atEnd)
      BY <1>10 DEF ServeNoPage, NoFile, Parses
    <2> QED
      BY <1>1, <2>1 DEF Excused
  <1> QED
    BY <1>1, <1>4, <1>5, <1>6, <1>7, <1>8, <1>9, <1>10 DEF Serve

----------------------------------------------------------------------------
(* What changes when a worker takes an event.                              *)

\* A worker has fewer events to take.
LEMMA FewerReady ==
    ASSUME TypeOK, NEW w \in Workers, NEW T \in SUBSET ready[w],
           ready' = [ready EXCEPT ![w] = T]
    PROVE  /\ ready' \in [Workers -> SUBSET Fds]
           /\ ready'[w] = T
           /\ \A v \in Workers : v # w => ready'[v] = ready[v]
  <1>1. ready \in [Workers -> SUBSET Fds]
    BY DEF TypeOK
  <1>2. ready[w] \in SUBSET Fds
    BY <1>1
  <1>3. T \in SUBSET Fds
    BY <1>2
  <1> QED
    BY <1>1, <1>3

\* Descriptors of worker w are freed, others stay as they are; and an event
\* is forgotten only with its descriptor, or if it is the one taken.
OnlyFreed(w, fd) ==
    \A v \in Workers, e \in Fds :
       /\ file'[v][e] = file[v][e] \/ file'[v][e] = Free
       /\ v # w => file'[v][e] = file[v][e]
       /\ e \in ready[v] => \/ e \in ready'[v]
                            \/ file'[v][e] = Free
                            \/ v = w /\ e = fd

\* Only the connection of the event is read, and descriptors are only freed.
LEMMA ServeEffect ==
    ASSUME TypeOK, Remembered, NEW w \in Workers, NEW fd \in Fds, Serve(w, fd)
    PROVE  /\ UNCHANGED <<www, edits, half, sends, home>>
           /\ inbox' = [inbox EXCEPT ![file[w][fd]] = <<>>]
           /\ file' \in [Workers -> [Fds -> Conns \cup {Page, Free}]]
           /\ ready' \in [Workers -> SUBSET Fds]
           /\ OnlyFreed(w, fd)
           /\ alive' \in [Workers -> BOOLEAN]
           /\ \A v \in Workers : alive'[v] => alive[v]
           /\ \A d \in Conns \ {file[w][fd]} :
                 last'[d] = last[d] /\ answer'[d] = answer[d]
  <1> DEFINE c == file[w][fd]
  <1>1. c \in Conns /\ fd \in ready[w]
    BY ServeKinds
  <1>2. Free \in Conns \cup {Page, Free}
    OBVIOUS
  <1>3. CASE ReadNothing(w, fd)
    <2>1. /\ UNCHANGED <<www, edits, half, sends, home>>
          /\ inbox' = [inbox EXCEPT ![c] = <<>>]
          /\ alive' = alive /\ file' = file /\ last' = last /\ answer' = answer
          /\ ready' = [ready EXCEPT ![w] = @ \ {fd}]
      BY <1>3 DEF ReadNothing, Read, site, story
    <2>2. /\ ready' \in [Workers -> SUBSET Fds]
          /\ \A v \in Workers, e \in Fds : e \in ready[v] =>
                e \in ready'[v] \/ (v = w /\ e = fd)
      <3>1. /\ ready' \in [Workers -> SUBSET Fds]
            /\ ready'[w] = ready[w] \ {fd}
            /\ \A v \in Workers : v # w => ready'[v] = ready[v]
        BY <2>1, FewerReady
      <3>2. ASSUME NEW v \in Workers, NEW e \in ready[v], e \notin ready'[v]
            PROVE  v = w /\ e = fd
        BY <3>1, <3>2
      <3> QED
        BY <3>1, <3>2
    <2>3. OnlyFreed(w, fd)
      BY <2>1, <2>2 DEF OnlyFreed
    <2> QED
      BY <2>1, <2>2, <2>3 DEF TypeOK
  <1>4. CASE ReadEnd(w, fd)
    <2>1. /\ UNCHANGED <<www, edits, half, sends, home>>
          /\ inbox' = [inbox EXCEPT ![c] = <<>>]
          /\ alive' = alive
          /\ ready' = [ready EXCEPT ![w] = @ \ {fd}]
          /\ file' = [file EXCEPT ![w][fd] = Free]
      BY <1>4 DEF ReadEnd, Read, site
    <2>2. \A d \in Conns \ {c} : last'[d] = last[d] /\ answer'[d] = answer[d]
      BY <1>1, <1>4 DEF ReadEnd, Told, TypeOK
    <2>3. /\ ready' \in [Workers -> SUBSET Fds]
          /\ \A v \in Workers, e \in Fds : e \in ready[v] =>
                e \in ready'[v] \/ (v = w /\ e = fd)
      <3>1. /\ ready' \in [Workers -> SUBSET Fds]
            /\ ready'[w] = ready[w] \ {fd}
            /\ \A v \in Workers : v # w => ready'[v] = ready[v]
        BY <2>1, FewerReady
      <3>2. ASSUME NEW v \in Workers, NEW e \in ready[v], e \notin ready'[v]
            PROVE  v = w /\ e = fd
        BY <3>1, <3>2
      <3> QED
        BY <3>1, <3>2
    <2>4. /\ file' \in [Workers -> [Fds -> Conns \cup {Page, Free}]]
          /\ \A v \in Workers, e \in Fds :
                file'[v][e] = IF v = w /\ e = fd THEN Free ELSE file[v][e]
      BY <2>1 DEF TypeOK
    <2>5. OnlyFreed(w, fd)
      BY <2>3, <2>4 DEF OnlyFreed
    <2> QED
      BY <2>1, <2>2, <2>3, <2>4, <2>5 DEF TypeOK
  <1>5. CASE Die(w, fd)
    <2>1. /\ UNCHANGED <<www, edits, half, sends, home>>
          /\ inbox' = [inbox EXCEPT ![c] = <<>>]
          /\ alive' = [alive EXCEPT ![w] = FALSE]
          /\ ready' = [ready EXCEPT ![w] = {}]
          /\ file' = [file EXCEPT ![w] = [e \in Fds |-> Free]]
      BY <1>5 DEF Die, Read, site
    <2>2. \A d \in Conns \ {c} : last'[d] = last[d] /\ answer'[d] = answer[d]
      BY <1>1, <1>5 DEF Die, Told, TypeOK
    <2>3. /\ ready' \in [Workers -> SUBSET Fds]
          /\ \A v \in Workers, e \in Fds : e \in ready[v] => e \in ready'[v] \/ v = w
      <3>1. /\ ready' \in [Workers -> SUBSET Fds]
            /\ \A v \in Workers : v # w => ready'[v] = ready[v]
        BY <2>1, FewerReady
      <3> QED
        BY <3>1
    <2>4. /\ file' \in [Workers -> [Fds -> Conns \cup {Page, Free}]]
          /\ \A v \in Workers, e \in Fds :
                file'[v][e] = IF v = w THEN Free ELSE file[v][e]
      BY <2>1 DEF TypeOK
    <2>5. /\ alive' \in [Workers -> BOOLEAN]
          /\ \A v \in Workers : alive'[v] => alive[v]
      BY <2>1 DEF TypeOK
    <2>6. OnlyFreed(w, fd)
      BY <2>3, <2>4 DEF OnlyFreed
    <2> QED
      BY <2>1, <2>2, <2>3, <2>4, <2>5, <2>6
  <1>6. ASSUME NEW a \in Answers, NEW gone \in SUBSET Fds, Answer(w, fd, a, gone)
        PROVE  /\ UNCHANGED <<www, edits, half, sends, home>>
               /\ inbox' = [inbox EXCEPT ![c] = <<>>]
               /\ alive' = alive
               /\ ready' = [ready EXCEPT ![w] = (@ \ gone) \ {fd}]
               /\ \E closed \in SUBSET Fds :
                     /\ gone \subseteq closed
                     /\ file' = [file EXCEPT ![w] =
                                   [e \in Fds |-> IF e \in closed THEN Free ELSE @[e]]]
               /\ \A d \in Conns \ {c} : last'[d] = last[d] /\ answer'[d] = answer[d]
    <2>1. /\ UNCHANGED <<www, edits, half, sends, home>>
          /\ inbox' = [inbox EXCEPT ![c] = <<>>]
          /\ alive' = alive
          /\ ready' = [ready EXCEPT ![w] = (@ \ gone) \ {fd}]
      BY <1>6 DEF Answer, Read, site
    <2>2. \A d \in Conns \ {c} : last'[d] = last[d] /\ answer'[d] = answer[d]
      BY <1>1, <1>6 DEF Answer, Told, TypeOK
    <2>3. PICK conn \in Seen(inbox[c]) :
             LET closed == gone \cup {e \in {fd} : Closes(inbox[c][1].req.version, conn)}
             IN  file' = [file EXCEPT ![w] =
                            [e \in Fds |-> IF e \in closed THEN Free ELSE @[e]]]
      BY <1>6 DEF Answer
    <2>4. gone \cup {e \in {fd} : Closes(inbox[c][1].req.version, conn)} \in SUBSET Fds
      OBVIOUS
    <2> QED
      BY <2>1, <2>2, <2>3, <2>4
  <1>7. CASE \E a \in Answers, gone \in SUBSET Fds : Answer(w, fd, a, gone)
    <2>1. PICK a \in Answers, gone \in SUBSET Fds : Answer(w, fd, a, gone)
      BY <1>7
    <2>2. PICK closed \in SUBSET Fds :
             /\ gone \subseteq closed
             /\ file' = [file EXCEPT ![w] =
                           [e \in Fds |-> IF e \in closed THEN Free ELSE @[e]]]
      BY <1>6, <2>1
    <2>3. /\ file' \in [Workers -> [Fds -> Conns \cup {Page, Free}]]
          /\ \A v \in Workers, e \in Fds :
                file'[v][e] = IF v = w /\ e \in closed THEN Free ELSE file[v][e]
      BY <2>2 DEF TypeOK
    <2>4. /\ ready' \in [Workers -> SUBSET Fds]
          /\ \A v \in Workers, e \in Fds : e \in ready[v] =>
                e \in ready'[v] \/ (v = w /\ e \in gone) \/ (v = w /\ e = fd)
      <3>1. /\ ready' \in [Workers -> SUBSET Fds]
            /\ ready'[w] = (ready[w] \ gone) \ {fd}
            /\ \A v \in Workers : v # w => ready'[v] = ready[v]
        <4>1. PICK T \in SUBSET ready[w] : T = (ready[w] \ gone) \ {fd}
          OBVIOUS
        <4>2. ready' = [ready EXCEPT ![w] = T]
          BY <2>1, <4>1 DEF Answer
        <4>3. /\ ready' \in [Workers -> SUBSET Fds] /\ ready'[w] = T
              /\ \A v \in Workers : v # w => ready'[v] = ready[v]
          BY <4>2, FewerReady
        <4> QED
          BY <4>1, <4>3
      <3>2. ASSUME NEW v \in Workers, NEW e \in ready[v], e \notin ready'[v], e # fd
            PROVE  v = w /\ e \in gone
        BY <3>1, <3>2
      <3> QED
        BY <3>1, <3>2
    <2>5. \A v \in Workers, e \in Fds : e \in ready[v] =>
             e \in ready'[v] \/ file'[v][e] = Free \/ (v = w /\ e = fd)
      <3>1. \A e \in gone : e \in closed
        BY <2>2
      <3> QED
        BY <2>3, <2>4, <3>1
    <2>6. OnlyFreed(w, fd)
      BY <2>3, <2>5 DEF OnlyFreed
    <2> QED
      BY <1>6, <2>1, <2>3, <2>4, <2>6 DEF TypeOK
  <1> QED
    BY <1>3, <1>4, <1>5, <1>7, ServeKinds DEF Answered

\* Clients stay as they are, but for a reset that is told of; and after the
\* event there is no more to tell of the connection, or it is closed.
PeerTold(w, fd) ==
    /\ peer' \in [Conns -> {"open", "ended", "reset", "gone"}]
    /\ \A d \in Conns :
          peer'[d] = peer[d] \/ (d = file[w][fd] /\ peer[d] = "reset")
    /\ peer'[file[w][fd]] \notin {"ended", "reset"} \/ file'[w][fd] = Free

LEMMA PeerEffect ==
    ASSUME TypeOK, Remembered, NEW w \in Workers, NEW fd \in Fds, Serve(w, fd)
    PROVE  PeerTold(w, fd)
  <1>1. file[w][fd] \in Conns
    BY ServeKinds
  <1>2. CASE ReadNothing(w, fd)
    <2>1. PICK q : q = IF peer[file[w][fd]] = "reset" THEN "gone" ELSE peer[file[w][fd]]
      OBVIOUS
    <2>2. peer' = [peer EXCEPT ![file[w][fd]] = q] /\ peer[file[w][fd]] # "ended"
      BY <1>2, <2>1 DEF ReadNothing
    <2>3. q \in {"open", "reset", "gone"} /\ q # "reset"
      BY <1>1, <2>1, <2>2 DEF TypeOK
    <2>4. q = peer[file[w][fd]] \/ peer[file[w][fd]] = "reset"
      BY <2>1
    <2> QED
      BY <1>1, <2>2, <2>3, <2>4 DEF PeerTold, TypeOK
  <1>3. CASE ReadEnd(w, fd)
    BY <1>1, <1>3 DEF ReadEnd, PeerTold, TypeOK
  <1>4. CASE Die(w, fd)
    BY <1>1, <1>4 DEF Die, PeerTold, TypeOK
  <1>5. CASE \E a \in Answers, gone \in SUBSET Fds : Answered(w, fd, a, gone)
    <2>1. peer' = peer /\ peer[file[w][fd]] = "open"
      BY <1>5 DEF Answered, Answer
    <2> QED
      BY <1>1, <2>1 DEF PeerTold, TypeOK
  <1> QED
    BY <1>2, <1>3, <1>4, <1>5, ServeKinds

\* A connection that was closed in the page's place remains one that was.
LEMMA AsPageEffect ==
    ASSUME TypeOK, Remembered, NEW w \in Workers, NEW fd \in Fds, Serve(w, fd)
    PROVE  asPage \subseteq asPage' /\ asPage' \subseteq Conns
  <1>1. CASE ReadNothing(w, fd) \/ ReadEnd(w, fd) \/ Die(w, fd)
    BY <1>1 DEF ReadNothing, ReadEnd, Die, story, TypeOK
  <1>2. CASE \E a \in Answers, gone \in SUBSET Fds : Answered(w, fd, a, gone)
    <2>1. \E gone \in SUBSET Fds :
             asPage' = asPage \cup ({file[w][e] : e \in gone} \cap Conns)
      BY <1>2 DEF Answered, Answer
    <2> QED
      BY <2>1 DEF TypeOK
  <1> QED
    BY <1>1, <1>2, ServeKinds

----------------------------------------------------------------------------
(* The parts of the invariant that others rest on.                         *)

\* Clients and edits leave what the workers have.
LEMMA OthersEffect ==
    ASSUME Next,
           ~ \E w \in Workers, c \in Conns : Accept(w, c),
           ~ \E w \in Workers, fd \in Fds : Serve(w, fd)
    PROVE  UNCHANGED <<alive, file, cache, forgets, atEnd, home, story>>
  <1>1. ASSUME NEW c \in Conns, NEW r, NEW part, Arrive(c, r, part)
        PROVE  UNCHANGED <<alive, file, cache, forgets, atEnd, home, story>>
    BY <1>1 DEF Arrive
  <1>2. ASSUME NEW c \in Conns, NEW r \in Requests, Send(c, r) \/ SendHead(c, r)
        PROVE  UNCHANGED <<alive, file, cache, forgets, atEnd, home, story>>
    BY <1>1, <1>2 DEF Send, SendHead
  <1>3. ASSUME NEW c \in Conns, SendRest(c)
        PROVE  UNCHANGED <<alive, file, cache, forgets, atEnd, home, story>>
    BY <1>1, <1>3 DEF SendRest
  <1>4. ASSUME NEW c \in Conns, End(c)
        PROVE  UNCHANGED <<alive, file, cache, forgets, atEnd, home, story>>
    BY <1>4 DEF End
  <1>5. ASSUME NEW p \in Paths, Edit(p)
        PROVE  UNCHANGED <<alive, file, cache, forgets, atEnd, home, story>>
    BY <1>5 DEF Edit
  <1> QED
    BY <1>2, <1>3, <1>4, <1>5 DEF Next

\* A connection gets the lowest free descriptor of its worker.
LEMMA AcceptEffect ==
    ASSUME TypeOK, NEW w \in Workers, NEW c \in Conns, Accept(w, c)
    PROVE  /\ UNCHANGED <<alive, cache, forgets, atEnd, site, input, story>>
           /\ home[c] = NULL /\ home' = [home EXCEPT ![c] = w]
           /\ \E fd \in Fds :
                 /\ file[w][fd] = Free
                 /\ file' \in [Workers -> [Fds -> Conns \cup {Page, Free}]]
                 /\ \A v \in Workers, e \in Fds :
                       file'[v][e] = IF v = w /\ e = fd THEN c ELSE file[v][e]
                 /\ ready' \in [Workers -> SUBSET Fds]
                 /\ \A v \in Workers, e \in Fds : e \in ready[v] => e \in ready'[v]
                 /\ Unread(c) => fd \in ready'[w]
  <1>1. PICK fd \in Fds :
           /\ file[w][fd] = Free
           /\ file' = [file EXCEPT ![w][fd] = c]
           /\ ready' = IF inbox[c] # <<>> \/ peer[c] # "open"
                       THEN [ready EXCEPT ![w] = @ \cup {fd}] ELSE ready
    BY DEF Accept
  <1>2. /\ file' \in [Workers -> [Fds -> Conns \cup {Page, Free}]]
        /\ \A v \in Workers, e \in Fds :
              file'[v][e] = IF v = w /\ e = fd THEN c ELSE file[v][e]
    BY <1>1 DEF TypeOK
  <1>0. /\ UNCHANGED <<alive, cache, forgets, atEnd, site, input, story>>
        /\ home[c] = NULL /\ home' = [home EXCEPT ![c] = w]
    BY DEF Accept
  <1>3. CASE ready' = ready /\ inbox[c] = <<>> /\ peer[c] = "open"
    <2>1. ready' \in [Workers -> SUBSET Fds] /\ ~Unread(c)
      BY <1>3 DEF TypeOK, Unread
    <2> QED
      BY <1>0, <1>1, <1>2, <1>3, <2>1
  <1>4. CASE ready' = [ready EXCEPT ![w] = @ \cup {fd}]
    <2>1. ready[w] \cup {fd} \in SUBSET Fds
      BY DEF TypeOK
    <2>2. /\ ready' \in [Workers -> SUBSET Fds]
          /\ ready'[w] = ready[w] \cup {fd}
          /\ \A v \in Workers : v # w => ready'[v] = ready[v]
      BY <1>4, <2>1 DEF TypeOK
    <2>3. \A v \in Workers, e \in Fds : e \in ready[v] => e \in ready'[v]
      BY <2>2
    <2> QED
      BY <1>0, <1>1, <1>2, <2>2, <2>3
  <1> QED
    BY <1>1, <1>3, <1>4

LEMMA OwnedStep ==
    ASSUME TypeOK, Owned, Remembered, Next
    PROVE  Owned'
  <1>1. ASSUME NEW w \in Workers, NEW c \in Conns, Accept(w, c)
        PROVE  Owned'
    <2>1. /\ home[c] = NULL /\ home' = [home EXCEPT ![c] = w]
          /\ \E fd \in Fds :
                \A v \in Workers, e \in Fds :
                   file'[v][e] = IF v = w /\ e = fd THEN c ELSE file[v][e]
      BY <1>1, AcceptEffect
    <2>2. PICK fd \in Fds : \A v \in Workers, e \in Fds :
             file'[v][e] = IF v = w /\ e = fd THEN c ELSE file[v][e]
      BY <2>1
    <2>3. \A v \in Workers, e \in Fds : file[v][e] # c
      BY <2>1, WorkerIOAssumption DEF Owned
    <2>4. home'[c] = w /\ \A d \in Conns : d # c => home'[d] = home[d]
      BY <2>1 DEF TypeOK
    <2> SUFFICES ASSUME NEW v \in Workers, NEW e \in Fds, file'[v][e] \in Conns
                 PROVE  /\ home'[file'[v][e]] = v
                        /\ \A e2 \in Fds : file'[v][e2] = file'[v][e] => e2 = e
      BY DEF Owned
    <2>5. CASE v = w /\ e = fd
      BY <2>2, <2>3, <2>4, <2>5
    <2>6. CASE ~(v = w /\ e = fd)
      <3>1. file'[v][e] = file[v][e] /\ file[v][e] # c
        BY <2>2, <2>3, <2>6
      <3>2. home'[file'[v][e]] = v
        BY <2>4, <3>1 DEF Owned
      <3>3. ASSUME NEW e2 \in Fds, file'[v][e2] = file'[v][e]
            PROVE  e2 = e
        <4>1. file'[v][e2] = file[v][e2]
          BY <2>2, <3>1, <3>3
        <4>2. file[v][e] \in Conns /\ file[v][e2] = file[v][e]
          BY <3>1, <3>3, <4>1
        <4> QED
          BY <4>2 DEF Owned
      <3> QED
        BY <3>2, <3>3
    <2> QED
      BY <2>5, <2>6
  <1>2. ASSUME NEW w \in Workers, NEW fd \in Fds, Serve(w, fd)
        PROVE  Owned'
    <2>1. home' = home /\ OnlyFreed(w, fd)
      BY <1>2, ServeEffect
    <2>2. \A v \in Workers, e \in Fds :
             file'[v][e] \in Conns => file'[v][e] = file[v][e]
      BY <2>1, WorkerIOAssumption DEF OnlyFreed
    <2> QED
      BY <2>1, <2>2 DEF Owned
  <1>3. CASE UNCHANGED <<file, home>>
    BY <1>3 DEF Owned
  <1> QED
    BY <1>1, <1>2, <1>3, OthersEffect

LEMMA RememberedStep ==
    ASSUME TypeOK, Remembered, Next
    PROVE  Remembered'
  <1>1. ASSUME NEW w \in Workers, NEW c \in Conns, Accept(w, c)
        PROVE  UNCHANGED <<cache, given>>
    BY <1>1 DEF Accept, story
  <1>2. ASSUME NEW w \in Workers, NEW fd \in Fds, Serve(w, fd)
        PROVE  Remembered'
    <2>1. CASE ReadNothing(w, fd)
      BY <2>1 DEF ReadNothing, story, Remembered
    <2>2. CASE ReadEnd(w, fd)
      BY <2>2 DEF ReadEnd, Remembered
    <2>3. CASE Die(w, fd)
      BY <2>3 DEF Die, Remembered
    <2>4. ASSUME NEW a \in Answers, NEW gone \in SUBSET Fds, Answered(w, fd, a, gone)
          PROVE  Remembered'
      <3> DEFINE t == inbox[file[w][fd]]
      <3>1. given' = given \cup {<<w, t, a>>}
        BY <2>4 DEF Answered, Answer
      <3>2. \A v \in Workers : \A e \in cache'[v] :
               e \in cache[v] \/ (v = w /\ e = <<t, a>>)
        BY <2>4 DEF Answered, Kept, TypeOK
      <3>3. ASSUME NEW v \in Workers, NEW e \in cache'[v]
            PROVE  <<v, e[1], e[2]>> \in given'
        <4>1. CASE e \in cache[v]
          BY <3>1, <4>1 DEF Remembered
        <4>2. CASE v = w /\ e = <<t, a>>
          BY <3>1, <4>2
        <4> QED
          BY <3>2, <3>3, <4>1, <4>2
      <3> QED
        BY <3>3 DEF Remembered
    <2> QED
      BY <1>2, <2>1, <2>2, <2>3, <2>4, ServeKinds
  <1>3. CASE UNCHANGED <<cache, given>>
    BY <1>3 DEF Remembered
  <1> QED
    BY <1>1, <1>2, <1>3, OthersEffect DEF story

LEMMA AcceptedStep ==
    ASSUME TypeOK, Owned, Remembered, FirstAccepted, Next
    PROVE  FirstAccepted'
  <1>1. ASSUME NEW w \in Workers, NEW c \in Conns, Accept(w, c)
        PROVE  FirstAccepted'
    <2>1. home' = [home EXCEPT ![c] = w] /\ last' = last
      BY <1>1 DEF Accept, story
    <2> QED
      BY <2>1, WorkerIOAssumption DEF FirstAccepted, TypeOK
  <1>2. ASSUME NEW w \in Workers, NEW fd \in Fds, Serve(w, fd)
        PROVE  FirstAccepted'
    <2>1. /\ home' = home /\ file[w][fd] \in Conns
          /\ \A d \in Conns : d # file[w][fd] => last'[d] = last[d]
      BY <1>2, ServeKinds, ServeEffect
    <2>2. home[file[w][fd]] # NULL
      BY <2>1, WorkerIOAssumption DEF Owned
    <2> QED
      BY <2>1, <2>2 DEF FirstAccepted
  <1>3. CASE UNCHANGED <<home, last>>
    BY <1>3 DEF FirstAccepted
  <1> QED
    BY <1>1, <1>2, <1>3, OthersEffect DEF story

----------------------------------------------------------------------------
(* What the runs check.                                                    *)

LEMMA UnreadStep ==
    ASSUME TypeOK, Owned, Remembered, UnreadIsAnnounced, Next
    PROVE  UnreadIsAnnounced'
  <1>1. ASSUME NEW w \in Workers, NEW c \in Conns, Accept(w, c)
        PROVE  UnreadIsAnnounced'
    <2>1. \A d : Unread(d)' <=> Unread(d)
      BY <1>1 DEF Accept, input, Unread
    <2>2. PICK fd \in Fds :
             /\ \A v \in Workers, e \in Fds :
                   file'[v][e] = IF v = w /\ e = fd THEN c ELSE file[v][e]
             /\ \A v \in Workers, e \in Fds : e \in ready[v] => e \in ready'[v]
             /\ Unread(c) => fd \in ready'[w]
      BY <1>1, AcceptEffect
    <2> QED
      BY <2>1, <2>2 DEF UnreadIsAnnounced
  <1>2. ASSUME NEW w \in Workers, NEW fd \in Fds, Serve(w, fd)
        PROVE  UnreadIsAnnounced'
    <2>1. /\ inbox' = [inbox EXCEPT ![file[w][fd]] = <<>>]
          /\ file[w][fd] \in Conns /\ OnlyFreed(w, fd) /\ PeerTold(w, fd)
      BY <1>2, ServeKinds, ServeEffect, PeerEffect
    <2>2. /\ inbox'[file[w][fd]] = <<>>
          /\ \A d \in Conns : d # file[w][fd] => inbox'[d] = inbox[d] /\ peer'[d] = peer[d]
      BY <2>1 DEF TypeOK, PeerTold
    <2> SUFFICES ASSUME NEW v \in Workers, NEW e \in Fds,
                        file'[v][e] \in Conns, Unread(file[v][e])',
                        file'[v][e] = file[v][e]
                 PROVE  e \in ready'[v]
      BY <2>1, WorkerIOAssumption DEF UnreadIsAnnounced, OnlyFreed, Unread
    <2>3. file'[v][e] # Free
      BY WorkerIOAssumption
    <2>4. file[v][e] # file[w][fd]
      <3> SUFFICES ASSUME file[v][e] = file[w][fd] PROVE FALSE
        OBVIOUS
      <3>1. v = w /\ e = fd
        BY <2>1 DEF Owned
      <3>2. peer'[file[w][fd]] \notin {"ended", "reset"}
        BY <2>1, <2>3, <3>1 DEF PeerTold
      <3> QED
        BY <2>2, <3>1, <3>2 DEF Unread
    <2>5. Unread(file[v][e])
      BY <2>2, <2>4 DEF Unread
    <2>6. e \in ready[v]
      BY <2>5 DEF UnreadIsAnnounced
    <2> QED
      BY <2>1, <2>3, <2>4, <2>6 DEF OnlyFreed
  <1>3. ASSUME NEW c \in Conns, file' = file, Edge(c),
               \A d \in Conns : d # c => inbox'[d] = inbox[d] /\ peer'[d] = peer[d]
        PROVE  UnreadIsAnnounced'
    <2> SUFFICES ASSUME NEW v \in Workers, NEW e \in Fds,
                        file[v][e] \in Conns, Unread(file[v][e])'
                 PROVE  e \in ready'[v]
      BY <1>3 DEF UnreadIsAnnounced, Unread
    <2>1. ready'[v] = ready[v] \cup {fd \in Fds : file[v][fd] = c}
      BY <1>3 DEF Edge
    <2>2. CASE file[v][e] = c
      BY <2>1, <2>2
    <2>3. CASE file[v][e] # c
      <3>1. Unread(file[v][e])
        BY <1>3, <2>3 DEF Unread
      <3> QED
        BY <2>1, <3>1 DEF UnreadIsAnnounced
    <2> QED
      BY <2>2, <2>3
  <1>4. ASSUME NEW c \in Conns, NEW r, NEW part, Arrive(c, r, part)
        PROVE  UnreadIsAnnounced'
    <2>1. /\ file' = file /\ Edge(c) /\ peer' = peer
          /\ inbox' = [inbox EXCEPT ![c] = Append(@, [req |-> r, part |-> part])]
      BY <1>4 DEF Arrive
    <2>2. \A d \in Conns : d # c => inbox'[d] = inbox[d]
      BY <2>1 DEF TypeOK
    <2> QED
      BY <1>3, <2>1, <2>2
  <1>5. ASSUME NEW c \in Conns, End(c)
        PROVE  UnreadIsAnnounced'
    <2>1. file' = file /\ Edge(c)
      BY <1>5 DEF End
    <2>2. \A d \in Conns : d # c => inbox'[d] = inbox[d] /\ peer'[d] = peer[d]
      BY <1>5 DEF End, TypeOK
    <2> QED
      BY <1>3, <2>1, <2>2
  <1>6. ASSUME NEW p \in Paths, Edit(p)
        PROVE  UnreadIsAnnounced'
    BY <1>6 DEF Edit, input, UnreadIsAnnounced, Unread
  <1> QED
    BY <1>1, <1>2, <1>4, <1>5, <1>6 DEF Next, Send, SendHead, SendRest

\* The request in q is followed if connection d is held or not (see
\* ClosesAsAsked).
Followed(q, d, held) ==
    LET r     == q.req
        close == \/ r.version = "HTTP/1.1" /\ r.connection = "close"
                 \/ r.version = "HTTP/1.0" /\ r.connection # "keep-alive"
    IN  q.whole /\ ~r.grown =>
          /\ ~held => close \/ peer[d] = "ended" \/ d \in asPage
          /\ held => ~close

\* No two workers hold a connection, so that what one of them closes is closed.
LEMMA ClosesStep ==
    ASSUME TypeOK, Owned, Remembered, FirstAccepted, ClosesAsAsked, Next
    PROVE  ClosesAsAsked'
  <1>1. ASSUME NEW w \in Workers, NEW c \in Conns, Accept(w, c)
        PROVE  ClosesAsAsked'
    <2>1. /\ UNCHANGED <<alive, last, peer, asPage>>
          /\ home[c] = NULL /\ home' = [home EXCEPT ![c] = w]
      BY <1>1 DEF Accept, story, input
    <2>2. PICK fd \in Fds :
             /\ file[w][fd] = Free
             /\ \A v \in Workers, e \in Fds :
                   file'[v][e] = IF v = w /\ e = fd THEN c ELSE file[v][e]
      BY <1>1, AcceptEffect
    <2> SUFFICES ASSUME NEW d \in Conns,
                        home'[d] # NULL, alive'[home'[d]], last'[d] # NULL
                 PROVE  /\ home[d] # NULL /\ alive[home[d]] /\ last[d] # NULL
                        /\ last'[d] = last[d] /\ peer'[d] = peer[d]
                        /\ Held(d)' <=> Held(d)
      BY <2>1 DEF ClosesAsAsked
    <2>3. d # c
      BY <2>1 DEF FirstAccepted
    <2>4. home'[d] = home[d]
      BY <2>1, <2>3 DEF TypeOK
    <2>5. Held(d)' <=> Held(d)
      <3>1. \A v \in Workers, e \in Fds : file'[v][e] = d <=> file[v][e] = d
        BY <2>2, <2>3, WorkerIOAssumption
      <3> QED
        BY <3>1 DEF Held
    <2> QED
      BY <2>1, <2>4, <2>5
  <1>2. ASSUME NEW w \in Workers, NEW fd \in Fds, Serve(w, fd)
        PROVE  ClosesAsAsked'
    <2> DEFINE c == file[w][fd]
    <2>1. /\ c \in Conns /\ alive[w]
          /\ home' = home /\ OnlyFreed(w, fd)
          /\ \A d \in Conns : peer[d] = "ended" => peer'[d] = "ended"
          /\ alive' \in [Workers -> BOOLEAN]
          /\ \A v \in Workers : alive'[v] => alive[v]
          /\ \A d \in Conns : d # c => last'[d] = last[d]
      BY <1>2, ServeKinds, ServeEffect, PeerEffect DEF PeerTold
    <2> SUFFICES ASSUME NEW d \in Conns, home[d] # NULL, alive'[home[d]], last'[d] # NULL
                 PROVE  Followed(last[d], d, Held(d))'
      BY <2>1 DEF ClosesAsAsked, Followed
    <2>2. home[d] \in Workers /\ alive[home[d]]
      BY <2>1 DEF TypeOK
    <2>3. asPage \subseteq asPage'
      BY <1>2, AsPageEffect
    <2>4. Held(d)' => Held(d)
      BY <2>1, WorkerIOAssumption DEF OnlyFreed, Held
    <2>5. home[c] = w /\ \A v \in Workers, e \in Fds : file[v][e] = c => v = w /\ e = fd
      BY <2>1 DEF Owned
    <2>6. ASSUME last'[d] = last[d], Held(d) => Held(d)'
          PROVE  Followed(last[d], d, Held(d))'
      <3>1. Followed(last[d], d, Held(d))
        BY <2>2, <2>6 DEF ClosesAsAsked, Followed
      <3> QED
        BY <2>1, <2>3, <2>4, <2>6, <3>1 DEF Followed
    <2>7. CASE home[d] # w
      <3>1. d # c
        BY <2>5, <2>7
      <3>2. Held(d) => Held(d)'
        <4>1. \A v \in Workers, e \in Fds : file[v][e] = d => v # w
          BY <2>7 DEF Owned
        <4> QED
          BY <2>1, <4>1 DEF OnlyFreed, Held
      <3> QED
        BY <2>1, <2>6, <3>1, <3>2
    <2>8. CASE home[d] = w /\ ReadNothing(w, fd)
      BY <2>6, <2>8 DEF ReadNothing, Held, story
    <2>9. CASE home[d] = w /\ ReadEnd(w, fd)
      <3>1. peer[c] = "ended" /\ file' = [file EXCEPT ![w][fd] = Free]
        BY <2>9 DEF ReadEnd
      <3>2. \A v \in Workers, e \in Fds :
               file'[v][e] = IF v = w /\ e = fd THEN Free ELSE file[v][e]
        BY <3>1 DEF TypeOK
      <3>3. CASE d = c
        <4>1. ~Held(d)'
          BY <2>1, <2>5, <3>2, <3>3, WorkerIOAssumption DEF Held
        <4> QED
          BY <2>1, <3>1, <3>3, <4>1 DEF Followed
      <3>4. CASE d # c
        <4>1. Held(d) => Held(d)'
          BY <3>2, <3>4 DEF Held
        <4> QED
          BY <2>1, <2>6, <3>4, <4>1
      <3> QED
        BY <3>3, <3>4
    <2>10. CASE home[d] = w /\ Die(w, fd)
      BY <2>10 DEF Die, TypeOK
    <2>11. ASSUME NEW a \in Answers, NEW gone \in SUBSET Fds, home[d] = w,
                  inbox[c] # <<>>, Answered(w, fd, a, gone)
           PROVE  Followed(last[d], d, Held(d))'
      <3> DEFINE t == inbox[c]
                 r == t[1].req
      <3>1. PICK conn \in Seen(t) :
               file' = [file EXCEPT ![w] =
                          [e \in Fds |->
                             IF e \in gone \cup {x \in {fd} : Closes(r.version, conn)}
                             THEN Free ELSE @[e]]]
        BY <2>11 DEF Answered, Answer
      <3>2. \A v \in Workers, e \in Fds :
               file'[v][e] = IF v = w /\ (e \in gone \/ (e = fd /\ Closes(r.version, conn)))
                             THEN Free ELSE file[v][e]
        BY <3>1 DEF TypeOK
      <3>3. fd \notin gone /\ asPage' = asPage \cup ({file[w][e] : e \in gone} \cap Conns)
        BY <2>11 DEF Answered, Answer
      <3>4. CASE d # c /\ (Held(d) => Held(d)')
        BY <2>1, <2>6, <3>4
      <3>5. CASE d # c /\ Held(d) /\ ~Held(d)'
        <4>1. PICK v \in Workers, e \in Fds : file[v][e] = d /\ file'[v][e] # d
          BY <3>5 DEF Held
        <4>2. v = w /\ e \in gone
          BY <3>2, <3>5, <4>1
        <4>3. d \in asPage'
          BY <3>3, <4>1, <4>2
        <4>4. Followed(last[d], d, Held(d))
          BY <2>1, <2>2, <3>5 DEF ClosesAsAsked, Followed
        <4> QED
          BY <2>1, <3>5, <4>3, <4>4 DEF Followed
      <3>6. CASE d = c
        <4>1. last'[d].req = r /\ last'[d].whole = IsWhole(t)
          <5>1. Told(d, t, a)
            BY <2>11, <3>6 DEF Answered, Answer
          <5>2. last'[d] = [req |-> r, whole |-> IsWhole(t)]
            BY <5>1 DEF Told, TypeOK
          <5> QED
            BY <5>2
        <4>2. Held(d)' <=> ~Closes(r.version, conn)
          <5>1. file'[w][fd] = d <=> ~Closes(r.version, conn)
            BY <2>1, <3>2, <3>3, <3>6, WorkerIOAssumption
          <5>2. \A v \in Workers, e \in Fds : file'[v][e] = d => v = w /\ e = fd
            BY <2>1, <2>5, <3>6, WorkerIOAssumption DEF OnlyFreed
          <5> QED
            BY <5>1, <5>2 DEF Held
        <4>3. SUFFICES ASSUME IsWhole(t), ~r.grown
                       PROVE  Followed(last[d], d, Held(d))'
          BY <4>1 DEF Followed
        <4>4. conn = r.connection /\ r.version \in {"HTTP/1.0", "HTTP/1.1"}
          <5>1. r \in Request
            BY <2>1, <2>11, TextType
          <5> QED
            BY <4>3, <5>1 DEF Seen, Request
        <4>5. Closes(r.version, conn) <=>
                 \/ r.version = "HTTP/1.1" /\ r.connection = "close"
                 \/ r.version = "HTTP/1.0" /\ r.connection # "keep-alive"
          BY <4>4 DEF Closes
        <4> QED
          BY <4>1, <4>2, <4>5 DEF Followed
      <3> QED
        BY <3>4, <3>5, <3>6
    <2> QED
      BY <1>2, <2>7, <2>8, <2>9, <2>10, <2>11, ServeKinds
  <1>3. CASE UNCHANGED <<alive, file, home, last, asPage>> /\
             \A d \in Conns : peer[d] = "ended" => peer'[d] = "ended"
    BY <1>3 DEF ClosesAsAsked, Held
  <1>4. \/ UNCHANGED peer
        \/ \E w \in Workers, c \in Conns : Accept(w, c)
        \/ \E w \in Workers, fd \in Fds : Serve(w, fd)
        \/ \E c \in Conns : End(c)
    BY DEF Next, Send, SendHead, SendRest, Arrive, Edit, input
  <1>5. ASSUME NEW c \in Conns, End(c)
        PROVE  \A d \in Conns : peer[d] = "ended" => peer'[d] = "ended"
    BY <1>5 DEF End, TypeOK
  <1> QED
    BY <1>1, <1>2, <1>3, <1>4, <1>5, OthersEffect DEF story

----------------------------------------------------------------------------
(* Types.                                                                  *)

\* What a worker tells of what it read.
LEMMA ToldType ==
    ASSUME TypeOK, NEW c \in Conns, inbox[c] # <<>>, NEW a \in Answers \cup {NULL},
           Told(c, inbox[c], a)
    PROVE  /\ last' \in [Conns -> Taken \cup {NULL}]
           /\ answer' \in [Conns -> Answers \cup {NULL}]
           /\ last'[c] \in Taken /\ last'[c].req = inbox[c][1].req
           /\ last'[c].whole = IsWhole(inbox[c])
           /\ answer'[c] = a
  <1> DEFINE q == [req |-> inbox[c][1].req, whole |-> IsWhole(inbox[c])]
  <1>1. q \in Taken
    <2>1. IsWhole(inbox[c]) \in BOOLEAN
      BY DEF IsWhole
    <2> QED
      BY <2>1, TextType DEF Taken
  <1>2. last' = [last EXCEPT ![c] = q] /\ answer' = [answer EXCEPT ![c] = a]
    BY DEF Told
  <1> HIDE DEF q
  <1>3. last' \in [Conns -> Taken \cup {NULL}] /\ last'[c] = q
    BY <1>1, <1>2 DEF TypeOK
  <1>4. answer' \in [Conns -> Answers \cup {NULL}] /\ answer'[c] = a
    BY <1>2 DEF TypeOK
  <1> QED
    BY <1>1, <1>3, <1>4 DEF q

LEMMA TypeStep ==
    ASSUME TypeOK, Remembered, Next
    PROVE  TypeOK'
  <1>1. ASSUME NEW w \in Workers, NEW c \in Conns, Accept(w, c)
        PROVE  TypeOK'
    <2>1. home' \in [Conns -> Workers \cup {NULL}]
      BY <1>1 DEF Accept, TypeOK
    <2>2. /\ file' \in [Workers -> [Fds -> Conns \cup {Page, Free}]]
          /\ ready' \in [Workers -> SUBSET Fds]
      BY <1>1, AcceptEffect
    <2>3. UNCHANGED <<alive, cache, forgets, atEnd, www, edits, inbox, half, peer, sends,
                      last, answer, given, asPage>>
      BY <1>1 DEF Accept, site, input, story
    <2> QED
      BY <2>1, <2>2, <2>3 DEF TypeOK
  <1>2. ASSUME NEW w \in Workers, NEW fd \in Fds, Serve(w, fd)
        PROVE  TypeOK'
    <2> DEFINE c == file[w][fd]
               t == inbox[c]
    <2>1. /\ UNCHANGED <<www, edits, half, sends, home>>
          /\ inbox' = [inbox EXCEPT ![c] = <<>>]
          /\ file' \in [Workers -> [Fds -> Conns \cup {Page, Free}]]
          /\ ready' \in [Workers -> SUBSET Fds]
          /\ alive' \in [Workers -> BOOLEAN]
          /\ peer' \in [Conns -> {"open", "ended", "reset", "gone"}]
          /\ asPage' \subseteq Conns
          /\ c \in Conns
      BY <1>2, ServeEffect, ServeKinds, PeerEffect, AsPageEffect DEF PeerTold
    <2>2. inbox' \in [Conns -> Seq(Segment)]
      BY <2>1 DEF TypeOK
    <2>3. SUFFICES /\ last' \in [Conns -> Taken \cup {NULL}]
                   /\ answer' \in [Conns -> Answers \cup {NULL}]
                   /\ given' \subseteq Workers \X Seq(Segment) \X Answers
                   /\ cache' \in [Workers -> SUBSET (Seq(Segment) \X Answers)]
                   /\ forgets' \in 0 .. MaxForgets /\ atEnd' \in BOOLEAN
      BY <2>1, <2>2 DEF TypeOK
    <2>4. CASE ReadNothing(w, fd)
      BY <2>4 DEF ReadNothing, story, TypeOK
    <2>5. CASE ReadEnd(w, fd)
      <3>1. /\ last' \in [Conns -> Taken \cup {NULL}]
            /\ answer' \in [Conns -> Answers \cup {NULL}]
        <4>1. CASE t = <<>>
          BY <2>5, <4>1 DEF ReadEnd, TypeOK
        <4>2. CASE t # <<>>
          <5>1. Told(c, t, NULL)
            BY <2>5, <4>2 DEF ReadEnd
          <5> QED
            BY <2>1, <4>2, <5>1, ToldType
        <4> QED
          BY <4>1, <4>2
      <3> QED
        BY <2>5, <3>1 DEF ReadEnd, TypeOK
    <2>6. CASE t # <<>> /\ Die(w, fd)
      <3>1. Told(c, t, NULL)
        BY <2>6 DEF Die
      <3>2. /\ last' \in [Conns -> Taken \cup {NULL}]
            /\ answer' \in [Conns -> Answers \cup {NULL}]
        BY <2>1, <2>6, <3>1, ToldType
      <3> QED
        BY <2>6, <3>2 DEF Die, TypeOK
    <2>7. ASSUME NEW a \in Answers, NEW gone \in SUBSET Fds, t # <<>>,
                 Answered(w, fd, a, gone)
          PROVE  /\ last' \in [Conns -> Taken \cup {NULL}]
                 /\ answer' \in [Conns -> Answers \cup {NULL}]
                 /\ given' \subseteq Workers \X Seq(Segment) \X Answers
                 /\ cache' \in [Workers -> SUBSET (Seq(Segment) \X Answers)]
                 /\ forgets' \in 0 .. MaxForgets /\ atEnd' \in BOOLEAN
      <3>1. Told(c, t, a)
        BY <2>7 DEF Answered, Answer
      <3>2. /\ last' \in [Conns -> Taken \cup {NULL}]
            /\ answer' \in [Conns -> Answers \cup {NULL}]
        BY <2>1, <2>7, <3>1, ToldType
      <3>3. <<t, a>> \in Seq(Segment) \X Answers
            /\ <<w, t, a>> \in Workers \X Seq(Segment) \X Answers
        BY <2>1 DEF TypeOK
      <3>4. given' \subseteq Workers \X Seq(Segment) \X Answers
        BY <2>7, <3>3 DEF Answered, Answer, TypeOK
      <3>5. cache' \in [Workers -> SUBSET (Seq(Segment) \X Answers)]
        <4>1. CASE cache' = cache
          BY <4>1 DEF TypeOK
        <4>2. CASE Kept(w, t, a)
          <5>1. PICK kept \in SUBSET cache[w] : cache' = [cache EXCEPT ![w] = kept \cup {<<t, a>>}]
            BY <4>2 DEF Kept
          <5>2. kept \cup {<<t, a>>} \in SUBSET (Seq(Segment) \X Answers)
            BY <3>3, <5>1 DEF TypeOK
          <5> QED
            BY <5>1, <5>2 DEF TypeOK
        <4> QED
          BY <2>7, <4>1, <4>2 DEF Answered
      <3> QED
        BY <2>7, <3>2, <3>4, <3>5 DEF Answered
    <2> QED
      BY <1>2, <2>4, <2>5, <2>6, <2>7, ServeKinds
  <1>3. ASSUME NEW c \in Conns, NEW r \in Requests, NEW part \in {"whole", "head", "rest"},
               Arrive(c, r, part), half' \in [Conns -> Requests \cup {NULL}]
        PROVE  TypeOK'
    <2>1. [req |-> r, part |-> part] \in Segment
      BY DEF Segment
    <2>2. inbox' \in [Conns -> Seq(Segment)]
      <3>1. Append(inbox[c], [req |-> r, part |-> part]) \in Seq(Segment)
        BY <2>1 DEF TypeOK
      <3> QED
        BY <1>3, <3>1 DEF Arrive, TypeOK
    <2>3. ready' \in [Workers -> SUBSET Fds]
      BY <1>3 DEF Arrive, Edge, TypeOK
    <2>4. sends' \in 0 .. MaxSends
      BY <1>3, WorkerIOAssumption DEF Arrive, TypeOK
    <2> QED
      BY <1>3, <2>2, <2>3, <2>4 DEF Arrive, site, story, TypeOK
  <1>4. ASSUME NEW c \in Conns, NEW r \in Requests, Send(c, r) \/ SendHead(c, r)
        PROVE  TypeOK'
    <2>1. half' \in [Conns -> Requests \cup {NULL}]
      BY <1>4 DEF Send, SendHead, TypeOK
    <2> QED
      BY <1>3, <1>4, <2>1 DEF Send, SendHead
  <1>5. ASSUME NEW c \in Conns, SendRest(c)
        PROVE  TypeOK'
    <2>1. half[c] \in Requests /\ half' \in [Conns -> Requests \cup {NULL}]
      BY <1>5 DEF SendRest, TypeOK
    <2> QED
      BY <1>3, <1>5, <2>1 DEF SendRest
  <1>6. ASSUME NEW c \in Conns, End(c)
        PROVE  TypeOK'
    <2>1. inbox' \in [Conns -> Seq(Segment)] /\ peer' \in [Conns -> {"open", "ended", "reset", "gone"}]
      <3>1. <<>> \in Seq(Segment)
        OBVIOUS
      <3>2. inbox' = inbox \/ inbox' = [inbox EXCEPT ![c] = <<>>]
        BY <1>6 DEF End
      <3>3. \E q \in {"ended", "reset"} : peer' = [peer EXCEPT ![c] = q]
        BY <1>6 DEF End
      <3> QED
        BY <3>1, <3>2, <3>3 DEF TypeOK
    <2>2. ready' \in [Workers -> SUBSET Fds]
      BY <1>6 DEF End, Edge, TypeOK
    <2> QED
      BY <1>6, <2>1, <2>2 DEF End, site, story, TypeOK
  <1>7. ASSUME NEW p \in Paths, Edit(p)
        PROVE  TypeOK'
    <2>1. PICK v \in {Directory, 0, edits + 2} : www' = [www EXCEPT ![p] = v]
      BY <1>7 DEF Edit
    <2>2. v \in Directory .. MaxEdits + 1 /\ edits' \in 0 .. MaxEdits
      BY <1>7, <2>1, WorkerIOAssumption DEF Edit, Directory, TypeOK
    <2>3. www' \in [Paths -> Directory .. MaxEdits + 1]
      BY <2>1, <2>2 DEF TypeOK
    <2> QED
      BY <1>7, <2>2, <2>3 DEF Edit, input, story, TypeOK
  <1> QED
    BY <1>1, <1>2, <1>4, <1>5, <1>6, <1>7 DEF Next

----------------------------------------------------------------------------
(* The theorems.                                                           *)

LEMMA IInvHolds == Spec => []IInv
  <1>1. Init => IInv
    <2> SUFFICES ASSUME Init PROVE IInv
      OBVIOUS
    <2>1. TypeOK
      <3>1. www \in [Paths -> Directory .. MaxEdits + 1]
        <4>1. {0, 1} \subseteq Directory .. MaxEdits + 1
          BY WorkerIOAssumption DEF Directory
        <4> QED
          BY <4>1 DEF Init
      <3>2. cache \in [Workers -> SUBSET (Seq(Segment) \X Answers)] /\ given = {}
        BY DEF Init
      <3>3. inbox \in [Conns -> Seq(Segment)]
        BY DEF Init
      <3>4. /\ alive \in [Workers -> BOOLEAN] /\ ready \in [Workers -> SUBSET Fds]
            /\ file \in [Workers -> [Fds -> Conns \cup {Page, Free}]]
        BY DEF Init
      <3>5. /\ half \in [Conns -> Requests \cup {NULL}]
            /\ peer \in [Conns -> {"open", "ended", "reset", "gone"}]
            /\ home \in [Conns -> Workers \cup {NULL}]
            /\ last \in [Conns -> Taken \cup {NULL}]
            /\ answer \in [Conns -> Answers \cup {NULL}]
        BY DEF Init
      <3>6. /\ sends \in 0 .. MaxSends /\ edits \in 0 .. MaxEdits
            /\ forgets \in 0 .. MaxForgets
        <4>1. MaxSends \in Nat /\ MaxEdits \in Nat /\ MaxForgets \in Nat
          BY WorkerIOAssumption
        <4>2. sends = 0 /\ edits = 0 /\ forgets = 0
          BY DEF Init
        <4> QED
          BY <4>1, <4>2
      <3>7. atEnd \in BOOLEAN /\ asPage \subseteq Conns
        BY DEF Init
      <3> QED
        BY <3>1, <3>2, <3>3, <3>4, <3>5, <3>6, <3>7 DEF TypeOK
    <2>2. \A w \in Workers, fd \in Fds : file[w][fd] \notin Conns
      BY WorkerIOAssumption DEF Init
    <2>3. Remembered /\ FirstAccepted /\ ClosesAsAsked
      BY DEF Init, Remembered, FirstAccepted, ClosesAsAsked
    <2> QED
      BY <2>1, <2>2, <2>3 DEF IInv, Owned, UnreadIsAnnounced
  <1>2. IInv /\ Next => IInv'
    BY TypeStep, OwnedStep, RememberedStep, AcceptedStep, UnreadStep, ClosesStep DEF IInv
  <1>3. IInv /\ UNCHANGED vars => IInv'
    BY DEF IInv, vars, site, input, story, TypeOK, Owned, Remembered, FirstAccepted,
           UnreadIsAnnounced, Unread, ClosesAsAsked, Held
  <1> QED
    BY <1>1, <1>2, <1>3, PTL DEF Spec

\* The variables stay of their types; answers are answers.
THEOREM TypeOKHolds == Spec => []TypeOK
  BY IInvHolds, PTL DEF IInv

\* Nothing that a client has sent lies unread without an event, and no end or
\* reset of a connection goes unnoticed: the poller's edges are enough for a
\* worker that reads until there is no more (file_read_nonblock, poller_addfd).
THEOREM UnreadIsAnnouncedHolds == Spec => []UnreadIsAnnounced
  BY IInvHolds, PTL DEF IInv

\* Connections are closed and kept as the last request that was read whole
\* asked for (process.cc:310), with the exceptions of ClosesAsAsked: the
\* client had ended, the header was lost, or the connection itself was closed
\* as the 404 page.
THEOREM ClosesAsAskedHolds == Spec => []ClosesAsAsked
  BY IInvHolds, PTL DEF IInv

\* An answer is right when it is given for the first time, or foreign (see
\* RightAnswers).
THEOREM RightAnswersHolds == Spec => RightAnswers
  <1>1. IInv /\ [Next]_vars =>
           [\A g \in given' \ given :
              LET p == g[2][1].req.path IN
              \/ g[3] = IF www[p] = 0 THEN Page ELSE <<p, www[p]>>
              \/ g[3] = Foreign /\ file[g[1]][PageFd] \in Conns]_vars
    <2> SUFFICES ASSUME IInv, Next, NEW g \in given' \ given
                 PROVE  LET p == g[2][1].req.path IN
                        \/ g[3] = IF www[p] = 0 THEN Page ELSE <<p, www[p]>>
                        \/ g[3] = Foreign /\ file[g[1]][PageFd] \in Conns
      OBVIOUS
    <2>1. PICK w \in Workers, fd \in Fds : Serve(w, fd)
      BY OthersEffect DEF story, Accept
    <2>2. CASE ReadNothing(w, fd)
      BY <2>2 DEF ReadNothing, story
    <2>3. CASE ReadEnd(w, fd)
      BY <2>3 DEF ReadEnd
    <2>4. CASE Die(w, fd)
      BY <2>4 DEF Die
    <2>5. ASSUME NEW a, NEW gone, Answered(w, fd, a, gone)
          PROVE  g = <<w, inbox[file[w][fd]], a>> /\ Fair(w, inbox[file[w][fd]], a)
      BY <2>5 DEF Answered, Answer
    <2>6. CASE \E a \in Answers, gone \in SUBSET Fds : Answered(w, fd, a, gone)
      <3>1. PICK a \in Answers :
               g = <<w, inbox[file[w][fd]], a>> /\ Fair(w, inbox[file[w][fd]], a)
        BY <2>5, <2>6
      <3>2. g[1] = w /\ g[2] = inbox[file[w][fd]] /\ g[3] = a
        BY <3>1
      <3> QED
        BY <3>1, <3>2 DEF Fair
    <2> QED
      BY <2>1, <2>2, <2>3, <2>4, <2>6, ServeKinds DEF IInv
  <1> QED
    BY <1>1, IInvHolds, PTL DEF Spec, RightAnswers

\* A request that was read whole from a client that is still there is
\* answered, unless it comes behind another one, is malformed, names a
\* directory, or needs the page after it was sent or lost its descriptor (see
\* ReadIsAnswered).
THEOREM ReadIsAnsweredHolds == Spec => ReadIsAnswered
  <1>1. IInv /\ [Next]_vars =>
           [\A c \in Conns : inbox'[c] = <<>> /\ peer'[c] # "reset" =>
              \A i \in DOMAIN inbox[c] :
                 LET r == inbox[c][i].req IN
                 \/ i > 1
                 \/ answer'[c] # NULL
                 \/ peer[c] = "ended"
                 \/ ~IsWhole(inbox[c])
                 \/ r.form # "sound"
                 \/ www[r.path] = Directory
                 \/ www[r.path] = 0 /\ (atEnd \/ file[home[c]][PageFd] # Page)]_vars
    <2> SUFFICES ASSUME IInv, Next, NEW c \in Conns,
                        inbox'[c] = <<>>, peer'[c] # "reset",
                        NEW i \in DOMAIN inbox[c], ~(i > 1)
                 PROVE  LET r == inbox[c][i].req IN
                        \/ answer'[c] # NULL
                        \/ peer[c] = "ended"
                        \/ ~IsWhole(inbox[c])
                        \/ r.form # "sound"
                        \/ www[r.path] = Directory
                        \/ www[r.path] = 0 /\ (atEnd \/ file[home[c]][PageFd] # Page)
      OBVIOUS
    <2>1. TypeOK /\ Owned /\ Remembered
      BY DEF IInv
    <2>2. i = 1 /\ inbox[c] # <<>>
      <3>1. inbox[c] \in Seq(Segment)
        BY <2>1 DEF TypeOK
      <3>2. i \in 1 .. Len(inbox[c]) /\ Len(inbox[c]) \in Nat
        BY <3>1
      <3>3. i = 1 /\ Len(inbox[c]) # 0
        BY <3>2
      <3> QED
        BY <3>1, <3>3
    <2>3. PICK w \in Workers, fd \in Fds : Serve(w, fd)
      <3>1. ASSUME NEW d \in Conns, NEW r \in Requests,
                   NEW part \in {"whole", "head", "rest"}, Arrive(d, r, part)
            PROVE  inbox'[c] # <<>>
        <4>1. inbox' = [inbox EXCEPT ![d] = Append(@, [req |-> r, part |-> part])]
          BY <3>1 DEF Arrive
        <4>2. inbox \in [Conns -> Seq(Segment)]
          BY <2>1 DEF TypeOK
        <4>3. PICK e \in Segment : e = [req |-> r, part |-> part]
          BY DEF Segment
        <4>4. inbox[d] \in Seq(Segment)
          BY <4>2
        <4>5. Append(inbox[d], e) # <<>>
          BY <4>4
        <4> QED
          BY <2>2, <4>1, <4>2, <4>3, <4>5
      <3>2. ASSUME NEW d \in Conns, End(d)
            PROVE  FALSE
        BY <2>1, <2>2, <3>2 DEF End, TypeOK
      <3>3. ASSUME NEW d \in Conns, SendRest(d)
            PROVE  inbox'[c] # <<>>
        <4>1. half[d] \in Requests /\ Arrive(d, half[d], "rest")
          BY <2>1, <3>3 DEF SendRest, TypeOK
        <4> QED
          BY <3>1, <4>1
      <3>4. ASSUME NEW d \in Conns, NEW r \in Requests, Send(d, r) \/ SendHead(d, r)
            PROVE  inbox'[c] # <<>>
        BY <3>1, <3>4 DEF Send, SendHead
      <3> QED
        BY <2>2, <3>2, <3>3, <3>4 DEF Next, Edit, Accept, input
    <2>4. file[w][fd] \in Conns /\ inbox' = [inbox EXCEPT ![file[w][fd]] = <<>>]
      BY <2>1, <2>3, ServeKinds, ServeEffect
    <2>5. c = file[w][fd] /\ home[c] = w
      <3>1. c = file[w][fd]
        BY <2>1, <2>2, <2>4 DEF TypeOK
      <3> QED
        BY <2>1, <2>4, <3>1 DEF Owned
    <2>6. CASE ReadNothing(w, fd)
      BY <2>2, <2>5, <2>6 DEF ReadNothing
    <2>7. CASE ReadEnd(w, fd)
      BY <2>5, <2>7 DEF ReadEnd
    <2>8. CASE Die(w, fd) /\ Excused(w, inbox[c])
      BY <2>2, <2>5, <2>8 DEF Excused
    <2>9. ASSUME NEW a \in Answers, NEW gone \in SUBSET Fds, Answered(w, fd, a, gone)
          PROVE  answer'[c] # NULL
      <3>1. Told(c, inbox[c], a)
        BY <2>5, <2>9 DEF Answered, Answer
      <3>2. answer'[c] = a
        BY <2>1, <2>2, <3>1, ToldType
      <3> QED
        BY <3>2, WorkerIOAssumption
    <2> QED
      BY <2>1, <2>3, <2>5, <2>6, <2>7, <2>8, <2>9, ServeKinds
  <1> QED
    BY <1>1, IInvHolds, PTL DEF Spec, ReadIsAnswered

\* Every worker asks and fills its cache as AnswerCache allows, whose contract
\* the cache of lru.cc keeps (LruProofs): a request is stored only when it is
\* missing, with the answer that its client got (process, process.cc:297).
THEOREM CachesHold == ASSUME NEW w \in Workers PROVE Spec => Memory(w)!Spec
  <1>1. Init => Memory(w)!Init
    BY DEF Init, Memory!Init
  <1>2. IInv /\ [Next]_vars => [Memory(w)!Next]_(cache[w])
    <2> SUFFICES ASSUME IInv, Next, cache[w]' # cache[w] PROVE Memory(w)!Next
      BY DEF vars
    <2>1. TypeOK /\ Remembered
      BY DEF IInv
    <2>2. PICK v \in Workers, fd \in Fds : Serve(v, fd)
      BY OthersEffect DEF Accept
    <2>3. PICK a \in Answers, gone \in SUBSET Fds :
             inbox[file[v][fd]] # <<>> /\ Answered(v, fd, a, gone)
      BY <2>1, <2>2, ServeKinds DEF ReadNothing, ReadEnd, Die
    <2>4. PICK t : t = inbox[file[v][fd]]
      OBVIOUS
    <2>5. t \in Seq(Segment) /\ Missed(v, t) /\ Kept(v, t, a)
      <3>1. file[v][fd] \in Conns
        BY <2>1, <2>2, ServeKinds
      <3> QED
        BY <2>1, <2>3, <2>4, <3>1 DEF Answered, TypeOK
    <2>6. PICK kept \in SUBSET cache[v] :
             cache' = [cache EXCEPT ![v] = kept \cup {<<t, a>>}]
      BY <2>5 DEF Kept
    <2>7. v = w /\ cache[w]' = kept \cup {<<t, a>>}
      BY <2>1, <2>6 DEF TypeOK
    <2>8. PICK e : e = <<t, a>>
      OBVIOUS
    <2>9. e \in cache[w]' /\ e \in Seq(Segment) \X Answers
      BY <2>5, <2>7, <2>8
    <2>10. Memory(w)!Missing(cache[w], e[1])
      BY <2>5, <2>7, <2>8 DEF Missed
    <2>11. cache[w]' \in Memory(w)!Stored(cache[w], e[1], e[2])
      BY <2>6, <2>7, <2>8 DEF Memory!Stored
    <2> QED
      BY <2>9, <2>10, <2>11 DEF Memory!Next
  <1> QED
    BY <1>1, <1>2, IInvHolds, PTL DEF Spec, Memory!Spec
=============================================================================
