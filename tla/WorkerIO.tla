------------------------------ MODULE WorkerIO ------------------------------
(***************************************************************************)
(* What the workers of ehp read and write: the branch of                   *)
(* prspool_run_worker for a readable connection (src/src/process.cc:283)   *)
(* with file_read_nonblock (file.cc), http_req_new, http_rsp_from_file and *)
(* http_rsp_text (http.cc), and the cache by what AnswerCache.tla says.    *)
(*                                                                         *)
(* A worker reads a connection empty and answers the first request of what *)
(* it read.  The 404 page is a response like any other, but there is one   *)
(* for all: http_init opens its file before the workers are forked, so     *)
(* that they share the position in it, and each has a descriptor of it.    *)
(*                                                                         *)
(* An answer is what is handed to write(), whose result the code ignores.  *)
(* Connections that timers close are the matter of Worker.tla.             *)
(***************************************************************************)
EXTENDS Integers, Sequences

CONSTANTS
    Workers, Conns, Paths,
    Requests,   \* the requests clients send
    NFds,       \* descriptors of a worker for the page and connections
    Page,       \* the 404 page and its file
    Free,       \* a descriptor that is free
    Foreign,    \* an answer with another connection's data for a body
    NULL,
    Torn,       \* the requests that may arrive in two parts
    MaxSends,   \* bound on segments sent
    MaxEdits,   \* bound on edits of the site
    MaxForgets  \* bound on how often one of the caches drops entries

\* `grown': a thirteenth header follows the header "Connection", so that the
\* map of headers has grown since (and is empty then, see MapTable.tla).
\* `form': the first line or its target is not what a regular expression
\* wants, or the last header has no colon.
Request == [path : Paths, version : {"HTTP/1.0", "HTTP/1.1"},
            connection : {"close", "keep-alive", "none"}, grown : BOOLEAN,
            form : {"sound", "nomatch", "nocolon"}]

Fds     == 0 .. NFds - 1
PageFd  == 0   \* http_rsp_404->bodyfd, which is older than all connections
Directory == -1
Segment == [req : Requests, part : {"whole", "head", "rest"}]
Answers == (Paths \X (1 .. MaxEdits + 1)) \cup {Page, Foreign}
Taken   == [req : Requests, whole : BOOLEAN]

ASSUME WorkerIOAssumption ==
    /\ Requests \subseteq Request /\ Torn \subseteq Requests
    /\ NULL \notin Requests \cup Workers \cup Answers \cup Taken
    /\ NFds \in Nat \ {0}
    /\ MaxSends \in Nat /\ MaxEdits \in Nat /\ MaxForgets \in Nat
    /\ Page \notin Conns /\ Free \notin Conns /\ Page # Free

VARIABLES
    alive, file, ready, cache,   \* of each worker
    atEnd,      \* whether the page has been read to its end
    www,        \* the version of the file at each path, 0 if there is none,
                \* or a directory
    inbox,      \* the segments of each connection that nobody has read yet
    half,       \* the request each client has sent the first part of
    peer,       \* whether a client may send more, has ended, or has reset,
                \* and if read() has told of that, is gone
    home,       \* the worker that accepted each connection
    sends, edits, forgets,
    last,       \* history: the first request of what was last read, and
                \* whether the whole of it was
    answer,     \* history: the answer that it got
    given,      \* history: who answered what with what
    asPage      \* history: the connections whose descriptor was closed for
                \* the page's

site  == <<www, edits>>
input == <<inbox, half, peer, sends>>
story == <<last, answer, given, asPage>>
vars  == <<alive, file, ready, cache, forgets, atEnd, site, input, home, story>>

Held(c) == \E w \in Workers, fd \in Fds : file[w][fd] = c

----------------------------------------------------------------------------
(* Clients, and whoever edits the site.                                    *)

\* Something new to read is an edge for the worker that polls c.
Edge(c) ==
    ready' = [w \in Workers |-> ready[w] \cup {fd \in Fds : file[w][fd] = c}]

Arrive(c, r, part) ==
    /\ peer[c] = "open"
    /\ sends < MaxSends
    /\ sends' = sends + 1
    /\ inbox' = [inbox EXCEPT ![c] = Append(@, [req |-> r, part |-> part])]
    /\ Edge(c)
    /\ UNCHANGED <<alive, file, cache, forgets, atEnd, site, peer, home, story>>

Send(c, r) ==
    /\ half[c] = NULL
    /\ Arrive(c, r, "whole")
    /\ UNCHANGED half

SendHead(c, r) ==
    /\ r \in Torn
    /\ half[c] = NULL
    /\ Arrive(c, r, "head")
    /\ half' = [half EXCEPT ![c] = r]

SendRest(c) ==
    /\ half[c] # NULL
    /\ Arrive(c, half[c], "rest")
    /\ half' = [half EXCEPT ![c] = NULL]

\* The client closes its side, or the connection breaks and what nobody has
\* read is gone.
End(c) ==
    /\ peer[c] = "open"
    /\ \/ /\ peer' = [peer EXCEPT ![c] = "ended"]
          /\ UNCHANGED inbox
       \/ /\ peer' = [peer EXCEPT ![c] = "reset"]
          /\ inbox' = [inbox EXCEPT ![c] = <<>>]
    /\ Edge(c)
    /\ UNCHANGED <<alive, file, cache, forgets, atEnd, site, half, sends, home, story>>

\* A file is replaced by a new version or by a directory, or removed.
Edit(p) ==
    /\ edits < MaxEdits
    /\ edits' = edits + 1
    /\ \E v \in {Directory, 0, edits + 2} : www' = [www EXCEPT ![p] = v]
    /\ UNCHANGED <<alive, file, ready, cache, forgets, atEnd, input, home, story>>

----------------------------------------------------------------------------
(* The worker.                                                             *)

\* Mutant of Accept: an end that came before is not reported.
AcceptDeaf(w, c) ==
    /\ alive[w]
    /\ home[c] = NULL
    /\ home' = [home EXCEPT ![c] = w]
    /\ \E fd \in Fds :
          /\ file[w][fd] = Free
          /\ \A e \in 0 .. fd - 1 : file[w][e] # Free
          /\ file' = [file EXCEPT ![w][fd] = c]
          /\ ready' = IF inbox[c] # <<>>
                      THEN [ready EXCEPT ![w] = @ \cup {fd}] ELSE ready
    /\ UNCHANGED <<alive, cache, forgets, atEnd, site, input, story>>

\* accept() returns the lowest free descriptor, the page's one too once it is
\* closed; poller_addfd reports what has arrived before.
Accept(w, c) ==
    /\ alive[w]
    /\ home[c] = NULL
    /\ home' = [home EXCEPT ![c] = w]
    /\ \E fd \in Fds :
          /\ file[w][fd] = Free
          /\ \A e \in 0 .. fd - 1 : file[w][e] # Free
          /\ file' = [file EXCEPT ![w][fd] = c]
          /\ ready' = IF inbox[c] # <<>> \/ peer[c] # "open"
                      THEN [ready EXCEPT ![w] = @ \cup {fd}] ELSE ready
    /\ UNCHANGED <<alive, cache, forgets, atEnd, site, input, story>>

\* The whole of the first request was read, and nothing behind it.
IsWhole(t) == t[1].part = "whole" \/ (Len(t) > 1 /\ t[1].part = "head")
Alone(t)   == Len(t) = IF t[1].part = "head" THEN 2 ELSE 1

\* http_req_new makes a request of it: it starts with one, of which the first
\* line matches.  A header without a colon is passed over if one is found in
\* what follows.  Of a first part without the second it makes a request only
\* if it was torn between two lines.
Parses(t) ==
    /\ t # <<>> /\ t[1].part # "rest"
    /\ t[1].req.form = "sound" \/ (t[1].req.form = "nocolon" /\ ~Alone(t))

\* The header "Connection" as the worker finds it.
Seen(t) ==
    IF t[1].req.grown THEN {"none"}
    ELSE IF IsWhole(t) THEN {t[1].req.connection}
    ELSE {t[1].req.connection, "none"}

\* Mutant of Closes: HTTP/1.1 has to ask for what is its default.
ClosesUnlessKept(version, connection) == connection # "keep-alive"

\* process.cc:310
Closes(version, connection) ==
    \/ version = "HTTP/1.1" /\ connection = "close"
    \/ version # "HTTP/1.1" /\ connection # "keep-alive"

\* Mutant of Read: one read(), of one segment.
ReadOnce(w, fd) ==
    /\ inbox' = [inbox EXCEPT ![file[w][fd]] = SubSeq(@, 2, Len(@))]
    /\ UNCHANGED <<site, half, sends, home>>

\* What is there is read.
Read(w, fd) ==
    /\ inbox' = [inbox EXCEPT ![file[w][fd]] = <<>>]
    /\ UNCHANGED <<site, half, sends, home>>

Told(c, t, a) ==
    /\ last' = [last EXCEPT ![c] = [req |-> t[1].req, whole |-> IsWhole(t)]]
    /\ answer' = [answer EXCEPT ![c] = a]

\* There is nothing to read, or the connection was reset: read() fails, which
\* it says once, and the connection is not closed.
ReadNothing(w, fd) ==
    LET c == file[w][fd] IN
    /\ Read(w, fd)
    /\ inbox[c] = <<>> /\ peer[c] # "ended"
    /\ peer' = [peer EXCEPT ![c] = IF @ = "reset" THEN "gone" ELSE @]
    /\ ready' = [ready EXCEPT ![w] = @ \ {fd}]
    /\ UNCHANGED <<alive, file, cache, forgets, atEnd, story>>

\* file_read_nonblock meets the end: the connection is closed, and what came
\* before the end has length 0.
ReadEnd(w, fd) ==
    LET c == file[w][fd] IN
    /\ Read(w, fd)
    /\ peer[c] = "ended"
    /\ ready' = [ready EXCEPT ![w] = @ \ {fd}]
    /\ file' = [file EXCEPT ![w][fd] = Free]
    /\ IF inbox[c] = <<>> THEN UNCHANGED <<last, answer>>
                          ELSE Told(c, inbox[c], NULL)
    /\ UNCHANGED <<alive, cache, forgets, atEnd, peer, given, asPage>>

\* A null pointer is followed: the worker ends, and its descriptors with it.
Die(w, fd) ==
    LET c == file[w][fd] IN
    /\ Read(w, fd)
    /\ alive' = [alive EXCEPT ![w] = FALSE]
    /\ file' = [file EXCEPT ![w] = [e \in Fds |-> Free]]
    /\ ready' = [ready EXCEPT ![w] = {}]
    /\ Told(c, inbox[c], NULL)
    /\ UNCHANGED <<cache, forgets, atEnd, peer, given, asPage>>

\* What http_req_new makes nothing of, or only a part; or it follows a null
\* pointer itself, for a colon that is nowhere in the text.
ServeUnparsable(w, fd) ==
    LET c == file[w][fd] IN
    /\ peer[c] = "open" /\ inbox[c] # <<>>
    /\ \/ ~Parses(inbox[c])
       \/ ~IsWhole(inbox[c])
       \/ inbox[c][1].req.form = "nocolon"
    /\ Die(w, fd)

\* Answer a is written, and the connection closed or kept.  `gone' are the
\* descriptors closed on the way.
Answer(w, fd, a, gone) ==
    LET c == file[w][fd]
        t == inbox[c]
    IN  /\ Read(w, fd)
        /\ peer[c] = "open" /\ Parses(t)
        /\ \E conn \in Seen(t) :
              LET closed == gone \cup {e \in {fd} : Closes(t[1].req.version, conn)}
              IN  file' = [file EXCEPT ![w] =
                             [e \in Fds |-> IF e \in closed THEN Free ELSE @[e]]]
        /\ ready' = [ready EXCEPT ![w] = (@ \ gone) \ {fd}]
        /\ Told(c, t, a)
        /\ given' = given \cup {<<w, t, a>>}
        /\ asPage' = asPage \cup ({file[w][e] : e \in gone} \cap Conns)
        /\ UNCHANGED <<alive, peer>>

\* The cache of a worker: texts with what was answered to them.
Memory(w) == INSTANCE AnswerCache WITH
    Keys <- Seq(Segment), Values <- Answers, pairs <- cache[w]

\* lru_set, which may release any others.
Store(w, t, a) ==
    \E known \in Memory(w)!Stored(cache[w], t, a) :
        /\ cache' = [cache EXCEPT ![w] = known]
        /\ \/ cache[w] \subseteq known /\ UNCHANGED forgets
           \/ /\ ~(cache[w] \subseteq known)
              /\ forgets < MaxForgets
              /\ forgets' = forgets + 1

Missed(w, t) == Memory(w)!Missing(cache[w], t)

\* Mutant of ServeCached: the cache is asked for the path.
CachedPath(w, fd) ==
    /\ inbox[file[w][fd]] # <<>>
    /\ \E e \in cache[w] :
          /\ e[1][1].req.path = inbox[file[w][fd]][1].req.path
          /\ Answer(w, fd, e[2], {})
    /\ UNCHANGED <<cache, forgets, atEnd>>

ServeCached(w, fd) ==
    /\ \E e \in cache[w] : e[1] = inbox[file[w][fd]] /\ Answer(w, fd, e[2], {})
    /\ UNCHANGED <<cache, forgets, atEnd>>

\* http_rsp_from_file finds a file; http_rsp_text reads and closes it.
ServeFile(w, fd) ==
    LET t == inbox[file[w][fd]]
        p == t[1].req.path
    IN  /\ Answer(w, fd, <<p, www[p]>>, {})
        /\ Missed(w, t)
        /\ www[p] > 0
        /\ Store(w, t, <<p, www[p]>>)
        /\ UNCHANGED atEnd

\* A directory is opened as well, and has a size, but read() fails.
ServeDirectory(w, fd) ==
    LET c == file[w][fd] IN
    /\ peer[c] = "open"
    /\ Parses(inbox[c]) /\ Missed(w, inbox[c])
    /\ www[inbox[c][1].req.path] = Directory
    /\ Die(w, fd)

\* Mutant of NoFile: no path names a file.
NoFileAtAll(w, t) == Parses(t) /\ Missed(w, t)

NoFile(w, t) == Parses(t) /\ Missed(w, t) /\ www[t[1].req.path] = 0

\* The first 404 of all workers: the page is read to its end, and closed.
ServePage(w, fd) ==
    LET t == inbox[file[w][fd]] IN
    /\ NoFile(w, t)
    /\ file[w][PageFd] = Page /\ ~atEnd
    /\ Answer(w, fd, Page, {PageFd})
    /\ Store(w, t, Page)
    /\ atEnd' = TRUE

\* A later one, in a worker that gave the page's descriptor to a connection:
\* enough of what that has sent is taken for the page, and it is closed.
ServeForeign(w, fd) ==
    LET t == inbox[file[w][fd]]
        d == file[w][PageFd]
    IN  /\ NoFile(w, t)
        /\ d \in Conns \ {file[w][fd]}
        /\ inbox[d] # <<>>
        /\ Answer(w, fd, Foreign, {PageFd})
        /\ Store(w, t, Foreign)
        /\ UNCHANGED atEnd

\* Mutant of ServeNoPage: the null pointer is given out as an answer.
NullAnswered(w, fd) ==
    /\ NoFile(w, inbox[file[w][fd]])
    /\ ~(file[w][PageFd] = Page /\ ~atEnd)
    /\ Answer(w, fd, NULL, {})
    /\ UNCHANGED <<cache, forgets, atEnd>>

\* Otherwise read() returns less than the page's length, or fails, and
\* http_rsp_text returns a null pointer.
ServeNoPage(w, fd) ==
    LET c == file[w][fd] IN
    /\ peer[c] = "open"
    /\ NoFile(w, inbox[c])
    /\ ~(file[w][PageFd] = Page /\ ~atEnd)
    /\ Die(w, fd)

\* An event of descriptor fd is taken.
Serve(w, fd) ==
    /\ alive[w]
    /\ fd \in ready[w]
    /\ file[w][fd] \in Conns
    /\ \/ ReadNothing(w, fd)
       \/ ReadEnd(w, fd)
       \/ ServeUnparsable(w, fd)
       \/ ServeCached(w, fd)
       \/ ServeFile(w, fd)
       \/ ServeDirectory(w, fd)
       \/ ServePage(w, fd)
       \/ ServeForeign(w, fd)
       \/ ServeNoPage(w, fd)

Init ==
    /\ alive = [w \in Workers |-> TRUE]
    /\ file = [w \in Workers |->
                 [fd \in Fds |-> IF fd = PageFd THEN Page ELSE Free]]
    /\ ready = [w \in Workers |-> {}]
    /\ cache = [w \in Workers |-> {}]
    /\ atEnd = FALSE
    /\ www \in [Paths -> {0, 1}]
    /\ inbox = [c \in Conns |-> <<>>]
    /\ half = [c \in Conns |-> NULL]
    /\ peer = [c \in Conns |-> "open"]
    /\ home = [c \in Conns |-> NULL]
    /\ sends = 0 /\ edits = 0 /\ forgets = 0
    /\ last = [c \in Conns |-> NULL]
    /\ answer = [c \in Conns |-> NULL]
    /\ given = {}
    /\ asPage = {}

Next ==
    \/ \E c \in Conns, r \in Requests : Send(c, r) \/ SendHead(c, r)
    \/ \E c \in Conns : SendRest(c) \/ End(c)
    \/ \E p \in Paths : Edit(p)
    \/ \E w \in Workers, c \in Conns : Accept(w, c)
    \/ \E w \in Workers, fd \in Fds : Serve(w, fd)

Spec == Init /\ [][Next]_vars

----------------------------------------------------------------------------
(* Properties.                                                             *)

TypeOK ==
    /\ alive \in [Workers -> BOOLEAN]
    /\ file \in [Workers -> [Fds -> Conns \cup {Page, Free}]]
    /\ ready \in [Workers -> SUBSET Fds]
    /\ cache \in [Workers -> SUBSET (Seq(Segment) \X Answers)]
    /\ atEnd \in BOOLEAN
    /\ www \in [Paths -> Directory .. MaxEdits + 1]
    /\ inbox \in [Conns -> Seq(Segment)]
    /\ half \in [Conns -> Requests \cup {NULL}]
    /\ peer \in [Conns -> {"open", "ended", "reset", "gone"}]
    /\ home \in [Conns -> Workers \cup {NULL}]
    /\ sends \in 0 .. MaxSends /\ edits \in 0 .. MaxEdits
    /\ forgets \in 0 .. MaxForgets
    /\ last \in [Conns -> Taken \cup {NULL}]
    /\ answer \in [Conns -> Answers \cup {NULL}]
    /\ given \subseteq Workers \X Seq(Segment) \X Answers
    /\ asPage \subseteq Conns

\* An answer is the file, or the page if there is none, as it is now; or it
\* is what the same worker answered to the same text before.  The exception
\* is a worker whose descriptor of the page belongs to a connection.
RightAnswers ==
    [][\A g \in given' \ given :
          LET p == g[2][1].req.path IN
          \/ g[3] = IF www[p] = 0 THEN Page ELSE <<p, www[p]>>
          \/ g[3] = Foreign /\ file[g[1]][PageFd] \in Conns]_vars

Unread(c) == inbox[c] # <<>> \/ peer[c] \in {"ended", "reset"}

\* Edges are enough: nothing a client has sent, and neither the end of a
\* connection nor a reset that read() has not told of yet, lies in a connection
\* without an event that is still to be taken.
UnreadIsAnnounced ==
    \A w \in Workers, fd \in Fds :
        LET c == file[w][fd] IN
        c \in Conns /\ Unread(c) => fd \in ready[w]

\* A connection is closed only if it had ended, or if the request asked for
\* it that was last read, or if it had itself the descriptor of the 404 page
\* and was closed in the page's place; and it is closed if that request asked
\* for it.  The exceptions are requests that are read in part, and those of
\* which the header is not found.
ClosesAsAsked ==
    \A c \in Conns : home[c] # NULL /\ alive[home[c]] /\ last[c] # NULL =>
        LET r     == last[c].req
            close == \/ r.version = "HTTP/1.1" /\ r.connection = "close"
                     \/ r.version = "HTTP/1.0" /\ r.connection # "keep-alive"
        IN  last[c].whole /\ ~r.grown =>
              /\ ~Held(c) => close \/ peer[c] = "ended" \/ c \in asPage
              /\ Held(c) => ~close

\* "404 page" (http.cc:29): a request for what is not there gets the page.
MissingGetsPage ==
    \A c \in Conns :
        last[c] # NULL /\ last[c].req.form = "sound" /\ www[last[c].req.path] = 0
            /\ peer[c] = "open" => answer[c] = Page

\* Every request in what is read is answered.  The exceptions are: it comes
\* behind another one in the same text; its client has ended; a part of it
\* was read; it has no first line that matches, or a header without a colon;
\* it names a directory; or it needs the 404 page and that has been sent or has
\* lost its descriptor.
ReadIsAnswered ==
    [][\A c \in Conns : inbox'[c] = <<>> /\ peer'[c] # "reset" =>
          \A i \in DOMAIN inbox[c] :
              LET r == inbox[c][i].req IN
              \/ i > 1
              \/ answer'[c] # NULL
              \/ peer[c] = "ended"
              \/ ~IsWhole(inbox[c])
              \/ r.form # "sound"
              \/ www[r.path] = Directory
              \/ www[r.path] = 0 /\ (atEnd \/ file[home[c]][PageFd] # Page)]_vars
=============================================================================
