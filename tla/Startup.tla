------------------------------- MODULE Startup -------------------------------
(***************************************************************************)
(* How ehp starts: main (src/src/main.cc) with args_init (args.cc),        *)
(* config_init (config.cc), log_init (log.cc), http_init (http.cc) and the *)
(* first lines of prspool_init (process.cc).  It ends with an exit status, *)
(* by a crash, or where the pool of Prspool.tla begins.                    *)
(***************************************************************************)
EXTENDS Integers, FiniteSetsExt, Sequences

CONSTANTS
    Inputs,        \* argument words and the configuration, see Init
    DefaultFile,   \* DEFAULT_CONFIG_FILE
    ConfigFiles,   \* the files there are, all with the same contents
    Keys, Values,  \* settings
    Numbers,       \* the values that are numbers, above zero, of workers there can be
    Worker, Root,  \* the keys "worker" and "www_root"
    Sites,         \* the values of Root that have a 404 page
    Cut,           \* a value without its first character
    NULL,
    Factor,        \* settings a new map takes before it grows
    LenWord        \* number of values of a len_t

\* A word is an option with a name, a group of letters, or anything else.
Name == {"help", "version", "daemon", "config", "debug", "other"}
Word == [kind : {"long"}, name : Name]
        \cup [kind : {"short"}, letters : Seq({"d", "c", "other"})]
        \cup [kind : {"plain"}]

\* What is between newlines: "key: value", "key:value", "key", a comment, or
\* nothing.  A file that ends in a newline has nothing as its last piece.
Setting == [kind : {"spaced", "tight", "bare"}, key : Keys, value : Values]
Nothing == [kind |-> "nothing"]
Piece   == Setting \cup [kind : {"comment", "nothing"}]

\* The pieces of a file are counted by an int (str_nsplit), which a len_t holds.
ASSUME StartupAssumption ==
    /\ \A in \in Inputs :
          in.argv \in Seq(Word) /\ in.file \in Seq(Piece) /\ Len(in.file) \in 1 .. LenWord
    /\ {Worker, Root} \subseteq Keys /\ Cut \notin Values /\ NULL \notin Values
    /\ Numbers \subseteq Values
    /\ Sites \subseteq Values \cup {Cut, NULL}
    /\ Factor \in Nat \ {0} /\ LenWord \in Nat \ {0}

VARIABLES
    pc,        \* args, config, log, http, pool, or how the start has ended
    argv, file,
    i,         \* the loop variable of args_init, then of config_init
    args,      \* the global arguments
    config,    \* the global config
    len,       \* config->len
    factor     \* config->factor

vars == <<pc, argv, file, i, args, config, len, factor>>

Init ==
    /\ pc = "args"
    /\ \E in \in Inputs : argv = in.argv /\ file = in.file
    /\ i = 1
    /\ args = [is_daemon |-> FALSE, is_debug |-> FALSE, config |-> DefaultFile]
    /\ config = [k \in Keys |-> NULL]
    /\ len = 0
    /\ factor = Factor

End(how) == pc' = how /\ UNCHANGED <<argv, file, i, args, config, len, factor>>

----------------------------------------------------------------------------
(* args_init.                                                              *)

Option(kind) == pc = "args" /\ i <= Len(argv) /\ argv[i].kind = kind

Taken(field, n) ==
    /\ args' = field
    /\ i' = i + n
    /\ UNCHANGED <<pc, argv, file, config, len, factor>>

\* Mutant of TakeFile: the file's name is taken for an option, too.
TakeFileTwice(a) ==
    IF i < Len(argv) THEN Taken([a EXCEPT !.config = argv[i + 1]], 1)
                     ELSE End("exit 1")

\* The next word is the path of the configuration.
TakeFile(a) ==
    IF i < Len(argv) THEN Taken([a EXCEPT !.config = argv[i + 1]], 2)
                     ELSE End("exit 1")

LongOption ==
    /\ Option("long")
    /\ LET name == argv[i].name IN
       \/ name \in {"help", "version"} /\ End("exit 0")
       \/ name = "daemon" /\ Taken([args EXCEPT !.is_daemon = TRUE], 1)
       \/ name = "debug" /\ Taken([args EXCEPT !.is_debug = TRUE], 1)
       \/ name = "config" /\ TakeFile(args)
       \/ name = "other" /\ End("exit 1")

\* The letters of a group, as far as the first that is not "d".  After a "c"
\* the rest of the group is passed over.
ShortOptions ==
    /\ Option("short")
    /\ LET letters == argv[i].letters
           others  == {j \in DOMAIN letters : letters[j] # "d"}
           seen(n) == [args EXCEPT !.is_daemon = @ \/ n > 0]
       IN  \/ others = {} /\ Taken(seen(Len(letters)), 1)
           \/ /\ others # {}
              /\ IF letters[Min(others)] = "c" THEN TakeFile(seen(Min(others) - 1))
                                               ELSE End("exit 1")

NoOption == Option("plain") /\ End("exit 1")

\* config_init opens the file.
OpenConfig ==
    /\ pc = "args" /\ i > Len(argv)
    /\ IF args.config \in ConfigFiles
       THEN pc' = "config" /\ i' = 0 /\ UNCHANGED <<argv, file, args, config, len, factor>>
       ELSE End("exit 1")

----------------------------------------------------------------------------
(* config_init.                                                            *)

\* Mutants of NLines: one line less, and one more.
NLinesLess == (Len(file) - 3) % LenWord
NLinesMore == (Len(file) - 1) % LenWord

\* An unsigned subtraction.  There are no two pieces in an empty file, and in
\* one without a newline.
NLines == (Len(file) - 2) % LenWord

\* What is beyond the array's length is zero, which is no string.
Line == IF i < Len(file) THEN file[i + 1] ELSE Nothing

\* From the second character after the colon to the end.
Value(line) ==
    IF line.kind = "spaced" THEN line.value
    ELSE IF line.kind = "tight" THEN Cut ELSE NULL

\* The first character of no string is asked for, or the length of no array,
\* which is what an empty file is split into.
ReadNothing ==
    /\ pc = "config" /\ i < NLines
    /\ Line.kind = "nothing"
    /\ End("crash")

\* Mutant of ReadComment: the loop stays at the line.
StayAtComment ==
    /\ pc = "config" /\ i < NLines
    /\ Line.kind = "comment"
    /\ UNCHANGED vars

ReadComment ==
    /\ pc = "config" /\ i < NLines
    /\ Line.kind = "comment"
    /\ i' = i + 1
    /\ UNCHANGED <<pc, argv, file, args, config, len, factor>>

\* map_set; whenever the map grows, to twice its size, it forgets the others
\* (see MapTable.tla).
ReadSetting ==
    /\ pc = "config" /\ i < NLines
    /\ Line \in Setting
    /\ config' = [k \in Keys |-> IF k = Line.key THEN Value(Line)
                                 ELSE IF len >= factor THEN NULL ELSE config[k]]
    /\ factor' = IF len >= factor THEN 2 * factor ELSE factor
    /\ len' = len + 1
    /\ i' = i + 1
    /\ UNCHANGED <<pc, argv, file, args>>

ConfigRead == pc = "config" /\ i >= NLines /\ End("log")

----------------------------------------------------------------------------
(* The rest of main.                                                       *)

\* The log's file may be one that cannot be opened.
LogInit == pc = "log" /\ (End("http") \/ End("exit 1"))

\* http_rsp_404 is what http_rsp_from_file returns when there is no file,
\* and is NULL before http_init has set it.
HttpInit ==
    pc = "http" /\ End(IF config[Root] \in Sites THEN "pool" ELSE "crash")

\* The address may be one that cannot be listened on, and a number below zero
\* one of too many workers to allocate.  Zero, which no setting and a word are
\* as well, forks nobody: main goes on as a worker, and the_worker is NULL.
\* More workers than there can be fail an assertion.  Of a number that was cut
\* something may be left.
PoolInit ==
    /\ pc = "pool"
    /\ \/ End("exit 1")
       \/ config[Worker] \in Numbers \cup {Cut} /\ End("running")
       \/ config[Worker] \notin Numbers /\ End("crash")

Next ==
    \/ LongOption \/ ShortOptions \/ NoOption \/ OpenConfig
    \/ ReadNothing \/ ReadComment \/ ReadSetting \/ ConfigRead
    \/ LogInit \/ HttpInit \/ PoolInit

\* The program runs.
Spec == Init /\ [][Next]_vars /\ WF_vars(Next)

----------------------------------------------------------------------------
(* Properties.                                                             *)

TypeOK ==
    /\ pc \in {"args", "config", "log", "http", "pool",
               "exit 0", "exit 1", "crash", "running"}
    /\ i \in 0 .. Len(argv) + Len(file) + 1
    /\ args.is_daemon \in BOOLEAN /\ args.is_debug \in BOOLEAN
    /\ config \in [Keys -> Values \cup {Cut, NULL}]
    /\ len \in 0 .. Len(file) /\ factor \in Nat \ {0}

TakesFile(w) == \/ w = [kind |-> "long", name |-> "config"]
                \/ w.kind = "short" /\ \E j \in DOMAIN w.letters : w.letters[j] = "c"

\* The words that are options: all but those that are paths.
Options ==
    LET is[n \in 0 .. Len(argv)] ==
          n > 0 => n = 1 \/ ~is[n - 1] \/ ~TakesFile(argv[n - 1])
    IN  {n \in DOMAIN argv : is[n]}

\* When the arguments have been read, "-c, --config <file>" and "--debug"
\* (args.cc:19) have had their effects, the others have ended the start, and no
\* word was read twice: the last path is the configuration's, and every option
\* is one of those of the help text.  Excepted is "-d", of which that says
\* "display version info and exit": args_init sets a field nobody reads.
ArgumentsTaken ==
    pc \in {"config", "log", "http", "pool", "running"} =>
        LET paths == {n \in Options : TakesFile(argv[n])}
            Long(name) == \E n \in Options : argv[n] = [kind |-> "long", name |-> name]
        IN  /\ args.config = IF paths = {} THEN DefaultFile ELSE argv[Max(paths) + 1]
            /\ args.is_debug = Long("debug")
            /\ ~Long("help") /\ ~Long("version") /\ ~Long("other")
            /\ \A n \in Options : argv[n].kind # "plain"

\* A file as config.in is, with an empty line at its end, is read as it is
\* written: each key has the value of its last line.  This takes no more
\* lines than the map holds before it grows.
SettingsTaken ==
    /\ pc \in {"log", "http", "pool", "running"}
    /\ Len(file) > 1 /\ file[Len(file)] = Nothing /\ file[Len(file) - 1] = Nothing
    /\ Cardinality({n \in DOMAIN file : file[n] \in Setting}) <= Factor
    => \A k \in Keys :
          LET lines == {n \in DOMAIN file : file[n] \in Setting /\ file[n].key = k}
          IN  config[k] = IF lines = {} THEN NULL ELSE Value(file[Max(lines)])

\* The start ends in a crash only if the file has no newline, or an empty
\* line before its last line, or if there is no page, or no number of workers:
\* "worker" is not set, cut, zero, a word, or more than there can be.
CrashExplained ==
    pc = "crash" =>
        \/ Len(file) = 1
        \/ \E n \in 1 .. Len(file) - 2 : file[n] = Nothing
        \/ config[Root] \notin Sites
        \/ config[Worker] \notin Numbers

\* Whatever the words are and the configuration, with its number of lines
\* below zero too, the start comes to an end.
StartEnds == <>(pc \in {"exit 0", "exit 1", "crash", "running"})
=============================================================================
