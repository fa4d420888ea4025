------------------------------- MODULE Logging -------------------------------
(***************************************************************************)
(* Logging as the program uses it: the LOG macros, LogEvent and            *)
(* LoggerManager (src/shero/base/Log.h, Log.cc), Config::LoadConf          *)
(* (src/shero/base/Config.cc), which replaces the logger, and exit(), from *)
(* the handler of SIGINT or after LOG_FATAL, which destroys it while other *)
(* threads go on.                                                          *)
(*                                                                         *)
(* The default Logger, number 1, is the one of the module AsyncLogger; of  *)
(* the ones that replace it only the settings are kept.  Messages pass the *)
(* level.  A field of a configuration file is missing, or its text; of the *)
(* two numbers only whether they are there is kept.                        *)
(* Bound: MaxLoads calls of LoadConf.                                      *)
(***************************************************************************)
EXTENDS AsyncLogger

CONSTANTS Files, MaxLoads

ASSUME LoadsAssumption == MaxLoads \in Nat
ASSUME FilesAssumption ==
    Files \subseteq [suffix : STRING, there : BOOLEAN, log : BOOLEAN,
                     log_path : STRING, log_mode : STRING, log_level : STRING,
                     log_max_size : STRING, log_sync_interval : STRING]

VARIABLES
    ptr,         \* of each thread: the Logger that getLogger() gave, 0 none
    g,           \* g_logger: the number of the Logger
    set,         \* the settings each Logger was made with; pathRef: its
                 \*   m_filePath points into the Config
    conf,        \* the members of Config: m_mode, m_filePath, m_level
    held,        \* m_mutex is held by a thread that is in exit()
    proc,        \* running, exiting, exited, or how it came to grief
    past         \* history: accepted (the last file that was), rejected (a
                 \*   file was, after that)

manager == <<ptr, g, set, conf, held, proc, past>>
allVars == <<vars, manager>>

Alive == proc \in {"running", "exiting"}

Default == [m_mode |-> "FILE", m_filePath |-> "./", m_level |-> "DEBUG"]

\* The first use made the LoggerManager, with its default Logger.
LoggingInit ==
    /\ Init
    /\ ptr = [t \in Threads |-> 0]
    /\ g = 1 /\ set = <<[conf |-> Default, pathRef |-> FALSE]>>
    /\ conf = Default
    /\ held = FALSE /\ proc = "running"
    /\ past = [accepted |-> Default, rejected |-> FALSE]

\* The Logger n has not been destroyed.
Exists(n) == IF n = 1 THEN spc # "done" ELSE n = g /\ proc = "running"

-----------------------------------------------------------------------------
(* A thread that logs.                                                     *)

\* LogEvent::log: getLogger().  (The macro has asked for it before, to
\* compare the level.)
GetLogger(t) ==
    /\ Alive /\ ptr[t] = 0 /\ tpc[t] = "idle"
    /\ ptr' = [ptr EXCEPT ![t] = g]
    /\ UNCHANGED <<vars, g, set, conf, held, proc, past>>

\* ... and Logger::log on what it gave, if it is still there.
Log(t, m) ==
    /\ Alive /\ ptr[t] # 0 /\ Exists(ptr[t])
    /\ IF ptr[t] = 1
       THEN ~held /\ Push(t, m) /\ UNCHANGED ptr
       ELSE ptr' = [ptr EXCEPT ![t] = 0] /\ UNCHANGED vars
    /\ UNCHANGED <<g, set, conf, held, proc, past>>

LogSignal(t) ==
    /\ Alive /\ Exists(1)
    /\ PushSignal(t)
    /\ ptr' = [ptr EXCEPT ![t] = 0]
    /\ UNCHANGED <<g, set, conf, held, proc, past>>

\* What the thread has got is gone.
LogFreed(t) ==
    /\ Alive /\ ptr[t] # 0 /\ ~Exists(ptr[t])
    /\ proc' = "use after free"
    /\ UNCHANGED <<vars, ptr, g, set, conf, held, past>>

-----------------------------------------------------------------------------
(* Config.                                                                 *)

Modes == {"STDOUT", "FILE", "BOTH"}
LevelNames == [unknow |-> "UNKNOW", debug |-> "DEBUG", info |-> "INFO",
               warn |-> "WARN", error |-> "ERROR", fatal |-> "FATAL"]

String2Mode(s) == IF s \in Modes THEN s ELSE "UNKNOW"

\* Upper case or lower case.
String2Level(s) ==
    IF s \in DOMAIN LevelNames THEN LevelNames[s]
    ELSE IF \E l \in DOMAIN LevelNames : LevelNames[l] = s THEN s ELSE "UNKNOW"

\* What a load leaves in the Config, and how it ends: TRUE, FALSE or a crash.
Loaded(c, rt) == [conf |-> c, rt |-> rt]

\* The fields that LoadYaml asks for before it looks at one.
Early(f) == {f.log_path, f.log_max_size, f.log_sync_interval, f.log_mode}

\* as<T>() of a field that is missing throws, out of the try.
LoadYaml(f) ==
    LET c1 == [conf EXCEPT !.m_filePath = f.log_path,
                           !.m_mode = String2Mode(f.log_mode)]
        c2 == [c1 EXCEPT !.m_level = String2Level(f.log_level)]
    IN  CASE ~f.there -> Loaded(conf, "FALSE")
          [] f.there /\ "missing" \in Early(f) -> Loaded(conf, "crash")
          [] f.there /\ "missing" \notin Early(f) ->
                IF c1.m_mode = "UNKNOW" THEN Loaded(c1, "FALSE")
                ELSE IF f.log_level = "missing" THEN Loaded(c1, "crash")
                ELSE IF c2.m_level = "UNKNOW" THEN Loaded(c2, "FALSE")
                ELSE Loaded(c2, "TRUE")

\* Variant: the level is not taken over.
LoadXml_NoLevel(f) ==
    IF ~f.there \/ ~f.log THEN Loaded(conf, "crash")
    ELSE LET c1 == [conf EXCEPT !.m_mode = String2Mode(f.log_mode)]
             c2 == [c1 EXCEPT !.m_filePath = f.log_path]
         IN  IF c1.m_mode = "UNKNOW" THEN Loaded(c1, "FALSE")
             ELSE IF f.log_path = "missing" THEN Loaded(c1, "FALSE")
             ELSE Loaded(c2, "TRUE")

\* A file that is not there has no root element, and a root without the
\* element log is only warned about.
LoadXml(f) ==
    LET c1 == [conf EXCEPT !.m_mode = String2Mode(f.log_mode)]
        c2 == [c1 EXCEPT !.m_filePath = f.log_path]
        c3 == [c2 EXCEPT !.m_level = String2Level(f.log_level)]
    IN  IF ~f.there \/ ~f.log THEN Loaded(conf, "crash")
        ELSE IF f.log_mode \in {"missing", "UNKNOW"} THEN Loaded(conf, "FALSE")
        ELSE IF c1.m_mode = "UNKNOW" \/ f.log_path = "missing"
             THEN Loaded(c1, "FALSE")
        ELSE IF "missing" \in {f.log_max_size, f.log_level}
             THEN Loaded(c2, "FALSE")
        ELSE IF c3.m_level = "UNKNOW" \/ f.log_sync_interval = "missing"
             THEN Loaded(c3, "FALSE")
        ELSE Loaded(c3, "TRUE")

LoadFile(f) == CASE f.suffix = "yaml" -> LoadYaml(f)
                 [] f.suffix = "xml" -> LoadXml(f)
                 [] f.suffix \notin {"yaml", "xml"} -> Loaded(conf, "FALSE")

\* The settings that a file asks for.
Says(f) == [m_mode |-> f.log_mode, m_filePath |-> f.log_path,
            m_level |-> String2Level(f.log_level)]

\* LoggerManager::reset: the new Logger is made, then the old one destroyed.
Reset(c) ==
    /\ set' = Append(set, [conf |-> c, pathRef |-> TRUE])
    /\ g' = Len(set) + 1
    /\ IF g = 1 THEN Stop ELSE UNCHANGED vars

\* LoadConf, by one thread, which is in ~Logger until that is done.
LoadConf(f) ==
    /\ proc = "running" /\ spc \in {"out", "done"} /\ Len(set) <= MaxLoads
    /\ LET l == LoadFile(f)
       IN  /\ conf' = l.conf
           /\ proc' = IF l.rt = "crash" THEN "crash" ELSE proc
           /\ past' = [past EXCEPT
                          !.accepted = IF l.rt = "TRUE" THEN Says(f) ELSE @,
                          !.rejected = l.rt # "TRUE"]
           /\ IF l.rt = "TRUE" THEN Reset(l.conf) ELSE UNCHANGED <<vars, g, set>>
    /\ UNCHANGED <<ptr, held>>

-----------------------------------------------------------------------------
(* exit(): the LoggerManager is destroyed, with the Logger it has.         *)

\* On a thread of the program, which the signal may find inside push, with
\* m_mutex.
Exit(inPush) ==
    /\ proc = "running" /\ spc \in {"out", "done"}
    /\ inPush => g = 1 /\ lpc # "tested"
    /\ held' = inPush
    /\ proc' = IF g = 1 THEN "exiting" ELSE "exited"
    /\ IF g = 1 THEN Stop ELSE UNCHANGED vars
    /\ UNCHANGED <<ptr, g, set, conf, past>>

\* On the logger's thread, which cannot join itself: pthread_join fails.
ExitOnLogger ==
    /\ proc = "running" /\ spc = "out" /\ g = 1 /\ lpc # "exited"
    /\ proc' = "exited"
    /\ UNCHANGED <<vars, ptr, g, set, conf, held, past>>

\* The steps of ~Logger.
Destroys ==
    /\ Alive
    /\ StopSignal \/ Join
    /\ UNCHANGED manager

\* The thread that is joined a second time is unknown by then, which is
\* undefined: an error is returned, or the process crashes.
DestroysAsync ==
    /\ Alive
    /\ JoinAgain
    /\ proc' \in {IF proc = "exiting" THEN "exited" ELSE "running", "crash"}
    /\ UNCHANGED <<ptr, g, set, conf, held, past>>

\* The logger's thread; its critical sections wait for a mutex that is held.
LoggerRuns ==
    /\ Alive
    /\ LoggerThread
    /\ held => lpc \in {"write", "tested"}
    /\ UNCHANGED manager

-----------------------------------------------------------------------------
LoggingNext ==
    \/ \E t \in Threads :
          \/ GetLogger(t) \/ LogSignal(t) \/ LogFreed(t)
          \/ \E m \in Messages : Log(t, m)
    \/ \E f \in Files : LoadConf(f)
    \/ \E inPush \in BOOLEAN : Exit(inPush)
    \/ ExitOnLogger \/ Destroys \/ DestroysAsync \/ LoggerRuns
    \/ Alive /\ (SpuriousWakeup \/ Midnight) /\ UNCHANGED manager

LoggingSpec == LoggingInit /\ [][LoggingNext]_allVars

\* Fairness: a thread that can go on does.  No spurious wakeup is promised,
\* and nobody has to log, to load a configuration or to exit.
FairLoggingSpec ==
    /\ LoggingSpec
    /\ WF_allVars(LoggerRuns) /\ WF_allVars(Destroys)
    /\ WF_allVars(DestroysAsync)
    /\ \A t \in Threads : WF_allVars(LogSignal(t))

-----------------------------------------------------------------------------
(* Properties.                                                             *)

\* No message is lost, repeated or overtaken between push and the file:
\* what is written, in the thread's hand and in m_queue is what was pushed,
\* in order.  And a Logger that was destroyed, because a configuration
\* replaced it or the program exits, has written all that was pushed before.
LogConserved ==
    /\ h.written \o msg \o queue = h.pushed
    /\ spc = "done" => h.before \subseteq ToSet(h.written)

\* Why the logger's thread may stop before it has written everything: its
\* process is gone (with exit() on this very thread, for one); exit() holds
\* its mutex; or it missed the signal of stop().
Broken == ~Alive \/ held \/ h.missed

\* A message pushed before ~Logger began is written: no signal is lost
\* between the test of the inner while and pthread_cond_wait.
MessagesWritten ==
    \A m \in Messages :
        (m \in ToSet(h.pushed)) ~>
            \/ m \in ToSet(h.written) \/ Broken
            \/ spc # "out" /\ m \notin h.before

\* ~Logger returns: the logger's thread notices stop() and ends.
StopReturns == (spc = "join") ~> (spc = "done" \/ Broken)

\* What a Logger reads at its m_filePath now.
PathOf(n) == IF set[n].pathRef THEN conf.m_filePath ELSE set[n].conf.m_filePath

\* The logger in use has the mode, level and path of the last configuration
\* file that was accepted, and the default without one.  A file that is
\* rejected after it can still change the path.
ConfigTakesEffect ==
    /\ set[g].conf = past.accepted
    /\ ~past.rejected => PathOf(g) = past.accepted.m_filePath
=============================================================================
