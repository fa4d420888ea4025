--------------------------- MODULE LoggingProofs ---------------------------
(***************************************************************************)
(* Proofs about Logging, for any threads, messages and configuration files.*)
(***************************************************************************)
EXTENDS Logging, SequenceTheorems, TLAPS

-----------------------------------------------------------------------------
(* Messages.                                                               *)

QueueTypes ==
    /\ queue \in Seq(Messages) /\ msg \in Seq(Messages)
    /\ h.pushed \in Seq(Messages) /\ h.written \in Seq(Messages)
    /\ h = [pushed |-> h.pushed, written |-> h.written, before |-> h.before,
            missed |-> h.missed]

\* The logger's thread has nothing in its hand except in write, ends only when
\* it was stopped and has written all that was pushed before, and the join
\* returns only after that.
Draining ==
    /\ h.written \o msg \o queue = h.pushed
    /\ lpc # "write" => msg = <<>>
    /\ stop <=> spc # "out"
    /\ stop => h.before \subseteq ToSet(h.pushed)
    /\ lpc = "exited" => stop /\ h.before \subseteq ToSet(h.written)
    /\ spc \in {"again", "done"} => lpc = "exited"

LogInv == QueueTypes /\ Draining

\* The elements of a sequence stay when it grows.
LEMMA Grows ==
    ASSUME NEW s \in Seq(Messages), NEW u \in Seq(Messages)
    PROVE  ToSet(s) \subseteq ToSet(s \o u)
<1>1. /\ Len(s \o u) = Len(s) + Len(u) /\ Len(s) \in Nat /\ Len(u) \in Nat
      /\ DOMAIN s = 1..Len(s) /\ DOMAIN (s \o u) = 1..Len(s \o u)
    OBVIOUS
<1>2. \A i \in DOMAIN s : i \in DOMAIN (s \o u) /\ (s \o u)[i] = s[i]
    BY <1>1
<1> QED BY <1>2 DEF ToSet

\* The invariant of the queue holds before the first message.
LEMMA LogInvInit == LoggingInit => LogInv
<1> SUFFICES ASSUME Init PROVE LogInv
    BY DEF LoggingInit
<1>1. QueueTypes
    BY DEF Init, QueueTypes
<1>2. Draining
    BY DEF Init, Draining
<1> QED BY <1>1, <1>2 DEF LogInv

\* What leaves the messages where they are and the thread where it is, or
\* lets it go on without it having ended.
LEMMA LogFrame ==
    ASSUME LogInv, UNCHANGED <<queue, stop, msg>>,
           h' \in {h, [h EXCEPT !.missed = lpc = "tested"]},
           lpc' = lpc \/ (lpc' \notin {"write", "exited"} /\
                          lpc \notin {"write", "exited"}),
           spc' # "out" <=> spc # "out",
           spc' \in {"again", "done"} => lpc = "exited"
    PROVE  LogInv'
<1>1. /\ h'.pushed = h.pushed /\ h'.written = h.written
      /\ h'.before = h.before
      /\ h' = [pushed |-> h'.pushed, written |-> h'.written,
               before |-> h'.before, missed |-> h'.missed]
    BY DEF LogInv, QueueTypes
<1>2. QueueTypes'
    BY <1>1 DEF LogInv, QueueTypes
<1>3. Draining'
    BY <1>1 DEF LogInv, Draining
<1> QED BY <1>2, <1>3 DEF LogInv

\* A push adds its message at the end of the queue, and no other.
LEMMA PushKeeps ==
    ASSUME LogInv, NEW t \in Threads, NEW m \in Messages, Push(t, m)
    PROVE  LogInv'
<1>1. /\ queue' = Append(queue, m)
      /\ h' = [h EXCEPT !.pushed = Append(@, m)]
      /\ UNCHANGED <<stop, lpc, msg, spc>>
    BY DEF Push
<1>2. QueueTypes /\ Draining
    BY DEF LogInv
<1>3. /\ h'.pushed = Append(h.pushed, m) /\ h'.written = h.written
      /\ h'.before = h.before
      /\ h' = [pushed |-> h'.pushed, written |-> h'.written,
               before |-> h'.before, missed |-> h'.missed]
    BY <1>1, <1>2 DEF QueueTypes
<1>4. QueueTypes'
    BY <1>1, <1>2, <1>3 DEF QueueTypes
<1> DEFINE w == h.written \o msg
<1>5. w \in Seq(Messages) /\ queue \in Seq(Messages) /\ h.pushed \in Seq(Messages)
    BY <1>2 DEF QueueTypes
<1>6. w \o queue = h.pushed /\ ToSet(h.pushed) \subseteq ToSet(h'.pushed)
    <2>1. h'.pushed = h.pushed \o <<m>>
        BY <1>3, <1>5, AppendIsConcat
    <2>2. <<m>> \in Seq(Messages)
        OBVIOUS
    <2>3. ToSet(h.pushed) \subseteq ToSet(h'.pushed)
        BY <2>1, <2>2, <1>5, Grows
    <2> QED BY <2>3, <1>2 DEF Draining
<1>7. w \o Append(queue, m) = Append(w \o queue, m)
    <2> HIDE DEF w
    <2>1. (w \o queue) \o <<m>> = w \o (queue \o <<m>>)
        BY <1>5, ConcatAssociative
    <2>2. Append(queue, m) = queue \o <<m>>
        BY <1>5, AppendIsConcat
    <2>3. w \o queue \in Seq(Messages)
        BY <1>5
    <2>4. Append(w \o queue, m) = (w \o queue) \o <<m>>
        BY <2>3, AppendIsConcat
    <2> QED BY <2>1, <2>2, <2>4
<1>8. Draining'
    BY <1>1, <1>2, <1>3, <1>6, <1>7 DEF Draining
<1> QED BY <1>4, <1>8 DEF LogInv

\* stop() takes nothing from the queue.
LEMMA StopKeeps == ASSUME LogInv, Stop PROVE LogInv'
<1>1. /\ spc = "out" /\ stop' = TRUE /\ spc' = "signal"
      /\ h' = [h EXCEPT !.before = ToSet(h.pushed)]
      /\ UNCHANGED <<queue, lpc, msg>>
    BY DEF Stop
<1>2. QueueTypes /\ Draining
    BY DEF LogInv
<1>3. /\ h'.pushed = h.pushed /\ h'.written = h.written
      /\ h'.before = ToSet(h.pushed)
      /\ h' = [pushed |-> h'.pushed, written |-> h'.written,
               before |-> h'.before, missed |-> h'.missed]
    BY <1>1, <1>2 DEF QueueTypes
<1>4. QueueTypes'
    BY <1>1, <1>2, <1>3 DEF QueueTypes
<1>5. Draining'
    BY <1>1, <1>2, <1>3 DEF Draining
<1> QED BY <1>4, <1>5 DEF LogInv

\* The logger's thread: it ends with an empty queue, takes one message, and
\* writes it.
LEMMA LoggerThreadKeeps == ASSUME LogInv, LoggerThread PROVE LogInv'
<1>1. QueueTypes /\ Draining
    BY DEF LogInv
<1>2. CASE TestWaits \/ Wait
    <2>1. /\ UNCHANGED <<queue, stop, msg, spc, h>>
          /\ lpc' \in {"tested", "wait"} /\ lpc \in {"test", "tested"}
        BY <1>2 DEF TestWaits, Wait
    <2> QED BY <2>1, <1>1, LogFrame DEF Draining
<1>3. CASE TestExits
    <2>1. /\ lpc = "test" /\ stop /\ queue = <<>> /\ lpc' = "exited"
          /\ UNCHANGED <<queue, stop, msg, spc, h>>
        BY <1>3 DEF TestExits, mustExit
    <2>2. h.written = h.pushed
        <3>1. msg = <<>> /\ h.written \o msg \o queue = h.pushed
            BY <2>1, <1>1 DEF Draining
        <3> QED BY <3>1, <2>1, <1>1, ConcatEmptySeq DEF QueueTypes
    <2>3. Draining'
        BY <2>1, <2>2, <1>1 DEF Draining
    <2> QED BY <2>1, <2>3, <1>1 DEF LogInv, QueueTypes
<1>4. CASE Take
    <2>1. /\ lpc = "test" /\ queue # <<>> /\ msg' = <<Head(queue)>>
          /\ queue' = Tail(queue) /\ lpc' = "write"
          /\ UNCHANGED <<stop, spc, h>>
        BY <1>4 DEF Take
    <2>2. /\ Head(queue) \in Messages /\ Tail(queue) \in Seq(Messages)
          /\ queue = <<Head(queue)>> \o Tail(queue)
        BY <2>1, <1>1 DEF QueueTypes
    <2>3. msg' \in Seq(Messages) /\ QueueTypes'
        BY <2>1, <2>2, <1>1 DEF QueueTypes
    <2>4. (h.written \o msg') \o queue' = h.pushed
        <3>1. msg = <<>> /\ h.written \o msg \o queue = h.pushed
            BY <2>1, <1>1 DEF Draining
        <3>2. h.written \o queue = h.pushed
            BY <3>1, <1>1, ConcatEmptySeq DEF QueueTypes
        <3> DEFINE w == h.written
        <3>3. w \in Seq(Messages)
            BY <1>1 DEF QueueTypes
        <3> HIDE DEF w
        <3>4. (w \o msg') \o queue' = w \o (msg' \o queue')
            BY <2>1, <2>2, <2>3, <3>3, ConcatAssociative
        <3> QED BY <3>2, <3>4, <2>1, <2>2 DEF w
    <2>5. Draining'
        BY <2>1, <2>4, <1>1 DEF Draining
    <2> QED BY <2>3, <2>5 DEF LogInv
<1>5. CASE Write
    <2>1. /\ lpc = "write" /\ h' = [h EXCEPT !.written = @ \o msg]
          /\ msg' = <<>> /\ lpc' = "test" /\ UNCHANGED <<queue, stop, spc>>
        BY <1>5 DEF Write
    <2>2. /\ h'.pushed = h.pushed /\ h'.written = h.written \o msg
          /\ h'.before = h.before
          /\ h' = [pushed |-> h'.pushed, written |-> h'.written,
                   before |-> h'.before, missed |-> h'.missed]
        BY <2>1, <1>1 DEF QueueTypes
    <2>3. h'.written \in Seq(Messages) /\ QueueTypes'
        BY <2>1, <2>2, <1>1 DEF QueueTypes
    <2>4. h'.written \o msg' = h.written \o msg
        BY <2>1, <2>2, <2>3, ConcatEmptySeq
    <2>5. Draining'
        BY <2>1, <2>2, <2>4, <1>1 DEF Draining
    <2> QED BY <2>3, <2>5 DEF LogInv
<1> QED BY <1>2, <1>3, <1>4, <1>5 DEF LoggerThread

\* Every step preserves the invariant of the queue.
LEMMA LogInvNext == LogInv /\ [LoggingNext]_allVars => LogInv'
<1> SUFFICES ASSUME LogInv, [LoggingNext]_allVars PROVE LogInv'
    OBVIOUS
<1>1. ASSUME UNCHANGED vars PROVE LogInv'
    BY <1>1, LogFrame DEF vars, LogInv, Draining
<1>2. CASE UNCHANGED allVars
    BY <1>1, <1>2 DEF allVars
<1>3. ASSUME NEW t \in Threads, GetLogger(t) \/ LogFreed(t) PROVE LogInv'
    BY <1>1, <1>3 DEF GetLogger, LogFreed
<1>4. ASSUME NEW t \in Threads, NEW m \in Messages, Log(t, m) PROVE LogInv'
    BY <1>1, <1>4, PushKeeps DEF Log
<1>5. ASSUME NEW t \in Threads, LogSignal(t) PROVE LogInv'
    <2>1. /\ UNCHANGED <<queue, stop, msg, spc, h>>
          /\ lpc' = IF lpc = "wait" THEN "test" ELSE lpc
        BY <1>5 DEF LogSignal, PushSignal, Signal
    <2> QED BY <2>1, LogFrame DEF LogInv, Draining
<1>6. ASSUME NEW f \in Files, LoadConf(f) PROVE LogInv'
    <2>1. Stop \/ UNCHANGED vars
        BY <1>6 DEF LoadConf, Reset
    <2> QED BY <2>1, <1>1, StopKeeps
<1>7. ASSUME NEW inPush \in BOOLEAN, Exit(inPush) PROVE LogInv'
    BY <1>1, <1>7, StopKeeps DEF Exit
<1>8. CASE ExitOnLogger
    BY <1>1, <1>8 DEF ExitOnLogger
<1>9. CASE Destroys
    <2>1. CASE StopSignal
        <3>1. /\ UNCHANGED <<queue, stop, msg>>
              /\ h' = [h EXCEPT !.missed = lpc = "tested"]
              /\ lpc' = IF lpc = "wait" THEN "test" ELSE lpc
              /\ spc = "signal" /\ spc' = "join"
            BY <2>1 DEF StopSignal, Signal
        <3> QED BY <3>1, LogFrame
    <2>2. CASE Join
        BY <2>2, LogFrame DEF Join
    <2> QED BY <2>1, <2>2, <1>9 DEF Destroys
<1>10. CASE DestroysAsync
    BY <1>10, LogFrame DEF DestroysAsync, JoinAgain, LogInv, Draining
<1>11. CASE LoggerRuns
    BY <1>11, LoggerThreadKeeps DEF LoggerRuns
<1>12. CASE SpuriousWakeup \/ Midnight
    BY <1>12, LogFrame DEF SpuriousWakeup, Midnight, LogInv, Draining
<1> QED BY <1>2, <1>3, <1>4, <1>5, <1>6, <1>7, <1>8, <1>9, <1>10, <1>11, <1>12
        DEF LoggingNext

\* Through every interleaving of threads that log, the logger's thread, and
\* the stop() of a configuration or of exit(), no message is lost, repeated or
\* overtaken, and a Logger is destroyed only when it has written all that was
\* pushed before.
THEOREM LogAlwaysConserved == LoggingSpec => []LogConserved
<1>1. LogInv => LogConserved
    BY DEF LogInv, Draining, LogConserved
<1> QED BY <1>1, LogInvInit, LogInvNext, PTL DEF LoggingSpec

-----------------------------------------------------------------------------
(* Configuration.                                                          *)

\* The texts that the code itself puts into a Config, and any other.
Names == {"FILE", "./", "UNKNOW", "DEBUG", "INFO", "WARN", "ERROR", "FATAL"}
Text == STRING \cup Names

ConfType == [m_mode : Text, m_filePath : Text, m_level : Text]

\* The Logger in use is the last that was made, from the last file that was
\* accepted; its path is right as long as no file was rejected since.
ConfigInv ==
    /\ set \in Seq([conf : ConfType, pathRef : BOOLEAN])
    /\ g = Len(set) /\ g # 0
    /\ conf \in ConfType
    /\ past \in [accepted : ConfType, rejected : BOOLEAN]
    /\ set[g].conf = past.accepted
    /\ ~past.rejected /\ set[g].pathRef =>
          conf.m_filePath = past.accepted.m_filePath

\* What the text of a level or of a mode is converted to.
LEMMA Conversions ==
    ASSUME NEW x \in STRING
    PROVE  /\ String2Mode(x) \in Text /\ String2Level(x) \in Text
           /\ String2Mode(x) # "UNKNOW" => String2Mode(x) = x
<1>1. \A y \in DOMAIN LevelNames : LevelNames[y] \in Text
    BY DEF LevelNames, Text, Names
<1>2. x \in Text /\ "UNKNOW" \in Text
    BY DEF Text, Names
<1> QED BY <1>1, <1>2 DEF String2Mode, String2Level

\* A file that is accepted leaves in the Config what it says, and any file
\* leaves settings there.
LEMMA Loading ==
    ASSUME conf \in ConfType, NEW f \in Files
    PROVE  /\ LoadFile(f).conf \in ConfType
           /\ LoadFile(f).rt = "TRUE" => LoadFile(f).conf = Says(f)
<1> DEFINE mode == String2Mode(f.log_mode)
           level == String2Level(f.log_level)
           path == f.log_path
<1>1. /\ mode \in Text /\ level \in Text /\ path \in Text
      /\ mode # "UNKNOW" => mode = f.log_mode
    BY FilesAssumption, Conversions DEF Text
<1> HIDE DEF mode, level, path
<1> DEFINE a1 == [conf EXCEPT !.m_filePath = path, !.m_mode = mode]
           a2 == [a1 EXCEPT !.m_level = level]
           b1 == [conf EXCEPT !.m_mode = mode]
           b2 == [b1 EXCEPT !.m_filePath = path]
           b3 == [b2 EXCEPT !.m_level = level]
           said == [m_mode |-> mode, m_filePath |-> path, m_level |-> level]
<1>2. /\ a1 \in ConfType /\ a1.m_mode = mode /\ a1.m_filePath = path
      /\ b1 \in ConfType /\ b1.m_mode = mode
    BY <1>1 DEF ConfType
<1> HIDE DEF a1, b1
<1>3. /\ a2 \in ConfType /\ b2 \in ConfType
      /\ a2.m_mode = mode /\ a2.m_filePath = path /\ a2.m_level = level
      /\ b2.m_mode = mode /\ b2.m_filePath = path
    BY <1>1, <1>2 DEF ConfType
<1> HIDE DEF a2, b2
<1>4. /\ b3 \in ConfType
      /\ b3.m_mode = mode /\ b3.m_filePath = path /\ b3.m_level = level
    BY <1>1, <1>3 DEF ConfType
<1> HIDE DEF b3
<1>0. a2 = said /\ b3 = said
    BY <1>3, <1>4 DEF ConfType
<1>5. mode # "UNKNOW" => said = Says(f)
    BY <1>1 DEF Says, level, path
<1> HIDE DEF said
<1>6. /\ LoadYaml(f).conf \in ConfType
      /\ LoadYaml(f).rt = "TRUE" => LoadYaml(f).conf = Says(f)
    <2>1. \/ LoadYaml(f) = Loaded(conf, "FALSE")
          \/ LoadYaml(f) = Loaded(conf, "crash")
          \/ LoadYaml(f) = Loaded(a1, "FALSE")
          \/ LoadYaml(f) = Loaded(a1, "crash")
          \/ LoadYaml(f) = Loaded(a2, "FALSE")
          \/ LoadYaml(f) = Loaded(a2, "TRUE") /\ mode # "UNKNOW"
        <3>1. a1 = [conf EXCEPT !.m_filePath = f.log_path,
                                !.m_mode = String2Mode(f.log_mode)]
            BY DEF a1, mode, path
        <3>2. a2 = [a1 EXCEPT !.m_level = String2Level(f.log_level)]
            BY DEF a2, level
        <3> QED BY <3>1, <3>2, <1>2 DEF LoadYaml
    <2> QED BY <2>1, <1>0, <1>2, <1>3, <1>5 DEF Loaded
<1>7. /\ LoadXml(f).conf \in ConfType
      /\ LoadXml(f).rt = "TRUE" => LoadXml(f).conf = Says(f)
    <2>1. \/ LoadXml(f) = Loaded(conf, "crash")
          \/ LoadXml(f) = Loaded(conf, "FALSE")
          \/ LoadXml(f) = Loaded(b1, "FALSE")
          \/ LoadXml(f) = Loaded(b2, "FALSE")
          \/ LoadXml(f) = Loaded(b3, "FALSE")
          \/ LoadXml(f) = Loaded(b3, "TRUE") /\ mode # "UNKNOW"
        <3>1. b1 = [conf EXCEPT !.m_mode = String2Mode(f.log_mode)]
            BY DEF b1, mode
        <3>2. b2 = [b1 EXCEPT !.m_filePath = f.log_path]
            BY DEF b2, path
        <3>3. b3 = [b2 EXCEPT !.m_level = String2Level(f.log_level)]
            BY DEF b3, level
        <3> QED BY <3>1, <3>2, <3>3, <1>2 DEF LoadXml
    <2> QED BY <2>1, <1>0, <1>2, <1>3, <1>4, <1>5 DEF Loaded
<1>8. /\ Loaded(conf, "FALSE").conf \in ConfType
      /\ Loaded(conf, "FALSE").rt # "TRUE"
    BY DEF Loaded
<1>9. \/ LoadFile(f) = LoadYaml(f) \/ LoadFile(f) = LoadXml(f)
      \/ LoadFile(f) = Loaded(conf, "FALSE")
    BY DEF LoadFile
<1> QED BY <1>6, <1>7, <1>8, <1>9

\* The logger that is there before any file is the default one.
LEMMA ConfigInvInit == LoggingInit => ConfigInv
<1> SUFFICES ASSUME LoggingInit PROVE ConfigInv
    OBVIOUS
<1>1. Default \in ConfType
    BY DEF Default, ConfType, Text, Names
<1>2. /\ g = 1 /\ set = <<[conf |-> Default, pathRef |-> FALSE]>>
      /\ conf = Default /\ past = [accepted |-> Default, rejected |-> FALSE]
    BY DEF LoggingInit
<1> QED BY <1>1, <1>2 DEF ConfigInv

\* Loading a file, taken or rejected, preserves the invariant of the
\* configuration.
LEMMA LoadConfKeeps ==
    ASSUME ConfigInv, NEW f \in Files, LoadConf(f) PROVE ConfigInv'
<1> DEFINE l == LoadFile(f)
<1>1. l.conf \in ConfType /\ (l.rt = "TRUE" => l.conf = Says(f))
    BY Loading DEF ConfigInv
<1>2. /\ conf' = l.conf
      /\ past' = [past EXCEPT !.accepted = IF l.rt = "TRUE" THEN Says(f) ELSE @,
                              !.rejected = l.rt # "TRUE"]
      /\ IF l.rt = "TRUE" THEN Reset(l.conf) ELSE UNCHANGED <<vars, g, set>>
    BY DEF LoadConf
<1> HIDE DEF l
<1>3. CASE l.rt = "TRUE"
    <2> DEFINE n == [conf |-> l.conf, pathRef |-> TRUE]
    <2>1. n \in [conf : ConfType, pathRef : BOOLEAN]
        BY <1>1
    <2>2. set' = Append(set, n) /\ g' = Len(set) + 1
        BY <1>2, <1>3 DEF Reset
    <2>3. n.conf = l.conf
        OBVIOUS
    <2> HIDE DEF n
    <2>4. /\ set' \in Seq([conf : ConfType, pathRef : BOOLEAN])
          /\ g' = Len(set') /\ g' # 0 /\ set'[g'] = n
        BY <2>1, <2>2 DEF ConfigInv
    <2>5. /\ past' \in [accepted : ConfType, rejected : BOOLEAN]
          /\ past'.accepted = l.conf
        BY <1>1, <1>2, <1>3 DEF ConfigInv
    <2> QED BY <2>3, <2>4, <2>5, <1>1, <1>2 DEF ConfigInv
<1>4. CASE l.rt # "TRUE"
    <2>1. UNCHANGED <<g, set>>
        BY <1>2, <1>4
    <2>2. /\ past' \in [accepted : ConfType, rejected : BOOLEAN]
          /\ past'.accepted = past.accepted /\ past'.rejected
        BY <1>2, <1>4 DEF ConfigInv
    <2> QED BY <2>1, <2>2, <1>1, <1>2 DEF ConfigInv
<1> QED BY <1>3, <1>4

\* Every step preserves the invariant of the configuration.
LEMMA ConfigInvNext == ConfigInv /\ [LoggingNext]_allVars => ConfigInv'
<1> SUFFICES ASSUME ConfigInv, [LoggingNext]_allVars PROVE ConfigInv'
    OBVIOUS
<1>1. ASSUME UNCHANGED <<g, set, conf, past>> PROVE ConfigInv'
    BY <1>1 DEF ConfigInv
<1>2. CASE UNCHANGED allVars
    BY <1>1, <1>2 DEF allVars, manager
<1>3. ASSUME NEW f \in Files, LoadConf(f) PROVE ConfigInv'
    BY <1>3, LoadConfKeeps
<1>4. ASSUME NEW t \in Threads,
             \/ GetLogger(t) \/ LogSignal(t) \/ LogFreed(t)
             \/ \E m \in Messages : Log(t, m)
      PROVE  ConfigInv'
    BY <1>1, <1>4 DEF GetLogger, LogSignal, LogFreed, Log
<1>5. ASSUME NEW inPush \in BOOLEAN, Exit(inPush) PROVE ConfigInv'
    BY <1>1, <1>5 DEF Exit
<1>6. CASE ExitOnLogger \/ Destroys \/ DestroysAsync \/ LoggerRuns
    BY <1>1, <1>6 DEF ExitOnLogger, Destroys, DestroysAsync, LoggerRuns, manager
<1>7. CASE UNCHANGED manager
    BY <1>1, <1>7 DEF manager
<1> QED BY <1>2, <1>3, <1>4, <1>5, <1>6, <1>7 DEF LoggingNext

\* Whatever files are loaded, good or bad, YAML or XML: the Logger in use has
\* the settings of the last one that was accepted, and its path too until a
\* file is rejected.
THEOREM ConfigAlwaysTakesEffect == LoggingSpec => []ConfigTakesEffect
<1>1. ConfigInv => ConfigTakesEffect
    BY DEF ConfigInv, ConfigTakesEffect, PathOf
<1> QED BY <1>1, ConfigInvInit, ConfigInvNext, PTL DEF LoggingSpec
=============================================================================
