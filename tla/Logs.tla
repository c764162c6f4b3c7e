-------------------------------- MODULE Logs --------------------------------
(* The log file of phenix: the rotating writer (util/plog/lumberjack), the  *)
(* lookup cache that finds where in which file a window of time begins      *)
(* (util/plog/file.go), and the requests for the log of a range of time.    *)
(*                                                                          *)
(* A line is the tick it was written at, or Malformed; the position of a    *)
(* line is the number of lines before it, so a position recorded for one    *)
(* file can be the start of a line in another. A file has an identity that  *)
(* outlives its renaming, which only the history variables look at.         *)
EXTENDS Integers, FiniteSets, Sequences
LOCAL INSTANCE SequencesExt
LOCAL INSTANCE FiniteSetsExt

CONSTANTS LogReaders,    \* the requests for logs
          LogTicks,      \* a bound on the clock
          LogFaults,     \* a bound on malformed lines, deletions, restarts and
                         \* changes of the settings
          Fidelity,      \* DefaultLogFidelity, in ticks
          LogLimits,     \* the limits the settings may be given
          LogRanges      \* the ranges of time that are asked for

ASSUME LogAssumption == Fidelity \in Nat \ {0} /\ LogTicks \in Nat

VARIABLES logClock, logFiles, logger, limits, logCache, savedCache, reads,
          misplaced, logFaults

logVars == <<logClock, logFiles, logger, limits, logCache, savedCache, reads,
             misplaced, logFaults>>

Malformed == 0
MainLog == 0           \* a backup is named after the tick of its rotation
Far == LogTicks + 1    \* math.MaxInt64
Unset == -1            \* the zero time

Key(t) == t - (t % Fidelity)
Listed == DOMAIN logFiles

-----------------------------------------------------------------------------
(* The rotating writer.                                                     *)

LogSize(fs) == Len(fs[MainLog].lines)

\* The files left once the main one is moved aside and a new one is made.
OpenNew(fs, id) ==
    LET others == DOMAIN fs \ {MainLog}
        moved  == IF MainLog \in DOMAIN fs THEN {logClock} ELSE {}
    IN  [n \in others \cup moved \cup {MainLog} |->
            CASE n = MainLog -> [id |-> id, lines |-> <<>>]
              [] n \in moved -> fs[MainLog]
              [] OTHER -> fs[n]]

OpensExisting(fs) ==
    /\ MainLog \in DOMAIN fs
    /\ \/ logger.open
       \/ LogSize(fs) + 1 < limits.size

RotatesFirst(fs) == LogSize(fs) + 1 > limits.size

\* A line is written. Two lines of one tick are not told apart, so the clock
\* moves between two writes.
WriteLog(t) ==
    LET ready == IF OpensExisting(logFiles) /\ ~RotatesFirst(logFiles)
                 THEN logFiles ELSE OpenNew(logFiles, logClock)
        fresh == ready # logFiles
        moved == fresh /\ MainLog \in Listed
    IN  /\ logger.wrote < logClock
        /\ logFiles' = [ready EXCEPT ![MainLog].lines = Append(@, t)]
        /\ logger' = [logger EXCEPT
               !.open = TRUE,
               !.wrote = logClock,
               !.mill = @ \/ ~logger.open \/ moved]
        /\ reads' = [r \in LogReaders |->
               IF fresh /\ reads[r].at # "idle"
               THEN [reads[r] EXCEPT !.disturbed = TRUE] ELSE reads[r]]
        /\ UNCHANGED <<logClock, limits, logCache, savedCache, misplaced>>

Write ==
    \/ WriteLog(logClock) /\ UNCHANGED logFaults
    \/ /\ logFaults < LogFaults
       /\ WriteLog(Malformed) /\ logFaults' = logFaults + 1

\* The files one pass of the mill removes: all backups but the newest
\* MaxBackups, and of those the ones older than MaxAge.
MillRemoves ==
    LET backups == Listed \ {MainLog}
        surplus == IF limits.backups = 0 THEN {}
                   ELSE {n \in backups :
                           Cardinality({m \in backups : m > n}) >= limits.backups}
        aged    == IF limits.age = 0 THEN {}
                   ELSE {n \in backups : n < logClock - limits.age}
    IN  surplus \cup aged

MillRunOnce ==
    /\ logger.mill
    /\ logger' = [logger EXCEPT !.mill = FALSE]
    /\ logFiles' = [n \in Listed \ MillRemoves |-> logFiles[n]]
    /\ reads' = [r \in LogReaders |->
           IF MillRemoves # {} /\ reads[r].at # "idle"
           THEN [reads[r] EXCEPT !.disturbed = TRUE] ELSE reads[r]]
    /\ UNCHANGED <<logClock, limits, logCache, savedCache, misplaced, logFaults>>

\* The operator deletes the log file; the next write makes a new one.
DeleteLog ==
    /\ logFaults < LogFaults /\ MainLog \in Listed
    /\ logFaults' = logFaults + 1
    /\ logFiles' = [n \in Listed \ {MainLog} |-> logFiles[n]]
    /\ reads' = [r \in LogReaders |->
           IF reads[r].at # "idle" THEN [reads[r] EXCEPT !.disturbed = TRUE] ELSE reads[r]]
    /\ UNCHANGED <<logClock, logger, limits, logCache, savedCache, misplaced>>

UpdateLoggingSettings ==
    /\ logFaults < LogFaults /\ logFaults' = logFaults + 1
    /\ \E l \in LogLimits \ {limits} : limits' = l
    /\ UNCHANGED <<logClock, logFiles, logger, logCache, savedCache, reads,
                   misplaced>>

\* PUT /settings writes them all.
SetSettings == UpdateLoggingSettings

LogTick ==
    /\ logClock < LogTicks
    /\ logClock' = logClock + 1
    /\ UNCHANGED <<logFiles, logger, limits, logCache, savedCache, reads,
                   misplaced, logFaults>>

-----------------------------------------------------------------------------
(* The lookup cache.                                                        *)

NewCache == [hits |-> <<>>, files |-> <<>>, order |-> <<>>,
             first |-> Key(logClock), last |-> Unset]

SetFileOrder(c) ==
    [c EXCEPT !.order = SetToSortSeq(DOMAIN c.files,
        LAMBDA a, b : \/ c.files[a].first < c.files[b].first
                      \/ c.files[a].first = c.files[b].first /\ a < b)]

\* Fault: a file that begins in a window takes its hit over.
ReplacesAny(hits, t) == TRUE

\* A file that begins in a window another one has lines of leaves the hit to
\* the older line.
ReplacesHit(hits, t) == Key(t) \notin DOMAIN hits \/ t < hits[Key(t)].ts

\* What one more line makes of the scan of a file.
CacheLine(s, t, file, of) ==
    IF t = Malformed THEN s
    ELSE LET seen  == [s EXCEPT !.first = IF t < @ THEN t ELSE @,
                                !.last = IF t > @ THEN t ELSE @,
                                !.pos = @ + 1]
             hit   == [file |-> file, pos |-> s.pos, ts |-> t, of |-> of]
             past  == {k \in 0..LogTicks : /\ s.latest # Unset /\ k % Fidelity = 0
                                           /\ s.latest < k /\ k < Key(t)}
         IN  IF Key(t) <= s.latest THEN seen
             ELSE [seen EXCEPT
                     !.hits = [k \in DOMAIN s.hits \cup past \cup {Key(t)} |->
                         IF k \in past \/ (k = Key(t) /\ ReplacesHit(s.hits, t)) THEN hit ELSE s.hits[k]],
                     !.firstKey = IF Key(t) < @ THEN Key(t) ELSE @,
                     !.latest = Key(t)]

\* Where the scan of a file resumes: at the window it was last seen in, which
\* an older line of another file may have taken over.
Resumes(c, name) == {i \in DOMAIN c.files : c.files[i].name = name}

ResumePos(c, i) ==
    IF c.files[i].lastKey \in DOMAIN c.hits THEN c.hits[c.files[i].lastKey].pos ELSE 0

Misplaces(c, name) ==
    \E i \in Resumes(c, name) :
        /\ c.files[i].lastKey \in DOMAIN c.hits
        /\ LET hit == c.hits[c.files[i].lastKey]
           IN  hit.pos > 0 /\ hit.of # logFiles[name].id

\* A number no file of the cache has.
NextFileID(c) == 1 + Max({0} \cup DOMAIN c.files)

\* What is known of a file before it is read: nothing, or what the cache has.
ScanStart(c, id) ==
    IF id \in DOMAIN c.files
    THEN [hits |-> c.hits, pos |-> ResumePos(c, id), first |-> c.files[id].first,
          last |-> c.files[id].last, firstKey |-> c.files[id].firstKey,
          latest |-> c.files[id].lastKey]
    ELSE [hits |-> c.hits, pos |-> 0, first |-> Far, last |-> 0,
          firstKey |-> Far, latest |-> Unset]

ScanFile(s, name, id) ==
    FoldLeft(LAMBDA acc, t : CacheLine(acc, t, id, logFiles[name].id), s,
             SubSeq(logFiles[name].lines, s.pos + 1, Len(logFiles[name].lines)))

\* The cache with what a scan found.
WithScan(c, name, id, s) ==
    [c EXCEPT
       !.hits = s.hits,
       !.files = [i \in DOMAIN c.files \cup {id} |->
           IF i = id
           THEN [name |-> name, first |-> s.first, last |-> s.last,
                 firstKey |-> s.firstKey, lastKey |-> s.latest]
           ELSE c.files[i]],
       !.first = IF s.firstKey < @ THEN s.firstKey ELSE @,
       !.last = IF s.latest > @ THEN s.latest ELSE @]

AddNumbered(c, name, id) == WithScan(c, name, id, ScanFile(ScanStart(c, id), name, id))

AddFileToCache(c, name) ==
    IF name \notin Listed THEN c
    ELSE AddNumbered(c, name, IF Resumes(c, name) = {} THEN NextFileID(c)
                              ELSE CHOOSE i \in Resumes(c, name) : TRUE)

\* The line at the position of the file's last window is the one recorded.
CheckLogFileIntegrity(c, i, name) ==
    /\ name \in Listed
    /\ c.files[i].lastKey \in DOMAIN c.hits
    /\ LET hit == c.hits[c.files[i].lastKey]
       IN  /\ hit.pos < Len(logFiles[name].lines)
           /\ logFiles[name].lines[hit.pos + 1] = hit.ts

GetLogfilesNotInCache(c) == Listed \ {c.files[i].name : i \in DOMAIN c.files}

\* A file that is not in the cache may be one that is, renamed.
AddMissing(c, name) ==
    AddFileToCache(
        [c EXCEPT !.files = [i \in DOMAIN c.files |->
            IF c.files[i].name # name /\ CheckLogFileIntegrity(c, i, name)
            THEN [c.files[i] EXCEPT !.name = name] ELSE c.files[i]]], name)

AddsMissing(c, up) ==
    FoldLeft(AddMissing, c, SetToSortSeq(GetLogfilesNotInCache(c),
                                         LAMBDA a, b : IF up THEN a < b ELSE b < a))

\* A third pass only when two have left a file out; it alone sorts the files.
LastPass(c, up) ==
    IF GetLogfilesNotInCache(c) = {} THEN c ELSE SetFileOrder(AddsMissing(c, up))

AddMissingFiles(c, up) == LastPass(AddsMissing(AddsMissing(c, up), up), up)

\* The windows in which nothing was logged lead to the next line.
FillGaps(c) ==
    LET next(k) == {n \in DOMAIN c.hits : n > k}
        gaps    == {k \in 0..LogTicks : /\ k % Fidelity = 0 /\ k \notin DOMAIN c.hits
                                        /\ next(k) # {} /\ \E n \in DOMAIN c.hits : n < k}
    IN  [c EXCEPT !.hits = [k \in DOMAIN c.hits \cup gaps |->
             IF k \in gaps THEN c.hits[Min(next(k))] ELSE c.hits[k]]]

Reordered(c) == IF Cardinality(DOMAIN c.files) # Len(c.order) THEN SetFileOrder(c) ELSE c

FilesChecked(c) ==
    IF \A i \in DOMAIN c.files : CheckLogFileIntegrity(c, i, c.files[i].name)
    THEN [cache |-> FillGaps(c), good |-> TRUE]
    ELSE [cache |-> c, good |-> FALSE]

\* The cache checkCacheIntegrity leaves, and whether it is good. Without a log
\* file it gives up before the files are ordered.
CheckCacheIntegrity(c, up) ==
    IF MainLog \in Listed
    THEN FilesChecked(Reordered(AddFileToCache(AddMissingFiles(c, up), MainLog)))
    ELSE [cache |-> AddMissingFiles(c, up), good |-> FALSE]

\* History: a scan resumed at a position that was recorded for other content.
Misplacing(c) ==
    \/ \E n \in GetLogfilesNotInCache(c) : \E i \in DOMAIN c.files :
           CheckLogFileIntegrity(c, i, n)
           /\ LET hit == c.hits[c.files[i].lastKey]
              IN  hit.of # logFiles[n].id
    \/ \E i \in DOMAIN c.files : /\ c.files[i].name \in Listed
                                 /\ Misplaces(c, c.files[i].name)

-----------------------------------------------------------------------------
(* A request for the log between start and end.                             *)

Logged(start, end) ==
    {t \in start + 1 .. end - 1 :
        \E n \in Listed : \E i \in DOMAIN logFiles[n].lines : logFiles[n].lines[i] = t}

Idle == [at |-> "idle", start |-> 0, end |-> 0, todo |-> <<>>, cache |-> <<>>,
         found |-> <<>>, had |-> {}, disturbed |-> FALSE]

CacheChecked(r, check, next) ==
    /\ logCache' = check.cache
    /\ savedCache' = IF check.good THEN check.cache ELSE savedCache
    /\ misplaced' = (misplaced \/ Misplacing(logCache))
    /\ reads' = [reads EXCEPT ![r] = [next EXCEPT
           !.at = IF check.good THEN (IF next.end = 0 THEN "idle" ELSE "get") ELSE "build"]]

GetLogs(r, start, end, up) ==
    /\ reads[r].at = "idle"
    /\ CacheChecked(r, CheckCacheIntegrity(logCache, up), [Idle EXCEPT
           !.start = start, !.end = end,
           !.had = Logged(start, end)])
    /\ UNCHANGED <<logClock, logFiles, logger, limits, logFaults>>

\* buildCache reads the directory and then file after file, without the lock.
BuildCacheStarts(r) ==
    /\ reads[r].at = "build"
    /\ reads' = [reads EXCEPT ![r].at = "building", ![r].cache = NewCache,
                              ![r].todo = SetToSortSeq(Listed, LAMBDA a, b :
                                  a # MainLog /\ (b = MainLog \/ a < b))]
    /\ UNCHANGED <<logClock, logFiles, logger, limits, logCache, savedCache,
                   misplaced, logFaults>>

BuildCacheAdds(r) ==
    /\ reads[r].at = "building" /\ reads[r].todo # <<>>
    /\ reads' = [reads EXCEPT ![r].todo = Tail(@),
                              ![r].cache = AddFileToCache(@, Head(reads[r].todo))]
    /\ UNCHANGED <<logClock, logFiles, logger, limits, logCache, savedCache,
                   misplaced, logFaults>>

BuildCache(r) ==
    /\ reads[r].at = "building" /\ reads[r].todo = <<>>
    /\ logCache' = SetFileOrder(reads[r].cache)
    /\ savedCache' = logCache'
    /\ reads' = [reads EXCEPT ![r] =
           IF reads[r].end = 0 THEN Idle
           ELSE [@ EXCEPT !.at = "get", !.cache = <<>>]]
    /\ UNCHANGED <<logClock, logFiles, logger, limits, misplaced, logFaults>>

StartKey(c, start) ==
    CASE start < c.first -> c.first
      [] start > c.last -> c.last
      [] OTHER -> Key(start)

\* The lines of a file from a position on, and whether the end of the range
\* was passed.
GetMatchingLogsOneFile(name, pos, start, end) ==
    LET lines == SubSeq(logFiles[name].lines, pos + 1, Len(logFiles[name].lines))
        past  == {i \in DOMAIN lines : lines[i] > end}
        upto  == IF past = {} THEN lines ELSE SubSeq(lines, 1, Min(past) - 1)
    IN  [found |-> SelectSeq(upto, LAMBDA t : t > start /\ t < end),
         done  |-> past # {}]

GetNextFileIdx(c, i) ==
    LET at == {k \in DOMAIN c.order : c.order[k] = i /\ k < Len(c.order)}
    IN  IF at = {} THEN -1 ELSE c.order[Min(at) + 1]

\* The lock is held from the lookup of the start to the last file read.
RECURSIVE ReadFrom(_, _, _, _, _)
ReadFrom(i, pos, start, end, found) ==
    LET name == logCache.files[i].name
        one  == GetMatchingLogsOneFile(name, pos, start, end)
        all  == found \o one.found
        next == GetNextFileIdx(logCache, i)
    IN  IF i \notin DOMAIN logCache.files \/ name \notin Listed THEN [found |-> found, failed |-> TRUE]
        ELSE IF one.done \/ next = -1 THEN [found |-> all, failed |-> FALSE]
        ELSE ReadFrom(next, 0, start, end, all)

ReadLogs(r) ==
    LET key  == StartKey(logCache, reads[r].start)
        hit  == logCache.hits[key]
        res  == IF key \notin DOMAIN logCache.hits THEN [found |-> <<>>, failed |-> TRUE]
                ELSE ReadFrom(hit.file, hit.pos, reads[r].start, reads[r].end, <<>>)
    IN  /\ reads[r].at = "get"
        /\ reads' = [reads EXCEPT ![r].at = IF res.failed THEN "failed" ELSE "done",
                                  ![r].found = res.found]
        /\ UNCHANGED <<logClock, logFiles, logger, limits, logCache, savedCache,
                       misplaced, logFaults>>

Answered(r) ==
    /\ reads[r].at \in {"failed", "done"}
    /\ reads' = [reads EXCEPT ![r] = Idle]
    /\ UNCHANGED <<logClock, logFiles, logger, limits, logCache, savedCache,
                   misplaced, logFaults>>

\* A restart loads the cache that was saved, or builds it when there is none
\* or the crash left half of it. Position 0 of `end` marks a load.
CacheLoaded(r, check) ==
    /\ logCache' = check.cache
    /\ savedCache' = IF check.good THEN check.cache ELSE savedCache
    /\ misplaced' = (misplaced \/ Misplacing(savedCache))
    /\ reads' = [x \in LogReaders |->
           IF x = r /\ ~check.good THEN [Idle EXCEPT !.at = "build"] ELSE Idle]

CacheUnreadable(r, torn) ==
    /\ logCache' = NewCache
    /\ savedCache' = IF torn THEN <<>> ELSE savedCache
    /\ reads' = [x \in LogReaders |-> IF x = r THEN [Idle EXCEPT !.at = "build"] ELSE Idle]
    /\ UNCHANGED misplaced

LoadCache(torn) ==
    LET r == CHOOSE x \in LogReaders : TRUE
    IN  /\ logFaults < LogFaults
        /\ logFaults' = logFaults + 1
        /\ logger' = [logger EXCEPT !.open = FALSE, !.mill = FALSE]
        /\ IF torn \/ savedCache = <<>> THEN CacheUnreadable(r, torn)
           ELSE CacheLoaded(r, CheckCacheIntegrity(savedCache, TRUE))
        /\ UNCHANGED <<logClock, logFiles, limits>>

-----------------------------------------------------------------------------
LogsInit ==
    /\ logClock = 1
    /\ logFiles = <<>>
    /\ logger = [open |-> FALSE, wrote |-> 0, mill |-> FALSE]
    /\ limits \in LogLimits
    /\ logCache = [hits |-> <<>>, files |-> <<>>, order |-> <<>>,
                   first |-> 0, last |-> Unset]
    /\ savedCache = <<>>
    /\ reads = [r \in LogReaders |-> Idle]
    /\ misplaced = FALSE
    /\ logFaults = 0

LogRequest(r) ==
    \/ \E q \in LogRanges, up \in BOOLEAN : GetLogs(r, q[1], q[2], up)
    \/ BuildCacheStarts(r) \/ BuildCacheAdds(r) \/ BuildCache(r)
    \/ ReadLogs(r) \/ Answered(r)

LogsNext ==
    \/ Write \/ MillRunOnce \/ DeleteLog \/ SetSettings \/ LogTick
    \/ \E torn \in BOOLEAN : LoadCache(torn)
    \/ \E r \in LogReaders : LogRequest(r)

-----------------------------------------------------------------------------
LogsTypeOK ==
    /\ logClock \in 1..LogTicks
    /\ \A n \in Listed : logFiles[n].lines \in Seq(0..LogTicks)
    /\ limits \in LogLimits
    /\ \A k \in DOMAIN logCache.hits :
         k % Fidelity = 0 /\ logCache.hits[k].file \in DOMAIN logCache.files
    /\ misplaced \in BOOLEAN

\* A request that succeeds returns every line of the range that was in the
\* files when it came, none twice and in order, whatever was rotated, removed
\* by the mill, deleted or reloaded before (file.go, GetLogs). Two things are
\* left out: files moved while the request runs, and a scan that resumed at a
\* position recorded for another file's lines.
LookupsComplete ==
    \A r \in LogReaders :
        reads[r].at = "done" /\ ~reads[r].disturbed /\ ~misplaced =>
            LET found == {reads[r].found[i] : i \in DOMAIN reads[r].found}
            IN  /\ reads[r].had \subseteq found
                /\ found \subseteq Logged(reads[r].start, reads[r].end)
                /\ \A i, j \in DOMAIN reads[r].found :
                     i < j => reads[r].found[i] < reads[r].found[j]
=============================================================================
