------------------------------ MODULE LogFiles ------------------------------
(***************************************************************************)
(* The log files of the API process.  The application and the audit log    *)
(* have a writer each, which SIGHUP replaces; a project log has a writer   *)
(* made on first use and kept.  Loggers are values: the process keeps the  *)
(* one it got at start, a request the one it got when it asked.  Files are *)
(* renamed by a writer that rotates, or from outside.                      *)
(***************************************************************************)
EXTENDS Naturals, Sequences, SequencesExt

CONSTANTS
    Global,       \* logs with a global logger: "app" and "audit"
    MaxReopens,   \* bound on the SIGHUPs of a behaviour
    MaxRenames,   \* bound on the renames of files
    MaxSegment    \* bound on the length of an id

ASSUME LogAssumption ==
    "app" \in Global /\ "project" \notin Global /\ {MaxReopens, MaxRenames, MaxSegment} \subseteq Nat

VARIABLES
    named,    \* the file under each log's name, 0 when there is none
    files_,   \* files created so far
    writers,  \* per log, the file each of its writers has open, 0 when none
    current,  \* per log, the writer behind the global logger, 0: standard output
    kept,     \* the writers behind loggers someone kept: at boot, in a request
    reopen,   \* where Reopen is: "no", "closed"
    reopens,  \* SIGHUPs so far
    renames,  \* renames so far
    moved,    \* history: per log, it was renamed since its writer was made
    line,     \* history: the last line written
    ids       \* a project id and an app id, and the path they gave

logVars == <<named, files_, writers, current, kept, reopen, reopens, renames, moved, line, ids>>

Logs == Global \cup {"project"}

-----------------------------------------------------------------------------
(* Ids and paths.  An id is a sequence of character classes.               *)
Blank == " "
Letters == {"a", "b"}
Clean(seg) == IF seg = <<>> THEN <<".">> ELSE seg
Dots == {<<".">>, <<".", ".">>}

TrimSpace(s) ==
    LET solid == {i \in DOMAIN s : s[i] # Blank}
    IN  IF solid = {} THEN <<>>
        ELSE LET first == CHOOSE i \in solid : \A j \in solid : i <= j
                 last == CHOOSE i \in solid : \A j \in solid : j <= i
             IN  SubSeq(s, first, last)

sanitizeSegment(id) ==
    LET trimmed == TrimSpace(id)
    IN  [ok |-> /\ trimmed # <<>> /\ "/" \notin {trimmed[i] : i \in DOMAIN trimmed}
                /\ Clean(trimmed) \notin Dots /\ Clean(trimmed) = trimmed
                /\ \A i \in DOMAIN trimmed : trimmed[i] \in Letters \cup {".", "-", "_"},
         seg |-> trimmed]

\* Where the operating system ends up from the root.
Resolve(parts) ==
    FoldLeft(LAMBDA at, p : IF p = <<".">> THEN at
                            ELSE IF p = <<".", ".">> THEN (IF at = <<>> THEN <<>> ELSE Front(at))
                            ELSE Append(at, p),
             <<>>, parts)

Root_ == <<<<"root">>>>

\* The path is refused when an id is, or when it would leave the root.
joinWithinRoot(parts) ==
    LET path == Resolve(Root_ \o parts)
    IN  IF IsPrefix(Root_, path) THEN path ELSE <<>>

\* EnsureApp and AppLogger: projects/<project>/apps/<app>/app.log.
AppPath(project, app) ==
    LET p == sanitizeSegment(project) a == sanitizeSegment(app)
    IN  IF p.ok /\ a.ok
          THEN joinWithinRoot(<<<<"projects">>, p.seg, <<"apps">>, a.seg, <<"app.log">>>>)
          ELSE <<>>

Ids == UNION {[1..n -> {"a", ".", "-", "/", Blank}] : n \in 0..MaxSegment}

NoIds == [asked |-> FALSE, project |-> <<>>, app |-> <<>>, path |-> <<>>]
NoLine == [log |-> "none", by |-> "none", hit |-> TRUE, moved |-> FALSE]

EnsureApp ==
    /\ ids = NoIds /\ line = NoLine /\ reopens = 0 /\ current["project"] = 0
    /\ \E p, a \in Ids : ids' = [asked |-> TRUE, project |-> p, app |-> a, path |-> AppPath(p, a)]
    /\ UNCHANGED <<named, files_, writers, current, kept, reopen, reopens, renames, moved, line>>

-----------------------------------------------------------------------------
LogInit ==
    /\ named = [l \in Logs |-> 0] /\ files_ = 0
    /\ writers = [l \in Logs |-> IF l = "project" THEN <<>> ELSE <<0>>]
    /\ current = [l \in Logs |-> IF l = "project" THEN 0 ELSE 1]
    /\ kept = [boot |-> 1, request |-> 1]
    /\ reopen = "no" /\ reopens = 0 /\ renames = 0
    /\ moved = [l \in Logs |-> FALSE]
    /\ line = NoLine
    /\ ids = NoIds

\* lumberjack (external): a writer with no open file opens the one under its
\* name, or creates it.
Put(l, w, by) ==
    /\ ids = NoIds
    /\ IF w = 0
         THEN /\ line' = [log |-> l, by |-> by, hit |-> TRUE, moved |-> FALSE]
              /\ UNCHANGED <<named, files_, writers>>
         ELSE LET fresh == writers[l][w] = 0 /\ named[l] = 0
                  file == IF fresh THEN files_ + 1
                          ELSE IF writers[l][w] = 0 THEN named[l] ELSE writers[l][w]
              IN  /\ files_' = IF fresh THEN files_ + 1 ELSE files_
                  /\ named' = IF fresh THEN [named EXCEPT ![l] = file] ELSE named
                  /\ writers' = [writers EXCEPT ![l][w] = file]
                  /\ line' = [log |-> l, by |-> by, hit |-> file = named'[l], moved |-> moved[l]]
    /\ UNCHANGED <<current, kept, reopen, reopens, renames, moved, ids>>

\* L() and Audit().
LogCurrent(l) == l \in Global /\ Put(l, current[l], "current")
\* The logger main keeps for the scheduler, and one a request asked for earlier.
LogKept(k) == Put("app", kept[k], k)
Ask == /\ kept.request # current["app"]
       /\ kept' = [kept EXCEPT !.request = current["app"]]
       /\ UNCHANGED <<named, files_, writers, current, reopen, reopens, renames, moved, line, ids>>

\* Mutant: every call makes a writer.
getLoggerAnew(w) ==
    /\ ids = NoIds /\ Len(writers["project"]) < 2
    /\ writers' = [writers EXCEPT !["project"] = Append(@, 0)]
    /\ current' = [current EXCEPT !["project"] = Len(writers'["project"])]
    /\ UNCHANGED <<named, files_, kept, reopen, reopens, renames, moved, line, ids>>

\* ProjectLogger: under the mutex, the writer of the handle or a new one.
getLogger(w) ==
    /\ ids = NoIds /\ current["project"] = 0
    /\ writers' = [writers EXCEPT !["project"] = <<0>>]
    /\ current' = [current EXCEPT !["project"] = w]
    /\ UNCHANGED <<named, files_, kept, reopen, reopens, renames, moved, line, ids>>

LogProject(w) == w \in DOMAIN writers["project"] /\ Put("project", w, "project")

\* lumberjack (external): a full file is renamed by the writer that fills it,
\* which goes on in a new one under the name.
rotate(l, w) ==
    /\ renames < MaxRenames /\ w \in DOMAIN writers[l] /\ writers[l][w] # 0
    /\ renames' = renames + 1
    /\ files_' = files_ + 1
    /\ named' = [named EXCEPT ![l] = files_ + 1]
    /\ writers' = [writers EXCEPT ![l][w] = files_ + 1]
    /\ moved' = [moved EXCEPT ![l] = @ \/ w # current[l]]
    /\ UNCHANGED <<current, kept, reopen, reopens, line, ids>>

\* A file is renamed from outside, before the SIGHUP.
Rename(l) ==
    /\ renames < MaxRenames /\ named[l] # 0
    /\ renames' = renames + 1
    /\ named' = [named EXCEPT ![l] = 0]
    /\ moved' = [moved EXCEPT ![l] = TRUE]
    /\ UNCHANGED <<files_, writers, current, kept, reopen, reopens, line, ids>>

\* Reopen: the writers are closed ...
Reopen ==
    /\ ids = NoIds /\ reopen = "no" /\ reopens < MaxReopens
    /\ reopen' = "closed" /\ reopens' = reopens + 1
    /\ writers' = [l \in Logs |-> IF l \in Global /\ current[l] # 0
                                    THEN [writers[l] EXCEPT ![current[l]] = 0] ELSE writers[l]]
    /\ UNCHANGED <<named, files_, current, kept, renames, moved, line, ids>>

\* ... and, while loggers already handed out may use them, new ones are made
\* and installed; standard output alone when the directory cannot be made.
rebuildLocked ==
    /\ reopen = "closed" /\ reopen' = "no"
    /\ \/ /\ writers' = [l \in Logs |-> IF l \in Global THEN Append(writers[l], 0) ELSE writers[l]]
          /\ current' = [l \in Logs |-> IF l \in Global THEN Len(writers'[l]) ELSE current[l]]
       \/ /\ current' = [l \in Logs |-> IF l \in Global THEN 0 ELSE current[l]]
          /\ UNCHANGED writers
    /\ moved' = [l \in Logs |-> IF l \in Global THEN FALSE ELSE moved[l]]
    /\ UNCHANGED <<named, files_, kept, reopens, renames, line, ids>>

LogNext ==
    \/ EnsureApp
    \/ \E l \in Global : LogCurrent(l)
    \/ \E k \in {"boot", "request"} : LogKept(k)
    \/ Ask \/ getLogger(1)
    \/ \E w \in 1..2 : LogProject(w)
    \/ \E l \in Logs : Rename(l) \/ \E w \in 1..MaxReopens + 1 : rotate(l, w)
    \/ Reopen \/ rebuildLocked

LogSpec == LogInit /\ [][LogNext]_logVars

-----------------------------------------------------------------------------
\* A line written through the global logger of a log, or through the project
\* logger, is in the file under the log's name, unless that was renamed since
\* (rebuildLocked, getLogger, rotate).
LinesHitFile == line.by \in {"current", "project"} /\ ~line.moved => line.hit

\* Ids that are accepted keep their own directory inside the root: no path
\* climbs out of it or falls on that of other ids (sanitizeSegment,
\* joinWithinRoot, EnsureApp).
PathsKeepIds ==
    ids.path # <<>> =>
        ids.path = Root_ \o <<<<"projects">>, TrimSpace(ids.project), <<"apps">>,
                              TrimSpace(ids.app), <<"app.log">>>>

\* A line of the application or the audit log written through the global
\* logger is in the file under the log's name, unless the file was renamed
\* since the last SIGHUP by someone other than that logger; so is a line of a
\* project log unless it was renamed from outside, as SIGHUP does not reach
\* project logs.  Loggers handed out before the SIGHUP are not covered: they
\* keep a writer of their own.  The name of a log is that of its own ids
\* (rebuildLocked, getLogger, EnsureApp).
LinesReachNamedFile ==
    LinesHitFile /\ PathsKeepIds
=============================================================================
