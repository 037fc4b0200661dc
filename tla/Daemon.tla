--------------------------------- MODULE Daemon ---------------------------------
(***************************************************************************)
(* Becoming a daemon and the PID file (src/daemon.c), as a server uses      *)
(* them (examples/http_server/main.c, lines 67 to 148).  A launch looks     *)
(* whether a server is running, forks twice and, as the father, waits to    *)
(* hear of the daemon over a pipe; the daemon writes the PID file, runs and *)
(* removes the file.  Launches may overlap, processes may be killed         *)
(* anywhere, and the PID of a dead process may belong to another program.   *)
(*                                                                         *)
(* A PID is the launch it belongs to, a file is the launch that created it. *)
(* The lock of a file is the process's: it goes when the process does.      *)
(*                                                                         *)
(* An operator that is not reached from DaemonNext is the next definition   *)
(* with a bug in it; the properties are known to catch it.                  *)
(***************************************************************************)
EXTENDS Naturals, Sequences, FiniteSets

CONSTANTS
  Launch,       \* starts of the server
  Old,          \* a PID file from before
  MaxFaults,    \* bound: processes that are killed and checks that fail
  MaxReused,    \* bound: PIDs that are used again
  Nil

VARIABLES
  father,       \* where the first process of each launch is
  child,        \* where the first child is
  daemon,       \* where the second child is
  pipe,         \* what has been written into the pipe of each launch
  writers,      \* the processes that hold its writing end
  result,       \* what ft_daemonise returns to the father, or "refused"
  path,         \* the file the name of the PID file refers to
  content,      \* of each file: Nil, "empty", "corrupt" or a PID
  lock,         \* of each file: the launches that hold a lock on it, and of which kind
  fd,           \* the file a launch has open
  reused,       \* PIDs of dead daemons that belong to other programs
  overlap,      \* history: a launch began before another was settled
  misled,       \* history: the check of a launch failed while a server was running
  faults, reuses

procs == <<father, child, daemon>>
talk == <<pipe, writers, result>>
files == <<path, content, lock, fd>>
bounds == <<overlap, misled, faults, reuses>>
daemonVars == <<procs, talk, files, reused, bounds>>

File == Launch \cup {Old}
ASSUME DaemonAssumption == Nil \notin File \cup {"refused", "failed", "pid"}
At(where, l, here, there) == where[l] = here /\ where' = [where EXCEPT ![l] = there]

DaemonInit ==
  /\ father = [l \in Launch |-> "none"]
  /\ child = [l \in Launch |-> "none"]
  /\ daemon = [l \in Launch |-> "none"]
  /\ pipe = [l \in Launch |-> <<>>] /\ writers = [l \in Launch |-> {}]
  /\ result = [l \in Launch |-> Nil]
  /\ \E old \in {Nil, "empty", "corrupt"} :
       /\ path = IF old = Nil THEN Nil ELSE Old
       /\ content = [f \in File |-> IF f = Old THEN old ELSE Nil]
  /\ lock = [f \in File |-> {}] /\ fd = [l \in Launch |-> Nil]
  /\ reused = {} /\ overlap = FALSE /\ misled = FALSE /\ faults = 0 /\ reuses = 0
-----------------------------------------------------------------------------
\* A launch is settled when its father has ended, and its daemon runs or is gone.
Settled(l) == father[l] \in {"none", "end"} /\ daemon[l] \in {"none", "run", "gone"}
              /\ child[l] \in {"none", "gone"}

\* ft_pidfile_filename, of main().
Begin(l) ==
  /\ At(father, l, "none", "open")
  /\ overlap' = (overlap \/ \E k \in Launch \ {l} : ~Settled(k))
  /\ UNCHANGED <<child, daemon, talk, files, reused, misled, faults, reuses>>

\* pidfile_lock waits for the lock: a write lock, or a read lock if the file is
\* open for reading only.
Lock(l, kind) ==
  /\ \A h \in lock[fd[l]] : kind = "read" /\ h[2] = "read"
  /\ lock' = [lock EXCEPT ![fd[l]] = @ \cup {<<l, kind>>}]
UnlockAndClose(l) ==
  /\ lock' = [f \in File |-> {h \in lock[f] : h[1] # l}]
  /\ fd' = [fd EXCEPT ![l] = Nil]
\* unlink() of the name; nobody looks whether it fails.
Unlink == path' \in {Nil, path}

\* kill(pid, 0).  An empty file reads as PID 0, the group of the caller.
Alive(pid) == \/ pid = "empty"
              \/ pid \in Launch /\ (daemon[pid] \notin {"none", "gone"} \/ pid \in reused)

\* ft_pidfile_is_running
CheckOpens(l) ==
  /\ father[l] = "open"
  /\ father' = [father EXCEPT ![l] = IF path = Nil THEN "daemonise" ELSE "lock"]
  /\ fd' = [fd EXCEPT ![l] = path]
  /\ UNCHANGED <<child, daemon, talk, path, content, lock, reused, bounds>>
CheckLocks(l) ==
  /\ At(father, l, "lock", "verify")
  /\ \E kind \in {"write", "read"} : Lock(l, kind)
  /\ UNCHANGED <<child, daemon, talk, path, content, fd, reused, bounds>>
\* The file cannot be opened, locked or read (and then it is unlinked).  The check
\* returns -1, which main() takes for "not running".
CheckFails(l) ==
  /\ \/ At(father, l, "open", "daemonise")
     \/ At(father, l, "lock", "dead")
     \/ At(father, l, "verify", "unlink")
  /\ faults < MaxFaults /\ faults' = faults + 1
  /\ misled' = (misled \/ \E k \in Launch : daemon[k] = "run")
  /\ UNCHANGED <<child, daemon, talk, files, reused, overlap, reuses>>
CheckVerifies(l) ==
  /\ father[l] = "verify"
  /\ father' = [father EXCEPT ![l] = IF Alive(content[fd[l]]) THEN "alive" ELSE "unlink"]
  /\ UNCHANGED <<child, daemon, talk, files, reused, bounds>>
CheckUnlinks(l) ==
  /\ At(father, l, "unlink", "dead")
  /\ Unlink
  /\ UNCHANGED <<child, daemon, talk, content, lock, fd, reused, bounds>>
CheckEnds(l) ==
  /\ UnlockAndClose(l)
  /\ \/ At(father, l, "dead", "daemonise") /\ UNCHANGED result
     \/ /\ At(father, l, "alive", "end")
        /\ result' = [result EXCEPT ![l] = "refused"]
  /\ UNCHANGED <<child, daemon, pipe, writers, path, content, reused, bounds>>
-----------------------------------------------------------------------------
\* ft_daemonise.  atomic_write of a PID or of -1, and the closing of the pipe.
Hear(l, x) == pipe' = [pipe EXCEPT ![l] = Append(@, x)]
Drops(l, who) == writers' = [writers EXCEPT ![l] = @ \ {who}]

ForkFails(l) ==
  /\ At(father, l, "daemonise", "end")
  /\ result' = [result EXCEPT ![l] = "failed"]
  /\ UNCHANGED <<child, daemon, pipe, writers, files, reused, bounds>>

\* The father closes its writing end, or it would never see the end of the pipe.
ForkKeepsEnd(l) ==
  /\ At(father, l, "daemonise", "wait") /\ At(child, l, "none", "setup")
  /\ writers' = [writers EXCEPT ![l] = {"father", "child"}]
  /\ UNCHANGED <<daemon, pipe, result, files, reused, bounds>>
Fork(l) ==
  /\ At(father, l, "daemonise", "wait") /\ At(child, l, "none", "setup")
  /\ writers' = [writers EXCEPT ![l] = {"child"}]
  /\ UNCHANGED <<daemon, pipe, result, files, reused, bounds>>

\* "fail:", in the child and in the daemon.
ChildFails(l) ==
  /\ At(child, l, "setup", "gone")
  /\ Hear(l, "failed") /\ Drops(l, "child")
  /\ UNCHANGED <<father, daemon, result, files, reused, bounds>>
DaemonFails(l) ==
  /\ At(daemon, l, "setup", "gone") \/ At(daemon, l, "told", "gone")
  /\ Hear(l, "failed") /\ Drops(l, "daemon")
  /\ UNCHANGED <<father, child, result, files, reused, bounds>>

\* The child becomes a session leader and forks again; then it exits.
ChildForks(l) ==
  /\ At(child, l, "setup", "forked") /\ At(daemon, l, "none", "setup")
  /\ writers' = [writers EXCEPT ![l] = @ \cup {"daemon"}]
  /\ UNCHANGED <<father, pipe, result, files, reused, bounds>>
ChildExits(l) ==
  /\ At(child, l, "forked", "gone")
  /\ Drops(l, "child")
  /\ UNCHANGED <<father, daemon, pipe, result, files, reused, bounds>>

\* Without a reader the write fails; SIGPIPE is ignored (ft_initialise).
DaemonTells(l) ==
  /\ father[l] # "end"
  /\ At(daemon, l, "setup", "told")
  /\ Hear(l, "pid")
  /\ UNCHANGED <<father, child, writers, result, files, reused, bounds>>
DaemonCloses(l) ==
  /\ At(daemon, l, "told", "open")
  /\ Drops(l, "daemon")
  /\ UNCHANGED <<father, child, pipe, result, files, reused, bounds>>

\* waitpid, and atomic_read, which returns when there is a PID or nobody is left
\* to write one.
FatherWaits(l) ==
  /\ child[l] = "gone"
  /\ At(father, l, "wait", "read")
  /\ UNCHANGED <<child, daemon, talk, files, reused, bounds>>

Answer(l) == IF pipe[l] = <<>> THEN "failed" ELSE Head(pipe[l])
FatherReadsAtOnce(l) ==
  /\ At(father, l, "read", "returned")
  /\ result' = [result EXCEPT ![l] = Answer(l)]
  /\ UNCHANGED <<child, daemon, pipe, writers, files, reused, bounds>>
FatherReads(l) ==
  /\ pipe[l] # <<>> \/ writers[l] = {}
  /\ At(father, l, "read", "returned")
  /\ result' = [result EXCEPT ![l] = Answer(l)]
  /\ UNCHANGED <<child, daemon, pipe, writers, files, reused, bounds>>

\* main() of the father returns.
FatherEnds(l) ==
  /\ At(father, l, "returned", "end")
  /\ UNCHANGED <<child, daemon, talk, files, reused, bounds>>
-----------------------------------------------------------------------------
\* ft_pidfile_create: the file is made or kept, locked and written.
CreateOpens(l) ==
  /\ At(daemon, l, "open", "lock")
  /\ IF path = Nil THEN path' = l /\ content' = [content EXCEPT ![l] = "empty"]
     ELSE UNCHANGED <<path, content>>
  /\ fd' = [fd EXCEPT ![l] = path']
  /\ UNCHANGED <<father, child, talk, lock, reused, bounds>>
CreateLocks(l) ==
  /\ At(daemon, l, "lock", "write")
  /\ Lock(l, "write")
  /\ UNCHANGED <<father, child, talk, path, content, fd, reused, bounds>>
CreateWritesFather(l) ==   \* a PID taken before the forks is nobody's
  /\ At(daemon, l, "write", "unlock")
  /\ content' = [content EXCEPT ![fd[l]] = "corrupt"]
  /\ UNCHANGED <<father, child, talk, path, lock, fd, reused, bounds>>
CreateWrites(l) ==
  /\ At(daemon, l, "write", "unlock")
  /\ content' = [content EXCEPT ![fd[l]] = l]
  /\ UNCHANGED <<father, child, talk, path, lock, fd, reused, bounds>>
CreateEnds(l) ==
  /\ At(daemon, l, "unlock", "run")
  /\ UnlockAndClose(l)
  /\ UNCHANGED <<father, child, talk, path, content, reused, bounds>>

\* The server does not go on without a PID file: it could not be opened, or not
\* locked or written and then it is removed.
CreateFails(l) ==
  /\ \/ At(daemon, l, "open", "gone") /\ UNCHANGED path
     \/ (At(daemon, l, "lock", "gone") \/ At(daemon, l, "write", "gone")) /\ Unlink
  /\ UnlockAndClose(l)
  /\ UNCHANGED <<father, child, talk, content, reused, bounds>>

\* The server ends: ft_pidfile_remove.
Stop(l) ==
  /\ At(daemon, l, "run", "gone")
  /\ Unlink
  /\ UNCHANGED <<father, child, talk, content, lock, fd, reused, bounds>>
-----------------------------------------------------------------------------
\* A process is killed: the kernel closes what it has open.
Kill(l, who) ==
  /\ faults < MaxFaults /\ faults' = faults + 1
  /\ \/ /\ who = "child" /\ child[l] \in {"setup", "forked"}
        /\ child' = [child EXCEPT ![l] = "gone"]
        /\ UNCHANGED <<father, daemon, lock, fd>>
     \/ /\ who = "daemon" /\ daemon[l] \notin {"none", "gone"}
        /\ daemon' = [daemon EXCEPT ![l] = "gone"]
        /\ UnlockAndClose(l)
        /\ UNCHANGED <<father, child>>
     \/ /\ who = "father" /\ father[l] \notin {"none", "end"}
        /\ father' = [father EXCEPT ![l] = "end"]
        /\ IF daemon[l] = "none" THEN UnlockAndClose(l) ELSE UNCHANGED <<lock, fd>>
        /\ UNCHANGED <<child, daemon>>
  /\ Drops(l, who)
  /\ UNCHANGED <<pipe, result, path, content, reused, overlap, misled, reuses>>

\* Other programs get the PID of a dead daemon, and end.
Reuse(l) ==
  /\ daemon[l] = "gone"
  /\ \/ /\ l \notin reused /\ reuses < MaxReused
        /\ reused' = reused \cup {l} /\ reuses' = reuses + 1
     \/ l \in reused /\ reused' = reused \ {l} /\ UNCHANGED reuses
  /\ UNCHANGED <<procs, talk, files, overlap, misled, faults>>

Father(l) == CheckOpens(l) \/ CheckLocks(l) \/ CheckVerifies(l) \/ CheckUnlinks(l)
             \/ CheckEnds(l) \/ ForkFails(l) \/ Fork(l) \/ FatherWaits(l)
             \/ FatherReads(l) \/ FatherEnds(l)
Child(l) == ChildFails(l) \/ ChildForks(l) \/ ChildExits(l)
Second(l) == DaemonFails(l) \/ DaemonTells(l) \/ DaemonCloses(l) \/ CreateOpens(l)
             \/ CreateLocks(l) \/ CreateWrites(l) \/ CreateEnds(l) \/ CreateFails(l)

DaemonNext ==
  \E l \in Launch :
    \/ Begin(l) \/ Father(l) \/ CheckFails(l) \/ Child(l) \/ Second(l) \/ Stop(l) \/ Reuse(l)
    \/ \E who \in {"father", "child", "daemon"} : Kill(l, who)

\* Processes run, and one that waits for a lock gets it some day.  No check need
\* fail.
DaemonSpec ==
  /\ DaemonInit /\ [][DaemonNext]_daemonVars
  /\ \A l \in Launch : SF_daemonVars(Father(l)) /\ SF_daemonVars(Second(l))
                       /\ WF_daemonVars(Child(l))
-----------------------------------------------------------------------------
\* The father is told the truth (ft_daemonise): when it hears of a failure no
\* daemon is left that could go on, and when it gets a PID the daemon has been
\* set up, whichever of the three processes are killed or fail on the way.
HandshakeTrue ==
  \A l \in Launch :
    /\ result[l] = "failed" => daemon[l] \in {"none", "gone"}
                               /\ child[l] \in {"none", "gone"}
    /\ result[l] = "pid" => daemon[l] \notin {"none", "setup"}

\* Launches that do not overlap start one server at most, and the PID file names
\* the server that runs, whatever is killed and whatever an earlier server has
\* left behind (ft_pidfile_is_running, ft_pidfile_create).  A check that fails does
\* no harm unless a server is running; then a second one may start.
Excused == overlap \/ misled
OneServer ==
  Excused \/
    /\ \A k, l \in Launch : daemon[k] = "run" /\ daemon[l] = "run" => k = l
    /\ \A l \in Launch : daemon[l] = "run" => path # Nil /\ content[path] = l

\* Every launch comes to its end, and begins only once: the pipe is closed in the
\* end by all that could write into it, and no lock is kept.
LaunchEnds == []<>(\A l \in Launch : father[l] \in {"none", "end"})
=============================================================================
