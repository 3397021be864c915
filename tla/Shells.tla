-------------------------------- MODULE Shells --------------------------------
(* Shells a planner asks Alethe to keep running: the records of the core     *)
(* (open_shell .. remove_shell in orchestrator_core.rs), the host that runs  *)
(* them (orchestrator_shell_host.rs) and the PTY sessions under it (pty.rs). *)
(*                                                                           *)
(* The calls of planners and of the board run on threads of their own, and   *)
(* hold no lock while they signal, wait, start and kill.  Each process has a *)
(* watcher, which drops its session once it ended, and a reader, which then  *)
(* announces the end to the listeners registered for the shell.  Whoever     *)
(* takes a session out of the map terminates it afterwards, with no lock     *)
(* held.  A process is named by its shell and the run it was started for.    *)
EXTENDS Integers, FiniteSets

CONSTANTS
    Threads,        \* threads that serve calls
    Commands,       \* a command line with its folder
    NoCommand,      \* no command
    MaxShells,      \* bound: shells opened
    MaxRuns,        \* bound: runs of a shell
    Events          \* the calls and faults this instance allows

ASSUME NoCommandIsNone == NoCommand \notin Commands
ASSUME BoundsAreNumbers == MaxShells \in Nat /\ MaxRuns \in Nat \ {0}

Ids == 1 .. MaxShells
Runs == 1 .. MaxRuns
Procs == Ids \X Runs

VARIABLES
    counter,    \* shell_counter
    status,     \* of the record of a shell; "none" when there is no record
    command,    \* what the shell was opened for
    run,        \* counts its starts
    thread,     \* what each thread is doing, for which shell and run
    session,    \* the run whose process has the session of a shell; 0: none
    root,       \* the run whose process is registered as the root of its tree
    ending,     \* how far terminate_session is with a session that was taken out
    phase,      \* of a process: unborn, alive, ended, announced
    watching,   \* processes whose watcher thread still runs
    listeners,  \* once-listeners for the exit of a shell: the runs they report
    exited,     \* PtyShellHost.exited: shells whose process has ended
    reports,    \* shell_exited calls under way
    calm        \* no two calls were ever under way for this shell at once

records == <<counter, status, command, run>>
ptys == <<session, root, ending, phase, watching>>
events == <<listeners, exited, reports>>
vars == <<records, thread, ptys, events, calm>>

Calls == {"open", "stop", "restart", "remove"}
Labels == {"idle", "register", "listen", "spawn", "insert", "mark", "signal",
           "grace", "forget", "kill", "release", "drain", "bump", "drop"}

TypeOK ==
    /\ counter \in 0 .. MaxShells
    /\ status \in [Ids -> {"none", "running", "exited", "stopped"}]
    /\ command \in [Ids -> Commands \cup {NoCommand}]
    /\ run \in [Ids -> 0 .. MaxRuns]
    /\ thread \in [Threads -> [pc : Labels, call : Calls, id : Ids \cup {0},
                               run : 0 .. MaxRuns, cmd : Commands \cup {NoCommand}]]
    /\ session \in [Ids -> 0 .. MaxRuns]
    /\ root \in [Ids -> 0 .. MaxRuns]
    /\ ending \in [Procs -> {"no", "tree", "child"}]
    /\ phase \in [Procs -> {"unborn", "alive", "ended", "announced"}]
    /\ watching \subseteq Procs
    /\ listeners \in [Ids -> SUBSET Runs]
    /\ exited \subseteq Ids
    /\ reports \subseteq Procs
    /\ calm \in [Ids -> BOOLEAN]

Idle == [pc |-> "idle", call |-> "open", id |-> 0, run |-> 0, cmd |-> NoCommand]

Init ==
    /\ counter = 0
    /\ status = [i \in Ids |-> "none"]
    /\ command = [i \in Ids |-> NoCommand]
    /\ run = [i \in Ids |-> 0]
    /\ thread = [t \in Threads |-> Idle]
    /\ session = [i \in Ids |-> 0]
    /\ root = [i \in Ids |-> 0]
    /\ ending = [p \in Procs |-> "no"]
    /\ phase = [p \in Procs |-> "unborn"]
    /\ watching = {}
    /\ listeners = [i \in Ids |-> {}]
    /\ exited = {}
    /\ reports = {}
    /\ calm = [i \in Ids |-> TRUE]

-----------------------------------------------------------------------------
At(t, l) == thread[t].pc = l
Goto(t, l) == thread' = [thread EXCEPT ![t].pc = l]
Returns(t) == thread' = [thread EXCEPT ![t] = Idle]

Busy(i) == {t \in Threads : thread[t].pc # "idle" /\ thread[t].id = i}

\* Thread t starts a call for shell i.
Starts(t, call, i, l) ==
    /\ thread' = [thread EXCEPT ![t] =
                      [pc |-> l, call |-> call, id |-> i, run |-> 0, cmd |-> NoCommand]]
    /\ calm' = [calm EXCEPT ![i] = @ /\ Busy(i) = {}]

Living == {p \in Procs : phase[p] = "alive"}

\* The phases once q has ended.
Ended(q) == [p \in Procs |-> IF p = q /\ p \in Living THEN "ended" ELSE phase[p]]

\* Processes whose session was taken out and is being terminated.
BeingKilled == {p \in Procs : ending[p] # "no"}

\* The session of shell i, if there is one, leaves the map.  Nothing is killed yet.
TakesOut(i) ==
    /\ session' = [session EXCEPT ![i] = 0]
    /\ ending' = [p \in Procs |-> IF p = <<i, session[i]>> THEN "tree" ELSE ending[p]]

\* A thread has started p and has yet to put its session into the map.
Inserting(i) == {t \in Threads : At(t, "insert") /\ thread[t].id = i}
IsComing(p) == \E t \in Inserting(p[1]) : thread[t].run = p[2]

-----------------------------------------------------------------------------
(* open_shell *)

\* The check for a running equivalent, in a lock section of its own.  When there
\* is one its owner becomes the caller and nothing else changes.
OpenLooks(t, c) ==
    /\ At(t, "idle")
    /\ counter + Cardinality({u \in Threads : At(u, "register")}) < MaxShells
    /\ ~\E i \in Ids : status[i] = "running" /\ command[i] = c
    /\ thread' = [thread EXCEPT ![t] = [Idle EXCEPT !.pc = "register", !.cmd = c]]
    /\ UNCHANGED <<records, ptys, events, calm>>

OpenRegisters(t) ==
    LET i == counter + 1 IN
    /\ At(t, "register")
    /\ counter' = i
    /\ status' = [status EXCEPT ![i] = "running"]
    /\ command' = [command EXCEPT ![i] = thread[t].cmd]
    /\ run' = [run EXCEPT ![i] = 1]
    /\ thread' = [thread EXCEPT ![t] =
                      [pc |-> "listen", call |-> "open", id |-> i, run |-> 1, cmd |-> NoCommand]]
    /\ UNCHANGED <<ptys, events, calm>>

\* host.open: the flag is cleared and a listener registered, then the PTY starts.
HostListens(t) ==
    LET i == thread[t].id IN
    /\ At(t, "listen")
    /\ exited' = exited \ {i}
    /\ listeners' = [listeners EXCEPT ![i] = @ \cup {thread[t].run}]
    /\ Goto(t, "spawn")
    /\ UNCHANGED <<records, ptys, reports, calm>>

\* spawn_pty under its reservation, which waits for another start of the same id:
\* a session that is there already is an answer, and no process is started.  The
\* new process is the root of its shell before it has the session.  Mutant: no
\* session is looked for.
AlwaysSpawns(i) == TRUE
MaySpawn(i) == session[i] = 0

HostSpawns(t) ==
    LET p == <<thread[t].id, thread[t].run>> IN
    /\ At(t, "spawn") /\ Inserting(p[1]) = {}
    /\ IF MaySpawn(p[1])
       THEN /\ phase' = [phase EXCEPT ![p] = "alive"]
            /\ root' = [root EXCEPT ![p[1]] = p[2]]
            /\ Goto(t, "insert")
            /\ UNCHANGED <<session, ending, watching>>
       ELSE Returns(t) /\ UNCHANGED ptys
    /\ UNCHANGED <<records, events, calm>>

HostInserts(t) ==
    LET p == <<thread[t].id, thread[t].run>> IN
    /\ At(t, "insert")
    /\ session' = [session EXCEPT ![p[1]] = p[2]]
    /\ watching' = watching \cup {p}
    /\ Returns(t)
    /\ UNCHANGED <<records, root, ending, phase, events, calm>>

\* The start fails: an opened shell is forgotten, a restarted one is stopped.
\* Mutant: it gets the status a worker gets.
FailedAsAWorker(t, s) == IF s = "none" THEN s ELSE "failed"
Unstarted(t, s) == IF thread[t].call = "open" \/ s = "none" THEN "none" ELSE "stopped"

SpawnFails(t) ==
    LET i == thread[t].id IN
    /\ "spawnError" \in Events
    /\ At(t, "spawn") /\ Inserting(i) = {} /\ MaySpawn(i)
    /\ status' = [status EXCEPT ![i] = Unstarted(t, @)]
    /\ Returns(t)
    /\ UNCHANGED <<counter, command, run, ptys, events, calm>>

-----------------------------------------------------------------------------
(* stop_shell, restart_shell and remove_shell, up to host.stop *)

StopReads(t, i) ==
    /\ "stop" \in Events
    /\ At(t, "idle")
    /\ status[i] = "running"
    /\ Starts(t, "stop", i, "mark")
    /\ UNCHANGED <<records, ptys, events>>

StopMarks(t) ==
    LET i == thread[t].id IN
    /\ At(t, "mark")
    /\ status' = [status EXCEPT ![i] = IF @ = "none" THEN "none" ELSE "stopped"]
    /\ Goto(t, "signal")
    /\ UNCHANGED <<counter, command, run, ptys, events, calm>>

RestartMarks(t, i) ==
    /\ "restart" \in Events
    /\ At(t, "idle")
    /\ status[i] # "none"
    /\ run[i] + Cardinality({u \in Busy(i) : thread[u].call = "restart"}) < MaxRuns
    /\ status' = [status EXCEPT ![i] = "stopped"]
    /\ Starts(t, "restart", i, "signal")
    /\ UNCHANGED <<counter, command, run, ptys, events>>

RemoveReads(t, i) ==
    /\ "remove" \in Events
    /\ At(t, "idle")
    /\ status[i] \notin {"none", "running"}
    /\ Starts(t, "remove", i, "signal")
    /\ UNCHANGED <<records, ptys, events>>

-----------------------------------------------------------------------------
(* PtyShellHost::stop *)

\* What a call does once host.stop returned.  A scrollback that cannot be
\* deleted ends a restart there.
AfterStop(t) ==
    \/ thread[t].call = "restart" /\ Goto(t, "bump")
    \/ thread[t].call = "remove" /\ Goto(t, "drop")
    \/ thread[t].call = "stop" /\ Returns(t)
    \/ thread[t].call = "restart" /\ "stopError" \in Events /\ Returns(t)

\* Ctrl+C is written to the session.  Without one, or with one whose process is
\* gone, the write may fail, and there is nothing to wait for.
HostSignals(t) ==
    LET i == thread[t].id IN
    /\ At(t, "signal")
    /\ \/ session[i] # 0 /\ Goto(t, "grace")
       \/ <<i, session[i]>> \notin Living /\ Goto(t, "forget")
    /\ UNCHANGED <<records, ptys, events, calm>>

\* Ctrl+C landed, or STOP_GRACE is over, or there was nobody to write it to: what
\* session there is leaves the map (kill_pty).  Mutant: an exit seen in time is
\* taken for a release.
KillsOnlyInTime(t) ==
    LET i == thread[t].id IN
    /\ thread[t].pc \in {"grace", "forget"}
    /\ IF At(t, "grace") /\ i \in exited
       THEN AfterStop(t) /\ UNCHANGED <<session, ending>>
       ELSE /\ TakesOut(i)
            /\ thread' = [thread EXCEPT ![t].run = session[i],
                   ![t].pc = IF At(t, "forget") THEN "release" ELSE "kill"]
    /\ UNCHANGED <<records, root, phase, watching, events, calm>>
HostKills(t) ==
    LET i == thread[t].id IN
    /\ thread[t].pc \in {"grace", "forget"}
    /\ TakesOut(i)
    /\ thread' = [thread EXCEPT ![t].run = session[i],
           ![t].pc = IF At(t, "forget") \/ i \in exited THEN "release" ELSE "kill"]
    /\ UNCHANGED <<records, root, phase, watching, events, calm>>

\* kill_pty returns when what it took out is terminated, and the exit of what was
\* killed is waited for.
HostReleases(t) ==
    /\ thread[t].pc \in {"kill", "release"}
    /\ <<thread[t].id, thread[t].run>> \notin BeingKilled
    /\ IF At(t, "kill") THEN Goto(t, "drain") ELSE AfterStop(t)
    /\ UNCHANGED <<records, ptys, events, calm>>

\* The wait for the exit of what was killed, up to EXIT_DRAIN.
HostDrains(t) ==
    /\ At(t, "drain")
    /\ thread[t].id \in exited \/ "slowExit" \in Events
    /\ AfterStop(t)
    /\ UNCHANGED <<records, ptys, events, calm>>

-----------------------------------------------------------------------------
(* restart_shell and remove_shell, after host.stop *)

RestartBumps(t) ==
    LET i == thread[t].id IN
    /\ At(t, "bump")
    /\ IF status[i] = "none"
       THEN Returns(t) /\ UNCHANGED records
       ELSE /\ run' = [run EXCEPT ![i] = @ + 1]
            /\ status' = [status EXCEPT ![i] = "running"]
            /\ thread' = [thread EXCEPT ![t].pc = "listen", ![t].run = run[i] + 1]
            /\ UNCHANGED <<counter, command>>
    /\ UNCHANGED <<ptys, events, calm>>

RemoveDrops(t) ==
    /\ At(t, "drop")
    /\ status' = [status EXCEPT ![thread[t].id] = "none"]
    /\ Returns(t)
    /\ UNCHANGED <<counter, command, run, ptys, events, calm>>

-----------------------------------------------------------------------------
(* Processes, their ends, their watchers and readers, and the reports of ends *)

ProcessEnds(p) ==
    /\ phase[p] = "alive"
    /\ phase' = Ended(p)
    /\ UNCHANGED <<records, thread, session, root, ending, watching, events, calm>>

\* terminate_session, with no lock held: first the tree of the root registered
\* for the shell is killed and the root forgotten, whichever process it is by
\* now; then the process the session was of.
TreeIsKilled(p) ==
    /\ ending[p] = "tree"
    /\ phase' = Ended(<<p[1], root[p[1]]>>)
    /\ root' = [root EXCEPT ![p[1]] = 0]
    /\ ending' = [ending EXCEPT ![p] = "child"]
    /\ UNCHANGED <<records, thread, session, watching, events, calm>>

ChildIsKilled(p) ==
    /\ ending[p] = "child"
    /\ phase' = Ended(p)
    /\ ending' = [ending EXCEPT ![p] = "no"]
    /\ UNCHANGED <<records, thread, session, root, watching, events, calm>>

WatcherPolls(p) ==
    /\ p \in watching
    /\ \/ p \notin Living /\ TakesOut(p[1])
       \/ p \in Living /\ session[p[1]] = 0 /\ UNCHANGED <<session, ending>>
    /\ watching' = watching \ {p}
    /\ UNCHANGED <<records, thread, root, phase, events, calm>>

\* The reader of p reaches the end of the stream, which spawn_pty holds open while
\* it starts p, and emits pty://exit: every listener of the shell fires, once.  Its
\* own session is removed.
ReaderEmits(p) ==
    /\ phase[p] = "ended" /\ ~IsComing(p)
    /\ phase' = [phase EXCEPT ![p] = "announced"]
    /\ session' = [session EXCEPT ![p[1]] = IF @ = p[2] THEN 0 ELSE @]
    /\ exited' = IF listeners[p[1]] = {} THEN exited ELSE exited \cup {p[1]}
    /\ reports' = reports \cup {<<p[1], r>> : r \in listeners[p[1]]}
    /\ listeners' = [listeners EXCEPT ![p[1]] = {}]
    /\ UNCHANGED <<records, thread, root, ending, watching, calm>>

\* shell_exited: the report counts if the shell still runs what it is about.
IsCurrent(i, r) == status[i] = "running" /\ run[i] = r
ShellExited(i, r) ==
    /\ <<i, r>> \in reports
    /\ reports' = reports \ {<<i, r>>}
    /\ status' = [status EXCEPT ![i] = IF IsCurrent(i, r) THEN "exited" ELSE @]
    /\ UNCHANGED <<counter, command, run, thread, ptys, listeners, exited, calm>>

-----------------------------------------------------------------------------
Goes(t) ==
    \/ OpenRegisters(t) \/ HostListens(t) \/ HostSpawns(t) \/ HostInserts(t) \/ SpawnFails(t)
    \/ StopMarks(t) \/ HostSignals(t) \/ HostKills(t) \/ HostReleases(t) \/ HostDrains(t)
    \/ RestartBumps(t) \/ RemoveDrops(t)

Next ==
    \/ \E t \in Threads, c \in Commands : OpenLooks(t, c)
    \/ \E t \in Threads, i \in Ids : StopReads(t, i) \/ RestartMarks(t, i) \/ RemoveReads(t, i)
    \/ \E t \in Threads : Goes(t)
    \/ \E p \in Procs : \/ ProcessEnds(p) \/ TreeIsKilled(p) \/ ChildIsKilled(p)
                       \/ WatcherPolls(p) \/ ReaderEmits(p)
    \/ \E i \in Ids, r \in Runs : ShellExited(i, r)

Spec == Init /\ [][Next]_vars

\* The session of p, which holds the writer of its terminal, is no more.
Released(p) == session[p[1]] # p[2] /\ p \notin BeingKilled

\* Threads go on, what was taken out is terminated, watchers poll and reports are
\* made.  A reader is sure to reach the end of the stream only once the session
\* was released.  Processes need not end and nobody needs to call.
FairSpec ==
    /\ Spec
    /\ \A t \in Threads : WF_vars(Goes(t))
    /\ \A p \in Procs : /\ WF_vars(TreeIsKilled(p) \/ ChildIsKilled(p))
                      /\ WF_vars(WatcherPolls(p))
                      /\ WF_vars(Released(p) /\ ReaderEmits(p))
    /\ \A i \in Ids, r \in Runs : WF_vars(ShellExited(i, r))

-----------------------------------------------------------------------------
\* Nobody is about to kill p.
Kept(p) == p \in Living \ BeingKilled

\* Of the live processes of a shell only one is not about to be killed by whoever
\* took its session out, and that one is in reach of host.stop: it has the session
\* of its shell, or whoever started it is about to put it there (reserve_spawn,
\* spawn_pty, kill_pty, the watchers and the readers).
LiveIsInReach ==
    /\ \A p \in Procs : Kept(p) => session[p[1]] = p[2] \/ IsComing(p)
    /\ \A i \in Ids, r, s \in Runs : Kept(<<i, r>>) /\ Kept(<<i, s>>) => r = s

\* A shell the board shows as stopped, or no longer shows, has no process but one
\* that is being killed, once the calls for it have returned and as long as they
\* came one at a time (stop_shell, restart_shell and remove_shell).
StoppedIsDown ==
    \A i \in Ids :
        calm[i] /\ Busy(i) = {} /\ status[i] \in {"stopped", "none"}
            => \A r \in Runs : ~Kept(<<i, r>>)

\* A shell shown as running whose process ended does not stay shown so: the
\* watcher, the reader and shell_exited see to it.
Lifeless(i) ==
    /\ status[i] = "running" /\ Busy(i) = {}
    /\ \A r \in Runs : phase[<<i, r>>] # "alive"
=============================================================================
