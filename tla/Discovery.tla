----------------------------- MODULE Discovery -----------------------------
(***************************************************************************)
(* Probe discovery: which files get the SSL uprobes, and when.  At start   *)
(* LlmProbe::attach scans the running processes; then the exec tracepoint  *)
(* and the library-open hook are set up, and HoneyBeeEngine::run_discovery *)
(* serves their queues.  A file is reached through a path of some process, *)
(* which is gone when that process is; it is tried once.                   *)
(*                                                                         *)
(* The ring between a hook and its queue is part of the queue: a record    *)
(* waits in one as in the other.  Main is one thread: its steps are cut    *)
(* where processes may come and go meanwhile.                              *)
(***************************************************************************)
EXTENDS Naturals, Sequences, FiniteSets, TLC, SequencesExt

CONSTANTS
    Procs,      \* processes; an id is not used again
    Libs,       \* libssl files, by identity
    Exes,       \* executables, some with OpenSSL built in
    HostFiles,  \* files that ldconfig lists on the host
    Exports(_), \* the probed functions that a file exports
    Executables, \* also probe main executables
    Fragile,    \* files to which a uprobe may fail to attach
    Scope(_),   \* the cgroup of a process
    QueueSize,  \* MAX_EXEC_QUEUE_SIZE
    Rounds,     \* ATTACH_ROUNDS
    MaxExpired  \* times an entry of LIB_OPEN_SEEN gets old

Files == Libs \cup Exes \cup HostFiles

DiscoveryAssumption ==
    /\ Executables \in BOOLEAN
    /\ Fragile \subseteq Files
    /\ Libs \cap Exes = {}
    /\ QueueSize \in Nat \ {0} /\ Rounds \in Nat \ {0} /\ MaxExpired \in Nat

Host == "host"

VARIABLES
    alive,    \* the processes running
    born,     \* the processes that ever ran
    maps,     \* the files each process has mapped
    hooks,    \* the hooks attached, "exec" and "open"
    execs,    \* the queue of exec events
    opens,    \* the queue of library opens
    permits,  \* the queues whose Notify holds a permit
    due,      \* the main loop waits to batch exec events
    seen,     \* LIB_OPEN_SEEN: the opens the kernel does not report
    expired,
    known,    \* known_targets
    links,    \* how often each probe is attached to each file
    phase,    \* where the main thread is
    batch,    \* the events it has drained and not looked at
    agenda,   \* the path sets it will try before it goes on
    job,      \* the attach_new_files call in progress
    opened    \* the key of the open it serves, in a set

world == <<alive, born, maps>>

kernel == <<hooks, seen, expired>>

queues == <<execs, opens, permits>>

attaching == <<agenda, job>>

main == <<due, known, links, phase, batch, attaching, opened>>

vars == <<world, kernel, queues, main>>

(***************************************************************************)
(* Processes.                                                              *)
(***************************************************************************)
(* A file is reached through the root of any process that has it in its    *)
(* image, or on the host.                                                  *)
PathOf(p, f) == [proc |-> p, file |-> f]

(* Every path to a file gives the same identity, across containers too.    *)
FileId(path) == path.file

Exists(path) == path.proc = Host \/ path.proc \in alive

(* A hook's record goes to the back of its queue unless that is full; the  *)
(* main loop is notified in any case.                                      *)
Pushed(q, x) == IF Len(q) < QueueSize THEN Append(q, x) ELSE q

Exec(p) ==
    /\ p \notin born
    /\ born' = born \cup {p}
    /\ alive' = alive \cup {p}
    /\ \E exe \in Exes : maps' = [maps EXCEPT ![p] = {exe}]
    /\ IF "exec" \in hooks
       THEN execs' = Pushed(execs, p) /\ permits' = permits \cup {"exec"}
       ELSE UNCHANGED <<execs, permits>>
    /\ UNCHANGED <<kernel, opens, main>>

Key(p, f) == <<Scope(p), f>>

(* The loader opens a libssl, and maps it.  The kernel reports the open    *)
(* unless one of this path in this scope was handled lately.               *)
Open(p) ==
    /\ p \in alive
    /\ \E f \in Libs \ maps[p] :
        /\ maps' = [maps EXCEPT ![p] = @ \cup {f}]
        /\ IF "open" \in hooks /\ Key(p, f) \notin seen
           THEN opens' = Pushed(opens, PathOf(p, f)) /\ permits' = permits \cup {"open"}
           ELSE UNCHANGED <<opens, permits>>
    /\ UNCHANGED <<alive, born, kernel, execs, main>>

Exit(p) ==
    /\ p \in alive
    /\ alive' = alive \ {p}
    /\ maps' = [maps EXCEPT ![p] = {}]
    /\ UNCHANGED <<born, kernel, queues, main>>

(* LIB_OPEN_TTL_NS after an open that was handled. *)
Expire ==
    /\ expired < MaxExpired
    /\ expired' = expired + 1
    /\ \E k \in seen : seen' = seen \ {k}
    /\ UNCHANGED <<world, hooks, queues, main>>

(***************************************************************************)
(* attach_probes_to_path.                                                  *)
(***************************************************************************)
Required == <<"SSL_read", "SSL_write">>

Optional == {"SSL_do_handshake", "SSL_write_ex", "SSL_read_ex"}

(* (program, function) pairs: an entry and a return probe for each         *)
(* function, and the entry of SSL_free.                                    *)
Pair(f) == {<<"enter", f>>, <<"exit", f>>}

Free == <<"enter", "SSL_free">>

Probes == {Free} \cup UNION {Pair(f) : f \in ToSet(Required) \cup Optional}

RequiredProbes == <<<<"enter", "SSL_read">>, <<"exit", "SSL_read">>,
                    <<"enter", "SSL_write">>, <<"exit", "SSL_write">>>>

Exporting(f) == ToSet(Required) \subseteq Exports(f)

Plus(count, S) == [x \in Probes |-> count[x] + IF x \in S THEN 1 ELSE 0]

(* Mutant: probes attached before a failure stay. *)
RollsBackNone(count, i) == Plus(count, {RequiredProbes[k] : k \in 1..i - 1})

(* The i-th required probe fails: those before it are detached again.      *)
RolledBack(count, i) == count

(* What may be attached of a file's optional functions and its SSL_free:   *)
(* a pair as a whole or not at all.                                        *)
Extras(f) ==
    {C \cup UNION {Pair(x) : x \in S} :
        S \in SUBSET (Optional \cap Exports(f)), C \in SUBSET ({Free} \cap {<<"enter", x>> : x \in Exports(f)})}

AllExtras(f) == {E \in Extras(f) : \A D \in Extras(f) : D \subseteq E}

(* The outcomes for a file reached by a path: a result and the probes it   *)
(* has then.  Any attach may fail where the path is gone, which it may be  *)
(* since any of them, and on a fragile file.                               *)
Outcomes(path) ==
    LET f    == path.file
        may  == ~Exists(path) \/ f \in Fragile
        full == Plus(links[f], ToSet(RequiredProbes))
    IN  IF ~Exporting(f)
        THEN {[res |-> "none", count |-> links[f]]} \cup {[res |-> "error", count |-> links[f]] : x \in {may} \cap {TRUE}}
        ELSE {[res |-> "ok", count |-> Plus(full, E)] : E \in IF may THEN Extras(f) ELSE AllExtras(f)}
             \cup {[res |-> "error", count |-> RolledBack(links[f], i)] :
                      i \in IF may THEN DOMAIN RequiredProbes ELSE {}}

(***************************************************************************)
(* attach_new_files.                                                       *)
(***************************************************************************)
NoJob == [paths |-> {}, left |-> {}, rounds |-> 0, vanished |-> FALSE, done |-> {}]

Job(paths) == [NoJob EXCEPT !.paths = paths, !.rounds = Rounds]

(* unique_new_files: one path that still exists for each file not tried,   *)
(* preferring the host's.                                                  *)
UniqueNewFiles(paths) ==
    LET there == {x \in paths : Exists(x) /\ FileId(x) \notin known}
        best(x) == x.proc = Host \/ ~\E y \in there : FileId(y) = FileId(x) /\ y.proc = Host
    IN  {S \in SUBSET {x \in there : best(x)} :
            /\ \A x, y \in S : FileId(x) = FileId(y) => x = y
            /\ \A x \in there : \E y \in S : FileId(y) = FileId(x)}

Begin ==
    /\ job = NoJob /\ agenda # <<>>
    /\ job' = Job(Head(agenda))
    /\ agenda' = Tail(agenda)
    /\ UNCHANGED <<world, kernel, queues, due, known, links, phase, batch, opened>>

(* Another round picks again, if a path vanished in this one. *)
PickRound ==
    /\ job.rounds > 0 /\ job.left = {} /\ job.done = {}
    /\ job.vanished \/ job.rounds = Rounds
    /\ \E S \in UniqueNewFiles(job.paths) :
        job' = IF S = {} THEN NoJob ELSE [job EXCEPT !.left = S, !.rounds = @ - 1, !.vanished = FALSE]
    /\ UNCHANGED <<world, kernel, queues, due, known, links, phase, batch, agenda, opened>>

AttachOne ==
    /\ job.done = {}
    /\ \E path \in job.left : \E out \in Outcomes(path) :
        /\ links' = [links EXCEPT ![path.file] = out.count]
        /\ job' = [job EXCEPT !.left = @ \ {path}, !.done = {[path |-> path, res |-> out.res]}]
    /\ UNCHANGED <<world, kernel, queues, due, known, phase, batch, agenda, opened>>

(* Mutant: a path that is gone counts as a failed attach. *)
VanishedNever(d) == FALSE

(* A path that vanished leaves the file untried, for another path to it.   *)
Vanished(d) == d.res = "error" /\ ~Exists(d.path)

Record ==
    /\ \E d \in job.done :
        /\ job' = [job EXCEPT !.done = {}, !.vanished = @ \/ Vanished(d)]
        /\ known' = IF Vanished(d) THEN known ELSE known \cup {d.path.file}
    /\ UNCHANGED <<world, kernel, queues, due, links, phase, batch, agenda, opened>>

EndJob ==
    /\ job # NoJob /\ job.left = {} /\ job.done = {} /\ job.rounds < Rounds
    /\ job.vanished => job.rounds = 0
    /\ job' = NoJob
    /\ UNCHANGED <<world, kernel, queues, due, known, links, phase, batch, agenda, opened>>

Attached == agenda = <<>> /\ job = NoJob

(***************************************************************************)
(* Start: scan, then watch.                                                *)
(***************************************************************************)
Init ==
    /\ \E S \in SUBSET Procs :
        /\ alive = S /\ born = S
        /\ \E exe \in [S -> Exes], libs \in [S -> SUBSET Libs] :
              maps = [p \in Procs |-> IF p \in S THEN {exe[p]} \cup libs[p] ELSE {}]
    /\ hooks = {} /\ seen = {} /\ expired = 0
    /\ execs = <<>> /\ opens = <<>> /\ permits = {}
    /\ due = FALSE /\ known = {}
    /\ links = [f \in Files |-> [x \in Probes |-> 0]]
    /\ phase = "libs" /\ batch = <<>> /\ agenda = <<>> /\ job = NoJob /\ opened = {}

LibPaths(p) == {PathOf(p, f) : f \in maps[p] \cap Libs}

ExePaths(p) == IF Executables THEN {PathOf(p, f) : f \in maps[p] \cap Exes} ELSE {}

ScanLibs ==
    /\ phase = "libs"
    /\ agenda' = <<{PathOf(Host, f) : f \in HostFiles} \cup UNION {LibPaths(p) : p \in alive}>>
    /\ phase' = "exes"
    /\ UNCHANGED <<world, kernel, queues, due, known, links, batch, job, opened>>

ScanExes ==
    /\ phase = "exes" /\ Attached
    /\ agenda' = <<UNION {ExePaths(p) : p \in alive}>>
    /\ phase' = "execWatch"
    /\ UNCHANGED <<world, kernel, queues, due, known, links, batch, job, opened>>

SetupExecWatch ==
    /\ phase = "execWatch" /\ Attached
    /\ hooks' = hooks \cup {"exec"}
    /\ phase' = "openWatch"
    /\ UNCHANGED <<world, seen, expired, queues, due, known, links, batch, attaching, opened>>

(* Neither hook on do_sys_openat2 may attach: only a warning. *)
SetupLibOpenWatch ==
    /\ phase = "openWatch"
    /\ \E h \in {{}, {"open"}} : hooks' = hooks \cup h
    /\ phase' = "loop"
    /\ UNCHANGED <<world, seen, expired, queues, due, known, links, batch, attaching, opened>>

(***************************************************************************)
(* run_discovery's loop.                                                   *)
(***************************************************************************)
AtSelect == phase = "loop" /\ batch = <<>> /\ Attached /\ opened = {}

(* q.drain(..) takes all there is. *)
ServeOpens ==
    /\ AtSelect /\ "open" \in permits
    /\ batch' = opens
    /\ opens' = <<>>
    /\ permits' = permits \ {"open"}
    /\ UNCHANGED <<world, kernel, execs, due, known, links, phase, attaching, opened>>

(* Exec events are batched for 50 ms; opens are served meanwhile.          *)
NotifyExec ==
    /\ AtSelect /\ "exec" \in permits /\ ~due
    /\ due' = TRUE
    /\ permits' = permits \ {"exec"}
    /\ UNCHANGED <<world, kernel, execs, opens, known, links, phase, batch, attaching, opened>>

ServeExecs ==
    /\ AtSelect /\ due
    /\ due' = FALSE
    /\ batch' = execs
    /\ execs' = <<>>
    /\ UNCHANGED <<world, kernel, opens, permits, known, links, phase, attaching, opened>>

(* Mutant: an open of a file marked seen is passed over. *)
StartOpenUnlessSeen(x) ==
    IF Exists(x) /\ Key(x.proc, x.file) \notin seen
    THEN agenda' = <<{x}>> /\ opened' = {Key(x.proc, x.file)}
    ELSE UNCHANGED <<agenda, opened>>

(* resolve_in_root, then on_exec with this library alone.  An open whose   *)
(* process is gone is not marked seen.                                     *)
StartOpen(x) ==
    IF Exists(x) THEN agenda' = <<{x}>> /\ opened' = {Key(x.proc, x.file)}
    ELSE UNCHANGED <<agenda, opened>>

(* The libraries a process has mapped by now, then its executable.         *)
StartExec(p) ==
    /\ agenda' = IF p \in alive THEN <<LibPaths(p), ExePaths(p)>> ELSE <<>>
    /\ UNCHANGED opened

NextEvent ==
    /\ batch # <<>> /\ Attached /\ opened = {}
    /\ LET x == Head(batch) IN IF x \in Procs THEN StartExec(x) ELSE StartOpen(x)
    /\ batch' = Tail(batch)
    /\ UNCHANGED <<world, kernel, queues, due, known, links, phase, job>>

(* lib_seen.insert, whatever became of the attach. *)
MarkSeen ==
    /\ opened # {} /\ Attached
    /\ seen' = seen \cup opened
    /\ opened' = {}
    /\ UNCHANGED <<world, hooks, expired, queues, due, known, links, phase, batch, attaching>>

World == (\E p \in Procs : Exec(p) \/ Open(p) \/ Exit(p)) \/ Expire

Attaching == Begin \/ PickRound \/ AttachOne \/ Record \/ EndJob

Starting == ScanLibs \/ ScanExes \/ SetupExecWatch \/ SetupLibOpenWatch

Serving == ServeOpens \/ ServeExecs \/ NextEvent \/ MarkSeen

Next == World \/ Attaching \/ Starting \/ Serving \/ NotifyExec

Spec == Init /\ [][Next]_vars

(* The thread goes on; tokio::select! polls its branches in random order,  *)
(* so none that is ready waits for ever.                                   *)
FairSpec ==
    /\ Spec
    /\ WF_vars(Attaching \/ Starting \/ NextEvent \/ MarkSeen)
    /\ SF_vars(ServeOpens) /\ SF_vars(NotifyExec) /\ SF_vars(ServeExecs)
(***************************************************************************)
(* Properties.                                                             *)
(***************************************************************************)
Paths == [proc : Procs \cup {Host}, file : Files]

TypeOK ==
    /\ alive \subseteq born /\ born \subseteq Procs
    /\ maps \in [Procs -> SUBSET Files]
    /\ hooks \subseteq {"exec", "open"} /\ permits \subseteq hooks
    /\ Len(execs) <= QueueSize /\ ToSet(execs) \subseteq Procs
    /\ Len(opens) <= QueueSize /\ ToSet(opens) \subseteq Paths
    /\ known \subseteq Files
    /\ links \in [Files -> [Probes -> Nat]]
    /\ \A S \in ToSet(agenda) : S \subseteq Paths
    /\ job.left \subseteq job.paths /\ job.rounds \in 0..Rounds

(* A file has each probe at most once, its required probes all or not at   *)
(* all, and an optional function's entry with its return: whatever failed, *)
(* vanished half-way, was rolled back or tried again.                      *)
ProbesFitTogether ==
    \A f \in Files :
        /\ \A x \in Probes : links[f][x] <= 1
        /\ \A x, y \in ToSet(RequiredProbes) : links[f][x] = links[f][y]
        /\ \A x \in Optional : links[f][<<"enter", x>>] = links[f][<<"exit", x>>]

(* A file that can be probed is probed once it counts as tried: a path     *)
(* that vanished under the attach does not write the file off.             *)
TriedIsProbed ==
    \A f \in known \ Fragile : Exporting(f) => links[f][RequiredProbes[1]] = 1

(* An open in the queue is served: in the end its file has been tried, or  *)
(* its process is gone.                                                    *)
OpenIsTried ==
    \A x \in [proc : Procs, file : Libs] :
        x \in ToSet(opens) ~> x.file \in known \/ ~Exists(x)

(* So is an exec, for the libraries mapped then and the executable.        *)
ExecIsTried ==
    \A x \in [proc : Procs, file : Files] :
        x.proc \in ToSet(execs) /\ x.file \in maps[x.proc] ~> x.file \in known \/ ~Exists(x)

(* exec_watch.rs: only user space writes LIB_OPEN_SEEN, so a failed        *)
(* attempt is retried on the next open: what is in it has been tried.      *)
(* The code breaks it: README, "Findings without a run".                   *)
SeenMeansTried == \A k \in seen : k[2] \in known

(* mod.rs: libssl opened later is attached by re-discovery: a library that *)
(* a running process has mapped is tried in the end, if the queues hold.   *)
(* The code breaks it: README, "Findings without a run".                   *)
OpenedLaterIsAttached ==
    \A p \in Procs, f \in Libs :
        f \in maps[p] /\ hooks = {"exec", "open"} ~> f \in known \/ p \notin alive
=============================================================================
