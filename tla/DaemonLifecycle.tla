--------------------------- MODULE DaemonLifecycle ---------------------------
(***************************************************************************)
(* The pidfile protocol between `autofix start` (start_command.py),        *)
(* `autofix stop` (stop_command.py) and the crawl processes                *)
(* (_pidfile, run_crawl_once and run_crawl_continuously of                 *)
(* cycle_runner.py), with what `autofix status` makes of it.               *)
(*                                                                         *)
(* A crawl process boots, truncates .autofix/crawl.pid, writes its pid     *)
(* into it and crawls.  No handler for SIGTERM is installed, so SIGTERM    *)
(* ends a process where it is; only an interrupt, an error out of a single *)
(* cycle or the end of one reach the finally block that unlinks the file.  *)
(* An error inside a cycle of the loop is caught: the loop goes on, and no *)
(* variable changes.                                                       *)
(*                                                                         *)
(* Env lists what the environment may do:                                  *)
(*   "overlap"    - commands run at the same time;                         *)
(*   "foreground" - crawls are also run by hand, `autofix --root . --once` *)
(*                  or the loop in a terminal;                             *)
(*   "slowboot"   - a child may need longer than STARTUP_TIMEOUT_SECONDS;  *)
(*   "reuse"      - the system gives the pid of a dead process to a        *)
(*                  program that is not autofix.                           *)
(* All pids have the same number of digits, so that one write replaces     *)
(* another.                                                                *)
(***************************************************************************)
EXTENDS Naturals, FiniteSets

CONSTANTS Pid, Client,
          NoFile, Empty,  \* the pidfile is absent, is truncated
          Env

ASSUME DaemonAssumption ==
    /\ NoFile \notin Pid /\ Empty \notin Pid /\ NoFile # Empty
    /\ Env \subseteq {"overlap", "foreground", "slowboot", "reuse"}

VARIABLES proc,           \* the state of each process
          kind,           \* how it was launched
          pidfile,        \* content of .autofix/crawl.pid
          opened,         \* processes with that very file open for their write
          client          \* the frame of each start or stop command

vars == <<proc, kind, pidfile, opened, client>>

ProcState == {"free", "booting", "opening", "crawling", "dead", "alien"}
ProcKind == {"loop", "front", "once"}   \* detached, in a terminal, one cycle

ClientPc == {"idle", "spawn", "poll", "unlink", "signal", "wait"}

(* report is what the command last told the operator. *)
Report == {"none", "already", "started", "no_pidfile",
           "not_running", "exited", "stopped", "did_not_exit", "raised"}

Idle(report) == [pc |-> "idle", pid |-> NoFile, report |-> report]

Init ==
    /\ proc = [p \in Pid |-> "free"]
    /\ kind = [p \in Pid |-> "loop"]
    /\ pidfile = NoFile /\ opened = {}
    /\ client = [c \in Client |-> Idle("none")]
-----------------------------------------------------------------------------
Live(p) == proc[p] \in {"booting", "opening", "crawling"}

(* A child that died while its `autofix start` still polls is a zombie. *)
Zombie(p) == /\ proc[p] = "dead"
             /\ \E c \in Client : client[c].pc = "poll" /\ client[c].pid = p

(* os.kill(p, 0) raises no ProcessLookupError. *)
Exists(p) == Live(p) \/ proc[p] = "alien" \/ Zombie(p)

(* _daemon_alive: the pidfile holds a number and that process exists. *)
DaemonAlive == pidfile \in Pid /\ Exists(pidfile)

(* The name is removed; a process that has the file open writes to nobody. *)
Unlink == pidfile' = NoFile /\ opened' = {}

Goto(c, pc, pid) == client' = [client EXCEPT ![c] = [pc |-> pc, pid |-> pid, report |-> "none"]]
Tell(c, report)  == client' = [client EXCEPT ![c] = Idle(report)]

(* May c's operator type a command now? *)
MayRun(c) == /\ client[c].pc = "idle"
             /\ "overlap" \in Env \/ \A d \in Client : client[d].pc = "idle"

(* Mutant: a pidfile is trusted to be stale. *)
StartCheckSkipped(c) ==
    /\ MayRun(c)
    /\ Goto(c, "spawn", NoFile)
    /\ UNCHANGED <<proc, kind, pidfile, opened>>

(* Mutant: the existence of the pidfile is enough to refuse. *)
StartCheckFileOnly(c) ==
    /\ MayRun(c)
    /\ IF pidfile # NoFile THEN Tell(c, "already") ELSE Goto(c, "spawn", NoFile)
    /\ UNCHANGED <<proc, kind, pidfile, opened>>

(* run_start: refuse when the pidfile names a process that exists. *)
StartCheck(c) ==
    /\ MayRun(c)
    /\ IF DaemonAlive THEN Tell(c, "already") ELSE Goto(c, "spawn", NoFile)
    /\ UNCHANGED <<proc, kind, pidfile, opened>>

(* Popen: the child boots, or the program cannot be run. *)
StartSpawn(c) ==
    /\ client[c].pc = "spawn"
    /\ \E p \in Pid :
          /\ proc[p] = "free"
          /\ proc' = [proc EXCEPT ![p] = "booting"]
          /\ kind' = [kind EXCEPT ![p] = "loop"]
          /\ Goto(c, "poll", p)
    /\ UNCHANGED <<pidfile, opened>>

StartRaises(c) ==
    /\ client[c].pc = "spawn"
    /\ Tell(c, "raised")
    /\ UNCHANGED <<proc, kind, pidfile, opened>>

(* Mutant: start reports success without waiting for the pidfile. *)
StartPollImpatient(c) ==
    /\ client[c].pc = "poll"
    /\ Tell(c, "started")
    /\ UNCHANGED <<proc, kind, pidfile, opened>>

(* The poll sees a pidfile with the pid of some process that exists. *)
StartPoll(c) ==
    /\ client[c].pc = "poll"
    /\ DaemonAlive
    /\ Tell(c, "started")
    /\ UNCHANGED <<proc, kind, pidfile, opened>>

(* Mutant: only the death of the child ends the poll. *)
StartTimeoutOnDeath(c) ==
    /\ client[c].pc = "poll"
    /\ ~Live(client[c].pid)
    /\ Tell(c, "no_pidfile")
    /\ UNCHANGED <<proc, kind, pidfile, opened>>

(* STARTUP_TIMEOUT_SECONDS pass; a boot is over by then unless it is slow. *)
StartTimeout(c) ==
    /\ client[c].pc = "poll"
    /\ "slowboot" \in Env \/ proc[client[c].pid] \notin {"booting", "opening"}
    /\ Tell(c, "no_pidfile")
    /\ UNCHANGED <<proc, kind, pidfile, opened>>

(* run_stop reads the pidfile and asks whether the process exists. *)
StopRead(c) ==
    /\ MayRun(c)
    /\ IF DaemonAlive THEN Goto(c, "signal", pidfile) ELSE Goto(c, "unlink", NoFile)
    /\ UNCHANGED <<proc, kind, pidfile, opened>>

(* Nothing to stop: whatever pidfile there is now is removed. *)
StopUnlink(c) ==
    /\ client[c].pc = "unlink"
    /\ Unlink
    /\ Tell(c, "not_running")
    /\ UNCHANGED <<proc, kind>>

(* os.kill(pid, SIGTERM).  A program that is not autofix may ignore it, or *)
(* belong to another user.                                                 *)
StopSignal(c) ==
    LET p == client[c].pid
    IN  /\ client[c].pc = "signal"
        /\ \/ ~Exists(p) /\ Tell(c, "exited") /\ UNCHANGED <<proc, opened>>
           \/ proc[p] = "alien" /\ Tell(c, "did_not_exit") /\ UNCHANGED <<proc, opened>>
           \/ /\ Exists(p) /\ Goto(c, "wait", p)
              /\ \E s \in {"dead"} \cup ({proc[p]} \cap {"alien"}) :
                    proc' = [proc EXCEPT ![p] = s]
              /\ opened' = opened \ {p}
        /\ UNCHANGED <<kind, pidfile>>

(* The wait ends with the process, or with STOP_TIMEOUT_SECONDS when it    *)
(* does not end; the parent of a zombie gives up earlier than that.        *)
StopWait(c) ==
    LET p == client[c].pid
    IN  /\ client[c].pc = "wait"
        /\ \/ ~Exists(p) /\ Tell(c, "stopped")
           \/ proc[p] = "alien" /\ Tell(c, "did_not_exit")
        /\ UNCHANGED <<proc, kind, pidfile, opened>>
-----------------------------------------------------------------------------
(* A crawl is started by hand; nothing is checked. *)
RunByHand(p, k) ==
    /\ "foreground" \in Env
    /\ proc[p] = "free" /\ k \in {"front", "once"}
    /\ proc' = [proc EXCEPT ![p] = "booting"]
    /\ kind' = [kind EXCEPT ![p] = k]
    /\ UNCHANGED <<pidfile, opened, client>>

(* write_text: open(path, "w") creates or truncates the file ... *)
OpenPidfile(p) ==
    /\ proc[p] = "booting"
    /\ proc' = [proc EXCEPT ![p] = "opening"]
    /\ pidfile' = Empty /\ opened' = opened \cup {p}
    /\ UNCHANGED <<kind, client>>

(* Mutant: the file stays open and the pid in its buffer. *)
WritePidBuffered(p) ==
    /\ proc[p] = "opening"
    /\ proc' = [proc EXCEPT ![p] = "crawling"]
    /\ UNCHANGED <<kind, pidfile, opened, client>>

(* ... and the pid goes to the file that was opened, if it still has a     *)
(* name.                                                                   *)
WritePid(p) ==
    /\ proc[p] = "opening"
    /\ proc' = [proc EXCEPT ![p] = "crawling"]
    /\ pidfile' = IF p \in opened THEN p ELSE pidfile
    /\ opened' = opened \ {p}
    /\ UNCHANGED <<kind, client>>

(* The with block of _pidfile is left: a single cycle ends or raises, or   *)
(* the loop in the terminal is interrupted.                                *)
Leave(p) ==
    /\ proc[p] = "crawling" /\ kind[p] # "loop"
    /\ Unlink
    /\ proc' = [proc EXCEPT ![p] = "dead"]
    /\ UNCHANGED <<kind, client>>

(* An error before the loop, the out-of-memory killer, kill -9. *)
Die(p) ==
    /\ Live(p)
    /\ proc' = [proc EXCEPT ![p] = "dead"]
    /\ opened' = opened \ {p}
    /\ UNCHANGED <<kind, pidfile, client>>

ReusePid(p) ==
    /\ "reuse" \in Env
    /\ proc[p] = "dead" /\ ~Zombie(p)
    /\ proc' = [proc EXCEPT ![p] = "alien"]
    /\ UNCHANGED <<kind, pidfile, opened, client>>

Command(c) ==
    \/ StartSpawn(c) \/ StartRaises(c) \/ StartPoll(c) \/ StartTimeout(c)
    \/ StopUnlink(c) \/ StopSignal(c) \/ StopWait(c)

Boot(p) == OpenPidfile(p) \/ WritePid(p)

Next ==
    \/ \E c \in Client : StartCheck(c) \/ StopRead(c) \/ Command(c)
    \/ \E p \in Pid : Boot(p) \/ Leave(p) \/ Die(p) \/ ReusePid(p)
    \/ \E p \in Pid, k \in ProcKind : RunByHand(p, k)

(* A command that has begun goes on, and so does the boot of a process.    *)
Spec == /\ Init /\ [][Next]_vars
        /\ \A c \in Client : WF_vars(Command(c))
        /\ \A p \in Pid : WF_vars(Boot(p))
-----------------------------------------------------------------------------
(* Every variable has its type. *)
TypeOK ==
    /\ proc \in [Pid -> ProcState] /\ kind \in [Pid -> ProcKind]
    /\ pidfile \in Pid \cup {NoFile, Empty} /\ opened \subseteq Pid
    /\ client \in [Client -> [pc : ClientPc, pid : Pid \cup {NoFile}, report : Report]]

Daemons == {p \in Pid : Live(p) /\ kind[p] # "once"}

(* start_command.py: "Refuses to launch if a daemon is already running for *)
(* this repo."  Two crawl loops never run on one repository.               *)
AtMostOneDaemon == \A p, q \in Daemons : p = q

(* When stop says that nothing runs (any more), no crawl loop is left, not *)
(* even one that has yet to write its pidfile.                             *)
StopIsTrue ==
    [][\A c \in Client :
          (/\ client[c].pc # "idle" /\ client'[c].pc = "idle"
           /\ client'[c].report \in {"not_running", "exited", "stopped"}) => Daemons' = {}]_vars

(* run_start returns "1 if a daemon is already running for this repo": a   *)
(* pidfile left by a process that was killed never makes it refuse.        *)
RefusalIsTrue ==
    [][\A c \in Client : client'[c].report = "already" /\ client[c].report # "already"
          => Daemons # {}]_vars

(* _running_line: the pid it prints, or NoFile for "not running".  Without *)
(* a pidfile it takes an autofix process from the process table.           *)
RunningLine ==
    IF DaemonAlive THEN {pidfile}
    ELSE IF pidfile = NoFile /\ \E p \in Pid : Live(p) THEN {p \in Pid : Live(p)}
    ELSE {NoFile}

(* _pidfile: "so ``autofix status`` can reliably detect a running daemon   *)
(* regardless of which entry point is in use".  While a crawl loop is in   *)
(* its cycles, and no process is about to write the pidfile, status        *)
(* reports a process, never "not running".                                 *)
StatusSeesDaemon ==
    (/\ \E p \in Daemons : proc[p] = "crawling"
     /\ \A p \in Pid : proc[p] # "opening") => NoFile \notin RunningLine

(* Every start and every stop returns, whatever the other commands and     *)
(* processes do to the pidfile meanwhile.                                  *)
EveryCommandEnds == \A c \in Client : client[c].pc # "idle" ~> client[c].pc = "idle"
=============================================================================
