---------------------------- MODULE DaemonProofs ----------------------------
(***************************************************************************)
(* The daemon.  First its process: what the pidfile protocol guarantees    *)
(* for any number of processes and operators when commands are typed one   *)
(* after the other, every crawl is launched by `autofix start`, a boot     *)
(* fits into the startup timeout and pids are not reused: Env = {}.  Each  *)
(* of the four is needed: TLC refutes the properties as soon as one is     *)
(* given up, except that slow boots do not touch RefusalIsTrue.  Then what *)
(* its crawl picks: a walk of expand_bundle ends within its caps, and hub  *)
(* saturation is overrun by one batch at most, for any tracked files, call *)
(* graph, configurations, ledger and history of commits and failures.      *)
(***************************************************************************)
EXTENDS DaemonLifecycle, CrawlPicker, SequenceTheorems, FiniteSetTheorems,
        WellFoundedInduction, TLAPS

(* One command at a time; the operator waits for the one before. *)
OneCommand ==
    \A c, d \in Client : client[c].pc # "idle" /\ client[d].pc # "idle" => c = d

(* A process that boots is the child of the start command that polls. *)
BootIsPolled ==
    \A p \in Pid : proc[p] \in {"booting", "opening"} =>
        \E c \in Client : client[c].pc = "poll" /\ client[c].pid = p

(* The child is the only process there is while start polls, and there is  *)
(* none before it is spawned or when stop found nothing to stop.           *)
PollIsAlone ==
    \A c \in Client :
        /\ client[c].pc = "poll" => client[c].pid \in Pid
        /\ client[c].pc = "poll" => \A p \in Pid : Live(p) => p = client[c].pid
        /\ client[c].pc \in {"spawn", "unlink"} => \A p \in Pid : ~Live(p)

(* A process in its cycles owns the pidfile; one that has opened it is the *)
(* only one; a pid in it is that of a process that got so far.             *)
PidfileOwned ==
    /\ \A p \in Pid : proc[p] = "crawling" => pidfile = p
    /\ \A p \in Pid : proc[p] = "opening" => pidfile = Empty /\ p \in opened
    /\ \A p \in opened : proc[p] = "opening"
    /\ pidfile \in Pid => proc[pidfile] \notin {"free", "booting"}

(* Every process was launched by start, and no pid was reused. *)
OnlyDaemons == \A p \in Pid : proc[p] # "alien" /\ (Live(p) => kind[p] = "loop")

(* The inductive invariant. *)
SInv == /\ TypeOK /\ OneCommand /\ BootIsPolled /\ PollIsAlone
        /\ PidfileOwned /\ OnlyDaemons
-----------------------------------------------------------------------------
(* Two processes of which one boots are one, because start polls alone;    *)
(* two in their cycles are one, because both own the pidfile.              *)
LEMMA OneLive ==
    ASSUME SInv, NEW p \in Pid, NEW q \in Pid, Live(p), Live(q)
    PROVE  p = q
<1>1. CASE proc[p] \in {"booting", "opening"}
  BY <1>1 DEF SInv, BootIsPolled, PollIsAlone
<1>2. CASE proc[q] \in {"booting", "opening"}
  BY <1>2 DEF SInv, BootIsPolled, PollIsAlone
<1>3. CASE proc[p] = "crawling" /\ proc[q] = "crawling"
  BY <1>3 DEF SInv, PidfileOwned
<1> QED
  BY <1>1, <1>2, <1>3 DEF Live

(* A pidfile that names an existing process names the one in its cycles,   *)
(* or the dead child of a start that still polls.                          *)
LEMMA AliveMeans ==
    ASSUME SInv, DaemonAlive
    PROVE  /\ pidfile \in Pid
           /\ proc[pidfile] = "crawling" \/ Zombie(pidfile)
BY DaemonAssumption DEF SInv, PidfileOwned, OnlyDaemons, DaemonAlive, Exists, Live

(* When nobody polls, a process that lives is in its cycles.               *)
LEMMA QuietMeansCrawling ==
    ASSUME SInv, \A c \in Client : client[c].pc # "poll"
    PROVE  \A p \in Pid : Live(p) => proc[p] = "crawling" /\ DaemonAlive /\ pidfile = p
BY DEF SInv, BootIsPolled, PidfileOwned, Live, DaemonAlive, Exists

(* No process and no pidfile at first. *)
LEMMA InitSInv == Init => SInv
BY DaemonAssumption DEF Init, SInv, TypeOK, OneCommand, BootIsPolled, PollIsAlone,
   PidfileOwned, OnlyDaemons, Live, Idle, ProcState, ProcKind, ClientPc, Report
-----------------------------------------------------------------------------
(* The parts of the invariant, for the steps that take it apart.           *)
LEMMA ClientType ==
    ASSUME TypeOK, NEW c \in Client, NEW pc \in ClientPc, NEW pid \in Pid \cup {NoFile},
           NEW report \in Report,
           client' = [client EXCEPT ![c] = [pc |-> pc, pid |-> pid, report |-> report]]
    PROVE  /\ client' \in [Client -> [pc : ClientPc, pid : Pid \cup {NoFile}, report : Report]]
           /\ client'[c] = [pc |-> pc, pid |-> pid, report |-> report]
           /\ \A d \in Client : d # c => client'[d] = client[d]
BY DEF TypeOK

(* A command that returns, when no child of it boots.                      *)
LEMMA TellPreserves ==
    ASSUME SInv, NEW c \in Client, NEW report \in Report, Tell(c, report),
           client[c].pc = "poll" => proc[client[c].pid] \notin {"booting", "opening"},
           UNCHANGED <<proc, kind, pidfile, opened>>
    PROVE  SInv'
<1>1. /\ client' \in [Client -> [pc : ClientPc, pid : Pid \cup {NoFile}, report : Report]]
      /\ client'[c] = [pc |-> "idle", pid |-> NoFile, report |-> report]
      /\ \A d \in Client : d # c => client'[d] = client[d]
  <2>1. "idle" \in ClientPc
    BY DEF ClientPc
  <2> QED
    BY <2>1, ClientType DEF SInv, Tell, Idle
<1>2. TypeOK'
  BY <1>1 DEF SInv, TypeOK
<1>3. OneCommand'
  BY <1>1 DEF SInv, OneCommand
<1>4. BootIsPolled'
  BY <1>1 DEF SInv, BootIsPolled
<1>5. PollIsAlone'
  BY <1>1 DEF SInv, PollIsAlone, Live
<1>6. PidfileOwned' /\ OnlyDaemons'
  BY DEF SInv, PidfileOwned, OnlyDaemons, Live
<1> QED
  BY <1>2, <1>3, <1>4, <1>5, <1>6 DEF SInv

(* A command that goes on from one place to another, neither of them the   *)
(* poll.                                                                   *)
LEMMA GotoPreserves ==
    ASSUME SInv, NEW c \in Client, NEW pc \in ClientPc, NEW pid \in Pid \cup {NoFile},
           Goto(c, pc, pid),
           client[c].pc # "poll", pc # "poll",
           \A d \in Client : d # c => client[d].pc = "idle",
           pc \in {"spawn", "unlink"} => \A p \in Pid : ~Live(p),
           UNCHANGED <<proc, kind, pidfile, opened>>
    PROVE  SInv'
<1>1. /\ client' \in [Client -> [pc : ClientPc, pid : Pid \cup {NoFile}, report : Report]]
      /\ client'[c] = [pc |-> pc, pid |-> pid, report |-> "none"]
      /\ \A d \in Client : d # c => client'[d] = client[d]
  <2>1. "none" \in Report
    BY DEF Report
  <2> QED
    BY <2>1, ClientType DEF SInv, Goto
<1>2. TypeOK'
  BY <1>1 DEF SInv, TypeOK
<1>3. OneCommand'
  BY <1>1 DEF SInv, OneCommand
<1>4. BootIsPolled'
  BY <1>1 DEF SInv, BootIsPolled
<1>5. PollIsAlone'
  BY <1>1 DEF SInv, PollIsAlone, Live
<1>6. PidfileOwned' /\ OnlyDaemons'
  BY DEF SInv, PidfileOwned, OnlyDaemons, Live
<1> QED
  BY <1>2, <1>3, <1>4, <1>5, <1>6 DEF SInv

(* Under Env = {} a command begins when every client is idle.              *)
LEMMA AllIdle ==
    ASSUME Env = {}, NEW c \in Client, MayRun(c)
    PROVE  \A d \in Client : client[d].pc = "idle"
BY DEF MayRun

(* The check of start and the read of stop: nothing alive in the pidfile   *)
(* means nothing alive.                                                    *)
LEMMA BeginPreserves ==
    ASSUME Env = {}, SInv, NEW c \in Client, StartCheck(c) \/ StopRead(c)
    PROVE  SInv'
<1>1. \A d \in Client : client[d].pc = "idle"
  BY AllIdle DEF StartCheck, StopRead
<1>2. ~DaemonAlive => \A p \in Pid : ~Live(p)
  BY <1>1, QuietMeansCrawling
<1>3. DaemonAlive => pidfile \in Pid
  BY DEF DaemonAlive
<1>4. /\ "already" \in Report /\ "spawn" \in ClientPc
      /\ "signal" \in ClientPc /\ "unlink" \in ClientPc
  BY DEF Report, ClientPc
<1>5. CASE StartCheck(c)
  <2>1. CASE DaemonAlive
    BY <1>1, <1>4, <1>5, <2>1, TellPreserves DEF StartCheck
  <2>2. CASE ~DaemonAlive
    BY <1>1, <1>2, <1>4, <1>5, <2>2, GotoPreserves DEF StartCheck
  <2> QED
    BY <2>1, <2>2
<1>6. CASE StopRead(c)
  <2>1. CASE DaemonAlive
    BY <1>1, <1>3, <1>4, <1>6, <2>1, GotoPreserves DEF StopRead
  <2>2. CASE ~DaemonAlive
    BY <1>1, <1>2, <1>4, <1>6, <2>2, GotoPreserves DEF StopRead
  <2> QED
    BY <2>1, <2>2
<1> QED
  BY <1>5, <1>6

(* The spawn: there is no other process, and c is the only command.        *)
LEMMA SpawnPreserves ==
    ASSUME SInv, NEW c \in Client, StartSpawn(c)
    PROVE  SInv'
<1>1. PICK p \in Pid :
          /\ proc[p] = "free" /\ proc' = [proc EXCEPT ![p] = "booting"]
          /\ kind' = [kind EXCEPT ![p] = "loop"]
          /\ Goto(c, "poll", p)
  BY DEF StartSpawn
<1>2. client[c].pc = "spawn" /\ pidfile' = pidfile /\ opened' = opened
  BY DEF StartSpawn
<1>3. /\ client' \in [Client -> [pc : ClientPc, pid : Pid \cup {NoFile}, report : Report]]
      /\ client'[c] = [pc |-> "poll", pid |-> p, report |-> "none"]
      /\ \A d \in Client : d # c => client'[d] = client[d]
  <2>1. "none" \in Report /\ "poll" \in ClientPc
    BY DEF Report, ClientPc
  <2> QED
    BY <1>1, <2>1, ClientType DEF SInv, Goto
<1>4. \A q \in Pid : ~Live(q)
  BY <1>2 DEF SInv, PollIsAlone
<1>5. \A d \in Client : d # c => client[d].pc = "idle"
  BY <1>2 DEF SInv, OneCommand
<1>6. /\ proc \in [Pid -> ProcState] /\ proc'[p] = "booting"
      /\ \A q \in Pid : q # p => proc'[q] = proc[q]
      /\ kind'[p] = "loop" /\ \A q \in Pid : q # p => kind'[q] = kind[q]
  BY <1>1 DEF SInv, TypeOK
<1>7. TypeOK'
  <2>1. "booting" \in ProcState /\ "loop" \in ProcKind
    BY DEF ProcState, ProcKind
  <2> QED
    BY <1>1, <1>2, <1>3, <2>1 DEF SInv, TypeOK
<1>8. OneCommand'
  BY <1>3, <1>5 DEF OneCommand
<1>9. BootIsPolled'
  BY <1>3, <1>4, <1>6 DEF BootIsPolled, Live
<1>10. PollIsAlone'
  BY <1>3, <1>4, <1>5, <1>6 DEF PollIsAlone, Live
<1>11. PidfileOwned'
  BY <1>1, <1>2, <1>4, <1>6 DEF SInv, TypeOK, PidfileOwned, Live
<1>12. OnlyDaemons'
  BY <1>4, <1>6 DEF SInv, OnlyDaemons, Live
<1> QED
  BY <1>7, <1>8, <1>9, <1>10, <1>11, <1>12 DEF SInv

(* A start that sees a pidfile or gives up has no child that still boots.  *)
LEMMA StartEndsPreserves ==
    ASSUME Env = {}, SInv, NEW c \in Client,
           StartRaises(c) \/ StartPoll(c) \/ StartTimeout(c)
    PROVE  SInv'
<1>1. "raised" \in Report /\ "started" \in Report /\ "no_pidfile" \in Report
  BY DEF Report
<1>2. CASE StartRaises(c)
  BY <1>1, <1>2, TellPreserves DEF StartRaises
<1>3. CASE StartPoll(c)
  <2>1. client[c].pc = "poll" /\ DaemonAlive
    BY <1>3 DEF StartPoll
  <2>2. proc[client[c].pid] \notin {"booting", "opening"}
    <3>1. CASE proc[pidfile] = "crawling"
      BY <2>1, <3>1, AliveMeans DEF SInv, PollIsAlone, Live
    <3>2. CASE Zombie(pidfile)
      BY <2>1, <3>2 DEF SInv, OneCommand, Zombie
    <3> QED
      BY <2>1, <3>1, <3>2, AliveMeans
  <2> QED
    BY <1>1, <1>3, <2>2, TellPreserves DEF StartPoll
<1>4. CASE StartTimeout(c)
  BY <1>1, <1>4, TellPreserves DEF StartTimeout
<1> QED
  BY <1>2, <1>3, <1>4

(* The removal of a pidfile that belongs to nobody.                        *)
LEMMA UnlinkPreserves ==
    ASSUME SInv, NEW c \in Client, StopUnlink(c)
    PROVE  SInv'
<1>1. /\ client[c].pc = "unlink" /\ pidfile' = NoFile /\ opened' = {}
      /\ Tell(c, "not_running") /\ proc' = proc /\ kind' = kind
  BY DEF StopUnlink, Unlink
<1>2. \A p \in Pid : ~Live(p)
  BY <1>1 DEF SInv, PollIsAlone
<1>3. /\ client' \in [Client -> [pc : ClientPc, pid : Pid \cup {NoFile}, report : Report]]
      /\ client'[c] = [pc |-> "idle", pid |-> NoFile, report |-> "not_running"]
      /\ \A d \in Client : d # c => client'[d] = client[d]
  <2>1. "idle" \in ClientPc /\ "not_running" \in Report
    BY DEF ClientPc, Report
  <2> QED
    BY <1>1, <2>1, ClientType DEF SInv, Tell, Idle
<1>4. TypeOK'
  BY <1>1, <1>3 DEF SInv, TypeOK
<1>5. OneCommand' /\ BootIsPolled'
  BY <1>1, <1>2, <1>3 DEF SInv, OneCommand, BootIsPolled, Live
<1>6. PollIsAlone'
  <2>1. \A p \in Pid : ~Live(p)'
    BY <1>1, <1>2 DEF Live
  <2>2. \A d \in Client : client'[d].pc = "poll" => client'[d].pid \in Pid
    BY <1>3 DEF SInv, PollIsAlone
  <2> QED
    BY <2>1, <2>2 DEF PollIsAlone
<1>7. PidfileOwned' /\ OnlyDaemons'
  BY <1>1, <1>2, DaemonAssumption DEF SInv, PidfileOwned, OnlyDaemons, Live
<1> QED
  BY <1>4, <1>5, <1>6, <1>7 DEF SInv

(* A process dies, by a signal or otherwise; the pidfile stays.            *)
LEMMA DeathPreserves ==
    ASSUME SInv, NEW p \in Pid, proc' = [proc EXCEPT ![p] = "dead"],
           opened' = opened \ {p}, UNCHANGED <<kind, pidfile, client>>
    PROVE  SInv'
<1>1. /\ proc'[p] = "dead" /\ \A q \in Pid : q # p => proc'[q] = proc[q]
      /\ proc \in [Pid -> ProcState]
  BY DEF SInv, TypeOK
<1>2. TypeOK'
  <2>1. "dead" \in ProcState
    BY DEF ProcState
  <2> QED
    BY <2>1 DEF SInv, TypeOK
<1>3. OneCommand' /\ BootIsPolled'
  BY <1>1 DEF SInv, OneCommand, BootIsPolled
<1>4. PollIsAlone'
  BY <1>1 DEF SInv, PollIsAlone, Live
<1>5. PidfileOwned'
  BY <1>1 DEF SInv, TypeOK, PidfileOwned
<1>6. OnlyDaemons'
  BY <1>1 DEF SInv, OnlyDaemons, Live
<1> QED
  BY <1>2, <1>3, <1>4, <1>5, <1>6 DEF SInv

(* Stop's signal: the process and the place of the command change at once. *)
LEMMA SignalPreserves ==
    ASSUME SInv, NEW c \in Client, StopSignal(c)
    PROVE  SInv'
<1> DEFINE p == client[c].pid
<1>1. client[c].pc = "signal" /\ UNCHANGED <<kind, pidfile>>
  BY DEF StopSignal
<1>2. \A d \in Client : d # c => client[d].pc = "idle"
  BY <1>1 DEF SInv, OneCommand
<1>3. "exited" \in Report /\ "did_not_exit" \in Report /\ "wait" \in ClientPc /\ "none" \in Report
  BY DEF Report, ClientPc
<1>4. CASE Tell(c, "exited") /\ UNCHANGED <<proc, opened>>
  BY <1>1, <1>3, <1>4, TellPreserves
<1>5. CASE Tell(c, "did_not_exit") /\ UNCHANGED <<proc, opened>>
  BY <1>1, <1>3, <1>5, TellPreserves
<1>6. CASE /\ Exists(p) /\ Goto(c, "wait", p)
           /\ \E s \in {"dead"} \cup ({proc[p]} \cap {"alien"}) : proc' = [proc EXCEPT ![p] = s]
           /\ opened' = opened \ {p}
  <2>1. /\ p \in Pid \cup {NoFile} /\ proc \in [Pid -> ProcState]
        /\ kind \in [Pid -> ProcKind] /\ opened \subseteq Pid
    BY DEF SInv, TypeOK
  <2>2. /\ client' \in [Client -> [pc : ClientPc, pid : Pid \cup {NoFile}, report : Report]]
        /\ client'[c] = [pc |-> "wait", pid |-> p, report |-> "none"]
        /\ \A d \in Client : d # c => client'[d] = client[d]
    <3> HIDE DEF p
    <3> QED
      BY <1>3, <1>6, <2>1, ClientType DEF SInv, Goto
  <2>3. PICK s \in {"dead"} \cup ({proc[p]} \cap {"alien"}) : proc' = [proc EXCEPT ![p] = s]
    BY <1>6
  <2>4. /\ \A q \in Pid : q # p => proc'[q] = proc[q]
        /\ p \in Pid => proc'[p] \in {"dead", "alien"}
        /\ p \in Pid /\ proc'[p] = "alien" => proc[p] = "alien"
    BY <2>1, <2>3
  <2>5. proc' \in [Pid -> ProcState]
    <3>1. "dead" \in ProcState /\ "alien" \in ProcState
      BY DEF ProcState
    <3> QED
      BY <2>1, <2>3, <3>1
  <2>6. TypeOK'
    BY <1>1, <1>6, <2>1, <2>2, <2>5 DEF SInv, TypeOK
  <2> HIDE DEF p
  <2>7. OneCommand'
    BY <1>2, <2>2 DEF OneCommand
  <2>8. BootIsPolled'
    BY <1>1, <1>2, <2>2, <2>4 DEF SInv, BootIsPolled
  <2>9. PollIsAlone'
    BY <1>2, <2>2 DEF PollIsAlone
  <2>10. PidfileOwned'
    BY <1>1, <1>6, <2>1, <2>4 DEF SInv, PidfileOwned
  <2>11. OnlyDaemons'
    BY <1>1, <2>4 DEF SInv, OnlyDaemons, Live
  <2> QED
    BY <2>6, <2>7, <2>8, <2>9, <2>10, <2>11 DEF SInv
<1> QED
  BY <1>4, <1>5, <1>6 DEF StopSignal

(* The end of the wait of run_stop changes only the report. *)
LEMMA WaitPreserves ==
    ASSUME SInv, NEW c \in Client, StopWait(c)
    PROVE  SInv'
<1>1. "stopped" \in Report /\ "did_not_exit" \in Report
  BY DEF Report
<1> QED
  BY <1>1, TellPreserves DEF StopWait

(* The two steps of the write of the pidfile, by the only process there    *)
(* is.                                                                     *)
LEMMA BootPreserves ==
    ASSUME SInv, NEW p \in Pid, Boot(p)
    PROVE  SInv'
<1>1. Live(p) /\ UNCHANGED <<kind, client>>
  BY DEF Boot, OpenPidfile, WritePid, Live
<1>2. \A q \in Pid : q # p => ~Live(q)
  BY <1>1, OneLive
<1>3. /\ proc \in [Pid -> ProcState] /\ opened \subseteq Pid
      /\ pidfile \in Pid \cup {NoFile, Empty}
  BY DEF SInv, TypeOK
<1>4. "opening" \in ProcState /\ "crawling" \in ProcState
  BY DEF ProcState
<1>5. CASE OpenPidfile(p)
  <2>1. /\ proc[p] = "booting" /\ proc' = [proc EXCEPT ![p] = "opening"]
        /\ pidfile' = Empty /\ opened' = opened \cup {p}
    BY <1>5 DEF OpenPidfile
  <2>2. proc'[p] = "opening" /\ \A q \in Pid : q # p => proc'[q] = proc[q]
    BY <1>3, <2>1
  <2>3. TypeOK'
    BY <1>1, <1>3, <1>4, <2>1 DEF SInv, TypeOK
  <2>4. OneCommand' /\ BootIsPolled'
    BY <1>1, <2>1, <2>2 DEF SInv, OneCommand, BootIsPolled
  <2>5. PollIsAlone'
    BY <1>1, <2>1, <2>2 DEF SInv, PollIsAlone, Live
  <2>6. PidfileOwned'
    BY <1>2, <1>3, <2>1, <2>2, DaemonAssumption DEF SInv, PidfileOwned, Live
  <2>7. OnlyDaemons'
    BY <1>1, <2>1, <2>2 DEF SInv, OnlyDaemons, Live
  <2> QED
    BY <2>3, <2>4, <2>5, <2>6, <2>7 DEF SInv
<1>6. CASE WritePid(p)
  <2>1. /\ proc[p] = "opening" /\ proc' = [proc EXCEPT ![p] = "crawling"]
        /\ opened' = opened \ {p} /\ p \in opened /\ pidfile' = p
    BY <1>6 DEF WritePid, SInv, PidfileOwned
  <2>2. proc'[p] = "crawling" /\ \A q \in Pid : q # p => proc'[q] = proc[q]
    BY <1>3, <2>1
  <2>3. TypeOK'
    BY <1>1, <1>3, <1>4, <2>1 DEF SInv, TypeOK
  <2>4. OneCommand' /\ BootIsPolled'
    BY <1>1, <2>1, <2>2 DEF SInv, OneCommand, BootIsPolled
  <2>5. PollIsAlone'
    BY <1>1, <2>1, <2>2 DEF SInv, PollIsAlone, Live
  <2>6. PidfileOwned'
    BY <1>2, <1>3, <2>1, <2>2, DaemonAssumption DEF SInv, PidfileOwned, Live
  <2>7. OnlyDaemons'
    BY <1>1, <2>1, <2>2 DEF SInv, OnlyDaemons, Live
  <2> QED
    BY <2>3, <2>4, <2>5, <2>6, <2>7 DEF SInv
<1> QED
  BY <1>5, <1>6 DEF Boot

(* Every step of the serial protocol preserves the inductive invariant. *)
LEMMA NextSInv ==
    ASSUME Env = {}, SInv, [Next]_vars
    PROVE  SInv'
<1>1. ASSUME NEW c \in Client, StartCheck(c) \/ StopRead(c) PROVE SInv'
  BY <1>1, BeginPreserves
<1>2. ASSUME NEW c \in Client, StartSpawn(c) PROVE SInv'
  BY <1>2, SpawnPreserves
<1>3. ASSUME NEW c \in Client, StartRaises(c) \/ StartPoll(c) \/ StartTimeout(c) PROVE SInv'
  BY <1>3, StartEndsPreserves
<1>4. ASSUME NEW c \in Client, StopUnlink(c) PROVE SInv'
  BY <1>4, UnlinkPreserves
<1>5. ASSUME NEW c \in Client, StopSignal(c) PROVE SInv'
  BY <1>5, SignalPreserves
<1>6. ASSUME NEW c \in Client, StopWait(c) PROVE SInv'
  BY <1>6, WaitPreserves
<1>7. ASSUME NEW p \in Pid, Boot(p) PROVE SInv'
  BY <1>7, BootPreserves
<1>8. ASSUME NEW p \in Pid, Die(p) PROVE SInv'
  BY <1>8, DeathPreserves DEF Die
<1>9. ASSUME NEW p \in Pid, Leave(p) PROVE SInv'
  BY <1>9 DEF Leave, SInv, OnlyDaemons, Live
<1>10. ASSUME NEW p \in Pid, ReusePid(p) PROVE SInv'
  BY <1>10 DEF ReusePid
<1>11. ASSUME NEW p \in Pid, NEW k \in ProcKind, RunByHand(p, k) PROVE SInv'
  BY <1>11 DEF RunByHand
<1>12. CASE UNCHANGED vars
  BY <1>12 DEF vars, SInv, TypeOK, OneCommand, BootIsPolled, PollIsAlone, PidfileOwned,
               OnlyDaemons, Live
<1> QED
  BY <1>1, <1>2, <1>3, <1>4, <1>5, <1>6, <1>7, <1>8, <1>9, <1>10, <1>11, <1>12
     DEF Next, Command
-----------------------------------------------------------------------------
(* The inductive invariant holds throughout, under the four assumptions on *)
(* the environment.                                                        *)
THEOREM SerialInvariance == ASSUME Env = {} PROVE Spec => []SInv
<1>1. Init => SInv
  BY InitSInv
<1>2. SInv /\ [Next]_vars => SInv'
  BY NextSInv
<1> QED
  BY <1>1, <1>2, PTL DEF Spec

(* Two crawl loops never run on one repository: the check of run_start on  *)
(* the pidfile is enough in a serial environment, whatever dies when.      *)
THEOREM SerialExclusion == ASSUME Env = {} PROVE Spec => []AtMostOneDaemon
<1>1. SInv => AtMostOneDaemon
  BY OneLive DEF AtMostOneDaemon, Daemons
<1> QED
  BY <1>1, SerialInvariance, PTL

(* `autofix status` reports a process whenever a crawl loop is in its      *)
(* cycles.                                                                 *)
THEOREM SerialStatus == ASSUME Env = {} PROVE Spec => []StatusSeesDaemon
<1>1. SInv => StatusSeesDaemon
  <2> SUFFICES ASSUME SInv, NEW p \in Daemons, proc[p] = "crawling"
               PROVE  NoFile \notin RunningLine
    BY DEF StatusSeesDaemon
  <2>1. pidfile = p /\ p \in Pid /\ DaemonAlive
    BY DEF SInv, PidfileOwned, Daemons, DaemonAlive, Exists, Live
  <2> QED
    BY <2>1, DaemonAssumption DEF RunningLine
<1> QED
  BY <1>1, SerialInvariance, PTL

(* Without crawls by hand and without reused pids a process is a child of  *)
(* some start, and a dead one stays dead, however long boots take.         *)
KindInv == TypeOK /\ OnlyDaemons

(* Every step keeps it. *)
LEMMA KindKept ==
    ASSUME Env \subseteq {"slowboot"}, KindInv, [Next]_vars
    PROVE  KindInv'
<1> USE DEF KindInv
<1>1. ASSUME NEW c \in Client, NEW pc \in ClientPc, NEW pid \in Pid \cup {NoFile}, NEW report \in Report,
             client' = [client EXCEPT ![c] = [pc |-> pc, pid |-> pid, report |-> report]]
      PROVE  client' \in [Client -> [pc : ClientPc, pid : Pid \cup {NoFile}, report : Report]]
  BY <1>1 DEF TypeOK
<1>2. /\ \A r \in {"none", "already", "started", "no_pidfile", "not_running", "exited",
                   "stopped", "did_not_exit", "raised"} : r \in Report
      /\ \A pc \in {"idle", "spawn", "poll", "unlink", "signal", "wait"} : pc \in ClientPc
  BY DEF Report, ClientPc
<1>3. ASSUME NEW c \in Client, StartCheck(c) PROVE KindInv'
  <2>1. client' \in [Client -> [pc : ClientPc, pid : Pid \cup {NoFile}, report : Report]]
    BY <1>1, <1>2, <1>3 DEF StartCheck, Tell, Idle, Goto
  <2> QED BY <1>3, <2>1 DEF StartCheck, TypeOK, OnlyDaemons, Live
<1>4. ASSUME NEW c \in Client, StopRead(c) PROVE KindInv'
  <2>1. client' \in [Client -> [pc : ClientPc, pid : Pid \cup {NoFile}, report : Report]]
    BY <1>1, <1>2, <1>4 DEF StopRead, DaemonAlive, Goto
  <2> QED BY <1>4, <2>1 DEF StopRead, TypeOK, OnlyDaemons, Live
<1>5. ASSUME NEW c \in Client, StartSpawn(c) PROVE KindInv'
  <2>1. PICK p \in Pid : /\ proc' = [proc EXCEPT ![p] = "booting"]
                         /\ kind' = [kind EXCEPT ![p] = "loop"]
                         /\ Goto(c, "poll", p)
    BY <1>5 DEF StartSpawn
  <2>2. client' \in [Client -> [pc : ClientPc, pid : Pid \cup {NoFile}, report : Report]]
    BY <1>1, <1>2, <2>1 DEF Goto
  <2> QED BY <1>5, <2>1, <2>2 DEF StartSpawn, TypeOK, OnlyDaemons, Live, ProcState, ProcKind
<1>6. ASSUME NEW c \in Client,
             StartRaises(c) \/ StartPoll(c) \/ StartTimeout(c) \/ StopUnlink(c) \/ StopWait(c)
      PROVE  KindInv'
  <2>1. PICK r \in Report : Tell(c, r)
    BY <1>2, <1>6 DEF StartRaises, StartPoll, StartTimeout, StopUnlink, StopWait
  <2>2. client' \in [Client -> [pc : ClientPc, pid : Pid \cup {NoFile}, report : Report]]
    BY <1>1, <1>2, <2>1 DEF Tell, Idle
  <2>3. /\ UNCHANGED <<proc, kind>>
        /\ pidfile' \in {pidfile, NoFile} /\ opened' \in {opened, {}}
    BY <1>6 DEF StartRaises, StartPoll, StartTimeout, StopUnlink, StopWait, Unlink
  <2> QED BY <2>2, <2>3 DEF TypeOK, OnlyDaemons, Live
<1>7. ASSUME NEW c \in Client, StopSignal(c) PROVE KindInv'
  <2>1. client[c].pid \in Pid \cup {NoFile}
    BY DEF TypeOK
  <2>2. client' \in [Client -> [pc : ClientPc, pid : Pid \cup {NoFile}, report : Report]]
    BY <1>1, <1>2, <1>7, <2>1 DEF StopSignal, Tell, Idle, Goto
  <2>3. proc' = proc \/ \E s : proc' = [proc EXCEPT ![client[c].pid] = s]
                              /\ (s = "dead" \/ (s = "alien" /\ proc[client[c].pid] = "alien"))
    BY <1>7 DEF StopSignal
  <2>4. /\ proc' \in [Pid -> ProcState]
        /\ \A p \in Pid : proc'[p] = proc[p] \/ proc'[p] = "dead"
    BY <2>3 DEF TypeOK, ProcState, OnlyDaemons
  <2>5. UNCHANGED <<kind, pidfile>> /\ opened' \in SUBSET opened
    BY <1>7 DEF StopSignal
  <2> QED BY <2>2, <2>4, <2>5 DEF TypeOK, OnlyDaemons, Live
<1>8. ASSUME NEW p \in Pid, Boot(p) \/ Leave(p) \/ Die(p) PROVE KindInv'
  <2>1. \E s \in {"opening", "crawling", "dead"} : proc' = [proc EXCEPT ![p] = s] /\ Live(p)
    BY <1>8 DEF Boot, OpenPidfile, WritePid, Leave, Die, Live
  <2>2. /\ UNCHANGED <<kind, client>>
        /\ pidfile' \in {pidfile, p, NoFile, Empty}
        /\ opened' \in SUBSET (opened \cup {p})
    BY <1>8 DEF Boot, OpenPidfile, WritePid, Leave, Die, Unlink
  <2> QED BY <2>1, <2>2 DEF TypeOK, OnlyDaemons, Live, ProcState
<1>9. CASE UNCHANGED vars
  BY <1>9 DEF vars, TypeOK, OnlyDaemons, Live
<1>10. ASSUME NEW p \in Pid PROVE ~ReusePid(p) /\ \A k \in ProcKind : ~RunByHand(p, k)
  BY DEF ReusePid, RunByHand
<1> QED
  BY <1>3, <1>4, <1>5, <1>6, <1>7, <1>8, <1>9, <1>10 DEF Next, Command

(* It holds throughout. *)
LEMMA KindInvariance == ASSUME Env \subseteq {"slowboot"} PROVE Spec => []KindInv
<1>1. Init => KindInv
  BY DEF Init, KindInv, TypeOK, OnlyDaemons, Live, Idle, ProcState, ProcKind, ClientPc, Report
<1> QED
  BY <1>1, KindKept, PTL DEF Spec


(* run_start says "already running" only when a crawl loop is running, also *)
(* when boots outlast the startup timeout.                                 *)
THEOREM SerialRefusal == ASSUME Env \subseteq {"slowboot"} PROVE Spec => RefusalIsTrue
<1>1. KindInv /\ [Next]_vars =>
          [\A c \in Client : client'[c].report = "already" /\ client[c].report # "already"
              => Daemons # {}]_vars
  <2> SUFFICES ASSUME KindInv, Next, NEW c \in Client,
                      client'[c].report = "already", client[c].report # "already"
               PROVE  Daemons # {}
    OBVIOUS
  <2>1. client \in [Client -> [pc : ClientPc, pid : Pid \cup {NoFile}, report : Report]]
    BY DEF KindInv, TypeOK
  <2>2. StartCheck(c) /\ DaemonAlive
    <3>1. client' # client
      OBVIOUS
    <3>2. PICK d \in Client : StartCheck(d) \/ StopRead(d) \/ Command(d)
      BY <3>1 DEF Next, Boot, OpenPidfile, WritePid, Leave, Die, ReusePid, RunByHand
    <3>3. \A r \in Report \ {"already"} : ~Tell(d, r)
      BY <2>1 DEF Tell, Idle
    <3>4. \A pc, pid : ~Goto(d, pc, pid)
      BY <2>1 DEF Goto
    <3>5. /\ "raised" \in Report /\ "started" \in Report /\ "no_pidfile" \in Report
          /\ "not_running" \in Report /\ "exited" \in Report /\ "stopped" \in Report
          /\ "did_not_exit" \in Report
      BY DEF Report
    <3>6. StartCheck(d)
      BY <3>2, <3>3, <3>4, <3>5 DEF StopRead, Command, StartSpawn, StartRaises, StartPoll,
                                    StartTimeout, StopUnlink, StopSignal, StopWait
    <3>7. DaemonAlive /\ Tell(d, "already")
      BY <3>4, <3>6 DEF StartCheck
    <3>8. d = c
      BY <2>1, <3>7 DEF Tell
    <3> QED
      BY <3>6, <3>7, <3>8
  <2>3. \A d \in Client : client[d].pc = "idle"
    BY <2>2 DEF StartCheck, MayRun
  <2>4. pidfile \in Pid /\ Live(pidfile)
    BY <2>2, <2>3 DEF DaemonAlive, Exists, Zombie, KindInv, OnlyDaemons
  <2> QED
    BY <2>4 DEF Daemons, KindInv, OnlyDaemons
<1> QED
  BY <1>1, KindInvariance, PTL DEF Spec, RefusalIsTrue
-----------------------------------------------------------------------------
(* While stop signals and waits, nothing lives but the process it found in *)
(* the pidfile.                                                            *)
StopKnows ==
    \A c \in Client : client[c].pc \in {"signal", "wait"} =>
        \A q \in Pid : Live(q) => q = client[c].pid

(* Where every other place of a command leaves the one that signals or     *)
(* waits, and no process is new, what stop knows stays known.              *)
LEMMA KnowsStays ==
    ASSUME StopKnows, \A q \in Pid : Live(q)' => Live(q),
           \A d \in Client : client'[d].pc \in {"signal", "wait"} =>
               client[d].pc \in {"signal", "wait"} /\ client'[d].pid = client[d].pid
    PROVE  StopKnows'
BY DEF StopKnows

(* A command that returns, or goes on to a place other than those two.     *)
LEMMA ElsewhereKnows ==
    ASSUME TypeOK, NEW c \in Client, NEW pc, NEW pid, NEW report,
           pc \notin {"signal", "wait"},
           client' = [client EXCEPT ![c] = [pc |-> pc, pid |-> pid, report |-> report]]
    PROVE  \A d \in Client : client'[d].pc \in {"signal", "wait"} =>
               client[d].pc \in {"signal", "wait"} /\ client'[d].pid = client[d].pid
<1> TAKE d \in Client
<1>1. client'[c].pc = pc /\ (d # c => client'[d] = client[d])
  BY DEF TypeOK
<1> QED
  BY <1>1

(* A process that changes its state without being new.                     *)
LEMMA NotNew ==
    ASSUME TypeOK, NEW p \in Pid, NEW s, proc' = [proc EXCEPT ![p] = s],
           Live(p) \/ s \notin {"booting", "opening", "crawling"}
    PROVE  \A q \in Pid : Live(q)' => Live(q)
BY DEF TypeOK, Live

(* The read of stop: a pidfile with a living process names the only one.   *)
LEMMA ReadKnows ==
    ASSUME Env = {}, SInv, StopKnows, NEW c \in Client, StopRead(c)
    PROVE  StopKnows'
<1>1. UNCHANGED <<proc, kind, pidfile, opened>> /\ \A d \in Client : client[d].pc = "idle"
  BY AllIdle DEF StopRead
<1>2. \A q \in Pid : Live(q)' <=> Live(q)
  BY <1>1 DEF Live
<1>3. CASE DaemonAlive
  <2>1. Goto(c, "signal", pidfile)
    BY <1>3 DEF StopRead
  <2>2. client'[c].pid = pidfile /\ \A d \in Client : d # c => client'[d] = client[d]
    BY <2>1 DEF Goto, SInv, TypeOK
  <2>3. \A q \in Pid : Live(q) => q = pidfile
    BY <1>1, QuietMeansCrawling
  <2> QED
    BY <1>1, <1>2, <2>2, <2>3 DEF StopKnows
<1>4. CASE ~DaemonAlive
  <2>1. Goto(c, "unlink", NoFile)
    BY <1>4 DEF StopRead
  <2> QED
    BY <1>2, <2>1, KnowsStays, ElsewhereKnows DEF Goto, SInv
<1> QED
  BY <1>3, <1>4

(* The signal: the process it goes to is the one stop knows of.            *)
LEMMA SignalKnows ==
    ASSUME SInv, StopKnows, NEW c \in Client, StopSignal(c)
    PROVE  StopKnows'
<1> DEFINE p == client[c].pid
<1>1. TypeOK /\ client[c].pc = "signal"
  BY DEF SInv, StopSignal
<1>2. CASE /\ Tell(c, "exited") \/ Tell(c, "did_not_exit")
           /\ UNCHANGED <<proc, opened>>
  <2>1. \A q \in Pid : Live(q)' => Live(q)
    BY <1>2 DEF Live
  <2> QED
    BY <1>1, <1>2, <2>1, KnowsStays, ElsewhereKnows DEF Tell, Idle
<1>3. CASE /\ Goto(c, "wait", p)
           /\ \E s \in {"dead"} \cup ({proc[p]} \cap {"alien"}) : proc' = [proc EXCEPT ![p] = s]
  <2>1. \A q \in Pid : Live(q)' => Live(q)
    BY <1>1, <1>3 DEF TypeOK, Live
  <2>2. /\ client'[c].pid = client[c].pid
        /\ \A d \in Client : d # c => client'[d] = client[d]
    BY <1>1, <1>3 DEF TypeOK, Goto
  <2> QED
    BY <1>1, <2>1, <2>2, KnowsStays
<1> QED
  BY <1>2, <1>3 DEF StopSignal

(* The spawn is the only step that makes a process: no stop runs then.     *)
LEMMA SpawnKnows ==
    ASSUME SInv, NEW c \in Client, StartSpawn(c)
    PROVE  StopKnows'
<1>1. client[c].pc = "spawn" /\ \E p \in Pid : Goto(c, "poll", p)
  BY DEF StartSpawn
<1>2. \A d \in Client : d # c => client[d].pc = "idle"
  BY <1>1 DEF SInv, OneCommand
<1>3. client'[c].pc = "poll" /\ \A d \in Client : d # c => client'[d] = client[d]
  BY <1>1 DEF SInv, TypeOK, Goto
<1> QED
  BY <1>2, <1>3 DEF StopKnows

(* Every step keeps what stop knows. *)
LEMMA NextKnows ==
    ASSUME Env = {}, SInv, StopKnows, [Next]_vars
    PROVE  StopKnows'
<1> USE DEF SInv
<1>1. ASSUME NEW c \in Client, StartCheck(c) PROVE StopKnows'
  <2>1. \A q \in Pid : Live(q)' => Live(q)
    BY <1>1 DEF StartCheck, Live
  <2> QED
    BY <1>1, <2>1, KnowsStays, ElsewhereKnows DEF StartCheck, Tell, Idle, Goto
<1>2. ASSUME NEW c \in Client,
             StartRaises(c) \/ StartPoll(c) \/ StartTimeout(c) \/ StopUnlink(c) \/ StopWait(c)
      PROVE StopKnows'
  <2>1. \A q \in Pid : Live(q)' => Live(q)
    BY <1>2 DEF StartRaises, StartPoll, StartTimeout, StopUnlink, StopWait, Live
  <2>2. \E report : client' = [client EXCEPT ![c] = [pc |-> "idle", pid |-> NoFile, report |-> report]]
    BY <1>2 DEF StartRaises, StartPoll, StartTimeout, StopUnlink, StopWait, Tell, Idle
  <2> QED
    BY <2>1, <2>2, KnowsStays, ElsewhereKnows
<1>3. ASSUME NEW p \in Pid, NEW s, proc' = [proc EXCEPT ![p] = s], client' = client,
             Live(p) \/ s \notin {"booting", "opening", "crawling"}
      PROVE StopKnows'
  BY <1>3, NotNew, KnowsStays
<1>4. ASSUME NEW p \in Pid, Boot(p) PROVE StopKnows'
  <2>1. CASE OpenPidfile(p)
    BY <1>3, <2>1 DEF OpenPidfile, Live
  <2>2. CASE WritePid(p)
    BY <1>3, <2>2 DEF WritePid, Live
  <2> QED
    BY <1>4, <2>1, <2>2 DEF Boot
<1>5. ASSUME NEW p \in Pid, Leave(p) PROVE StopKnows'
  BY <1>3, <1>5 DEF Leave
<1>6. ASSUME NEW p \in Pid, Die(p) PROVE StopKnows'
  BY <1>3, <1>6 DEF Die
<1>7. CASE UNCHANGED vars
  BY <1>7 DEF vars, StopKnows, Live
<1>8. ASSUME NEW p \in Pid PROVE ~ReusePid(p) /\ \A k \in ProcKind : ~RunByHand(p, k)
  BY DEF ReusePid, RunByHand
<1> QED
  BY <1>1, <1>2, <1>4, <1>5, <1>6, <1>7, <1>8, ReadKnows, SignalKnows, SpawnKnows DEF Next, Command

(* `autofix stop` says that nothing runs (any more) only when no crawl loop *)
(* is left, not even one that has yet to write its pidfile.                *)
THEOREM SerialStop == ASSUME Env = {} PROVE Spec => StopIsTrue
<1>1. Init => StopKnows
  BY DEF Init, Idle, StopKnows
<1>2. SInv /\ StopKnows /\ [Next]_vars => StopKnows'
  BY NextKnows
<1>3. SInv /\ StopKnows /\ [Next]_vars =>
          [\A c \in Client :
              (/\ client[c].pc # "idle" /\ client'[c].pc = "idle"
               /\ client'[c].report \in {"not_running", "exited", "stopped"}) => Daemons' = {}]_vars
  <2> SUFFICES ASSUME SInv, StopKnows, Next, NEW c \in Client,
                      client[c].pc # "idle", client'[c].pc = "idle",
                      client'[c].report \in {"not_running", "exited", "stopped"}
               PROVE  Daemons' = {}
    OBVIOUS
  <2>1. client \in [Client -> [pc : ClientPc, pid : Pid \cup {NoFile}, report : Report]]
    BY DEF SInv, TypeOK
  <2>2. PICK d \in Client : StartCheck(d) \/ StopRead(d) \/ Command(d)
    BY DEF Next, Boot, OpenPidfile, WritePid, Leave, Die, ReusePid, RunByHand
  <2>3. ~StartCheck(d) /\ ~StopRead(d)
    <3>1. StartCheck(d) \/ StopRead(d) => \A e \in Client : client[e].pc = "idle"
      BY AllIdle DEF StartCheck, StopRead
    <3> QED
      BY <3>1
  <2>4. d = c
    <3>1. \E frame : client' = [client EXCEPT ![d] = frame]
      BY <2>2, <2>3 DEF Command, StartSpawn, StartRaises, StartPoll, StartTimeout, StopUnlink,
                        StopSignal, StopWait, Tell, Goto
    <3> QED
      BY <2>1, <3>1
  <2>5. /\ \A r \in Report \ {"not_running", "exited", "stopped"} : ~Tell(c, r)
        /\ \A pc, pid : pc # "idle" => ~Goto(c, pc, pid)
    BY <2>1 DEF Tell, Goto, Idle
  <2>6. /\ "raised" \in Report /\ "started" \in Report /\ "no_pidfile" \in Report
        /\ "did_not_exit" \in Report
    BY DEF Report
  <2>7. \/ StopUnlink(c)
        \/ StopSignal(c) /\ ~Exists(client[c].pid) /\ UNCHANGED <<proc, opened>>
        \/ StopWait(c) /\ ~Exists(client[c].pid)
    BY <2>2, <2>3, <2>4, <2>5, <2>6 DEF Command, StartSpawn, StartRaises, StartPoll, StartTimeout,
                                        StopSignal, StopWait
  <2>8. proc' = proc /\ kind' = kind /\ \A q \in Pid : ~Live(q)
    <3>1. CASE StopUnlink(c)
      BY <3>1 DEF StopUnlink, SInv, PollIsAlone
    <3>2. CASE StopSignal(c) /\ ~Exists(client[c].pid) /\ UNCHANGED <<proc, opened>>
      BY <3>2 DEF StopSignal, StopKnows, Exists
    <3>3. CASE StopWait(c) /\ ~Exists(client[c].pid)
      BY <3>3 DEF StopWait, StopKnows, Exists
    <3> QED
      BY <2>7, <3>1, <3>2, <3>3
  <2> QED
    BY <2>8 DEF Daemons, Live
<1>4. Spec => []StopKnows
  BY <1>1, <1>2, SerialInvariance, PTL DEF Spec
<1> QED
  BY <1>3, <1>4, SerialInvariance, PTL DEF Spec, StopIsTrue
-----------------------------------------------------------------------------
(* A set of naturals has a least element, and a greatest if it is finite.  *)
LEMMA LeastNat ==
    ASSUME NEW S, S \subseteq Nat, S # {}
    PROVE  \E i \in S : \A j \in S : i <= j
<1> DEFINE R == OpToRel(<, Nat)
<1>1. IsWellFoundedOn(R, Nat)
  BY NatLessThanWellFounded
<1>2. \A x, y \in S : y < x => <<y, x>> \in R
  BY DEF OpToRel
<1> HIDE DEF R
<1>3. PICK x \in S : \A y \in S : ~(<<y, x>> \in R)
  BY <1>1, WFMin
<1>4. \A y \in S : ~(y < x)
  BY <1>2, <1>3
<1> QED BY <1>4

(* Max of a finite set is its member: a set without a greatest one has a   *)
(* smaller subset without, for ever.                                       *)
LEMMA MaxIn ==
    ASSUME NEW S, S \subseteq Nat, S # {}, IsFiniteSet(S)
    PROVE  Max(S) \in S /\ \A j \in S : j <= Max(S)
<1> DEFINE Unbounded(T) == T \subseteq S /\ T # {} /\ \A x \in T : \E y \in T : x < y
           Sizes == {Cardinality(T) : T \in {T \in SUBSET S : Unbounded(T)}}
<1>1. \A T \in SUBSET S : IsFiniteSet(T) /\ Cardinality(T) \in Nat
  BY FS_Subset, FS_CardinalityType
<1>2. ~Unbounded(S)
  <2> SUFFICES ASSUME Unbounded(S) PROVE FALSE
    OBVIOUS
  <2>1. Sizes \subseteq Nat /\ Sizes # {}
    BY <1>1
  <2>2. PICK n \in Sizes : \A m \in Sizes : n <= m
    BY <2>1, LeastNat
  <2>3. PICK T \in SUBSET S : Unbounded(T) /\ Cardinality(T) = n
    BY <2>2
  <2>4. PICK x \in T : TRUE
    BY <2>3
  <2> DEFINE U == {y \in T : x < y}
  <2>5. Unbounded(U)
    <3>1. U # {}
      BY <2>3, <2>4
    <3>2. ASSUME NEW y \in U PROVE \E z \in U : y < z
      <4>1. PICK z \in T : y < z
        BY <2>3
      <4>2. x \in Nat /\ y \in Nat /\ z \in Nat /\ x < y
        BY <2>3, <2>4
      <4> QED BY <4>1, <4>2
    <3> QED BY <3>1, <3>2
  <2>6. U \subseteq T \ {x} /\ x \in Nat
    BY <2>3, <2>4
  <2>7. Cardinality(U) <= Cardinality(T \ {x}) /\ Cardinality(T \ {x}) = n - 1
    BY <1>1, <2>3, <2>4, <2>6, FS_Subset, FS_RemoveElement
  <2>8. Cardinality(U) \in Sizes
    BY <2>5
  <2>9. n <= Cardinality(U) /\ n \in Nat /\ Cardinality(U) \in Nat
    BY <2>1, <2>2, <2>8
  <2> HIDE DEF U
  <2> QED BY <2>7, <2>9
<1>3. \E x \in S : \A y \in S : x >= y
  BY <1>2
<1> QED BY <1>3 DEF Max
-----------------------------------------------------------------------------
(* Entries at different places: how many are ahead of each tells them      *)
(* apart, so that every place of the sorted sequence has its entry.        *)
Ahead(entries, e) == {d \in entries : d.key > e.key \/ (d.key = e.key /\ d.at < e.at)}

(* Finitely many entries, one at each place. *)
Separate(entries) == /\ entries \in SUBSET Keyed /\ IsFiniteSet(entries)
                     /\ \A d, e \in entries : d.at = e.at => d = e

LEMMA PlacesTaken ==
    ASSUME NEW E, Separate(E)
    PROVE  /\ Cardinality(E) \in Nat
           /\ \A n \in 1..Cardinality(E) : \E e \in E : Cardinality(Ahead(E, e)) = n - 1
<1> DEFINE size == Cardinality(E)
           rank == [e \in E |-> Cardinality(Ahead(E, e))]
<1>1. size \in Nat /\ IsFiniteSet(E)
  BY FS_CardinalityType DEF Separate
<1>2. \A e \in E : e.key \in Int /\ e.at \in Nat
  BY DEF Separate, Keyed
<1>3. ASSUME NEW e \in E PROVE IsFiniteSet(Ahead(E, e)) /\ rank[e] \in 0..(size - 1)
  <2>1. Ahead(E, e) \subseteq E \ {e}
    BY <1>2 DEF Ahead
  <2>2. IsFiniteSet(E \ {e}) /\ Cardinality(E \ {e}) = size - 1
    BY <1>1, FS_RemoveElement
  <2>3. IsFiniteSet(Ahead(E, e)) /\ Cardinality(Ahead(E, e)) <= size - 1
    BY <2>1, <2>2, FS_Subset
  <2>4. Cardinality(Ahead(E, e)) \in Nat
    BY <2>3, FS_CardinalityType
  <2> QED BY <1>1, <2>3, <2>4
<1>4. ASSUME NEW d \in E, NEW e \in E, d \in Ahead(E, e) PROVE rank[d] < rank[e]
  <2>1. Ahead(E, d) \subseteq Ahead(E, e) \ {d}
    <3> SUFFICES ASSUME NEW x \in Ahead(E, d) PROVE x \in Ahead(E, e) /\ x # d
      OBVIOUS
    <3>1. x \in E /\ (x.key > d.key \/ (x.key = d.key /\ x.at < d.at))
      BY DEF Ahead
    <3>2. d.key > e.key \/ (d.key = e.key /\ d.at < e.at)
      BY <1>4 DEF Ahead
    <3>3. x.key \in Int /\ d.key \in Int /\ e.key \in Int /\ x.at \in Nat /\ d.at \in Nat /\ e.at \in Nat
      BY <1>2, <3>1
    <3>4. x.key > e.key \/ (x.key = e.key /\ x.at < e.at)
      BY <3>1, <3>2, <3>3
    <3>5. x # d
      BY <3>1, <3>3
    <3> QED BY <3>1, <3>4, <3>5 DEF Ahead
  <2>2. /\ IsFiniteSet(Ahead(E, e) \ {d})
        /\ Cardinality(Ahead(E, e) \ {d}) = Cardinality(Ahead(E, e)) - 1
    BY <1>3, <1>4, FS_RemoveElement
  <2>3. Cardinality(Ahead(E, d)) <= Cardinality(Ahead(E, e) \ {d})
    BY <2>1, <2>2, FS_Subset
  <2> QED BY <1>1, <1>3, <2>2, <2>3
<1>5. ASSUME NEW d \in E, NEW e \in E, d # e PROVE d \in Ahead(E, e) \/ e \in Ahead(E, d)
  <2>1. d.at # e.at
    BY <1>5 DEF Separate
  <2> QED BY <1>2, <2>1 DEF Ahead
<1> HIDE DEF rank
<1>6. rank \in [E -> 0..(size - 1)]
  BY <1>3 DEF rank
<1>7. rank \in Injection(E, 0..(size - 1))
  <2>1. ASSUME NEW d \in E, NEW e \in E, rank[d] = rank[e], d # e PROVE FALSE
    <3>1. rank[d] < rank[e] \/ rank[e] < rank[d]
      BY <1>4, <1>5, <2>1
    <3> QED BY <1>1, <1>6, <2>1, <3>1
  <2> QED BY <1>6, <2>1 DEF Injection, IsInjective
<1>8. IsFiniteSet(0..(size - 1)) /\ Cardinality(0..(size - 1)) = size
  BY <1>1, FS_Interval
<1>9. rank \in Surjection(E, 0..(size - 1))
  BY <1>7, <1>8, FS_Injection
<1>10. ASSUME NEW n \in 1..size PROVE \E e \in E : Cardinality(Ahead(E, e)) = n - 1
  <2>1. n - 1 \in 0..(size - 1)
    BY <1>1
  <2>2. PICK e \in E : rank[e] = n - 1
    BY <1>9, <2>1 DEF Surjection
  <2> QED BY <2>2 DEF rank
<1> QED BY <1>1, <1>10

(* sorted returns each entry's item at some place, and nothing else.       *)
LEMMA SortedItems ==
    ASSUME NEW E, Separate(E), NEW X, \A e \in E : e.item \in X
    PROVE  /\ Sorted[E] \in Seq(X) /\ Len(Sorted[E]) = Cardinality(E)
           /\ \A n \in 1..Cardinality(E) : \E e \in E : Sorted[E][n] = e.item
<1> DEFINE nth(n) == CHOOSE e \in E : Cardinality(Ahead(E, e)) = n - 1
           size == Cardinality(E)
<1>1. size \in Nat /\ \A n \in 1..size : nth(n) \in E
  BY PlacesTaken
<1>2. Sorted[E] = [n \in 1..size |-> nth(n).item]
  BY DEF Sorted, Ahead, Separate
<1> HIDE DEF nth, size
<1>3. Sorted[E] \in [1..size -> X]
  BY <1>1, <1>2
<1>4. Sorted[E] \in Seq(X) /\ Len(Sorted[E]) = size
  BY <1>1, <1>3, SeqDef
<1>5. \A n \in 1..size : Sorted[E][n] = nth(n).item
  BY <1>2
<1> QED BY <1>1, <1>4, <1>5 DEF size
-----------------------------------------------------------------------------
(* The tracked files are the places of git ls-files. *)
LEMMA FileAt ==
    \A i \in 1..Len(Tracked) : Tracked[i] \in File
BY PickerAssumption DEF File, ToSet

(* There are finitely many files, and finitely many sets of them. *)
LEMMA FileFinite == IsFiniteSet(File) /\ IsFiniteSet(SUBSET File)
<1>1. Len(Tracked) \in Nat /\ DOMAIN Tracked = 1..Len(Tracked)
  BY PickerAssumption
<1>2. [i \in 1..Len(Tracked) |-> Tracked[i]] \in Surjection(1..Len(Tracked), File)
  BY <1>1 DEF Surjection, File, ToSet
<1>3. IsFiniteSet(1..Len(Tracked))
  BY <1>1, FS_Interval
<1> QED BY <1>2, <1>3, FS_Surjection, FS_SUBSET

(* The entries of some places of a list, with their keys. *)
Entered(places, key, item) == {[key |-> key[i], at |-> i, item |-> item[i]] : i \in places}

(* The places of a list, with any key, are finitely many and separate.     *)
LEMMA PlacesSeparate ==
    ASSUME NEW n \in Nat, NEW D \in SUBSET (1..n), NEW key, NEW item,
           \A i \in D : key[i] \in Int /\ item[i] \in File \cup Bundle
    PROVE  Separate(Entered(D, key, item))
<1> DEFINE E == {[key |-> key[i], at |-> i, item |-> item[i]] : i \in D}
           f == [i \in D |-> [key |-> key[i], at |-> i, item |-> item[i]]]
<1>1. IsFiniteSet(D)
  <2>1. IsFiniteSet(1..n)
    BY FS_Interval
  <2> QED BY <2>1, FS_Subset
<1>2. f \in Surjection(D, E)
  BY DEF Surjection
<1>3. IsFiniteSet(E)
  BY <1>1, <1>2, FS_Surjection
<1>4. E \in SUBSET Keyed
  <2> SUFFICES ASSUME NEW i \in D
               PROVE  [key |-> key[i], at |-> i, item |-> item[i]] \in Keyed
    OBVIOUS
  <2>1. i \in Nat
    OBVIOUS
  <2> HIDE DEF E, f
  <2> QED BY <2>1 DEF Keyed
<1>5. \A d, e \in E : d.at = e.at => d = e
  OBVIOUS
<1> QED BY <1>3, <1>4, <1>5 DEF Separate, Entered

(* What is left of a list is a list of its files.                          *)
LEMMA ExceptFiles ==
    ASSUME NEW files \in Seq(File), NEW these
    PROVE  Except(files, these) \in Seq(File)
<1> DEFINE D == {i \in DOMAIN files : files[i] \notin these}
           E == {[key |-> 0, at |-> i, item |-> files[i]] : i \in D}
           zero == [i \in D |-> 0]
<1>1. Len(files) \in Nat /\ D \in SUBSET (1..Len(files)) /\ \A i \in D : files[i] \in File
  OBVIOUS
<1>2. E = Entered(D, zero, files)
  BY DEF Entered
<1>3. \A i \in D : zero[i] \in Int /\ files[i] \in File \cup Bundle
  BY <1>1
<1>4. \A e \in E : e.item \in File
  BY <1>1
<1> HIDE DEF D, zero, E
<1>5. Separate(E)
  <2>1. Separate(Entered(D, zero, files))
    BY <1>1, <1>3, PlacesSeparate
  <2> QED BY <1>2, <2>1
<1>6. Sorted[E] \in Seq(File)
  BY <1>4, <1>5, SortedItems
<1> QED BY <1>6 DEF Except, E, D

(* The first hop of a walk is a list of files. *)
LEMMA FirstHopFiles ==
    ASSUME NEW seed \in File, NEW aware
    PROVE  FirstHop(seed, aware) \in Seq(File)
<1> DEFINE impl == IF aware /\ Class[seed] = "test" /\ Impl[seed] # NoImpl
                   THEN <<Impl[seed]>> ELSE <<>>
<1>1. impl \in Seq(File)
  BY PickerAssumption
<1>2. Except(Neighbors[seed], ToSet(impl)) \in Seq(File)
  BY PickerAssumption, ExceptFiles
<1> HIDE DEF impl
<1>3. impl \o Except(Neighbors[seed], ToSet(impl)) \in Seq(File)
  BY <1>1, <1>2, ConcatProperties
<1> QED BY <1>3 DEF FirstHop, impl

(* The queue entries of a list of files. *)
LEMMA EntriesOf ==
    ASSUME NEW files \in Seq(File), NEW depth \in Nat
    PROVE  Entries(files, depth) \in Seq(Entry)
<1>1. Len(files) \in Nat /\ DOMAIN files = 1..Len(files) /\ \A i \in 1..Len(files) : files[i] \in File
  OBVIOUS
<1>2. Entries(files, depth) \in [1..Len(files) -> Entry]
  BY <1>1 DEF Entries, Entry
<1> QED BY <1>1, <1>2, SeqDef

(* A walk begins with nothing but the seed. *)
LEMMA BeginWalk ==
    ASSUME NEW seed \in File, NEW aware
    PROVE  Begin(seed, aware) \in Walk /\ Begin(seed, aware).selected = {seed}
<1>1. FirstHop(seed, aware) \in Seq(File)
  BY FirstHopFiles
<1>2. Entries(FirstHop(seed, aware), 1) \in Seq(Entry)
  BY <1>1, EntriesOf
<1>3. ToSet(FirstHop(seed, aware)) \subseteq File
  BY <1>1 DEF ToSet
<1>4. Size[seed] \in Nat
  BY PickerAssumption
<1> QED BY <1>2, <1>3, <1>4 DEF Begin, Walk

(* What a walk has selected besides the seed was below the cap.            *)
Unsaturated(w, seed) ==
    /\ w \in Walk /\ seed \in w.selected
    /\ \A f \in w.selected : f = seed \/ Appearances(f) < MaxHub

(* A file that passed the filters was below the cap. *)
LEMMA SelectStep ==
    ASSUME NEW seed \in File, NEW aware, NEW w, Unsaturated(w, seed), w.queue # <<>>,
           Admitted(Head(w.queue).file, seed, aware, w.bytes)
    PROVE  Unsaturated(Select(w, Head(w.queue), seed, aware), seed)
<1> DEFINE e == Head(w.queue)
           more == IF e.depth < Hops(seed, aware)
                   THEN Except(Neighbors[e.file], w.visited) ELSE <<>>
<1>1. w \in Walk /\ w.queue \in Seq(Entry)
  BY DEF Unsaturated, Walk
<1>2. e \in Entry /\ Tail(w.queue) \in Seq(Entry)
  BY <1>1, HeadTailProperties
<1>3. e.file \in File /\ e.depth + 1 \in Nat
  BY <1>2 DEF Entry
<1>4. more \in Seq(File)
  BY <1>3, PickerAssumption, ExceptFiles
<1> HIDE DEF more, e
<1>5. Tail(w.queue) \o Entries(more, e.depth + 1) \in Seq(Entry)
  BY <1>2, <1>3, <1>4, EntriesOf, ConcatProperties
<1>6. ToSet(more) \subseteq File
  BY <1>4 DEF ToSet
<1>7. w.bytes + Size[e.file] \in Nat
  BY <1>1, <1>3, PickerAssumption DEF Walk
<1>8. Select(w, e, seed, aware) =
        [queue |-> Tail(w.queue) \o Entries(more, e.depth + 1),
         visited |-> w.visited \cup ToSet(more),
         selected |-> w.selected \cup {e.file},
         bytes |-> w.bytes + Size[e.file]]
  BY DEF Select, more
<1>9. Appearances(e.file) < MaxHub
  BY DEF Admitted, e
<1>10. Select(w, e, seed, aware) \in Walk
  BY <1>1, <1>3, <1>5, <1>6, <1>7, <1>8 DEF Walk
<1>11. Select(w, e, seed, aware).selected = w.selected \cup {e.file}
  BY <1>8
<1>12. Unsaturated(Select(w, e, seed, aware), seed)
  BY <1>9, <1>10, <1>11 DEF Unsaturated
<1> QED BY <1>12 DEF e

(* No visit selects a saturated file. *)
LEMMA VisitStep ==
    ASSUME NEW seed \in File, NEW aware, NEW w, Unsaturated(w, seed)
    PROVE  Unsaturated(Visit(seed, aware)[w], seed)
<1>1. w \in Walk
  BY DEF Unsaturated
<1>2. Visit(seed, aware)[w] =
        IF Over(w) THEN w
        ELSE IF Admitted(Head(w.queue).file, seed, aware, w.bytes)
             THEN Select(w, Head(w.queue), seed, aware)
             ELSE [w EXCEPT !.queue = Tail(@)]
  BY <1>1 DEF Visit
<1>3. CASE Over(w)
  BY <1>2, <1>3
<1>4. CASE ~Over(w) /\ Admitted(Head(w.queue).file, seed, aware, w.bytes)
  <2>1. w.queue # <<>>
    BY <1>4 DEF Over
  <2> QED BY <1>2, <1>4, <2>1, SelectStep
<1>5. CASE ~Over(w) /\ ~Admitted(Head(w.queue).file, seed, aware, w.bytes)
  <2>1. w.queue # <<>> /\ w.queue \in Seq(Entry)
    BY <1>1, <1>5 DEF Over, Walk
  <2>2. Tail(w.queue) \in Seq(Entry)
    BY <2>1
  <2>3. [w EXCEPT !.queue = Tail(@)] \in Walk
    BY <1>1, <2>2 DEF Walk
  <2>4. [w EXCEPT !.queue = Tail(@)].selected = w.selected
    BY <1>1 DEF Walk
  <2>5. Unsaturated([w EXCEPT !.queue = Tail(@)], seed)
    BY <2>3, <2>4 DEF Unsaturated
  <2> QED BY <1>2, <1>5, <2>5
<1> QED BY <1>3, <1>4, <1>5

(* f is the walk of expand_bundle up to its n-th visit. *)
Walking(f, seed, aware, n) ==
    f = [k \in 0..n |-> IF k = 0 THEN Begin(seed, aware) ELSE Visit(seed, aware)[f[k - 1]]]

(* The walk that the recursive definition of Expand chooses. *)
Walked(seed, aware, n) == CHOOSE f : Walking(f, seed, aware, n)

(* The recursion of expand_bundle has a solution: one of the least length  *)
(* without would come from a shorter one by one more step.                 *)
LEMMA WalkExists ==
    ASSUME NEW seed, NEW aware, NEW n \in Nat
    PROVE  Walking(Walked(seed, aware, n), seed, aware, n)
<1> DEFINE Stuck == {m \in Nat : ~\E f : Walking(f, seed, aware, m)}
<1>1. SUFFICES ASSUME Stuck # {} PROVE FALSE
  BY DEF Walked
<1>2. PICK m \in Stuck : \A k \in Stuck : m <= k
  <2> HIDE DEF Stuck
  <2>1. Stuck \subseteq Nat
    BY DEF Stuck
  <2> QED BY <1>1, <2>1, LeastNat
<1> DEFINE N(u, k) == IF k = 0 THEN Begin(seed, aware) ELSE Visit(seed, aware)[u[k - 1]]
<1>3. CASE m = 0
  <2> DEFINE f == [k \in 0..0 |-> Begin(seed, aware)]
  <2>1. f = [k \in 0..0 |-> N(f, k)]
    OBVIOUS
  <2> QED BY <1>2, <1>3, <2>1 DEF Walking
<1>4. CASE m # 0
  <2>1. m - 1 \in Nat /\ m - 1 \notin Stuck
    BY <1>2, <1>4
  <2>2. PICK h : Walking(h, seed, aware, m - 1)
    BY <2>1
  <2> DEFINE f == [k \in 0..m |-> IF k = m THEN Visit(seed, aware)[h[m - 1]] ELSE h[k]]
  <2>3. \A k \in 0..(m - 1) : h[k] = N(h, k) /\ f[k] = h[k]
    <3>1. h = [k \in 0..(m - 1) |-> N(h, k)]
      BY <2>2 DEF Walking
    <3> HIDE DEF N
    <3>2. \A k \in 0..(m - 1) : k \in 0..m /\ k # m
      BY <2>1
    <3> QED BY <3>1, <3>2
  <2>4. \A k \in 0..m : f[k] = N(f, k)
    <3> SUFFICES ASSUME NEW k \in 0..m PROVE f[k] = N(f, k)
      OBVIOUS
    <3>1. CASE k = 0
      <4>1. 0 \in 0..(m - 1)
        BY <2>1
      <4> HIDE DEF f
      <4>2. f[0] = h[0] /\ h[0] = Begin(seed, aware)
        BY <4>1, <2>3
      <4> QED BY <3>1, <4>2
    <3>2. CASE k \in 1..m
      <4>1. k - 1 \in 0..(m - 1) /\ k # 0
        BY <3>2, <2>1
      <4>2. f[k - 1] = h[k - 1]
        BY <4>1, <2>3
      <4>3. CASE k = m
        BY <4>1, <4>2, <4>3
      <4>4. CASE k # m
        <5>1. k \in 0..(m - 1)
          BY <3>2, <4>4, <2>1
        <5> QED BY <4>1, <4>2, <5>1, <2>3
      <4> QED BY <4>3, <4>4
    <3> QED BY <3>1, <3>2, <2>1
  <2>5. f = [k \in 0..m |-> N(f, k)]
    <3>1. f = [k \in 0..m |-> f[k]]
      OBVIOUS
    <3> HIDE DEF f, N
    <3> QED BY <2>4, <3>1
  <2>6. Walking(f, seed, aware, m)
    BY <2>5 DEF Walking
  <2> QED BY <1>2, <2>6
<1> QED BY <1>3, <1>4

(* Every step of the walk keeps what its first state has.                  *)
LEMMA WalkUnsaturated ==
    ASSUME NEW seed \in File, NEW aware, NEW n \in Nat
    PROVE  \A k \in 0..n : Unsaturated(Walked(seed, aware, n)[k], seed)
<1> DEFINE f == Walked(seed, aware, n)
           N(k) == IF k = 0 THEN Begin(seed, aware) ELSE Visit(seed, aware)[f[k - 1]]
           Bad == {k \in 0..n : ~Unsaturated(f[k], seed)}
<1>1. f = [k \in 0..n |-> N(k)]
  BY WalkExists DEF Walking
<1> HIDE DEF f, N
<1>2. \A k \in 0..n : f[k] = N(k)
  BY <1>1
<1>3. Unsaturated(N(0), seed)
  BY BeginWalk DEF N, Unsaturated
<1>4. SUFFICES ASSUME Bad # {} PROVE FALSE
  BY DEF f
<1>5. PICK k \in Bad : \A j \in Bad : k <= j
  <2>1. Bad \subseteq Nat
    OBVIOUS
  <2> HIDE DEF Bad
  <2> QED BY <1>4, <2>1, LeastNat
<1>6. k # 0
  BY <1>2, <1>3, <1>5
<1>7. k - 1 \in 0..n /\ k - 1 \notin Bad
  BY <1>5, <1>6
<1>8. Unsaturated(f[k - 1], seed)
  BY <1>7
<1>9. f[k] = Visit(seed, aware)[f[k - 1]]
  BY <1>2, <1>5, <1>6 DEF N
<1> QED BY <1>5, <1>8, <1>9, VisitStep

(* A bundle has its seed; its neighbors were below the cap.                *)
LEMMA ExpandBundle ==
    ASSUME NEW seed \in File, NEW aware
    PROVE  /\ Expand(seed, aware) \in Bundle
           /\ Expand(seed, aware).seed = seed /\ seed \in Expand(seed, aware).files
           /\ \A f \in Expand(seed, aware).files : f = seed \/ Appearances(f) < MaxHub
<1> DEFINE n == Len(Tracked)
           last == Walked(seed, aware, n)[n]
<1>1. n \in Nat
  BY PickerAssumption
<1>2. Expand(seed, aware) = [seed |-> seed, files |-> last.selected]
  BY DEF Expand, Walked, Walking
<1>3. Unsaturated(last, seed)
  BY <1>1, WalkUnsaturated
<1> HIDE DEF last
<1>4. last.selected \in SUBSET File
  BY <1>3 DEF Unsaturated, Walk
<1> QED BY <1>2, <1>3, <1>4 DEF Unsaturated, Bundle
-----------------------------------------------------------------------------
(* A list without duplicates has as many files as places.                  *)
LEMMA DistinctSize ==
    ASSUME NEW s \in Seq(File), IsInjective(s)
    PROVE  IsFiniteSet(ToSet(s)) /\ Cardinality(ToSet(s)) = Len(s)
<1>1. Len(s) \in Nat /\ DOMAIN s = 1..Len(s) /\ s \in [1..Len(s) -> File]
  BY LenProperties
<1>2. s \in [1..Len(s) -> ToSet(s)]
  BY <1>1 DEF ToSet
<1>3. s \in Surjection(1..Len(s), ToSet(s))
  BY <1>1, <1>2 DEF Surjection, ToSet
<1>4. s \in Injection(1..Len(s), ToSet(s))
  BY <1>2 DEF Injection
<1>5. IsFiniteSet(1..Len(s)) /\ Cardinality(1..Len(s)) = Len(s)
  <2>1. /\ IsFiniteSet(1..Len(s))
        /\ Cardinality(1..Len(s)) = IF 1 > Len(s) THEN 0 ELSE Len(s) - 1 + 1
    BY <1>1, FS_Interval
  <2> QED BY <1>1, <2>1
<1> QED BY <1>3, <1>4, <1>5, FS_Surjection

(* sorted repeats no item that its entries do not repeat.                  *)
LEMMA SortedDistinct ==
    ASSUME NEW E, Separate(E), \A d, e \in E : d.item = e.item => d = e
    PROVE  IsInjective(Sorted[E])
<1> DEFINE nth(n) == CHOOSE e \in E : Cardinality(Ahead(E, e)) = n - 1
           size == Cardinality(E)
<1>1. \A n \in 1..size : nth(n) \in E /\ Cardinality(Ahead(E, nth(n))) = n - 1
  BY PlacesTaken
<1>2. Sorted[E] = [n \in 1..size |-> nth(n).item]
  BY DEF Sorted, Ahead, Separate
<1>3. size \in Nat
  BY PlacesTaken
<1> HIDE DEF nth, size
<1>4. ASSUME NEW m \in 1..size, NEW n \in 1..size, nth(m).item = nth(n).item
      PROVE  m = n
  <2>1. nth(m) = nth(n)
    BY <1>1, <1>4
  <2>2. m - 1 = n - 1
    BY <1>1, <2>1
  <2> QED BY <1>3, <2>2
<1>5. DOMAIN Sorted[E] = 1..size /\ \A n \in 1..size : Sorted[E][n] = nth(n).item
  BY <1>2
<1> HIDE DEF Sorted
<1> QED BY <1>4, <1>5 DEF IsInjective

(* What is left of a list without duplicates has none, and none of these.  *)
LEMMA ExceptDistinct ==
    ASSUME NEW files \in Seq(File), NEW these, IsInjective(files)
    PROVE  /\ IsInjective(Except(files, these))
           /\ ToSet(Except(files, these)) \subseteq ToSet(files) \ these
<1> DEFINE D == {i \in DOMAIN files : files[i] \notin these}
           E == {[key |-> 0, at |-> i, item |-> files[i]] : i \in D}
           zero == [i \in D |-> 0]
<1>1. Len(files) \in Nat /\ D \in SUBSET (1..Len(files)) /\ \A i \in D : files[i] \in File
  OBVIOUS
<1>2. E = Entered(D, zero, files)
  BY DEF Entered
<1>3. \A i \in D : zero[i] \in Int /\ files[i] \in File \cup Bundle
  BY <1>1
<1>4. \A e \in E : e.item \in ToSet(files) \ these
  BY DEF ToSet
<1>5. \A d, e \in E : d.item = e.item => d = e
  BY <1>1 DEF IsInjective
<1> HIDE DEF D, zero, E
<1>6. Separate(E)
  <2>1. Separate(Entered(D, zero, files))
    BY <1>1, <1>3, PlacesSeparate
  <2> QED BY <1>2, <2>1
<1>7. IsInjective(Sorted[E]) /\ Sorted[E] \in Seq(ToSet(files) \ these)
  BY <1>4, <1>5, <1>6, SortedItems, SortedDistinct
<1>8. \A i \in DOMAIN Sorted[E] : Sorted[E][i] \in ToSet(files) \ these
  BY <1>7
<1>9. ToSet(Sorted[E]) \subseteq ToSet(files) \ these
  BY <1>8 DEF ToSet
<1> QED BY <1>7, <1>9 DEF Except, E, D

(* The visits a walk has left at most: a file is queued once. *)
Left(w) == Cardinality(File \ w.visited) + Len(w.queue)

LEMMA LeftNat ==
    ASSUME NEW w \in Walk
    PROVE  /\ Left(w) \in Nat /\ Len(w.queue) \in Nat
           /\ IsFiniteSet(w.selected) /\ Cardinality(w.selected) \in Nat
           /\ IsFiniteSet(File \ w.visited) /\ Cardinality(File \ w.visited) \in Nat
<1>1. w.queue \in Seq(Entry) /\ w.selected \in SUBSET File /\ File \ w.visited \in SUBSET File
  BY DEF Walk
<1>2. Len(w.queue) \in Nat
  BY <1>1, LenProperties
<1>3. IsFiniteSet(w.selected) /\ IsFiniteSet(File \ w.visited)
  BY <1>1, FileFinite, FS_Subset
<1>4. Cardinality(w.selected) \in Nat /\ Cardinality(File \ w.visited) \in Nat
  BY <1>3, FS_CardinalityType
<1> QED BY <1>2, <1>3, <1>4 DEF Left

(* Files that are queued now are taken from those never queued.            *)
LEMMA QueueFiles ==
    ASSUME NEW s \in Seq(File), IsInjective(s), NEW seen \in SUBSET File,
           ToSet(s) \cap seen = {}
    PROVE  Cardinality(File \ (seen \cup ToSet(s))) + Len(s) = Cardinality(File \ seen)
<1> DEFINE rest == File \ (seen \cup ToSet(s))
<1>1. ToSet(s) \subseteq File
  BY DEF ToSet
<1>2. IsFiniteSet(ToSet(s)) /\ Cardinality(ToSet(s)) = Len(s) /\ Len(s) \in Nat
  BY DistinctSize, LenProperties
<1>3. IsFiniteSet(rest)
  BY FileFinite, FS_Subset
<1>4. rest \cup ToSet(s) = File \ seen /\ rest \cap ToSet(s) = {}
  BY <1>1
<1> HIDE DEF rest
<1>5. Cardinality(rest \cup ToSet(s))
        = Cardinality(rest) + Cardinality(ToSet(s)) - Cardinality(rest \cap ToSet(s))
  BY <1>2, <1>3, FS_Union
<1>6. Cardinality(rest) \in Nat /\ Cardinality({}) = 0
  BY <1>3, FS_CardinalityType, FS_EmptySet
<1>7. Cardinality(File \ seen) = Cardinality(rest) + Cardinality(ToSet(s)) - Cardinality({})
  BY <1>4, <1>5
<1>8. Cardinality(File \ seen) = Cardinality(rest) + Len(s)
  BY <1>2, <1>6, <1>7
<1> QED BY <1>8 DEF rest

(* The first hop has no file twice, and not the seed. *)
LEMMA FirstHopDistinct ==
    ASSUME NEW seed \in File, NEW aware
    PROVE  IsInjective(FirstHop(seed, aware)) /\ seed \notin ToSet(FirstHop(seed, aware))
<1> DEFINE impl == IF aware /\ Class[seed] = "test" /\ Impl[seed] # NoImpl
                   THEN <<Impl[seed]>> ELSE <<>>
           rest == Except(Neighbors[seed], ToSet(impl))
           hop == impl \o rest
<1>1. /\ Neighbors[seed] \in Seq(File) /\ IsInjective(Neighbors[seed])
      /\ seed \notin ToSet(Neighbors[seed]) /\ Impl[seed] # seed
  BY PickerAssumption
<1>2. impl \in Seq(File)
  BY PickerAssumption
<1>3. rest \in Seq(File) /\ IsInjective(rest) /\ ToSet(rest) \subseteq ToSet(Neighbors[seed]) \ ToSet(impl)
  BY <1>1, ExceptFiles, ExceptDistinct
<1>4. Len(impl) \in {0, 1} /\ \A i \in 1..Len(impl) : impl[i] # seed
  BY <1>1
<1>5. \A i \in 1..Len(impl) : impl[i] \in ToSet(impl)
  BY <1>2 DEF ToSet
<1> HIDE DEF impl, rest
<1>6. \A i \in 1..Len(rest) : rest[i] \in ToSet(rest)
  BY <1>3 DEF ToSet
<1>7. \A i \in 1..Len(rest) : rest[i] \notin ToSet(impl) /\ rest[i] # seed
  BY <1>1, <1>3, <1>6
<1>8. /\ hop \in Seq(File) /\ Len(hop) = Len(impl) + Len(rest)
      /\ \A i \in 1..Len(hop) : hop[i] = IF i <= Len(impl) THEN impl[i] ELSE rest[i - Len(impl)]
  BY <1>2, <1>3, ConcatProperties
<1>9. Len(rest) \in Nat /\ DOMAIN rest = 1..Len(rest) /\ DOMAIN hop = 1..Len(hop)
  BY <1>3, <1>8, LenProperties
<1> HIDE DEF hop
<1>10. ASSUME NEW i \in 1..Len(hop), NEW j \in 1..Len(hop), hop[i] = hop[j] PROVE i = j
  <2>1. CASE i <= Len(impl) /\ j <= Len(impl)
    BY <1>4, <2>1
  <2>2. CASE i <= Len(impl) /\ ~(j <= Len(impl))
    <3>1. j - Len(impl) \in 1..Len(rest) /\ i \in 1..Len(impl)
      BY <1>4, <1>8, <1>9, <2>2
    <3> QED BY <1>5, <1>7, <1>8, <1>10, <2>2, <3>1
  <2>3. CASE ~(i <= Len(impl)) /\ j <= Len(impl)
    <3>1. i - Len(impl) \in 1..Len(rest) /\ j \in 1..Len(impl)
      BY <1>4, <1>8, <1>9, <2>3
    <3> QED BY <1>5, <1>7, <1>8, <1>10, <2>3, <3>1
  <2>4. CASE ~(i <= Len(impl)) /\ ~(j <= Len(impl))
    <3>1. i - Len(impl) \in 1..Len(rest) /\ j - Len(impl) \in 1..Len(rest)
      BY <1>4, <1>8, <1>9, <2>4
    <3>2. rest[i - Len(impl)] = rest[j - Len(impl)]
      BY <1>8, <1>10, <2>4
    <3>3. i - Len(impl) = j - Len(impl)
      BY <1>3, <1>9, <3>1, <3>2 DEF IsInjective
    <3> QED BY <1>4, <3>3
  <2> QED BY <2>1, <2>2, <2>3, <2>4
<1>11. ASSUME NEW i \in 1..Len(hop) PROVE hop[i] # seed
  <2>1. CASE i <= Len(impl)
    BY <1>4, <1>8, <2>1
  <2>2. CASE ~(i <= Len(impl))
    <3>1. i - Len(impl) \in 1..Len(rest)
      BY <1>4, <1>8, <1>9, <2>2
    <3> QED BY <1>7, <1>8, <2>2, <3>1
  <2> QED BY <2>1, <2>2
<1>12. IsInjective(hop)
  BY <1>9, <1>10 DEF IsInjective
<1>13. seed \notin ToSet(hop)
  BY <1>9, <1>11 DEF ToSet
<1> QED BY <1>12, <1>13 DEF FirstHop, hop, impl, rest

(* A walk begins with as many visits left as there are other files.        *)
LEMMA BeginLeft ==
    ASSUME NEW seed \in File, NEW aware
    PROVE  Left(Begin(seed, aware)) = Cardinality(File) - 1
<1> DEFINE hop == FirstHop(seed, aware)
<1>1. hop \in Seq(File) /\ IsInjective(hop) /\ ToSet(hop) \cap {seed} = {}
  BY FirstHopFiles, FirstHopDistinct
<1>2. Left(Begin(seed, aware)) = Cardinality(File \ ({seed} \cup ToSet(hop))) + Len(Entries(hop, 1))
  BY DEF Left, Begin
<1> HIDE DEF hop
<1>3. Len(Entries(hop, 1)) = Len(hop)
  BY <1>1 DEF Entries
<1>4. Cardinality(File \ ({seed} \cup ToSet(hop))) + Len(hop) = Cardinality(File \ {seed})
  BY <1>1, QueueFiles
<1>5. Cardinality(File \ {seed}) = Cardinality(File) - 1
  BY FileFinite, FS_RemoveElement
<1> QED BY <1>2, <1>3, <1>4, <1>5

(* A visit uses one up, unless the walk is over, and keeps the file cap.   *)
LEMMA VisitShrinks ==
    ASSUME NEW seed \in File, NEW aware, NEW w \in Walk, ~Over(w)
    PROVE  /\ Left(Visit(seed, aware)[w]) = Left(w) - 1
           /\ Cardinality(Visit(seed, aware)[w].selected) <= MaxFiles
<1> DEFINE e == Head(w.queue)
           more == IF e.depth < Hops(seed, aware)
                   THEN Except(Neighbors[e.file], w.visited) ELSE <<>>
<1>1. w.queue \in Seq(Entry) /\ w.queue # <<>> /\ Cardinality(w.selected) < MaxFiles
  <2>1. MaxFiles \in Nat /\ Cardinality(w.selected) \in Nat
    BY LeftNat, PickerAssumption
  <2> QED BY <2>1 DEF Over, Walk
<1>2. /\ e \in Entry /\ Tail(w.queue) \in Seq(Entry) /\ Len(Tail(w.queue)) = Len(w.queue) - 1
      /\ Len(w.queue) \in Nat /\ Cardinality(File \ w.visited) \in Nat
  BY <1>1, HeadTailProperties, LeftNat
<1>3. e.file \in File /\ e.depth + 1 \in Nat
  BY <1>2 DEF Entry
<1>4. Visit(seed, aware)[w] =
        IF Admitted(e.file, seed, aware, w.bytes)
        THEN Select(w, e, seed, aware) ELSE [w EXCEPT !.queue = Tail(@)]
  BY DEF Visit
<1>5. CASE Admitted(e.file, seed, aware, w.bytes)
  <2> DEFINE next == Select(w, e, seed, aware)
  <2>1. more \in Seq(File) /\ IsInjective(more) /\ ToSet(more) \cap w.visited = {}
    <3>1. CASE e.depth < Hops(seed, aware)
      <4>1. Neighbors[e.file] \in Seq(File) /\ IsInjective(Neighbors[e.file])
        BY <1>3, PickerAssumption
      <4>2. /\ Except(Neighbors[e.file], w.visited) \in Seq(File)
            /\ IsInjective(Except(Neighbors[e.file], w.visited))
            /\ ToSet(Except(Neighbors[e.file], w.visited)) \cap w.visited = {}
        BY <4>1, ExceptFiles, ExceptDistinct
      <4> QED BY <3>1, <4>2
    <3>2. CASE ~(e.depth < Hops(seed, aware))
      <4>1. more = <<>>
        BY <3>2
      <4> HIDE DEF more
      <4>2. IsInjective(<<>>) /\ ToSet(<<>>) = {}
        BY DEF IsInjective, ToSet
      <4> QED BY <4>1, <4>2
    <3> QED BY <3>1, <3>2
  <2>2. /\ next.queue = Tail(w.queue) \o Entries(more, e.depth + 1)
        /\ next.visited = w.visited \cup ToSet(more)
        /\ next.selected = w.selected \cup {e.file}
    BY DEF Select
  <2> HIDE DEF next, more, e
  <2>3. Entries(more, e.depth + 1) \in Seq(Entry) /\ Len(Entries(more, e.depth + 1)) = Len(more)
    <3>1. Entries(more, e.depth + 1) \in Seq(Entry)
      BY <1>3, <2>1, EntriesOf
    <3>2. Len(Entries(more, e.depth + 1)) = Len(more)
      BY <2>1 DEF Entries
    <3> QED BY <3>1, <3>2
  <2>4. Len(next.queue) = Len(w.queue) - 1 + Len(more) /\ Len(more) \in Nat
    <3>1. Len(next.queue) = Len(Tail(w.queue)) + Len(Entries(more, e.depth + 1))
      BY <1>2, <2>2, <2>3, ConcatProperties
    <3>2. Len(more) \in Nat
      BY <2>1, LenProperties
    <3>3. Len(Tail(w.queue)) = Len(w.queue) - 1
      BY <1>2
    <3> QED BY <2>3, <3>1, <3>2, <3>3
  <2>5. Cardinality(File \ next.visited) + Len(more) = Cardinality(File \ w.visited)
    <3>1. w.visited \in SUBSET File
      BY DEF Walk
    <3> QED BY <2>1, <2>2, <3>1, QueueFiles
  <2>6. Cardinality(File \ next.visited) \in Nat
    <3>1. IsFiniteSet(File \ next.visited)
      BY FileFinite, FS_Subset
    <3> QED BY <3>1, FS_CardinalityType
  <2>7. Left(next) = Left(w) - 1
    BY <1>2, <2>4, <2>5, <2>6 DEF Left
  <2>8. Cardinality(next.selected) <= MaxFiles
    <3>1. IsFiniteSet(w.selected) /\ Cardinality(w.selected) \in Nat
      BY LeftNat
    <3>2. Cardinality(next.selected) <= Cardinality(w.selected) + 1
      <4>1. Cardinality(w.selected \cup {e.file}) =
              IF e.file \in w.selected THEN Cardinality(w.selected) ELSE Cardinality(w.selected) + 1
        BY <3>1, FS_AddElement
      <4> QED BY <2>2, <3>1, <4>1
    <3>3. Cardinality(next.selected) \in Nat /\ MaxFiles \in Nat
      BY <2>2, <3>1, FS_AddElement, FS_CardinalityType, PickerAssumption
    <3> QED BY <1>1, <3>1, <3>2, <3>3
  <2> QED BY <1>4, <1>5, <2>7, <2>8 DEF next, e
<1>6. CASE ~Admitted(e.file, seed, aware, w.bytes)
  <2> DEFINE next == [w EXCEPT !.queue = Tail(@)]
  <2>1. next.queue = Tail(w.queue) /\ next.visited = w.visited /\ next.selected = w.selected
    BY DEF Walk
  <2> HIDE DEF next
  <2>2. Left(next) = Left(w) - 1
    BY <1>2, <2>1 DEF Left
  <2>3. Cardinality(next.selected) <= MaxFiles
    <3>1. Cardinality(w.selected) \in Nat /\ MaxFiles \in Nat
      BY LeftNat, PickerAssumption
    <3> QED BY <1>1, <2>1, <3>1
  <2> QED BY <1>4, <1>6, <2>2, <2>3 DEF next
<1> QED BY <1>5, <1>6

(* After k visits a walk is over, or has k visits fewer to go.             *)
Near(w, k) == /\ w \in Walk /\ Cardinality(w.selected) <= MaxFiles
              /\ Over(w) \/ Left(w) <= Cardinality(File) - 1 - k

LEMMA WalkNears ==
    ASSUME NEW seed \in File, NEW aware, NEW n \in Nat
    PROVE  \A k \in 0..n : Near(Walked(seed, aware, n)[k], k)
<1> DEFINE f == Walked(seed, aware, n)
           N(k) == IF k = 0 THEN Begin(seed, aware) ELSE Visit(seed, aware)[f[k - 1]]
           Bad == {k \in 0..n : ~Near(f[k], k)}
<1>1. f = [k \in 0..n |-> N(k)]
  BY WalkExists DEF Walking
<1>2. \A k \in 0..n : f[k] \in Walk
  BY WalkUnsaturated DEF Unsaturated
<1> HIDE DEF f, N
<1>3. \A k \in 0..n : f[k] = N(k)
  BY <1>1
<1>4. Cardinality(File) \in Nat
  BY FileFinite, FS_CardinalityType
<1>5. Near(N(0), 0)
  <2>1. Begin(seed, aware) \in Walk /\ Begin(seed, aware).selected = {seed}
    BY BeginWalk
  <2>2. Left(Begin(seed, aware)) = Cardinality(File) - 1
    BY BeginLeft
  <2>3. Cardinality({seed}) = 1 /\ MaxFiles \in Nat \ {0}
    BY FS_Singleton, PickerAssumption
  <2> QED BY <1>4, <2>1, <2>2, <2>3 DEF N, Near
<1>6. SUFFICES ASSUME Bad # {} PROVE FALSE
  BY DEF f
<1>7. PICK k \in Bad : \A j \in Bad : k <= j
  <2>1. Bad \subseteq Nat
    OBVIOUS
  <2> HIDE DEF Bad
  <2> QED BY <1>6, <2>1, LeastNat
<1>8. k # 0
  BY <1>3, <1>5, <1>7
<1>9. k - 1 \in 0..n /\ k - 1 \notin Bad
  BY <1>7, <1>8
<1>10. Near(f[k - 1], k - 1)
  BY <1>9
<1>11. f[k] = Visit(seed, aware)[f[k - 1]] /\ f[k] \in Walk
  BY <1>2, <1>3, <1>7, <1>8 DEF N
<1> DEFINE w == f[k - 1]
<1>12. w \in Walk
  BY <1>2, <1>9
<1>13. CASE Over(w)
  <2>1. f[k] = w
    BY <1>11, <1>12, <1>13 DEF Visit
  <2> QED BY <1>7, <1>10, <1>13, <2>1 DEF Near
<1>14. CASE ~Over(w)
  <2>1. Left(f[k]) = Left(w) - 1 /\ Cardinality(f[k].selected) <= MaxFiles
    BY <1>11, <1>12, <1>14, VisitShrinks
  <2>2. Left(w) <= Cardinality(File) - 1 - (k - 1) /\ Left(w) \in Nat
    BY <1>10, <1>12, <1>14, LeftNat DEF Near
  <2>3. k \in Nat
    BY <1>7
  <2>4. Left(f[k]) <= Cardinality(File) - 1 - k
    BY <1>4, <2>1, <2>2, <2>3
  <2> QED BY <1>7, <1>11, <2>1, <2>4 DEF Near
<1> QED BY <1>13, <1>14

(* expand_bundle stops with an empty queue or a full bundle, after no more *)
(* visits than there are tracked files; its bundle keeps the cap on files. *)
THEOREM WalkEnds ==
    ASSUME NEW seed \in File, NEW aware
    PROVE  /\ Over(Walked(seed, aware, Len(Tracked))[Len(Tracked)])
           /\ Expand(seed, aware).files = Walked(seed, aware, Len(Tracked))[Len(Tracked)].selected
           /\ Cardinality(Expand(seed, aware).files) <= MaxFiles
<1> DEFINE n == Len(Tracked)
           last == Walked(seed, aware, n)[n]
<1>1. n \in Nat
  BY PickerAssumption
<1>2. Expand(seed, aware) = [seed |-> seed, files |-> last.selected]
  BY DEF Expand, Walked, Walking
<1>3. Near(last, n)
  BY <1>1, WalkNears
<1>4. Cardinality(File) <= n /\ Cardinality(File) \in Nat
  <2>1. DOMAIN Tracked = 1..n
    BY PickerAssumption
  <2>2. [i \in 1..n |-> Tracked[i]] \in Surjection(1..n, File)
    BY <2>1 DEF Surjection, File, ToSet
  <2>3. IsFiniteSet(1..n) /\ Cardinality(1..n) = IF 1 > n THEN 0 ELSE n - 1 + 1
    BY <1>1, FS_Interval
  <2>4. Cardinality(File) <= Cardinality(1..n) /\ Cardinality(1..n) = n
    BY <1>1, <2>2, <2>3, FS_Surjection
  <2> QED BY <2>4, FileFinite, FS_CardinalityType
<1> HIDE DEF last, n
<1>5. Left(last) \in Nat
  BY <1>3, LeftNat DEF Near
<1>6. Over(last) /\ Cardinality(last.selected) <= MaxFiles
  BY <1>1, <1>3, <1>4, <1>5 DEF Near
<1> QED BY <1>2, <1>6 DEF last, n
-----------------------------------------------------------------------------
(* A queued file is a neighbor of the seed, the implementation it tests,   *)
(* or, under the two hops of an entrypoint, a neighbor of one of those.    *)
Reached(e, seed, aware) ==
    \/ e.depth = 1 /\ e.file \in ToSet(FirstHop(seed, aware))
    \/ /\ e.depth = 2 /\ Hops(seed, aware) = 2
       /\ \E g \in ToSet(FirstHop(seed, aware)) : e.file \in ToSet(Neighbors[g])

(* At one of the two distances. *)
InReach(f, seed, aware) ==
    \E depth \in {1, 2} : Reached([file |-> f, depth |-> depth], seed, aware)

(* A file that the filters which do not change during a walk let pass. *)
Filtered(f, seed, aware) ==
    /\ f \notin Ignored
    /\ aware => Class[f] \notin Junk /\ (Class[seed] = "config" => Class[f] = "source")

(* What is true of a walk at every visit. *)
Sound(w, seed, aware) ==
    /\ w \in Walk
    /\ w.selected = {seed} \/ w.bytes <= MaxBytes
    /\ \A i \in 1..Len(w.queue) : Reached(w.queue[i], seed, aware)
    /\ \A f \in w.selected : f = seed \/ (Filtered(f, seed, aware) /\ InReach(f, seed, aware))

(* All entries of a list of files in reach are. *)
LEMMA EntriesReached ==
    ASSUME NEW seed, NEW aware, NEW s \in Seq(File), NEW depth \in Nat,
           \A f \in ToSet(s) : Reached([file |-> f, depth |-> depth], seed, aware)
    PROVE  \A i \in 1..Len(Entries(s, depth)) : Reached(Entries(s, depth)[i], seed, aware)
<1>1. /\ DOMAIN s = 1..Len(s) /\ Len(Entries(s, depth)) = Len(s)
      /\ \A i \in 1..Len(s) : Entries(s, depth)[i] = [file |-> s[i], depth |-> depth]
  BY DEF Entries
<1>2. \A i \in 1..Len(s) : s[i] \in ToSet(s)
  BY <1>1 DEF ToSet
<1> QED BY <1>1, <1>2

(* A walk begins with the first hop. *)
LEMMA BeginSound ==
    ASSUME NEW seed \in File, NEW aware
    PROVE  Sound(Begin(seed, aware), seed, aware)
<1> DEFINE hop == FirstHop(seed, aware)
<1>1. hop \in Seq(File)
  BY FirstHopFiles
<1>2. \A f \in ToSet(hop) : Reached([file |-> f, depth |-> 1], seed, aware)
  BY DEF Reached
<1>3. \A i \in 1..Len(Entries(hop, 1)) : Reached(Entries(hop, 1)[i], seed, aware)
  BY <1>1, <1>2, EntriesReached
<1>4. Begin(seed, aware).queue = Entries(hop, 1)
  BY DEF Begin
<1> QED BY <1>3, <1>4, BeginWalk DEF Sound

(* A selected file has passed the filters; what it adds to the queue is    *)
(* one hop further, and only an entrypoint has a second hop.               *)
LEMMA SelectSound ==
    ASSUME NEW seed \in File, NEW aware, NEW w, Sound(w, seed, aware), w.queue # <<>>,
           Admitted(Head(w.queue).file, seed, aware, w.bytes),
           Select(w, Head(w.queue), seed, aware) \in Walk
    PROVE  Sound(Select(w, Head(w.queue), seed, aware), seed, aware)
<1> DEFINE e == Head(w.queue)
           more == IF e.depth < Hops(seed, aware)
                   THEN Except(Neighbors[e.file], w.visited) ELSE <<>>
           next == Select(w, e, seed, aware)
<1>1. w \in Walk /\ w.queue \in Seq(Entry) /\ Len(w.queue) \in Nat \ {0}
  <2>1. w \in Walk /\ w.queue \in Seq(Entry)
    BY DEF Sound, Walk
  <2> QED BY <2>1, EmptySeq
<1>2. /\ e \in Entry /\ e = w.queue[1]
      /\ Tail(w.queue) \in Seq(Entry) /\ Len(Tail(w.queue)) = Len(w.queue) - 1
      /\ \A i \in 1..Len(Tail(w.queue)) : Tail(w.queue)[i] = w.queue[i + 1]
  BY <1>1, HeadTailProperties
<1>3. e.file \in File /\ e.depth \in Nat /\ Reached(e, seed, aware)
  BY <1>1, <1>2 DEF Entry, Sound
<1>4. /\ next.queue = Tail(w.queue) \o Entries(more, e.depth + 1)
      /\ next.selected = w.selected \cup {e.file}
      /\ next.bytes = w.bytes + Size[e.file]
  BY DEF Select
<1>5. Filtered(e.file, seed, aware) /\ w.bytes + Size[e.file] <= MaxBytes
  BY DEF Admitted, Filtered
<1>6. InReach(e.file, seed, aware)
  BY <1>3 DEF InReach, Reached
<1>7. more \in Seq(File) /\ \A f \in ToSet(more) : Reached([file |-> f, depth |-> e.depth + 1], seed, aware)
  <2>1. CASE e.depth < Hops(seed, aware)
    <3>1. Neighbors[e.file] \in Seq(File) /\ IsInjective(Neighbors[e.file])
      BY <1>3, PickerAssumption
    <3>2. more \in Seq(File) /\ ToSet(more) \subseteq ToSet(Neighbors[e.file])
      BY <2>1, <3>1, ExceptFiles, ExceptDistinct
    <3>3. e.depth = 1 /\ Hops(seed, aware) = 2 /\ e.file \in ToSet(FirstHop(seed, aware))
      BY <1>3, <2>1 DEF Reached, Hops
    <3> HIDE DEF more, e
    <3> QED BY <3>2, <3>3 DEF Reached
  <2>2. CASE ~(e.depth < Hops(seed, aware))
    <3>1. more = <<>>
      BY <2>2
    <3> HIDE DEF more
    <3> QED BY <3>1 DEF ToSet
  <2> QED BY <2>1, <2>2
<1> HIDE DEF more, e, next
<1>8. \A i \in 1..Len(Entries(more, e.depth + 1)) : Reached(Entries(more, e.depth + 1)[i], seed, aware)
  <2>1. e.depth + 1 \in Nat
    BY <1>3
  <2> QED BY <1>7, <2>1, EntriesReached
<1>9. \A i \in 1..Len(Tail(w.queue)) : Reached(Tail(w.queue)[i], seed, aware)
  <2>1. \A i \in 1..Len(Tail(w.queue)) : i + 1 \in 1..Len(w.queue)
    BY <1>1, <1>2
  <2>2. \A i \in 1..Len(w.queue) : Reached(w.queue[i], seed, aware)
    BY DEF Sound
  <2> QED BY <1>2, <2>1, <2>2
<1>10. \A i \in 1..Len(next.queue) : Reached(next.queue[i], seed, aware)
  <2> DEFINE s == Tail(w.queue)
             t == Entries(more, e.depth + 1)
  <2>1. s \in Seq(Entry) /\ t \in Seq(Entry)
    <3>1. e.depth + 1 \in Nat
      BY <1>3
    <3> QED BY <1>2, <1>7, <3>1, EntriesOf
  <2>2. Len(s) \in Nat /\ Len(t) \in Nat
    BY <2>1, LenProperties
  <2>3. next.queue = s \o t
    BY <1>4
  <2>4. /\ \A i \in 1..Len(s) : Reached(s[i], seed, aware)
        /\ \A i \in 1..Len(t) : Reached(t[i], seed, aware)
    BY <1>8, <1>9
  <2> HIDE DEF s, t
  <2>5. /\ Len(s \o t) = Len(s) + Len(t)
        /\ \A i \in 1..Len(s) + Len(t) :
              (s \o t)[i] = IF i <= Len(s) THEN s[i] ELSE t[i - Len(s)]
    BY <2>1, ConcatProperties
  <2>6. ASSUME NEW i \in 1..Len(next.queue) PROVE Reached(next.queue[i], seed, aware)
    <3>1. i \in 1..Len(s) + Len(t)
      BY <2>3, <2>5
    <3>2. CASE i <= Len(s)
      BY <2>2, <2>3, <2>4, <2>5, <3>1, <3>2
    <3>3. CASE ~(i <= Len(s))
      <4>1. i - Len(s) \in 1..Len(t)
        BY <2>2, <3>1, <3>3
      <4> QED BY <2>3, <2>4, <2>5, <3>1, <3>3, <4>1
    <3> QED BY <3>2, <3>3
  <2> QED BY <2>6
<1>11. \A f \in next.selected : f = seed \/ (Filtered(f, seed, aware) /\ InReach(f, seed, aware))
  BY <1>4, <1>5, <1>6 DEF Sound
<1>12. next \in Walk
  BY DEF next, e
<1>13. Sound(next, seed, aware)
  BY <1>4, <1>5, <1>10, <1>11, <1>12 DEF Sound
<1> QED BY <1>13 DEF next, e

(* So has every visit. *)
LEMMA VisitSound ==
    ASSUME NEW seed \in File, NEW aware, NEW w, Sound(w, seed, aware),
           Visit(seed, aware)[w] \in Walk
    PROVE  Sound(Visit(seed, aware)[w], seed, aware)
<1>1. w \in Walk
  BY DEF Sound
<1>2. Visit(seed, aware)[w] =
        IF Over(w) THEN w
        ELSE IF Admitted(Head(w.queue).file, seed, aware, w.bytes)
             THEN Select(w, Head(w.queue), seed, aware)
             ELSE [w EXCEPT !.queue = Tail(@)]
  BY <1>1 DEF Visit
<1>3. CASE Over(w)
  BY <1>2, <1>3
<1>4. CASE ~Over(w) /\ Admitted(Head(w.queue).file, seed, aware, w.bytes)
  <2>1. w.queue # <<>>
    BY <1>4 DEF Over
  <2> QED BY <1>2, <1>4, <2>1, SelectSound
<1>5. CASE ~Over(w) /\ ~Admitted(Head(w.queue).file, seed, aware, w.bytes)
  <2> DEFINE next == [w EXCEPT !.queue = Tail(@)]
  <2>1. w.queue # <<>> /\ w.queue \in Seq(Entry)
    BY <1>1, <1>5 DEF Over, Walk
  <2>2. next.queue = Tail(w.queue) /\ next.selected = w.selected /\ next.bytes = w.bytes
    BY <1>1 DEF Walk
  <2>3. next \in Walk
    BY <1>2, <1>5
  <2> HIDE DEF next
  <2>4. /\ Len(Tail(w.queue)) = Len(w.queue) - 1 /\ Len(w.queue) \in Nat
        /\ \A i \in 1..Len(Tail(w.queue)) : Tail(w.queue)[i] = w.queue[i + 1]
    BY <2>1, HeadTailProperties, LenProperties
  <2>5. \A i \in 1..Len(next.queue) : Reached(next.queue[i], seed, aware)
    BY <2>2, <2>4 DEF Sound
  <2>6. Sound(next, seed, aware)
    BY <2>2, <2>3, <2>5 DEF Sound
  <2> QED BY <1>2, <1>5, <2>6 DEF next
<1> QED BY <1>3, <1>4, <1>5

(* And the whole walk. *)
LEMMA WalkSound ==
    ASSUME NEW seed \in File, NEW aware, NEW n \in Nat
    PROVE  \A k \in 0..n : Sound(Walked(seed, aware, n)[k], seed, aware)
<1> DEFINE f == Walked(seed, aware, n)
           N(k) == IF k = 0 THEN Begin(seed, aware) ELSE Visit(seed, aware)[f[k - 1]]
           Bad == {k \in 0..n : ~Sound(f[k], seed, aware)}
<1>1. f = [k \in 0..n |-> N(k)]
  BY WalkExists DEF Walking
<1>2. \A k \in 0..n : f[k] \in Walk
  BY WalkUnsaturated DEF Unsaturated
<1> HIDE DEF f, N
<1>3. \A k \in 0..n : f[k] = N(k)
  BY <1>1
<1>4. Sound(N(0), seed, aware)
  BY BeginSound DEF N
<1>5. SUFFICES ASSUME Bad # {} PROVE FALSE
  BY DEF f
<1>6. PICK k \in Bad : \A j \in Bad : k <= j
  <2>1. Bad \subseteq Nat
    OBVIOUS
  <2> HIDE DEF Bad
  <2> QED BY <1>5, <2>1, LeastNat
<1>7. k # 0
  BY <1>3, <1>4, <1>6
<1>8. k - 1 \in 0..n /\ k - 1 \notin Bad
  BY <1>6, <1>7
<1>9. Sound(f[k - 1], seed, aware)
  BY <1>8
<1>10. f[k] = Visit(seed, aware)[f[k - 1]] /\ f[k] \in Walk
  BY <1>2, <1>3, <1>6, <1>7 DEF N
<1> QED BY <1>6, <1>9, <1>10, VisitSound

(* Beyond its seed a bundle holds no file that .autofixignore matches,     *)
(* that is at the saturation cap or, when classes count, that is junk; it  *)
(* is a neighbor of the seed, the implementation of a test, or two hops    *)
(* from an entrypoint; and total_bytes is within its cap.                  *)
THEOREM BundleSound ==
    ASSUME NEW seed \in File, NEW aware,
           NEW f \in Expand(seed, aware).files, f # seed
    PROVE  /\ Filtered(f, seed, aware) /\ InReach(f, seed, aware)
           /\ Appearances(f) < MaxHub
           /\ Walked(seed, aware, Len(Tracked))[Len(Tracked)].bytes <= MaxBytes
<1>1. Len(Tracked) \in Nat
  BY PickerAssumption
<1>2. Sound(Walked(seed, aware, Len(Tracked))[Len(Tracked)], seed, aware)
  BY <1>1, WalkSound
<1>3. f \in Walked(seed, aware, Len(Tracked))[Len(Tracked)].selected
  BY WalkEnds
<1> QED BY <1>2, <1>3, ExpandBundle DEF Sound
-----------------------------------------------------------------------------
(* Every sum a batch rests on is a number.                                 *)
LEMMA FreshnessNat ==
    ASSUME PickerTypeOK, NEW f
    PROVE  Freshness(f) \in Nat
<1> DEFINE rows == {r \in ledger : f \in r.files}
           ages == {r.age : r \in rows}
<1>1. \A r \in rows : r.age \in Nat
  <2>1. Window = Horizon /\ Horizon \in Nat
    BY PickerAssumption
  <2>2. Max({Horizon, Window}) \in Nat
    <3>1. IsFiniteSet({Horizon, Window}) /\ {Horizon, Window} \subseteq Nat
      BY <2>1, FS_Singleton
    <3> QED BY <3>1, MaxIn
  <2> QED BY <2>2 DEF PickerTypeOK
<1>2. CASE rows = {}
  BY <1>2, PickerAssumption DEF Freshness
<1>3. CASE rows # {}
  <2>1. ages \subseteq Nat /\ ages # {}
    BY <1>1, <1>3
  <2>2. PICK a \in ages : \A x \in ages : a <= x
    <3> HIDE DEF ages
    <3> QED BY <2>1, LeastNat
  <2>3. \E r \in rows : \A x \in rows : r.age <= x.age
    BY <2>2
  <2> DEFINE last == Latest(rows)
  <2>4. last \in rows
    BY <2>3 DEF Latest
  <2>5. last.age \in Nat
    BY <1>1, <2>4
  <2>6. RowFreshness(last) \in Nat
    BY <2>5, PickerAssumption DEF RowFreshness, Least
  <2>7. Freshness(f) = RowFreshness(last)
    BY <1>3 DEF Freshness
  <2> QED BY <2>6, <2>7
<1> QED BY <1>2, <1>3

(* So is the priority of a bundle. *)
LEMMA PriorityInt ==
    ASSUME PickerTypeOK, NEW b \in Bundle, b.files # {}
    PROVE  Priority(b) \in Int
<1> DEFINE S == {Freshness(f) : f \in b.files}
           g == [f \in b.files |-> Freshness(f)]
<1>1. b.seed \in File /\ b.files \in SUBSET File
  BY DEF Bundle
<1>2. S \subseteq Nat /\ S # {}
  BY FreshnessNat
<1>3. IsFiniteSet(b.files)
  BY <1>1, FileFinite, FS_Subset
<1>4. g \in Surjection(b.files, S)
  BY DEF Surjection
<1>5. IsFiniteSet(S)
  BY <1>3, <1>4, FS_Surjection
<1> HIDE DEF S
<1>6. Max(S) \in Nat
  BY <1>2, <1>5, MaxIn
<1>7. relevance[b.seed] \in Nat
  BY <1>1, PickerAssumption DEF PickerTypeOK
<1>8. Max(S) * relevance[b.seed] \in Int
  BY <1>6, <1>7
<1> QED BY <1>8 DEF Priority, BundleFreshness, S

(* A slice is no longer than its limit. *)
LEMMA UpToPart ==
    ASSUME NEW X, NEW s \in Seq(X), NEW n \in Nat
    PROVE  UpTo(s, n) \in Seq(X) /\ Len(UpTo(s, n)) <= n
<1> DEFINE m == Least(n, Len(s))
<1>1. m \in Nat /\ m <= n /\ m <= Len(s) /\ Len(s) \in Nat
  BY DEF Least
<1> HIDE DEF m
<1>2. \A i \in 1..m : s[i] \in X
  BY <1>1
<1>3. SubSeq(s, 1, m) \in Seq(X) /\ Len(SubSeq(s, 1, m)) = IF 1 <= m THEN m - 1 + 1 ELSE 0
  BY <1>1, <1>2, SubSeqProperties
<1> QED BY <1>1, <1>3 DEF UpTo, m

(* The seeds of a cycle are files. *)
LEMMA TopSeedsFiles ==
    ASSUME PickerTypeOK
    PROVE  TopSeeds \in Seq(File)
<1> DEFINE D == {i \in DOMAIN Tracked : Tracked[i] \notin Ignored}
           key == [i \in D |-> Ranked(Tracked[i], relevance[Tracked[i]], config.scoring)]
           Candidate(i) == [key |-> Ranked(Tracked[i], relevance[Tracked[i]], config.scoring),
                            at |-> i, item |-> Tracked[i]]
           E == {Candidate(i) : i \in D}
<1>1. Len(Tracked) \in Nat /\ D \in SUBSET (1..Len(Tracked)) /\ \A i \in D : Tracked[i] \in File
  BY PickerAssumption, FileAt
<1>2. ASSUME NEW i \in D PROVE key[i] \in Int
  <2>1. relevance[Tracked[i]] \in Nat /\ Size[Tracked[i]] \in Nat
    BY <1>1, PickerAssumption DEF PickerTypeOK
  <2> QED BY <2>1 DEF Ranked, Least
<1>3. E = Entered(D, key, Tracked)
  BY DEF Entered
<1>4. \A e \in E : e.item \in File
  BY <1>1
<1>5. Separate(E)
  <2> HIDE DEF D, key, E
  <2>1. Separate(Entered(D, key, Tracked))
    BY <1>1, <1>2, PlacesSeparate
  <2> QED BY <1>3, <2>1
<1>6. relevance \in Relevances /\ config \in Configs
  BY DEF PickerTypeOK
<1>7. TopSeeds = UpTo(Sorted[E], 3 * config.bundles)
  BY <1>6 DEF TopSeeds, SeedsOf
<1> HIDE DEF E
<1>8. Sorted[E] \in Seq(File)
  BY <1>4, <1>5, SortedItems
<1>9. 3 * config.bundles \in Nat
  BY <1>6, PickerAssumption
<1> QED BY <1>7, <1>8, <1>9, UpToPart

(* The bundles that put no file in that is at the cap now.                 *)
Fair == {b \in Bundle : b.files # {} /\ \A f \in b.files : f = b.seed \/ Appearances(f) < MaxHub}

(* Seeds expand to no more bundles than they are, and all are fair.        *)
LEMMA ExpandedFair ==
    ASSUME NEW seeds \in Seq(File), NEW aware
    PROVE  /\ Expanded(seeds, aware) \in SUBSET Placed
           /\ IsFiniteSet(Expanded(seeds, aware))
           /\ Cardinality(Expanded(seeds, aware)) <= Len(seeds)
           /\ \A e \in Expanded(seeds, aware) : e.item \in Fair
           /\ \A d, e \in Expanded(seeds, aware) : d.at = e.at => d = e
<1> DEFINE Put(i) == [at |-> i, item |-> Expand(seeds[i], aware)]
           all == {Put(i) : i \in DOMAIN seeds}
           put == [i \in 1..Len(seeds) |-> Put(i)]
<1>1. Len(seeds) \in Nat /\ DOMAIN seeds = 1..Len(seeds) /\ \A i \in 1..Len(seeds) : seeds[i] \in File
  OBVIOUS
<1>2. \A i \in DOMAIN seeds : Expand(seeds[i], aware) \in Fair
  BY <1>1, ExpandBundle DEF Fair
<1>3. ASSUME NEW i \in DOMAIN seeds PROVE Put(i) \in Placed
  <2>1. Expand(seeds[i], aware) \in Bundle /\ i \in Nat
    BY <1>1, <1>2 DEF Fair
  <2> QED BY <2>1 DEF Placed
<1>4. put \in Surjection(1..Len(seeds), all)
  BY <1>1 DEF Surjection
<1>5. IsFiniteSet(1..Len(seeds)) /\ Cardinality(1..Len(seeds)) = Len(seeds)
  <2>1. /\ IsFiniteSet(1..Len(seeds))
        /\ Cardinality(1..Len(seeds)) = IF 1 > Len(seeds) THEN 0 ELSE Len(seeds) - 1 + 1
    BY <1>1, FS_Interval
  <2> QED BY <1>1, <2>1
<1>6. IsFiniteSet(all) /\ Cardinality(all) <= Len(seeds)
  BY <1>4, <1>5, FS_Surjection
<1>7. \A e \in all : e.item \in Fair
  BY <1>2
<1>8. \A d, e \in all : d.at = e.at => d = e
  OBVIOUS
<1>9. all \in SUBSET Placed
  BY <1>3
<1>10. Expanded(seeds, aware) = Distinct[all]
  BY DEF Expanded
<1> HIDE DEF all
<1>11. Distinct[all] \in SUBSET all
  BY <1>9 DEF Distinct
<1>12. IsFiniteSet(Distinct[all]) /\ Cardinality(Distinct[all]) <= Cardinality(all)
  BY <1>6, <1>11, FS_Subset
<1>13. Cardinality(Distinct[all]) <= Len(seeds)
  BY <1>1, <1>6, <1>12, FS_CardinalityType
<1> QED BY <1>7, <1>8, <1>9, <1>10, <1>11, <1>12, <1>13

(* Sorting the bundles of a set by some key.                               *)
Weigh(placed, key) == {[key |-> key[e], at |-> e.at, item |-> e.item] : e \in placed}

(* Sorting bundles by any key leaves them fair. *)
LEMMA SortedFair ==
    ASSUME NEW P \in SUBSET Placed, IsFiniteSet(P), \A e \in P : e.item \in Fair,
           \A d, e \in P : d.at = e.at => d = e,
           NEW key, \A e \in P : key[e] \in Int
    PROVE  /\ Sorted[Weigh(P, key)] \in Seq(Fair)
           /\ Len(Sorted[Weigh(P, key)]) <= Cardinality(P)
<1> DEFINE W == Weigh(P, key)
           put == [e \in P |-> [key |-> key[e], at |-> e.at, item |-> e.item]]
<1>1. put \in Surjection(P, W)
  BY DEF Surjection, Weigh
<1>2. IsFiniteSet(W) /\ Cardinality(W) <= Cardinality(P)
  BY <1>1, FS_Surjection
<1>3. ASSUME NEW e \in P PROVE [key |-> key[e], at |-> e.at, item |-> e.item] \in Keyed
  <2>1. e.at \in Nat /\ e.item \in Bundle
    BY DEF Placed
  <2> QED BY <2>1 DEF Keyed
<1>4. W \in SUBSET Keyed
  BY <1>3 DEF Weigh
<1>5. \A d, e \in W : d.at = e.at => d = e
  BY DEF Weigh
<1>6. \A e \in W : e.item \in Fair
  BY DEF Weigh
<1> HIDE DEF W
<1>7. Separate(W)
  BY <1>2, <1>4, <1>5 DEF Separate
<1>8. Sorted[W] \in Seq(Fair) /\ Len(Sorted[W]) = Cardinality(W)
  BY <1>6, <1>7, SortedItems
<1> QED BY <1>2, <1>8 DEF W

(* The batch of a picked cycle. *)
LEMMA NextBatchFair ==
    ASSUME PickerTypeOK
    PROVE  PickNextBatch \in Seq(Fair) /\ Len(PickNextBatch) <= config.bundles
<1> DEFINE P == Expanded(TopSeeds, config.classAware)
           key == [e \in P |-> Priority(e.item)]
           W == {[key |-> Priority(e.item), at |-> e.at, item |-> e.item] : e \in P}
<1>1. /\ P \in SUBSET Placed /\ IsFiniteSet(P)
      /\ \A e \in P : e.item \in Fair
      /\ \A d, e \in P : d.at = e.at => d = e
  BY TopSeedsFiles, ExpandedFair
<1>2. config.bundles \in Nat
  BY PickerAssumption DEF PickerTypeOK
<1>3. PickNextBatch = UpTo(Sorted[W], config.bundles)
  BY DEF PickNextBatch
<1> HIDE DEF P
<1>4. \A e \in P : key[e] \in Int
  BY <1>1, PriorityInt DEF Fair
<1>5. W = Weigh(P, key)
  BY DEF Weigh
<1> HIDE DEF W, key
<1>6. Sorted[W] \in Seq(Fair)
  BY <1>1, <1>4, <1>5, SortedFair
<1> QED BY <1>2, <1>3, <1>6, UpToPart

(* The batch of an impact cone. *)
LEMMA ConeBatchFair ==
    ASSUME changed \in Seq(File)
    PROVE  PickImpactConeBatch \in Seq(Fair) /\ Len(PickImpactConeBatch) <= Len(changed)
<1> DEFINE P == Expanded(changed, FALSE)
           key == [e \in P |-> 0]
           W == {[key |-> 0, at |-> e.at, item |-> e.item] : e \in P}
<1>1. /\ P \in SUBSET Placed /\ IsFiniteSet(P)
      /\ \A e \in P : e.item \in Fair
      /\ \A d, e \in P : d.at = e.at => d = e
      /\ Cardinality(P) <= Len(changed)
  BY ExpandedFair
<1>2. PickImpactConeBatch = Sorted[W]
  BY DEF PickImpactConeBatch
<1> HIDE DEF P
<1>3. \A e \in P : key[e] \in Int
  OBVIOUS
<1>4. W = Weigh(P, key)
  BY DEF Weigh
<1> HIDE DEF W, key
<1>5. Sorted[W] \in Seq(Fair) /\ Len(Sorted[W]) <= Cardinality(P)
  BY <1>1, <1>3, <1>4, SortedFair
<1>6. Cardinality(P) \in Nat /\ Len(changed) \in Nat /\ Len(Sorted[W]) \in Nat
  BY <1>1, <1>5, FS_CardinalityType
<1> QED BY <1>1, <1>2, <1>5, <1>6
-----------------------------------------------------------------------------
(* The bundles that have f as a neighbor: in the ledger, and still to do.  *)
Bundled(f) == {r.files : r \in {x \in ledger : f \in x.files /\ x.seed # f}}
(* Those of the batch. *)
Pending(f) == {b.files : b \in {x \in ToSet(batch) : f \in x.files /\ x.seed # f}}

(* A file that the pending bundles hold was below the cap when they were   *)
(* picked: with all of them recorded it is over by the batch at most.      *)
HubPlace ==
    \A f \in File : Cardinality(Bundled(f) \cup Pending(f)) <= MaxHub - 1 + LargestBatch

(* A cycle analyzes as long as pairs are left. *)
PhasePlace == phase = "analyzing" <=> batch # <<>>

(* The inductive invariant. *)
PickerInv == PickerTypeOK /\ PhasePlace /\ HubPlace

(* No batch is larger than LargestBatch. *)
LEMMA LargestBatchBounds ==
    ASSUME PickerTypeOK
    PROVE  /\ LargestBatch \in Nat /\ config.bundles <= LargestBatch
           /\ ImpactCone => Len(changed) <= LargestBatch
<1> DEFINE cones == {Len(c) : c \in Changes}
           sizes == {config.bundles} \cup (IF config.impactCone THEN cones ELSE {})
           len == [c \in Changes |-> Len(c)]
<1>1. config.bundles \in Nat
  BY PickerAssumption DEF PickerTypeOK
<1>2. len \in Surjection(Changes, cones)
  BY DEF Surjection
<1>3. IsFiniteSet(cones) /\ cones \subseteq Nat
  BY <1>2, FS_Surjection, PickerAssumption
<1>4. IsFiniteSet(sizes) /\ sizes \subseteq Nat /\ sizes # {}
  <2>1. IsFiniteSet({config.bundles}) /\ IsFiniteSet({config.bundles} \cup cones)
    BY <1>3, FS_Singleton, FS_Union
  <2> HIDE DEF cones
  <2> QED BY <1>1, <1>3, <2>1
<1>5. ImpactCone => Len(changed) \in sizes
  BY DEF ImpactCone, PickerTypeOK
<1>6. config.bundles \in sizes /\ LargestBatch = Max(sizes)
  BY DEF LargestBatch
<1> HIDE DEF sizes
<1>7. Max(sizes) \in sizes /\ \A n \in sizes : n <= Max(sizes)
  BY <1>4, MaxIn
<1> QED BY <1>4, <1>5, <1>6, <1>7

(* The bundles around a file are finitely many sets of files. *)
LEMMA BundledFinite ==
    ASSUME PickerTypeOK, NEW f
    PROVE  /\ Bundled(f) \in SUBSET SUBSET File /\ Pending(f) \in SUBSET SUBSET File
           /\ IsFiniteSet(Bundled(f)) /\ IsFiniteSet(Pending(f))
<1>1. \A r \in ledger : r.files \in SUBSET File
  BY DEF PickerTypeOK
<1>2. \A b \in ToSet(batch) : b.files \in SUBSET File
  <2>1. batch \in Seq(Bundle)
    BY DEF PickerTypeOK
  <2>2. \A b \in ToSet(batch) : b \in Bundle
    BY <2>1 DEF ToSet
  <2> QED BY <2>2 DEF Bundle
<1>3. Bundled(f) \in SUBSET SUBSET File /\ Pending(f) \in SUBSET SUBSET File
  BY <1>1, <1>2 DEF Bundled, Pending
<1> QED BY <1>3, FileFinite, FS_Subset

(* The invariant is kept when the bundles around each file do not grow.    *)
LEMMA NoMoreBundles ==
    ASSUME PickerInv, PickerTypeOK', config' = config,
           \A f \in File : Bundled(f)' \cup Pending(f)' \subseteq Bundled(f) \cup Pending(f)
    PROVE  HubPlace'
<1>1. LargestBatch' = LargestBatch
  BY DEF LargestBatch
<1>2. SUFFICES ASSUME NEW f \in File
      PROVE  Cardinality(Bundled(f)' \cup Pending(f)') <= MaxHub - 1 + LargestBatch
  BY <1>1 DEF HubPlace
<1>3. IsFiniteSet(Bundled(f)) /\ IsFiniteSet(Pending(f))
  BY BundledFinite DEF PickerInv
<1> DEFINE old == Bundled(f) \cup Pending(f)
           new == Bundled(f)' \cup Pending(f)'
<1>4. IsFiniteSet(old) /\ new \in SUBSET old
  BY <1>3, FS_Union
<1>5. Cardinality(old) <= MaxHub - 1 + LargestBatch
  BY DEF PickerInv, HubPlace
<1> HIDE DEF old, new
<1>6. /\ IsFiniteSet(new) /\ Cardinality(new) <= Cardinality(old)
      /\ Cardinality(new) \in Nat /\ Cardinality(old) \in Nat
  BY <1>4, FS_Subset, FS_CardinalityType
<1>7. LargestBatch \in Nat /\ MaxHub \in Nat
  BY LargestBatchBounds, PickerAssumption DEF PickerInv
<1> QED BY <1>5, <1>6, <1>7 DEF new

(* An empty ledger satisfies the invariant. *)
LEMMA InitPickerInv == PickerInit => PickerInv
<1> SUFFICES ASSUME PickerInit PROVE PickerInv
  OBVIOUS
<1>1. PickerTypeOK
  <2>1. 0 \in 0..CommitLimit /\ 0 \in 0..FaultLimit
    BY PickerAssumption
  <2>2. batch \in Seq(Bundle)
    BY DEF PickerInit
  <2> QED BY <2>1, <2>2 DEF PickerInit, PickerTypeOK
<1>2. PhasePlace
  BY DEF PickerInit, PhasePlace
<1>3. ASSUME NEW f \in File PROVE Bundled(f) \cup Pending(f) = {}
  BY DEF PickerInit, Bundled, Pending, ToSet
<1>4. LargestBatch \in Nat /\ MaxHub \in Nat \ {0}
  BY <1>1, LargestBatchBounds, PickerAssumption
<1>5. HubPlace
  BY <1>3, <1>4, FS_EmptySet DEF HubPlace
<1> QED BY <1>1, <1>2, <1>5 DEF PickerInv

(* A row of the ledger. *)
Row == [seed : File, files : SUBSET File, age : 0..Max({Horizon, Window}), current : BOOLEAN]

(* The age at which a row is forgotten. *)
LEMMA OldestNat == Max({Horizon, Window}) \in Nat
<1>1. {Horizon, Window} = {Horizon} /\ Horizon \in Nat
  BY PickerAssumption
<1>2. IsFiniteSet({Horizon, Window}) /\ {Horizon, Window} \subseteq Nat
  BY <1>1, FS_Singleton
<1> QED BY <1>2, MaxIn

(* The bundle a pair of the crossed batch belongs to. *)
LEMMA DivIn ==
    ASSUME NEW m \in Nat, NEW n \in Nat \ {0}, NEW k \in 1..(m * n)
    PROVE  ((k - 1) \div n) + 1 \in 1..m
<1> DEFINE q == (k - 1) \div n
<1>1. q \in Nat /\ n * q <= k - 1
  <2>1. k - 1 \in Nat
    OBVIOUS
  <2>2. q \in Nat /\ (k - 1) % n \in 0..(n - 1) /\ k - 1 = n * q + ((k - 1) % n)
    BY <2>1
  <2>3. n * q \in Nat
    BY <2>2
  <2> QED BY <2>2, <2>3
<1> HIDE DEF q
<1>2. q < m
  <2> SUFFICES ASSUME m <= q PROVE FALSE
    BY <1>1
  <2>1. n * m <= n * q /\ n * m = m * n /\ n * m \in Nat /\ n * q \in Nat
    BY <1>1
  <2> QED BY <1>1, <2>1
<1> QED BY <1>1, <1>2 DEF q

(* The batch of bundles s: each with every analyzer. *)
Pairs(s) == [i \in 1..(Len(s) * Analyzers) |-> s[((i - 1) \div Analyzers) + 1]]

(* A pair of the batch is one of its bundles.                              *)
LEMMA PairsOf ==
    ASSUME NEW X, NEW s \in Seq(X)
    PROVE  /\ Pairs(s) \in Seq(X) /\ (Pairs(s) = <<>> <=> s = <<>>)
           /\ ToSet(Pairs(s)) \subseteq {s[i] : i \in 1..Len(s)}
<1> DEFINE n == Len(s) * Analyzers
           at(i) == ((i - 1) \div Analyzers) + 1
           b == Pairs(s)
<1>1. Len(s) \in Nat /\ Analyzers \in Nat \ {0} /\ n \in Nat /\ (n = 0 <=> Len(s) = 0)
  BY PickerAssumption
<1>2. \A i \in 1..n : at(i) \in 1..Len(s)
  BY <1>1, DivIn
<1>3. b = [i \in 1..n |-> s[at(i)]]
  BY DEF Pairs
<1> HIDE DEF n, at, b
<1>4. \A j \in 1..Len(s) : s[j] \in X
  OBVIOUS
<1>5. b \in [1..n -> X] /\ \A i \in 1..n : b[i] = s[at(i)]
  BY <1>2, <1>3, <1>4
<1>6. b \in Seq(X) /\ Len(b) = n
  BY <1>1, <1>5, SeqDef
<1>7. DOMAIN b = 1..n
  BY <1>5
<1>8. b = <<>> <=> s = <<>>
  BY <1>1, <1>6
<1>9. ToSet(b) \subseteq {s[i] : i \in 1..Len(s)}
  BY <1>2, <1>5, <1>7 DEF ToSet
<1> QED BY <1>6, <1>8, <1>9 DEF b

(* Every step keeps the types and the phases. *)
LEMMA TypeKept ==
    ASSUME PickerInv, [PickerNext]_pickerVars
    PROVE  PickerTypeOK' /\ PhasePlace' /\ config' = config
<1> DEFINE B == IF ImpactCone THEN PickImpactConeBatch ELSE PickNextBatch
<1> USE DEF PickerInv
<1>1. CASE Pick
  <2>1. B \in Seq(Bundle)
    <3>1. changed \in Seq(File)
      <4>1. changed \in Changes \cup {<<>>} /\ Changes \subseteq Seq(File) /\ <<>> \in Seq(File)
        BY PickerAssumption DEF PickerTypeOK
      <4> QED BY <4>1
    <3>2. B \in Seq(Fair)
      BY <3>1, NextBatchFair, ConeBatchFair
    <3>3. Fair \subseteq Bundle
      BY DEF Fair
    <3> QED BY <3>2, <3>3, SeqMonotonic
  <2>2. batch' = Pairs(B)
    BY <1>1 DEF Pick, Pairs
  <2>3. /\ phase' = IF B = <<>> THEN "sleeping" ELSE "analyzing"
        /\ fresh' = TRUE
        /\ UNCHANGED <<relevance, config, changed, ledger, torn, commits, faults>>
    BY <1>1 DEF Pick
  <2> HIDE DEF B
  <2>4. batch' \in Seq(Bundle) /\ (batch' = <<>> <=> B = <<>>)
    BY <2>1, <2>2, PairsOf
  <2> QED BY <2>3, <2>4 DEF PickerTypeOK, PhasePlace
<1>2. ASSUME NextPair PROVE batch' \in Seq(Bundle) /\ PhasePlace' /\ Head(batch) \in Bundle
  <2>1. batch \in Seq(Bundle) /\ batch # <<>> /\ Len(batch) \in Nat
    BY <1>2 DEF NextPair, PhasePlace, PickerTypeOK
  <2>2. batch' = Tail(batch) /\ phase' = IF Len(batch) = 1 THEN "sleeping" ELSE "analyzing"
    BY <1>2 DEF NextPair
  <2>3. Tail(batch) \in Seq(Bundle) /\ Head(batch) \in Bundle /\ Len(Tail(batch)) = Len(batch) - 1
    BY <2>1, HeadTailProperties
  <2>4. Tail(batch) = <<>> <=> Len(batch) = 1
    <3>1. Len(Tail(batch)) = 0 <=> Tail(batch) = <<>>
      BY <2>3, EmptySeq
    <3> QED BY <2>1, <2>3, <3>1
  <2> QED BY <2>2, <2>3, <2>4 DEF PhasePlace
<1>3. CASE Record
  <2>1. NextPair
    BY <1>3 DEF Record
  <2> DEFINE b == Head(batch)
             row == [seed |-> b.seed, files |-> b.files, age |-> 0, current |-> fresh]
             others == {r \in ledger : r.seed # b.seed \/ r.files # b.files}
  <2>2. row \in Row
    <3>1. b \in Bundle /\ fresh \in BOOLEAN /\ 0 \in 0..Max({Horizon, Window})
      BY <1>2, <2>1, OldestNat DEF PickerTypeOK
    <3> HIDE DEF b
    <3>2. b.seed \in File /\ b.files \in SUBSET File
      BY <3>1 DEF Bundle
    <3> QED BY <3>1, <3>2 DEF Row
  <2>3. ledger' = IF torn THEN ledger ELSE others \cup {row}
    BY <1>3 DEF Record
  <2>4. ledger \subseteq Row
    BY DEF PickerTypeOK, Row
  <2>5. ledger' \subseteq Row
    BY <2>2, <2>3, <2>4
  <2>6. phase' \in {"picking", "analyzing", "sleeping"}
    BY <2>1 DEF NextPair
  <2> QED BY <1>2, <1>3, <2>1, <2>5, <2>6 DEF Record, PickerTypeOK, Row
<1>4. CASE RecordShort
  <2>1. NextPair
    BY <1>4 DEF RecordShort
  <2>2. phase' \in {"picking", "analyzing", "sleeping"}
    BY <2>1 DEF NextPair
  <2>3. faults' \in 0..FaultLimit
    BY <1>4, PickerAssumption DEF RecordShort, PickerTypeOK
  <2> QED BY <1>2, <1>4, <2>1, <2>2, <2>3 DEF RecordShort, PickerTypeOK
<1>5. CASE CycleFails
  <2>1. faults' \in 0..FaultLimit
    <3>1. faults < FaultLimit /\ faults' = faults + 1 /\ faults \in 0..FaultLimit
      BY <1>5 DEF CycleFails, PickerTypeOK
    <3> QED BY <3>1, PickerAssumption
  <2>6. torn' \in BOOLEAN
    <3>1. torn' = torn \/ torn' = TRUE
      BY <1>5 DEF CycleFails
    <3> QED BY <3>1 DEF PickerTypeOK
  <2>2. batch' \in Seq(Bundle)
    BY <1>5 DEF CycleFails
  <2>3. PhasePlace'
    BY <1>5 DEF CycleFails, PhasePlace
  <2> QED BY <1>5, <2>1, <2>2, <2>3, <2>6 DEF CycleFails, PickerTypeOK
<1>6. CASE Wake
  <2> DEFINE kept == {x \in ledger : x.age < Max({Horizon, Window})}
  <2>1. ledger' = {[r EXCEPT !.age = @ + 1] : r \in kept}
    BY <1>6 DEF Wake
  <2>2. ledger \subseteq Row
    BY DEF PickerTypeOK, Row
  <2>3. ASSUME NEW r \in kept PROVE [r EXCEPT !.age = @ + 1] \in Row
    <3>1. r \in Row /\ r.age < Max({Horizon, Window})
      BY <2>2
    <3>2. r.age + 1 \in 0..Max({Horizon, Window})
      BY <3>1, OldestNat DEF Row
    <3> QED BY <3>1, <3>2 DEF Row
  <2>4. ledger' \subseteq Row
    BY <2>1, <2>3
  <2>5. PhasePlace'
    BY <1>6 DEF Wake, PhasePlace
  <2> QED BY <1>6, <2>4, <2>5 DEF Wake, PickerTypeOK, Row
<1>7. CASE CommitOther
  <2>1. ledger' = {[r EXCEPT !.current = FALSE] : r \in ledger}
    BY <1>7 DEF CommitOther
  <2>2. ledger \subseteq Row
    BY DEF PickerTypeOK, Row
  <2>3. \A r \in ledger : [r EXCEPT !.current = FALSE] \in Row
    BY <2>2 DEF Row
  <2>4. ledger' \subseteq Row
    BY <2>1, <2>3
  <2>5. commits' \in 0..CommitLimit
    <3>1. commits < CommitLimit /\ commits' = commits + 1 /\ commits \in 0..CommitLimit
      BY <1>7 DEF CommitOther, PickerTypeOK
    <3> QED BY <3>1, PickerAssumption
  <2>6. PhasePlace'
    BY <1>7 DEF CommitOther, PhasePlace
  <2> QED BY <1>7, <2>4, <2>5, <2>6 DEF CommitOther, PickerTypeOK, Row
<1>8. CASE Edit
  BY <1>8 DEF Edit, PickerTypeOK, PhasePlace
<1>9. CASE UNCHANGED pickerVars
  BY <1>9 DEF pickerVars, PickerTypeOK, PhasePlace
<1> QED BY <1>1, <1>3, <1>4, <1>5, <1>6, <1>7, <1>8, <1>9
        DEF PickerNext, CrawlStep, Pick, Record, NextPair, RecordShort, CycleFails, Wake,
            CommitOther, Edit, pickerVars

(* The pick: a file that no bundle of it has as a neighbor keeps its       *)
(* bound, and a file that one of them has is below the cap.                *)
LEMMA PickKeepsBound ==
    ASSUME PickerInv, Pick, PickerTypeOK'
    PROVE  HubPlace'
<1> DEFINE B == IF ImpactCone THEN PickImpactConeBatch ELSE PickNextBatch
<1> USE DEF PickerInv
<1>1. B \in Seq(Fair) /\ Len(B) <= LargestBatch
  <2>1. changed \in Seq(File)
    <3>1. changed \in Changes \cup {<<>>} /\ Changes \subseteq Seq(File) /\ <<>> \in Seq(File)
      BY PickerAssumption DEF PickerTypeOK
    <3> QED BY <3>1
  <2>2. config.bundles \in Nat /\ LargestBatch \in Nat /\ Len(changed) \in Nat
    <3>1. config \in Configs
      BY DEF PickerTypeOK
    <3>2. config.bundles \in Nat
      BY <3>1, PickerAssumption
    <3>3. LargestBatch \in Nat
      BY LargestBatchBounds
    <3>4. Len(changed) \in Nat
      BY <2>1, LenProperties
    <3> QED BY <3>2, <3>3, <3>4
  <2>3. CASE ImpactCone
    <3>1. B = PickImpactConeBatch
      BY <2>3
    <3> HIDE DEF B
    <3>2. B \in Seq(Fair) /\ Len(B) <= Len(changed) /\ Len(changed) <= LargestBatch
      BY <2>1, <2>3, <3>1, ConeBatchFair, LargestBatchBounds
    <3>3. Len(B) \in Nat
      BY <3>2, LenProperties
    <3> QED BY <2>2, <3>2, <3>3
  <2>4. CASE ~ImpactCone
    <3>1. B = PickNextBatch
      BY <2>4
    <3> HIDE DEF B
    <3>2. B \in Seq(Fair) /\ Len(B) <= config.bundles /\ config.bundles <= LargestBatch
      BY <3>1, NextBatchFair, LargestBatchBounds
    <3>3. Len(B) \in Nat
      BY <3>2, LenProperties
    <3> QED BY <2>2, <3>2, <3>3
  <2> QED BY <2>3, <2>4
<1>2. batch' = Pairs(B) /\ ledger' = ledger /\ config' = config
  BY DEF Pick, Pairs
<1> HIDE DEF B
<1>3. ToSet(batch') \subseteq {B[i] : i \in 1..Len(B)}
  BY <1>1, <1>2, PairsOf
<1>4. Len(B) \in Nat /\ \A i \in 1..Len(B) : B[i] \in Fair
  BY <1>1
<1>5. LargestBatch' = LargestBatch /\ LargestBatch \in Nat /\ MaxHub \in Nat \ {0}
  BY <1>2, LargestBatchBounds, PickerAssumption DEF LargestBatch
<1>6. SUFFICES ASSUME NEW f \in File
      PROVE  Cardinality(Bundled(f)' \cup Pending(f)') <= MaxHub - 1 + LargestBatch
  BY <1>5 DEF HubPlace
<1>7. Bundled(f)' = Bundled(f)
  BY <1>2 DEF Bundled
<1>8. /\ IsFiniteSet(Bundled(f)) /\ IsFiniteSet(Pending(f))
      /\ IsFiniteSet(Bundled(f)') /\ IsFiniteSet(Pending(f)')
  <2>1. IsFiniteSet(Bundled(f)) /\ IsFiniteSet(Pending(f))
    BY BundledFinite
  <2>2. IsFiniteSet(Pending(f)')
    <3>1. \A b \in ToSet(batch') : b.files \in SUBSET File
      BY <1>3, <1>4 DEF Fair, Bundle
    <3>2. Pending(f)' \in SUBSET SUBSET File
      BY <3>1 DEF Pending
    <3> QED BY <3>2, FileFinite, FS_Subset
  <2> QED BY <1>7, <2>1, <2>2
<1>9. CASE Pending(f)' = {}
  <2> DEFINE old == Bundled(f) \cup Pending(f)
  <2>1. Bundled(f)' \cup Pending(f)' \in SUBSET old /\ IsFiniteSet(old)
    BY <1>7, <1>8, <1>9, FS_Union
  <2>2. Cardinality(old) <= MaxHub - 1 + LargestBatch
    BY DEF HubPlace
  <2> HIDE DEF old
  <2>3. /\ Cardinality(Bundled(f)' \cup Pending(f)') <= Cardinality(old)
        /\ Cardinality(old) \in Nat /\ Cardinality(Bundled(f)' \cup Pending(f)') \in Nat
    BY <2>1, FS_Subset, FS_CardinalityType
  <2> QED BY <1>5, <2>2, <2>3
<1>10. CASE Pending(f)' # {}
  <2>1. Appearances(f) < MaxHub
    <3>1. PICK b \in ToSet(batch') : f \in b.files /\ b.seed # f
      BY <1>10 DEF Pending
    <3>2. b \in Fair
      BY <1>3, <1>4, <3>1
    <3> QED BY <3>1, <3>2 DEF Fair
  <2>2. Cardinality(Bundled(f)) <= Appearances(f) /\ Appearances(f) \in Nat
    <3> DEFINE seen == {r.files : r \in {x \in ledger : f \in x.files /\ x.age <= Window}}
    <3>1. Max({Horizon, Window}) = Window
      <4>1. {Horizon, Window} = {Window} /\ Window \in Nat
        BY PickerAssumption
      <4>2. IsFiniteSet({Window}) /\ {Window} \subseteq Nat /\ {Window} # {}
        BY <4>1, FS_Singleton
      <4>3. Max({Window}) \in {Window}
        BY <4>2, MaxIn
      <4> QED BY <4>1, <4>3
    <3>2. \A r \in ledger : r.age <= Window /\ r.files \in SUBSET File
      <4>1. ledger \subseteq [seed : File, files : SUBSET File,
                               age : 0..Max({Horizon, Window}), current : BOOLEAN]
        BY DEF PickerTypeOK
      <4>2. \A r \in ledger : r.age \in 0..Window /\ r.files \in SUBSET File
        BY <3>1, <4>1
      <4> QED BY <4>2, PickerAssumption
    <3>3. Bundled(f) \in SUBSET seen /\ seen \in SUBSET SUBSET File
      BY <3>2 DEF Bundled
    <3> HIDE DEF seen
    <3>4. IsFiniteSet(seen)
      BY <3>3, FileFinite, FS_Subset
    <3>5. Cardinality(Bundled(f)) <= Cardinality(seen) /\ Cardinality(seen) \in Nat
      BY <3>3, <3>4, FS_Subset, FS_CardinalityType
    <3> QED BY <3>5 DEF Appearances, seen
  <2>3. Cardinality(Pending(f)') <= LargestBatch
    <3> DEFINE all == {B[i].files : i \in 1..Len(B)}
               files == [i \in 1..Len(B) |-> B[i].files]
    <3>1. files \in Surjection(1..Len(B), all)
      BY DEF Surjection
    <3>2. IsFiniteSet(1..Len(B)) /\ Cardinality(1..Len(B)) = Len(B)
      <4>1. /\ IsFiniteSet(1..Len(B))
            /\ Cardinality(1..Len(B)) = IF 1 > Len(B) THEN 0 ELSE Len(B) - 1 + 1
        BY <1>4, FS_Interval
      <4> QED BY <1>4, <4>1
    <3>3. IsFiniteSet(all) /\ Cardinality(all) <= Len(B)
      BY <3>1, <3>2, FS_Surjection
    <3>4. Pending(f)' \in SUBSET all
      BY <1>3 DEF Pending
    <3> HIDE DEF all
    <3>5. Cardinality(Pending(f)') <= Cardinality(all)
      BY <3>3, <3>4, FS_Subset
    <3>6. Cardinality(Pending(f)') \in Nat /\ Cardinality(all) \in Nat
      BY <1>8, <3>3, FS_CardinalityType
    <3> QED BY <1>1, <1>4, <1>5, <3>3, <3>5, <3>6
  <2>4. Cardinality(Bundled(f)' \cup Pending(f)') <= Cardinality(Bundled(f)) + Cardinality(Pending(f)')
    <3>1. Cardinality(Bundled(f)' \cup Pending(f)')
            = Cardinality(Bundled(f)') + Cardinality(Pending(f)')
              - Cardinality(Bundled(f)' \cap Pending(f)')
      BY <1>8, FS_Union
    <3>2. Cardinality(Bundled(f)' \cap Pending(f)') \in Nat
      BY <1>8, FS_Intersection, FS_CardinalityType
    <3>3. Cardinality(Bundled(f)') \in Nat /\ Cardinality(Pending(f)') \in Nat
      BY <1>8, FS_CardinalityType
    <3> QED BY <1>7, <3>1, <3>2, <3>3
  <2>5. /\ Cardinality(Bundled(f)) \in Nat /\ Cardinality(Pending(f)') \in Nat
        /\ Cardinality(Bundled(f)' \cup Pending(f)') \in Nat
    BY <1>8, FS_Union, FS_CardinalityType
  <2> QED BY <1>5, <2>1, <2>2, <2>3, <2>4, <2>5
<1> QED BY <1>9, <1>10

(* Every other step adds no bundle around any file. *)
LEMMA NextKeepsBound ==
    ASSUME PickerInv, [PickerNext]_pickerVars, PickerTypeOK', config' = config
    PROVE  HubPlace'
<1> USE DEF PickerInv
<1>1. CASE Pick
  BY <1>1, PickKeepsBound
<1>2. ASSUME UNCHANGED <<batch, ledger>> PROVE HubPlace'
  <2>1. \A f \in File : Bundled(f)' = Bundled(f) /\ Pending(f)' = Pending(f)
    BY <1>2 DEF Bundled, Pending
  <2> QED BY <2>1, NoMoreBundles
<1>3. ASSUME NextPair
      PROVE  ToSet(batch') \subseteq ToSet(batch) /\ Head(batch) \in ToSet(batch)
  <2>1. batch \in Seq(Bundle) /\ batch # <<>> /\ batch' = Tail(batch) /\ Len(batch) \in Nat
    BY <1>3 DEF NextPair, PhasePlace, PickerTypeOK
  <2>2. /\ Len(Tail(batch)) = Len(batch) - 1 /\ Tail(batch) \in Seq(Bundle)
        /\ \A i \in 1..Len(Tail(batch)) : Tail(batch)[i] = batch[i + 1]
    BY <2>1, HeadTailProperties
  <2>3. DOMAIN batch = 1..Len(batch) /\ DOMAIN Tail(batch) = 1..Len(Tail(batch))
    BY <2>1, <2>2, LenProperties
  <2>4. \A i \in 1..Len(Tail(batch)) : i + 1 \in 1..Len(batch)
    BY <2>1, <2>2
  <2>5. Head(batch) = batch[1] /\ 1 \in 1..Len(batch)
    BY <2>1
  <2> QED BY <2>1, <2>2, <2>3, <2>4, <2>5 DEF ToSet
<1>4. CASE Record
  <2> DEFINE b == Head(batch)
             row == [seed |-> b.seed, files |-> b.files, age |-> 0, current |-> fresh]
  <2>1. ToSet(batch') \subseteq ToSet(batch) /\ b \in ToSet(batch)
    BY <1>3, <1>4 DEF Record
  <2>2. ledger' \subseteq ledger \cup {row}
    BY <1>4 DEF Record
  <2>3. row.seed = b.seed /\ row.files = b.files
    OBVIOUS
  <2> HIDE DEF b, row
  <2>4. ASSUME NEW f \in File
        PROVE  Bundled(f)' \cup Pending(f)' \subseteq Bundled(f) \cup Pending(f)
    BY <2>1, <2>2, <2>3 DEF Bundled, Pending
  <2> QED BY <2>4, NoMoreBundles
<1>5. CASE RecordShort
  <2>1. ToSet(batch') \subseteq ToSet(batch) /\ ledger' = ledger
    BY <1>3, <1>5 DEF RecordShort
  <2>2. ASSUME NEW f \in File
        PROVE  Bundled(f)' \cup Pending(f)' \subseteq Bundled(f) \cup Pending(f)
    BY <2>1 DEF Bundled, Pending
  <2> QED BY <2>2, NoMoreBundles
<1>6. CASE CycleFails
  <2>1. ToSet(batch') = {} /\ ledger' = ledger
    BY <1>6 DEF CycleFails, ToSet
  <2>2. ASSUME NEW f \in File
        PROVE  Bundled(f)' \cup Pending(f)' \subseteq Bundled(f) \cup Pending(f)
    BY <2>1 DEF Bundled, Pending
  <2> QED BY <2>2, NoMoreBundles
<1>7. ASSUME batch' = batch,
             \A r \in ledger' : \E x \in ledger : x.files = r.files /\ x.seed = r.seed
      PROVE  HubPlace'
  <2>1. ASSUME NEW f \in File
        PROVE  Bundled(f)' \cup Pending(f)' \subseteq Bundled(f) \cup Pending(f)
    BY <1>7 DEF Bundled, Pending
  <2> QED BY <2>1, NoMoreBundles
<1>8. \A r \in ledger : r \in Row
  BY DEF PickerTypeOK, Row
<1>9. CASE Wake
  <2>1. ASSUME NEW r \in ledger'
        PROVE  \E x \in ledger : x.files = r.files /\ x.seed = r.seed
    <3>1. PICK x \in ledger : r = [x EXCEPT !.age = @ + 1]
      BY <1>9 DEF Wake
    <3>2. x \in Row
      BY <1>8
    <3> QED BY <3>1, <3>2 DEF Row
  <2> QED BY <1>7, <1>9, <2>1 DEF Wake
<1>10. CASE CommitOther
  <2>1. ASSUME NEW r \in ledger'
        PROVE  \E x \in ledger : x.files = r.files /\ x.seed = r.seed
    <3>1. PICK x \in ledger : r = [x EXCEPT !.current = FALSE]
      BY <1>10 DEF CommitOther
    <3>2. x \in Row
      BY <1>8
    <3> QED BY <3>1, <3>2 DEF Row
  <2> QED BY <1>7, <1>10, <2>1 DEF CommitOther
<1>11. CASE Edit
  BY <1>2, <1>11 DEF Edit
<1>12. CASE UNCHANGED pickerVars
  BY <1>2, <1>12 DEF pickerVars
<1> QED BY <1>1, <1>4, <1>5, <1>6, <1>9, <1>10, <1>11, <1>12 DEF PickerNext, CrawlStep

(* The types, the phases and the bound around the pending bundles hold.    *)
THEOREM PickerInvariance == PickerSpec => []PickerInv
<1>1. PickerInit => PickerInv
  BY InitPickerInv
<1>2. PickerInv /\ [PickerNext]_pickerVars => PickerInv'
  BY TypeKept, NextKeepsBound DEF PickerInv
<1> QED BY <1>1, <1>2, PTL DEF PickerSpec

(* The ledger replayed at the start of a cycle keeps every file from being *)
(* a neighbor in more bundles of the window than the cap and one batch.    *)
THEOREM HubSaturation == PickerSpec => []HubAppearancesBounded
<1>1. PickerInv => HubAppearancesBounded
  <2> SUFFICES ASSUME PickerInv, NEW f \in File
               PROVE  Cardinality({r.files : r \in {x \in ledger : /\ f \in x.files /\ x.seed # f
                                                                   /\ x.age <= Window}})
                        <= MaxHub - 1 + LargestBatch
    BY DEF HubAppearancesBounded
  <2> DEFINE seen == {r.files : r \in {x \in ledger : /\ f \in x.files /\ x.seed # f
                                                      /\ x.age <= Window}}
             around == Bundled(f) \cup Pending(f)
  <2>1. seen \in SUBSET around
    BY DEF Bundled
  <2>2. IsFiniteSet(around) /\ Cardinality(around) <= MaxHub - 1 + LargestBatch
    BY BundledFinite, FS_Union DEF PickerInv, HubPlace
  <2> HIDE DEF seen, around
  <2>3. /\ Cardinality(seen) <= Cardinality(around)
        /\ Cardinality(seen) \in Nat /\ Cardinality(around) \in Nat
    BY <2>1, <2>2, FS_Subset, FS_CardinalityType
  <2>4. LargestBatch \in Nat /\ MaxHub \in Nat
    BY LargestBatchBounds, PickerAssumption DEF PickerInv
  <2> QED BY <2>2, <2>3, <2>4 DEF seen
<1> QED BY <1>1, PickerInvariance, PTL
=============================================================================
