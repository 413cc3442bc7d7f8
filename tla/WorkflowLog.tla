----------------------------- MODULE WorkflowLog -----------------------------
(***************************************************************************)
(* StateMachine of autofix/workflow/state_machine.py: the in-memory state  *)
(* of one run, its append-only log state.jsonl, write failures, crashes    *)
(* and the replay of the log by from_log.                                  *)
(*                                                                         *)
(* One os.write per row.  Its outcome is one of:                           *)
(*   "full"  - the row and its newline are on disk;                        *)
(*   "bare"  - the whole row but not its newline (a short write whose      *)
(*             return value the code does not look at);                    *)
(*   "cut"   - a proper prefix of the row (likewise);                      *)
(*   "error" - OSError, nothing is written.                                *)
(***************************************************************************)
EXTENDS WorkflowStates, FiniteSets

CONSTANTS MaxLines,     \* bound: lines of the log
          MaxAttempt    \* bound: attempts of one state

ASSUME BoundsAssumption == MaxLines \in Nat /\ MaxAttempt \in Nat

VARIABLES log,          \* lines of state.jsonl, <<>> when there is no file
          terminated,   \* the last line ends with a newline
          live,         \* a StateMachine instance exists
          currentState, \* its _current_state
          history,      \* its _history
          attempts      \* its _attempts, 0 for an absent key

vars == <<log, terminated, live, currentState, history, attempts>>
memory == <<live, currentState, history, attempts>>

Init ==
    /\ log = <<>> /\ terminated = TRUE
    /\ live = FALSE
    /\ currentState = "SCANNING" /\ history = <<>>
    /\ attempts = [s \in State |-> 0]
-----------------------------------------------------------------------------
Written == {"full", "bare", "cut"}

(* The lines after an os.write of row with the given outcome. *)
Appended(row, outcome) ==
    IF terminated
    THEN Append(log, IF outcome = "cut" THEN Malformed ELSE row)
    ELSE [log EXCEPT ![Len(log)] = Malformed]

(* _append_row, with a write outcome that does not raise. *)
AppendRow(row, outcome) ==
    /\ log' = Appended(row, outcome)
    /\ terminated' = (outcome = "full")

(* Mutant: a run_id whose log already has rows is accepted. *)
ConstructOnExistingLog(outcome) ==
    /\ ~live /\ Len(log) < MaxLines
    /\ AppendRow(InitialRow, outcome)
    /\ live' = TRUE
    /\ currentState' = "SCANNING"
    /\ history' = <<InitialRow>>
    /\ attempts' = [s \in State |-> IF s = "SCANNING" THEN 1 ELSE 0]

(* StateMachine(root=...): a fresh run_id, so there is no log yet. *)
Construct(outcome) ==
    /\ ~live /\ log = <<>> /\ MaxLines > 0
    /\ AppendRow(InitialRow, outcome)
    /\ live' = TRUE
    /\ currentState' = "SCANNING"
    /\ history' = <<InitialRow>>
    /\ attempts' = [s \in State |-> IF s = "SCANNING" THEN 1 ELSE 0]

NextAttempt(to) == attempts[to] + 1

NextRow(to) == [from |-> currentState, to |-> to, attempt |-> NextAttempt(to)]

(* Mutant: the (from, to) pair is not looked up in _TRANSITION_PAIRS. *)
CanTransitionAnywhere(to) ==
    /\ live
    /\ NextAttempt(to) <= MaxAttempt
    /\ Len(log) < MaxLines /\ Len(history) < MaxLines

(* The pair is legal; the rest bounds the model. *)
CanTransition(to) ==
    /\ live
    /\ to \in Transitions[currentState]
    /\ NextAttempt(to) <= MaxAttempt
    /\ Len(log) < MaxLines /\ Len(history) < MaxLines

(* transition(to_state=to): the counter is bumped, the row written, and    *)
(* only then does memory follow.                                           *)
Transition(to, outcome) ==
    /\ CanTransition(to)
    /\ AppendRow(NextRow(to), outcome)
    /\ history' = Append(history, NextRow(to))
    /\ currentState' = to
    /\ attempts' = [attempts EXCEPT ![to] = NextAttempt(to)]
    /\ UNCHANGED live

(* Mutant: memory follows although the row was not written. *)
TransitionFailsButMoves(to) ==
    /\ CanTransition(to)
    /\ attempts' = [attempts EXCEPT ![to] = NextAttempt(to)]
    /\ currentState' = to
    /\ UNCHANGED <<log, terminated, live, history>>

(* The write raises OSError: only the counter has moved. *)
TransitionFails(to) ==
    /\ CanTransition(to)
    /\ attempts' = [attempts EXCEPT ![to] = NextAttempt(to)]
    /\ UNCHANGED <<log, terminated, live, currentState, history>>

(* The process dies; whatever part of a row was being written stays.       *)
Forget ==
    /\ live' = FALSE
    /\ currentState' = "SCANNING" /\ history' = <<>>
    /\ attempts' = [s \in State |-> 0]

Crash == live /\ Forget /\ UNCHANGED <<log, terminated>>

CrashInWrite(to, outcome) ==
    /\ CanTransition(to)
    /\ AppendRow(NextRow(to), outcome)
    /\ Forget

(* Mutant: the counters restart at zero. *)
FromLogForgetsAttempts ==
    /\ ~live
    /\ Replayable(log)
    /\ live' = TRUE
    /\ currentState' = log[Len(log)].to
    /\ history' = log
    /\ attempts' = [s \in State |-> 0]
    /\ UNCHANGED <<log, terminated>>

(* StateMachine.from_log(run_id): no row is written. *)
FromLog ==
    /\ ~live
    /\ Replayable(log)
    /\ live' = TRUE
    /\ currentState' = log[Len(log)].to
    /\ history' = log
    /\ attempts' = [s \in State |-> PersistedAttempt(log, s)]
    /\ UNCHANGED <<log, terminated>>

Next ==
    \/ \E o \in Written : Construct(o)
    \/ \E to \in State, o \in Written : Transition(to, o)
    \/ \E to \in State : TransitionFails(to)
    \/ Crash
    \/ \E to \in State, o \in Written : CrashInWrite(to, o)
    \/ FromLog

Spec == Init /\ [][Next]_vars
-----------------------------------------------------------------------------
(* Every variable has its type, and an empty log is a missing file. *)
TypeOK ==
    /\ log \in Seq(Line) /\ Len(log) <= MaxLines
    /\ terminated \in BOOLEAN /\ (log = <<>> => terminated)
    /\ live \in BOOLEAN
    /\ currentState \in State
    /\ history \in Seq(Row)
    /\ attempts \in [State -> Nat]

Intact == \A i \in DOMAIN log : log[i] # Malformed

(* What a live instance reports as its history is a path of the transition *)
(* table from SCANNING to current_state, whatever writes failed and        *)
(* whatever log it was rebuilt from (transition, from_log).                *)
HistoryIsLegal ==
    live => /\ Replayable(history)
            /\ history[Len(history)].to = currentState

(* As long as no line of state.jsonl was torn, the log replays to the very *)
(* history and state of the live instance: a failed write leaves neither   *)
(* ahead of the other.                                                     *)
LogIsHistory ==
    live /\ Intact => /\ log = history
                      /\ Replayable(log)

(* Two rows that enter the same state never carry the same attempt number, *)
(* and later ones carry higher ones, across failed writes, crashes and     *)
(* replays (the counter is bumped before the write and rebuilt as a        *)
(* maximum by from_log).                                                   *)
AttemptsNeverReused ==
    \A i, j \in DOMAIN log :
        i < j /\ log[i].to = log[j].to /\ log[i] # Malformed
            => log[i].attempt < log[j].attempt

EndsTerminal ==
    /\ log # <<>>
    /\ log[Len(log)].to \in Terminal

(* A row that enters DONE or FAILED is the last of its log: no failed      *)
(* write, crash or replay lets a run go on after it.                       *)
TerminalIsFinal == [][EndsTerminal => log' = log]_vars
=============================================================================
