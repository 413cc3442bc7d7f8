--------------------------- MODULE WorkflowStates ---------------------------
(***************************************************************************)
(* The nine workflow states, the transition table and the rows of the      *)
(* per-run log, from autofix/workflow/state_machine.py.  A row keeps the   *)
(* fields the replay validates: from_state, to_state and attempt.          *)
(***************************************************************************)
EXTENDS Naturals, Sequences

State == {"SCANNING", "TRIAGING", "PLANNING", "APPLYING", "VERIFYING",
          "DONE", "RETRY", "HUMAN_REVIEW", "FAILED"}

None == "None"          \* from_state of the row the constructor writes

Transitions ==
    [SCANNING     |-> {"TRIAGING", "FAILED"},
     TRIAGING     |-> {"PLANNING", "HUMAN_REVIEW", "FAILED"},
     PLANNING     |-> {"APPLYING", "HUMAN_REVIEW", "FAILED"},
     APPLYING     |-> {"VERIFYING", "RETRY", "HUMAN_REVIEW", "FAILED"},
     VERIFYING    |-> {"DONE", "RETRY", "HUMAN_REVIEW", "FAILED"},
     RETRY        |-> {"TRIAGING", "PLANNING", "APPLYING", "FAILED"},
     HUMAN_REVIEW |-> {"PLANNING", "APPLYING", "DONE", "FAILED"},
     DONE         |-> {},
     FAILED       |-> {}]

(* The states with no outgoing edge: DONE and FAILED. *)
Terminal == {s \in State : Transitions[s] = {}}

Row == [from : State \cup {None}, to : State, attempt : Nat]

InitialRow == [from |-> None, to |-> "SCANNING", attempt |-> 1]

(***************************************************************************)
(* A line json.loads rejects: the prefix of a row, or two rows run         *)
(* together.  It has the shape of a row so that a log is a sequence of one *)
(* kind of element.                                                        *)
(***************************************************************************)
Malformed == [from |-> None, to |-> None, attempt |-> 0]

Line == Row \cup {Malformed}

(* from_log accepts exactly these sequences of lines. *)
Replayable(lines) ==
    /\ lines # <<>>
    /\ \A i \in DOMAIN lines : lines[i] # Malformed
    /\ lines[1].from = None /\ lines[1].to = "SCANNING"
    /\ \A i \in 2..Len(lines) :
          /\ lines[i].from = lines[i-1].to
          /\ lines[i].to \in Transitions[lines[i].from]

(* The highest attempt persisted for state s, 0 when it was never entered. *)
PersistedAttempt(lines, s) ==
    IF \E i \in DOMAIN lines : lines[i].to = s
    THEN CHOOSE n \in {lines[i].attempt : i \in {j \in DOMAIN lines : lines[j].to = s}} :
            \A i \in DOMAIN lines : lines[i].to = s => lines[i].attempt <= n
    ELSE 0
=============================================================================
