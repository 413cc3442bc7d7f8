-------------------------- MODULE WorkflowLogProofs --------------------------
(***************************************************************************)
(* The invariants of WorkflowLog for every bound: a log of any length, any *)
(* number of attempts, and every sequence of torn and failed writes,       *)
(* crashes and replays.                                                    *)
(***************************************************************************)
EXTENDS WorkflowLog, TLAPS, WellFoundedInduction

(* A counter of a live instance is at least every attempt on disk. *)
CountersCover ==
    live => \A i \in DOMAIN log :
                log[i] # Malformed => log[i].attempt <= attempts[log[i].to]

(* The log a crash left behind replays, unless a line of it is torn. *)
DeadLogReplays == ~live /\ log # <<>> /\ Intact => Replayable(log)

(* The last row on disk, when it is whole, is the one that led here. *)
LastRowIsCurrent ==
    live /\ log # <<>> /\ log[Len(log)] # Malformed
        => log[Len(log)].to = currentState

(* The inductive invariant. *)
IInv ==
    /\ TypeOK /\ HistoryIsLegal /\ LogIsHistory /\ AttemptsNeverReused
    /\ CountersCover /\ DeadLogReplays /\ LastRowIsCurrent
-----------------------------------------------------------------------------
(* None is the name of no state, so a torn line enters no state. *)
LEMMA MalformedFacts ==
    /\ None \notin State
    /\ Malformed.to = None /\ Malformed \notin Row
    /\ \A l \in Line : l # Malformed => l \in Row
    /\ \A l \in Line : l.to \in State => l \in Row
    /\ \A l \in Line : l.attempt \in Nat
BY DEF Malformed, Line, Row, State, None

(* The transition table maps states to sets of states. *)
LEMMA TransitionsType == \A s \in State : Transitions[s] \subseteq State
BY DEF Transitions, State

(* A replayable history stays replayable when a legal row is appended. *)
LEMMA ReplayableAppend ==
    ASSUME NEW h \in Seq(Row), Replayable(h), NEW r \in Row,
           r.from = h[Len(h)].to, r.to \in Transitions[r.from]
    PROVE  Replayable(Append(h, r))
<1> DEFINE g == Append(h, r)
<1>1. Len(h) \in Nat /\ Len(h) >= 1 /\ Len(g) = Len(h) + 1
  BY DEF Replayable
<1>2. \A i \in 1..Len(h) : g[i] = h[i]
  BY <1>1
<1>3. g[Len(h) + 1] = r
  BY <1>1
<1>4. r # Malformed
  BY MalformedFacts
<1>5. \A i \in 2..Len(g) : g[i].from = g[i-1].to /\ g[i].to \in Transitions[g[i].from]
  <2> SUFFICES ASSUME NEW i \in 2..Len(g)
               PROVE  g[i].from = g[i-1].to /\ g[i].to \in Transitions[g[i].from]
    OBVIOUS
  <2>1. CASE i = Len(g)
    BY <2>1, <1>1, <1>2, <1>3
  <2>2. CASE i # Len(g)
    <3>1. i \in 2..Len(h) /\ i \in 1..Len(h) /\ i - 1 \in 1..Len(h)
      BY <2>2, <1>1
    <3> QED
      BY <3>1, <1>2 DEF Replayable
  <2> QED
    BY <2>1, <2>2
<1>6. g # <<>> /\ \A i \in DOMAIN g : g[i] # Malformed
  BY <1>1, <1>2, <1>3, <1>4 DEF Replayable
<1> HIDE DEF g
<1>7. g[1].from = None /\ g[1].to = "SCANNING"
  BY <1>1, <1>2 DEF Replayable
<1> QED
  BY <1>5, <1>6, <1>7 DEF Replayable, g

(* A set of positions of a finite sequence has a last one. *)
LEMMA LastPosition ==
    ASSUME NEW n \in Nat, NEW T, T \subseteq 1..n, T # {}
    PROVE  \E k \in T : \A j \in T : j <= k
<1> DEFINE D == {d \in Nat : n - d \in T}
<1>1. D \subseteq Nat /\ D # {}
  <2>1. PICK k \in T : TRUE
    OBVIOUS
  <2>2. n - k \in Nat /\ n - (n - k) = k
    BY <2>1
  <2> QED
    BY <2>1, <2>2
<1>2. PICK d \in D : \A e \in D : ~(<<e, d>> \in OpToRel(<, Nat))
  <2> HIDE DEF D
  <2> QED
    BY <1>1, NatLessThanWellFounded, WFMin
<1>3. \A e \in D : ~(e < d)
  BY <1>1, <1>2 DEF OpToRel
<1>4. n - d \in T
  OBVIOUS
<1>5. \A j \in T : j <= n - d
  <2> TAKE j \in T
  <2>1. n - j \in Nat /\ n - (n - j) = j
    OBVIOUS
  <2>2. n - j \in D
    BY <2>1
  <2>3. ~(n - j < d)
    BY <2>2, <1>3
  <2> QED
    BY <2>1, <2>3
<1> QED
  BY <1>4, <1>5

(* from_log rebuilds, for each state, a counter that no row exceeds: the   *)
(* attempts of one state grow along the log, so its last row has the       *)
(* highest.                                                                *)
LEMMA PersistedAttemptCovers ==
    ASSUME NEW lines \in Seq(Row), NEW s \in State,
           \A i, j \in DOMAIN lines :
               i < j /\ lines[i].to = lines[j].to => lines[i].attempt < lines[j].attempt
    PROVE  /\ PersistedAttempt(lines, s) \in Nat
           /\ \A i \in DOMAIN lines :
                  lines[i].to = s => lines[i].attempt <= PersistedAttempt(lines, s)
<1> DEFINE T == {j \in DOMAIN lines : lines[j].to = s}
           A == {lines[i].attempt : i \in T}
           top(n) == \A i \in DOMAIN lines : lines[i].to = s => lines[i].attempt <= n
<1>1. CASE T = {}
  BY <1>1 DEF PersistedAttempt
<1>2. CASE T # {}
  <2>1. Len(lines) \in Nat /\ T \subseteq 1..Len(lines)
    OBVIOUS
  <2>2. PICK k \in T : \A j \in T : j <= k
    <3> HIDE DEF T
    <3> QED
      BY <2>1, <1>2, LastPosition
  <2>3. \A i \in DOMAIN lines : lines[i].attempt \in Nat
    <3>1. \A i \in DOMAIN lines : lines[i] \in Row
      OBVIOUS
    <3>2. \A r \in Row : r.attempt \in Nat
      BY DEF Row
    <3> QED
      BY <3>1, <3>2
  <2>4. top(lines[k].attempt)
    <3> SUFFICES ASSUME NEW i \in DOMAIN lines, lines[i].to = s
                 PROVE  lines[i].attempt <= lines[k].attempt
      OBVIOUS
    <3>1. i \in T /\ i <= k /\ i \in Nat /\ k \in Nat /\ k \in DOMAIN lines
      BY <2>1, <2>2
    <3>2. CASE i = k
      BY <3>2, <3>1, <2>3
    <3>3. CASE i < k
      BY <3>3, <3>1, <2>2, <2>3
    <3> QED
      BY <3>1, <3>2, <3>3
  <2>5. lines[k].attempt \in A
    BY <2>2
  <2>6. PersistedAttempt(lines, s) = CHOOSE n \in A : top(n)
    BY <1>2 DEF PersistedAttempt
  <2>7. (CHOOSE n \in A : top(n)) \in A /\ top(CHOOSE n \in A : top(n))
    <3> HIDE DEF A, top
    <3> QED
      BY <2>4, <2>5
  <2>8. A \subseteq Nat
    BY <2>3
  <2> QED
    BY <2>6, <2>7, <2>8
<1> QED
  BY <1>1, <1>2
-----------------------------------------------------------------------------
(* What an append does to the lines, whatever its outcome: the last line   *)
(* is new or torn, and every other line is the old one.                    *)
LEMMA AppendedFacts ==
    ASSUME TypeOK, NEW row \in Row, NEW outcome \in Written
    PROVE  LET new == Appended(row, outcome) IN
           /\ new \in Seq(Line) /\ Len(new) <= Len(log) + 1 /\ new # <<>>
           /\ \A i \in DOMAIN new : i = Len(new) \/ (i \in DOMAIN log /\ new[i] = log[i])
           /\ new[Len(new)] \in {row, Malformed}
           /\ new[Len(new)] # Malformed => new = Append(log, row)
           /\ terminated => Len(new) = Len(log) + 1
           /\ ~terminated => new[Len(new)] = Malformed
<1> DEFINE line == IF outcome = "cut" THEN Malformed ELSE row
<1>1. log \in Seq(Line) /\ Len(log) \in Nat /\ line \in Line /\ Malformed \in Line /\ row \in Line
  BY DEF TypeOK, Line
<1>2. CASE terminated
  <2>1. Appended(row, outcome) = Append(log, line)
    BY <1>2 DEF Appended
  <2>2. line \in {row, Malformed} /\ (line # Malformed => line = row)
    OBVIOUS
  <2> HIDE DEF line
  <2> QED
    BY <1>1, <1>2, <2>1, <2>2
<1>3. CASE ~terminated
  <2>1. log # <<>> /\ Len(log) >= 1
    BY <1>1, <1>3 DEF TypeOK
  <2>2. Appended(row, outcome) = [log EXCEPT ![Len(log)] = Malformed]
    BY <1>3 DEF Appended
  <2> QED
    BY <1>1, <1>3, <2>1, <2>2
<1> QED
  BY <1>2, <1>3 DEF TypeOK

(* A legal transition writes a row that continues the history.             *)
LEMMA NextRowFacts ==
    ASSUME IInv, NEW to \in State, CanTransition(to)
    PROVE  /\ NextRow(to) \in Row /\ NextRow(to) # Malformed
           /\ NextRow(to).to = to /\ NextRow(to).attempt = attempts[to] + 1
           /\ Append(history, NextRow(to)) \in Seq(Row)
           /\ Replayable(Append(history, NextRow(to)))
           /\ LET h == Append(history, NextRow(to)) IN h[Len(h)].to = to
<1>1. /\ live /\ to \in Transitions[currentState]
      /\ history \in Seq(Row) /\ Replayable(history)
      /\ history[Len(history)].to = currentState
      /\ currentState \in State /\ attempts[to] \in Nat
  BY DEF IInv, TypeOK, HistoryIsLegal, CanTransition
<1>2. /\ NextRow(to) \in Row /\ NextRow(to).from = currentState
      /\ NextRow(to).to = to /\ NextRow(to).attempt = attempts[to] + 1
  BY <1>1 DEF NextRow, NextAttempt, Row
<1>3. NextRow(to) # Malformed
  BY <1>2, MalformedFacts
<1>4. Replayable(Append(history, NextRow(to)))
  BY <1>1, <1>2, ReplayableAppend
<1>5. /\ Append(history, NextRow(to)) \in Seq(Row)
      /\ LET h == Append(history, NextRow(to)) IN h[Len(h)] = NextRow(to)
  BY <1>1, <1>2
<1> QED
  BY <1>2, <1>3, <1>4, <1>5

(* The log after the write of a transition's row, whole or torn.           *)
LEMMA AppendStep ==
    ASSUME IInv, NEW to \in State, NEW outcome \in Written,
           CanTransition(to), AppendRow(NextRow(to), outcome)
    PROVE  /\ log' \in Seq(Line) /\ Len(log') <= MaxLines /\ log' # <<>>
           /\ terminated' \in BOOLEAN
           /\ AttemptsNeverReused'
           /\ \A i \in DOMAIN log' : log'[i] # Malformed =>
                 log'[i].attempt <= [attempts EXCEPT ![to] = NextAttempt(to)][log'[i].to]
           /\ Intact' => log' = Append(history, NextRow(to))
           /\ log'[Len(log')] # Malformed => log'[Len(log')].to = to
<1> DEFINE row == NextRow(to)
           bumped == [attempts EXCEPT ![to] = NextAttempt(to)]
<1>1. row \in Row /\ row # Malformed /\ row.to = to /\ row.attempt = attempts[to] + 1
  BY NextRowFacts
<1>2. log' = Appended(row, outcome) /\ terminated' \in BOOLEAN
  BY DEF AppendRow
<1>3. TypeOK /\ live /\ Len(log) < MaxLines
  BY DEF IInv, CanTransition
<1> HIDE DEF row
<1>4. /\ log' \in Seq(Line) /\ Len(log') <= Len(log) + 1 /\ log' # <<>>
      /\ \A i \in DOMAIN log' : i = Len(log') \/ (i \in DOMAIN log /\ log'[i] = log[i])
      /\ log'[Len(log')] \in {row, Malformed}
      /\ log'[Len(log')] # Malformed => log' = Append(log, row)
      /\ ~terminated => log'[Len(log')] = Malformed
  BY <1>1, <1>2, <1>3, AppendedFacts
<1>5. MaxLines \in Nat /\ Len(log) \in Nat /\ attempts \in [State -> Nat] /\ log \in Seq(Line)
  BY <1>3, BoundsAssumption DEF TypeOK
<1>6. \A i \in DOMAIN log : log[i] # Malformed =>
          /\ log[i] \in Row /\ log[i].to \in State /\ log[i].attempt \in Nat
          /\ log[i].attempt <= attempts[log[i].to]
  <2>1. \A r \in Row : r.to \in State /\ r.attempt \in Nat
    BY DEF Row
  <2>2. \A i \in DOMAIN log : log[i] \in Line
    BY <1>5
  <2> QED
    BY <2>1, <2>2, <1>3, MalformedFacts DEF IInv, CountersCover
<1>7. \A i \in DOMAIN log' : log'[i] # Malformed => log'[i].attempt <= bumped[log'[i].to]
  <2> SUFFICES ASSUME NEW i \in DOMAIN log', log'[i] # Malformed
               PROVE  log'[i].attempt <= bumped[log'[i].to]
    OBVIOUS
  <2>1. CASE i = Len(log')
    BY <2>1, <1>1, <1>4, <1>5 DEF NextAttempt
  <2>2. CASE i # Len(log')
    <3>1. i \in DOMAIN log /\ log'[i] = log[i]
      BY <2>2, <1>4
    <3>2. bumped[log[i].to] >= attempts[log[i].to]
      BY <3>1, <1>5, <1>6 DEF NextAttempt
    <3>3. bumped[log[i].to] \in Nat /\ attempts[log[i].to] \in Nat
      BY <3>1, <1>5, <1>6 DEF NextAttempt
    <3> HIDE DEF bumped
    <3> QED
      BY <3>1, <3>2, <3>3, <1>6
  <2> QED
    BY <2>1, <2>2
<1>8. AttemptsNeverReused'
  <2> SUFFICES ASSUME NEW i \in DOMAIN log', NEW j \in DOMAIN log', i < j,
                      log'[i].to = log'[j].to, log'[i] # Malformed
               PROVE  log'[i].attempt < log'[j].attempt
    BY DEF AttemptsNeverReused
  <2>1. i # Len(log') /\ i \in DOMAIN log /\ log'[i] = log[i] /\ log[i] \in Row
    BY <1>4, <1>6
  <2>2. CASE j # Len(log')
    <3>1. j \in DOMAIN log /\ log'[j] = log[j]
      BY <2>2, <1>4
    <3> QED
      BY <3>1, <2>1 DEF IInv, AttemptsNeverReused
  <2>3. CASE j = Len(log')
    <3>1. log'[j] # Malformed
      BY <2>1, MalformedFacts, <1>6
    <3>2. log'[j] = row
      BY <3>1, <2>3, <1>4
    <3>3. log[i].attempt \in Nat /\ log[i].attempt <= attempts[to] /\ attempts[to] \in Nat
      BY <3>2, <2>1, <1>1, <1>5, <1>6
    <3> QED
      BY <3>2, <3>3, <2>1, <1>1
  <2> QED
    BY <2>2, <2>3
<1>9. Intact' => log' = Append(history, row)
  <2> SUFFICES ASSUME Intact'
               PROVE  log' = Append(history, row)
    OBVIOUS
  <2>1. log'[Len(log')] # Malformed
    BY <1>4 DEF Intact
  <2>2. log' = Append(log, row)
    BY <2>1, <1>4
  <2>3. \A i \in DOMAIN log : i \in DOMAIN log' /\ log'[i] = log[i]
    BY <2>2, <1>1, <1>5
  <2>4. Intact
    BY <2>3 DEF Intact
  <2> QED
    BY <2>2, <2>4, <1>3 DEF IInv, LogIsHistory
<1> QED
  BY <1>1, <1>2, <1>3, <1>4, <1>5, <1>7, <1>8, <1>9 DEF row
-----------------------------------------------------------------------------
(* A machine that is not there has the values of the initial state. *)
LEMMA BlankType ==
    /\ "SCANNING" \in State /\ <<>> \in Seq(Row) /\ <<>> \in Seq(Line)
    /\ [s \in State |-> 0] \in [State -> Nat]
<1>1. "SCANNING" \in State
  BY DEF State
<1> QED
  BY <1>1

(* There is no log and no instance at first. *)
LEMMA InitIInv == Init => IInv
<1> SUFFICES ASSUME Init
             PROVE  IInv
  OBVIOUS
<1>1. TypeOK
  <2>1. log \in Seq(Line) /\ Len(log) <= MaxLines /\ history \in Seq(Row)
    BY BoundsAssumption, BlankType DEF Init
  <2>2. attempts \in [State -> Nat] /\ currentState \in State
    BY BlankType DEF Init
  <2>3. terminated = TRUE /\ live = FALSE
    BY DEF Init
  <2> QED
    BY <2>1, <2>2, <2>3 DEF TypeOK
<1> QED
  BY <1>1 DEF Init, IInv, HistoryIsLegal, LogIsHistory, AttemptsNeverReused,
              CountersCover, DeadLogReplays, LastRowIsCurrent

(* The constructor starts a log of one line.                               *)
LEMMA ConstructPreserves ==
    ASSUME IInv, NEW outcome \in Written, Construct(outcome)
    PROVE  IInv'
<1> DEFINE line == IF outcome = "cut" THEN Malformed ELSE InitialRow
<1>1. /\ InitialRow \in Row /\ InitialRow # Malformed
      /\ InitialRow.from = None /\ InitialRow.to = "SCANNING" /\ InitialRow.attempt = 1
  BY DEF InitialRow, Row, State, Malformed, None
<1>2. log = <<>> /\ terminated /\ MaxLines \in Nat /\ MaxLines > 0
  BY BoundsAssumption DEF Construct, IInv, TypeOK
<1>3. log' = <<line>> /\ terminated' \in BOOLEAN /\ live'
      /\ currentState' = "SCANNING" /\ history' = <<InitialRow>>
      /\ attempts' = [s \in State |-> IF s = "SCANNING" THEN 1 ELSE 0]
  BY <1>2 DEF Construct, AppendRow, Appended
<1>4. line \in {InitialRow, Malformed} /\ line \in Line
  BY <1>1 DEF Line
<1> HIDE DEF line
<1>5. "SCANNING" \in State
  BY DEF State
<1>6. TypeOK'
  BY <1>1, <1>2, <1>3, <1>4, <1>5 DEF TypeOK
<1>7. Replayable(history') /\ HistoryIsLegal'
  BY <1>1, <1>3 DEF HistoryIsLegal, Replayable
<1>8. LogIsHistory'
  BY <1>3, <1>4, <1>7 DEF LogIsHistory, Intact
<1>9. AttemptsNeverReused' /\ DeadLogReplays'
  BY <1>3 DEF AttemptsNeverReused, DeadLogReplays
<1>10. CountersCover' /\ LastRowIsCurrent'
  BY <1>1, <1>3, <1>4, <1>5 DEF CountersCover, LastRowIsCurrent
<1> QED
  BY <1>6, <1>7, <1>8, <1>9, <1>10 DEF IInv

(* A transition whose row was written, whole or torn.                      *)
LEMMA TransitionPreserves ==
    ASSUME IInv, NEW to \in State, NEW outcome \in Written, Transition(to, outcome)
    PROVE  IInv'
<1>1. CanTransition(to) /\ AppendRow(NextRow(to), outcome)
  BY DEF Transition
<1>2. /\ history' = Append(history, NextRow(to)) /\ currentState' = to
      /\ attempts' = [attempts EXCEPT ![to] = NextAttempt(to)]
      /\ live /\ live' = live
  BY <1>1 DEF Transition, CanTransition
<1>3. /\ log' \in Seq(Line) /\ Len(log') <= MaxLines /\ log' # <<>>
      /\ terminated' \in BOOLEAN /\ AttemptsNeverReused'
      /\ \A i \in DOMAIN log' : log'[i] # Malformed =>
            log'[i].attempt <= attempts'[log'[i].to]
      /\ Intact' => log' = history'
      /\ log'[Len(log')] # Malformed => log'[Len(log')].to = to
  BY <1>1, <1>2, AppendStep
<1>4. /\ history' \in Seq(Row) /\ Replayable(history')
      /\ history'[Len(history')].to = to
  BY <1>1, <1>2, NextRowFacts
<1>5. attempts' \in [State -> Nat]
  BY <1>2 DEF IInv, TypeOK, NextAttempt
<1>6. TypeOK'
  BY <1>2, <1>3, <1>4, <1>5 DEF TypeOK, IInv
<1>7. HistoryIsLegal' /\ LogIsHistory'
  BY <1>2, <1>3, <1>4 DEF HistoryIsLegal, LogIsHistory
<1>8. CountersCover' /\ DeadLogReplays' /\ LastRowIsCurrent'
  BY <1>2, <1>3 DEF CountersCover, DeadLogReplays, LastRowIsCurrent
<1> QED
  BY <1>3, <1>6, <1>7, <1>8 DEF IInv

(* A transition whose write raised: only the counter is ahead.             *)
LEMMA TransitionFailsPreserves ==
    ASSUME IInv, NEW to \in State, TransitionFails(to)
    PROVE  IInv'
<1>1. /\ attempts \in [State -> Nat] /\ log \in Seq(Line)
      /\ attempts' = [attempts EXCEPT ![to] = attempts[to] + 1]
      /\ UNCHANGED <<log, terminated, live, currentState, history>>
  BY DEF TransitionFails, NextAttempt, IInv, TypeOK
<1>2. TypeOK'
  BY <1>1 DEF TypeOK, IInv
<1>3. CountersCover'
  <2> SUFFICES ASSUME live, NEW i \in DOMAIN log, log[i] # Malformed
               PROVE  log[i].attempt <= attempts'[log[i].to]
    BY <1>1 DEF CountersCover
  <2>1. log[i] \in Line
    BY <1>1
  <2>2. log[i] \in Row
    BY <2>1, MalformedFacts
  <2>3. log[i].to \in State /\ log[i].attempt \in Nat
    BY <2>2 DEF Row
  <2>4. log[i].attempt <= attempts[log[i].to]
    BY DEF IInv, CountersCover
  <2> QED
    BY <2>3, <2>4, <1>1
<1>4. HistoryIsLegal' /\ LogIsHistory' /\ AttemptsNeverReused'
  BY <1>1 DEF IInv, HistoryIsLegal, LogIsHistory, AttemptsNeverReused, Intact
<1>5. DeadLogReplays' /\ LastRowIsCurrent'
  BY <1>1 DEF IInv, DeadLogReplays, LastRowIsCurrent, Intact
<1> QED
  BY <1>2, <1>3, <1>4, <1>5 DEF IInv

(* A crash, in or out of a write, forgets the memory and keeps the log. *)
LEMMA CrashPreserves ==
    ASSUME IInv, Crash
    PROVE  IInv'
<1>1. /\ live /\ live' = FALSE /\ log' = log /\ terminated' = terminated
      /\ currentState' = "SCANNING" /\ history' = <<>>
      /\ attempts' = [s \in State |-> 0]
  BY DEF Crash, Forget
<1>2. TypeOK'
  <2>1. history' \in Seq(Row) /\ currentState' \in State
    BY <1>1, BlankType
  <2>2. attempts' \in [State -> Nat]
    BY <1>1, BlankType
  <2> QED
    BY <1>1, <2>1, <2>2 DEF IInv, TypeOK
<1>3. DeadLogReplays'
  BY <1>1 DEF IInv, DeadLogReplays, LogIsHistory, Intact
<1> QED
  BY <1>1, <1>2, <1>3 DEF IInv, HistoryIsLegal, LogIsHistory, AttemptsNeverReused,
                          CountersCover, LastRowIsCurrent

(* The process dies with the row of a transition written, whole or torn.   *)
LEMMA CrashInWritePreserves ==
    ASSUME IInv, NEW to \in State, NEW outcome \in Written, CrashInWrite(to, outcome)
    PROVE  IInv'
<1>1. CanTransition(to) /\ AppendRow(NextRow(to), outcome)
  BY DEF CrashInWrite
<1>2. /\ live' = FALSE /\ currentState' = "SCANNING" /\ history' = <<>>
      /\ attempts' = [s \in State |-> 0]
  BY DEF CrashInWrite, Forget
<1>3. /\ log' \in Seq(Line) /\ Len(log') <= MaxLines /\ log' # <<>>
      /\ terminated' \in BOOLEAN /\ AttemptsNeverReused'
      /\ Intact' => log' = Append(history, NextRow(to))
  BY <1>1, AppendStep
<1>4. Replayable(Append(history, NextRow(to)))
  BY <1>1, NextRowFacts
<1>5. TypeOK'
  <2>1. history' \in Seq(Row) /\ currentState' \in State
    BY <1>2, BlankType
  <2>2. attempts' \in [State -> Nat]
    BY <1>2, BlankType
  <2> QED
    BY <1>2, <1>3, <2>1, <2>2 DEF TypeOK
<1>6. DeadLogReplays'
  BY <1>3, <1>4 DEF DeadLogReplays
<1> QED
  BY <1>2, <1>3, <1>5, <1>6 DEF IInv, HistoryIsLegal, LogIsHistory, CountersCover, LastRowIsCurrent

(* The replay: the log becomes the history.                                *)
LEMMA FromLogPreserves ==
    ASSUME IInv, FromLog
    PROVE  IInv'
<1>1. /\ Replayable(log) /\ live' /\ currentState' = log[Len(log)].to
      /\ history' = log /\ log' = log /\ terminated' = terminated
      /\ attempts' = [s \in State |-> PersistedAttempt(log, s)]
  BY DEF FromLog
<1>2. log \in Seq(Line) /\ Len(log) \in Nat /\ log # <<>>
  BY <1>1 DEF IInv, TypeOK, Replayable
<1>3. \A i \in DOMAIN log : log[i] \in Row /\ log[i] # Malformed
  BY <1>1, <1>2, MalformedFacts DEF Replayable
<1>4. log \in Seq(Row)
  BY <1>2, <1>3
<1>5. \A i, j \in DOMAIN log :
          i < j /\ log[i].to = log[j].to => log[i].attempt < log[j].attempt
  BY <1>3 DEF IInv, AttemptsNeverReused
<1>6. \A s \in State :
          /\ PersistedAttempt(log, s) \in Nat
          /\ \A i \in DOMAIN log : log[i].to = s => log[i].attempt <= PersistedAttempt(log, s)
  BY <1>4, <1>5, PersistedAttemptCovers
<1>7. \A r \in Row : r.to \in State
  BY DEF Row
<1>8. TypeOK'
  BY <1>1, <1>2, <1>3, <1>4, <1>6, <1>7 DEF IInv, TypeOK
<1>9. CountersCover'
  BY <1>1, <1>3, <1>6, <1>7 DEF CountersCover
<1>10. HistoryIsLegal' /\ LogIsHistory' /\ AttemptsNeverReused'
  BY <1>1 DEF IInv, HistoryIsLegal, LogIsHistory, AttemptsNeverReused, Intact
<1>11. DeadLogReplays' /\ LastRowIsCurrent'
  BY <1>1 DEF DeadLogReplays, LastRowIsCurrent
<1> QED
  BY <1>8, <1>9, <1>10, <1>11 DEF IInv

(* Every step of StateMachine preserves the inductive invariant. *)
LEMMA NextPreserves == IInv /\ [Next]_vars => IInv'
<1> SUFFICES ASSUME IInv, [Next]_vars
             PROVE  IInv'
  OBVIOUS
<1>1. ASSUME NEW o \in Written, Construct(o) PROVE IInv'
  BY <1>1, ConstructPreserves
<1>2. ASSUME NEW to \in State, NEW o \in Written, Transition(to, o) PROVE IInv'
  BY <1>2, TransitionPreserves
<1>3. ASSUME NEW to \in State, TransitionFails(to) PROVE IInv'
  BY <1>3, TransitionFailsPreserves
<1>4. CASE Crash
  BY <1>4, CrashPreserves
<1>5. ASSUME NEW to \in State, NEW o \in Written, CrashInWrite(to, o) PROVE IInv'
  BY <1>5, CrashInWritePreserves
<1>6. CASE FromLog
  BY <1>6, FromLogPreserves
<1>7. CASE UNCHANGED vars
  BY <1>7 DEF vars, IInv, TypeOK, HistoryIsLegal, LogIsHistory, Intact, AttemptsNeverReused,
              CountersCover, DeadLogReplays, LastRowIsCurrent
<1> QED
  BY <1>1, <1>2, <1>3, <1>4, <1>5, <1>6, <1>7 DEF Next

(* The inductive invariant holds in every reachable state.                 *)
THEOREM Invariance == Spec => []IInv
<1>1. Init => IInv
  BY InitIInv
<1>2. IInv /\ [Next]_vars => IInv'
  BY NextPreserves
<1> QED
  BY <1>1, <1>2, PTL DEF Spec

(* Every variable keeps its type (transition, _append_row, from_log).      *)
THEOREM TypeCorrect == Spec => []TypeOK
<1>1. IInv => TypeOK
  BY DEF IInv
<1> QED
  BY <1>1, Invariance, PTL

(* The history of a live StateMachine is a path of the transition table    *)
(* from SCANNING to its current state.                                     *)
THEOREM HistoryLegal == Spec => []HistoryIsLegal
<1>1. IInv => HistoryIsLegal
  BY DEF IInv
<1> QED
  BY <1>1, Invariance, PTL

(* Unless a line was torn, state.jsonl replays to the live history.        *)
THEOREM LogMatchesHistory == Spec => []LogIsHistory
<1>1. IInv => LogIsHistory
  BY DEF IInv
<1> QED
  BY <1>1, Invariance, PTL

(* Attempt numbers on disk are never reused, whatever failed or crashed.   *)
THEOREM AttemptsGrow == Spec => []AttemptsNeverReused
<1>1. IInv => AttemptsNeverReused
  BY DEF IInv
<1> QED
  BY <1>1, Invariance, PTL

(* A log whose last row enters DONE or FAILED never changes again.         *)
THEOREM TerminalFinal == Spec => TerminalIsFinal
<1>1. IInv /\ [Next]_vars => [EndsTerminal => log' = log]_vars
  <2> SUFFICES ASSUME IInv, [Next]_vars, EndsTerminal
               PROVE  log' = log
    OBVIOUS
  <2>1. log # <<>> /\ log[Len(log)].to \in State /\ Transitions[log[Len(log)].to] = {}
    BY DEF EndsTerminal, Terminal
  <2>2. log[Len(log)] # Malformed
    BY <2>1, MalformedFacts
  <2>3. live => log[Len(log)].to = currentState
    BY <2>1, <2>2 DEF IInv, LastRowIsCurrent
  <2>4. \A to \in State : ~CanTransition(to)
    BY <2>1, <2>3 DEF CanTransition
  <2> QED
    BY <2>1, <2>4 DEF Next, Construct, Transition, TransitionFails, Crash, CrashInWrite,
                      FromLog, vars
<1> QED
  BY <1>1, Invariance, PTL DEF Spec, TerminalIsFinal
=============================================================================
