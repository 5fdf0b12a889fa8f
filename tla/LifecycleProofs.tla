------------------------- MODULE LifecycleProofs --------------------------
(***************************************************************************)
(* The processes of one user, for every number of devices, pids and        *)
(* starts: what the status command may answer, and what a teardown leaves. *)
(* The invariant says how the status file, the pids and the numbers of the *)
(* starts belong together, and when the unit has a daemon.                 *)
(***************************************************************************)
EXTENDS Lifecycle, TLAPS

ProcessType ==
    /\ device \in [Pid -> Device \cup {None}]
    /\ born \in [Pid -> 0..MaxStarts]
    /\ starts \in 0..MaxStarts
    /\ byHand \subseteq 1..MaxStarts
    /\ managed \in Running \cup {NoPid}

ReportType ==
    /\ status \in Record \cup {NoStatus}
    /\ asked \in [stage : {"none", "read", "check", "answered"}, config : Device \cup {None},
                  status : Record \cup {NoStatus}, stale : BOOLEAN, live : BOOLEAN]

\* Starts are numbered in order: a running daemon has a number, none is above the last.
Numbered ==
    /\ \A p \in Pid : born[p] <= starts /\ (p \in Running => born[p] >= 1)
    /\ byHand \subseteq 1..starts

\* A record names a start its pid has had, the last one or an earlier one.
Dated(r) == r # NoStatus => r.born <= born[r.pid]

\* Only the unit's daemon was not started by hand, the unit runs as long as it does,
\* and the file is its own unless one that was wrote it.
UnitOwns ==
    /\ managed # NoPid => unit = "running"
    /\ \A p \in Running : born[p] \notin byHand => p = managed
    /\ status # NoStatus /\ status.born \notin byHand => status.pid = managed

\* A teardown undisturbed until it erases the configuration, or after that, has stopped
\* the unit.
UnitStopped ==
    op = "teardown" /\ ~loose /\ (stage = "erase" \/ (stage = "idle" /\ result = "complete")) =>
        unit = "stopped"

ProcessInv ==
    /\ LifecycleTypeOK
    /\ Numbered
    /\ Dated(status) /\ Dated(asked.status)
    /\ UnitOwns
    /\ UnitStopped

-----------------------------------------------------------------------------
(* The commands *)

LEMMA TransactionTypeInit == Init => TransactionTypeOK
BY DEF Init, TransactionTypeOK, Holder

\* Every step of a command keeps the types of what it works on.
LEMMA TransactionTypeNext == TransactionTypeOK /\ [Next]_transactionVars => TransactionTypeOK'
<1> SUFFICES ASSUME TransactionTypeOK, [Next]_transactionVars
             PROVE  TransactionTypeOK'
  OBVIOUS
<1> USE DEF TransactionTypeOK
<1>1. Slips => config' \in Device \cup {None} /\ loose' \in BOOLEAN
  BY DEF Slips
<1>2. \A h \in Holder : Leaves(h) \/ Replaces(h) => rules' \in Holder
  BY DEF Leaves, Replaces
<1>3. None \in Holder /\ target \in Holder
  BY DEF Holder
<1>4. CASE \E d \in Device : SetupBegins(d)
  BY <1>4 DEF SetupBegins, Begin
<1>5. CASE TeardownBegins
  BY <1>5 DEF TeardownBegins, Begin
<1>6. CASE Commit
  BY <1>2, <1>3, <1>6 DEF Commit, Exit
<1>7. CASE \E code \in Refusal : Refuse(code)
  BY <1>1, <1>2, <1>7 DEF Refuse, Exit
<1>8. CASE \E code \in {"cleanup-failed", "killed"} : Break(code)
  BY <1>1, <1>8 DEF Break, Exit
<1>9. CASE GiveUp
  BY <1>2, <1>3, <1>9 DEF GiveUp
<1>10. CASE GiveUpHalf
  BY <1>1, <1>10 DEF GiveUpHalf
<1>11. CASE Erase \/ Fail
  BY <1>11 DEF Erase, Fail, Exit
<1>12. CASE Slip
  BY <1>1, <1>12 DEF Slip
<1>13. CASE Disturb
  BY <1>13 DEF Disturb
<1>14. CASE UnitBegins
  BY <1>14 DEF UnitBegins
<1>15. CASE \E state \in {unit, "stopped"} : Stop(state)
  BY <1>15 DEF Stop
<1>16. CASE UNCHANGED transactionVars
  BY <1>16 DEF transactionVars
<1> QED
  BY <1>4, <1>5, <1>6, <1>7, <1>8, <1>9, <1>10, <1>11, <1>12, <1>13, <1>14, <1>15, <1>16
     DEF Next, Work

\* Setup and teardown keep the unit as it is, but for its stop and its start.
LEMMA UnitFrame == Work \/ Disturb => unit' = unit
BY DEF Work, Disturb, SetupBegins, TeardownBegins, Begin, Commit, Refuse, Break, GiveUp,
       GiveUpHalf, Erase, Fail, Slip

\* A teardown comes to erasing the configuration with the unit stopped, or disturbed.
LEMMA UnitStoppedNext == UnitStopped /\ [Next]_transactionVars => UnitStopped'
<1> SUFFICES ASSUME UnitStopped, [Next]_transactionVars
             PROVE  UnitStopped'
  OBVIOUS
<1> USE DEF UnitStopped
<1>1. CASE (\E d \in Device : SetupBegins(d)) \/ TeardownBegins
  BY <1>1 DEF SetupBegins, TeardownBegins, Begin
<1>2. CASE Commit \/ \E code \in Refusal : Refuse(code)
  BY <1>2 DEF Commit, Refuse
<1>3. CASE \E code \in {"cleanup-failed", "killed"} : Break(code)
  BY <1>3 DEF Break, Exit
<1>4. CASE GiveUp \/ GiveUpHalf
  BY <1>4 DEF GiveUp, GiveUpHalf
<1>5. CASE Erase \/ Fail
  BY <1>5 DEF Erase, Fail, Exit
<1>6. CASE Slip
  BY <1>6 DEF Slip, Slips
<1>7. CASE Disturb \/ UnitBegins
  BY <1>7 DEF Disturb, UnitBegins
<1>8. CASE \E state \in {unit, "stopped"} : Stop(state)
  BY <1>8 DEF Stop
<1>9. CASE UNCHANGED transactionVars
  BY <1>9 DEF transactionVars
<1> QED
  BY <1>1, <1>2, <1>3, <1>4, <1>5, <1>6, <1>7, <1>8, <1>9 DEF Next, Work

\* With its daemons a step is one of the commands, or leaves all to do with them alone.
LEMMA TransactionStep == [LifecycleNext]_allVars => [Next]_transactionVars
<1>1. Commands \/ TeardownStops => Next
  BY DEF Commands, TeardownStops, Next
<1>2. ASSUME NEW p \in Pid, StartUnit(p)
      PROVE  Next
  BY <1>2 DEF StartUnit, Next
<1>3. ASSUME NEW p \in Pid, StartByHand(p) \/ RestartUnit(p) \/ Publish(p) \/ DaemonEnds(p)
      PROVE  UNCHANGED transactionVars
  BY <1>3 DEF StartByHand, RestartUnit, Publish, DaemonEnds
<1>4. Ask \/ ReadStatus \/ Answer => UNCHANGED transactionVars
  BY DEF Ask, ReadStatus, Answer
<1> QED
  BY <1>1, <1>2, <1>3, <1>4 DEF LifecycleNext, allVars

-----------------------------------------------------------------------------
(* The daemons *)

LEMMA ProcessInit == LifecycleInit => ProcessInv
<1> SUFFICES ASSUME LifecycleInit
             PROVE  ProcessInv
  OBVIOUS
<1>1. TransactionTypeOK
  BY TransactionTypeInit DEF LifecycleInit
<1>2. Running = {}
  BY DEF LifecycleInit, Running
<1>3. ProcessType /\ ReportType
  BY ProcessAssumption DEF LifecycleInit, ProcessType, ReportType, NotAsked
<1>4. Numbered /\ Dated(status) /\ Dated(asked.status)
  BY <1>2 DEF LifecycleInit, Numbered, Dated, NotAsked
<1>5. UnitOwns /\ UnitStopped
  BY <1>2 DEF LifecycleInit, Init, UnitOwns, UnitStopped
<1> QED
  BY <1>1, <1>3, <1>4, <1>5 DEF ProcessInv, LifecycleTypeOK, ProcessType, ReportType

\* A start, by whomever: its number is new.
LEMMA StartKeeps ==
    ASSUME ProcessInv, NEW p \in Pid, Start(p)
    PROVE  /\ device' \in [Pid -> Device \cup {None}]
           /\ born' \in [Pid -> 0..MaxStarts] /\ starts' \in 0..MaxStarts
           /\ Running' = Running \cup {p} /\ p \notin Running
           /\ starts' = starts + 1 /\ starts \in Nat
           /\ born'[p] = starts + 1 /\ \A q \in Pid : q # p => born'[q] = born[q]
           /\ \A q \in Pid : born'[q] <= starts' /\ born'[q] >= born[q]
           /\ \A q \in Running' : born'[q] >= 1
<1>1. /\ config \in Device \cup {None} /\ MaxStarts \in Nat
      /\ device \in [Pid -> Device \cup {None}]
      /\ born \in [Pid -> 0..MaxStarts] /\ starts \in 0..MaxStarts
      /\ \A q \in Pid : born[q] <= starts /\ (q \in Running => born[q] >= 1)
  BY ProcessAssumption DEF ProcessInv, LifecycleTypeOK, TransactionTypeOK, Numbered
<1>2. /\ p \notin Running /\ config # None /\ starts < MaxStarts
      /\ starts' = starts + 1
      /\ device' = [device EXCEPT ![p] = config]
      /\ born' = [born EXCEPT ![p] = starts + 1]
  BY DEF Start
<1>3. Running' = Running \cup {p}
  BY <1>1, <1>2 DEF Running
<1>4. \A q \in Pid : born'[q] = IF q = p THEN starts + 1 ELSE born[q]
  BY <1>1, <1>2
<1>5. device' \in [Pid -> Device \cup {None}] /\ born' \in [Pid -> 0..MaxStarts]
  BY <1>1, <1>2
<1>6. \A q \in Pid : born[q] \in Nat
  BY <1>1
<1>7. \A q \in Running : q \in Pid
  BY DEF Running
<1> QED
  BY <1>1, <1>2, <1>3, <1>4, <1>5, <1>6, <1>7

\* A record that was dated stays so, as numbers only grow.
LEMMA DatedStays ==
    ASSUME ProcessInv, NEW r \in Record \cup {NoStatus}, Dated(r),
           \A q \in Pid : born'[q] \in Nat /\ born'[q] >= born[q]
    PROVE  r # NoStatus => r.born <= born'[r.pid]
<1> SUFFICES ASSUME r # NoStatus
             PROVE  r.born <= born'[r.pid]
  OBVIOUS
<1>1. r.pid \in Pid /\ r.born \in Nat
  BY DEF Record
<1>2. born[r.pid] \in Nat /\ r.born <= born[r.pid]
  BY <1>1 DEF ProcessInv, LifecycleTypeOK, Dated
<1> QED
  BY <1>1, <1>2

\* A daemon ends.
LEMMA EndsKeeps ==
    ASSUME ProcessInv, NEW p \in Running, Ends(p), TransactionTypeOK', UnitStopped',
           unit' = unit \/ managed' = NoPid
    PROVE  ProcessInv'
<1>1. /\ p \in Pid
      /\ device' = [device EXCEPT ![p] = None]
      /\ UNCHANGED <<born, starts, byHand, asked>>
      /\ managed' = IF p = managed THEN NoPid ELSE managed
      /\ status' = IF p = managed THEN NoStatus ELSE status
  BY DEF Ends, Running
<1>2. ProcessType /\ ReportType /\ Numbered /\ UnitOwns /\ Dated(status) /\ Dated(asked.status)
  BY DEF ProcessInv, LifecycleTypeOK, ProcessType, ReportType
<1>3. Running' = Running \ {p}
  BY <1>1, <1>2 DEF Running, ProcessType
<1>4. ProcessType' /\ ReportType'
  BY <1>1, <1>2, <1>3 DEF ProcessType, ReportType, Record
<1>5. Numbered' /\ Dated(status)' /\ Dated(asked.status)'
  BY <1>1, <1>2, <1>3 DEF Numbered, Dated
<1>6. UnitOwns'
  BY <1>1, <1>2, <1>3 DEF UnitOwns
<1> QED
  BY <1>4, <1>5, <1>6 DEF ProcessInv, LifecycleTypeOK, ProcessType, ReportType

\* One case per action.
LEMMA ProcessNext == ProcessInv /\ [LifecycleNext]_allVars => ProcessInv'
<1> SUFFICES ASSUME ProcessInv, [LifecycleNext]_allVars
             PROVE  ProcessInv'
  OBVIOUS
<1>1. TransactionTypeOK' /\ UnitStopped'
  BY TransactionStep, TransactionTypeNext, UnitStoppedNext DEF ProcessInv, LifecycleTypeOK
<1>2. ProcessType /\ ReportType /\ Numbered /\ UnitOwns /\ Dated(status) /\ Dated(asked.status)
  BY DEF ProcessInv, LifecycleTypeOK, ProcessType, ReportType
<1>3. SUFFICES /\ ProcessType' /\ ReportType' /\ Numbered'
               /\ Dated(status)' /\ Dated(asked.status)' /\ UnitOwns'
  BY <1>1 DEF ProcessInv, LifecycleTypeOK, ProcessType, ReportType
<1>4. CASE unit' = unit /\ UNCHANGED lifecycleVars
  <2>1. UNCHANGED <<device, born, starts, managed, byHand, status, asked, unit>>
    BY <1>4 DEF lifecycleVars, processVars
  <2>2. Running' = Running
    BY <2>1 DEF Running
  <2> QED
    BY <1>2, <2>1, <2>2 DEF ProcessType, ReportType, Numbered, Dated, UnitOwns
<1>5. CASE TeardownStops
  <2>1. CASE unit' = "stopped" /\ managed # NoPid
    <3>1. Ends(managed) /\ managed \in Running
      BY <1>2, <1>5, <2>1 DEF TeardownStops, ProcessType
    <3>2. managed' = NoPid
      BY <3>1 DEF Ends
    <3> QED
      BY <1>1, <3>1, <3>2, EndsKeeps DEF ProcessInv, LifecycleTypeOK, ProcessType, ReportType
  <2>2. CASE ~(unit' = "stopped" /\ managed # NoPid)
    <3>1. UNCHANGED lifecycleVars /\ (unit' = unit \/ unit' = "stopped")
      BY <1>5, <2>2 DEF TeardownStops, Stop
    <3>2. CASE unit' = unit
      BY <1>4, <3>1, <3>2
    <3>3. CASE unit' = "stopped"
      <4>1. UNCHANGED <<device, born, starts, managed, byHand, status, asked>> /\ managed = NoPid
        BY <2>2, <3>1, <3>3 DEF lifecycleVars, processVars
      <4>2. Running' = Running
        BY <4>1 DEF Running
      <4> QED
        BY <1>2, <4>1, <4>2 DEF ProcessType, ReportType, Numbered, Dated, UnitOwns
    <3> QED
      BY <3>1, <3>2, <3>3
  <2> QED
    BY <2>1, <2>2
<1>6. ASSUME NEW p \in Pid, Start(p), UNCHANGED <<status, asked>>,
             \/ byHand' = byHand \cup {starts'} /\ UNCHANGED <<unit, managed>>
             \/ byHand' = byHand /\ managed = NoPid /\ managed' = p /\ unit' = "running"
      PROVE  /\ ProcessType' /\ ReportType' /\ Numbered'
             /\ Dated(status)' /\ Dated(asked.status)' /\ UnitOwns'
  <2>1. /\ device' \in [Pid -> Device \cup {None}]
        /\ born' \in [Pid -> 0..MaxStarts] /\ starts' \in 0..MaxStarts
        /\ Running' = Running \cup {p} /\ p \notin Running
        /\ starts' = starts + 1 /\ starts \in Nat
        /\ born'[p] = starts + 1 /\ \A q \in Pid : q # p => born'[q] = born[q]
        /\ \A q \in Pid : born'[q] <= starts' /\ born'[q] >= born[q]
        /\ \A q \in Running' : born'[q] >= 1
    BY <1>6, StartKeeps
  <2>2. byHand \subseteq 1..starts /\ starts' \in 1..MaxStarts /\ MaxStarts \in Nat
    BY <1>2, <2>1, ProcessAssumption DEF Numbered
  <2>3. byHand' \subseteq 1..starts' /\ byHand' \subseteq 1..MaxStarts
    <3>1. byHand' \subseteq byHand \cup {starts'}
      BY <1>6
    <3>2. byHand \cup {starts'} \subseteq 1..starts'
      BY <2>1, <2>2
    <3> QED
      BY <2>2, <3>1, <3>2
  <2>4. ProcessType' /\ ReportType'
    BY <1>2, <1>6, <2>1, <2>3 DEF ProcessType, ReportType, Record
  <2>5. Numbered'
    BY <2>1, <2>3 DEF Numbered
  <2>6. Dated(status)' /\ Dated(asked.status)'
    <3>1. \A q \in Pid : born'[q] \in Nat /\ born'[q] >= born[q]
      BY <2>1
    <3>2. status \in Record \cup {NoStatus} /\ asked.status \in Record \cup {NoStatus}
      BY <1>2 DEF ReportType
    <3>3. status # NoStatus => status.born <= born'[status.pid]
      BY <1>2, <3>1, <3>2, DatedStays
    <3>4. asked.status # NoStatus => asked.status.born <= born'[asked.status.pid]
      BY <1>2, <3>1, <3>2, DatedStays
    <3> QED
      BY <1>6, <3>3, <3>4 DEF Dated
  <2>7. UnitOwns'
    <3>1. \A q \in Running : q \in Pid /\ q # p /\ born'[q] = born[q]
      BY <2>1 DEF Running
    <3>2. NoPid \notin Running
      BY ProcessAssumption DEF Running
    <3>3. status # NoStatus => status.pid \in Pid
      BY <1>2 DEF ReportType, Record
    <3>4. CASE byHand' = byHand \cup {starts'} /\ UNCHANGED <<unit, managed>>
      BY <1>2, <1>6, <2>1, <3>1, <3>4 DEF UnitOwns
    <3>5. CASE byHand' = byHand /\ managed = NoPid /\ managed' = p /\ unit' = "running"
      BY <1>2, <1>6, <2>1, <3>1, <3>2, <3>3, <3>5, ProcessAssumption DEF UnitOwns
    <3> QED
      BY <1>6, <3>4, <3>5
  <2> QED
    BY <2>4, <2>5, <2>6, <2>7
<1>7. ASSUME NEW p \in Pid, StartByHand(p)
      PROVE  /\ ProcessType' /\ ReportType' /\ Numbered'
             /\ Dated(status)' /\ Dated(asked.status)' /\ UnitOwns'
  BY <1>6, <1>7 DEF StartByHand, transactionVars
<1>8. ASSUME NEW p \in Pid, StartUnit(p) \/ RestartUnit(p)
      PROVE  /\ ProcessType' /\ ReportType' /\ Numbered'
             /\ Dated(status)' /\ Dated(asked.status)' /\ UnitOwns'
  <2>1. managed = NoPid /\ unit' = "running"
    BY <1>2, <1>8 DEF StartUnit, RestartUnit, UnitBegins, UnitOwns, transactionVars
  <2> QED
    BY <1>6, <1>8, <2>1 DEF StartUnit, RestartUnit
<1>9. ASSUME NEW p \in Pid, Publish(p)
      PROVE  /\ ProcessType' /\ ReportType' /\ Numbered'
             /\ Dated(status)' /\ Dated(asked.status)' /\ UnitOwns'
  <2>1. /\ p \in Running /\ UNCHANGED <<device, born, starts, managed, byHand, asked, unit>>
        /\ status' = [pid |-> p, device |-> device[p], born |-> born[p]]
    BY <1>9 DEF Publish, processVars, transactionVars
  <2>2. Running' = Running
    BY <2>1 DEF Running
  <2>3. born[p] \in 1..MaxStarts /\ device[p] \in Device
    BY <1>2, <2>1 DEF ProcessType, Numbered, Running
  <2>4. status' \in Record /\ status'.pid = p /\ status'.born = born[p]
    BY <2>1, <2>3 DEF Record
  <2> QED
    BY <1>2, <2>1, <2>2, <2>3, <2>4 DEF ProcessType, ReportType, Numbered, Dated, UnitOwns
<1>10. ASSUME NEW p \in Pid, DaemonEnds(p)
       PROVE  /\ ProcessType' /\ ReportType' /\ Numbered'
              /\ Dated(status)' /\ Dated(asked.status)' /\ UnitOwns'
  <2>1. p \in Running /\ Ends(p) /\ unit' = unit
    BY <1>10 DEF DaemonEnds, transactionVars
  <2> QED
    BY <1>1, <2>1, EndsKeeps DEF ProcessInv, LifecycleTypeOK, ProcessType, ReportType
<1>11. CASE Ask \/ ReadStatus \/ Answer
  <2>1. UNCHANGED <<device, born, starts, managed, byHand, status, unit>>
    BY <1>11 DEF Ask, ReadStatus, Answer, processVars, transactionVars
  <2>2. Running' = Running
    BY <2>1 DEF Running
  <2>3. config \in Device \cup {None}
    BY DEF ProcessInv, LifecycleTypeOK, TransactionTypeOK
  <2>4. asked' \in [stage : {"none", "read", "check", "answered"}, config : Device \cup {None},
                    status : Record \cup {NoStatus}, stale : BOOLEAN, live : BOOLEAN]
    BY <1>2, <1>11, <2>3 DEF Ask, ReadStatus, Answer, NotAsked, ReportType
  <2>5. asked'.status \in {NoStatus, status, asked.status}
    BY <1>2, <1>11 DEF Ask, ReadStatus, Answer, NotAsked, ReportType
  <2> QED
    BY <1>2, <2>1, <2>2, <2>4, <2>5 DEF ProcessType, ReportType, Numbered, Dated, UnitOwns
<1>12. CASE Commands
  BY <1>4, <1>12, UnitFrame DEF Commands
<1>13. CASE UNCHANGED allVars
  BY <1>4, <1>13 DEF allVars, transactionVars
<1> QED
  BY <1>5, <1>7, <1>8, <1>9, <1>10, <1>11, <1>12, <1>13 DEF LifecycleNext

-----------------------------------------------------------------------------
(* Theorems *)

THEOREM ProcessInvCorrect == LifecycleSpec => []ProcessInv
BY ProcessInit, ProcessNext, PTL DEF LifecycleSpec

\* The records of processes, file and answer keep their types.
THEOREM LifecycleTypeOKCorrect == LifecycleSpec => []LifecycleTypeOK
<1>1. ProcessInv => LifecycleTypeOK
  BY DEF ProcessInv
<1> QED
  BY <1>1, ProcessInvCorrect, PTL

\* What comes of a teardown that was not disturbed: the unit has been stopped when its
\* configuration goes, and with it went the daemon and its file.
THEOREM TornDownCorrect == LifecycleSpec => []TornDownIsStopped
<1>1. ProcessInv => TornDownIsStopped
  <2> SUFFICES ASSUME ProcessInv, op = "teardown", stage = "idle", result = "complete", ~loose
               PROVE  managed = NoPid /\ (status # NoStatus => status.born \in byHand)
    BY DEF TornDownIsStopped
  <2>1. unit = "stopped"
    BY DEF ProcessInv, UnitStopped
  <2>2. managed = NoPid
    BY <2>1 DEF ProcessInv, UnitOwns
  <2>3. status # NoStatus => status.pid # NoPid
    BY ProcessAssumption DEF ProcessInv, LifecycleTypeOK, Record
  <2> QED
    BY <2>2, <2>3 DEF ProcessInv, UnitOwns
<1> QED
  BY <1>1, ProcessInvCorrect, PTL

\* An answer keeps being right once given, since the numbers of starts only grow.
LEMMA NotStaleNext ==
    ProcessInv /\ ProcessInv' /\ NotStaleIsLive /\ [LifecycleNext]_allVars => NotStaleIsLive'
<1> SUFFICES ASSUME ProcessInv, ProcessInv', NotStaleIsLive, [LifecycleNext]_allVars,
                    asked'.stage = "answered", asked'.status # NoStatus, ~asked'.stale
             PROVE  /\ asked'.status.device = asked'.config
                    /\ asked'.live \/ born'[asked'.status.pid] > asked'.status.born
  BY DEF NotStaleIsLive
<1>1. /\ asked \in [stage : {"none", "read", "check", "answered"}, config : Device \cup {None},
                    status : Record \cup {NoStatus}, stale : BOOLEAN, live : BOOLEAN]
      /\ asked'.status \in Record
      /\ \A q \in Pid : born[q] \in Nat /\ born'[q] \in Nat
      /\ Dated(asked.status)
  BY ProcessAssumption DEF ProcessInv, LifecycleTypeOK
<1>2. asked'.status.pid \in Pid /\ asked'.status.born \in Nat
  BY <1>1 DEF Record
<1>3. CASE Answer
  <2>1. born' = born /\ asked'.status = asked.status
    BY <1>1, <1>3 DEF Answer, processVars
  <2>2. /\ asked'.stale = (~IsBridgeDaemon(asked.status.pid) \/ asked.status.device # asked.config)
        /\ asked'.live = (asked.status.pid \in Running /\ born[asked.status.pid] = asked.status.born)
        /\ asked'.config = asked.config
    BY <1>1, <1>3 DEF Answer
  <2>3. asked.status.pid \in Running /\ asked.status.device = asked.config
    BY <2>2 DEF IsBridgeDaemon
  <2>4. asked.status.born <= born[asked.status.pid]
    BY <1>1, <2>1 DEF Dated
  <2>5. CASE born[asked.status.pid] = asked.status.born
    BY <2>1, <2>2, <2>3, <2>5
  <2>6. CASE born[asked.status.pid] > asked.status.born
    BY <2>1, <2>2, <2>3, <2>6
  <2> QED
    BY <1>1, <1>2, <2>1, <2>4, <2>5, <2>6
<1>4. CASE Ask \/ ReadStatus
  <2>1. asked'.status = NoStatus
    BY <1>1, <1>4 DEF Ask, ReadStatus, NotAsked
  <2> QED
    BY <2>1
<1>5. CASE UNCHANGED asked /\ \A q \in Pid : born'[q] >= born[q]
  BY <1>1, <1>2, <1>5 DEF NotStaleIsLive
<1>6. ASSUME NEW p \in Pid, StartByHand(p) \/ StartUnit(p) \/ RestartUnit(p)
      PROVE  UNCHANGED asked /\ \A q \in Pid : born'[q] >= born[q]
  BY <1>6, StartKeeps DEF StartByHand, StartUnit, RestartUnit
<1>7. CASE UNCHANGED <<asked, born>>
  BY <1>1, <1>5, <1>7
<1>8. ASSUME NEW p \in Pid, Publish(p) \/ DaemonEnds(p)
      PROVE  UNCHANGED <<asked, born>>
  BY <1>8 DEF Publish, DaemonEnds, Ends, processVars
<1>9. CASE Commands \/ TeardownStops \/ UNCHANGED allVars
  <2>1. UNCHANGED <<asked, born>>
    BY <1>9 DEF Commands, TeardownStops, Ends, allVars, lifecycleVars, processVars
  <2> QED
    BY <1>7, <2>1
<1> QED
  BY <1>3, <1>4, <1>5, <1>6, <1>7, <1>8, <1>9 DEF LifecycleNext

\* However starts, publications, setups and teardowns fall between the three reads of
\* the status command: what it calls not stale was published for the configuration it
\* read, by a daemon that still ran or whose pid is another daemon's by now.
THEOREM NotStaleIsLiveCorrect == LifecycleSpec => []NotStaleIsLive
<1>1. LifecycleInit => NotStaleIsLive
  BY DEF LifecycleInit, NotAsked, NotStaleIsLive
<1> QED
  BY <1>1, NotStaleNext, ProcessInvCorrect, PTL DEF LifecycleSpec

=============================================================================
