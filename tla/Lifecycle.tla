----------------------------- MODULE Lifecycle -----------------------------
(***************************************************************************)
(* The processes of one user: setup and teardown (Transaction), the        *)
(* daemons of src/main.rs with the file they publish their status in, and  *)
(* the status command, which tells from that file, the configuration and   *)
(* the process table whether what it prints is stale (src/status.rs).      *)
(*                                                                         *)
(* The unit's daemon ends with the unit; others are started by hand.  Pids *)
(* come back, and every start is numbered, so that a record can be told    *)
(* from one of an earlier process with the same pid.                       *)
(***************************************************************************)
EXTENDS Transaction, Naturals

CONSTANTS
    Pid,
    NoPid,
    NoStatus,   \* no status file, or none read
    MaxStarts   \* bound: daemons started in one behaviour

ASSUME ProcessAssumption == NoPid \notin Pid /\ MaxStarts \in Nat

VARIABLES
    device,     \* device[p]: whom the daemon p was configured for; None: no daemon
    born,       \* born[p]: number of p's last start
    starts,     \* daemons started so far
    byHand,     \* history: those among them that were started by hand
    managed,    \* the unit's daemon, or NoPid
    status,     \* the status file: who wrote it, for whom, or NoStatus
    asked       \* the status command: its stage and what it has read

processVars == <<device, born, starts, managed, byHand>>
lifecycleVars == <<processVars, status, asked>>
allVars == <<transactionVars, lifecycleVars>>

Running == {p \in Pid : device[p] # None}
Record == [pid : Pid, device : Device, born : 1..MaxStarts]
NotAsked == [stage |-> "none", config |-> None, status |-> NoStatus, stale |-> FALSE,
             live |-> FALSE]

-----------------------------------------------------------------------------
(* Daemons *)

\* daemon: it loads the configuration and builds its status from it.
Start(p) ==
    /\ p \notin Running
    /\ config # None
    /\ starts < MaxStarts
    /\ starts' = starts + 1
    /\ device' = [device EXCEPT ![p] = config]
    /\ born' = [born EXCEPT ![p] = starts + 1]

StartByHand(p) ==
    /\ Start(p)
    /\ byHand' = byHand \cup {starts'}
    /\ UNCHANGED <<transactionVars, managed, status, asked>>

\* The user starts the unit, or systemd starts it again after a failure.
StartUnit(p) ==
    /\ UnitBegins
    /\ Start(p)
    /\ managed' = p
    /\ UNCHANGED <<byHand, status, asked>>

RestartUnit(p) ==
    /\ unit = "running" /\ managed = NoPid
    /\ Start(p)
    /\ managed' = p
    /\ UNCHANGED <<transactionVars, byHand, status, asked>>

\* Every publication replaces the file.
Publish(p) ==
    /\ p \in Running
    /\ status' = [pid |-> p, device |-> device[p], born |-> born[p]]
    /\ UNCHANGED <<transactionVars, processVars, asked>>

\* Mutant of Ends: systemd still has the daemon.
EndsManaged(p) ==
    /\ device' = [device EXCEPT ![p] = None]
    /\ status' = IF p = managed THEN NoStatus ELSE status
    /\ UNCHANGED <<born, starts, byHand, managed, asked>>

\* A daemon ends, with nothing published.  systemd removes the runtime directory
\* of the unit's daemon, and the file of a daemon started by hand stays.
Ends(p) ==
    /\ device' = [device EXCEPT ![p] = None]
    /\ managed' = IF p = managed THEN NoPid ELSE managed
    /\ status' = IF p = managed THEN NoStatus ELSE status
    /\ UNCHANGED <<born, starts, byHand, asked>>

DaemonEnds(p) ==
    /\ p \in Running
    /\ Ends(p)
    /\ UNCHANGED transactionVars

\* Mutant of TeardownStops: the unit is disabled, and its daemon runs on.
TeardownDisables ==
    /\ \E state \in {unit, "stopped"} : Stop(state)
    /\ UNCHANGED lifecycleVars

\* Teardown stops the unit, and its daemon with it.
TeardownStops ==
    /\ \E state \in {unit, "stopped"} : Stop(state)
    /\ IF unit' = "stopped" /\ managed # NoPid
       THEN Ends(managed)
       ELSE UNCHANGED lifecycleVars

-----------------------------------------------------------------------------
(* The status command: configuration, file and process table, one by one *)

Ask ==
    /\ asked.stage \in {"none", "answered"}
    /\ asked' = [NotAsked EXCEPT !.stage = IF config = None THEN "answered" ELSE "read",
                                 !.config = config]
    /\ UNCHANGED <<transactionVars, processVars, status>>

\* No file: the daemon is not running, and the answer made up from the
\* configuration is stale.
ReadStatus ==
    /\ asked.stage = "read"
    /\ asked' = [asked EXCEPT !.stage = IF status = NoStatus THEN "answered" ELSE "check",
                              !.status = status,
                              !.stale = (status = NoStatus)]
    /\ UNCHANGED <<transactionVars, processVars, status>>

\* Mutant of IsBridgeDaemon: the process table is not looked at.
AssumeDaemon(pid) == TRUE

\* ProcfsProcessChecker: a process with that pid runs "ancs-bridge daemon".
IsBridgeDaemon(pid) == pid \in Running

\* live is for the properties: the process that wrote the file runs.
Answer ==
    /\ asked.stage = "check"
    /\ LET s == asked.status
       IN  asked' = [asked EXCEPT !.stage = "answered",
                                  !.stale = ~IsBridgeDaemon(s.pid) \/ s.device # asked.config,
                                  !.live = (s.pid \in Running /\ born[s.pid] = s.born)]
    /\ UNCHANGED <<transactionVars, processVars, status>>

-----------------------------------------------------------------------------
LifecycleInit ==
    /\ Init
    /\ device = [p \in Pid |-> None]
    /\ born = [p \in Pid |-> 0]
    /\ starts = 0 /\ byHand = {}
    /\ managed = NoPid
    /\ status = NoStatus
    /\ asked = NotAsked

\* What setup and teardown do besides stopping the unit.
Commands == (Work \/ Disturb) /\ UNCHANGED lifecycleVars

LifecycleNext ==
    \/ Commands \/ TeardownStops
    \/ \E p \in Pid :
        \/ StartByHand(p) \/ StartUnit(p) \/ RestartUnit(p)
        \/ Publish(p) \/ DaemonEnds(p)
    \/ Ask \/ ReadStatus \/ Answer

LifecycleSpec == LifecycleInit /\ [][LifecycleNext]_allVars

-----------------------------------------------------------------------------
(* Properties *)

LifecycleTypeOK ==
    /\ TransactionTypeOK
    /\ device \in [Pid -> Device \cup {None}]
    /\ born \in [Pid -> 0..MaxStarts] /\ starts \in 0..MaxStarts /\ byHand \subseteq 1..MaxStarts
    /\ managed \in Running \cup {NoPid}
    /\ status \in Record \cup {NoStatus}
    /\ asked \in [stage : {"none", "read", "check", "answered"}, config : Device \cup {None},
                  status : Record \cup {NoStatus}, stale : BOOLEAN, live : BOOLEAN]

\* "A valid snapshot belonging to a live daemon and matching the current
\* configuration returns stale: false", and only such a one: whatever started,
\* stopped or was configured between the reads, an answer that is not stale was
\* published for the device configured when it was asked for, by a daemon that
\* still ran at the end, or whose pid another bridge daemon had taken by then.
NotStaleIsLive ==
    asked.stage = "answered" /\ asked.status # NoStatus /\ ~asked.stale =>
        /\ asked.status.device = asked.config
        /\ asked.live \/ born[asked.status.pid] > asked.status.born

\* A teardown that completes undisturbed leaves no daemon of the unit behind, and no
\* status file but one that a daemon started by hand has written.
TornDownIsStopped ==
    op = "teardown" /\ stage = "idle" /\ result = "complete" /\ ~loose =>
        /\ managed = NoPid
        /\ status # NoStatus => status.born \in byHand

=============================================================================
