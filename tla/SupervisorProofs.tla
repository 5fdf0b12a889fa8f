-------------------------- MODULE SupervisorProofs --------------------------
(***************************************************************************)
(* Proofs about Supervisor, for any number of disturbances and any         *)
(* thresholds: its types, that the supervisor, the transport and the       *)
(* status writer agree, and that refreshes are spaced.                     *)
(*                                                                         *)
(* Inv is inductive.  Sessions and Places say where run() may stand with a *)
(* session.  Shape says what a published state and reason determine:       *)
(* publish compares those two only, so without Shape a status with other   *)
(* fields could be held back.                                              *)
(***************************************************************************)
EXTENDS Supervisor, TLAPS

Running == pc \notin {"stopped", "crashed"}

\* The session is the transport's streams, except that reconcile may already
\* have dropped them, and it is what the snapshot reports.
Sessions ==
    /\ pc # "crashed" => session_active = snapshot.subscribed
    /\ subscriptions => session_active /\ registrations
    /\ pc # "act" => session_active = subscriptions
    /\ unsynced => session_active

\* A session is active in state Ready only, and an observation in hand says
\* whether there is one.
Places ==
    /\ pc \in {"reconcile", "act"} /\ session_active => snapshot.state = "Ready"
    /\ pc = "wait" => (snapshot.state = "Ready") = session_active
    /\ pc = "act" /\ observed = "available" => ~session_active /\ registrations
    /\ pc = "act" /\ observed = "ready" => subscriptions
    /\ pc \in {"start", "stopped", "crashed"} => ~session_active
    /\ pc = "subscribe" =>
          ~session_active /\ registrations /\ snapshot.state = "Subscribing"
    /\ pc \in {"start", "reconcile", "act", "wait"} => snapshot.state # "Subscribing"

\* What a snapshot in one of these states says besides: publishing the same state
\* and reason again changes nothing.
Shape(s) ==
    /\ s.state \in {"Backoff", "WaitingForAdapter", "Advertising", "Error", "WaitingForPhone"} =>
          ~s.connected /\ ~s.resolved /\ ~s.available
    /\ s.state = "WaitingForServices" => s.connected /\ ~s.resolved /\ ~s.available
    /\ s.state = "WaitingForAuthorization" => s.connected /\ s.resolved /\ ~s.available
    /\ s.state = "Subscribing" => s.connected /\ s.resolved
    /\ s.state = "Backoff" => s.error = "bluez-unavailable"
    /\ s.state = "Error" => s.error = "configured-device-not-bonded"
    /\ s.state = "Ready" /\ s.subscribed => s.connected /\ s.resolved /\ s.available
    /\ s.state = "Ready" => s.reason = "none"

Written ==
    /\ Running => Shape(snapshot) /\ writer = snapshot
    /\ ~unwritten => file = writer

Inv == TypeOK /\ Sessions /\ Places /\ Written

-----------------------------------------------------------------------------
(* Publication *)

\* publish leaves the snapshot s, and writes it unless it is what was written.
LEMMA PublishStep ==
    ASSUME TypeOK, NEW s \in Status, Publish(s)
    PROVE  /\ snapshot' = s
           /\ writer' \in Status /\ file' \in Status /\ unwritten' \in BOOLEAN
           /\ (s.state = snapshot.state /\ s.reason = snapshot.reason => s = writer) => writer' = s
           /\ (~unwritten => file = writer) => (~unwritten' => file' = writer')
BY DEF Publish, Write, TypeOK, fileVars

\* A publication that is not conditional.
LEMMA WriteStep ==
    ASSUME TypeOK, NEW s \in Status, Write(s)
    PROVE  /\ snapshot' = s /\ writer' = s
           /\ file' \in Status /\ unwritten' \in BOOLEAN
           /\ ~unwritten' => file' = writer'
BY DEF Write, TypeOK

\* The record end_session leaves.
LEMMA EndedRecord ==
    ASSUME NEW s \in Status, NEW failed \in BOOLEAN
    PROVE  /\ Ended(s, failed) \in Status
           /\ Ended(s, failed).state = s.state
           /\ Ended(s, failed).reason = s.reason
           /\ Ended(s, failed).connected = s.connected
           /\ Ended(s, failed).resolved = s.resolved
           /\ Ended(s, failed).available = FALSE
           /\ Ended(s, failed).subscribed = FALSE
           /\ Ended(s, failed).error = IF failed THEN "session" ELSE s.error
BY DEF Ended, Status, Code, State

\* Statuses with the same fields are the same.
LEMMA SameStatus ==
    ASSUME NEW s \in Status, NEW t \in Status,
           s.state = t.state, s.reason = t.reason, s.error = t.error,
           s.connected = t.connected, s.resolved = t.resolved,
           s.available = t.available, s.subscribed = t.subscribed
    PROVE  s = t
BY DEF Status

\* A status with these fields has the Shape of its state.
Suits(error, state, connected, resolved) ==
    \A s \in Status :
        (/\ s.state = state /\ s.connected = connected /\ s.resolved = resolved
         /\ ~s.available /\ (error # "none" => s.error = error)) => Shape(s)

\* In that state already, the snapshot has these fields.
Told(error, state, connected, resolved) ==
    snapshot.state = state =>
        /\ snapshot.connected = connected /\ snapshot.resolved = resolved
        /\ ~snapshot.available /\ (error # "none" => snapshot.error = error)

\* Leave: the session is over, and the state it goes to is published with the
\* flags and the error that belong to it.
LEMMA LeaveStep ==
    ASSUME Inv,
           NEW o \in Observation, NEW error \in Code, NEW state \in State, NEW reason \in Code,
           NEW connected \in BOOLEAN, NEW resolved \in BOOLEAN,
           state \notin {"Ready", "Subscribing", "WaitingForBluez"},
           Suits(error, state, connected, resolved), Told(error, state, connected, resolved),
           Leave(o, error, state, reason, connected, resolved)
    PROVE  /\ pc' = "wait" /\ observed' = "none"
           /\ session_active' = FALSE /\ unsynced' = FALSE /\ subscriptions' = FALSE
           /\ snapshot' \in Status /\ writer' \in Status /\ file' \in Status
           /\ unwritten' \in BOOLEAN
           /\ snapshot'.state = state /\ ~snapshot'.subscribed
           /\ Written'
<1>1. PICK failed \in EndErrors :
         Publish([Ended(snapshot, failed) EXCEPT
                    !.error = IF error = "none" THEN @ ELSE error,
                    !.state = state, !.reason = reason,
                    !.connected = connected, !.resolved = resolved])
  BY DEF Leave
<1> DEFINE e == Ended(snapshot, failed)
           s == [e EXCEPT !.error = IF error = "none" THEN @ ELSE error,
                          !.state = state, !.reason = reason,
                          !.connected = connected, !.resolved = resolved]
<1>2. TypeOK /\ snapshot \in Status /\ writer \in Status /\ failed \in BOOLEAN
  BY <1>1 DEF Inv, TypeOK, EndErrors
<1>3. e \in Status /\ e.available = FALSE /\ e.subscribed = FALSE
      /\ e.error = IF failed THEN "session" ELSE snapshot.error
  BY <1>2, EndedRecord
<1>4. /\ s \in Status
      /\ s.state = state /\ s.reason = reason
      /\ s.connected = connected /\ s.resolved = resolved
      /\ s.available = FALSE /\ s.subscribed = FALSE
      /\ s.error = IF error = "none" THEN e.error ELSE error
  <2> HIDE DEF e
  <2> QED
    BY <1>3 DEF Status
<1> HIDE DEF s, e
<1>5. Publish(s)
  BY <1>1 DEF s, e
<1>6. Shape(s)
  BY <1>4 DEF Suits
<1>7. pc = "act" /\ pc' = "wait" /\ observed' = "none" /\ StopSession
  BY DEF Leave
<1>8. ASSUME s.state = snapshot.state, s.reason = snapshot.reason
      PROVE  s = writer
  <2>1. ~session_active /\ ~unsynced /\ ~snapshot.subscribed
    <3>1. snapshot.state # "Ready" /\ pc = "act"
      BY <1>4, <1>7, <1>8
    <3>2. ~session_active
      BY <3>1 DEF Inv, Places
    <3>3. ~unsynced
      BY <3>2 DEF Inv, Sessions
    <3>4. session_active = snapshot.subscribed
      BY <3>1 DEF Inv, Sessions
    <3> QED
      BY <3>2, <3>3, <3>4
  <2>2. failed = FALSE
    <3>1. session_active = FALSE
      BY <1>2, <2>1 DEF TypeOK
    <3>2. EndErrors = {FALSE}
      BY <2>1, <3>1 DEF EndErrors
    <3> QED
      BY <1>1, <3>2
  <2>3. s.error = snapshot.error
    BY <1>3, <1>4, <1>8, <2>2 DEF Told
  <2>4. s = snapshot
    BY <1>2, <1>4, <1>8, <2>1, <2>3, SameStatus DEF Status, Told
  <2> QED
    BY <2>4, <1>7 DEF Inv, Written, Running
<1>9. /\ snapshot' = s /\ writer' = s
      /\ file' \in Status /\ unwritten' \in BOOLEAN
      /\ ~unwritten' => file' = writer'
  BY <1>2, <1>4, <1>5, <1>8, PublishStep DEF Inv, Written
<1> QED
  BY <1>4, <1>6, <1>7, <1>9 DEF StopSession, Written, Running

-----------------------------------------------------------------------------
(* The counters *)

\* The part of TypeOK about the counters of the recovery.
Counters ==
    /\ passive_refresh_index \in 0..(Len(StallThresholds) - 1)
    /\ waiting_for_phone_reconciles \in 0..(StallThresholds[passive_refresh_index + 1] - 1)
    /\ subscription_failures \in 0..(FailureLimit - 1)

\* Every refresh index names a threshold, which is positive.
LEMMA Thresholds ==
    /\ Len(StallThresholds) \in Nat \ {0}
    /\ \A i \in 0..(Len(StallThresholds) - 1) : StallThresholds[i + 1] \in Nat \ {0}
<1>1. StallThresholds \in Seq(Nat \ {0}) /\ StallThresholds # <<>>
  BY BoundAssumption
<1>2. Len(StallThresholds) \in Nat \ {0}
  BY <1>1
<1>3. ASSUME NEW i \in 0..(Len(StallThresholds) - 1)
      PROVE  StallThresholds[i + 1] \in Nat \ {0}
  <2>1. i + 1 \in 1..Len(StallThresholds)
    BY <1>2
  <2> QED
    BY <1>1, <2>1
<1> QED
  BY <1>2, <1>3

\* reset_recovery_tracking keeps the counters in range.
LEMMA ResetCounters == ASSUME ResetTracking PROVE Counters'
BY Thresholds, BoundAssumption DEF ResetTracking, Counters

\* refresh_bluez_session: the counters and the history stay in range.
LEMMA RefreshStep ==
    ASSUME TypeOK, Refresh
    PROVE  /\ Counters'
           /\ registrations' \in BOOLEAN /\ advertised' \in {"no", "live", "wedged"}
           /\ since' \in 0..Long /\ gap' \in 0..Long
<1>1. passive_refresh_index' \in 0..(Len(StallThresholds) - 1)
  BY Thresholds DEF Refresh, TypeOK, Smaller
<1>2. waiting_for_phone_reconciles' \in 0..(StallThresholds[passive_refresh_index' + 1] - 1)
  BY <1>1, Thresholds DEF Refresh
<1>3. Counters'
  BY <1>1, <1>2, BoundAssumption DEF Refresh, Counters
<1>4. registrations' \in BOOLEAN /\ advertised' \in {"no", "live", "wedged"}
  BY DEF Refresh, Release
<1>5. since' \in 0..Long /\ gap' \in 0..Long
  BY DEF Refresh, TypeOK, Long
<1> QED
  BY <1>3, <1>4, <1>5

\* Nothing is refreshed.
LEMMA NoRefreshStep ==
    ASSUME TypeOK, NoRefresh
    PROVE  /\ registrations' \in BOOLEAN /\ advertised' \in {"no", "live", "wedged"}
           /\ passive_refresh_index' = passive_refresh_index
           /\ since' \in 0..Long /\ gap' \in 0..Long
BY DEF NoRefresh, TypeOK, historyVars

\* A disturbance stays within the bound.
LEMMA DisturbStep ==
    ASSUME TypeOK, Disturb \/ UNCHANGED disturbances
    PROVE  disturbances' \in 0..MaxDisturbances
BY BoundAssumption DEF Disturb, TypeOK

-----------------------------------------------------------------------------
(* One lemma per action, or per group of actions that change the same things *)

\* A session that is over leaves nothing to agree about.
LEMMA SessionOver ==
    ASSUME pc' = "wait", session_active' = FALSE, unsynced' = FALSE, subscriptions' = FALSE,
           snapshot' \in Status, ~snapshot'.subscribed,
           snapshot'.state \notin {"Ready", "Subscribing"}
    PROVE  Sessions' /\ Places'
<1>1. snapshot'.subscribed = FALSE
  BY DEF Status
<1> QED
  BY <1>1 DEF Sessions, Places

\* The environment touches nothing of the daemon.
LEMMA EnvironmentStep ==
    ASSUME Inv,
           \/ BluezStops \/ AdapterPowersOff \/ AdvertisementFails \/ PhoneRetreats
           \/ AdapterReturns \/ PhoneAdvances
    PROVE  Inv'
<1>1. UNCHANGED daemonVars
  BY DEF BluezStops, AdapterPowersOff, AdvertisementFails, PhoneRetreats, AdapterReturns,
         PhoneAdvances
<1>2. /\ bluez' \in {"down", "off", "on"}
      /\ advertised' \in {"no", "live", "wedged"}
      /\ phone' \in {"unbonded", "away", "connected", "resolved", "ancs"}
      /\ disturbances' \in 0..MaxDisturbances
  BY BoundAssumption
  DEF Inv, TypeOK, Disturb, Disconnected, BluezStops, AdapterPowersOff, AdvertisementFails,
      PhoneRetreats, AdapterReturns, PhoneAdvances
<1>3. TypeOK'
  BY <1>1, <1>2 DEF Inv, TypeOK, daemonVars, transportVars, statusVars, fileVars, recoveryVars,
     historyVars
<1> QED
  BY <1>1, <1>3 DEF Inv, Sessions, Places, Written, Shape, Running, daemonVars, transportVars,
     statusVars, fileVars, recoveryVars, historyVars

\* run publishes before its loop.
LEMMA StartStep == ASSUME Inv, Start PROVE Inv'
<1>1. snapshot \in Status /\ Write(snapshot) /\ pc = "start" /\ pc' = "reconcile"
  BY DEF Inv, TypeOK, Start
<1>2. /\ snapshot' = snapshot /\ writer' = snapshot
      /\ file' \in Status /\ unwritten' \in BOOLEAN
      /\ ~unwritten' => file' = writer'
  BY <1>1, WriteStep DEF Inv
<1>3. UNCHANGED <<linkVars, disturbances, transportVars, observed, session_active, unsynced,
                  backoff_index, recoveryVars, historyVars>>
  BY DEF Start
<1>4. TypeOK'
  BY <1>1, <1>2, <1>3 DEF Inv, TypeOK, linkVars, transportVars, recoveryVars, historyVars
<1>5. Sessions' /\ Places'
  BY <1>1, <1>2, <1>3 DEF Inv, Sessions, Places, transportVars
<1>6. Written'
  BY <1>1, <1>2 DEF Inv, Written, Running
<1> QED
  BY <1>4, <1>5, <1>6 DEF Inv

\* The status of a new process.
LEMMA FreshStatus ==
    /\ Fresh \in Status
    /\ Fresh.subscribed = FALSE
    /\ Fresh.state = "WaitingForBluez"
    /\ Shape(Fresh)
BY DEF Fresh, Status, State, Code, Shape

\* A restarted process holds no session, and its snapshot is fresh.
LEMMA RestartStep == ASSUME Inv, Restart PROVE Inv'
<1> USE DEF Restart
<1>1. ~session_active /\ ~subscriptions
  BY DEF Inv, Places, Sessions
<1>2. UNCHANGED <<linkVars, disturbances, transportVars, observed, session_active, unsynced,
                  file, gap>>
  OBVIOUS
<1>3. Counters'
  BY ResetCounters
<1>4. TypeOK'
  BY <1>2, <1>3, FreshStatus, BoundAssumption
  DEF Inv, TypeOK, Counters, linkVars, transportVars, Long
<1>5. session_active' = FALSE /\ subscriptions' = FALSE /\ ~unsynced' /\ pc' = "start"
  BY <1>1, <1>2 DEF Inv, TypeOK, transportVars, Sessions
<1>6. Sessions' /\ Places'
  <2>1. snapshot'.subscribed = FALSE /\ snapshot'.state = "WaitingForBluez"
    BY FreshStatus
  <2> QED
    BY <1>5, <2>1 DEF Sessions, Places
<1>7. Written'
  BY FreshStatus DEF Written, Running
<1> QED
  BY <1>4, <1>6, <1>7 DEF Inv

\* reconcile tells what it sees, and may drop the streams with the registrations.
LEMMA ReconcileStep == ASSUME Inv, Reconcile PROVE Inv'
<1>1. /\ pc = "reconcile" /\ pc' = "act"
      /\ session_active' = session_active /\ unsynced' = unsynced
      /\ snapshot' = snapshot /\ writer' = writer
      /\ UNCHANGED <<bluez, phone, backoff_index, recoveryVars, gap>>
  BY DEF Reconcile, UpdateName
<1>2. /\ file' \in Status /\ unwritten' \in BOOLEAN
      /\ ~unwritten' => file' = writer'
  <2>1. CASE file' = writer /\ unwritten' = FALSE
    BY <1>1, <2>1 DEF Inv, TypeOK
  <2>2. CASE UNCHANGED <<file, unwritten>>
    BY <1>1, <2>2 DEF Inv, TypeOK, Written
  <2> QED
    BY <2>1, <2>2 DEF Reconcile, UpdateName
<1>3. session_active = subscriptions
  BY <1>1 DEF Inv, Sessions
<1>4. /\ observed' \in Observation
      /\ disturbances' \in 0..MaxDisturbances
      /\ registrations' \in BOOLEAN /\ subscriptions' \in BOOLEAN
      /\ advertised' \in {"no", "live", "wedged"}
      /\ subscriptions' => session_active /\ registrations'
      /\ observed' = "available" => ~session_active /\ registrations'
      /\ observed' = "ready" => subscriptions'
  <2>1. CASE ReconcileFails
    <3>1. observed' = "error" /\ disturbances' \in 0..MaxDisturbances
      BY <2>1, BoundAssumption DEF ReconcileFails, Inv, TypeOK, Disturb
    <3>2. CASE UNCHANGED <<transportVars, advertised>>
      BY <3>1, <3>2, <1>3 DEF Inv, TypeOK, Sessions, Observation, transportVars
    <3>3. CASE Release /\ subscriptions' = FALSE
      BY <3>1, <3>3 DEF Release, Observation
    <3> QED
      BY <2>1, <3>2, <3>3 DEF ReconcileFails
  <2>2. CASE ReconcileSeesOff
    BY <2>2, <1>3
    DEF ReconcileSeesOff, Inv, TypeOK, Sessions, Observation, transportVars
  <2>3. CASE Register
    BY <2>3, <1>3 DEF Register, Inv, TypeOK, Sessions, Observation
  <2>4. CASE ReconcileSeesDevice
    <3>1. /\ DeviceObservation \in Observation
          /\ DeviceObservation = "available" => ~subscriptions
          /\ DeviceObservation = "ready" => subscriptions
      BY DEF DeviceObservation, Observation, Inv, TypeOK
    <3> QED
      BY <2>4, <1>3, <3>1 DEF ReconcileSeesDevice, Inv, TypeOK, Sessions, transportVars
  <2> QED
    BY <2>1, <2>2, <2>3, <2>4 DEF Reconcile
<1>5. since' \in 0..Long
  BY DEF Reconcile, Inv, TypeOK, Smaller, Long
<1>6. TypeOK'
  BY <1>1, <1>2, <1>4, <1>5 DEF Inv, TypeOK, recoveryVars
<1>7. Sessions' /\ Places'
  BY <1>1, <1>3, <1>4 DEF Inv, Sessions, Places
<1>8. Written'
  BY <1>1, <1>2 DEF Inv, Written, Running
<1> QED
  BY <1>6, <1>7, <1>8 DEF Inv

\* What Leave leaves is in order, whatever becomes of the registrations.
LEMMA LeaveInv ==
    ASSUME Inv,
           pc' = "wait", observed' = "none",
           session_active' = FALSE, unsynced' = FALSE, subscriptions' = FALSE,
           snapshot' \in Status, writer' \in Status, file' \in Status, unwritten' \in BOOLEAN,
           snapshot'.state \notin {"Ready", "Subscribing"}, ~snapshot'.subscribed,
           Written', Counters',
           bluez' = bluez, phone' = phone, backoff_index' = backoff_index,
           disturbances' \in 0..MaxDisturbances,
           registrations' \in BOOLEAN, advertised' \in {"no", "live", "wedged"},
           since' \in 0..Long, gap' \in 0..Long
    PROVE  Inv'
<1>1. TypeOK'
  BY DEF Inv, TypeOK, Counters, Observation
<1>2. Sessions' /\ Places'
  BY SessionOver
<1> QED
  BY <1>1, <1>2 DEF Inv

\* BlueZ failed.
LEMMA HandleErrorStep == ASSUME Inv, HandleError PROVE Inv'
<1>1. Leave("error", "bluez-unavailable", "Backoff", "bluez-unavailable", FALSE, FALSE)
  BY DEF HandleError
<1>2. /\ pc' = "wait" /\ observed' = "none"
      /\ session_active' = FALSE /\ unsynced' = FALSE /\ subscriptions' = FALSE
      /\ snapshot' \in Status /\ writer' \in Status /\ file' \in Status
      /\ unwritten' \in BOOLEAN
      /\ snapshot'.state = "Backoff" /\ ~snapshot'.subscribed
      /\ Written'
  <2>1. Shape(snapshot) /\ snapshot \in Status
    BY <1>1 DEF Leave, Inv, Written, Running, TypeOK
  <2>2. Told("bluez-unavailable", "Backoff", FALSE, FALSE)
    BY <2>1 DEF Told, Shape, Status
  <2>3. Suits("bluez-unavailable", "Backoff", FALSE, FALSE)
    BY DEF Suits, Shape, Status
  <2> QED
    BY <1>1, <2>2, <2>3, LeaveStep DEF Observation, Code, State
<1>3. Counters'
  BY ResetCounters DEF HandleError
<1>4. /\ bluez' = bluez /\ phone' = phone /\ backoff_index' = backoff_index
      /\ disturbances' \in 0..MaxDisturbances
      /\ registrations' \in BOOLEAN /\ advertised' \in {"no", "live", "wedged"}
      /\ since' \in 0..Long /\ gap' \in 0..Long
  BY DEF HandleError, acted, historyVars, Release, Inv, TypeOK
<1> QED
  BY <1>2, <1>3, <1>4, LeaveInv

\* The observations that only end the session.
LEMMA ElsewhereStep == ASSUME Inv, Elsewhere PROVE Inv'
<1> DEFINE Left(state) ==
      /\ pc' = "wait" /\ observed' = "none"
      /\ session_active' = FALSE /\ unsynced' = FALSE /\ subscriptions' = FALSE
      /\ snapshot' \in Status /\ writer' \in Status /\ file' \in Status
      /\ unwritten' \in BOOLEAN
      /\ snapshot'.state = state /\ ~snapshot'.subscribed
      /\ Written'
<1>1. pc = "act"
  BY DEF Elsewhere, Leave
<1>2. Shape(snapshot) /\ snapshot \in Status
  BY <1>1 DEF Inv, Written, Running, TypeOK
<1>3. \E state \in {"WaitingForAdapter", "Advertising", "Error", "WaitingForServices",
                    "WaitingForAuthorization"} : Left(state)
  <2>1. CASE Leave("powered-off", "none", "WaitingForAdapter", "adapter-powered-off", FALSE, FALSE)
    <3>1. Told("none", "WaitingForAdapter", FALSE, FALSE)
      BY <1>2 DEF Told, Shape, Status
    <3>2. Suits("none", "WaitingForAdapter", FALSE, FALSE)
      BY DEF Suits, Shape, Status
    <3>3. Left("WaitingForAdapter")
      BY <2>1, <3>1, <3>2, LeaveStep DEF Observation, Code, State
    <3> QED
      BY <3>3
  <2>2. CASE Leave("advertising", "none", "Advertising", "none", FALSE, FALSE)
    <3>1. Told("none", "Advertising", FALSE, FALSE)
      BY <1>2 DEF Told, Shape, Status
    <3>2. Suits("none", "Advertising", FALSE, FALSE)
      BY DEF Suits, Shape, Status
    <3>3. Left("Advertising")
      BY <2>2, <3>1, <3>2, LeaveStep DEF Observation, Code, State
    <3> QED
      BY <3>3
  <2>3. CASE Leave("not-bonded", "configured-device-not-bonded", "Error",
                   "configured-device-not-bonded", FALSE, FALSE)
    <3>1. Told("configured-device-not-bonded", "Error", FALSE, FALSE)
      BY <1>2 DEF Told, Shape, Status
    <3>2. Suits("configured-device-not-bonded", "Error", FALSE, FALSE)
      BY DEF Suits, Shape, Status
    <3>3. Left("Error")
      BY <2>3, <3>1, <3>2, LeaveStep DEF Observation, Code, State
    <3> QED
      BY <3>3
  <2>4. CASE Leave("waiting-for-services", "none", "WaitingForServices", "none", TRUE, FALSE)
    <3>1. Told("none", "WaitingForServices", TRUE, FALSE)
      BY <1>2 DEF Told, Shape, Status
    <3>2. Suits("none", "WaitingForServices", TRUE, FALSE)
      BY DEF Suits, Shape, Status
    <3>3. Left("WaitingForServices")
      BY <2>4, <3>1, <3>2, LeaveStep DEF Observation, Code, State
    <3> QED
      BY <3>3
  <2>5. CASE Leave("waiting-for-authorization", "none", "WaitingForAuthorization", "none",
                   TRUE, TRUE)
    <3>1. Told("none", "WaitingForAuthorization", TRUE, TRUE)
      BY <1>2 DEF Told, Shape, Status
    <3>2. Suits("none", "WaitingForAuthorization", TRUE, TRUE)
      BY DEF Suits, Shape, Status
    <3>3. Left("WaitingForAuthorization")
      BY <2>5, <3>1, <3>2, LeaveStep DEF Observation, Code, State
    <3> QED
      BY <3>3
  <2> QED
    BY <2>1, <2>2, <2>3, <2>4, <2>5 DEF Elsewhere
<1>4. NoRefresh /\ waiting_for_phone_reconciles' = 0 /\ UNCHANGED <<acted, subscription_failures>>
  BY DEF Elsewhere
<1>5. Counters'
  <2>1. passive_refresh_index' = passive_refresh_index
    BY <1>4, NoRefreshStep DEF Inv
  <2>2. StallThresholds[passive_refresh_index + 1] \in Nat \ {0}
    BY Thresholds DEF Inv, TypeOK
  <2> QED
    BY <1>4, <2>1, <2>2 DEF Counters, Inv, TypeOK
<1>6. /\ bluez' = bluez /\ phone' = phone /\ backoff_index' = backoff_index
      /\ disturbances' \in 0..MaxDisturbances
      /\ registrations' \in BOOLEAN /\ advertised' \in {"no", "live", "wedged"}
      /\ since' \in 0..Long /\ gap' \in 0..Long
  BY <1>4, NoRefreshStep DEF acted, Inv, TypeOK
<1> QED
  BY <1>3, <1>5, <1>6, LeaveInv

\* The phone is away: a refresh, or one more reconciliation counted.
LEMMA HandleWaitingForPhoneStep == ASSUME Inv, HandleWaitingForPhone PROVE Inv'
<1>1. Leave("waiting-for-phone", "none", "WaitingForPhone", "none", FALSE, FALSE)
  BY DEF HandleWaitingForPhone
<1>2. /\ pc' = "wait" /\ observed' = "none"
      /\ session_active' = FALSE /\ unsynced' = FALSE /\ subscriptions' = FALSE
      /\ snapshot' \in Status /\ writer' \in Status /\ file' \in Status
      /\ unwritten' \in BOOLEAN
      /\ snapshot'.state = "WaitingForPhone" /\ ~snapshot'.subscribed
      /\ Written'
  <2>1. Shape(snapshot) /\ snapshot \in Status
    BY <1>1 DEF Leave, Inv, Written, Running, TypeOK
  <2>2. Told("none", "WaitingForPhone", FALSE, FALSE)
    BY <2>1 DEF Told, Shape, Status
  <2>3. Suits("none", "WaitingForPhone", FALSE, FALSE)
    BY DEF Suits, Shape, Status
  <2> QED
    BY <1>1, <2>2, <2>3, LeaveStep DEF Observation, Code, State
<1>3. /\ Counters'
      /\ registrations' \in BOOLEAN /\ advertised' \in {"no", "live", "wedged"}
      /\ since' \in 0..Long /\ gap' \in 0..Long
  <2>1. CASE Refresh
    BY <2>1, RefreshStep DEF Inv
  <2>2. CASE ~(session_active \/ waiting_for_phone_reconciles + 1
                                    >= StallThresholds[passive_refresh_index + 1])
    <3>1. /\ waiting_for_phone_reconciles' = waiting_for_phone_reconciles + 1
          /\ subscription_failures' = subscription_failures
          /\ NoRefresh
      BY <2>2 DEF HandleWaitingForPhone
    <3>2. passive_refresh_index' = passive_refresh_index
      BY <3>1, NoRefreshStep DEF Inv
    <3>3. StallThresholds[passive_refresh_index + 1] \in Nat \ {0}
      BY Thresholds DEF Inv, TypeOK
    <3>4. Counters'
      BY <2>2, <3>1, <3>2, <3>3 DEF Counters, Inv, TypeOK
    <3> QED
      BY <3>1, <3>4, NoRefreshStep DEF Inv
  <2> QED
    BY <2>1, <2>2 DEF HandleWaitingForPhone
<1>4. /\ bluez' = bluez /\ phone' = phone /\ backoff_index' = backoff_index
      /\ disturbances' \in 0..MaxDisturbances
  BY DEF HandleWaitingForPhone, acted, Inv, TypeOK
<1> QED
  BY <1>2, <1>3, <1>4, LeaveInv

\* ANCS is there and no session is: "subscribing" is always a transition.
LEMMA HandleAvailableStep == ASSUME Inv, HandleAvailable PROVE Inv'
<1> DEFINE s == [snapshot EXCEPT !.state = "Subscribing", !.reason = "none", !.connected = TRUE,
                                 !.resolved = TRUE, !.available = TRUE]
<1>1. /\ pc = "act" /\ observed = "available" /\ pc' = "subscribe" /\ observed' = "none"
      /\ waiting_for_phone_reconciles' = 0
      /\ Publish(s)
      /\ UNCHANGED <<acted, advertised, transportVars, session_active, unsynced,
                     passive_refresh_index, subscription_failures, historyVars>>
  BY DEF HandleAvailable
<1>2. /\ s \in Status /\ s.state = "Subscribing" /\ s.connected /\ s.resolved
      /\ s.subscribed = snapshot.subscribed
  BY DEF Inv, TypeOK, Status, State, Code
<1>3. snapshot.state # "Subscribing" /\ ~session_active /\ registrations /\ ~subscriptions
      /\ ~unsynced /\ session_active = snapshot.subscribed
  BY <1>1 DEF Inv, Places, Sessions
<1>4. Shape(s)
  BY <1>2 DEF Shape
<1> HIDE DEF s
<1>5. /\ snapshot' = s /\ writer' = s
      /\ file' \in Status /\ unwritten' \in BOOLEAN
      /\ ~unwritten' => file' = writer'
  BY <1>1, <1>2, <1>3, PublishStep DEF Inv, Written
<1>6. TypeOK'
  <2>1. StallThresholds[passive_refresh_index + 1] \in Nat \ {0}
    BY Thresholds DEF Inv, TypeOK
  <2>2. waiting_for_phone_reconciles' \in 0..(StallThresholds[passive_refresh_index' + 1] - 1)
    BY <1>1, <2>1
  <2> QED
    BY <1>1, <1>2, <1>5, <2>2 DEF Inv, TypeOK, acted, transportVars, historyVars, Observation
<1>7. session_active' = FALSE /\ subscriptions' = FALSE /\ registrations' /\ ~unsynced'
      /\ snapshot'.subscribed = FALSE
  BY <1>1, <1>2, <1>3, <1>5 DEF Inv, TypeOK, transportVars
<1>8. Sessions' /\ Places'
  BY <1>1, <1>2, <1>5, <1>7 DEF Sessions, Places
<1>9. Written'
  BY <1>4, <1>5 DEF Written
<1> QED
  BY <1>6, <1>8, <1>9 DEF Inv

\* A session is up, or still up: publishing "ready" again changes nothing.
LEMMA SettleStep ==
    ASSUME Inv, Settle, subscriptions' = TRUE, registrations,
           \/ pc = "subscribe"
           \/ pc = "act" /\ subscriptions
    PROVE  Inv'
<1> DEFINE s == Established(snapshot)
<1>1. /\ session_active' = TRUE /\ backoff_index' = 0 /\ ResetTracking /\ Publish(s)
      /\ pc' = "wait" /\ observed' = "none" /\ since' = Long
      /\ UNCHANGED <<linkVars, disturbances, registrations, unsynced, gap>>
  BY DEF Settle
<1>2. /\ s \in Status /\ s.state = "Ready" /\ s.reason = "none" /\ s.error = snapshot.error
      /\ s.connected = TRUE /\ s.resolved = TRUE /\ s.available = TRUE /\ s.subscribed = TRUE
  BY DEF Established, Inv, TypeOK, Status, State, Code
<1>3. Shape(s)
  BY <1>2 DEF Shape
<1> HIDE DEF s
<1>4. ASSUME s.state = snapshot.state, s.reason = snapshot.reason
      PROVE  s = writer
  <2>1. pc = "act" /\ subscriptions /\ snapshot.state = "Ready"
    BY <1>2, <1>4 DEF Inv, Places
  <2>2. session_active /\ session_active = snapshot.subscribed
    BY <2>1 DEF Inv, Sessions
  <2>3. snapshot.subscribed = TRUE
    BY <2>2 DEF Inv, TypeOK
  <2>4. Shape(snapshot) /\ writer = snapshot /\ snapshot \in Status
    BY <2>1 DEF Inv, Written, Running, TypeOK
  <2>5. snapshot.connected = TRUE /\ snapshot.resolved = TRUE /\ snapshot.available = TRUE
    BY <2>1, <2>3, <2>4 DEF Shape, Status
  <2> QED
    BY <1>2, <1>4, <2>3, <2>4, <2>5, SameStatus
<1>5. /\ snapshot' = s /\ writer' = s
      /\ file' \in Status /\ unwritten' \in BOOLEAN
      /\ ~unwritten' => file' = writer'
  BY <1>1, <1>2, <1>4, PublishStep DEF Inv, Written
<1>6. Counters'
  BY <1>1, ResetCounters
<1>7. TypeOK'
  BY <1>1, <1>2, <1>5, <1>6, BoundAssumption
  DEF Inv, TypeOK, Counters, linkVars, Observation, Long
<1>8. registrations'
  BY <1>1
<1>9. Sessions' /\ Places'
  BY <1>1, <1>2, <1>5, <1>8 DEF Sessions, Places
<1>10. Written'
  BY <1>3, <1>5 DEF Written
<1> QED
  BY <1>7, <1>9, <1>10 DEF Inv

\* A subscription succeeds on registered objects.
LEMMA SubscribeSucceedsStep == ASSUME Inv, SubscribeSucceeds PROVE Inv'
<1>1. pc = "subscribe" /\ subscriptions' = TRUE /\ Settle
  BY DEF SubscribeSucceeds
<1>2. registrations
  BY <1>1 DEF Inv, Places
<1> QED
  BY <1>1, <1>2, SettleStep

\* The streams are still there.
LEMMA HandleReadyStep == ASSUME Inv, HandleReady PROVE Inv'
<1>1. pc = "act" /\ observed = "ready" /\ UNCHANGED subscriptions /\ Settle
  BY DEF HandleReady
<1>2. subscriptions
  BY <1>1 DEF Inv, Places
<1>3. registrations /\ subscriptions' = TRUE
  BY <1>1, <1>2 DEF Inv, Sessions, TypeOK
<1> QED
  BY <1>1, <1>2, <1>3, SettleStep

\* A subscription fails: its failure is always a transition.
LEMMA SubscribeFailsStep == ASSUME Inv, SubscribeFails PROVE Inv'
<1>1. /\ pc = "subscribe" /\ pc' = "wait" /\ StopSession
      /\ bluez' = bluez /\ phone' = phone /\ observed' = observed
      /\ backoff_index' = backoff_index
  BY DEF SubscribeFails
<1>2. PICK failed \in EndErrors :
         Publish([Ended(snapshot, failed) EXCEPT !.error = "subscribe-failed",
                                                 !.state = "WaitingForAuthorization",
                                                 !.reason = "subscribe-failed"])
  BY DEF SubscribeFails
<1> DEFINE e == Ended(snapshot, failed)
           s == [e EXCEPT !.error = "subscribe-failed", !.state = "WaitingForAuthorization",
                          !.reason = "subscribe-failed"]
<1>3. failed \in BOOLEAN /\ snapshot \in Status
  BY <1>2 DEF EndErrors, Inv, TypeOK
<1>4. /\ snapshot.state = "Subscribing" /\ Shape(snapshot)
  BY <1>1 DEF Inv, Places, Written, Running
<1>5. /\ e \in Status /\ e.available = FALSE /\ e.subscribed = FALSE
      /\ e.connected = snapshot.connected /\ e.resolved = snapshot.resolved
  BY <1>3, EndedRecord
<1>6. /\ s \in Status /\ s.state = "WaitingForAuthorization"
      /\ s.available = FALSE /\ s.subscribed = FALSE
      /\ s.connected = snapshot.connected /\ s.resolved = snapshot.resolved
  <2> HIDE DEF e
  <2> QED
    BY <1>5 DEF Status, State, Code
<1>7. Publish(s)
  BY <1>2
<1> HIDE DEF e, s
<1>8. Shape(s)
  BY <1>4, <1>6 DEF Shape
<1>9. /\ snapshot' = s /\ writer' = s
      /\ file' \in Status /\ unwritten' \in BOOLEAN
      /\ ~unwritten' => file' = writer'
  BY <1>4, <1>6, <1>7, PublishStep DEF Inv, Written
<1>10. /\ Counters'
       /\ registrations' \in BOOLEAN /\ advertised' \in {"no", "live", "wedged"}
       /\ since' \in 0..Long /\ gap' \in 0..Long
  <2>1. CASE Refresh
    BY <2>1, RefreshStep DEF Inv
  <2>2. CASE ~(subscription_failures + 1 >= FailureLimit)
    <3>1. /\ subscription_failures' = subscription_failures + 1
          /\ waiting_for_phone_reconciles' = waiting_for_phone_reconciles
          /\ NoRefresh
      BY <2>2 DEF SubscribeFails
    <3>2. Counters'
      BY <2>2, <3>1, NoRefreshStep, BoundAssumption DEF Counters, Inv, TypeOK
    <3> QED
      BY <3>1, <3>2, NoRefreshStep DEF Inv
  <2> QED
    BY <2>1, <2>2 DEF SubscribeFails
<1>11. disturbances' \in 0..MaxDisturbances
  <2>1. Disturb \/ UNCHANGED disturbances
    BY DEF SubscribeFails
  <2> QED
    BY <2>1, DisturbStep DEF Inv
<1>12. session_active' = FALSE /\ unsynced' = FALSE /\ subscriptions' = FALSE
  BY <1>1 DEF StopSession
<1>13. TypeOK'
  BY <1>1, <1>6, <1>9, <1>10, <1>11, <1>12 DEF Inv, TypeOK, Counters
<1>14. Sessions' /\ Places'
  BY <1>1, <1>6, <1>9, <1>12, SessionOver
<1>15. Written'
  BY <1>8, <1>9 DEF Written
<1> QED
  BY <1>13, <1>14, <1>15 DEF Inv

\* The end of an iteration that publishes nothing.
LEMMA ElapsedStep == ASSUME Inv, BackoffElapses \/ IntervalElapses PROVE Inv'
<1>1. /\ pc = "wait" /\ pc' = "reconcile"
      /\ UNCHANGED <<waited, subscriptions, session_active, statusVars>>
  BY DEF BackoffElapses, IntervalElapses
<1>2. backoff_index' \in 0..LastBackoff
  BY BoundAssumption DEF BackoffElapses, IntervalElapses, Smaller, Inv, TypeOK
<1>3. unsynced' \in BOOLEAN /\ (unsynced' => session_active)
  <2>1. unsynced \in BOOLEAN /\ snapshot \in Status
    BY DEF Inv, TypeOK
  <2>2. (snapshot.state = "Ready") = session_active /\ (unsynced => session_active)
    BY <1>1 DEF Inv, Places, Sessions
  <2>3. CASE unsynced' = unsynced
    BY <2>1, <2>2, <2>3
  <2>4. CASE unsynced' = (snapshot.state = "Ready" \/ unsynced)
    <3>1. session_active \in BOOLEAN
      BY DEF Inv, TypeOK
    <3>2. (snapshot.state = "Ready" \/ unsynced) => session_active
      BY <2>2
    <3> QED
      BY <2>4, <3>2
  <2> QED
    BY <2>3, <2>4 DEF BackoffElapses, IntervalElapses
<1>4. TypeOK'
  BY <1>1, <1>2, <1>3
  DEF Inv, TypeOK, waited, linkVars, statusVars, fileVars, recoveryVars, historyVars
<1>5. Sessions'
  BY <1>1, <1>3 DEF Inv, Sessions, waited, statusVars
<1>6. Places'
  BY <1>1 DEF Inv, Places, waited, statusVars
<1>7. Written'
  BY <1>1 DEF Inv, Written, Running, Shape, statusVars, fileVars
<1> QED
  BY <1>4, <1>5, <1>6, <1>7 DEF Inv

\* In Ready an error may be published and the session goes on.
LEMMA KeptStep ==
    ASSUME Inv, pc = "wait", pc' = "reconcile", snapshot.state = "Ready",
           UNCHANGED <<waited, subscriptions, session_active, backoff_index>>,
           unsynced' \in {unsynced, FALSE},
           \/ UNCHANGED statusVars
           \/ \E error \in Code : Write([snapshot EXCEPT !.error = error])
    PROVE  Inv'
<1>1. session_active /\ subscriptions /\ registrations
  BY DEF Inv, Places, Sessions
<1>2. Shape(snapshot) /\ writer = snapshot /\ snapshot \in Status
  BY DEF Inv, Written, Running, TypeOK
<1>3. /\ snapshot' \in Status /\ snapshot'.state = "Ready"
      /\ snapshot'.subscribed = snapshot.subscribed
      /\ Shape(snapshot') /\ writer' = snapshot'
      /\ file' \in Status /\ unwritten' \in BOOLEAN
      /\ ~unwritten' => file' = writer'
  <2>1. CASE UNCHANGED statusVars
    BY <1>2, <2>1 DEF Inv, TypeOK, Written, statusVars, fileVars, Shape
  <2>2. CASE \E error \in Code : Write([snapshot EXCEPT !.error = error])
    <3>1. PICK error \in Code : Write([snapshot EXCEPT !.error = error])
      BY <2>2
    <3> DEFINE s == [snapshot EXCEPT !.error = error]
    <3>2. /\ s \in Status /\ s.state = "Ready" /\ s.reason = snapshot.reason
          /\ s.connected = snapshot.connected /\ s.resolved = snapshot.resolved
          /\ s.available = snapshot.available /\ s.subscribed = snapshot.subscribed
      BY <1>2 DEF Status
    <3>3. Write(s)
      BY <3>1
    <3> HIDE DEF s
    <3>4. Shape(s)
      BY <1>2, <3>2 DEF Shape
    <3>5. /\ snapshot' = s /\ writer' = s
          /\ file' \in Status /\ unwritten' \in BOOLEAN
          /\ ~unwritten' => file' = writer'
      BY <3>2, <3>3, WriteStep DEF Inv
    <3> QED
      BY <3>2, <3>4, <3>5
  <2> QED
    BY <2>1, <2>2
<1>4. session_active' = session_active /\ subscriptions' = subscriptions
      /\ registrations' = registrations /\ (unsynced' => session_active')
      /\ unsynced' \in BOOLEAN
  BY <1>1 DEF waited, Inv, TypeOK
<1>5. TypeOK'
  BY <1>3, <1>4 DEF Inv, TypeOK, waited, linkVars, recoveryVars, historyVars
<1>6. session_active' = TRUE /\ subscriptions' = TRUE /\ snapshot'.subscribed = TRUE
      /\ registrations'
  <2>1. session_active = TRUE /\ subscriptions = TRUE
    BY <1>1 DEF Inv, TypeOK
  <2>2. session_active = snapshot.subscribed
    BY DEF Inv, Sessions
  <2> QED
    BY <1>1, <1>3, <1>4, <2>1, <2>2
<1>7. Sessions' /\ Places'
  BY <1>3, <1>6 DEF Sessions, Places
<1>8. Written'
  BY <1>3 DEF Written, Shape
<1> QED
  BY <1>5, <1>7, <1>8 DEF Inv

\* A packet or a queued uid was worked on.
LEMMA WorkDoneStep == ASSUME Inv, WorkDone PROVE Inv'
<1>1. /\ pc = "wait" /\ pc' = "reconcile" /\ snapshot.state = "Ready"
      /\ UNCHANGED <<waited, subscriptions, session_active, backoff_index>>
      /\ unsynced' = FALSE
  BY DEF WorkDone
<1>2. \/ UNCHANGED statusVars
      \/ \E error \in Code : Write([snapshot EXCEPT !.error = error])
  <2>1. PICK failed \in BOOLEAN :
           \/ UNCHANGED statusVars
           \/ Write([snapshot EXCEPT !.error = IF failed THEN "session" ELSE @])
    BY DEF WorkDone
  <2>2. snapshot.error \in Code /\ "session" \in Code
    BY DEF Inv, TypeOK, Status, Code
  <2> QED
    BY <2>1, <2>2
<1> QED
  BY <1>1, <1>2, KeptStep

\* A packet was discarded.
LEMMA PacketDiscardedStep == ASSUME Inv, PacketDiscarded PROVE Inv'
<1>1. /\ pc = "wait" /\ pc' = "reconcile" /\ snapshot.state = "Ready"
      /\ UNCHANGED <<waited, subscriptions, session_active, backoff_index>>
      /\ unsynced' = unsynced
      /\ Write([snapshot EXCEPT !.error = "packet"])
  BY DEF PacketDiscarded
<1>2. "packet" \in Code
  BY DEF Code
<1> QED
  BY <1>1, <1>2, KeptStep

\* A stream ends: no session is left, although the state is still "ready".
LEMMA StreamFailsStep == ASSUME Inv, StreamFails PROVE Inv'
<1>1. /\ pc = "wait" /\ pc' = "reconcile" /\ snapshot.state = "Ready" /\ StopSession
      /\ UNCHANGED <<linkVars, registrations, observed, recoveryVars, historyVars, backoff_index>>
  BY DEF StreamFails
<1>2. PICK failed \in EndErrors :
         Write(Ended([snapshot EXCEPT !.error = "ancs-stream-failed"], failed))
  BY DEF StreamFails
<1> DEFINE t == [snapshot EXCEPT !.error = "ancs-stream-failed"]
           s == Ended(t, failed)
<1>3. failed \in BOOLEAN
  BY <1>2 DEF EndErrors, Inv, TypeOK
<1>4. t \in Status /\ t.state = "Ready" /\ t.reason = snapshot.reason
  BY <1>1 DEF Inv, TypeOK, Status, Code
<1>5. Write(s)
  BY <1>2
<1>6. s \in Status /\ s.state = "Ready" /\ s.reason = snapshot.reason /\ s.subscribed = FALSE
  <2> HIDE DEF t
  <2> QED
    BY <1>3, <1>4, EndedRecord
<1> HIDE DEF s, t
<1>7. Shape(s)
  BY <1>1, <1>6 DEF Inv, Written, Running, Shape
<1>8. /\ snapshot' = s /\ writer' = s
      /\ file' \in Status /\ unwritten' \in BOOLEAN
      /\ ~unwritten' => file' = writer'
  BY <1>5, <1>6, WriteStep DEF Inv
<1>9. session_active' = FALSE /\ unsynced' = FALSE /\ subscriptions' = FALSE
  BY <1>1 DEF StopSession
<1>10. disturbances' \in 0..MaxDisturbances
  <2>1. Disturb
    BY DEF StreamFails
  <2> QED
    BY <2>1, DisturbStep DEF Inv
<1>11. TypeOK'
  BY <1>1, <1>6, <1>8, <1>9, <1>10 DEF Inv, TypeOK, linkVars, recoveryVars, historyVars
<1>12. Sessions' /\ Places'
  BY <1>1, <1>6, <1>8, <1>9 DEF Sessions, Places
<1>13. Written'
  BY <1>7, <1>8 DEF Written
<1> QED
  BY <1>11, <1>12, <1>13 DEF Inv

\* A signal or a crash: the transport holds nothing.
LEMMA StopStep == ASSUME Inv, Stop PROVE Inv'
<1>1. /\ pc' \in {"stopped", "crashed"} /\ StopSession /\ Release /\ observed' = "none"
      /\ UNCHANGED <<bluez, phone, fileVars, backoff_index, recoveryVars, historyVars>>
  BY DEF Stop
<1>2. disturbances' \in 0..MaxDisturbances
  <2>1. Disturb
    BY DEF Stop
  <2> QED
    BY <2>1, DisturbStep DEF Inv
<1>3. snapshot' \in Status /\ (pc' = "stopped" => snapshot'.subscribed = FALSE)
  <2>1. snapshot \in Status /\ unsynced \in BOOLEAN
    BY DEF Inv, TypeOK
  <2>2. CASE pc' = "stopped"
    BY <2>1, <2>2, EndedRecord DEF Stop
  <2>3. CASE pc' = "crashed"
    BY <2>1, <2>3 DEF Stop
  <2> QED
    BY <1>1, <2>2, <2>3
<1>4. session_active' = FALSE /\ unsynced' = FALSE /\ subscriptions' = FALSE
  BY <1>1 DEF StopSession
<1>5. TypeOK'
  BY <1>1, <1>2, <1>3, <1>4
  DEF Inv, TypeOK, Release, fileVars, recoveryVars, historyVars, Observation
<1>6. Sessions' /\ Places'
  BY <1>1, <1>3, <1>4 DEF Sessions, Places
<1>7. Written'
  BY <1>1 DEF Inv, Written, Running, fileVars
<1> QED
  BY <1>5, <1>6, <1>7 DEF Inv

-----------------------------------------------------------------------------
(* The invariant *)

\* The invariant holds at the start.
LEMMA InitInv == Init => Inv
<1> SUFFICES ASSUME Init PROVE Inv
  OBVIOUS
<1> USE DEF Init
<1>1. TypeOK
  <2>1. Counters
    BY Thresholds, BoundAssumption DEF Counters
  <2>2. since \in 0..Long /\ gap \in 0..Long
    BY DEF Long
  <2>3. backoff_index \in 0..LastBackoff /\ disturbances \in 0..MaxDisturbances
    BY BoundAssumption
  <2> QED
    BY FreshStatus, <2>1, <2>2, <2>3 DEF TypeOK, Counters, Observation
<1>2. Sessions /\ Places
  BY FreshStatus DEF Sessions, Places
<1>3. Written
  BY FreshStatus DEF Written
<1> QED
  BY <1>1, <1>2, <1>3 DEF Inv

\* Every step keeps the invariant.
LEMMA NextInv == Inv /\ [Next]_vars => Inv'
<1> SUFFICES ASSUME Inv, [Next]_vars PROVE Inv'
  OBVIOUS
<1>1. CASE BluezStops \/ AdapterPowersOff \/ AdvertisementFails \/ PhoneRetreats
           \/ AdapterReturns \/ PhoneAdvances
  BY <1>1, EnvironmentStep
<1>2. CASE Stop
  BY <1>2, StopStep
<1>3. CASE Start
  BY <1>3, StartStep
<1>4. CASE Restart
  BY <1>4, RestartStep
<1>5. CASE Reconcile
  BY <1>5, ReconcileStep
<1>6. CASE HandleError
  BY <1>6, HandleErrorStep
<1>7. CASE Elsewhere
  BY <1>7, ElsewhereStep
<1>8. CASE HandleWaitingForPhone
  BY <1>8, HandleWaitingForPhoneStep
<1>9. CASE HandleAvailable
  BY <1>9, HandleAvailableStep
<1>10. CASE HandleReady
  BY <1>10, HandleReadyStep
<1>11. CASE SubscribeSucceeds
  BY <1>11, SubscribeSucceedsStep
<1>12. CASE SubscribeFails
  BY <1>12, SubscribeFailsStep
<1>13. CASE BackoffElapses \/ IntervalElapses
  BY <1>13, ElapsedStep
<1>14. CASE WorkDone
  BY <1>14, WorkDoneStep
<1>15. CASE PacketDiscarded
  BY <1>15, PacketDiscardedStep
<1>16. CASE StreamFails
  BY <1>16, StreamFailsStep
<1>17. CASE UNCHANGED vars
  BY <1>17
  DEF Inv, TypeOK, Sessions, Places, Written, Shape, Running, vars, linkVars, transportVars,
      statusVars, fileVars, recoveryVars, historyVars
<1> QED
  BY <1>1, <1>2, <1>3, <1>4, <1>5, <1>6, <1>7, <1>8, <1>9, <1>10, <1>11, <1>12, <1>13, <1>14,
     <1>15, <1>16, <1>17
  DEF Next, Disturbance, Daemon

\* The supervisor keeps its types, whatever the thresholds.
THEOREM TypeOKCorrect == Spec => []TypeOK
<1>1. Inv => TypeOK
  BY DEF Inv
<1> QED
  BY InitInv, NextInv, <1>1, PTL DEF Spec

\* The session of the supervisor, the flag it reports and the streams of the
\* transport agree, through failures, stops and restarts.
THEOREM SessionsAgreeCorrect == Spec => []SessionsAgree
<1>1. Inv => SessionsAgree
  BY DEF Inv, Sessions, SessionsAgree
<1> QED
  BY InitInv, NextInv, <1>1, PTL DEF Spec

\* "Ready", as the supervisor waits, is a subscribed session on registered
\* objects, and the other way round.
THEOREM ReadyMeansSubscribedCorrect == Spec => []ReadyMeansSubscribed
<1>1. Inv => ReadyMeansSubscribed
  BY DEF Inv, TypeOK, Sessions, Places, ReadyMeansSubscribed
<1> QED
  BY InitInv, NextInv, <1>1, PTL DEF Spec

\* What is reported is what was last written, although publish writes only when
\* the state or the reason changes: the other fields follow from those two.
THEOREM StatusIsCurrentCorrect == Spec => []StatusIsCurrent
<1>1. Inv => StatusIsCurrent
  BY DEF Inv, Written, Running, StatusIsCurrent
<1> QED
  BY InitInv, NextInv, <1>1, PTL DEF Spec

-----------------------------------------------------------------------------
(* The spacing of refreshes *)

\* Reconciliations of the iteration under way that a counter may yet count.
PendingWait == IF pc \in {"act", "subscribe"} THEN 1 ELSE 0
PendingFailure == IF pc = "subscribe" \/ (pc = "act" /\ observed = "available") THEN 1 ELSE 0

\* Each counter is outrun by the reconciliations there were.  Before the first
\* subscription one of them registered, after the refresh as at the start.
Outrun(n) == since = Long \/ n <= since

Spaced ==
    /\ gap >= Long
    /\ session_active => since = Long
    /\ pc = "crashed" => ~registrations
    /\ Outrun(waiting_for_phone_reconciles + PendingWait)
    /\ registrations \/ subscription_failures > 0 =>
          Outrun(subscription_failures + 1 + PendingFailure)

\* The thresholds of the code are three at the least, its limit of failures two.
Patient ==
    /\ FailureLimit + 1 >= Long
    /\ \A i \in 1..Len(StallThresholds) : StallThresholds[i] >= Long

\* Every step keeps the counters behind the reconciliations.
LEMMA NextSpaced == ASSUME Patient, Inv, Spaced, [Next]_vars PROVE Spaced'
<1>1. /\ since \in 0..Long /\ gap \in 0..Long
      /\ waiting_for_phone_reconciles \in Nat /\ subscription_failures \in Nat
      /\ session_active \in BOOLEAN
  <2>1. StallThresholds[passive_refresh_index + 1] \in Nat \ {0}
    BY Thresholds DEF Inv, TypeOK
  <2> QED
    BY <2>1, BoundAssumption DEF Inv, TypeOK
<1>2. CASE BluezStops \/ AdapterPowersOff \/ AdvertisementFails \/ PhoneRetreats
           \/ AdapterReturns \/ PhoneAdvances
  <2>1. UNCHANGED daemonVars
    BY <1>2 DEF BluezStops, AdapterPowersOff, AdvertisementFails, PhoneRetreats,
       AdapterReturns, PhoneAdvances
  <2> QED
    BY <2>1
    DEF Spaced, Outrun, PendingWait, PendingFailure, daemonVars, transportVars, recoveryVars,
        historyVars
<1>3. CASE Stop
  <2>1. /\ pc' \in {"stopped", "crashed"} /\ session_active' = FALSE /\ registrations' = FALSE
        /\ UNCHANGED <<recoveryVars, historyVars>>
    BY <1>3 DEF Stop, StopSession, Release
  <2> QED
    BY <1>1, <2>1
    DEF Spaced, Outrun, PendingWait, PendingFailure, recoveryVars, historyVars, Long
<1>4. CASE Start
  BY <1>4
  DEF Start, Spaced, Outrun, PendingWait, PendingFailure, transportVars, recoveryVars, historyVars
<1>5. CASE Restart
  <2>1. session_active' = FALSE /\ ~registrations'
    BY <1>1, <1>5 DEF Restart, Inv, Places, Spaced, transportVars
  <2>2. /\ pc' = "start" /\ waiting_for_phone_reconciles' = 0 /\ subscription_failures' = 0
        /\ since' = 0 /\ gap' = gap
    BY <1>5 DEF Restart, ResetTracking
  <2> QED
    BY <2>1, <2>2 DEF Spaced, Outrun, PendingWait, PendingFailure
<1>6. CASE Reconcile
  <2>1. /\ pc = "reconcile" /\ pc' = "act"
        /\ UNCHANGED <<session_active, waiting_for_phone_reconciles, subscription_failures, gap>>
        /\ since' = Smaller(since + 1, Long)
    BY <1>6 DEF Reconcile, recoveryVars
  <2>2. observed' = "available" => registrations
    BY <1>6 DEF Reconcile, ReconcileFails, ReconcileSeesOff, Register, ReconcileSeesDevice
  <2> QED
    BY <1>1, <2>1, <2>2
    DEF Smaller, Spaced, Outrun, PendingWait, PendingFailure, Long
<1>7. CASE HandleError
  <2>1. /\ pc = "act" /\ pc' = "wait" /\ session_active' = FALSE /\ registrations' = FALSE
        /\ waiting_for_phone_reconciles' = 0 /\ subscription_failures' = 0
        /\ UNCHANGED <<since, gap>>
    BY <1>7 DEF HandleError, Leave, StopSession, ResetTracking, Release, historyVars
  <2> QED
    BY <1>1, <2>1 DEF Spaced, Outrun, PendingWait, PendingFailure, Long
<1>8. CASE Elsewhere
  <2>1. /\ pc = "act" /\ pc' = "wait" /\ session_active' = FALSE
        /\ waiting_for_phone_reconciles' = 0
        /\ UNCHANGED <<registrations, subscription_failures, since, gap>>
    BY <1>8 DEF Elsewhere, Leave, StopSession, NoRefresh, historyVars
  <2> QED
    BY <1>1, <2>1 DEF Spaced, Outrun, PendingWait, PendingFailure, Long
<1>9. CASE HandleWaitingForPhone
  <2>1. pc = "act" /\ pc' = "wait" /\ session_active' = FALSE
    BY <1>9 DEF HandleWaitingForPhone, Leave, StopSession
  <2>2. CASE session_active \/ waiting_for_phone_reconciles + 1
                                  >= StallThresholds[passive_refresh_index + 1]
    <3>1. StallThresholds[passive_refresh_index + 1] \in Nat
          /\ StallThresholds[passive_refresh_index + 1] >= Long
      BY Thresholds DEF Inv, TypeOK, Patient
    <3>2. since = Long
      BY <1>1, <2>1, <2>2, <3>1 DEF Spaced, Outrun, PendingWait, PendingFailure, Long
    <3>3. Refresh
      BY <1>9, <2>2 DEF HandleWaitingForPhone
    <3> QED
      BY <2>1, <3>2, <3>3 DEF Refresh, Release, Spaced, Outrun, PendingWait, PendingFailure, Long
  <2>3. CASE ~(session_active \/ waiting_for_phone_reconciles + 1
                                    >= StallThresholds[passive_refresh_index + 1])
    <3>1. /\ waiting_for_phone_reconciles' = waiting_for_phone_reconciles + 1
          /\ subscription_failures' = subscription_failures
          /\ NoRefresh
      BY <1>9, <2>3 DEF HandleWaitingForPhone
    <3> QED
      BY <1>1, <2>1, <2>2, <3>1
      DEF NoRefresh, Spaced, Outrun, PendingWait, PendingFailure, historyVars, Long
  <2> QED
    BY <2>2, <2>3
<1>10. CASE HandleAvailable
  <2>1. /\ pc = "act" /\ observed = "available" /\ pc' = "subscribe"
        /\ waiting_for_phone_reconciles' = 0
        /\ UNCHANGED <<session_active, registrations, subscription_failures, since, gap>>
    BY <1>10 DEF HandleAvailable, transportVars, historyVars
  <2> QED
    BY <1>1, <2>1 DEF Spaced, Outrun, PendingWait, PendingFailure, Long
<1>11. CASE HandleReady \/ SubscribeSucceeds
  BY <1>1, <1>11
  DEF HandleReady, SubscribeSucceeds, Settle, ResetTracking, Spaced, Outrun, PendingWait,
      PendingFailure, Long
<1>12. CASE SubscribeFails
  <2>1. pc = "subscribe" /\ pc' = "wait" /\ session_active' = FALSE
    BY <1>12 DEF SubscribeFails, StopSession
  <2>2. registrations
    BY <2>1 DEF Inv, Places
  <2>3. CASE subscription_failures + 1 >= FailureLimit
    <3>1. since = Long
      BY <1>1, <2>1, <2>2, <2>3, BoundAssumption
      DEF Patient, Spaced, Outrun, PendingWait, PendingFailure, Long
    <3>2. Refresh
      BY <1>12, <2>3 DEF SubscribeFails
    <3> QED
      BY <2>1, <3>1, <3>2 DEF Refresh, Release, Spaced, Outrun, PendingWait, PendingFailure, Long
  <2>4. CASE ~(subscription_failures + 1 >= FailureLimit)
    <3>1. /\ subscription_failures' = subscription_failures + 1
          /\ waiting_for_phone_reconciles' = waiting_for_phone_reconciles
          /\ NoRefresh
      BY <1>12, <2>4 DEF SubscribeFails
    <3> QED
      BY <1>1, <2>1, <2>2, <3>1
      DEF NoRefresh, Spaced, Outrun, PendingWait, PendingFailure, historyVars, Long
  <2> QED
    BY <2>3, <2>4
<1>13. CASE BackoffElapses \/ IntervalElapses \/ WorkDone \/ PacketDiscarded
  <2>1. /\ pc = "wait" /\ pc' = "reconcile"
        /\ UNCHANGED <<waited, session_active>>
    BY <1>13 DEF BackoffElapses, IntervalElapses, WorkDone, PacketDiscarded
  <2> QED
    BY <2>1 DEF waited, Spaced, Outrun, PendingWait, PendingFailure, recoveryVars, historyVars
<1>14. CASE StreamFails
  <2>1. /\ pc = "wait" /\ pc' = "reconcile" /\ session_active' = FALSE
        /\ UNCHANGED <<registrations, recoveryVars, historyVars>>
    BY <1>14 DEF StreamFails, StopSession
  <2> QED
    BY <2>1 DEF Spaced, Outrun, PendingWait, PendingFailure, recoveryVars, historyVars
<1>15. CASE UNCHANGED vars
  BY <1>15
  DEF Spaced, Outrun, PendingWait, PendingFailure, vars, transportVars, recoveryVars, historyVars
<1> QED
  BY <1>2, <1>3, <1>4, <1>5, <1>6, <1>7, <1>8, <1>9, <1>10, <1>11, <1>12, <1>13, <1>14, <1>15
  DEF Next, Disturbance, Daemon

\* Registrations are not churned: with thresholds of three or more, as in the
\* code, three reconciliations pass before each refresh unless a session does.
THEOREM RefreshesAreSpacedCorrect == ASSUME Patient PROVE Spec => []RefreshesAreSpaced
<1>1. Init => Spaced
  BY DEF Init, Spaced, Outrun, PendingWait, PendingFailure, Long
<1>2. Inv /\ Spaced /\ [Next]_vars => Spaced'
  BY NextSpaced
<1>3. Spaced => RefreshesAreSpaced
  BY DEF Spaced, RefreshesAreSpaced, Long
<1> QED
  BY InitInv, NextInv, <1>1, <1>2, <1>3, PTL DEF Spec

=============================================================================
