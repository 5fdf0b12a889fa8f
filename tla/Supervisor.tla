----------------------------- MODULE Supervisor -----------------------------
(***************************************************************************)
(* The recovery loop: Supervisor of src/bluetooth/supervisor.rs over       *)
(* BluerTransport of src/bluetooth/transport.rs, with BlueZ, the adapter   *)
(* and the iPhone's link as an environment that fails and recovers.  The   *)
(* ANCS session itself (SessionEngine) is seen as active or not.           *)
(*                                                                         *)
(* pc is where run() stands: "start" before the first publication,         *)
(* "reconcile" before transport.reconcile, "act" with its observation in   *)
(* hand, "subscribe" before transport.subscribe, "wait" in the sleep or    *)
(* the select that ends an iteration, "stopped" and "crashed" when the     *)
(* process is gone.  The environment changes between any two of them.      *)
(*                                                                         *)
(* A status record holds what StatusSnapshot and RuntimeStatus share, less *)
(* the counters: snapshot is the supervisor's, writer the one the status   *)
(* writer last tried to write, file the one on disk.                       *)
(***************************************************************************)
EXTENDS Naturals, Sequences

CONSTANTS
    LastBackoff,     \* index of the last entry of BACKOFF
    StallThresholds, \* PASSIVE_REFRESH_RECONCILES
    FailureLimit,    \* SUBSCRIPTION_FAILURES_BEFORE_REFRESH
    MaxDisturbances  \* bound: disturbances in one behaviour

ASSUME BoundAssumption ==
    /\ LastBackoff \in Nat
    /\ StallThresholds \in Seq(Nat \ {0}) /\ StallThresholds # <<>>
    /\ FailureLimit \in Nat \ {0}
    /\ MaxDisturbances \in Nat

VARIABLES
    bluez,         \* "down", "off" (adapter not powered) or "on"
    advertised,    \* BlueZ's advertisement for us: "no", "live", or "wedged",
                   \* which BlueZ counts and the phone does not answer
    phone,         \* "unbonded", "away", "connected", "resolved" or "ancs"
    disturbances,  \* disturbances so far, to bound the model
    registrations, \* the transport holds its application and advertisement
    subscriptions, \* the transport holds both notification streams
    pc, observed,
    session_active, unsynced, \* the engine has errors the snapshot has not
    snapshot, writer, file,
    unwritten,     \* the last write of the file failed
    backoff_index, waiting_for_phone_reconciles, passive_refresh_index,
    subscription_failures,
    since, gap     \* history: reconciles since the last refresh or session, and
                   \* their number when it last refreshed

linkVars == <<bluez, advertised, phone>>
transportVars == <<registrations, subscriptions>>
fileVars == <<writer, file, unwritten>>
statusVars == <<snapshot, fileVars>>
recoveryVars == <<waiting_for_phone_reconciles, passive_refresh_index, subscription_failures>>
historyVars == <<since, gap>>
vars == <<linkVars, disturbances, transportVars, pc, observed, session_active, unsynced,
          statusVars, backoff_index, recoveryVars, historyVars>>

State == {"WaitingForBluez", "WaitingForAdapter", "Advertising", "WaitingForPhone",
          "WaitingForServices", "WaitingForAuthorization", "Subscribing", "Ready",
          "Backoff", "Error"}
\* Reason and error codes; "session" and "packet" stand for the codes of the
\* engine and of a packet that is discarded.
Code == {"none", "bluez-unavailable", "adapter-powered-off", "configured-device-not-bonded",
         "subscribe-failed", "ancs-stream-failed", "session", "packet"}
Status == [state : State, reason : Code, error : Code, connected : BOOLEAN,
           resolved : BOOLEAN, available : BOOLEAN, subscribed : BOOLEAN]
Observation == {"none", "error", "powered-off", "advertising", "not-bonded", "waiting-for-phone",
                "waiting-for-services", "waiting-for-authorization", "available", "ready"}

\* since counts up to Long, beyond which spacing is of no interest.
Long == 3
Smaller(m, n) == IF m < n THEN m ELSE n

-----------------------------------------------------------------------------
(* The environment: external, as transport.rs reads it *)

Disturb ==
    /\ disturbances < MaxDisturbances
    /\ disturbances' = disturbances + 1

daemonVars == <<transportVars, pc, observed, session_active, unsynced, statusVars,
                backoff_index, recoveryVars, historyVars>>

\* The phone is no longer connected; its bond stays.
Disconnected == IF phone = "unbonded" THEN phone ELSE "away"

BluezStops ==
    /\ bluez # "down"
    /\ Disturb
    /\ bluez' = "down" /\ advertised' = "no" /\ phone' = Disconnected
    /\ UNCHANGED daemonVars

AdapterPowersOff ==
    /\ bluez = "on"
    /\ Disturb
    /\ bluez' = "off" /\ phone' = Disconnected
    /\ advertised' \in {advertised, "no"}
    /\ UNCHANGED daemonVars

AdvertisementFails ==
    /\ advertised = "live"
    /\ Disturb
    /\ advertised' \in {"no", "wedged"}
    /\ UNCHANGED <<bluez, phone, daemonVars>>

\* The phone leaves, forgets the bond, or withdraws ANCS or its services.
PhoneRetreats ==
    /\ phone # "unbonded"
    /\ Disturb
    /\ \/ phone' \in {"unbonded", "away"} /\ phone' # phone
       \/ phone = "ancs" /\ phone' \in {"connected", "resolved"}
    /\ UNCHANGED <<bluez, advertised, daemonVars>>

\* What comes back by itself, or by the user's hand.
AdapterReturns ==
    /\ bluez' = "on"
    /\ bluez \in {"down", "off"}
    /\ UNCHANGED <<advertised, phone, disturbances, daemonVars>>

\* The bonded phone connects when it sees the advertisement, then BlueZ resolves
\* its services and it publishes ANCS.
PhoneAdvances ==
    /\ bluez = "on"
    /\ \/ phone = "unbonded" /\ phone' = "away"
       \/ phone = "away" /\ advertised = "live" /\ phone' = "connected"
       \/ phone = "connected" /\ phone' = "resolved"
       \/ phone = "resolved" /\ phone' = "ancs"
    /\ UNCHANGED <<bluez, advertised, disturbances, daemonVars>>

-----------------------------------------------------------------------------
(* Publication *)

\* publish_current: the snapshot is written, or the write fails and is not retried.
Write(s) ==
    /\ snapshot' = s
    /\ writer' = s
    /\ \/ file' = s /\ unwritten' = FALSE
       \/ file' = file /\ unwritten' = TRUE

\* Mutant of Publish: the state alone decides, and the reason does not.
PublishStateOnly(s) ==
    IF s.state # snapshot.state
    THEN Write(s)
    ELSE snapshot' = s /\ UNCHANGED fileVars

\* publish: written on a transition of the state or the reason only.
Publish(s) ==
    IF s.state # snapshot.state \/ s.reason # snapshot.reason
    THEN Write(s)
    ELSE snapshot' = s /\ UNCHANGED fileVars

-----------------------------------------------------------------------------
(* The pieces of reconcile_once *)

\* Mutant of Ended: the snapshot keeps claiming the subscription.
EndedSubscribed(s, failed) ==
    [s EXCEPT !.available = FALSE, !.error = IF failed THEN "session" ELSE @]

\* What end_session does to the snapshot; failed: the engine had errors to sync.
Ended(s, failed) ==
    [s EXCEPT !.subscribed = FALSE, !.available = FALSE,
              !.error = IF failed THEN "session" ELSE @]

\* The errors end_session may find: those not yet synced, and those of closing
\* the notifications of an active session.
EndErrors == IF unsynced THEN {TRUE} ELSE {FALSE, session_active}

\* Mutant of StopSession: the streams are kept.
KeepStreams ==
    /\ session_active' = FALSE
    /\ unsynced' = FALSE
    /\ UNCHANGED subscriptions

StopSession ==
    /\ session_active' = FALSE
    /\ unsynced' = FALSE
    /\ subscriptions' = FALSE

\* reset_bluez_session: everything held on BlueZ is released.
Release ==
    /\ registrations' = FALSE
    /\ advertised' = "no"

\* Mutant of Refresh: the counters that led to it are kept.
RefreshKeepsCounters ==
    /\ Release
    /\ passive_refresh_index' = Smaller(passive_refresh_index + 1, Len(StallThresholds) - 1)
    /\ gap' = since
    /\ since' = 0
    /\ UNCHANGED <<waiting_for_phone_reconciles, subscription_failures>>

\* refresh_bluez_session after a stall; the next stall is given more time.
Refresh ==
    /\ Release
    /\ waiting_for_phone_reconciles' = 0
    /\ subscription_failures' = 0
    /\ passive_refresh_index' = Smaller(passive_refresh_index + 1, Len(StallThresholds) - 1)
    /\ gap' = since
    /\ since' = 0

NoRefresh == UNCHANGED <<registrations, advertised, passive_refresh_index, historyVars>>

\* reset_recovery_tracking
ResetTracking ==
    /\ waiting_for_phone_reconciles' = 0
    /\ passive_refresh_index' = 0
    /\ subscription_failures' = 0

-----------------------------------------------------------------------------
(* transport.reconcile *)

\* The registrations are gone from BlueZ, although the transport holds them.
RegistrationsLost == registrations /\ advertised = "no"

\* What the configured device looks like once the registrations are in place.
DeviceObservation ==
    CASE phone = "unbonded" -> "not-bonded"
      [] phone = "away" -> "waiting-for-phone"
      [] phone = "connected" -> "waiting-for-services"
      [] phone = "resolved" -> "waiting-for-authorization"
      [] phone = "ancs" -> IF subscriptions THEN "ready" ELSE "available"

\* Any D-Bus call may fail, before or after lost registrations were released.
ReconcileFails ==
    /\ IF bluez = "down" THEN UNCHANGED disturbances ELSE Disturb
    /\ observed' = "error"
    /\ \/ UNCHANGED <<transportVars, advertised>>
       \/ RegistrationsLost /\ Release /\ subscriptions' = FALSE

ReconcileSeesOff ==
    /\ bluez = "off"
    /\ observed' = "powered-off"
    /\ UNCHANGED <<transportVars, advertised, disturbances>>

\* Nothing is registered, or what was is lost and reset_bluez_session ran.
Register ==
    /\ bluez = "on"
    /\ ~registrations \/ RegistrationsLost
    /\ observed' = "advertising"
    /\ registrations' = TRUE /\ advertised' = "live"
    /\ subscriptions' = (IF RegistrationsLost THEN FALSE ELSE subscriptions)
    /\ UNCHANGED disturbances

ReconcileSeesDevice ==
    /\ bluez = "on"
    /\ registrations /\ ~RegistrationsLost
    /\ observed' = DeviceObservation
    /\ UNCHANGED <<transportVars, advertised, disturbances>>

\* update_device_name: when the name changed, the writer's record is written.
UpdateName ==
    /\ \/ file' = writer /\ unwritten' = FALSE
       \/ UNCHANGED <<file, unwritten>>
    /\ UNCHANGED <<snapshot, writer>>

\* One call of transport.reconcile, and the update of the name that follows it.
Reconcile ==
    /\ pc = "reconcile"
    /\ ReconcileFails \/ ReconcileSeesOff \/ Register \/ ReconcileSeesDevice
    /\ UpdateName
    /\ pc' = "act"
    /\ since' = Smaller(since + 1, Long)
    /\ UNCHANGED <<bluez, phone, session_active, unsynced, backoff_index,
                   recoveryVars, gap>>

-----------------------------------------------------------------------------
(* reconcile_once: one action per observation *)

acted == <<bluez, phone, disturbances, backoff_index>>

\* The observation is o: the session ends, and error, if any, is recorded.
Leave(o, error, state, reason, connected, resolved) ==
    /\ pc = "act" /\ observed = o
    /\ StopSession
    /\ \E failed \in EndErrors :
          LET s == Ended(snapshot, failed)
          IN  Publish([s EXCEPT !.error = IF error = "none" THEN @ ELSE error,
                                !.state = state, !.reason = reason,
                                !.connected = connected, !.resolved = resolved])
    /\ pc' = "wait"
    /\ observed' = "none"

\* BlueZ failed: everything is released, and the next attempt backs off.
HandleError ==
    /\ Leave("error", "bluez-unavailable", "Backoff", "bluez-unavailable", FALSE, FALSE)
    /\ Release
    /\ ResetTracking
    /\ UNCHANGED <<acted, historyVars>>

\* The observations that end the session and restart the count of the stall.
Elsewhere ==
    /\ \/ Leave("powered-off", "none", "WaitingForAdapter", "adapter-powered-off", FALSE, FALSE)
       \/ Leave("advertising", "none", "Advertising", "none", FALSE, FALSE)
       \/ Leave("not-bonded", "configured-device-not-bonded", "Error",
                "configured-device-not-bonded", FALSE, FALSE)
       \/ Leave("waiting-for-services", "none", "WaitingForServices", "none", TRUE, FALSE)
       \/ Leave("waiting-for-authorization", "none", "WaitingForAuthorization", "none", TRUE, TRUE)
    /\ waiting_for_phone_reconciles' = 0
    /\ UNCHANGED <<acted, subscription_failures>>
    /\ NoRefresh

\* Mutant of HandleWaitingForPhone: one reconciliation too many.
HandleWaitingForPhoneLate ==
    /\ Leave("waiting-for-phone", "none", "WaitingForPhone", "none", FALSE, FALSE)
    /\ LET waited == waiting_for_phone_reconciles + 1
           stalled == waited > StallThresholds[passive_refresh_index + 1]
       IN  IF session_active \/ stalled
           THEN Refresh
           ELSE /\ waiting_for_phone_reconciles' = waited
                /\ UNCHANGED subscription_failures
                /\ NoRefresh
    /\ UNCHANGED acted

\* Mutant of HandleWaitingForPhone: a stall is never noticed.
HandleWaitingForPhonePatiently ==
    /\ Leave("waiting-for-phone", "none", "WaitingForPhone", "none", FALSE, FALSE)
    /\ IF session_active
       THEN Refresh
       ELSE UNCHANGED <<waiting_for_phone_reconciles, subscription_failures>> /\ NoRefresh
    /\ UNCHANGED acted

\* The phone is away: a refresh when a session just ended, or when it has been
\* away for as many reconciliations as the threshold.
HandleWaitingForPhone ==
    /\ Leave("waiting-for-phone", "none", "WaitingForPhone", "none", FALSE, FALSE)
    /\ LET waited == waiting_for_phone_reconciles + 1
           stalled == waited >= StallThresholds[passive_refresh_index + 1]
       IN  IF session_active \/ stalled
           THEN Refresh
           ELSE /\ waiting_for_phone_reconciles' = waited
                /\ UNCHANGED subscription_failures
                /\ NoRefresh
    /\ UNCHANGED acted

\* ANCS is there: "subscribing" is published and the subscription attempted.
HandleAvailable ==
    /\ pc = "act" /\ observed = "available"
    /\ waiting_for_phone_reconciles' = 0
    /\ Publish([snapshot EXCEPT !.state = "Subscribing", !.reason = "none", !.connected = TRUE,
                                !.resolved = TRUE, !.available = TRUE])
    /\ pc' = "subscribe"
    /\ observed' = "none"
    /\ UNCHANGED <<acted, advertised, transportVars, session_active, unsynced,
                   passive_refresh_index, subscription_failures, historyVars>>

Established(s) ==
    [s EXCEPT !.state = "Ready", !.reason = "none", !.connected = TRUE, !.resolved = TRUE,
              !.available = TRUE, !.subscribed = TRUE]

\* A session is up, or still up.
Settle ==
    /\ session_active' = TRUE
    /\ backoff_index' = 0
    /\ ResetTracking
    /\ Publish(Established(snapshot))
    /\ pc' = "wait"
    /\ observed' = "none"
    /\ since' = Long
    /\ UNCHANGED <<linkVars, disturbances, registrations, unsynced, gap>>

SubscribeSucceeds ==
    /\ pc = "subscribe"
    /\ phone = "ancs"
    /\ subscriptions' = TRUE
    /\ Settle

HandleReady ==
    /\ pc = "act" /\ observed = "ready"
    /\ UNCHANGED subscriptions
    /\ Settle

\* A subscription fails: because the phone changed since, or by itself.
SubscribeFails ==
    /\ pc = "subscribe"
    /\ IF phone = "ancs" THEN Disturb ELSE UNCHANGED disturbances
    /\ StopSession
    /\ \E failed \in EndErrors :
          Publish([Ended(snapshot, failed) EXCEPT !.error = "subscribe-failed",
                                                  !.state = "WaitingForAuthorization",
                                                  !.reason = "subscribe-failed"])
    /\ IF subscription_failures + 1 >= FailureLimit
       THEN Refresh
       ELSE /\ subscription_failures' = subscription_failures + 1
            /\ UNCHANGED waiting_for_phone_reconciles
            /\ NoRefresh
    /\ pc' = "wait"
    /\ UNCHANGED <<bluez, phone, observed, backoff_index>>

-----------------------------------------------------------------------------
(* run: the end of an iteration *)

waited == <<linkVars, disturbances, registrations, observed, recoveryVars, historyVars>>

BackoffElapses ==
    /\ pc = "wait" /\ snapshot.state = "Backoff"
    /\ backoff_index' = Smaller(backoff_index + 1, LastBackoff)
    /\ pc' = "reconcile"
    /\ UNCHANGED <<waited, subscriptions, session_active, unsynced, statusVars>>

\* RECONCILE_INTERVAL passes.  In Ready it drops the handling of a packet, which
\* may leave errors of the engine unsynced.
IntervalElapses ==
    /\ pc = "wait" /\ snapshot.state # "Backoff"
    /\ unsynced' \in {unsynced, snapshot.state = "Ready" \/ unsynced}
    /\ pc' = "reconcile"
    /\ UNCHANGED <<waited, subscriptions, session_active, statusVars, backoff_index>>

\* A packet is handled or a queued uid processed; new metadata is published.
WorkDone ==
    /\ pc = "wait" /\ snapshot.state = "Ready"
    /\ \E failed \in IF unsynced THEN {TRUE} ELSE BOOLEAN :
          \/ ~failed /\ UNCHANGED statusVars
          \/ Write([snapshot EXCEPT !.error = IF failed THEN "session" ELSE @])
    /\ unsynced' = FALSE
    /\ pc' = "reconcile"
    /\ UNCHANGED <<waited, subscriptions, session_active, backoff_index>>

\* A malformed event or an unsolicited response: discarded, and published.
PacketDiscarded ==
    /\ pc = "wait" /\ snapshot.state = "Ready"
    /\ Write([snapshot EXCEPT !.error = "packet"])
    /\ pc' = "reconcile"
    /\ UNCHANGED <<waited, subscriptions, session_active, unsynced, backoff_index>>

\* A stream ends: the session ends, and the state is still Ready.
StreamFails ==
    /\ pc = "wait" /\ snapshot.state = "Ready"
    /\ Disturb
    /\ StopSession
    /\ \E failed \in EndErrors :
          Write(Ended([snapshot EXCEPT !.error = "ancs-stream-failed"], failed))
    /\ pc' = "reconcile"
    /\ UNCHANGED <<linkVars, registrations, observed, recoveryVars, historyVars, backoff_index>>

-----------------------------------------------------------------------------
(* The process: a signal, a crash, and the next start *)

\* A signal drops run() wherever it stands; shutdown releases everything and
\* publishes nothing.  A crash releases it too: BlueZ drops a lost client.
Stop ==
    /\ pc \notin {"stopped", "crashed"}
    /\ Disturb
    /\ pc' \in {"stopped", "crashed"}
    /\ StopSession
    /\ Release
    /\ observed' = "none"
    /\ snapshot' = IF pc' = "stopped" THEN Ended(snapshot, unsynced) ELSE snapshot
    /\ UNCHANGED <<bluez, phone, fileVars, backoff_index, recoveryVars, historyVars>>

Fresh == [state |-> "WaitingForBluez", reason |-> "none", error |-> "none",
          connected |-> FALSE, resolved |-> FALSE, available |-> FALSE, subscribed |-> FALSE]

\* systemd starts the daemon again after a crash; the file is what it was.
Restart ==
    /\ pc = "crashed"
    /\ pc' = "start"
    /\ snapshot' = Fresh /\ writer' = Fresh /\ unwritten' = TRUE
    /\ backoff_index' = 0
    /\ ResetTracking
    /\ since' = 0
    /\ UNCHANGED <<linkVars, disturbances, transportVars, observed, session_active, unsynced,
                   file, gap>>

\* run publishes before its loop.
Start ==
    /\ pc = "start"
    /\ Write(snapshot)
    /\ pc' = "reconcile"
    /\ UNCHANGED <<linkVars, disturbances, transportVars, observed, session_active, unsynced,
                   backoff_index, recoveryVars, historyVars>>

-----------------------------------------------------------------------------
Init ==
    /\ bluez \in {"down", "off", "on"}
    /\ phone \in {"unbonded", "away"}
    /\ advertised = "no"
    /\ disturbances = 0
    /\ registrations = FALSE /\ subscriptions = FALSE
    /\ pc = "start" /\ observed = "none"
    /\ session_active = FALSE /\ unsynced = FALSE
    /\ snapshot = Fresh /\ writer = Fresh /\ file = Fresh /\ unwritten = TRUE
    /\ backoff_index = 0
    /\ waiting_for_phone_reconciles = 0
    /\ passive_refresh_index = 0
    /\ subscription_failures = 0
    /\ since = 0 /\ gap = Long

Disturbance ==
    BluezStops \/ AdapterPowersOff \/ AdvertisementFails \/ PhoneRetreats \/ Stop

Daemon ==
    \/ Start \/ Restart
    \/ Reconcile
    \/ HandleError \/ Elsewhere \/ HandleWaitingForPhone \/ HandleAvailable \/ HandleReady
    \/ SubscribeSucceeds \/ SubscribeFails
    \/ BackoffElapses \/ IntervalElapses \/ WorkDone \/ PacketDiscarded \/ StreamFails

Next == Disturbance \/ AdapterReturns \/ PhoneAdvances \/ Daemon

Spec == Init /\ [][Next]_vars

\* The daemon is scheduled and its timers elapse.  What the environment can give
\* back, it gives back.  The phone's progress is strongly fair: a refresh takes
\* the advertisement away for an iteration, and the phone must see it in between.
FairSpec ==
    /\ Spec
    /\ WF_vars(Daemon)
    /\ WF_vars(AdapterReturns)
    /\ SF_vars(PhoneAdvances)

-----------------------------------------------------------------------------
(* Properties *)

TypeOK ==
    /\ bluez \in {"down", "off", "on"}
    /\ advertised \in {"no", "live", "wedged"}
    /\ phone \in {"unbonded", "away", "connected", "resolved", "ancs"}
    /\ disturbances \in 0..MaxDisturbances
    /\ registrations \in BOOLEAN /\ subscriptions \in BOOLEAN
    /\ pc \in {"start", "reconcile", "act", "subscribe", "wait", "stopped", "crashed"}
    /\ observed \in Observation
    /\ session_active \in BOOLEAN /\ unsynced \in BOOLEAN
    /\ snapshot \in Status /\ writer \in Status /\ file \in Status /\ unwritten \in BOOLEAN
    /\ backoff_index \in 0..LastBackoff
    /\ passive_refresh_index \in 0..(Len(StallThresholds) - 1)
    /\ waiting_for_phone_reconciles \in 0..(StallThresholds[passive_refresh_index + 1] - 1)
    /\ subscription_failures \in 0..(FailureLimit - 1)
    /\ since \in 0..Long /\ gap \in 0..Long

\* The supervisor's session, the subscribed flag it reports and the transport's
\* streams are the same fact.  Only transport.reconcile may drop the streams
\* first, and then the next step ends the session.
SessionsAgree ==
    pc # "crashed" =>
        /\ session_active = snapshot.subscribed
        /\ subscriptions => session_active
        /\ pc # "act" => session_active = subscriptions

\* "Ready" as the supervisor waits means a session with both streams, on an
\* application and advertisement that are registered; and a session is only
\* waited on in "ready".
ReadyMeansSubscribed ==
    /\ subscriptions => registrations
    /\ pc = "wait" => (snapshot.state = "Ready") = (session_active /\ subscriptions)

\* "The daemon publishes after every state transition, and republishes when
\* error metadata changes": what the supervisor holds while it waits is what it
\* last wrote, and what the file says unless that write failed.
StatusIsCurrent ==
    /\ pc = "wait" => writer = snapshot
    /\ pc \in {"reconcile", "wait"} /\ ~unwritten => file = writer

\* "A bounded startup stall": registrations are not churned.  Without a session
\* in between, three reconciliations pass before a refresh.
RefreshesAreSpaced == gap >= 3

\* Routine recovery needs no restart and no generic connection: once nothing
\* disturbs the link any more the daemon becomes and stays ready, also when its
\* advertisement was wedged and only a refresh replaces it.
Recovers == <>[](snapshot.state = "Ready" \/ pc = "stopped")

\* "Subscribe Data Source and then Notification Source.  Publish ready": a
\* status that says ready says subscribed.  The code breaks this: a failed
\* stream is published with the state still ready.
PublishedReadyIsSubscribed == file.state = "Ready" => file.subscribed

=============================================================================
