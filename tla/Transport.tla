----------------------------- MODULE Transport -----------------------------
(***************************************************************************)
(* BluerTransport of src/bluetooth/transport.rs over the BlueZ it shares   *)
(* with a setup and with other programs that advertise.  BlueZ tells only  *)
(* how many advertisements are active, and whether somebody is notified,   *)
(* so what the transport believes of its own is an inference.              *)
(*                                                                         *)
(* A handle that is dropped is released later: its advertisement is then   *)
(* "dying" and its notification stream "stopping", and both still count.   *)
(*                                                                         *)
(* pc is the await the daemon is at: "idle" between two calls of the       *)
(* supervisor, "judge", "baseline", "advertise" and "device" in reconcile, *)
(* "data" and "notification" in subscribe, "quiesce" and "release" in the  *)
(* cleanups, which go on at then, and "exited".  step is the same for the  *)
(* setup, from its window to its exit after cleanup_temporary.             *)
(***************************************************************************)
EXTENDS Integers

CONSTANTS
    StallThreshold,  \* reconciliations without the phone before a refresh
    MaxOthers,       \* bound: advertisements of other programs
    MaxDying,        \* bound: dropped advertisements BlueZ still has when one is dropped
    MaxEvents        \* bound: failures, and what BlueZ, phone and others do unasked

ASSUME BoundAssumption ==
    StallThreshold \in Nat \ {0} /\ MaxOthers \in Nat /\ MaxDying \in Nat \ {0} /\ MaxEvents \in Nat

Client == {"daemon", "setup"}
Source == {"notification", "data"}
NoBaseline == -1

VARIABLES
    powered,         \* the adapter is
    phone,           \* "away", "connected" or "ancs"
    live, dying,     \* live[c], dying[c]: advertisements of c, held and dropped
    others,          \* advertisements of other programs
    stream,          \* stream[c][s]: "off", "on", "ended" under its holder, or "stopping"
    events,          \* to bound the model
    registrations,   \* the transport holds its handles
    advertising_baseline, characteristics, subscriptions,
    pc, then,
    counted,         \* the baseline ensure_registrations has read, or the one
                     \* release_registrations has taken
    observed,        \* what the last reconcile returned
    waited,          \* waiting_for_phone_reconciles
    step, baseline, result,  \* the setup
    stored,          \* what the setup has stored for its cleanup to wait for
    came,            \* history: another advertisement came since the transport read
                     \* its baseline
    left,            \* history: clients in whose baseline one counted that has left
    abandoned,       \* history: the daemon did not see the streams it dropped stop
    unread           \* history: a wait of the setup's cleanup ended in a failed read

bluezVars == <<powered, phone, live, dying, others, stream>>
countVars == <<live, dying, others>>
heldVars == <<registrations, advertising_baseline, characteristics, subscriptions>>
daemonVars == <<heldVars, pc, then, counted, observed, waited>>
setupVars == <<step, baseline, result, stored>>
historyVars == <<came, left, abandoned, unread>>
vars == <<bluezVars, events, daemonVars, setupVars, historyVars>>

\* active_advertising_instances
Active == live["daemon"] + dying["daemon"] + live["setup"] + dying["setup"] + others

\* characteristic_stopped, where the property can be read: somebody is notified.
Notifying(s) == \E c \in Client : stream[c][s] \in {"on", "stopping"}

Off == [s \in Source |-> "off"]
On == [s \in Source |-> "on"]

Event == events < MaxEvents /\ events' = events + 1
Quietly == UNCHANGED events
Fails(possible) == IF possible THEN Event ELSE Quietly

\* The clients that have a baseline.
Counting ==
    {c \in Client : IF c = "daemon" THEN registrations \/ pc = "advertise"
                                    ELSE baseline # NoBaseline}

-----------------------------------------------------------------------------
(* Handles *)

\* Both streams are dropped, and StopNotify is scheduled for those that are on.
DropStreams(c) ==
    stream' = [stream EXCEPT ![c] =
                  [s \in Source |-> IF @[s] \in {"on", "stopping"} THEN "stopping" ELSE "off"]]

Register(c) ==
    /\ live' = [live EXCEPT ![c] = 1]
    /\ UNCHANGED <<dying, others>>

DropAdvertisement(c) ==
    /\ dying[c] + live[c] <= MaxDying
    /\ live' = [live EXCEPT ![c] = 0]
    /\ dying' = [dying EXCEPT ![c] = @ + live[c]]
    /\ UNCHANGED others

\* quiesce_notifications returns TRUE: it knows no source, it saw both stopped, or a
\* read failed, which counts as stopped.
QuiesceSucceeds(known) == Fails(known /\ \E s \in Source : Notifying(s))

\* It has polled for long enough, and gives up.
QuiesceTimesOut(known) == known /\ (\E s \in Source : Notifying(s)) /\ Quietly

-----------------------------------------------------------------------------
(* reconcile *)

Goto(place) == pc' = place

Return(observation) ==
    /\ Goto("idle")
    /\ observed' = observation

reconciling == <<bluezVars, setupVars, abandoned, unread>>

\* ensure_bluez, which may fail, and the power of the adapter.
Reconcile ==
    /\ pc = "idle" /\ observed = "none"
    /\ \/ Event /\ Return("error")
       \/ Quietly /\ ~powered /\ Return("powered-off")
       \/ /\ Quietly /\ powered
          /\ Goto(IF registrations THEN "judge" ELSE "baseline")
          /\ UNCHANGED observed
    /\ UNCHANGED <<reconciling, heldVars, then, counted, waited, came, left>>

\* advertisement_count_contains_registration
Contains(active, base) == active > base

\* registrations_are_live, and if not, reset_bluez_session within reconcile.
Judge ==
    /\ pc = "judge"
    /\ \/ Event /\ Return("error") /\ UNCHANGED <<subscriptions, stream, then>>
       \/ /\ Quietly /\ Contains(Active, advertising_baseline)
          /\ Goto("device")
          /\ UNCHANGED <<observed, subscriptions, stream, then>>
       \/ /\ Quietly /\ ~Contains(Active, advertising_baseline)
          /\ DropStreams("daemon")
          /\ subscriptions' = FALSE
          /\ Goto("quiesce") /\ then' = "baseline"
          /\ UNCHANGED observed
    /\ UNCHANGED <<powered, phone, countVars, registrations, advertising_baseline,
                   characteristics, counted, waited, setupVars, historyVars>>

\* ensure_registrations: the baseline is read before our advertisement counts.
ReadBaseline ==
    /\ pc = "baseline"
    /\ \/ Event /\ Return("error") /\ UNCHANGED <<counted, came, left>>
       \/ /\ Quietly
          /\ counted' = Active
          /\ Goto("advertise")
          /\ came' = FALSE /\ left' = left \ {"daemon"}
          /\ UNCHANGED observed
    /\ UNCHANGED <<reconciling, heldVars, then, waited>>

advertising == <<powered, phone, stream, characteristics, subscriptions, then, waited, setupVars,
                 historyVars>>

\* Mutant of Advertise: the baseline is read afterwards.
AdvertiseFirst ==
    /\ pc = "advertise"
    /\ Quietly
    /\ Register("daemon")
    /\ registrations' = TRUE
    /\ advertising_baseline' = Active + 1
    /\ Return("advertising")
    /\ counted' = NoBaseline
    /\ UNCHANGED advertising

\* The application and the advertisement are registered, or neither stays.
Advertise ==
    /\ pc = "advertise"
    /\ \/ /\ Fails(powered) /\ Return("error")
          /\ UNCHANGED <<countVars, registrations, advertising_baseline>>
       \/ /\ Quietly /\ powered
          /\ Register("daemon")
          /\ registrations' = TRUE
          /\ advertising_baseline' = counted
          /\ Return("advertising")
    /\ counted' = NoBaseline
    /\ UNCHANGED advertising

\* The configured device, and discover_characteristics.
Device ==
    /\ pc = "device"
    /\ \/ Event /\ Return("error") /\ UNCHANGED characteristics
       \/ /\ Quietly
          /\ Return(CASE phone = "away" -> "waiting-for-phone"
                      [] phone = "connected" -> "waiting-for-services"
                      [] phone = "ancs" -> IF subscriptions THEN "ready" ELSE "available")
          /\ characteristics' = (characteristics \/ phone = "ancs")
    /\ UNCHANGED <<reconciling, registrations, advertising_baseline, subscriptions, then,
                   counted, waited, came, left>>

-----------------------------------------------------------------------------
(* What the supervisor calls next *)

Call(place, next) ==
    /\ Goto(place)
    /\ then' = next
    /\ observed' = "none"
    /\ UNCHANGED <<registrations, advertising_baseline, characteristics, counted>>

\* end_ancs_session, and reset_bluez_session if it is to be followed by one.
End(next) ==
    /\ DropStreams("daemon")
    /\ subscriptions' = FALSE
    /\ Call("quiesce", next)

acting == <<powered, phone, countVars, events, setupVars, historyVars>>

\* The session ends; an error releases everything as well.  A device that is not
\* bonded, or authorized, is like one whose services are not resolved.
Leave ==
    /\ pc = "idle" /\ observed \in {"error", "powered-off", "advertising", "waiting-for-services"}
    /\ End(IF observed = "error" THEN "release" ELSE "idle")
    /\ waited' = 0
    /\ UNCHANGED acting

\* Mutant of WaitForPhone: one reconciliation too many.
WaitForPhoneLate ==
    /\ pc = "idle" /\ observed = "waiting-for-phone"
    /\ LET stalled == subscriptions \/ waited + 1 > StallThreshold
       IN  /\ End(IF stalled THEN "release" ELSE "idle")
           /\ waited' = IF stalled THEN 0 ELSE waited + 1
    /\ UNCHANGED acting

\* Mutant of WaitForPhone: a stall is not noticed.
WaitForPhonePatiently ==
    /\ pc = "idle" /\ observed = "waiting-for-phone"
    /\ End(IF subscriptions THEN "release" ELSE "idle")
    /\ UNCHANGED <<acting, waited>>

\* refresh_bluez_session when a session has just ended or the phone is long away.
WaitForPhone ==
    /\ pc = "idle" /\ observed = "waiting-for-phone"
    /\ LET stalled == subscriptions \/ waited + 1 >= StallThreshold
       IN  /\ End(IF stalled THEN "release" ELSE "idle")
           /\ waited' = IF stalled THEN 0 ELSE waited + 1
    /\ UNCHANGED acting

Subscribe ==
    /\ pc = "idle" /\ observed = "available"
    /\ Call("data", "idle")
    /\ waited' = 0
    /\ UNCHANGED <<acting, subscriptions, stream>>

\* A session goes on until its streams end: end_session.
Session ==
    /\ pc = "idle" /\ observed = "ready"
    /\ waited' = 0
    /\ IF stream["daemon"] = On
       THEN Call("idle", "idle") /\ UNCHANGED <<subscriptions, stream>>
       ELSE End("idle")
    /\ UNCHANGED acting

-----------------------------------------------------------------------------
(* subscribe *)

\* BlueZ starts notifying c; the characteristic has to be there.
Starts(c, s) ==
    /\ phone = "ancs"
    /\ stream' = [stream EXCEPT ![c][s] = "on"]

subscribing == <<powered, phone, countVars, registrations, advertising_baseline, characteristics,
                 counted, waited, setupVars, historyVars>>

\* The supervisor ends the session after a failure, and may refresh.
SubscribeFails ==
    /\ Fails(phone = "ancs")
    /\ Call("quiesce", "idle") \/ Call("quiesce", "release")

\* Mutant of SubscribeData: the sources are the other way round.
SubscribeNotificationFirst ==
    /\ pc = "data"
    /\ Quietly /\ Starts("daemon", "notification") /\ Goto("notification")
    /\ UNCHANGED <<subscribing, then, observed, subscriptions>>

\* "Data Source must be active first."
SubscribeData ==
    /\ pc = "data"
    /\ \/ /\ Quietly /\ Starts("daemon", "data")
          /\ Goto("notification")
          /\ UNCHANGED <<then, observed>>
       \/ SubscribeFails /\ UNCHANGED stream
    /\ UNCHANGED <<subscribing, subscriptions>>

\* The partial subscription is quiesced at once, and end_session, which knows the
\* sources still, does it again: one step stands for both.
SubscribeNotification ==
    /\ pc = "notification"
    /\ \/ /\ Quietly /\ Starts("daemon", "notification")
          /\ subscriptions' = TRUE
          /\ Goto("idle")
          /\ UNCHANGED <<then, observed>>
       \/ SubscribeFails /\ DropStreams("daemon") /\ UNCHANGED subscriptions
    /\ UNCHANGED subscribing

-----------------------------------------------------------------------------
(* end_ancs_session and reset_bluez_session *)

quiescing == <<powered, phone, stream, subscriptions, then, observed, waited, setupVars, unread>>

\* release_registrations up to its wait, if it is to follow.
Quiet ==
    /\ characteristics' = FALSE
    /\ IF then = "idle"
       THEN Goto("idle") /\ UNCHANGED <<countVars, registrations, advertising_baseline, counted>>
       ELSE /\ DropAdvertisement("daemon")
            /\ registrations' = FALSE
            /\ counted' = advertising_baseline
            /\ advertising_baseline' = NoBaseline
            /\ Goto("release")
    /\ came' = (came /\ registrations')
    /\ left' = IF registrations' THEN left ELSE left \ {"daemon"}

\* Mutant of Quiesce: the sources are forgotten before the polls, which end at once.
QuiesceUnseen ==
    /\ pc = "quiesce"
    /\ Quietly
    /\ Quiet
    /\ UNCHANGED <<quiescing, abandoned>>

Quiesce ==
    /\ pc = "quiesce"
    /\ QuiesceSucceeds(characteristics) \/ QuiesceTimesOut(characteristics)
    /\ abandoned' = IF characteristics THEN stream["daemon"] # Off ELSE abandoned
    /\ Quiet
    /\ UNCHANGED quiescing

\* wait_for_advertisement_release returns: at once if it reads no more than the
\* baseline or cannot read, and else after its last poll.
Release ==
    /\ pc = "release"
    /\ Quietly
    /\ counted' = NoBaseline
    /\ Goto(IF then = "release" THEN "idle" ELSE then)
    /\ then' = IF then = "exited" THEN then ELSE "idle"
    /\ UNCHANGED <<bluezVars, heldVars, observed, waited, setupVars, historyVars>>

\* SIGTERM drops run() at whatever it awaits, and shutdown resets the session.
Terminate ==
    /\ pc # "exited" /\ then # "exited"
    /\ Quietly
    /\ DropStreams("daemon")
    /\ subscriptions' = FALSE
    /\ Goto("quiesce") /\ then' = "exited"
    /\ observed' = "none"
    /\ counted' = NoBaseline
    /\ UNCHANGED <<powered, phone, countVars, registrations, advertising_baseline,
                   characteristics, waited, setupVars, historyVars>>

-----------------------------------------------------------------------------
(* A setup beside the daemon: its window, verify_ancs and cleanup_temporary *)

setting == <<powered, phone, daemonVars>>

\* A fresh window or one for the reconnect of a bond; a bond already configured needs
\* neither.
SetupBegins ==
    /\ step = "none" /\ powered
    /\ Quietly
    /\ \/ baseline' = Active /\ left' = left \ {"setup"} /\ step' = "advertise"
       \/ step' = "verify" /\ UNCHANGED <<baseline, left>>
    /\ UNCHANGED <<setting, countVars, stream, result, stored, came, abandoned, unread>>

opening == <<setting, stream, baseline, result, left, abandoned, unread>>

SetupRegisters ==
    /\ Quietly /\ powered
    /\ Register("setup")
    /\ came' = ("daemon" \in Counting)

\* The window of a reconnect stores its handles; a fresh one wants an agent first.
SetupAdvertises ==
    /\ step = "advertise"
    /\ \/ /\ SetupRegisters
          /\ \/ step' = "verify" /\ stored' = {"registrations"}
             \/ step' = "agent" /\ UNCHANGED stored
       \/ Fails(powered) /\ step' = "quiesce" /\ UNCHANGED <<countVars, stored, came>>
    /\ UNCHANGED opening

\* Without the agent the advertisement is dropped, and nothing stored.
SetupRegistersAgent ==
    /\ step = "agent"
    /\ \/ Quietly /\ step' = "verify" /\ stored' = {"registrations"} /\ UNCHANGED countVars
       \/ Event /\ DropAdvertisement("setup") /\ step' = "quiesce" /\ UNCHANGED stored
    /\ UNCHANGED <<opening, came>>

\* A command or a signal drops prepare.  BlueZ may still carry out the call it was at:
\* an advertisement registered so is nobody's until the process exits.
PrepareDropped ==
    /\ \/ step = "advertise" /\ SetupRegisters
       \/ step = "advertise" /\ Quietly /\ UNCHANGED <<countVars, came>>
       \/ step = "agent" /\ Quietly /\ DropAdvertisement("setup") /\ UNCHANGED came
    /\ step' = "quiesce"
    /\ UNCHANGED <<opening, stored>>

verifying == <<setting, countVars, baseline, result, came, left, abandoned, unread>>

VerifyData ==
    /\ step = "verify"
    /\ Quietly /\ Starts("setup", "data")
    /\ step' = "notification"
    /\ UNCHANGED <<verifying, stored>>

\* Streams and sources are stored when both notify.
VerifyNotification ==
    /\ step = "notification"
    /\ \/ /\ Quietly /\ Starts("setup", "notification")
          /\ step' = "verified"
          /\ stored' = stored \cup {"streams"}
       \/ /\ Fails(phone = "ancs")
          /\ DropStreams("setup")
          /\ step' = "partial"
          /\ UNCHANGED stored
    /\ UNCHANGED verifying

\* The quiesce of the partial subscription, whatever it returns.
VerifyFails ==
    /\ step = "partial"
    /\ QuiesceSucceeds(TRUE) \/ QuiesceTimesOut(TRUE)
    /\ step' = "quiesce"
    /\ UNCHANGED <<verifying, stream, stored>>

\* verify_ancs fails, or is dropped where it awaits: the sources are not stored yet,
\* and nobody waits for a stream that was started.
VerifyDropped ==
    /\ step \in {"verify", "notification", "partial"}
    /\ Quietly
    /\ DropStreams("setup")
    /\ step' = "quiesce"
    /\ UNCHANGED <<verifying, stored>>

\* The streams are kept until the cleanup.
SetupDrops ==
    /\ step = "verified"
    /\ Quietly
    /\ DropStreams("setup")
    /\ step' = "quiesce"
    /\ UNCHANGED <<verifying, stored>>

cleaning == <<setting, baseline, stored, came, left, abandoned>>

DropStored ==
    IF "registrations" \in stored THEN DropAdvertisement("setup") ELSE UNCHANGED countVars

\* Mutant of SetupQuiesces: the sources are taken from it before it polls.
SetupQuiescesUnseen ==
    /\ step = "quiesce"
    /\ Quietly
    /\ result' = "ok"
    /\ DropStored
    /\ step' = "release"
    /\ UNCHANGED <<cleaning, stream, unread>>

\* Where the polls give up, the cleanup has failed; it goes on.
SetupQuiesces ==
    /\ step = "quiesce"
    /\ LET known == "streams" \in stored
       IN  \/ /\ QuiesceSucceeds(known)
              /\ result' = "ok"
              /\ unread' = (known /\ \E s \in Source : Notifying(s))
           \/ QuiesceTimesOut(known) /\ result' = "failed" /\ UNCHANGED unread
    /\ DropStored
    /\ step' = "release"
    /\ UNCHANGED <<cleaning, stream>>

\* wait_for_advertisement_release, if a registration was stored.
SetupReleases ==
    /\ step = "release"
    /\ \/ Quietly /\ "registrations" \notin stored /\ UNCHANGED <<result, unread>>
       \/ /\ "registrations" \in stored
          /\ \/ Quietly /\ Active <= baseline /\ UNCHANGED <<result, unread>>
             \/ Event /\ unread' = TRUE /\ UNCHANGED result
             \/ Quietly /\ Active > baseline /\ result' = "failed" /\ UNCHANGED unread
    /\ step' = "done"
    /\ UNCHANGED <<cleaning, countVars, stream>>

\* The process exits, and BlueZ drops what is left of it with its connection.
SetupExits ==
    /\ step = "done"
    /\ Quietly
    /\ step' = "exited"
    /\ stream' = [stream EXCEPT !["setup"] = Off]
    /\ live' = [live EXCEPT !["setup"] = 0] /\ dying' = [dying EXCEPT !["setup"] = 0]
    /\ left' = (IF live["setup"] + dying["setup"] > 0 THEN Counting ELSE left) \ {"setup"}
    /\ baseline' = NoBaseline /\ result' = "none" /\ stored' = {} /\ unread' = FALSE
    /\ UNCHANGED <<setting, others, came, abandoned>>

-----------------------------------------------------------------------------
(* External: BlueZ, the phone and the other programs *)

elsewhere == <<daemonVars, setupVars, unread>>

\* StopNotify and UnregisterAdvertisement are carried out.
Stopped(c, s) ==
    /\ stream[c][s] = "stopping"
    /\ Quietly
    /\ stream' = [stream EXCEPT ![c][s] = "off"]
    /\ abandoned' = (abandoned /\ stream'["daemon"] # Off)
    /\ UNCHANGED <<powered, phone, countVars, elsewhere, came, left>>

\* A setup registers once: what it drops is what it waits for.
Unregistered(c) ==
    /\ dying[c] > 0
    /\ Quietly
    /\ dying' = [dying EXCEPT ![c] = @ - 1]
    /\ left' = left \cup IF c = "setup" THEN Counting \cap {"daemon"} ELSE Counting
    /\ UNCHANGED <<powered, phone, live, others, stream, elsewhere, came, abandoned>>

OtherComes ==
    /\ others < MaxOthers
    /\ Event
    /\ others' = others + 1
    /\ came' = ("daemon" \in Counting)
    /\ UNCHANGED <<powered, phone, live, dying, stream, elsewhere, left, abandoned>>

OtherGoes ==
    /\ others > 0
    /\ Event
    /\ others' = others - 1
    /\ left' = Counting
    /\ UNCHANGED <<powered, phone, live, dying, stream, elsewhere, came, abandoned>>

LinkLost ==
    /\ phone' = "away"
    /\ stream' = [c \in Client |->
                     [s \in Source |-> IF stream[c][s] \in {"on", "ended"} THEN "ended" ELSE "off"]]
    /\ abandoned' = FALSE

\* bluetoothd restarts, or the adapter is taken away and comes back: whatever was
\* registered is gone, and the link with it.
BluezRestarts ==
    /\ Event
    /\ LinkLost
    /\ live' = [c \in Client |-> 0] /\ dying' = [c \in Client |-> 0] /\ others' = 0
    /\ left' = Counting
    /\ UNCHANGED <<powered, elsewhere, came>>

PowerChanges ==
    /\ IF powered THEN Event /\ LinkLost ELSE Quietly /\ UNCHANGED <<phone, stream, abandoned>>
    /\ powered' = ~powered
    /\ UNCHANGED <<countVars, elsewhere, came, left>>

\* The phone answers an advertisement of ours, then offers ANCS.
PhoneComes ==
    /\ powered
    /\ Quietly
    /\ \/ phone = "away" /\ (\E c \in Client : live[c] = 1) /\ phone' = "connected"
       \/ phone = "connected" /\ phone' = "ancs"
    /\ UNCHANGED <<powered, countVars, stream, elsewhere, came, left, abandoned>>

\* Its services go, and the streams on them.
PhoneLeaves ==
    /\ phone # "away"
    /\ Event
    /\ LinkLost
    /\ UNCHANGED <<powered, countVars, elsewhere, came, left>>

-----------------------------------------------------------------------------
Init ==
    /\ powered = TRUE /\ phone = "away"
    /\ live = [c \in Client |-> 0] /\ dying = [c \in Client |-> 0]
    /\ others \in 0..MaxOthers
    /\ stream = [c \in Client |-> Off]
    /\ events = 0
    /\ registrations = FALSE /\ advertising_baseline = NoBaseline
    /\ characteristics = FALSE /\ subscriptions = FALSE
    /\ pc = "idle" /\ then = "idle" /\ counted = NoBaseline
    /\ observed = "none" /\ waited = 0
    /\ step = "none" /\ baseline = NoBaseline /\ result = "none" /\ stored = {}
    /\ came = FALSE /\ left = {} /\ abandoned = FALSE /\ unread = FALSE

Daemon ==
    \/ Reconcile \/ Judge \/ ReadBaseline \/ Advertise \/ Device
    \/ Leave \/ WaitForPhone \/ Subscribe \/ Session
    \/ SubscribeData \/ SubscribeNotification
    \/ Quiesce \/ Release

Setup ==
    \/ SetupBegins \/ SetupAdvertises \/ SetupRegistersAgent \/ PrepareDropped
    \/ VerifyData \/ VerifyNotification \/ VerifyFails \/ VerifyDropped
    \/ SetupDrops \/ SetupQuiesces \/ SetupReleases \/ SetupExits

Carried(c) == Unregistered(c) \/ \E s \in Source : Stopped(c, s)

Environment ==
    \/ OtherComes \/ OtherGoes \/ BluezRestarts \/ PowerChanges \/ PhoneComes \/ PhoneLeaves

Next == Daemon \/ Terminate \/ Setup \/ Environment \/ \E c \in Client : Carried(c)

Spec == Init /\ [][Next]_vars

\* The daemon goes on, and BlueZ carries out what it was told by it.  The setup may
\* take any time, or stop where it is.
FairSpec ==
    /\ Spec
    /\ WF_vars(Daemon) /\ WF_vars(Carried("daemon"))

-----------------------------------------------------------------------------
(* Properties *)

TypeOK ==
    /\ powered \in BOOLEAN /\ phone \in {"away", "connected", "ancs"}
    /\ live \in [Client -> 0..1] /\ dying \in [Client -> 0..MaxDying] /\ others \in 0..MaxOthers
    /\ stream \in [Client -> [Source -> {"off", "on", "ended", "stopping"}]]
    /\ events \in 0..MaxEvents
    /\ registrations \in BOOLEAN /\ characteristics \in BOOLEAN /\ subscriptions \in BOOLEAN
    /\ \A b \in {advertising_baseline, counted, baseline} : b \in Nat \cup {NoBaseline}
    /\ pc \in {"idle", "judge", "baseline", "advertise", "device", "data", "notification",
               "quiesce", "release", "exited"}
    /\ then \in {"idle", "baseline", "release", "exited"}
    /\ observed \in {"none", "error", "powered-off", "advertising", "waiting-for-phone",
                     "waiting-for-services", "available", "ready"}
    /\ waited \in 0..(StallThreshold - 1)
    /\ step \in {"none", "advertise", "agent", "verify", "notification", "partial", "verified",
                 "quiesce", "release", "done", "exited"}
    /\ result \in {"none", "ok", "failed"} /\ stored \subseteq {"streams", "registrations"}
    /\ came \in BOOLEAN /\ abandoned \in BOOLEAN /\ unread \in BOOLEAN
    /\ left \subseteq Client

\* Registrations that BlueZ has lost are taken for live only when another
\* advertisement came after the baseline was read; and live ones for lost, with the
\* session ended for it, only when one that counted in the baseline, maybe an old
\* one of ours, has left.
RegistrationsJudged ==
    registrations =>
        /\ Contains(Active, advertising_baseline) => live["daemon"] = 1 \/ came
        /\ ~Contains(Active, advertising_baseline) => live["daemon"] = 0 \/ "daemon" \in left

\* "The order is protocol-significant": whoever is notified of the Notification
\* Source is notified of the Data Source, or was and holds what is left of it.
DataSourceFirst ==
    \A c \in Client : stream[c]["notification"] = "on" => stream[c]["data"] \in {"on", "ended"}

\* "An immediate systemd restart cannot inherit a stale Notifying": wherever SIGTERM
\* found the daemon, it exits with its streams stopped, or it has waited for them.
ExitsQuiet ==
    pc = "exited" => stream["daemon"] = Off \/ abandoned

\* A setup whose cleanup succeeded has seen stop what it had stored: its streams, and
\* its advertisement unless another one was counted and has left, or a read failed.
\* Of what it dropped before it was stored it knows nothing.
SetupStopsStored ==
    step = "done" /\ result = "ok" =>
        /\ "streams" \in stored => stream["setup"] = Off \/ unread
        /\ "registrations" \in stored =>
               live["setup"] + dying["setup"] = 0 \/ "setup" \in left \/ unread

\* Lost registrations come back as long as the adapter is on and the phone away, even
\* where another advertisement hides the loss: the stall refreshes them.
Readvertises ==
    []<>(live["daemon"] = 1 \/ phone # "away" \/ ~powered \/ then = "exited")

=============================================================================
