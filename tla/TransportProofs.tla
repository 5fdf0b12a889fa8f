------------------------- MODULE TransportProofs --------------------------
(***************************************************************************)
(* The transport, for every number of other programs, late releases and    *)
(* unasked events.  What it infers of its own advertisement is as good as  *)
(* the number of the others: Counts follows that number since the baseline *)
(* was read.  Streams follows the notification streams from their start to *)
(* the poll that sees them stopped, through every way out.                 *)
(***************************************************************************)
EXTENDS Transport, TLAPS

\* The advertisements that are not the transport's registration, and those that are
\* not the setup's.
BesidesDaemon == dying["daemon"] + live["setup"] + dying["setup"] + others
BesidesSetup == live["daemon"] + dying["daemon"] + others

\* The baseline the transport has, or is about to have.
Base == IF pc = "advertise" THEN counted ELSE advertising_baseline

Counts ==
    /\ pc \in {"baseline", "advertise", "release"} => ~registrations
    /\ ~registrations => live["daemon"] = 0
    /\ registrations \/ pc = "advertise" =>
          /\ ~came => BesidesDaemon <= Base
          /\ "daemon" \notin left => BesidesDaemon >= Base

\* The same for the setup, whose advertisement does not exist before its baseline.
SetupCounts ==
    /\ step \in {"none", "advertise"} => live["setup"] = 0 /\ dying["setup"] = 0
    /\ step \in {"advertise", "agent"} \/ "registrations" \in stored => baseline # NoBaseline
    /\ baseline # NoBaseline /\ "setup" \notin left => BesidesSetup >= baseline
    /\ step = "done" /\ result = "ok" /\ "registrations" \in stored =>
          live["setup"] + dying["setup"] = 0 \/ "setup" \in left \/ unread

\* Nobody holds a stream of c any more, and the transport knows what became of its own.
Released(c) == \A s \in Source : stream[c][s] \in {"off", "stopping"}
Accounted == Released("daemon") /\ (stream["daemon"] = Off \/ abandoned)

DataFirst(c) ==
    stream[c]["notification"] = "on" => stream[c]["data"] \in {"on", "ended"}

Streams ==
    /\ DataFirst("daemon")
    /\ pc = "notification" => stream["daemon"]["data"] \in {"on", "ended"}
    /\ ~subscriptions /\ pc # "notification" => Released("daemon")
    /\ pc \in {"data", "notification"} \/ observed = "available" => characteristics /\ ~subscriptions
    /\ observed = "available" => pc = "idle"
    /\ pc = "quiesce" => ~subscriptions
    /\ pc \in {"release", "exited"} => ~characteristics
    /\ ~characteristics => Accounted

SetupStreams ==
    /\ DataFirst("setup")
    /\ step = "notification" => stream["setup"]["data"] \in {"on", "ended"}
    /\ step \in {"none", "advertise", "agent", "verify"} => stream["setup"] = Off
    /\ step \in {"partial", "quiesce", "release", "done"} => Released("setup")
    /\ step \in {"release", "done"} /\ result = "ok" /\ "streams" \in stored =>
          stream["setup"] = Off \/ unread

TransportInv == TypeOK /\ Counts /\ SetupCounts /\ Streams /\ SetupStreams

-----------------------------------------------------------------------------
(* Types *)

LEMMA StreamsTyped ==
    ASSUME TypeOK, NEW c \in Client
    PROVE  /\ stream[c] \in [Source -> {"off", "on", "ended", "stopping"}]
           /\ \A s \in Source : stream[c][s] \in {"off", "on", "ended", "stopping"}
BY DEF TypeOK

\* Dropping handles that are held or not leaves none of them held.
LEMMA DropReleases ==
    ASSUME TypeOK, NEW c \in Client, DropStreams(c)
    PROVE  /\ stream' \in [Client -> [Source -> {"off", "on", "ended", "stopping"}]]
           /\ Released(c)'
           /\ \A d \in Client : d # c => stream'[d] = stream[d]
           /\ stream[c] = Off => stream'[c] = Off
<1> DEFINE kept == [s \in Source |-> IF stream[c][s] \in {"on", "stopping"} THEN "stopping" ELSE "off"]
<1>1. stream \in [Client -> [Source -> {"off", "on", "ended", "stopping"}]]
  BY DEF TypeOK
<1>2. stream' = [stream EXCEPT ![c] = kept]
  BY DEF DropStreams
<1>3. kept \in [Source -> {"off", "stopping"}]
  OBVIOUS
<1>4. stream[c] = Off => kept = Off
  BY DEF Off
<1> HIDE DEF kept
<1>5. stream'[c] = kept /\ \A d \in Client : d # c => stream'[d] = stream[d]
  BY <1>1, <1>2
<1>6. stream' \in [Client -> [Source -> {"off", "on", "ended", "stopping"}]]
  BY <1>1, <1>2, <1>3
<1> QED
  BY <1>3, <1>4, <1>5, <1>6 DEF Released

LEMMA StartTypes ==
    ASSUME TypeOK, NEW c \in Client, NEW s \in Source, Starts(c, s)
    PROVE  /\ stream' \in [Client -> [Source -> {"off", "on", "ended", "stopping"}]]
           /\ stream'[c][s] = "on"
           /\ \A d \in Client, t \in Source : d # c \/ t # s => stream'[d][t] = stream[d][t]
           /\ \A d \in Client : d # c => stream'[d] = stream[d]
BY DEF TypeOK, Starts

LEMMA StopTypes ==
    ASSUME TypeOK, NEW c \in Client, NEW s \in Source, Stopped(c, s)
    PROVE  /\ stream' \in [Client -> [Source -> {"off", "on", "ended", "stopping"}]]
           /\ stream[c][s] = "stopping" /\ stream'[c][s] = "off"
           /\ \A d \in Client, t \in Source : d # c \/ t # s => stream'[d][t] = stream[d][t]
           /\ \A d \in Client : d # c => stream'[d] = stream[d]
BY DEF TypeOK, Stopped

\* A lost link ends the streams that are on, under their holder.
LEMMA LossTypes ==
    ASSUME TypeOK, LinkLost
    PROVE  /\ stream' \in [Client -> [Source -> {"off", "on", "ended", "stopping"}]]
           /\ \A c \in Client, s \in Source :
                 stream'[c][s] = IF stream[c][s] \in {"on", "ended"} THEN "ended" ELSE "off"
           /\ \A c \in Client : Released(c) => stream'[c] = Off
           /\ abandoned' = FALSE /\ phone' = "away"
<1>1. stream' = [c \in Client |->
                  [s \in Source |-> IF stream[c][s] \in {"on", "ended"} THEN "ended" ELSE "off"]]
  BY DEF LinkLost
<1>2. ASSUME NEW c \in Client, Released(c)
      PROVE  stream'[c] = Off
  BY <1>1, <1>2 DEF Released, Off
<1> QED
  BY <1>1, <1>2 DEF LinkLost

\* Registering and dropping an advertisement.
LEMMA RegisterTypes ==
    ASSUME TypeOK, NEW c \in Client, Register(c)
    PROVE  /\ live' \in [Client -> 0..1] /\ dying' = dying /\ others' = others
           /\ live'[c] = 1 /\ \A d \in Client : d # c => live'[d] = live[d]
BY DEF TypeOK, Register

LEMMA DropTypes ==
    ASSUME TypeOK, NEW c \in Client, DropAdvertisement(c)
    PROVE  /\ live' \in [Client -> 0..1] /\ dying' \in [Client -> 0..MaxDying] /\ others' = others
           /\ live'[c] = 0 /\ dying'[c] = dying[c] + live[c]
           /\ \A d \in Client : d # c => live'[d] = live[d] /\ dying'[d] = dying[d]
<1>1. /\ live \in [Client -> 0..1] /\ dying \in [Client -> 0..MaxDying]
      /\ MaxDying \in Nat
      /\ dying[c] + live[c] <= MaxDying
      /\ live' = [live EXCEPT ![c] = 0]
      /\ dying' = [dying EXCEPT ![c] = @ + live[c]]
      /\ others' = others
  BY BoundAssumption DEF TypeOK, DropAdvertisement
<1>2. dying[c] + live[c] \in 0..MaxDying
  BY <1>1
<1> QED
  BY <1>1, <1>2

\* The numbers are numbers.
LEMMA CountsTyped ==
    ASSUME TypeOK
    PROVE  /\ \A c \in Client : live[c] \in 0..1 /\ dying[c] \in Nat
           /\ others \in Nat /\ Active \in Nat /\ BesidesDaemon \in Nat /\ BesidesSetup \in Nat
           /\ Active = live["daemon"] + BesidesDaemon
           /\ Active = live["setup"] + dying["setup"] + BesidesSetup
           /\ counted \in Int /\ advertising_baseline \in Int /\ baseline \in Int /\ Base \in Int
<1>1. /\ \A c \in Client : live[c] \in 0..1 /\ dying[c] \in Nat
      /\ others \in Nat
      /\ counted \in Int /\ advertising_baseline \in Int /\ baseline \in Int
  BY BoundAssumption DEF TypeOK, NoBaseline
<1>2. "daemon" \in Client /\ "setup" \in Client
  BY DEF Client
<1> QED
  BY <1>1, <1>2 DEF Active, BesidesDaemon, BesidesSetup, Base

LEMMA EventTypes ==
    ASSUME TypeOK, Event \/ Quietly
    PROVE  events' \in 0..MaxEvents
BY BoundAssumption DEF TypeOK, Event, Quietly

\* The types of what BlueZ has, of the transport, and of the setup and the history.
BluezType ==
    /\ powered \in BOOLEAN /\ phone \in {"away", "connected", "ancs"}
    /\ live \in [Client -> 0..1] /\ dying \in [Client -> 0..MaxDying] /\ others \in 0..MaxOthers
    /\ stream \in [Client -> [Source -> {"off", "on", "ended", "stopping"}]]
    /\ events \in 0..MaxEvents

DaemonType ==
    /\ registrations \in BOOLEAN /\ characteristics \in BOOLEAN /\ subscriptions \in BOOLEAN
    /\ advertising_baseline \in Nat \cup {NoBaseline} /\ counted \in Nat \cup {NoBaseline}
    /\ pc \in {"idle", "judge", "baseline", "advertise", "device", "data", "notification",
               "quiesce", "release", "exited"}
    /\ then \in {"idle", "baseline", "release", "exited"}
    /\ observed \in {"none", "error", "powered-off", "advertising", "waiting-for-phone",
                     "waiting-for-services", "available", "ready"}
    /\ waited \in 0..(StallThreshold - 1)

OtherType ==
    /\ baseline \in Nat \cup {NoBaseline}
    /\ step \in {"none", "advertise", "agent", "verify", "notification", "partial", "verified",
                 "quiesce", "release", "done", "exited"}
    /\ result \in {"none", "ok", "failed"} /\ stored \subseteq {"streams", "registrations"}
    /\ came \in BOOLEAN /\ abandoned \in BOOLEAN /\ unread \in BOOLEAN
    /\ left \subseteq Client

LEMMA TypeParts == TypeOK <=> BluezType /\ DaemonType /\ OtherType
BY DEF TypeOK, BluezType, DaemonType, OtherType

LEMMA TypePartsNext == TypeOK' <=> BluezType' /\ DaemonType' /\ OtherType'
BY DEF TypeOK, BluezType, DaemonType, OtherType

LEMMA TypeInit == Init => TypeOK
<1> SUFFICES ASSUME Init
             PROVE  TypeOK
  OBVIOUS
<1>1. MaxOthers \in Nat /\ MaxDying \in Nat /\ MaxEvents \in Nat /\ 0 \in 0..(StallThreshold - 1)
  BY BoundAssumption
<1>2. BluezType
  BY <1>1 DEF Init, BluezType, Off
<1>3. DaemonType
  BY <1>1 DEF Init, DaemonType
<1>4. OtherType
  BY DEF Init, OtherType
<1> QED
  BY <1>2, <1>3, <1>4, TypeParts

\* Where every step goes on with values of the types they had.
LEMMA DaemonTypes == TypeOK /\ (Daemon \/ Terminate) => TypeOK'
<1> SUFFICES ASSUME TypeOK, Daemon \/ Terminate
             PROVE  TypeOK'
  OBVIOUS
<1> BluezType /\ DaemonType /\ OtherType
  BY TypeParts
<1>0. Active \in Nat /\ MaxEvents \in Nat /\ MaxOthers \in Nat /\ MaxDying \in Nat
      /\ "daemon" \in Client
  BY CountsTyped, BoundAssumption DEF Client
<1>w. 0 \in 0..(StallThreshold - 1)
  BY BoundAssumption
<1>e. Event \/ Quietly => events' \in 0..MaxEvents
  BY EventTypes
<1>d. DropStreams("daemon") =>
          stream' \in [Client -> [Source -> {"off", "on", "ended", "stopping"}]]
  BY <1>0, DropReleases
<1>1. CASE Reconcile
  <2>a. BluezType'
    BY <1>1, <1>e
       DEF Reconcile, BluezType, Return, Goto, reconciling, heldVars, bluezVars, setupVars
  <2>b. DaemonType'
    BY <1>1, <1>e
       DEF Reconcile, DaemonType, Return, Goto, reconciling, heldVars, bluezVars, setupVars
  <2>c. OtherType'
    BY <1>1, <1>e
       DEF Reconcile, OtherType, Return, Goto, reconciling, heldVars, bluezVars, setupVars
  <2> QED
    BY <2>a, <2>b, <2>c, TypePartsNext
<1>2. CASE Judge
  <2>a. BluezType'
    BY <1>2, <1>e, <1>d DEF Judge, BluezType, Return, Goto, countVars, setupVars, historyVars
  <2>b. DaemonType'
    BY <1>2, <1>e, <1>d DEF Judge, DaemonType, Return, Goto, countVars, setupVars, historyVars
  <2>c. OtherType'
    BY <1>2, <1>e, <1>d DEF Judge, OtherType, Return, Goto, countVars, setupVars, historyVars
  <2> QED
    BY <2>a, <2>b, <2>c, TypePartsNext
<1>3. CASE ReadBaseline
  <2>a. BluezType'
    BY <1>3, <1>e, <1>0
       DEF ReadBaseline, BluezType, Return, Goto, reconciling, heldVars, bluezVars, setupVars
  <2>b. DaemonType'
    BY <1>3, <1>e, <1>0
       DEF ReadBaseline, DaemonType, Return, Goto, reconciling, heldVars, bluezVars, setupVars
  <2>c. OtherType'
    BY <1>3, <1>e, <1>0
       DEF ReadBaseline, OtherType, Return, Goto, reconciling, heldVars, bluezVars, setupVars
  <2> QED
    BY <2>a, <2>b, <2>c, TypePartsNext
<1>4. CASE Advertise
  <2>1. events' \in 0..MaxEvents
    BY <1>4, <1>e DEF Advertise, Fails
  <2>2. live' \in [Client -> 0..1] /\ dying' = dying /\ others' = others
    BY <1>4, <1>0, RegisterTypes DEF Advertise, countVars, TypeOK
  <2>3. /\ registrations' \in BOOLEAN
        /\ advertising_baseline' \in {advertising_baseline, counted}
        /\ counted' = NoBaseline
        /\ observed' \in {"error", "advertising"} /\ pc' = "idle"
    BY <1>4 DEF Advertise, TypeOK, Return, Goto
  <2>a. BluezType'
    BY <1>4, <2>1, <2>2, <2>3 DEF Advertise, BluezType, advertising, setupVars, historyVars
  <2>b. DaemonType'
    BY <1>4, <2>1, <2>2, <2>3 DEF Advertise, DaemonType, advertising, setupVars, historyVars
  <2>c. OtherType'
    BY <1>4, <2>1, <2>2, <2>3 DEF Advertise, OtherType, advertising, setupVars, historyVars
  <2> QED
    BY <2>a, <2>b, <2>c, TypePartsNext
<1>5. CASE Device
  <2>1. observed' \in {"error", "waiting-for-phone", "waiting-for-services", "ready", "available"}
        /\ pc' = "idle" /\ characteristics' \in BOOLEAN
    BY <1>5 DEF Device, TypeOK, Return, Goto
  <2>a. BluezType'
    BY <1>5, <1>e, <2>1 DEF Device, BluezType, reconciling, bluezVars, setupVars
  <2>b. DaemonType'
    BY <1>5, <1>e, <2>1 DEF Device, DaemonType, reconciling, bluezVars, setupVars
  <2>c. OtherType'
    BY <1>5, <1>e, <2>1 DEF Device, OtherType, reconciling, bluezVars, setupVars
  <2> QED
    BY <2>a, <2>b, <2>c, TypePartsNext
<1>6. CASE Leave
  <2>a. BluezType'
    BY <1>6, <1>d DEF Leave, BluezType, End, Call, Goto, acting, countVars, setupVars, historyVars
  <2>1. /\ waited' = 0 /\ subscriptions' \in BOOLEAN /\ observed' = "none"
        /\ pc' \in {"idle", "data", "quiesce"} /\ then' \in {"idle", "release"}
        /\ UNCHANGED <<registrations, advertising_baseline, characteristics, counted>>
    BY <1>6 DEF Leave, DaemonType, End, Call, Goto
  <2>b. DaemonType'
    BY <1>w, <2>1 DEF DaemonType
  <2>c. OtherType'
    BY <1>6, <1>d DEF Leave, OtherType, End, Call, Goto, acting, countVars, setupVars, historyVars
  <2> QED
    BY <2>a, <2>b, <2>c, TypePartsNext
<1>7. CASE WaitForPhone
  <2>1. waited' \in 0..(StallThreshold - 1)
    BY <1>7, BoundAssumption DEF WaitForPhone, TypeOK
  <2>a. BluezType'
    BY <1>7, <1>d, <2>1
       DEF WaitForPhone, BluezType, End, Call, Goto, acting, countVars, setupVars, historyVars
  <2>b. DaemonType'
    BY <1>7, <1>d, <2>1
       DEF WaitForPhone, DaemonType, End, Call, Goto, acting, countVars, setupVars, historyVars
  <2>c. OtherType'
    BY <1>7, <1>d, <2>1
       DEF WaitForPhone, OtherType, End, Call, Goto, acting, countVars, setupVars, historyVars
  <2> QED
    BY <2>a, <2>b, <2>c, TypePartsNext
<1>8. CASE Subscribe
  <2>a. BluezType'
    BY <1>8 DEF Subscribe, BluezType, Call, Goto, acting, countVars, setupVars, historyVars
  <2>1. /\ waited' = 0 /\ subscriptions' \in BOOLEAN /\ observed' = "none"
        /\ pc' \in {"idle", "data", "quiesce"} /\ then' \in {"idle", "release"}
        /\ UNCHANGED <<registrations, advertising_baseline, characteristics, counted>>
    BY <1>8 DEF Subscribe, DaemonType, Call, Goto
  <2>b. DaemonType'
    BY <1>w, <2>1 DEF DaemonType
  <2>c. OtherType'
    BY <1>8 DEF Subscribe, OtherType, Call, Goto, acting, countVars, setupVars, historyVars
  <2> QED
    BY <2>a, <2>b, <2>c, TypePartsNext
<1>9. CASE Session
  <2>a. BluezType'
    BY <1>9, <1>d
       DEF Session, BluezType, End, Call, Goto, acting, countVars, setupVars, historyVars
  <2>1. /\ waited' = 0 /\ subscriptions' \in BOOLEAN /\ observed' = "none"
        /\ pc' \in {"idle", "data", "quiesce"} /\ then' \in {"idle", "release"}
        /\ UNCHANGED <<registrations, advertising_baseline, characteristics, counted>>
    BY <1>9 DEF Session, DaemonType, End, Call, Goto
  <2>b. DaemonType'
    BY <1>w, <2>1 DEF DaemonType
  <2>c. OtherType'
    BY <1>9, <1>d
       DEF Session, OtherType, End, Call, Goto, acting, countVars, setupVars, historyVars
  <2> QED
    BY <2>a, <2>b, <2>c, TypePartsNext
<1>10. CASE SubscribeData
  <2>1. stream' \in [Client -> [Source -> {"off", "on", "ended", "stopping"}]]
    BY <1>10, <1>0, StartTypes DEF SubscribeData, TypeOK, Source
  <2>2. events' \in 0..MaxEvents
    BY <1>10, <1>e DEF SubscribeData, SubscribeFails, Fails
  <2>a. BluezType'
    BY <1>10, <2>1, <2>2
       DEF SubscribeData, BluezType, SubscribeFails, Call, Goto, subscribing, countVars,
           setupVars, historyVars
  <2>b. DaemonType'
    BY <1>10, <2>1, <2>2
       DEF SubscribeData, DaemonType, SubscribeFails, Call, Goto, subscribing, countVars,
           setupVars, historyVars
  <2>c. OtherType'
    BY <1>10, <2>1, <2>2
       DEF SubscribeData, OtherType, SubscribeFails, Call, Goto, subscribing, countVars,
           setupVars, historyVars
  <2> QED
    BY <2>a, <2>b, <2>c, TypePartsNext
<1>11. CASE SubscribeNotification
  <2>1. stream' \in [Client -> [Source -> {"off", "on", "ended", "stopping"}]]
    BY <1>11, <1>0, <1>d, StartTypes DEF SubscribeNotification, Source
  <2>2. events' \in 0..MaxEvents
    BY <1>11, <1>e DEF SubscribeNotification, SubscribeFails, Fails
  <2>a. BluezType'
    BY <1>11, <2>1, <2>2
       DEF SubscribeNotification, BluezType, SubscribeFails, Call, Goto, subscribing, countVars,
           setupVars, historyVars
  <2>b. DaemonType'
    BY <1>11, <2>1, <2>2
       DEF SubscribeNotification, DaemonType, SubscribeFails, Call, Goto, subscribing,
           countVars, setupVars, historyVars
  <2>c. OtherType'
    BY <1>11, <2>1, <2>2
       DEF SubscribeNotification, OtherType, SubscribeFails, Call, Goto, subscribing, countVars,
           setupVars, historyVars
  <2> QED
    BY <2>a, <2>b, <2>c, TypePartsNext
<1>12. CASE Quiesce
  <2>1. events' \in 0..MaxEvents
    BY <1>12, <1>e DEF Quiesce, QuiesceSucceeds, QuiesceTimesOut, Fails
  <2>2. live' \in [Client -> 0..1] /\ dying' \in [Client -> 0..MaxDying] /\ others' = others
    BY <1>12, <1>0, DropTypes DEF Quiesce, Quiet, countVars, TypeOK
  <2>3. abandoned' \in BOOLEAN
    BY <1>12 DEF Quiesce, TypeOK
  <2>4. /\ characteristics' = FALSE /\ registrations' \in BOOLEAN /\ pc' \in {"idle", "release"}
        /\ counted' \in {counted, advertising_baseline}
        /\ advertising_baseline' \in {advertising_baseline, NoBaseline}
        /\ came' \in BOOLEAN /\ left' \subseteq Client
    BY <1>12 DEF Quiesce, Quiet, Goto, TypeOK
  <2>a. BluezType'
    BY <1>12, <2>1, <2>2, <2>3, <2>4 DEF Quiesce, BluezType, quiescing, setupVars
  <2>b. DaemonType'
    BY <1>12, <2>1, <2>2, <2>3, <2>4 DEF Quiesce, DaemonType, quiescing, setupVars
  <2>c. OtherType'
    BY <1>12, <2>1, <2>2, <2>3, <2>4 DEF Quiesce, OtherType, quiescing, setupVars
  <2> QED
    BY <2>a, <2>b, <2>c, TypePartsNext
<1>13. CASE Release
  <2>a. BluezType'
    BY <1>13, <1>e DEF Release, BluezType, Goto, bluezVars, heldVars, setupVars, historyVars
  <2>b. DaemonType'
    BY <1>13, <1>e DEF Release, DaemonType, Goto, bluezVars, heldVars, setupVars, historyVars
  <2>c. OtherType'
    BY <1>13, <1>e DEF Release, OtherType, Goto, bluezVars, heldVars, setupVars, historyVars
  <2> QED
    BY <2>a, <2>b, <2>c, TypePartsNext
<1>14. CASE Terminate
  <2>a. BluezType'
    BY <1>14, <1>e, <1>d DEF Terminate, BluezType, Goto, countVars, setupVars, historyVars
  <2>b. DaemonType'
    BY <1>14, <1>e, <1>d DEF Terminate, DaemonType, Goto, countVars, setupVars, historyVars
  <2>c. OtherType'
    BY <1>14, <1>e, <1>d DEF Terminate, OtherType, Goto, countVars, setupVars, historyVars
  <2> QED
    BY <2>a, <2>b, <2>c, TypePartsNext
<1> QED
  BY <1>1, <1>2, <1>3, <1>4, <1>5, <1>6, <1>7, <1>8, <1>9, <1>10, <1>11, <1>12, <1>13, <1>14
     DEF Daemon

LEMMA SetupTypes == TypeOK /\ Setup => TypeOK'
<1> SUFFICES ASSUME TypeOK, Setup
             PROVE  TypeOK'
  OBVIOUS
<1> BluezType /\ DaemonType /\ OtherType
  BY TypeParts
<1>0. Active \in Nat /\ MaxEvents \in Nat /\ MaxOthers \in Nat /\ MaxDying \in Nat
      /\ "setup" \in Client
  BY CountsTyped, BoundAssumption DEF Client
<1>e. Event \/ Quietly => events' \in 0..MaxEvents
  BY EventTypes
<1>d. DropStreams("setup") =>
          stream' \in [Client -> [Source -> {"off", "on", "ended", "stopping"}]]
  BY <1>0, DropReleases
<1>f. \A possible \in BOOLEAN : Fails(possible) => Event \/ Quietly
  BY DEF Fails
<1>n. NoBaseline \in Nat \cup {NoBaseline}
  OBVIOUS
<1>1. CASE SetupBegins
  <2>a. BluezType'
    BY <1>1, <1>e, <1>0 DEF SetupBegins, BluezType, setting, daemonVars, heldVars, countVars
  <2>b. DaemonType'
    BY <1>1, <1>e, <1>0 DEF SetupBegins, DaemonType, setting, daemonVars, heldVars, countVars
  <2>c. OtherType'
    BY <1>1, <1>e, <1>0 DEF SetupBegins, OtherType, setting, daemonVars, heldVars, countVars
  <2> QED
    BY <2>a, <2>b, <2>c, TypePartsNext
<1>r. SetupRegisters =>
          /\ live' \in [Client -> 0..1] /\ dying' = dying /\ others' = others
          /\ events' \in 0..MaxEvents /\ came' \in BOOLEAN
  <2> SUFFICES ASSUME SetupRegisters
               PROVE  /\ live' \in [Client -> 0..1] /\ dying' = dying /\ others' = others
                      /\ events' \in 0..MaxEvents /\ came' \in BOOLEAN
    OBVIOUS
  <2>1. live' \in [Client -> 0..1] /\ dying' = dying /\ others' = others
    BY <1>0, RegisterTypes DEF SetupRegisters
  <2>2. events' \in 0..MaxEvents
    BY <1>e DEF SetupRegisters
  <2>3. came' = ("daemon" \in Counting)
    BY DEF SetupRegisters
  <2>4. ("daemon" \in Counting) \in BOOLEAN
    OBVIOUS
  <2>5. came' \in BOOLEAN
    BY <2>3, <2>4, Zenon
  <2> QED
    BY <2>1, <2>2, <2>5
<1>a. DropAdvertisement("setup") =>
          live' \in [Client -> 0..1] /\ dying' \in [Client -> 0..MaxDying] /\ others' = others
  BY <1>0, DropTypes
<1>o. (/\ live' \in [Client -> 0..1] /\ dying' \in [Client -> 0..MaxDying] /\ others' = others
       /\ events' \in 0..MaxEvents /\ came' \in BOOLEAN
       /\ step' \in {"agent", "verify", "quiesce"} /\ stored' \in {stored, {"registrations"}}
       /\ UNCHANGED opening) => TypeOK'
  <2> SUFFICES ASSUME /\ live' \in [Client -> 0..1] /\ dying' \in [Client -> 0..MaxDying]
                      /\ others' = others
                      /\ events' \in 0..MaxEvents /\ came' \in BOOLEAN
                      /\ step' \in {"agent", "verify", "quiesce"}
                      /\ stored' \in {stored, {"registrations"}}
                      /\ UNCHANGED opening
               PROVE  TypeOK'
    OBVIOUS
  <2>a. BluezType'
    BY DEF BluezType, opening, setting
  <2>b. DaemonType'
    BY DEF DaemonType, opening, setting, daemonVars, heldVars
  <2>c. OtherType'
    BY DEF OtherType, opening
  <2> QED
    BY <2>a, <2>b, <2>c, TypePartsNext
<1>b. live \in [Client -> 0..1] /\ dying \in [Client -> 0..MaxDying] /\ came \in BOOLEAN
  BY DEF TypeOK
<1>2. CASE SetupAdvertises
  <2>1. /\ step' \in {"agent", "verify", "quiesce"} /\ stored' \in {stored, {"registrations"}}
        /\ UNCHANGED opening
        /\ SetupRegisters \/ (Fails(powered) /\ UNCHANGED <<countVars, came>>)
    BY <1>2 DEF SetupAdvertises
  <2>2. CASE SetupRegisters
    BY <1>o, <1>r, <1>b, <2>1, <2>2
  <2>3. CASE Fails(powered) /\ UNCHANGED <<countVars, came>>
    BY <1>o, <1>e, <1>b, <2>1, <2>3 DEF Fails, countVars
  <2> QED
    BY <2>1, <2>2, <2>3
<1>11. CASE SetupRegistersAgent
  <2>1. /\ step' \in {"agent", "verify", "quiesce"} /\ stored' \in {stored, {"registrations"}}
        /\ UNCHANGED opening /\ came' = came /\ events' \in 0..MaxEvents
        /\ UNCHANGED countVars \/ DropAdvertisement("setup")
    BY <1>11, <1>e DEF SetupRegistersAgent
  <2> QED
    BY <1>o, <1>a, <1>b, <2>1 DEF countVars
<1>12. CASE PrepareDropped
  <2>1. step' \in {"agent", "verify", "quiesce"} /\ stored' \in {stored, {"registrations"}}
        /\ UNCHANGED opening
    BY <1>12 DEF PrepareDropped
  <2>2. CASE SetupRegisters
    BY <1>o, <1>r, <1>b, <2>1, <2>2
  <2>3. CASE ~SetupRegisters
    <3>1. /\ Quietly /\ came' = came
          /\ UNCHANGED countVars \/ DropAdvertisement("setup")
      BY <1>12, <2>3 DEF PrepareDropped
    <3> QED
      BY <1>o, <1>a, <1>e, <1>b, <2>1, <3>1 DEF countVars
  <2> QED
    BY <2>2, <2>3
<1>3. CASE VerifyData
  <2>1. stream' \in [Client -> [Source -> {"off", "on", "ended", "stopping"}]]
    BY <1>3, <1>0, StartTypes DEF VerifyData, Source
  <2>a. BluezType'
    BY <1>3, <1>e, <2>1
       DEF VerifyData, BluezType, verifying, setting, daemonVars, heldVars, countVars
  <2>b. DaemonType'
    BY <1>3, <1>e, <2>1
       DEF VerifyData, DaemonType, verifying, setting, daemonVars, heldVars, countVars
  <2>c. OtherType'
    BY <1>3, <1>e, <2>1
       DEF VerifyData, OtherType, verifying, setting, daemonVars, heldVars, countVars
  <2> QED
    BY <2>a, <2>b, <2>c, TypePartsNext
<1>4. CASE VerifyNotification
  <2>1. stream' \in [Client -> [Source -> {"off", "on", "ended", "stopping"}]]
    BY <1>4, <1>0, <1>d, StartTypes DEF VerifyNotification, Source
  <2>2. events' \in 0..MaxEvents
    BY <1>4, <1>e DEF VerifyNotification, Fails
  <2>a. BluezType'
    BY <1>4, <2>1, <2>2
       DEF VerifyNotification, BluezType, verifying, setting, daemonVars, heldVars, countVars
  <2>b. DaemonType'
    BY <1>4, <2>1, <2>2
       DEF VerifyNotification, DaemonType, verifying, setting, daemonVars, heldVars, countVars
  <2>c. OtherType'
    BY <1>4, <2>1, <2>2
       DEF VerifyNotification, OtherType, verifying, setting, daemonVars, heldVars, countVars
  <2> QED
    BY <2>a, <2>b, <2>c, TypePartsNext
<1>5. CASE VerifyFails
  <2>1. events' \in 0..MaxEvents
    BY <1>5, <1>e DEF VerifyFails, QuiesceSucceeds, QuiesceTimesOut, Fails
  <2>a. BluezType'
    BY <1>5, <2>1
       DEF VerifyFails, BluezType, verifying, setting, daemonVars, heldVars, countVars
  <2>b. DaemonType'
    BY <1>5, <2>1
       DEF VerifyFails, DaemonType, verifying, setting, daemonVars, heldVars, countVars
  <2>c. OtherType'
    BY <1>5, <2>1
       DEF VerifyFails, OtherType, verifying, setting, daemonVars, heldVars, countVars
  <2> QED
    BY <2>a, <2>b, <2>c, TypePartsNext
<1>6. CASE VerifyDropped
  <2>a. BluezType'
    BY <1>6, <1>e, <1>d
       DEF VerifyDropped, BluezType, verifying, setting, daemonVars, heldVars, countVars
  <2>b. DaemonType'
    BY <1>6, <1>e, <1>d
       DEF VerifyDropped, DaemonType, verifying, setting, daemonVars, heldVars, countVars
  <2>c. OtherType'
    BY <1>6, <1>e, <1>d
       DEF VerifyDropped, OtherType, verifying, setting, daemonVars, heldVars, countVars
  <2> QED
    BY <2>a, <2>b, <2>c, TypePartsNext
<1>7. CASE SetupDrops
  <2>a. BluezType'
    BY <1>7, <1>e, <1>d
       DEF SetupDrops, BluezType, verifying, setting, daemonVars, heldVars, countVars
  <2>b. DaemonType'
    BY <1>7, <1>e, <1>d
       DEF SetupDrops, DaemonType, verifying, setting, daemonVars, heldVars, countVars
  <2>c. OtherType'
    BY <1>7, <1>e, <1>d
       DEF SetupDrops, OtherType, verifying, setting, daemonVars, heldVars, countVars
  <2> QED
    BY <2>a, <2>b, <2>c, TypePartsNext
<1>8. CASE SetupQuiesces
  <2>1. events' \in 0..MaxEvents
    BY <1>8, <1>e DEF SetupQuiesces, QuiesceSucceeds, QuiesceTimesOut, Fails
  <2>2. unread' \in BOOLEAN
    BY <1>8 DEF SetupQuiesces, TypeOK
  <2>3. live' \in [Client -> 0..1] /\ dying' \in [Client -> 0..MaxDying] /\ others' = others
    BY <1>8, <1>a, <1>b DEF SetupQuiesces, DropStored, countVars
  <2>a. BluezType'
    BY <1>8, <2>1, <2>2, <2>3
       DEF SetupQuiesces, BluezType, cleaning, setting, daemonVars, heldVars
  <2>b. DaemonType'
    BY <1>8, <2>1, <2>2, <2>3
       DEF SetupQuiesces, DaemonType, cleaning, setting, daemonVars, heldVars
  <2>c. OtherType'
    BY <1>8, <2>1, <2>2, <2>3
       DEF SetupQuiesces, OtherType, cleaning, setting, daemonVars, heldVars
  <2> QED
    BY <2>a, <2>b, <2>c, TypePartsNext
<1>9. CASE SetupReleases
  <2>a. BluezType'
    BY <1>9, <1>e DEF SetupReleases, BluezType, cleaning, setting, daemonVars, heldVars, countVars
  <2>b. DaemonType'
    BY <1>9, <1>e
       DEF SetupReleases, DaemonType, cleaning, setting, daemonVars, heldVars, countVars
  <2>c. OtherType'
    BY <1>9, <1>e DEF SetupReleases, OtherType, cleaning, setting, daemonVars, heldVars, countVars
  <2> QED
    BY <2>a, <2>b, <2>c, TypePartsNext
<1>10. CASE SetupExits
  <2>1. stream' \in [Client -> [Source -> {"off", "on", "ended", "stopping"}]]
    BY <1>10 DEF SetupExits, TypeOK, Off
  <2>2. live' \in [Client -> 0..1] /\ dying' \in [Client -> 0..MaxDying]
    BY <1>10, <1>0 DEF SetupExits, TypeOK
  <2>3. left' \subseteq Client
    BY <1>10 DEF SetupExits, TypeOK, Counting
  <2>a. BluezType'
    BY <1>10, <1>e, <2>1, <2>2, <2>3 DEF SetupExits, BluezType, setting, daemonVars, heldVars
  <2>b. DaemonType'
    BY <1>10, <1>e, <2>1, <2>2, <2>3 DEF SetupExits, DaemonType, setting, daemonVars, heldVars
  <2>c. OtherType'
    BY <1>10, <1>e, <2>1, <2>2, <2>3 DEF SetupExits, OtherType, setting, daemonVars, heldVars
  <2> QED
    BY <2>a, <2>b, <2>c, TypePartsNext
<1> QED
  BY <1>1, <1>2, <1>3, <1>4, <1>5, <1>6, <1>7, <1>8, <1>9, <1>10, <1>11, <1>12 DEF Setup

LEMMA OutsideTypes == TypeOK /\ (Environment \/ \E c \in Client : Carried(c)) => TypeOK'
<1> SUFFICES ASSUME TypeOK, Environment \/ \E c \in Client : Carried(c)
             PROVE  TypeOK'
  OBVIOUS
<1> BluezType /\ DaemonType /\ OtherType
  BY TypeParts
<1>0. MaxEvents \in Nat /\ MaxOthers \in Nat /\ MaxDying \in Nat /\ Counting \subseteq Client
  BY BoundAssumption DEF Counting
<1>e. Event \/ Quietly => events' \in 0..MaxEvents
  BY EventTypes
<1>l. LinkLost => /\ stream' \in [Client -> [Source -> {"off", "on", "ended", "stopping"}]]
                  /\ abandoned' \in BOOLEAN /\ phone' = "away"
  BY LossTypes
<1> USE DEF elsewhere, daemonVars, heldVars, setupVars, countVars
<1>1. ASSUME NEW c \in Client, NEW s \in Source, Stopped(c, s)
      PROVE  TypeOK'
  <2>1. stream' \in [Client -> [Source -> {"off", "on", "ended", "stopping"}]]
    BY <1>1, StopTypes
  <2>2. abandoned' \in BOOLEAN
    BY <1>1 DEF Stopped, TypeOK
  <2>a. BluezType'
    BY <1>1, <1>e, <2>1, <2>2 DEF Stopped, BluezType
  <2>b. DaemonType'
    BY <1>1, <1>e, <2>1, <2>2 DEF Stopped, DaemonType
  <2>c. OtherType'
    BY <1>1, <1>e, <2>1, <2>2 DEF Stopped, OtherType
  <2> QED
    BY <2>a, <2>b, <2>c, TypePartsNext
<1>2. ASSUME NEW c \in Client, Unregistered(c)
      PROVE  TypeOK'
  <2>1. dying' \in [Client -> 0..MaxDying]
    BY <1>2, <1>0 DEF Unregistered, TypeOK
  <2>2. left' \subseteq Client
    BY <1>2, <1>0 DEF Unregistered, TypeOK
  <2>a. BluezType'
    BY <1>2, <1>e, <2>1, <2>2 DEF Unregistered, BluezType
  <2>b. DaemonType'
    BY <1>2, <1>e, <2>1, <2>2 DEF Unregistered, DaemonType
  <2>c. OtherType'
    BY <1>2, <1>e, <2>1, <2>2 DEF Unregistered, OtherType
  <2> QED
    BY <2>a, <2>b, <2>c, TypePartsNext
<1>3. CASE OtherComes
  <2>a. BluezType'
    BY <1>3, <1>e, <1>0 DEF OtherComes, BluezType
  <2>b. DaemonType'
    BY <1>3, <1>e, <1>0 DEF OtherComes, DaemonType
  <2>c. OtherType'
    BY <1>3, <1>e, <1>0 DEF OtherComes, OtherType
  <2> QED
    BY <2>a, <2>b, <2>c, TypePartsNext
<1>4. CASE OtherGoes
  <2>a. BluezType'
    BY <1>4, <1>e, <1>0 DEF OtherGoes, BluezType
  <2>b. DaemonType'
    BY <1>4, <1>e, <1>0 DEF OtherGoes, DaemonType
  <2>c. OtherType'
    BY <1>4, <1>e, <1>0 DEF OtherGoes, OtherType
  <2> QED
    BY <2>a, <2>b, <2>c, TypePartsNext
<1>5. CASE BluezRestarts
  <2>a. BluezType'
    BY <1>5, <1>e, <1>0, <1>l DEF BluezRestarts, BluezType
  <2>b. DaemonType'
    BY <1>5, <1>e, <1>0, <1>l DEF BluezRestarts, DaemonType
  <2>c. OtherType'
    BY <1>5, <1>e, <1>0, <1>l DEF BluezRestarts, OtherType
  <2> QED
    BY <2>a, <2>b, <2>c, TypePartsNext
<1>6. CASE PowerChanges
  <2>a. BluezType'
    BY <1>6, <1>e, <1>l DEF PowerChanges, BluezType
  <2>b. DaemonType'
    BY <1>6, <1>e, <1>l DEF PowerChanges, DaemonType
  <2>c. OtherType'
    BY <1>6, <1>e, <1>l DEF PowerChanges, OtherType
  <2> QED
    BY <2>a, <2>b, <2>c, TypePartsNext
<1>7. CASE PhoneComes
  <2>a. BluezType'
    BY <1>7, <1>e DEF PhoneComes, BluezType
  <2>b. DaemonType'
    BY <1>7, <1>e DEF PhoneComes, DaemonType
  <2>c. OtherType'
    BY <1>7, <1>e DEF PhoneComes, OtherType
  <2> QED
    BY <2>a, <2>b, <2>c, TypePartsNext
<1>8. CASE PhoneLeaves
  <2>a. BluezType'
    BY <1>8, <1>e, <1>l DEF PhoneLeaves, BluezType
  <2>b. DaemonType'
    BY <1>8, <1>e, <1>l DEF PhoneLeaves, DaemonType
  <2>c. OtherType'
    BY <1>8, <1>e, <1>l DEF PhoneLeaves, OtherType
  <2> QED
    BY <2>a, <2>b, <2>c, TypePartsNext
<1> QED
  BY <1>1, <1>2, <1>3, <1>4, <1>5, <1>6, <1>7, <1>8 DEF Environment, Carried

LEMMA TypeNext == TypeOK /\ [Next]_vars => TypeOK'
<1>1. TypeOK /\ UNCHANGED vars => TypeOK'
  BY DEF TypeOK, vars, bluezVars, daemonVars, heldVars, setupVars, historyVars
<1> QED
  BY <1>1, DaemonTypes, SetupTypes, OutsideTypes DEF Next

-----------------------------------------------------------------------------
(* Counts: the daemon's baseline and its advertisement *)

\* CountsTyped, one step later.
LEMMA CountsTypedNext ==
    ASSUME TypeOK'
    PROVE  /\ \A c \in Client : live'[c] \in 0..1 /\ dying'[c] \in Nat
           /\ others' \in Nat /\ Active' \in Nat /\ BesidesDaemon' \in Nat /\ BesidesSetup' \in Nat
           /\ counted' \in Int /\ advertising_baseline' \in Int /\ baseline' \in Int
           /\ Base' \in Int
<1>1. /\ \A c \in Client : live'[c] \in 0..1 /\ dying'[c] \in Nat
      /\ others' \in Nat
      /\ counted' \in Int /\ advertising_baseline' \in Int /\ baseline' \in Int
  BY BoundAssumption DEF TypeOK, NoBaseline
<1>2. "daemon" \in Client /\ "setup" \in Client
  BY DEF Client
<1> QED
  BY <1>1, <1>2 DEF Active, BesidesDaemon, BesidesSetup, Base

\* The transport goes on without a change of its registration or of the counts.
LEMMA CountsGoOn ==
    ASSUME Counts, pc' \notin {"advertise", "release"}, pc' = "baseline" => ~registrations,
           UNCHANGED <<live, dying, others, registrations, advertising_baseline, came, left>>
    PROVE  Counts'
BY DEF Counts, Base, BesidesDaemon

\* The others change: a further one is remembered in came, one fewer in left.
LEMMA CountsKept ==
    ASSUME TypeOK, TypeOK', Counts,
           UNCHANGED <<pc, counted, registrations, advertising_baseline>>,
           live'["daemon"] \in {live["daemon"], 0},
           registrations \/ pc = "advertise" =>
               /\ ~came' => ~came /\ BesidesDaemon' <= BesidesDaemon
               /\ "daemon" \notin left' => "daemon" \notin left /\ BesidesDaemon' >= BesidesDaemon
    PROVE  Counts'
<1>1. Base' = Base
  BY DEF Base
<1>2. BesidesDaemon \in Nat /\ BesidesDaemon' \in Nat /\ Base \in Int
  BY CountsTyped, CountsTypedNext
<1> QED
  BY <1>1, <1>2 DEF Counts

LEMMA DaemonCounts == TypeOK /\ TypeOK' /\ Counts /\ (Daemon \/ Terminate) => Counts'
<1> SUFFICES ASSUME TypeOK, TypeOK', Counts, Daemon \/ Terminate
             PROVE  Counts'
  OBVIOUS
<1>0. "daemon" \in Client /\ "setup" \in Client /\ "daemon" # "setup"
  BY DEF Client
<1>1. CASE Reconcile
  BY <1>1, CountsGoOn DEF Reconcile, Return, Goto, reconciling, bluezVars, heldVars
<1>2. CASE Judge
  BY <1>2, CountsGoOn DEF Judge, Return, Goto, countVars, historyVars
<1>3. CASE ReadBaseline
  <2>1. CASE Return("error") /\ UNCHANGED <<counted, came, left>>
    BY <1>3, <2>1, CountsGoOn DEF ReadBaseline, Return, Goto, reconciling, bluezVars, heldVars
  <2>2. CASE counted' = Active /\ Goto("advertise")
    <3>1. /\ ~registrations /\ ~registrations' /\ live'["daemon"] = live["daemon"]
          /\ BesidesDaemon' = BesidesDaemon
      BY <1>3 DEF ReadBaseline, Counts, reconciling, bluezVars, heldVars, BesidesDaemon
    <3>2. live["daemon"] = 0 /\ Base' = BesidesDaemon
      BY <2>2, <3>1, CountsTyped DEF Counts, Goto, Base
    <3> QED
      BY <3>1, <3>2, CountsTyped DEF Counts
  <2> QED
    BY <1>3, <2>1, <2>2 DEF ReadBaseline
<1>4. CASE Advertise
  <2>1. /\ pc = "advertise" /\ pc' = "idle" /\ ~registrations /\ live["daemon"] = 0
        /\ came' = came /\ left' = left
    BY <1>4 DEF Advertise, Counts, Return, Goto, advertising, historyVars
  <2>2. CASE UNCHANGED <<countVars, registrations, advertising_baseline>>
    BY <2>1, <2>2 DEF Counts, countVars
  <2>3. CASE Register("daemon") /\ registrations' = TRUE /\ advertising_baseline' = counted
    <3>1. BesidesDaemon' = BesidesDaemon
      BY <1>0, <2>3, RegisterTypes DEF BesidesDaemon
    <3>2. Base' = Base
      BY <2>1, <2>3 DEF Base
    <3> QED
      BY <2>1, <2>3, <3>1, <3>2 DEF Counts
  <2> QED
    BY <1>4, <2>2, <2>3 DEF Advertise
<1>5. CASE Device
  BY <1>5, CountsGoOn DEF Device, Return, Goto, reconciling, bluezVars
<1>6. CASE Leave \/ WaitForPhone \/ Subscribe \/ Session
  <2>1. /\ UNCHANGED <<countVars, historyVars, registrations, advertising_baseline>>
        /\ pc' \in {"quiesce", "data", "idle"}
    BY <1>6 DEF Leave, WaitForPhone, Subscribe, Session, End, Call, Goto, acting
  <2> QED
    BY <2>1, CountsGoOn DEF countVars, historyVars
<1>7. CASE SubscribeData \/ SubscribeNotification
  <2>1. /\ UNCHANGED <<countVars, historyVars, registrations, advertising_baseline>>
        /\ pc' \in {"quiesce", "notification", "idle"}
    BY <1>7 DEF SubscribeData, SubscribeNotification, SubscribeFails, Call, Goto, subscribing
  <2> QED
    BY <2>1, CountsGoOn DEF countVars, historyVars
<1>8. CASE Quiesce
  <2>1. CASE then = "idle"
    <3>1. /\ pc = "quiesce" /\ pc' = "idle"
          /\ UNCHANGED <<live, dying, others, registrations, advertising_baseline>>
          /\ came' = (came /\ registrations)
          /\ left' = IF registrations THEN left ELSE left \ {"daemon"}
      BY <1>8, <2>1 DEF Quiesce, Quiet, Goto, countVars
    <3> QED
      BY <3>1 DEF Counts, Base, BesidesDaemon
  <2>2. CASE then # "idle"
    <3>1. DropAdvertisement("daemon") /\ registrations' = FALSE /\ pc' = "release"
      BY <1>8, <2>2 DEF Quiesce, Quiet, Goto
    <3>2. live'["daemon"] = 0
      BY <1>0, <3>1, DropTypes
    <3> QED
      BY <3>1, <3>2 DEF Counts
  <2> QED
    BY <2>1, <2>2
<1>9. CASE Release
  <2>1. ~registrations /\ pc' \in {"idle", "baseline", "exited"}
    BY <1>9 DEF Release, Counts, Goto, TypeOK
  <2> QED
    BY <1>9, <2>1, CountsGoOn DEF Release, bluezVars, heldVars, historyVars
<1>10. CASE Terminate
  BY <1>10, CountsGoOn DEF Terminate, Goto, countVars, historyVars
<1> QED
  BY <1>1, <1>2, <1>3, <1>4, <1>5, <1>6, <1>7, <1>8, <1>9, <1>10 DEF Daemon

LEMMA SetupKeepsCounts == TypeOK /\ TypeOK' /\ Counts /\ Setup => Counts'
<1> SUFFICES ASSUME TypeOK, TypeOK', Counts, Setup
             PROVE  Counts'
  OBVIOUS
<1>0. "daemon" \in Client /\ "setup" \in Client /\ "daemon" # "setup"
  BY DEF Client
<1>n. BesidesDaemon \in Nat /\ BesidesDaemon' \in Nat
  BY CountsTyped, CountsTypedNext
<1>f. UNCHANGED <<pc, counted, registrations, advertising_baseline>>
  BY DEF Setup, SetupBegins, SetupAdvertises, SetupRegistersAgent, PrepareDropped, VerifyData,
         VerifyNotification, VerifyFails, VerifyDropped, SetupDrops, SetupQuiesces,
         SetupReleases, SetupExits, opening, setting, verifying,
         cleaning, daemonVars, heldVars
<1>c. registrations \/ pc = "advertise" <=> "daemon" \in Counting
  BY <1>0 DEF Counting
<1>1. CASE \/ SetupBegins \/ VerifyData \/ VerifyNotification \/ VerifyFails \/ VerifyDropped
           \/ SetupDrops \/ SetupReleases
  <2>1. UNCHANGED <<live, dying, others, came>> /\ left' \in {left, left \ {"setup"}}
    BY <1>1 DEF SetupBegins, VerifyData, VerifyNotification, VerifyFails, VerifyDropped,
       SetupDrops, SetupReleases, verifying, cleaning, countVars
  <2>2. BesidesDaemon' = BesidesDaemon
    BY <2>1 DEF BesidesDaemon
  <2> QED
    BY <1>0, <1>n, <1>f, <2>1, <2>2, CountsKept
<1>2. CASE SetupRegisters /\ left' = left
  <2>1. /\ live'["daemon"] = live["daemon"] /\ dying' = dying /\ others' = others
        /\ live'["setup"] = 1
    BY <1>0, <1>2, RegisterTypes DEF SetupRegisters
  <2>2. BesidesDaemon' >= BesidesDaemon
    BY <1>0, <2>1, CountsTyped DEF BesidesDaemon
  <2>3. registrations \/ pc = "advertise" => came'
    BY <1>c, <1>2 DEF SetupRegisters
  <2> QED
    BY <1>f, <1>2, <2>1, <2>2, <2>3, CountsKept
<1>3. CASE DropAdvertisement("setup") /\ UNCHANGED <<came, left>>
  <2>1. /\ live'["daemon"] = live["daemon"] /\ dying'["daemon"] = dying["daemon"] /\ others' = others
        /\ live'["setup"] = 0 /\ dying'["setup"] = dying["setup"] + live["setup"]
    BY <1>0, <1>3, DropTypes
  <2>2. BesidesDaemon' = BesidesDaemon
    BY <1>0, <2>1, CountsTyped DEF BesidesDaemon
  <2> QED
    BY <1>n, <1>f, <1>3, <2>1, <2>2, CountsKept
<1>5. CASE UNCHANGED <<countVars, came, left>>
  <2>1. BesidesDaemon' = BesidesDaemon /\ live' = live
    BY <1>5 DEF BesidesDaemon, countVars
  <2> QED
    BY <1>n, <1>f, <1>5, <2>1, CountsKept
<1>4. CASE SetupExits
  <2>1. /\ UNCHANGED <<others, came>>
        /\ live'["daemon"] = live["daemon"] /\ live'["setup"] = 0
        /\ dying'["daemon"] = dying["daemon"] /\ dying'["setup"] = 0
        /\ left' = (IF live["setup"] + dying["setup"] > 0 THEN Counting ELSE left) \ {"setup"}
    BY <1>0, <1>4 DEF SetupExits, TypeOK
  <2>2. CASE live["setup"] + dying["setup"] > 0
    <3>1. registrations \/ pc = "advertise" => "daemon" \in left'
      BY <1>0, <1>c, <2>1, <2>2
    <3>2. BesidesDaemon' <= BesidesDaemon
      BY <1>0, <2>1, CountsTyped DEF BesidesDaemon
    <3> QED
      BY <1>f, <2>1, <3>1, <3>2, CountsKept
  <2>3. CASE ~(live["setup"] + dying["setup"] > 0)
    <3>1. live["setup"] = 0 /\ dying["setup"] = 0
      BY <1>0, <2>3, CountsTyped
    <3>2. BesidesDaemon' = BesidesDaemon
      BY <2>1, <3>1 DEF BesidesDaemon
    <3> QED
      BY <1>0, <1>n, <1>f, <2>1, <2>3, <3>2, CountsKept
  <2> QED
    BY <2>2, <2>3
<1>6. \/ SetupRegisters /\ left' = left
      \/ DropAdvertisement("setup") /\ UNCHANGED <<came, left>>
      \/ UNCHANGED <<countVars, came, left>>
      \/ SetupBegins \/ VerifyData \/ VerifyNotification \/ VerifyFails \/ VerifyDropped
      \/ SetupDrops \/ SetupReleases \/ SetupExits
  BY DEF Setup, SetupAdvertises, SetupRegistersAgent, PrepareDropped, SetupQuiesces, DropStored,
         opening, cleaning
<1> QED
  BY <1>1, <1>2, <1>3, <1>4, <1>5, <1>6

LEMMA OutsideKeepsCounts ==
    TypeOK /\ TypeOK' /\ Counts /\ (Environment \/ \E c \in Client : Carried(c)) => Counts'
<1> SUFFICES ASSUME TypeOK, TypeOK', Counts, Environment \/ \E c \in Client : Carried(c)
             PROVE  Counts'
  OBVIOUS
<1>0. Client = {"daemon", "setup"}
  BY DEF Client
<1>n. BesidesDaemon \in Nat /\ BesidesDaemon' \in Nat
  BY CountsTyped, CountsTypedNext
<1>c. registrations \/ pc = "advertise" <=> "daemon" \in Counting
  BY <1>0 DEF Counting
<1> USE DEF elsewhere, daemonVars, heldVars
<1>1. CASE \/ PowerChanges \/ PhoneComes \/ PhoneLeaves
           \/ \E c \in Client, s \in Source : Stopped(c, s)
  <2>1. UNCHANGED <<live, dying, others, came, left, pc, counted, registrations,
                    advertising_baseline>>
    BY <1>1 DEF PowerChanges, PhoneComes, PhoneLeaves, Stopped, countVars
  <2> QED
    BY <2>1 DEF Counts, Base, BesidesDaemon
<1>2. ASSUME NEW c \in Client, Unregistered(c)
      PROVE  Counts'
  <2>1. /\ UNCHANGED <<live, others, came, pc, counted, registrations, advertising_baseline>>
        /\ dying' = [dying EXCEPT ![c] = @ - 1]
    BY <1>2 DEF Unregistered
  <2>2. BesidesDaemon' <= BesidesDaemon
    <3>1. dying'["daemon"] <= dying["daemon"] /\ dying'["setup"] <= dying["setup"]
      BY <1>0, <2>1, CountsTyped DEF TypeOK
    <3> QED
      BY <1>0, <2>1, <3>1, CountsTyped, CountsTypedNext DEF BesidesDaemon
  <2>3. registrations \/ pc = "advertise" => "daemon" \in left'
    BY <1>c, <1>2 DEF Unregistered
  <2> QED
    BY <2>1, <2>2, <2>3, CountsKept
<1>3. CASE OtherComes
  <2>1. /\ UNCHANGED <<live, dying, left, pc, counted, registrations, advertising_baseline>>
        /\ others' = others + 1 /\ came' = ("daemon" \in Counting)
    BY <1>3 DEF OtherComes
  <2>2. BesidesDaemon' >= BesidesDaemon
    BY <1>0, <2>1, CountsTyped DEF BesidesDaemon
  <2>3. registrations \/ pc = "advertise" => came'
    BY <1>c, <2>1
  <2> QED
    BY <2>1, <2>2, <2>3, CountsKept
<1>4. CASE OtherGoes
  <2>1. /\ UNCHANGED <<live, dying, came, pc, counted, registrations, advertising_baseline>>
        /\ others' = others - 1 /\ left' = Counting
    BY <1>4 DEF OtherGoes
  <2>2. BesidesDaemon' <= BesidesDaemon
    BY <1>0, <2>1, CountsTyped DEF BesidesDaemon
  <2> QED
    BY <1>c, <2>1, <2>2, CountsKept
<1>5. CASE BluezRestarts
  <2>1. /\ live' = [c \in Client |-> 0] /\ dying' = [c \in Client |-> 0] /\ others' = 0
        /\ left' = Counting
        /\ UNCHANGED <<came, pc, counted, registrations, advertising_baseline>>
    BY <1>5 DEF BluezRestarts
  <2>2. BesidesDaemon' = 0 /\ live'["daemon"] = 0
    BY <1>0, <2>1 DEF BesidesDaemon
  <2> QED
    BY <1>n, <1>c, <2>1, <2>2, CountsKept
<1> QED
  BY <1>1, <1>2, <1>3, <1>4, <1>5 DEF Environment, Carried

LEMMA CountsNext == TypeOK /\ TypeOK' /\ Counts /\ [Next]_vars => Counts'
<1>1. Counts /\ UNCHANGED vars => Counts'
  BY DEF vars, bluezVars, daemonVars, heldVars, historyVars, Counts, Base, BesidesDaemon
<1> QED
  BY <1>1, DaemonCounts, SetupKeepsCounts, OutsideKeepsCounts DEF Next

-----------------------------------------------------------------------------
(* SetupCounts: the baseline of the setup and its advertisement *)

\* The setup stays where it is, or what it has counted and what is told of it.
LEMMA SetupCountsKept ==
    ASSUME TypeOK, TypeOK', SetupCounts,
           UNCHANGED <<step, result, baseline, stored>>, unread => unread',
           live'["setup"] <= live["setup"], dying'["setup"] <= dying["setup"],
           baseline # NoBaseline =>
               /\ "setup" \in left => "setup" \in left'
               /\ "setup" \notin left' => BesidesSetup' >= BesidesSetup
    PROVE  SetupCounts'
<1>1. /\ BesidesSetup \in Nat /\ BesidesSetup' \in Nat /\ baseline \in Int
      /\ live["setup"] \in Nat /\ dying["setup"] \in Nat
      /\ live'["setup"] \in Nat /\ dying'["setup"] \in Nat
  BY CountsTyped, CountsTypedNext DEF Client
<1> QED
  BY <1>1 DEF SetupCounts

\* The steps of the transport: its advertisement comes, or is dropped and still counts.
LEMMA DaemonKeepsSetupCounts ==
    TypeOK /\ TypeOK' /\ SetupCounts /\ (Daemon \/ Terminate) => SetupCounts'
<1> SUFFICES ASSUME TypeOK, TypeOK', SetupCounts, Daemon \/ Terminate
             PROVE  SetupCounts'
  OBVIOUS
<1>0. "daemon" \in Client /\ "setup" \in Client /\ "daemon" # "setup"
  BY DEF Client
<1>n. /\ BesidesSetup \in Nat /\ live["setup"] \in Nat /\ dying["setup"] \in Nat
      /\ live["daemon"] \in 0..1 /\ dying["daemon"] \in Nat /\ others \in Nat
  BY CountsTyped DEF Client
<1>f. UNCHANGED <<step, result, baseline, stored, unread>> /\ ("setup" \in left <=> "setup" \in left')
  <2>1. CASE Reconcile \/ ReadBaseline \/ Device
    BY <2>1 DEF Reconcile, ReadBaseline, Device, reconciling, setupVars
  <2>2. CASE Judge \/ Release \/ Terminate
    BY <2>2 DEF Judge, Release, Terminate, setupVars, historyVars
  <2>3. CASE Advertise
    BY <2>3 DEF Advertise, advertising, setupVars, historyVars
  <2>4. CASE Leave \/ WaitForPhone \/ Subscribe \/ Session
    BY <2>4 DEF Leave, WaitForPhone, Subscribe, Session, acting, setupVars, historyVars
  <2>5. CASE SubscribeData \/ SubscribeNotification
    BY <2>5 DEF SubscribeData, SubscribeNotification, subscribing, setupVars, historyVars
  <2>6. CASE Quiesce
    BY <2>6 DEF Quiesce, Quiet, quiescing, setupVars
  <2> QED
    BY <2>1, <2>2, <2>3, <2>4, <2>5, <2>6 DEF Daemon
<1>1. CASE UNCHANGED countVars
  BY <1>n, <1>f, <1>1, SetupCountsKept DEF countVars, BesidesSetup
<1>2. CASE Register("daemon")
  <2>1. /\ live'["setup"] = live["setup"] /\ dying' = dying /\ others' = others
        /\ live'["daemon"] = 1
    BY <1>0, <1>2, RegisterTypes
  <2>2. BesidesSetup' >= BesidesSetup
    BY <1>n, <2>1 DEF BesidesSetup
  <2> QED
    BY <1>n, <1>f, <2>1, <2>2, SetupCountsKept
<1>3. CASE DropAdvertisement("daemon")
  <2>1. /\ live'["setup"] = live["setup"] /\ dying'["setup"] = dying["setup"] /\ others' = others
        /\ live'["daemon"] = 0 /\ dying'["daemon"] = dying["daemon"] + live["daemon"]
    BY <1>0, <1>3, DropTypes
  <2>2. BesidesSetup' = BesidesSetup
    BY <1>n, <2>1 DEF BesidesSetup
  <2> QED
    BY <1>n, <1>f, <2>1, <2>2, SetupCountsKept
<1>4. UNCHANGED countVars \/ Register("daemon") \/ DropAdvertisement("daemon")
  <2>1. CASE Reconcile \/ ReadBaseline \/ Device \/ Release
    BY <2>1 DEF Reconcile, ReadBaseline, Device, Release, reconciling, bluezVars, countVars
  <2>2. CASE Judge \/ Terminate
    BY <2>2 DEF Judge, Terminate
  <2>3. CASE Advertise
    BY <2>3 DEF Advertise
  <2>4. CASE Leave \/ WaitForPhone \/ Subscribe \/ Session
    BY <2>4 DEF Leave, WaitForPhone, Subscribe, Session, acting
  <2>5. CASE SubscribeData \/ SubscribeNotification
    BY <2>5 DEF SubscribeData, SubscribeNotification, subscribing
  <2>6. CASE Quiesce
    BY <2>6 DEF Quiesce, Quiet
  <2> QED
    BY <2>1, <2>2, <2>3, <2>4, <2>5, <2>6 DEF Daemon
<1> QED
  BY <1>1, <1>2, <1>3, <1>4

LEMMA SetupSetupCounts == TypeOK /\ TypeOK' /\ SetupCounts /\ Setup => SetupCounts'
<1> SUFFICES ASSUME TypeOK, TypeOK', SetupCounts, Setup
             PROVE  SetupCounts'
  OBVIOUS
<1>0. "daemon" \in Client /\ "setup" \in Client /\ "daemon" # "setup"
  BY DEF Client
<1>n. /\ BesidesSetup \in Nat /\ live["setup"] \in Nat /\ dying["setup"] \in Nat
      /\ live["daemon"] \in 0..1 /\ dying["daemon"] \in Nat /\ others \in Nat
      /\ Active = live["setup"] + dying["setup"] + BesidesSetup
      /\ baseline \in Int /\ BesidesSetup' \in Nat /\ NoBaseline < 0
  BY CountsTyped, CountsTypedNext DEF Client, NoBaseline
<1>1. CASE SetupBegins
  <2>1. /\ step = "none" /\ step' \in {"advertise", "verify"}
        /\ \/ baseline' = Active
           \/ step' = "verify" /\ UNCHANGED <<baseline, left>>
        /\ UNCHANGED <<live, dying, others, stored>>
    BY <1>1 DEF SetupBegins, countVars
  <2>2. live["setup"] = 0 /\ dying["setup"] = 0 /\ BesidesSetup' = BesidesSetup
    BY <2>1 DEF SetupCounts, BesidesSetup
  <2> QED
    BY <1>n, <2>1, <2>2 DEF SetupCounts
<1>2. CASE SetupAdvertises \/ SetupRegistersAgent \/ PrepareDropped
  <2>1. /\ step \in {"advertise", "agent"} /\ step' \in {"agent", "verify", "quiesce"}
        /\ UNCHANGED <<left, baseline>> /\ stored' \in {stored, {"registrations"}}
    BY <1>2 DEF SetupAdvertises, SetupRegistersAgent, PrepareDropped, opening
  <2>2. BesidesSetup' = BesidesSetup
    <3>1. CASE Register("setup")
      BY <1>0, <3>1, RegisterTypes DEF BesidesSetup
    <3>2. CASE UNCHANGED countVars
      BY <3>2 DEF BesidesSetup, countVars
    <3>3. CASE DropAdvertisement("setup")
      BY <1>0, <3>3, DropTypes DEF BesidesSetup
    <3> QED
      BY <1>2, <3>1, <3>2, <3>3
         DEF SetupAdvertises, SetupRegistersAgent, PrepareDropped, SetupRegisters
  <2> QED
    BY <2>1, <2>2 DEF SetupCounts
<1>3. CASE VerifyData \/ VerifyNotification \/ VerifyFails \/ VerifyDropped \/ SetupDrops
  <2>1. /\ step \in {"verify", "notification", "partial", "verified"}
        /\ step' \in {"notification", "verified", "partial", "quiesce"}
        /\ stored' \in {stored, stored \cup {"streams"}}
        /\ UNCHANGED <<live, dying, others, left, baseline>>
    BY <1>3 DEF VerifyData, VerifyNotification, VerifyFails, VerifyDropped, SetupDrops, verifying,
       countVars
  <2> QED
    BY <2>1 DEF SetupCounts, BesidesSetup
<1>4. CASE SetupQuiesces
  <2>1. /\ step = "quiesce" /\ step' = "release" /\ UNCHANGED <<left, baseline, stored>>
        /\ DropAdvertisement("setup") \/ UNCHANGED countVars
    BY <1>4 DEF SetupQuiesces, DropStored, cleaning
  <2>2. BesidesSetup' = BesidesSetup
    BY <1>0, <2>1, DropTypes DEF BesidesSetup, countVars
  <2> QED
    BY <2>1, <2>2 DEF SetupCounts
<1>5. CASE SetupReleases
  <2>1. /\ step = "release" /\ step' = "done"
        /\ UNCHANGED <<live, dying, others, left, baseline, stored>>
        /\ "registrations" \in stored => Active <= baseline \/ unread' \/ result' = "failed"
    BY <1>5 DEF SetupReleases, cleaning, countVars
  <2>2. BesidesSetup' = BesidesSetup
    BY <2>1 DEF BesidesSetup
  <2>3. Active <= baseline /\ "setup" \notin left => live["setup"] + dying["setup"] = 0
    <3>1. baseline # NoBaseline /\ "setup" \notin left => BesidesSetup >= baseline
      BY DEF SetupCounts
    <3> QED
      BY <1>n, <3>1
  <2> QED
    BY <2>1, <2>2, <2>3 DEF SetupCounts
<1>6. CASE SetupExits
  BY <1>6 DEF SetupExits, SetupCounts
<1> QED
  BY <1>1, <1>2, <1>3, <1>4, <1>5, <1>6 DEF Setup

LEMMA OutsideKeepsSetupCounts ==
    TypeOK /\ TypeOK' /\ SetupCounts /\ (Environment \/ \E c \in Client : Carried(c))
        => SetupCounts'
<1> SUFFICES ASSUME TypeOK, TypeOK', SetupCounts, Environment \/ \E c \in Client : Carried(c)
             PROVE  SetupCounts'
  OBVIOUS
<1>0. Client = {"daemon", "setup"}
  BY DEF Client
<1>n. /\ BesidesSetup \in Nat /\ live["setup"] \in Nat /\ dying["setup"] \in Nat
      /\ live["daemon"] \in Nat /\ dying["daemon"] \in Nat /\ others \in Nat
  BY CountsTyped DEF Client
<1>c. baseline # NoBaseline <=> "setup" \in Counting
  BY <1>0 DEF Counting
<1> USE DEF elsewhere, setupVars
<1>1. CASE \/ PowerChanges \/ PhoneComes \/ PhoneLeaves
           \/ \E c \in Client, s \in Source : Stopped(c, s)
  <2>1. UNCHANGED <<live, dying, others, left, step, result, baseline, stored, unread>>
    BY <1>1 DEF PowerChanges, PhoneComes, PhoneLeaves, Stopped, countVars
  <2> QED
    BY <2>1 DEF SetupCounts, BesidesSetup
<1>2. CASE Unregistered("setup")
  <2>1. /\ UNCHANGED <<live, others, step, result, baseline, stored, unread>>
        /\ dying'["setup"] = dying["setup"] - 1 /\ dying'["daemon"] = dying["daemon"]
        /\ left' = left \cup (Counting \cap {"daemon"})
    BY <1>0, <1>2 DEF Unregistered, TypeOK
  <2>2. BesidesSetup' = BesidesSetup
    BY <2>1 DEF BesidesSetup
  <2> QED
    BY <1>n, <2>1, <2>2, SetupCountsKept
<1>3. CASE Unregistered("daemon")
  <2>1. /\ UNCHANGED <<live, others, step, result, baseline, stored, unread>>
        /\ dying'["setup"] = dying["setup"] /\ left' = left \cup Counting
    BY <1>0, <1>3 DEF Unregistered, TypeOK
  <2> QED
    BY <1>n, <1>c, <2>1, SetupCountsKept
<1>4. CASE OtherComes
  <2>1. /\ UNCHANGED <<live, dying, left, step, result, baseline, stored, unread>> /\ others' = others + 1
    BY <1>4 DEF OtherComes
  <2>2. BesidesSetup' >= BesidesSetup
    BY <1>n, <2>1 DEF BesidesSetup
  <2> QED
    BY <1>n, <2>1, <2>2, SetupCountsKept
<1>5. CASE OtherGoes
  <2>1. UNCHANGED <<live, dying, step, result, baseline, stored, unread>> /\ left' = Counting
    BY <1>5 DEF OtherGoes
  <2> QED
    BY <1>n, <1>c, <2>1, SetupCountsKept
<1>6. CASE BluezRestarts
  <2>1. /\ live'["setup"] = 0 /\ dying'["setup"] = 0 /\ left' = Counting
        /\ UNCHANGED <<step, result, baseline, stored, unread>>
    BY <1>0, <1>6 DEF BluezRestarts
  <2> QED
    BY <1>n, <1>c, <2>1, SetupCountsKept
<1> QED
  BY <1>0, <1>1, <1>2, <1>3, <1>4, <1>5, <1>6 DEF Environment, Carried

LEMMA SetupCountsNext == TypeOK /\ TypeOK' /\ SetupCounts /\ [Next]_vars => SetupCounts'
<1>1. SetupCounts /\ UNCHANGED vars => SetupCounts'
  BY DEF vars, bluezVars, setupVars, historyVars, SetupCounts, BesidesSetup
<1> QED
  BY <1>1, DaemonKeepsSetupCounts, SetupSetupCounts, OutsideKeepsSetupCounts DEF Next

-----------------------------------------------------------------------------
(* Streams: those of the transport *)

\* The transport goes on with the streams as they are.
LEMMA StreamsGoOn ==
    ASSUME Streams, UNCHANGED <<subscriptions, characteristics, abandoned, stream>>,
           pc # "notification", pc' \notin {"data", "notification", "quiesce", "release", "exited"},
           observed' # "available"
    PROVE  Streams'
BY DEF Streams, DataFirst, Released, Accounted

\* It drops them, and goes on to wait for them.
LEMMA StreamsDropped ==
    ASSUME TypeOK, Streams, DropStreams("daemon"), subscriptions' = FALSE, pc' = "quiesce",
           observed' # "available", UNCHANGED <<characteristics, abandoned>>
    PROVE  Streams'
<1>1. /\ Released("daemon")'
      /\ stream["daemon"] = Off => stream'["daemon"] = Off
  BY DropReleases DEF Client
<1>2. DataFirst("daemon")'
  BY <1>1 DEF DataFirst, Released, Source
<1>3. ~characteristics => Accounted'
  BY <1>1 DEF Streams, Accounted
<1> QED
  BY <1>1, <1>2, <1>3 DEF Streams

\* Nothing of the transport changes, or what is said of its streams stays true.
LEMMA StreamsKept ==
    ASSUME Streams, UNCHANGED <<pc, subscriptions, characteristics, observed>>,
           DataFirst("daemon")',
           stream["daemon"]["data"] \in {"on", "ended"} => stream'["daemon"]["data"] \in {"on", "ended"},
           Released("daemon") => Released("daemon")',
           Accounted => Accounted'
    PROVE  Streams'
BY DEF Streams

LEMMA DaemonStreams == TypeOK /\ Streams /\ (Daemon \/ Terminate) => Streams'
<1> SUFFICES ASSUME TypeOK, Streams, Daemon \/ Terminate
             PROVE  Streams'
  OBVIOUS
<1>0. "daemon" \in Client /\ "data" \in Source /\ "notification" \in Source
  BY DEF Client, Source
<1>1. CASE Reconcile
  BY <1>1, StreamsGoOn DEF Reconcile, Return, Goto, reconciling, bluezVars, heldVars
<1>2. CASE Judge
  <2>1. pc = "judge" /\ observed # "available" /\ UNCHANGED <<characteristics, abandoned>>
    BY <1>2 DEF Judge, Streams, historyVars
  <2>2. CASE pc' = "quiesce"
    <3>1. DropStreams("daemon") /\ subscriptions' = FALSE /\ observed' = observed
      BY <1>2, <2>2 DEF Judge, Return, Goto
    <3> QED
      BY <2>1, <2>2, <3>1, StreamsDropped
  <2>3. CASE pc' # "quiesce"
    <3>1. /\ UNCHANGED <<subscriptions, stream>> /\ pc' \in {"idle", "device"}
          /\ observed' \in {"error", observed}
      BY <1>2, <2>3 DEF Judge, Return, Goto
    <3> QED
      BY <2>1, <3>1, StreamsGoOn
  <2> QED
    BY <2>2, <2>3
<1>3. CASE ReadBaseline
  <2>1. /\ pc = "baseline" /\ pc' \in {"idle", "advertise"} /\ observed' \in {"error", observed}
        /\ UNCHANGED <<subscriptions, characteristics, abandoned, stream>>
    BY <1>3 DEF ReadBaseline, Return, Goto, reconciling, bluezVars, heldVars
  <2> QED
    BY <2>1, StreamsGoOn DEF Streams
<1>4. CASE Advertise
  <2>1. /\ pc = "advertise" /\ pc' = "idle" /\ observed' \in {"error", "advertising"}
        /\ UNCHANGED <<subscriptions, characteristics, abandoned, stream>>
    BY <1>4 DEF Advertise, Return, Goto, advertising, historyVars
  <2> QED
    BY <2>1, StreamsGoOn
<1>5. CASE Device
  <2>1. /\ pc = "device" /\ pc' = "idle" /\ UNCHANGED <<subscriptions, abandoned, stream>>
        /\ characteristics' \in {characteristics, TRUE}
    BY <1>5 DEF Device, Return, Goto, reconciling, bluezVars, TypeOK
  <2>2. observed' = "available" => characteristics' /\ ~subscriptions
    BY <1>5 DEF Device, Return, TypeOK
  <2> QED
    BY <2>1, <2>2 DEF Streams, DataFirst, Released, Accounted
<1>6. CASE Leave \/ WaitForPhone
  BY <1>6, StreamsDropped DEF Leave, WaitForPhone, End, Call, Goto, acting, historyVars
<1>7. CASE Subscribe
  BY <1>7 DEF Subscribe, Call, Goto, acting, historyVars, Streams, DataFirst, Released, Accounted
<1>8. CASE Session
  <2>1. CASE End("idle")
    BY <1>8, <2>1, StreamsDropped DEF Session, End, Call, Goto, acting, historyVars
  <2>2. CASE Call("idle", "idle") /\ UNCHANGED <<subscriptions, stream>>
    BY <1>8, <2>2, StreamsGoOn DEF Session, Call, Goto, acting, historyVars
  <2> QED
    BY <1>8, <2>1, <2>2 DEF Session
<1>9. CASE SubscribeData
  <2>1. /\ pc = "data" /\ UNCHANGED <<subscriptions, characteristics, abandoned>>
        /\ characteristics /\ ~subscriptions /\ Released("daemon") /\ observed # "available"
    BY <1>9 DEF SubscribeData, subscribing, historyVars, Streams
  <2>2. CASE Starts("daemon", "data") /\ pc' = "notification" /\ observed' = observed
    <3>1. stream'["daemon"]["data"] = "on"
      BY <1>0, <2>2, StartTypes
    <3> QED
      BY <2>1, <2>2, <3>1 DEF Streams, DataFirst
  <2>3. CASE SubscribeFails /\ UNCHANGED stream
    BY <2>1, <2>3 DEF SubscribeFails, Call, Goto, Streams, DataFirst, Released
  <2> QED
    BY <1>9, <2>2, <2>3 DEF SubscribeData, Goto
<1>10. CASE SubscribeNotification
  <2>1. /\ pc = "notification" /\ UNCHANGED <<characteristics, abandoned>>
        /\ characteristics /\ ~subscriptions /\ observed # "available"
        /\ stream["daemon"]["data"] \in {"on", "ended"}
    BY <1>10 DEF SubscribeNotification, subscribing, historyVars, Streams
  <2>2. CASE /\ Starts("daemon", "notification") /\ subscriptions' = TRUE
             /\ pc' = "idle" /\ observed' = observed
    <3>1. stream'["daemon"]["data"] = stream["daemon"]["data"]
      BY <1>0, <2>2, StartTypes
    <3> QED
      BY <2>1, <2>2, <3>1 DEF Streams, DataFirst
  <2>3. CASE SubscribeFails /\ DropStreams("daemon") /\ UNCHANGED subscriptions
    <3>1. pc' = "quiesce" /\ observed' = "none" /\ subscriptions' = FALSE
      BY <2>1, <2>3 DEF SubscribeFails, Call, Goto, TypeOK
    <3> QED
      BY <2>1, <2>3, <3>1, StreamsDropped
  <2> QED
    BY <1>10, <2>2, <2>3 DEF SubscribeNotification, Goto
<1>11. CASE Quiesce
  <2>1. /\ pc = "quiesce" /\ pc' \in {"idle", "release"} /\ characteristics' = FALSE
        /\ UNCHANGED <<stream, subscriptions, observed>>
        /\ abandoned' = IF characteristics THEN stream["daemon"] # Off ELSE abandoned
    BY <1>11 DEF Quiesce, Quiet, Goto, quiescing
  <2>2. ~subscriptions /\ Released("daemon") /\ observed # "available"
    BY <2>1 DEF Streams
  <2>3. Accounted'
    BY <2>1, <2>2 DEF Streams, Accounted, Released
  <2> QED
    BY <2>1, <2>2, <2>3 DEF Streams, DataFirst, Released
<1>12. CASE Release
  <2>1. /\ pc = "release" /\ pc' \in {"idle", "baseline", "exited"}
        /\ UNCHANGED <<stream, subscriptions, characteristics, observed, abandoned>>
    BY <1>12 DEF Release, Goto, TypeOK, bluezVars, heldVars, historyVars
  <2> QED
    BY <2>1 DEF Streams, DataFirst, Released, Accounted
<1>13. CASE Terminate
  BY <1>13, StreamsDropped DEF Terminate, Goto, historyVars
<1> QED
  BY <1>1, <1>2, <1>3, <1>4, <1>5, <1>6, <1>7, <1>8, <1>9, <1>10, <1>11, <1>12, <1>13 DEF Daemon

\* A stream of c stops, or the link is lost: what was dropped stays dropped.
LEMMA StreamsEnd ==
    ASSUME TypeOK, NEW c \in Client, DataFirst(c),
           LinkLost \/ \E s \in Source : Stopped(c, s)
    PROVE  /\ DataFirst(c)'
           /\ stream[c]["data"] \in {"on", "ended"} => stream'[c]["data"] \in {"on", "ended"}
           /\ Released(c) => Released(c)'
           /\ stream[c] = Off => stream'[c] = Off
<1>0. "data" \in Source /\ "notification" \in Source
  BY DEF Source
<1>1. CASE LinkLost
  <2>1. /\ \A s \in Source : stream'[c][s] = IF stream[c][s] \in {"on", "ended"} THEN "ended" ELSE "off"
        /\ Released(c) => stream'[c] = Off
        /\ stream[c] = Off => Released(c)
    BY <1>1, LossTypes DEF Released, Off
  <2> QED
    BY <1>0, <2>1 DEF DataFirst, Released
<1>2. ASSUME NEW s \in Source, Stopped(c, s)
      PROVE  /\ DataFirst(c)'
             /\ stream[c]["data"] \in {"on", "ended"} => stream'[c]["data"] \in {"on", "ended"}
             /\ Released(c) => Released(c)'
             /\ stream[c] = Off => stream'[c] = Off
  <2>1. /\ stream[c][s] = "stopping" /\ stream'[c][s] = "off"
        /\ \A t \in Source : t # s => stream'[c][t] = stream[c][t]
    BY <1>2, StopTypes
  <2>2. stream[c] # Off
    BY <2>1 DEF Off
  <2> QED
    BY <1>0, <2>1, <2>2 DEF DataFirst, Released
<1> QED
  BY <1>1, <1>2

\* What the transport knows of its own streams stays true when one of them stops.
LEMMA AccountedEnd ==
    ASSUME TypeOK, Accounted, LinkLost \/ \E c \in Client, s \in Source : Stopped(c, s)
    PROVE  Accounted'
<1>0. "daemon" \in Client
  BY DEF Client
<1>1. CASE LinkLost
  <2>1. stream'["daemon"] = Off
    BY <1>0, <1>1, LossTypes DEF Accounted
  <2> QED
    BY <2>1 DEF Accounted, Released, Off
<1>2. ASSUME NEW c \in Client, NEW s \in Source, Stopped(c, s)
      PROVE  Accounted'
  <2>1. \A t \in Source : stream'["daemon"][t] \in {stream["daemon"][t], "off"}
    BY <1>0, <1>2, StopTypes
  <2>2. Released("daemon")'
    BY <2>1 DEF Accounted, Released
  <2>3. stream["daemon"] = Off => stream'["daemon"] = Off
    <3>1. CASE c = "daemon"
      <4>1. stream["daemon"][s] = "stopping"
        BY <1>2, <3>1, StopTypes
      <4> QED
        BY <4>1 DEF Off
    <3>2. CASE c # "daemon"
      BY <1>0, <1>2, <3>2, StopTypes
    <3> QED
      BY <3>1, <3>2
  <2>4. abandoned' = (abandoned /\ stream'["daemon"] # Off)
    BY <1>2 DEF Stopped
  <2> QED
    BY <2>2, <2>3, <2>4 DEF Accounted
<1> QED
  BY <1>1, <1>2

\* The same for another client, whose streams a stop leaves alone.
LEMMA StreamsStay ==
    ASSUME NEW c \in Client, stream'[c] = stream[c]
    PROVE  /\ DataFirst(c) => DataFirst(c)'
           /\ Released(c) => Released(c)'
BY DEF DataFirst, Released

LEMMA SetupKeepsStreams == TypeOK /\ Streams /\ Setup => Streams'
<1> SUFFICES ASSUME TypeOK, Streams, Setup
             PROVE  Streams'
  OBVIOUS
<1>0. "daemon" \in Client /\ "setup" \in Client /\ "daemon" # "setup"
      /\ "data" \in Source /\ "notification" \in Source
  BY DEF Client, Source
<1>1. UNCHANGED <<pc, subscriptions, characteristics, observed>>
  BY DEF Setup, SetupBegins, SetupAdvertises, SetupRegistersAgent, PrepareDropped, VerifyData,
         VerifyNotification, VerifyFails, VerifyDropped, SetupDrops, SetupQuiesces,
         SetupReleases, SetupExits, opening, setting, verifying,
         cleaning, daemonVars, heldVars
<1>2. stream'["daemon"] = stream["daemon"]
  <2>1. CASE VerifyData \/ VerifyNotification
    BY <1>0, <2>1, StartTypes, DropReleases DEF VerifyData, VerifyNotification
  <2>2. CASE VerifyDropped \/ SetupDrops
    BY <1>0, <2>2, DropReleases DEF VerifyDropped, SetupDrops
  <2>3. CASE SetupExits
    BY <1>0, <2>3 DEF SetupExits, TypeOK
  <2>4. CASE UNCHANGED stream
    BY <2>4
  <2> QED
    BY <2>1, <2>2, <2>3, <2>4 DEF Setup, SetupBegins, SetupAdvertises, SetupRegistersAgent,
       PrepareDropped, opening, VerifyFails, SetupQuiesces, SetupReleases, verifying
<1>3. abandoned' = abandoned
  BY DEF Setup, SetupBegins, SetupAdvertises, SetupRegistersAgent, PrepareDropped, VerifyData,
         VerifyNotification, VerifyFails, VerifyDropped, SetupDrops, SetupQuiesces,
         SetupReleases, SetupExits, opening, verifying, cleaning
<1>5. Accounted => Accounted'
  BY <1>0, <1>2, <1>3, StreamsStay DEF Accounted
<1>4. DataFirst("daemon")
  BY DEF Streams
<1> QED
  BY <1>0, <1>1, <1>2, <1>4, <1>5, StreamsStay, StreamsKept

LEMMA OutsideKeepsStreams ==
    TypeOK /\ Streams /\ (Environment \/ \E c \in Client : Carried(c)) => Streams'
<1> SUFFICES ASSUME TypeOK, Streams, Environment \/ \E c \in Client : Carried(c)
             PROVE  Streams'
  OBVIOUS
<1>0. Client = {"daemon", "setup"} /\ DataFirst("daemon")
  BY DEF Client, Streams
<1>1. UNCHANGED <<pc, subscriptions, characteristics, observed>>
  BY DEF Environment, Carried, OtherComes, OtherGoes, BluezRestarts, PowerChanges, PhoneComes,
         PhoneLeaves, Unregistered, Stopped, elsewhere, daemonVars, heldVars
<1>2. CASE LinkLost \/ \E s \in Source : Stopped("daemon", s)
  BY <1>0, <1>1, <1>2, StreamsEnd, AccountedEnd, StreamsKept
<1>3. ASSUME NEW s \in Source, Stopped("setup", s)
      PROVE  Streams'
  <2>1. stream'["daemon"] = stream["daemon"]
    BY <1>0, <1>3, StopTypes
  <2>2. Accounted => Accounted'
    BY <1>0, <1>3, AccountedEnd
  <2> QED
    BY <1>0, <1>1, <2>1, <2>2, StreamsStay, StreamsKept
<1>4. CASE UNCHANGED <<stream, abandoned>>
  <2>1. Accounted => Accounted'
    BY <1>4 DEF Accounted, Released
  <2> QED
    BY <1>0, <1>1, <1>4, <2>1, StreamsStay, StreamsKept
<1>5. \/ LinkLost \/ UNCHANGED <<stream, abandoned>>
      \/ \E c \in Client, s \in Source : Stopped(c, s)
  BY DEF Environment, Carried, OtherComes, OtherGoes, BluezRestarts, PowerChanges, PhoneComes,
         PhoneLeaves, Unregistered
<1> QED
  BY <1>0, <1>2, <1>3, <1>4, <1>5

LEMMA StreamsNext == TypeOK /\ Streams /\ [Next]_vars => Streams'
<1>1. Streams /\ UNCHANGED vars => Streams'
  BY
     DEF vars, bluezVars, daemonVars, heldVars, historyVars, Streams, DataFirst, Released,
         Accounted
<1> QED
  BY <1>1, DaemonStreams, SetupKeepsStreams, OutsideKeepsStreams DEF Next

-----------------------------------------------------------------------------
(* SetupStreams: those of the setup *)

LEMMA SetupStreamsKept ==
    ASSUME SetupStreams, UNCHANGED <<step, result, stored, unread>>, DataFirst("setup")',
           stream["setup"]["data"] \in {"on", "ended"} => stream'["setup"]["data"] \in {"on", "ended"},
           stream["setup"] = Off => stream'["setup"] = Off,
           Released("setup") => Released("setup")'
    PROVE  SetupStreams'
BY DEF SetupStreams

LEMMA SetupSetupStreams == TypeOK /\ SetupStreams /\ Setup => SetupStreams'
<1> SUFFICES ASSUME TypeOK, SetupStreams, Setup
             PROVE  SetupStreams'
  OBVIOUS
<1>0. "setup" \in Client /\ "data" \in Source /\ "notification" \in Source
  BY DEF Client, Source
<1>o. stream["setup"] = Off => Released("setup")
  BY DEF Off, Released
<1>d. DropStreams("setup") => Released("setup")' /\ DataFirst("setup")'
  BY <1>0, DropReleases DEF Released, DataFirst
<1>1. CASE SetupBegins
  <2>1. step = "none" /\ step' \in {"advertise", "verify"} /\ UNCHANGED stream
    BY <1>1 DEF SetupBegins
  <2> QED
    BY <2>1 DEF SetupStreams, DataFirst
<1>2. CASE SetupAdvertises \/ SetupRegistersAgent \/ PrepareDropped
  <2>1. /\ step \in {"advertise", "agent"} /\ step' \in {"agent", "verify", "quiesce"}
        /\ UNCHANGED stream
    BY <1>2 DEF SetupAdvertises, SetupRegistersAgent, PrepareDropped, opening
  <2> QED
    BY <1>o, <2>1 DEF SetupStreams, DataFirst, Released
<1>3. CASE VerifyData
  <2>1. step = "verify" /\ step' = "notification" /\ Starts("setup", "data")
    BY <1>3 DEF VerifyData
  <2>2. stream'["setup"]["data"] = "on"
    BY <1>0, <2>1, StartTypes
  <2> QED
    BY <2>1, <2>2 DEF SetupStreams, DataFirst
<1>4. CASE VerifyNotification
  <2>1. step = "notification" /\ stream["setup"]["data"] \in {"on", "ended"}
    BY <1>4 DEF VerifyNotification, SetupStreams
  <2>2. CASE Starts("setup", "notification") /\ step' = "verified"
    <3>1. stream'["setup"]["data"] = stream["setup"]["data"]
      BY <1>0, <2>2, StartTypes
    <3> QED
      BY <2>1, <2>2, <3>1 DEF SetupStreams, DataFirst
  <2>3. CASE DropStreams("setup") /\ step' = "partial"
    BY <1>d, <2>3 DEF SetupStreams
  <2> QED
    BY <1>4, <2>2, <2>3 DEF VerifyNotification
<1>5. CASE VerifyFails
  <2>1. step = "partial" /\ step' = "quiesce" /\ UNCHANGED stream
    BY <1>5 DEF VerifyFails
  <2> QED
    BY <2>1 DEF SetupStreams, DataFirst, Released
<1>6. CASE VerifyDropped \/ SetupDrops
  <2>1. step' = "quiesce" /\ DropStreams("setup")
    BY <1>6 DEF VerifyDropped, SetupDrops
  <2> QED
    BY <1>d, <2>1 DEF SetupStreams
<1>7. CASE SetupQuiesces
  <2>1. /\ step = "quiesce" /\ step' = "release" /\ UNCHANGED <<stream, stored>>
        /\ Released("setup") /\ Released("setup")'
    BY <1>7 DEF SetupQuiesces, cleaning, SetupStreams, Released
  <2>2. ASSUME result' = "ok", "streams" \in stored, ~unread'
        PROVE  stream["setup"] = Off
    <3>1. \A s \in Source : ~Notifying(s)
      BY <1>7, <2>2 DEF SetupQuiesces
    <3>2. \A s \in Source : stream["setup"][s] = "off"
      BY <1>0, <2>1, <3>1 DEF Notifying, Released
    <3>3. stream["setup"] \in [Source -> {"off", "on", "ended", "stopping"}]
      BY <1>0, StreamsTyped
    <3> QED
      BY <3>2, <3>3 DEF Off
  <2> QED
    BY <2>1, <2>2 DEF SetupStreams, DataFirst
<1>8. CASE SetupReleases
  <2>1. /\ step = "release" /\ step' = "done" /\ UNCHANGED <<stream, stored>>
        /\ result' \in {result, "failed"} /\ (unread => unread')
    BY <1>8 DEF SetupReleases, cleaning
  <2> QED
    BY <2>1 DEF SetupStreams, DataFirst, Released
<1>9. CASE SetupExits
  <2>1. step' = "exited" /\ stream'["setup"] = Off
    BY <1>0, <1>9 DEF SetupExits, TypeOK
  <2> QED
    BY <2>1 DEF SetupStreams, DataFirst, Off, Source
<1> QED
  BY <1>1, <1>2, <1>3, <1>4, <1>5, <1>6, <1>7, <1>8, <1>9 DEF Setup

LEMMA DaemonKeepsSetupStreams == TypeOK /\ SetupStreams /\ (Daemon \/ Terminate) => SetupStreams'
<1> SUFFICES ASSUME TypeOK, SetupStreams, Daemon \/ Terminate
             PROVE  SetupStreams'
  OBVIOUS
<1>0. /\ "daemon" \in Client /\ "setup" \in Client /\ "daemon" # "setup"
      /\ "data" \in Source /\ "notification" \in Source
  BY DEF Client, Source
<1>1. /\ UNCHANGED <<step, result, stored, unread>>
      /\ \/ UNCHANGED stream \/ DropStreams("daemon")
         \/ \E s \in Source : Starts("daemon", s)
  <2>1. CASE Reconcile \/ ReadBaseline \/ Device
    BY <2>1 DEF Reconcile, ReadBaseline, Device, reconciling, bluezVars, setupVars
  <2>2. CASE Judge \/ Release \/ Terminate
    BY <2>2 DEF Judge, Release, Terminate, bluezVars, setupVars, historyVars
  <2>3. CASE Advertise
    BY <2>3 DEF Advertise, advertising, setupVars, historyVars
  <2>4. CASE Leave \/ WaitForPhone \/ Subscribe \/ Session
    BY <2>4 DEF Leave, WaitForPhone, Subscribe, Session, End, acting, setupVars, historyVars
  <2>5. CASE SubscribeData \/ SubscribeNotification
    BY <1>0, <2>5 DEF SubscribeData, SubscribeNotification, subscribing, setupVars, historyVars
  <2>6. CASE Quiesce
    BY <1>0, <2>6 DEF Quiesce, Quiet, quiescing, setupVars
  <2> QED
    BY <2>1, <2>2, <2>3, <2>4, <2>5, <2>6 DEF Daemon
<1>2. stream'["setup"] = stream["setup"]
  BY <1>0, <1>1, StartTypes, DropReleases
<1>3. DataFirst("setup")
  BY DEF SetupStreams
<1> QED
  BY <1>0, <1>1, <1>2, <1>3, StreamsStay, SetupStreamsKept

LEMMA OutsideKeepsSetupStreams ==
    TypeOK /\ SetupStreams /\ (Environment \/ \E c \in Client : Carried(c)) => SetupStreams'
<1> SUFFICES ASSUME TypeOK, SetupStreams, Environment \/ \E c \in Client : Carried(c)
             PROVE  SetupStreams'
  OBVIOUS
<1>0. Client = {"daemon", "setup"} /\ DataFirst("setup")
  BY DEF Client, SetupStreams
<1>1. UNCHANGED <<step, result, stored, unread>>
  BY DEF Environment, Carried, OtherComes, OtherGoes, BluezRestarts, PowerChanges, PhoneComes,
         PhoneLeaves, Unregistered, Stopped, elsewhere, setupVars
<1>2. CASE LinkLost \/ \E s \in Source : Stopped("setup", s)
  BY <1>0, <1>1, <1>2, StreamsEnd, SetupStreamsKept
<1>3. ASSUME NEW s \in Source, Stopped("daemon", s)
      PROVE  SetupStreams'
  <2>1. stream'["setup"] = stream["setup"]
    BY <1>0, <1>3, StopTypes
  <2> QED
    BY <1>0, <1>1, <2>1, StreamsStay, SetupStreamsKept
<1>4. CASE UNCHANGED stream
  BY <1>0, <1>1, <1>4, StreamsStay, SetupStreamsKept
<1>5. \/ LinkLost \/ UNCHANGED stream
      \/ \E c \in Client, s \in Source : Stopped(c, s)
  BY DEF Environment, Carried, OtherComes, OtherGoes, BluezRestarts, PowerChanges, PhoneComes,
         PhoneLeaves, Unregistered
<1> QED
  BY <1>0, <1>2, <1>3, <1>4, <1>5

LEMMA SetupStreamsNext == TypeOK /\ SetupStreams /\ [Next]_vars => SetupStreams'
<1>1. SetupStreams /\ UNCHANGED vars => SetupStreams'
  BY DEF vars, bluezVars, setupVars, historyVars, SetupStreams, DataFirst, Released
<1> QED
  BY <1>1, SetupSetupStreams, DaemonKeepsSetupStreams, OutsideKeepsSetupStreams DEF Next

-----------------------------------------------------------------------------
(* Theorems *)

LEMMA InvInit == Init => TransportInv
<1> SUFFICES ASSUME Init
             PROVE  TransportInv
  OBVIOUS
<1>1. stream["daemon"] = Off /\ stream["setup"] = Off /\ pc = "idle" /\ step = "none"
      /\ \A c \in Client : live[c] = 0 /\ dying[c] = 0
  BY DEF Init, Client
<1>2. Counts /\ SetupCounts
  BY <1>1 DEF Init, Counts, SetupCounts, Client
<1>3. Streams /\ SetupStreams
  BY <1>1 DEF Init, Streams, SetupStreams, DataFirst, Released, Accounted, Off, Source
<1> QED
  BY <1>2, <1>3, TypeInit DEF TransportInv

THEOREM TransportInvCorrect == Spec => []TransportInv
<1>1. TransportInv /\ [Next]_vars => TransportInv'
  BY TypeNext, CountsNext, SetupCountsNext, StreamsNext, SetupStreamsNext DEF TransportInv
<1> QED
  BY <1>1, InvInit, PTL DEF Spec

\* What the transport and the setup keep has its type, the stall counter below the
\* threshold.
THEOREM TypeOKCorrect == Spec => []TypeOK
<1>1. TransportInv => TypeOK
  BY DEF TransportInv
<1> QED
  BY <1>1, TransportInvCorrect, PTL

\* How far registrations_are_live can be wrong, with any number of other advertisers
\* and any order of events: a lost registration passes for live only if another
\* advertisement came, a live one for lost only if one that counted has left.
THEOREM RegistrationsJudgedCorrect == Spec => []RegistrationsJudged
<1>1. TransportInv => RegistrationsJudged
  <2> SUFFICES ASSUME TransportInv, registrations
               PROVE  /\ Contains(Active, advertising_baseline) => live["daemon"] = 1 \/ came
                      /\ ~Contains(Active, advertising_baseline)
                             => live["daemon"] = 0 \/ "daemon" \in left
    BY DEF RegistrationsJudged
  <2>1. /\ TypeOK /\ pc # "advertise"
        /\ ~came => BesidesDaemon <= Base
        /\ "daemon" \notin left => BesidesDaemon >= Base
    BY DEF TransportInv, Counts
  <2>2. Base = advertising_baseline
    BY <2>1 DEF Base
  <2>3. /\ Active = live["daemon"] + BesidesDaemon /\ live["daemon"] \in 0..1
        /\ BesidesDaemon \in Nat /\ advertising_baseline \in Int
    BY <2>1, CountsTyped DEF Client
  <2> QED
    BY <2>1, <2>2, <2>3 DEF Contains
<1> QED
  BY <1>1, TransportInvCorrect, PTL

\* No order of failures, losses and retries has the Notification Source notify before
\* the Data Source was.
THEOREM DataSourceFirstCorrect == Spec => []DataSourceFirst
<1>1. TransportInv => DataSourceFirst
  BY DEF TransportInv, Streams, SetupStreams, DataFirst, DataSourceFirst, Client
<1> QED
  BY <1>1, TransportInvCorrect, PTL

\* Wherever the daemon is when it is told to end, it has waited for its streams.
THEOREM ExitsQuietCorrect == Spec => []ExitsQuiet
<1>1. TransportInv => ExitsQuiet
  BY DEF TransportInv, Streams, Accounted, ExitsQuiet
<1> QED
  BY <1>1, TransportInvCorrect, PTL

\* A cleanup that succeeded has seen everything stop that setup had stored when it began,
\* with any number of other advertisers, failures and late releases: the daemon's own
\* registrations coming and going beside it hide nothing of the setup's.
THEOREM SetupStopsStoredCorrect == Spec => []SetupStopsStored
<1>1. TransportInv => SetupStopsStored
  BY DEF TransportInv, SetupCounts, SetupStreams, SetupStopsStored
<1> QED
  BY <1>1, TransportInvCorrect, PTL

=============================================================================
