---------------------------- MODULE BridgeProofs ----------------------------
(***************************************************************************)
(* What survives the loop that drops process_next, for every set of uids,  *)
(* apps and desktop ids and every bound.  Every step of the loop that does *)
(* not drop it is a step of SessionEngine, so the invariants of            *)
(* SessionEngineProofs and SessionContentProofs that do not need the       *)
(* request in flight to be the one expected carry over; the two steps that *)
(* drop it are looked at here.                                             *)
(***************************************************************************)
EXTENDS Bridge, SessionContentProofs

\* process_next only runs in an iteration that called it.
Running == pc # "idle" => loop \in {"work", "handling"}

BridgeInv ==
    /\ TypeInv /\ QueuesAgree /\ HandlesAgree
    /\ PendingBounded /\ HandlesBounded /\ CacheBounded
    /\ Notices
    /\ Running
    /\ LeaksOnlyByDrops

\* A step of the loop that does not drop process_next is one of the engine, the phone
\* or the sink.
LEMMA LoopSteps ==
    ASSUME [BridgeNext]_bridgeVars, ~IntervalPasses, ~Signal
    PROVE  [Next]_vars /\ leaked' = leaked
BY DEF BridgeNext, bridgeVars, Loop, Iterate, TakePacket, NothingQueued, Process, Processing,
       SessionLost, Next, Engine

-----------------------------------------------------------------------------
(* The steps that drop process_next *)

\* The command the sink was at adds nothing to the screen but a leak.
LEMMA SinkLeaks ==
    ASSUME TypeInv, NEW shown \in [DesktopId -> Content \cup {NoContent}], SinkFinishes(shown)
    PROVE  /\ desktop' \in [DesktopId -> Content \cup {NoContent}]
           /\ leaked \subseteq leaked'
           /\ \A i \in DesktopId : desktop'[i] # NoContent =>
                 i \in leaked' \/ shown[i] # NoContent
<1>1. pc = "deliver" => Delivered \in Content
  BY DEF TypeInv, TypeOK, Delivered, Content, Notification
<1>2. CASE pc = "deliver" /\ sink_alive /\ processing \notin Mapped
  <2>1. PICK id \in FreshIds :
            desktop' = [shown EXCEPT ![id] = Delivered] /\ leaked' = leaked \cup {id}
    BY <1>2 DEF SinkFinishes
  <2> QED
    BY <1>1, <1>2, <2>1
<1>3. CASE ~(pc = "deliver" /\ sink_alive /\ processing \notin Mapped)
  <2>1. leaked' = leaked
    BY <1>3 DEF SinkFinishes
  <2>2. \/ desktop' = shown
        \/ /\ pc = "deliver" /\ shown[handles[processing]] # NoContent
           /\ desktop' = [shown EXCEPT ![handles[processing]] = Delivered]
    BY <1>3 DEF SinkFinishes
  <2> QED
    BY <1>1, <2>1, <2>2
<1> QED
  BY <1>2, <1>3

\* The timer drops process_next: its locals go, what the engine keeps does not change.
LEMMA IntervalKeeps ==
    ASSUME BridgeInv, IntervalPasses
    PROVE  BridgeInv'
<1>1. /\ UNCHANGED <<phoneVars, ns, ds, queueVars, requestVars, handleVars, appVars,
                     decoderVars, sink_alive, excused, sessions>>
      /\ pc' = "idle" /\ processing' = NoUid /\ attributes' = NoAttributes
      /\ SinkFinishes(desktop)
  BY DEF IntervalPasses, ForgetLocals, Finish
<1>2. /\ desktop' \in [DesktopId -> Content \cup {NoContent}]
      /\ leaked \subseteq leaked'
      /\ \A i \in DesktopId : desktop'[i] # NoContent =>
            i \in leaked' \/ desktop[i] # NoContent
  BY <1>1, SinkLeaks DEF BridgeInv, TypeInv, TypeOK
<1>3. TypeInv'
  BY <1>1, <1>2 DEF BridgeInv, TypeInv, TypeOK, Expecting, FetchesUncached, Waiting, phoneVars,
     queueVars, requestVars, handleVars, appVars, decoderVars
<1>4. UNCHANGED <<Pending, PendingLen, Mapped, Cached>>
  BY <1>1 DEF Pending, PendingLen, Mapped, Cached, queueVars, requestVars, handleVars, appVars
<1>5. /\ QueuesAgree' /\ HandlesAgree'
      /\ PendingBounded' /\ HandlesBounded' /\ CacheBounded'
  BY <1>1, <1>4 DEF BridgeInv, QueuesAgree, HandlesAgree, PendingBounded, HandlesBounded,
     CacheBounded, queueVars, handleVars, appVars
<1>6. Notices'
  BY <1>1, <1>4 DEF BridgeInv, Notices, Unused, Truthful, AddedFirst, Settled, Coming,
     RemovedComes, phoneVars, requestVars
<1>7. LeaksOnlyByDrops'
  BY <1>1, <1>2 DEF BridgeInv, LeaksOnlyByDrops, handleVars
<1> QED
  BY <1>1, <1>3, <1>5, <1>6, <1>7 DEF BridgeInv, Running

\* A signal drops process_next and ends the session: what stays on the screen is a leak.
LEMMA SignalKeeps ==
    ASSUME BridgeInv, Signal
    PROVE  BridgeInv'
<1>1. /\ UNCHANGED <<version, present, requests, ns, ds, sink_alive, excused, sessions>>
      /\ pc' = "idle" /\ processing' = NoUid /\ attributes' = NoAttributes
      /\ SinkFinishes(Closed) /\ ClearSession
  BY DEF Signal, ForgetLocals, Finish, phoneVars
<1>2. Closed \in [DesktopId -> Content \cup {NoContent}]
  BY DEF BridgeInv, TypeInv, TypeOK, Closed
<1>3. /\ desktop' \in [DesktopId -> Content \cup {NoContent}]
      /\ leaked \subseteq leaked'
      /\ \A i \in DesktopId : desktop'[i] # NoContent => i \in leaked' \/ Closed[i] # NoContent
  BY <1>1, <1>2, SinkLeaks DEF BridgeInv
<1>4. /\ pending_order' = <<>> /\ handle_order' = <<>> /\ app_order' = <<>>
      /\ outstanding' = NoUid /\ canceled' = {}
      /\ Pending' = {} /\ Mapped' = {} /\ Cached' = {}
  BY <1>1 DEF ClearSession, Pending, Mapped, Cached
<1>5. TypeInv'
  BY <1>1, <1>3 DEF BridgeInv, TypeInv, TypeOK, Expecting, FetchesUncached, Waiting, ClearSession,
     ClearDecoder
<1>6. /\ QueuesAgree' /\ HandlesAgree'
      /\ PendingBounded' /\ HandlesBounded' /\ CacheBounded'
  BY <1>4, FS_EmptySet, BoundAssumption DEF QueuesAgree, HandlesAgree, PendingBounded,
     HandlesBounded, CacheBounded, Orders, PendingLen
<1>7. Notices'
  BY <1>1, <1>4, UidAssumption, NoticeTypes DEF BridgeInv, Notices, Unused, Truthful,
     AddedFirst, Settled, Coming, RemovedComes
<1>8. LeaksOnlyByDrops'
  <2> SUFFICES ASSUME sink_alive', NEW i \in DesktopId, desktop'[i] # NoContent
               PROVE  i \in leaked'
    BY DEF LeaksOnlyByDrops
  <2>1. CASE Closed[i] # NoContent
    BY <1>1, <1>3, <2>1 DEF Closed, BridgeInv, LeaksOnlyByDrops
  <2> QED
    BY <1>3, <2>1
<1> QED
  BY <1>1, <1>5, <1>6, <1>7, <1>8 DEF BridgeInv, Running

-----------------------------------------------------------------------------
(* The steps that run it *)

\* Every other step leaves process_next to an iteration that called it.
LEMMA RunningNext ==
    ASSUME Running, [BridgeNext]_bridgeVars, ~IntervalPasses, ~Signal
    PROVE  Running'
<1>1. CASE UNCHANGED bridgeVars
  BY <1>1 DEF Running, bridgeVars, vars, engineVars, workVars
<1>2. CASE (Phone \/ SinkDies) /\ UNCHANGED <<loop, leaked>>
  BY <1>2 DEF Running, Phone, SinkDies, PhoneAdds, PhoneModifies, PhoneRemoves, PhoneAnswers,
     PhoneIgnores, engineVars, workVars
<1>3. CASE Iterate \/ NothingQueued
  BY <1>3 DEF Running, Iterate, NothingQueued, vars, engineVars, workVars
<1>4. CASE TakePacket
  BY <1>4 DEF Running, TakePacket, ReceiveEvent, DiscardFragment, engineVars, workVars
<1>5. CASE Process
  BY <1>5 DEF Running, Process
<1>6. CASE SessionLost
  BY <1>6 DEF Running, SessionLost, EndSession, workVars
<1> QED
  BY <1>1, <1>2, <1>3, <1>4, <1>5, <1>6 DEF BridgeNext, Loop

\* Every other step leaves what is shown with somebody who can close it, but for the
\* leaks there were.
LEMMA LeaksNext ==
    ASSUME TypeInv, LeaksOnlyByDrops, [Next]_vars, leaked' = leaked
    PROVE  LeaksOnlyByDrops'
<1> SUFFICES ASSUME sink_alive', NEW i \in DesktopId, desktop'[i] # NoContent, i \notin leaked
             PROVE  \E u \in UID : handles'[u] = i
  BY DEF LeaksOnlyByDrops
<1>0. NoHandle \notin DesktopId
  BY HandleAssumption
<1>1. CASE ReceiveEvent
  <2>1. Head(ns) \in Event /\ Ingest(Head(ns)) /\ sink_alive
    BY <1>1, TailElements DEF ReceiveEvent, TypeInv, TypeOK
  <2> QED
    BY <2>1, IngestDesktop DEF LeaksOnlyByDrops
<1>2. CASE Create
  BY <1>0, <1>2, CreateDesktop DEF LeaksOnlyByDrops, Mapped
<1>3. CASE Replace
  <2>1. sink_alive
    BY <1>3 DEF Replace
  <2>2. handles[processing] = i => \E u \in UID : handles[u] = i
    BY <1>3, ReplaceDesktop DEF Mapped
  <2> QED
    BY <1>3, <2>1, <2>2, ReplaceDesktop DEF LeaksOnlyByDrops
<1>4. CASE EndSession
  BY <1>4, EndDesktop DEF LeaksOnlyByDrops
<1>5. CASE UNCHANGED <<handles, desktop>> /\ sink_alive
  BY <1>5 DEF LeaksOnlyByDrops
<1> QED
  BY <1>1, <1>2, <1>3, <1>4, <1>5, DesktopFrame

\* Every step keeps the invariant.
LEMMA BridgeInvNext == BridgeInv /\ [BridgeNext]_bridgeVars => BridgeInv'
<1> SUFFICES ASSUME BridgeInv, [BridgeNext]_bridgeVars
             PROVE  BridgeInv'
  OBVIOUS
<1>1. CASE IntervalPasses
  BY <1>1, IntervalKeeps
<1>2. CASE Signal
  BY <1>2, SignalKeeps
<1>3. CASE ~IntervalPasses /\ ~Signal
  <2>1. [Next]_vars /\ leaked' = leaked
    BY <1>3, LoopSteps
  <2>2. TypeInv' /\ QueuesAgree' /\ Notices'
    BY <2>1, TypeNext, QueuesNext, NoticesNext DEF BridgeInv
  <2>3. HandlesAgree' /\ HandlesBounded' /\ PendingBounded' /\ CacheBounded'
    BY <2>1, HandlesNext, PendingNext, CacheNext DEF BridgeInv
  <2>4. Running' /\ LeaksOnlyByDrops'
    BY <1>3, <2>1, RunningNext, LeaksNext DEF BridgeInv
  <2> QED
    BY <2>2, <2>3, <2>4 DEF BridgeInv
<1> QED
  BY <1>1, <1>2, <1>3

\* The state the loop keeps at every await, whichever of them it is dropped at.
THEOREM BridgeInvCorrect == BridgeSpec => []BridgeInv
<1>1. BridgeInit => BridgeInv
  <2> SUFFICES ASSUME BridgeInit
               PROVE  BridgeInv
    OBVIOUS
  <2>1. Init /\ loop = "reconcile"
    BY DEF BridgeInit
  <2>2. /\ pending_order = <<>> /\ app_order = <<>> /\ outstanding = NoUid
        /\ Pending = {} /\ Cached = {} /\ pc = "idle"
    BY <2>1 DEF Init, Pending, Cached
  <2>3. QueuesAgree /\ PendingBounded /\ CacheBounded
    BY <2>2, FS_EmptySet, BoundAssumption
       DEF QueuesAgree, PendingBounded, CacheBounded, Orders, PendingLen
  <2>4. Notices
    BY <2>1, UidAssumption
       DEF Init, Notices, Unused, Truthful, AddedFirst, Settled, Coming, Pending
  <2>5. LeaksOnlyByDrops
    BY <2>1 DEF Init, LeaksOnlyByDrops
  <2> QED
    BY <2>1, <2>2, <2>3, <2>4, <2>5, TypeInit, HandlesInit DEF BridgeInv, Running
<1> QED
  BY <1>1, BridgeInvNext, PTL DEF BridgeSpec

\* Dropping process_next at any await leaves the queue, the handles and the cache
\* consistent and bounded, no cancellation mark on a uid the phone has, and no local of it
\* in use.
THEOREM SurvivesDropsCorrect == BridgeSpec => []SurvivesDrops
<1>1. BridgeInv => SurvivesDrops
  BY DEF BridgeInv, TypeInv, Notices, Truthful, Running, SurvivesDrops, WithinBounds
<1> QED
  BY <1>1, BridgeInvCorrect, PTL

\* The only notifications that stay on the screen without a handle are those whose
\* create was dropped while the sink was at it.
THEOREM LeaksOnlyByDropsCorrect == BridgeSpec => []LeaksOnlyByDrops
<1>1. BridgeInv => LeaksOnlyByDrops
  BY DEF BridgeInv
<1> QED
  BY <1>1, BridgeInvCorrect, PTL

=============================================================================
