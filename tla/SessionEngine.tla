--------------------------- MODULE SessionEngine ---------------------------
(***************************************************************************)
(* One iPhone ANCS session: SessionEngine of src/ancs/session.rs with the  *)
(* phone on one side (Notification Source, Data Source, Control Point) and *)
(* the Freedesktop notification server on the other.                       *)
(*                                                                         *)
(* The engine is one future, driven by the supervisor's loop.  It          *)
(* interleaves with its environment only where it awaits, and pc names the *)
(* await it stands at:                                                     *)
(*   "idle"          no process_next is running                            *)
(*   "notification"  wait_for_response inside fetch_notification           *)
(*   "resolve"       the attributes are decoded, the app name is next; not *)
(*                   an await, a step of its own for readability only      *)
(*   "app"           wait_for_response inside fetch_app_name               *)
(*   "deliver"       a create or replace was sent to the sink actor        *)
(* The sink actor runs commands in the order they are sent and the engine  *)
(* awaits each one, so a command and its reply are one step.               *)
(*                                                                         *)
(* The counters of SessionMetadata appear as the set excused: the uids     *)
(* whose event or request made dropped_event_count or                      *)
(* recoverable_error_count grow, or whose handle was evicted.              *)
(***************************************************************************)
EXTENDS Naturals, Sequences, FiniteSets, DataSource, Queues

CONSTANTS
    UID,          \* notification uids the phone uses in a session
    App,          \* app identifiers
    AppOf,        \* AppOf[u] is the app that posts u
    DesktopId,    \* ids the notification server hands out
    NoUid, NoApp, NoHandle, NoContent, NoAttributes,
    MaxPending,   \* MAX_PENDING_UIDS
    MaxHandles,   \* MAX_ACTIVE_NOTIFICATIONS
    MaxApps,      \* MAX_CACHED_APPS
    LastVersion,  \* bound: LastVersion[u] is the number of texts u goes through
    MaxFragments, \* bound: fragments of one response
    MaxSessions   \* bound: sessions in one behaviour

ASSUME UidAssumption == IsFiniteSet(UID) /\ NoUid \notin UID
ASSUME AppAssumption ==
    IsFiniteSet(App) /\ NoApp \notin App /\ AppOf \in [UID -> App]
ASSUME HandleAssumption == NoHandle \notin DesktopId
ASSUME ContentAssumption == NoContent \notin [uid : UID, version : Nat]
ASSUME BoundAssumption ==
    /\ MaxPending \in Nat \ {0}
    /\ MaxHandles \in Nat \ {0}
    /\ MaxApps \in Nat \ {0}
    /\ LastVersion \in [UID -> Nat \ {0}]
    /\ MaxFragments \in Nat \ {0}
    /\ MaxSessions \in Nat \ {0}

VARIABLES
    version,       \* phone: number of the current text of a uid, 0 before it exists
    present,       \* phone: uids in its notification center
    requests,      \* Control Point requests the phone has accepted, not yet answered
    ns, ds,        \* Notification Source events and Data Source fragments in transit
    pending_order, pending_kind, outstanding, canceled,
    handles, handle_order, app_names, app_order,
    bytes, expected,            \* the decoder
    pc, processing, attributes, \* where process_next stands, and its locals
    desktop,       \* what the server shows: content by id
    sink_alive,    \* the notification actor thread is running
    excused,       \* history: uids a loss was recorded for
    sessions       \* history: sessions begun, to bound the model

phoneVars == <<version, present, requests>>
queueVars == <<pending_order, pending_kind>>
handleVars == <<handles, handle_order>>
appVars == <<app_names, app_order>>
decoderVars == <<bytes, expected>>
workVars == <<pc, processing, attributes>>
requestVars == <<outstanding, canceled>>
engineVars == <<queueVars, requestVars, handleVars, appVars, decoderVars, workVars>>
vars == <<phoneVars, ns, ds, engineVars, desktop, sink_alive, excused, sessions>>

-----------------------------------------------------------------------------
(* Derived state and helpers *)

Pending == {u \in UID : pending_kind[u] # "none"}
Mapped == {u \in UID : handles[u] # NoHandle}
Cached == {a \in App : app_names[a] # NoApp}

\* The engine is inside wait_for_response.
Waiting == pc \in {"notification", "app"}

\* pending_len: the queued uids and the outstanding one, unless it was requeued.
PendingLen ==
    Cardinality(Pending)
      + (IF outstanding # NoUid /\ outstanding \notin Pending THEN 1 ELSE 0)

NotificationOf(u) ==
    [cmd |-> "notification", uid |-> u, app |-> AppOf[u], version |-> version[u]]
NameOf(a) == [cmd |-> "app", app |-> a]

\* Closing id: a no-op once the actor thread is gone (close then returns an error).
AfterClose(shown, id) ==
    IF sink_alive THEN [shown EXCEPT ![id] = NoContent] ELSE shown

Event == [kind : {"Added", "Modified", "Removed"}, uid : UID, preExisting : BOOLEAN]
Expectation == [cmd : {"notification"}, uid : UID] \cup [cmd : {"app"}, app : App]
Notification == [cmd : {"notification"}, uid : UID, app : App, version : Nat]
Response == Notification \cup [cmd : {"app"}, app : App]
Fragment == [response : Response, part : Nat, of : Nat]
Content == [uid : UID, version : Nat]

-----------------------------------------------------------------------------
(* The phone and the server: external, as the code uses them *)

\* A notification appears; the one the phone had before the session is flagged.
PhoneAdds(u) ==
    /\ version[u] = 0
    /\ version' = [version EXCEPT ![u] = 1]
    /\ present' = present \cup {u}
    /\ \E old \in BOOLEAN :
          ns' = Append(ns, [kind |-> "Added", uid |-> u, preExisting |-> old])
    /\ UNCHANGED <<requests, ds, engineVars, desktop, sink_alive, excused, sessions>>

\* Its text changes.
PhoneModifies(u) ==
    /\ u \in present
    /\ version[u] < LastVersion[u]
    /\ version' = [version EXCEPT ![u] = @ + 1]
    /\ ns' = Append(ns, [kind |-> "Modified", uid |-> u, preExisting |-> FALSE])
    /\ UNCHANGED <<present, requests, ds, engineVars, desktop, sink_alive, excused, sessions>>

\* It is dismissed on the phone; its uid does not come back in this session.
PhoneRemoves(u) ==
    /\ u \in present
    /\ present' = present \ {u}
    /\ ns' = Append(ns, [kind |-> "Removed", uid |-> u, preExisting |-> FALSE])
    /\ UNCHANGED <<version, requests, ds, engineVars, desktop, sink_alive, excused, sessions>>

\* The phone answers the oldest request with the text it has now, in n fragments.
PhoneAnswers ==
    /\ requests # <<>>
    /\ LET q == Head(requests) IN
        /\ q.cmd = "notification" => q.uid \in present
        /\ \E n \in 1..MaxFragments :
              ds' = ds \o Fragments(IF q.cmd = "notification" THEN NotificationOf(q.uid)
                                    ELSE NameOf(q.app), n)
    /\ requests' = Tail(requests)
    /\ UNCHANGED <<version, present, ns, engineVars, desktop, sink_alive, excused, sessions>>

\* It never answers, for instance because the notification is gone.
PhoneIgnores ==
    /\ requests # <<>>
    /\ requests' = Tail(requests)
    /\ UNCHANGED <<version, present, ns, ds, engineVars, desktop, sink_alive, excused, sessions>>

\* The actor thread stops: every later command of the sink fails.
SinkDies ==
    /\ sink_alive
    /\ sink_alive' = FALSE
    /\ UNCHANGED <<phoneVars, ns, ds, engineVars, desktop, excused, sessions>>

-----------------------------------------------------------------------------
(* ingest: one Notification Source event, one operator per branch *)

\* What was on the phone before the session is dropped and counted.
SkipPreExisting(e) ==
    /\ e.preExisting /\ e.kind # "Removed"
    /\ excused' = excused \cup {e.uid}
    /\ UNCHANGED <<queueVars, canceled, handleVars, desktop>>

\* Mutant of IngestRemoved: the queue keeps the uid.
IngestRemovedKeepsOrder(e) ==
    /\ e.kind = "Removed"
    /\ pending_kind' = [pending_kind EXCEPT ![e.uid] = "none"]
    /\ canceled' = IF outstanding = e.uid THEN canceled \cup {e.uid} ELSE canceled
    /\ UNCHANGED <<pending_order, handleVars, desktop, excused>>

\* Mutant of IngestRemoved: queued work goes, the outstanding request stays.
IngestRemovedKeepsRequest(e) ==
    /\ e.kind = "Removed"
    /\ pending_kind' = [pending_kind EXCEPT ![e.uid] = "none"]
    /\ pending_order' = Without(pending_order, e.uid)
    /\ UNCHANGED <<canceled, handleVars, desktop, excused>>

\* Removed: forget queued work, cancel the outstanding request, close the handle.
IngestRemoved(e) ==
    /\ e.kind = "Removed"
    /\ pending_kind' = [pending_kind EXCEPT ![e.uid] = "none"]
    /\ pending_order' = Without(pending_order, e.uid)
    /\ canceled' = IF outstanding = e.uid THEN canceled \cup {e.uid} ELSE canceled
    /\ IF e.uid \in Mapped
       THEN /\ handles' = [handles EXCEPT ![e.uid] = NoHandle]
            /\ handle_order' = Without(handle_order, e.uid)
            /\ desktop' = AfterClose(desktop, handles[e.uid])
       ELSE UNCHANGED <<handleVars, desktop>>
    /\ UNCHANGED excused

\* Mutant of Queue: the kind is recorded, the order is not.
QueueKindOnly(e) ==
    /\ pending_kind' = [pending_kind EXCEPT ![e.uid] = e.kind]
    /\ UNCHANGED pending_order

Queue(e) ==
    /\ pending_kind' = [pending_kind EXCEPT ![e.uid] = e.kind]
    /\ pending_order' = Append(pending_order, e.uid)

\* Added or Modified of a queued uid: Modified wins over what is queued.
Coalesce(e) ==
    /\ e.uid \in Pending
    /\ pending_kind' = IF e.kind = "Modified"
                       THEN [pending_kind EXCEPT ![e.uid] = "Modified"]
                       ELSE pending_kind
    /\ UNCHANGED <<pending_order, excused>>

\* Mutant of Requeue: Modified is ignored like Added.
RequeueNothing(e) ==
    /\ e.uid \notin Pending
    /\ outstanding = e.uid
    /\ UNCHANGED <<queueVars, excused>>

\* Of the uid whose request is outstanding: Modified queues it again, with no
\* look at the bound; Added is ignored.
Requeue(e) ==
    /\ e.uid \notin Pending
    /\ outstanding = e.uid
    /\ IF e.kind = "Modified" THEN Queue(e) ELSE UNCHANGED queueVars
    /\ UNCHANGED excused

\* Of another uid with the bound reached: dropped and counted.
DropWhenFull(e) ==
    /\ e.uid \notin Pending
    /\ outstanding # e.uid
    /\ PendingLen >= MaxPending
    /\ excused' = excused \cup {e.uid}
    /\ UNCHANGED queueVars

\* Mutant of Enqueue: the bound forgets the outstanding uid.
EnqueueIgnoresOutstanding(e) ==
    /\ e.uid \notin Pending
    /\ outstanding # e.uid
    /\ Cardinality(Pending) < MaxPending
    /\ Queue(e)
    /\ UNCHANGED excused

Enqueue(e) ==
    /\ e.uid \notin Pending
    /\ outstanding # e.uid
    /\ PendingLen < MaxPending
    /\ Queue(e)
    /\ UNCHANGED excused

IngestFresh(e) ==
    /\ ~e.preExisting
    /\ e.kind # "Removed"
    /\ Coalesce(e) \/ Requeue(e) \/ DropWhenFull(e) \/ Enqueue(e)
    /\ UNCHANGED <<canceled, handleVars, desktop>>

Ingest(e) == SkipPreExisting(e) \/ IngestRemoved(e) \/ IngestFresh(e)

\* handle_one_packet with nothing queued, or wait_for_response, takes an event.
ReceiveEvent ==
    /\ ns # <<>>
    /\ Waiting \/ (pc = "idle" /\ pending_order = <<>>)
    /\ Ingest(Head(ns))
    /\ ns' = Tail(ns)
    /\ UNCHANGED <<phoneVars, ds, outstanding, appVars, decoderVars, workVars,
                   sink_alive, sessions>>

\* handle_one_packet takes a fragment nobody waits for: discarded.
DiscardFragment ==
    /\ pc = "idle" /\ pending_order = <<>>
    /\ ds # <<>>
    /\ ds' = Tail(ds)
    /\ UNCHANGED <<phoneVars, ns, engineVars, desktop, sink_alive, excused, sessions>>

-----------------------------------------------------------------------------
(* process_next: the notification request *)

\* The end of every path of process_next.
Finish ==
    /\ pc' = "idle"
    /\ processing' = NoUid
    /\ attributes' = NoAttributes

\* process_next after fetch_notification returned: nothing is outstanding.
Answered ==
    /\ outstanding' = NoUid
    /\ canceled' = canceled \ {processing}

\* Mutant of GiveUpNotification: the error is counted and delivery goes on.
GiveUpAndDeliver ==
    /\ Answered
    /\ excused' = excused \cup {processing}
    /\ pc' = "deliver"
    /\ UNCHANGED <<processing, attributes>>

\* fetch_notification returned an error: counted, and the uid is given up.
GiveUpNotification ==
    /\ Answered
    /\ excused' = excused \cup {processing}
    /\ Finish

\* Mutant of ClearDecoder: only the bytes go.
ClearBytes ==
    /\ bytes' = <<>>
    /\ UNCHANGED expected

ClearDecoder ==
    /\ bytes' = <<>>
    /\ expected' = <<>>

\* process_next pops the oldest uid and writes its request.  The write is
\* accepted, or it fails, which clears the decoder and gives the uid up.
\* A popped uid has a kind (QueuesAgree), so the early return for one that
\* has none is not taken.
ProcessNext ==
    /\ pc = "idle"
    /\ pending_order # <<>>
    /\ LET u == Head(pending_order) IN
        /\ pending_order' = Tail(pending_order)
        /\ pending_kind' = [pending_kind EXCEPT ![u] = "none"]
        /\ canceled' = canceled \ {u}
        /\ \/ /\ outstanding' = u
              /\ bytes' = bytes
              /\ expected' = Append(expected, ExpectNotification(u))
              /\ requests' = Append(requests, ExpectNotification(u))
              /\ pc' = "notification"
              /\ processing' = u
              /\ UNCHANGED <<attributes, excused>>
           \/ /\ outstanding' = NoUid
              /\ ClearDecoder
              /\ excused' = excused \cup {u}
              /\ UNCHANGED <<requests, workVars>>
    /\ UNCHANGED <<version, present, ns, ds, handleVars, appVars, desktop,
                   sink_alive, sessions>>

\* Mutant of NotificationFails: the request has no timeout.
NoTimeout == FALSE

\* wait_for_response fails in the notification phase: the timeout or the end of
\* the stream.
NotificationFails ==
    /\ pc = "notification"
    /\ ClearDecoder
    /\ GiveUpNotification
    /\ UNCHANGED <<phoneVars, ns, ds, queueVars, handleVars, appVars, desktop,
                   sink_alive, sessions>>

\* A response is decoded.  An app response is refused without clearing the
\* decoder; attributes are taken, unless a Removed canceled the request.
TakeNotification(r) ==
    IF r.cmd = "app" THEN GiveUpNotification
    ELSE /\ Answered
         /\ UNCHANGED excused
         /\ IF processing \in canceled THEN Finish
            ELSE /\ pc' = "resolve"
                 /\ attributes' = r
                 /\ UNCHANGED processing

\* wait_for_response pushes a fragment in the notification phase.
NotificationFragment ==
    /\ pc = "notification"
    /\ ds # <<>>
    /\ ds' = Tail(ds)
    /\ LET buf == Append(bytes, Head(ds)) IN
        \E outcome \in Parse(buf, Head(expected)) :
           \/ /\ outcome = "incomplete"
              /\ bytes' = buf
              /\ UNCHANGED <<expected, requestVars, workVars, excused>>
           \/ /\ outcome = "decoded"
              /\ bytes' = <<>>
              /\ expected' = Tail(expected)
              /\ TakeNotification(Head(buf).response)
           \/ /\ outcome = "error"
              /\ ClearDecoder
              /\ GiveUpNotification
    /\ UNCHANGED <<phoneVars, ns, queueVars, handleVars, appVars, desktop,
                   sink_alive, sessions>>

-----------------------------------------------------------------------------
(* process_next: the app name *)

\* The name is cached, or the app request is written and awaited, or its write
\* fails and the bundle identifier is used.
ResolveApp ==
    /\ pc = "resolve"
    /\ IF attributes.app \in Cached
       THEN pc' = "deliver" /\ UNCHANGED <<decoderVars, requests>>
       ELSE \/ /\ expected' = Append(expected, ExpectApp(attributes.app))
               /\ requests' = Append(requests, ExpectApp(attributes.app))
               /\ pc' = "app"
               /\ UNCHANGED bytes
            \/ /\ ClearDecoder
               /\ pc' = "deliver"
               /\ UNCHANGED requests
    /\ UNCHANGED <<version, present, ns, ds, queueVars, requestVars, handleVars, appVars,
                   processing, attributes, desktop, sink_alive, excused, sessions>>

\* retain_app_name: name is cached for a, and the oldest entry goes beyond the bound.
RetainAppName(a, name) ==
    LET names == [app_names EXCEPT ![a] = name]
        order == IF a \in Cached THEN app_order ELSE Append(app_order, a)
    IN  IF Cardinality(Cached \cup {a}) > MaxApps
        THEN /\ app_names' = [names EXCEPT ![Head(order)] = NoApp]
             /\ app_order' = Tail(order)
        ELSE /\ app_names' = names
             /\ app_order' = order

\* wait_for_response fails in the app phase: the bundle identifier is used.
AppFails ==
    /\ pc = "app"
    /\ ClearDecoder
    /\ pc' = "deliver"
    /\ UNCHANGED <<phoneVars, ns, ds, queueVars, requestVars, handleVars, appVars,
                   processing, attributes, desktop, sink_alive, excused, sessions>>

\* wait_for_response pushes a fragment in the app phase.  A notification
\* response is refused without clearing the decoder.
AppFragment ==
    /\ pc = "app"
    /\ ds # <<>>
    /\ ds' = Tail(ds)
    /\ LET buf == Append(bytes, Head(ds)) IN
        \E outcome \in Parse(buf, Head(expected)) :
           \/ /\ outcome = "incomplete"
              /\ bytes' = buf
              /\ UNCHANGED <<expected, appVars, pc>>
           \/ /\ outcome = "decoded"
              /\ bytes' = <<>>
              /\ expected' = Tail(expected)
              /\ pc' = "deliver"
              /\ IF Head(buf).response.cmd = "app"
                 THEN RetainAppName(attributes.app, Head(buf).response.app)
                 ELSE UNCHANGED appVars
           \/ /\ outcome = "error"
              /\ ClearDecoder
              /\ pc' = "deliver"
              /\ UNCHANGED appVars
    /\ UNCHANGED <<phoneVars, ns, queueVars, requestVars, handleVars, processing,
                   attributes, desktop, sink_alive, excused, sessions>>

-----------------------------------------------------------------------------
(* process_next: delivery *)

Delivered == [uid |-> attributes.uid, version |-> attributes.version]
FreshIds == {id \in DesktopId : desktop[id] = NoContent /\ \A u \in UID : handles[u] # id}

\* retain_handle for a uid without a handle; shown is what the server shows by
\* then.  Beyond the bound the oldest handle is closed and forgotten.
RetainHandle(u, id, shown) ==
    LET mapped == [handles EXCEPT ![u] = id]
        order == Append(handle_order, u)
        oldest == Head(order)
    IN  IF Cardinality(Mapped \cup {u}) > MaxHandles
        THEN /\ handles' = [mapped EXCEPT ![oldest] = NoHandle]
             /\ handle_order' = Tail(order)
             /\ desktop' = AfterClose(shown, mapped[oldest])
             /\ excused' = excused \cup {oldest}
        ELSE /\ handles' = mapped
             /\ handle_order' = order
             /\ desktop' = shown
             /\ UNCHANGED excused

afterDelivery == <<phoneVars, ns, ds, queueVars, requestVars, appVars, decoderVars,
                   sink_alive, sessions>>

\* The uid has no handle: create, under an id the server is not using.
Create ==
    /\ pc = "deliver"
    /\ sink_alive
    /\ processing \notin Mapped
    /\ \E id \in FreshIds :
          RetainHandle(processing, id, [desktop EXCEPT ![id] = Delivered])
    /\ Finish
    /\ UNCHANGED afterDelivery

\* The uid has a handle: replace its content.
Replace ==
    /\ pc = "deliver"
    /\ sink_alive
    /\ processing \in Mapped
    /\ desktop' = [desktop EXCEPT ![handles[processing]] = Delivered]
    /\ Finish
    /\ UNCHANGED <<afterDelivery, handleVars, excused>>

\* The sink returns an error: counted.
DeliveryFails ==
    /\ pc = "deliver"
    /\ excused' = excused \cup {processing}
    /\ Finish
    /\ UNCHANGED <<afterDelivery, handleVars, desktop>>

-----------------------------------------------------------------------------
(* end, and the next session *)

\* SessionEngine::end: every handle is closed, all session state is cleared.
ClearSession ==
    /\ handles' = [u \in UID |-> NoHandle]
    /\ handle_order' = <<>>
    /\ pending_order' = <<>>
    /\ pending_kind' = [u \in UID |-> "none"]
    /\ outstanding' = NoUid
    /\ canceled' = {}
    /\ app_names' = [a \in App |-> NoApp]
    /\ app_order' = <<>>
    /\ ClearDecoder

\* Mutant of CloseAll: the handles are dropped without closing them.
CloseNothing == UNCHANGED desktop

CloseAll ==
    desktop' = IF sink_alive
               THEN [id \in DesktopId |->
                       IF \E u \in UID : handles[u] = id THEN NoContent ELSE desktop[id]]
               ELSE desktop

\* The phone side of a new session: nothing in transit, uids start afresh.
FreshPhone ==
    /\ version' = [u \in UID |-> 0]
    /\ present' = {}
    /\ requests' = <<>>
    /\ ns' = <<>>
    /\ ds' = <<>>
    /\ excused' = {}

\* The supervisor ends the session between two packets and a new one begins.
EndSession ==
    /\ pc = "idle"
    /\ sessions < MaxSessions
    /\ sessions' = sessions + 1
    /\ CloseAll
    /\ ClearSession
    /\ FreshPhone
    /\ UNCHANGED <<workVars, sink_alive>>

-----------------------------------------------------------------------------
Init ==
    /\ version = [u \in UID |-> 0]
    /\ present = {}
    /\ requests = <<>>
    /\ ns = <<>>
    /\ ds = <<>>
    /\ pending_order = <<>>
    /\ pending_kind = [u \in UID |-> "none"]
    /\ outstanding = NoUid
    /\ canceled = {}
    /\ handles = [u \in UID |-> NoHandle]
    /\ handle_order = <<>>
    /\ app_names = [a \in App |-> NoApp]
    /\ app_order = <<>>
    /\ bytes = <<>>
    /\ expected = <<>>
    /\ pc = "idle"
    /\ processing = NoUid
    /\ attributes = NoAttributes
    /\ desktop = [id \in DesktopId |-> NoContent]
    /\ sink_alive = TRUE
    /\ excused = {}
    /\ sessions = 1

Phone ==
    \/ \E u \in UID : PhoneAdds(u) \/ PhoneModifies(u) \/ PhoneRemoves(u)
    \/ PhoneAnswers
    \/ PhoneIgnores

\* The steps of one process_next, and of the loop that feeds it.
Engine ==
    \/ ReceiveEvent
    \/ DiscardFragment
    \/ ProcessNext
    \/ NotificationFragment
    \/ NotificationFails
    \/ ResolveApp
    \/ AppFragment
    \/ AppFails
    \/ Create
    \/ Replace
    \/ DeliveryFails

Next == Phone \/ SinkDies \/ Engine \/ EndSession

Spec == Init /\ [][Next]_vars

\* The future is polled whenever its await is ready, and an await on a response
\* becomes ready when the request times out: some step of the engine is taken
\* as long as one is possible.  Nothing is assumed of the phone.
FairSpec == Spec /\ WF_vars(Engine)

-----------------------------------------------------------------------------
(* Properties *)

\* Every variable has its type; the decoder holds fragments and expectations,
\* and each process_next local has a value exactly while it is live.
TypeOK ==
    /\ version \in [UID -> Nat]
    /\ present \subseteq UID
    /\ requests \in Seq(Expectation)
    /\ ns \in Seq(Event)
    /\ ds \in Seq(Fragment)
    /\ pending_order \in Seq(UID)
    /\ pending_kind \in [UID -> {"none", "Added", "Modified"}]
    /\ outstanding \in UID \cup {NoUid}
    /\ canceled \subseteq UID
    /\ handles \in [UID -> DesktopId \cup {NoHandle}]
    /\ handle_order \in Seq(UID)
    /\ app_names \in [App -> App \cup {NoApp}]
    /\ app_order \in Seq(App)
    /\ bytes \in Seq(Fragment)
    /\ expected \in Seq(Expectation)
    /\ pc \in {"idle", "notification", "resolve", "app", "deliver"}
    /\ processing \in UID \cup {NoUid}
    /\ (pc = "idle") <=> (processing = NoUid)
    /\ IF pc \in {"resolve", "app", "deliver"} THEN attributes \in Notification
                                              ELSE attributes = NoAttributes
    /\ desktop \in [DesktopId -> Content \cup {NoContent}]
    /\ sink_alive \in BOOLEAN
    /\ excused \subseteq UID
    /\ sessions \in Nat

\* pending_order and pending_kind describe the same uids, so the pop in
\* process_next always finds a kind, and no uid is fetched twice for one event.
QueuesAgree == Orders(pending_order, Pending)

\* handle_order and handles describe the same uids, so evicting the oldest of a
\* full map always frees a place and closes a notification that is shown.
HandlesAgree == Orders(handle_order, Mapped)

\* "At most 100 notification UIDs may be pending": queueing the outstanding uid
\* again skips the bound check and still cannot pass the bound.
PendingBounded == PendingLen <= MaxPending

\* "At most 100 active UID-to-handle mappings", also right after a delivery.
HandlesBounded == Cardinality(Mapped) <= MaxHandles

\* "At most 100 cached apps", in an order that names exactly the cached apps.
CacheBounded ==
    /\ Cardinality(Cached) <= MaxApps
    /\ Orders(app_order, Cached)

\* canceled never holds anything but the outstanding uid: nothing that Removed
\* canceled is carried over to a later request.
CanceledIsOutstanding == canceled \subseteq {outstanding}

\* What the engine keeps about a uid in two places agrees: an order and its map,
\* and the cancellation mark and the request it is for.
RecordsAgree == QueuesAgree /\ HandlesAgree /\ CanceledIsOutstanding

\* The queue, the handles and the app cache stay within their bounds: a requeue
\* skips the check, a delivery evicts after the fact, and an order that ran out
\* first would leave the cache too large.
WithinBounds == PendingBounded /\ HandlesBounded /\ CacheBounded

\* "Exactly one Control Point request may be outstanding": the decoder expects
\* one response while the engine waits for it, that of the request it wrote
\* last, and nothing otherwise.
OneExpectation ==
    /\ pc = "notification" => expected = <<ExpectNotification(processing)>>
    /\ pc = "app" => expected = <<ExpectApp(attributes.app)>>
    /\ ~Waiting => expected = <<>>

\* "Each ANCS UID maps to one Freedesktop notification handle": what is shown
\* under a uid's handle is that uid's text, handles are not shared, and the
\* cached name of an app is its own.
ShownUnderOwnUid ==
    /\ \A u \in Mapped : desktop[handles[u]] # NoContent /\ desktop[handles[u]].uid = u
    /\ \A u, w \in Mapped : handles[u] = handles[w] => u = w
    /\ \A a \in Cached : app_names[a] = a

\* While the sink works, every notification the bridge has shown and not closed
\* is one it still has a handle for: none stays on the screen for ever.
NoOrphans ==
    sink_alive => \A id \in DesktopId :
        desktop[id] # NoContent => \E u \in UID : handles[u] = id

\* The notification u is shown with its current text.
UpToDate(u) ==
    /\ u \in Mapped
    /\ desktop[handles[u]] = [uid |-> u, version |-> version[u]]

Quiescent == pc = "idle" /\ ns = <<>> /\ pending_order = <<>>

\* With every event handled, a notification on the phone that no loss was
\* recorded for is shown, with its current text: Modified events that arrive
\* at any point of process_next are not lost.
MirrorsPhone ==
    Quiescent /\ sink_alive =>
        \A u \in present \ excused : UpToDate(u)

\* A notification on the phone is eventually shown with its current text, unless
\* it is removed, a loss is recorded for it, or the sink stops.
EventuallyShown ==
    \A u \in UID :
        (u \in present) ~> (u \notin present \/ u \in excused \/ ~sink_alive \/ UpToDate(u))

\* The Removed event of u has been handled.
RemovalSeen(u) ==
    /\ version[u] > 0
    /\ u \notin present
    /\ \A i \in DOMAIN ns : ns[i].uid # u

\* "Removed cancels pending work": once it is handled the uid is not queued, and
\* a request for it that is outstanding is canceled.
RemovedCancels ==
    \A u \in UID : RemovalSeen(u) =>
        /\ u \notin Pending
        /\ outstanding = u => u \in canceled

\* "Removed closes it": with every event handled no notification is shown for a
\* uid that was removed on the phone.  The code breaks this: outstanding is
\* cleared before the app name is fetched, and a Removed that arrives in between
\* finds nothing to cancel.
RemovedIsClosed ==
    Quiescent => \A u \in Mapped : u \in present

=============================================================================
