------------------------------- MODULE Bridge -------------------------------
(***************************************************************************)
(* SessionEngine driven by the loop of Supervisor::run in state Ready      *)
(* (src/bluetooth/supervisor.rs).  SessionEngine alone lets every          *)
(* process_next run to its end; the loop does not: in its select, the      *)
(* reconcile timer races handle_one_packet, and when it wins the future    *)
(* that handles the packet is dropped at the await it stands at.           *)
(*                                                                         *)
(* loop is where run() stands:                                             *)
(*   "reconcile"  reconcile_once is next, or has just found Ready          *)
(*   "work"       process_one_pending, because pending_len() > 0           *)
(*   "select"     the timer and next_packet, nothing received yet          *)
(*   "handling"   the same select, with a packet in hand                   *)
(*   "stopped"    a signal ended the process                               *)
(* What Supervisor tells apart outside Ready is one step here: the session *)
(* is lost, and the next one is subscribed.                                *)
(***************************************************************************)
EXTENDS SessionEngine

VARIABLES
    loop,
    leaked   \* history: ids of notifications whose create was dropped

bridgeVars == <<vars, loop, leaked>>

-----------------------------------------------------------------------------
(* One iteration of run() *)

\* Reconciled and still ready: queued work, or a packet within the interval.
Iterate ==
    /\ loop = "reconcile"
    /\ loop' = IF PendingLen > 0 THEN "work" ELSE "select"
    /\ UNCHANGED <<vars, leaked>>

\* The select takes a packet: an event is ingested and process_next follows, a
\* fragment is discarded and the iteration is over.
TakePacket ==
    /\ loop = "select"
    /\ \/ ReceiveEvent /\ loop' = "handling"
       \/ DiscardFragment /\ loop' = "reconcile"
    /\ UNCHANGED leaked

\* process_next with an empty queue returns at once.
NothingQueued ==
    /\ loop \in {"work", "handling"}
    /\ pc = "idle" /\ pending_order = <<>>
    /\ loop' = "reconcile"
    /\ UNCHANGED <<vars, leaked>>

\* The steps process_next is made of.
Processing ==
    \/ ProcessNext
    \/ Waiting /\ ReceiveEvent
    \/ NotificationFragment \/ NotificationFails
    \/ ResolveApp \/ AppFragment \/ AppFails
    \/ Create \/ Replace \/ DeliveryFails

\* process_next runs; the iteration is over when it returns.
Process ==
    /\ loop \in {"work", "handling"}
    /\ Processing
    /\ loop' = IF pc' = "idle" THEN "reconcile" ELSE loop
    /\ UNCHANGED leaked

-----------------------------------------------------------------------------
(* The future is dropped *)

\* The command sent before the drop is still executed by the actor: a create
\* shows a notification nobody holds a handle of, a replace is a replace.
SinkFinishes(shown) ==
    IF pc = "deliver" /\ sink_alive /\ processing \notin Mapped
    THEN \E id \in FreshIds :
            /\ desktop' = [shown EXCEPT ![id] = Delivered]
            /\ leaked' = leaked \cup {id}
    ELSE /\ desktop' = IF pc = "deliver" /\ sink_alive /\ shown[handles[processing]] # NoContent
                       THEN [shown EXCEPT ![handles[processing]] = Delivered]
                       ELSE shown
         /\ UNCHANGED leaked

\* Mutant of ForgetLocals: the locals of process_next survive it.
KeepLocals ==
    /\ pc' = "idle"
    /\ UNCHANGED <<processing, attributes>>

\* The locals of process_next go with the future.
ForgetLocals == Finish

\* run() stands at an await: not between two, where the attributes are decoded or
\* an event has just been queued.
AtAwait ==
    /\ pc # "resolve"
    /\ loop = "handling" /\ pc = "idle" => pending_order = <<>>

\* RECONCILE_INTERVAL passes before the packet is handled, or before there is
\* one.  outstanding, canceled and the decoder stay as they are.
IntervalPasses ==
    /\ loop \in {"select", "handling"}
    /\ AtAwait
    /\ ForgetLocals
    /\ SinkFinishes(desktop)
    /\ loop' = "reconcile"
    /\ UNCHANGED <<phoneVars, ns, ds, queueVars, requestVars, handleVars, appVars, decoderVars,
                   sink_alive, excused, sessions>>

\* A stream ends, or reconcile_once no longer finds ready: the session ends.
SessionLost ==
    /\ loop \in {"reconcile", "select"}
    /\ EndSession
    /\ loop' = "reconcile"
    /\ UNCHANGED leaked

\* What the server shows once the session's handles are closed.
Closed ==
    [id \in DesktopId |->
        IF sink_alive /\ (\E u \in UID : handles[u] = id) THEN NoContent ELSE desktop[id]]

\* SIGINT or SIGTERM drops run() wherever it stands; shutdown ends the session.
Signal ==
    /\ loop # "stopped"
    /\ AtAwait
    /\ ForgetLocals
    /\ SinkFinishes(Closed)
    /\ ClearSession
    /\ loop' = "stopped"
    /\ UNCHANGED <<phoneVars, ns, ds, sink_alive, excused, sessions>>

-----------------------------------------------------------------------------
BridgeInit == Init /\ loop = "reconcile" /\ leaked = {}

Loop == Iterate \/ TakePacket \/ NothingQueued \/ Process \/ IntervalPasses

BridgeNext ==
    \/ (Phone \/ SinkDies) /\ UNCHANGED <<loop, leaked>>
    \/ Loop
    \/ SessionLost
    \/ Signal

BridgeSpec == BridgeInit /\ [][BridgeNext]_bridgeVars

\* The loop is one task: it is polled when an await is ready, and the timers of
\* the select and of a request make every await ready in the end.
BridgeFairSpec == BridgeSpec /\ WF_bridgeVars(Loop)

-----------------------------------------------------------------------------
(* Properties *)

\* Dropping process_next at any await leaves the queue, the handles and the cache
\* consistent and within their bounds: no pop, retain or eviction is half done,
\* and no local of it is used in an iteration that does not run it.  A dropped
\* request may leave its cancellation mark behind when the next one is sent
\* (CanceledIsOutstanding does not hold here), but only on a uid the phone no
\* longer has, so no notification is withheld for it.
SurvivesDrops ==
    /\ TypeOK /\ QueuesAgree /\ HandlesAgree /\ WithinBounds
    /\ canceled \cap present = {}
    /\ pc # "idle" => loop \in {"work", "handling"}

\* The only notifications that stay on the screen without a handle are those
\* whose create was dropped while the actor was at it.
LeaksOnlyByDrops ==
    sink_alive => \A id \in DesktopId :
        desktop[id] # NoContent => id \in leaked \/ \E u \in UID : handles[u] = id

\* "Timeout ... is recoverable and cannot terminate the daemon supervisor": a
\* running loop comes back to reconcile, whatever the phone does not send.
Reconciles == []<>(loop \in {"reconcile", "stopped"})

\* "Each request has a five-second timeout": a request does not stay outstanding
\* for ever.  The code breaks this: a request dropped by the interval stays
\* outstanding, keeps pending_len() above zero with nothing queued, and the loop
\* then neither processes nor reads packets until the session ends.
RequestEnds == outstanding # NoUid ~> outstanding = NoUid

\* "Each ANCS UID maps to one Freedesktop notification handle": what a handle
\* shows is its uid's text.  The code breaks this: the expectation of a request
\* dropped by the interval stays in the decoder, and takes the next response.
HandlesShowOwnUid ==
    \A u \in Mapped : desktop[handles[u]] # NoContent => desktop[handles[u]].uid = u

=============================================================================
