------------------------ MODULE SessionContentProofs ------------------------
(***************************************************************************)
(* What the desktop shows, for every set of uids, apps and desktop ids and *)
(* every bound: each uid's own text under its handle, nothing orphaned,    *)
(* nothing wanted for a uid that is gone, and, with every event handled,   *)
(* the current text of each notification no loss was recorded for.         *)
(***************************************************************************)
EXTENDS SessionEngineProofs

-----------------------------------------------------------------------------
(* Events in transit *)

\* An event of u is in transit.
Coming(u) == \E i \in DOMAIN ns : ns[i].uid = u

\* The last event of u in transit is its Removed.
RemovedComes(u) ==
    \E i \in DOMAIN ns :
       /\ ns[i].uid = u /\ ns[i].kind = "Removed"
       /\ \A j \in DOMAIN ns : j > i => ns[j].uid # u

\* Nothing is known of a uid the phone has not used yet.
Unused ==
    \A u \in UID : version[u] = 0 =>
        u \notin present /\ ~Coming(u) /\ u \notin Pending /\ outstanding # u

\* What says that a uid was removed says so of one that was there and is gone.
Truthful ==
    /\ \A u \in canceled : version[u] > 0 /\ u \notin present
    /\ \A i \in DOMAIN ns : ns[i].kind = "Removed" =>
          version[ns[i].uid] > 0 /\ ns[i].uid \notin present

\* Added is the first event of its uid, and the engine knows nothing of it before.
AddedFirst ==
    \A i \in DOMAIN ns : ns[i].kind = "Added" =>
        /\ \A j \in DOMAIN ns : j < i => ns[j].uid # ns[i].uid
        /\ ns[i].uid \notin Pending
        /\ outstanding # ns[i].uid

\* A uid that is gone has its Removed in transit, or is neither queued nor wanted.
Settled ==
    \A u \in UID : version[u] > 0 /\ u \notin present =>
        \/ RemovedComes(u)
        \/ ~Coming(u) /\ u \notin Pending /\ (outstanding = u => u \in canceled)

Notices == Unused /\ Truthful /\ AddedFirst /\ Settled

\* What is in a queue after an element was appended.
LEMMA AppendElements ==
    ASSUME NEW S, NEW s \in Seq(S), NEW x \in S
    PROVE  /\ Append(s, x) \in Seq(S)
           /\ Len(s) \in Nat /\ DOMAIN s = 1..Len(s)
           /\ DOMAIN Append(s, x) = 1..(Len(s) + 1)
           /\ \A i \in 1..Len(s) : Append(s, x)[i] = s[i]
           /\ Append(s, x)[Len(s) + 1] = x
OBVIOUS

\* What is in a queue after its first element was taken.
LEMMA TailElements ==
    ASSUME NEW S, NEW s \in Seq(S), s # <<>>
    PROVE  /\ Head(s) = s[1] /\ Head(s) \in S /\ Tail(s) \in Seq(S)
           /\ Len(s) \in Nat \ {0} /\ DOMAIN s = 1..Len(s)
           /\ DOMAIN Tail(s) = 1..(Len(s) - 1)
           /\ \A i \in 1..(Len(s) - 1) : Tail(s)[i] = s[i + 1]
OBVIOUS

\* The steps that touch the phone's notifications and the events in transit.
LEMMA EventFrame ==
    ASSUME [Next]_vars, ~ReceiveEvent, ~EndSession,
           ~\E u \in UID : PhoneAdds(u) \/ PhoneModifies(u) \/ PhoneRemoves(u)
    PROVE  UNCHANGED <<version, present, ns>>
BY DEF Next, Phone, Engine, vars, phoneVars, PhoneAnswers, PhoneIgnores, SinkDies,
       DiscardFragment, ProcessNext, NotificationFragment, NotificationFails, ResolveApp,
       AppFragment, AppFails, Create, Replace, DeliveryFails, afterDelivery

\* What ingesting an event does to the queue and the cancellations: a removal takes the
\* uid away and cancels its request; anything else has the uid queued, or a loss
\* recorded for it, or is an Added of the outstanding uid.
LEMMA IngestEffect ==
    ASSUME TypeInv, NEW e \in Event, Ingest(e)
    PROVE  \/ /\ e.kind = "Removed"
              /\ Pending' = Pending \ {e.uid}
              /\ canceled' = IF outstanding = e.uid THEN canceled \cup {e.uid} ELSE canceled
              /\ excused' = excused
           \/ /\ e.kind # "Removed"
              /\ Pending \subseteq Pending' /\ Pending' \subseteq Pending \cup {e.uid}
              /\ UNCHANGED <<canceled, handleVars, desktop>>
              /\ excused \subseteq excused'
              /\ \/ e.uid \in Pending' \cup excused'
                 \/ e.kind = "Added" /\ outstanding = e.uid
<1>0. e.uid \in UID /\ e.kind \in {"Added", "Modified", "Removed"}
  BY DEF Event
<1>1. CASE SkipPreExisting(e)
  BY <1>1 DEF SkipPreExisting, queueVars, Pending
<1>2. CASE IngestRemoved(e)
  BY <1>0, <1>2, PendingWithout DEF IngestRemoved
<1>3. CASE IngestFresh(e)
  <2>0. /\ e.kind \in {"Added", "Modified"}
        /\ UNCHANGED <<canceled, handleVars, desktop>>
    BY <1>0, <1>3 DEF IngestFresh
  <2>1. CASE Coalesce(e)
    <3>1. e.uid \in Pending /\ UNCHANGED excused
      BY <2>1 DEF Coalesce
    <3>2. CASE e.kind = "Modified"
      BY <1>0, <2>0, <2>1, <3>1, <3>2, PendingWith DEF Coalesce
    <3>3. CASE e.kind # "Modified"
      BY <2>0, <2>1, <3>1, <3>3 DEF Coalesce, Pending
    <3> QED
      BY <3>2, <3>3
  <2>2. CASE Requeue(e)
    <3>1. CASE e.kind = "Modified"
      BY <1>0, <2>0, <2>2, <3>1, PendingWith DEF Requeue, Queue
    <3>2. CASE e.kind # "Modified"
      BY <2>0, <2>2, <3>2 DEF Requeue, queueVars, Pending
    <3> QED
      BY <3>1, <3>2
  <2>3. CASE DropWhenFull(e)
    BY <2>0, <2>3 DEF DropWhenFull, queueVars, Pending
  <2>4. CASE Enqueue(e)
    BY <1>0, <2>0, <2>4, PendingWith DEF Enqueue, Queue
  <2> QED
    BY <1>3, <2>1, <2>2, <2>3, <2>4 DEF IngestFresh
<1> QED
  BY <1>1, <1>2, <1>3 DEF Ingest

\* The state Notices is about, taken apart for the steps below.
LEMMA NoticeTypes ==
    ASSUME TypeInv
    PROVE  /\ ns \in Seq(Event) /\ version \in [UID -> Nat] /\ present \subseteq UID
           /\ Pending \subseteq UID /\ canceled \subseteq UID
           /\ \A i \in DOMAIN ns : ns[i] \in Event /\ ns[i].uid \in UID
<1>1. /\ ns \in Seq(Event) /\ version \in [UID -> Nat] /\ present \subseteq UID
      /\ Pending \subseteq UID /\ canceled \subseteq UID
  BY DEF TypeInv, TypeOK, Pending
<1>2. \A i \in DOMAIN ns : ns[i] \in Event
  BY <1>1
<1> QED
  BY <1>1, <1>2 DEF Event

\* The phone shows a notification: nothing was known of its uid.
LEMMA AddsNotices ==
    ASSUME TypeInv, Notices, NEW u \in UID, PhoneAdds(u)
    PROVE  Notices'
<1>1. PICK e \in Event : e.uid = u /\ e.kind = "Added" /\ ns' = Append(ns, e)
  <2>1. \A old \in BOOLEAN : [kind |-> "Added", uid |-> u, preExisting |-> old] \in Event
    BY DEF Event
  <2> QED
    BY <2>1 DEF PhoneAdds
<1> DEFINE n == Len(ns)
<1>2. /\ n \in Nat /\ DOMAIN ns = 1..n /\ DOMAIN ns' = 1..(n + 1)
      /\ \A i \in 1..n : ns'[i] = ns[i]
      /\ ns'[n + 1] = e
  BY <1>1, NoticeTypes, AppendElements
<1>3. /\ Pending' = Pending /\ UNCHANGED <<outstanding, canceled>>
      /\ version[u] = 0 /\ version' = [version EXCEPT ![u] = 1]
      /\ present' = present \cup {u} /\ version \in [UID -> Nat]
  BY NoticeTypes DEF PhoneAdds, engineVars, queueVars, requestVars, Pending
<1>4. /\ \A i \in 1..n : ns[i] \in Event /\ ns[i].uid \in UID
      /\ canceled \subseteq UID /\ Pending \subseteq UID
  BY <1>2, NoticeTypes
<1> HIDE DEF n
<1> USE <1>1, <1>2, <1>3, <1>4
<1>5. Unused'
  BY DEF Notices, Unused, Coming
<1>6. Truthful'
  BY DEF Notices, Truthful, Unused, Coming
<1>7. AddedFirst'
  BY DEF Notices, AddedFirst, Unused, Coming
<1>8. Settled'
  <2> SUFFICES ASSUME NEW w \in UID, version'[w] > 0, w \notin present'
               PROVE  \/ RemovedComes(w)'
                      \/ /\ ~Coming(w)' /\ w \notin Pending'
                         /\ outstanding' = w => w \in canceled'
    BY DEF Settled
  <2>1. w # u /\ version[w] > 0 /\ w \notin present
    OBVIOUS
  <2>2. CASE RemovedComes(w)
    BY <2>1, <2>2 DEF RemovedComes
  <2>3. CASE ~Coming(w) /\ w \notin Pending /\ (outstanding = w => w \in canceled)
    BY <2>1, <2>3 DEF Coming
  <2> QED
    BY <2>1, <2>2, <2>3 DEF Notices, Settled
<1> QED
  BY <1>5, <1>6, <1>7, <1>8 DEF Notices

\* Its text changes: its uid is present and stays so.
LEMMA ModifiesNotices ==
    ASSUME TypeInv, Notices, NEW u \in UID, PhoneModifies(u)
    PROVE  Notices'
<1>1. PICK e \in Event : e.uid = u /\ e.kind = "Modified" /\ ns' = Append(ns, e)
  <2>1. \A old \in BOOLEAN : [kind |-> "Modified", uid |-> u, preExisting |-> old] \in Event
    BY DEF Event
  <2> QED
    BY <2>1 DEF PhoneModifies
<1> DEFINE n == Len(ns)
<1>2. /\ n \in Nat /\ DOMAIN ns = 1..n /\ DOMAIN ns' = 1..(n + 1)
      /\ \A i \in 1..n : ns'[i] = ns[i]
      /\ ns'[n + 1] = e
  BY <1>1, NoticeTypes, AppendElements
<1>3. /\ Pending' = Pending /\ UNCHANGED <<outstanding, canceled>>
      /\ u \in present /\ version' = [version EXCEPT ![u] = @ + 1]
      /\ present' = present /\ version \in [UID -> Nat]
  BY NoticeTypes DEF PhoneModifies, engineVars, queueVars, requestVars, Pending
<1>4. /\ \A i \in 1..n : ns[i] \in Event /\ ns[i].uid \in UID
      /\ canceled \subseteq UID /\ Pending \subseteq UID
  BY <1>2, NoticeTypes
<1> HIDE DEF n
<1> USE <1>1, <1>2, <1>3, <1>4
<1>5. Unused'
  BY DEF Notices, Unused, Coming
<1>6. Truthful'
  BY DEF Notices, Truthful, Unused, Coming
<1>7. AddedFirst'
  BY DEF Notices, AddedFirst, Unused, Coming
<1>8. Settled'
  <2> SUFFICES ASSUME NEW w \in UID, version'[w] > 0, w \notin present'
               PROVE  \/ RemovedComes(w)'
                      \/ /\ ~Coming(w)' /\ w \notin Pending'
                         /\ outstanding' = w => w \in canceled'
    BY DEF Settled
  <2>1. w # u /\ version[w] > 0 /\ w \notin present
    OBVIOUS
  <2>2. CASE RemovedComes(w)
    BY <2>1, <2>2 DEF RemovedComes
  <2>3. CASE ~Coming(w) /\ w \notin Pending /\ (outstanding = w => w \in canceled)
    BY <2>1, <2>3 DEF Coming
  <2> QED
    BY <2>1, <2>2, <2>3 DEF Notices, Settled
<1> QED
  BY <1>5, <1>6, <1>7, <1>8 DEF Notices

\* It is dismissed: from here on its Removed is in transit.
LEMMA RemovesNotices ==
    ASSUME TypeInv, Notices, NEW u \in UID, PhoneRemoves(u)
    PROVE  Notices'
<1>1. PICK e \in Event : e.uid = u /\ e.kind = "Removed" /\ ns' = Append(ns, e)
  <2>1. \A old \in BOOLEAN : [kind |-> "Removed", uid |-> u, preExisting |-> old] \in Event
    BY DEF Event
  <2> QED
    BY <2>1 DEF PhoneRemoves
<1> DEFINE n == Len(ns)
<1>2. /\ n \in Nat /\ DOMAIN ns = 1..n /\ DOMAIN ns' = 1..(n + 1)
      /\ \A i \in 1..n : ns'[i] = ns[i]
      /\ ns'[n + 1] = e
  BY <1>1, NoticeTypes, AppendElements
<1>3. /\ Pending' = Pending /\ UNCHANGED <<outstanding, canceled>>
      /\ u \in present /\ version' = version
      /\ present' = present \ {u} /\ version \in [UID -> Nat]
  BY NoticeTypes DEF PhoneRemoves, engineVars, queueVars, requestVars, Pending
<1>4. /\ \A i \in 1..n : ns[i] \in Event /\ ns[i].uid \in UID
      /\ canceled \subseteq UID /\ Pending \subseteq UID
  BY <1>2, NoticeTypes
<1> HIDE DEF n
<1> USE <1>1, <1>2, <1>3, <1>4
<1>5. Unused'
  BY DEF Notices, Unused, Coming
<1>6. Truthful'
  BY DEF Notices, Truthful, Unused, Coming
<1>7. AddedFirst'
  BY DEF Notices, AddedFirst, Unused, Coming
<1>8. Settled'
  <2> SUFFICES ASSUME NEW w \in UID, version'[w] > 0, w \notin present'
               PROVE  \/ RemovedComes(w)'
                      \/ /\ ~Coming(w)' /\ w \notin Pending'
                         /\ outstanding' = w => w \in canceled'
    BY DEF Settled
  <2>1. CASE w = u
    BY <2>1 DEF RemovedComes
  <2>2. CASE w # u /\ RemovedComes(w)
    BY <2>2 DEF RemovedComes
  <2>3. CASE w # u /\ ~Coming(w) /\ w \notin Pending /\ (outstanding = w => w \in canceled)
    BY <2>3 DEF Coming
  <2> QED
    BY <2>1, <2>2, <2>3 DEF Notices, Settled
<1> QED
  BY <1>5, <1>6, <1>7, <1>8 DEF Notices

\* An event is ingested: the last Removed of a uid leaves it neither queued nor wanted.
LEMMA ReceiveNotices ==
    ASSUME TypeInv, Notices, ReceiveEvent
    PROVE  Notices'
<1> DEFINE e == Head(ns)
           n == Len(ns)
<1>1. ns # <<>> /\ Ingest(e) /\ ns' = Tail(ns) /\ UNCHANGED <<version, present, outstanding>>
  BY DEF ReceiveEvent, phoneVars
<1>2. /\ e = ns[1] /\ e \in Event /\ e.uid \in UID
      /\ n \in Nat \ {0} /\ DOMAIN ns = 1..n /\ DOMAIN ns' = 1..(n - 1)
      /\ \A i \in 1..(n - 1) : ns'[i] = ns[i + 1]
      /\ \A i \in 1..n : ns[i] \in Event /\ ns[i].uid \in UID
      /\ version \in [UID -> Nat] /\ Pending \subseteq UID /\ canceled \subseteq UID
  BY <1>1, NoticeTypes, TailElements
<1> HIDE DEF e, n
<1>3. \/ /\ e.kind = "Removed"
         /\ Pending' = Pending \ {e.uid}
         /\ canceled' = IF outstanding = e.uid THEN canceled \cup {e.uid} ELSE canceled
      \/ /\ e.kind # "Removed"
         /\ Pending \subseteq Pending' /\ Pending' \subseteq Pending \cup {e.uid}
         /\ canceled' = canceled
  BY <1>1, <1>2, IngestEffect
<1>4. \A u \in UID : Coming(u)' => Coming(u)
  BY <1>2 DEF Coming
<1>5. Coming(e.uid)
  BY <1>2 DEF Coming
<1>6. Unused'
  BY <1>1, <1>2, <1>3, <1>4, <1>5 DEF Notices, Unused
<1>7. Truthful'
  <2>1. e.kind = "Removed" => version[e.uid] > 0 /\ e.uid \notin present
    BY <1>2 DEF Notices, Truthful
  <2>2. \A u \in canceled' : version[u] > 0 /\ u \notin present
    BY <1>3, <2>1 DEF Notices, Truthful
  <2>3. \A i \in DOMAIN ns' : ns'[i].kind = "Removed" =>
          version[ns'[i].uid] > 0 /\ ns'[i].uid \notin present
    BY <1>2 DEF Notices, Truthful
  <2> QED
    BY <1>1, <2>2, <2>3 DEF Truthful
<1>8. AddedFirst'
  <2> SUFFICES ASSUME NEW i \in 1..(n - 1), ns'[i].kind = "Added"
               PROVE  /\ \A j \in 1..(n - 1) : j < i => ns'[j].uid # ns'[i].uid
                      /\ ns'[i].uid \notin Pending'
                      /\ outstanding' # ns'[i].uid
    BY <1>2 DEF AddedFirst
  <2>1. /\ i + 1 \in 1..n /\ ns[i + 1].kind = "Added" /\ ns[i + 1] = ns'[i]
        /\ 1 \in 1..n /\ 1 < i + 1
    BY <1>2
  <2>2. /\ \A j \in 1..n : j < i + 1 => ns[j].uid # ns'[i].uid
        /\ ns'[i].uid \notin Pending /\ outstanding # ns'[i].uid
    BY <1>2, <2>1 DEF Notices, AddedFirst
  <2>3. e.uid # ns'[i].uid
    BY <1>2, <2>1, <2>2
  <2> QED
    BY <1>1, <1>2, <1>3, <2>2, <2>3
<1>9. Settled'
  <2> SUFFICES ASSUME NEW u \in UID, version'[u] > 0, u \notin present'
               PROVE  \/ RemovedComes(u)'
                      \/ /\ ~Coming(u)' /\ u \notin Pending'
                         /\ outstanding' = u => u \in canceled'
    BY DEF Settled
  <2>1. version[u] > 0 /\ u \notin present
    BY <1>1
  <2>2. ASSUME NEW i \in 1..n, ns[i].uid = u, ns[i].kind = "Removed",
               \A j \in 1..n : j > i => ns[j].uid # u
        PROVE  \/ RemovedComes(u)'
               \/ /\ ~Coming(u)' /\ u \notin Pending'
                  /\ outstanding' = u => u \in canceled'
    <3>1. CASE i = 1
      <4>1. e.uid = u /\ e.kind = "Removed"
        BY <1>2, <2>2, <3>1
      <4>2. ~Coming(u)'
        BY <1>2, <2>2, <3>1 DEF Coming
      <4> QED
        BY <1>1, <1>3, <4>1, <4>2
    <3>2. CASE i > 1
      <4>1. i - 1 \in 1..(n - 1) /\ ns'[i - 1] = ns[i]
        BY <1>2, <3>2
      <4>2. \A j \in 1..(n - 1) : j > i - 1 => ns'[j].uid # u
        BY <1>2, <2>2
      <4> QED
        BY <1>2, <2>2, <4>1, <4>2 DEF RemovedComes
    <3> QED
      BY <3>1, <3>2
  <2>3. CASE ~Coming(u) /\ u \notin Pending /\ (outstanding = u => u \in canceled)
    BY <1>1, <1>3, <1>4, <1>5, <2>3
  <2> QED
    BY <1>2, <2>1, <2>2, <2>3 DEF Notices, Settled, RemovedComes
<1> QED
  BY <1>6, <1>7, <1>8, <1>9 DEF Notices

\* Every step keeps what is said about uids in transit and in the queue.
LEMMA NoticesNext == TypeInv /\ QueuesAgree /\ Notices /\ [Next]_vars => Notices'
<1> SUFFICES ASSUME TypeInv, QueuesAgree, Notices, [Next]_vars
             PROVE  Notices'
  OBVIOUS
<1>1. CASE \E u \in UID : PhoneAdds(u) \/ PhoneModifies(u) \/ PhoneRemoves(u)
  BY <1>1, AddsNotices, ModifiesNotices, RemovesNotices
<1>2. CASE ReceiveEvent
  BY <1>2, ReceiveNotices
<1>3. CASE EndSession
  BY <1>3, UidAssumption
     DEF EndSession, ClearSession, FreshPhone, Notices, Unused, Truthful, AddedFirst, Settled,
         Coming, Pending
<1>4. CASE UNCHANGED <<version, present, ns>> /\ ProcessNext
  <2> DEFINE u == Head(pending_order)
  <2>1. u \in Pending
    BY <1>4, TailOrders DEF ProcessNext, QueuesAgree, TypeInv, TypeOK
  <2>2. /\ pending_kind' = [pending_kind EXCEPT ![u] = "none"]
        /\ outstanding' \in {u, NoUid}
        /\ canceled' = canceled \ {u}
    BY <1>4 DEF ProcessNext
  <2>3. Pending' = Pending \ {u} /\ NoUid \notin UID /\ Pending \subseteq UID
    BY <2>1, <2>2, PendingWithout, UidAssumption DEF Pending
  <2> HIDE DEF u
  <2>4. \A i \in DOMAIN ns : ns[i].uid \in UID
    BY NoticeTypes
  <2> USE <1>4, <2>1, <2>2, <2>3, <2>4
  <2>5. Unused' /\ Truthful' /\ AddedFirst'
    BY DEF Notices, Unused, Truthful, AddedFirst, Coming
  <2>6. Settled'
    BY DEF Notices, Settled, Coming, RemovedComes
  <2> QED
    BY <2>5, <2>6 DEF Notices
<1>5. CASE UNCHANGED <<version, present, ns>> /\ (NotificationFragment \/ NotificationFails)
  <2>1. /\ Pending' = Pending /\ canceled' \subseteq canceled
        /\ \/ outstanding' = outstanding /\ canceled' = canceled
           \/ outstanding' = NoUid
    BY <1>5, RequestAnswered DEF Pending, queueVars, requestVars
  <2> USE <1>5, <2>1, UidAssumption, NoticeTypes
  <2>2. Unused' /\ Truthful' /\ AddedFirst'
    BY DEF Notices, Unused, Truthful, AddedFirst, Coming
  <2>3. Settled'
    BY DEF Notices, Settled, Coming, RemovedComes
  <2> QED
    BY <2>2, <2>3 DEF Notices
<1>6. CASE UNCHANGED <<version, present, ns>> /\ UNCHANGED <<queueVars, requestVars>>
  BY <1>6 DEF Notices, Unused, Truthful, AddedFirst, Settled, Coming, RemovedComes, Pending,
              queueVars, requestVars
<1> QED
  BY <1>1, <1>2, <1>3, <1>4, <1>5, <1>6, EventFrame, RequestFrame DEF RequestSteps

\* What the phone, the events in transit and the queue say of a uid agrees.
THEOREM NoticesCorrect == Spec => []Notices
<1>1. Init => Notices
  BY UidAssumption DEF Init, Notices, Unused, Truthful, AddedFirst, Settled, Coming, Pending
<1> QED
  BY <1>1, NoticesNext, TypeCorrect, QueuesCorrect, PTL DEF Spec

\* "Removed cancels pending work": once the last event of a removed uid is handled, the
\* uid is not queued, and a request for it that is outstanding is marked as canceled.
THEOREM RemovedCancelsCorrect == Spec => []RemovedCancels
<1>1. TypeInv /\ Notices => RemovedCancels
  BY DEF Notices, Settled, RemovedCancels, RemovalSeen, RemovedComes, Coming
<1> QED
  BY <1>1, NoticesCorrect, TypeCorrect, PTL

-----------------------------------------------------------------------------
(* What a response says of the uid or the app it is for *)

\* The attributes in hand are those of the uid that is processed.
OwnAttributes == pc \in {"resolve", "app", "deliver"} => attributes.uid = processing

\* Every cached name is that of its app.
OwnNames == \A a \in Cached : app_names[a] = a

\* The decoder returns a response only when it is whole and is the expected one.
LEMMA DecodedAnswers ==
    ASSUME NEW buf, NEW e, "decoded" \in Parse(buf, e)
    PROVE  /\ Head(buf).part = 1
           /\ Answers(Head(buf).response, e)
           /\ StartsWithResponse(buf)
BY DEF Parse

\* What a fragment does in the notification phase: the wait goes on, the attributes of
\* the processed uid are in hand, the request was canceled, or the uid is given up.
LEMMA NotificationOutcome ==
    ASSUME TypeInv, RequestInv, NotificationFragment
    PROVE  \/ bytes' = Append(bytes, Head(ds)) /\ UNCHANGED <<workVars, requestVars, excused>>
           \/ /\ "decoded" \in Parse(Append(bytes, Head(ds)), ExpectNotification(processing))
              /\ bytes' = <<>> /\ excused' = excused /\ processing \notin canceled
              /\ pc' = "resolve" /\ processing' = processing
              /\ attributes' = Head(Append(bytes, Head(ds))).response
              /\ attributes'.cmd = "notification" /\ attributes'.uid = processing
           \/ /\ "decoded" \in Parse(Append(bytes, Head(ds)), ExpectNotification(processing))
              /\ bytes' = <<>> /\ excused' = excused /\ processing \in canceled
              /\ pc' = "idle"
           \/ bytes' = <<>> /\ excused' = excused \cup {processing} /\ pc' = "idle"
<1> DEFINE buf == Append(bytes, Head(ds))
           r == Head(buf).response
<1>1. expected = <<ExpectNotification(processing)>>
  BY DEF NotificationFragment, RequestInv, OneExpectation
<1>2. Head(expected) = ExpectNotification(processing)
  BY <1>1
<1>3. PICK outcome \in Parse(buf, ExpectNotification(processing)) :
        \/ /\ outcome = "incomplete"
           /\ bytes' = buf
           /\ UNCHANGED <<requestVars, workVars, excused>>
        \/ /\ outcome = "decoded"
           /\ bytes' = <<>>
           /\ TakeNotification(r)
        \/ ClearDecoder /\ GiveUpNotification
  BY <1>2 DEF NotificationFragment
<1> HIDE DEF buf
<1>4. CASE bytes' = buf /\ UNCHANGED <<requestVars, workVars, excused>>
  BY <1>4 DEF buf
<1>5. CASE ClearDecoder /\ GiveUpNotification
  BY <1>5 DEF ClearDecoder, GiveUpNotification, Finish
<1>6. CASE outcome = "decoded" /\ bytes' = <<>> /\ TakeNotification(r)
  <2>1. "decoded" \in Parse(buf, ExpectNotification(processing))
    BY <1>3, <1>6
  <2>2. r.cmd = "notification" /\ r.uid = processing
    BY <2>1, DecodedAnswers DEF Answers, ExpectNotification
  <2>3. CASE processing \in canceled
    BY <1>6, <2>1, <2>2, <2>3 DEF TakeNotification, Finish, buf
  <2>4. CASE processing \notin canceled
    BY <1>6, <2>1, <2>2, <2>4 DEF TakeNotification, buf
  <2> QED
    BY <2>3, <2>4
<1> QED
  BY <1>3, <1>4, <1>5, <1>6

\* Every step keeps the attributes in hand those of the uid in hand.
LEMMA OwnAttributesNext ==
    TypeInv /\ RequestInv /\ OwnAttributes /\ [Next]_vars => OwnAttributes'
<1> SUFFICES ASSUME TypeInv, RequestInv, OwnAttributes, [Next]_vars
             PROVE  OwnAttributes'
  OBVIOUS
<1> USE DEF OwnAttributes
<1>1. CASE ProcessNext
  BY <1>1 DEF ProcessNext, workVars
<1>2. CASE NotificationFragment
  BY <1>2, NotificationOutcome DEF workVars, NotificationFragment
<1>3. CASE NotificationFails \/ Create \/ Replace \/ DeliveryFails
  BY <1>3 DEF NotificationFails, GiveUpNotification, Create, Replace, DeliveryFails, Finish
<1>4. CASE ResolveApp \/ AppFragment \/ AppFails
  BY <1>4 DEF ResolveApp, AppFragment, AppFails
<1>5. CASE UNCHANGED workVars
  BY <1>5 DEF workVars
<1> QED
  BY <1>1, <1>2, <1>3, <1>4, <1>5
     DEF Next, Phone, Engine, vars, engineVars, PhoneAdds, PhoneModifies, PhoneRemoves,
         PhoneAnswers, PhoneIgnores, SinkDies, ReceiveEvent, DiscardFragment, EndSession

\* process_next never delivers one uid's attributes as another's.
THEOREM OwnAttributesCorrect == Spec => []OwnAttributes
<1>1. Init => OwnAttributes
  BY DEF Init, OwnAttributes
<1> QED
  BY <1>1, OwnAttributesNext, TypeCorrect, RequestCorrect, PTL DEF Spec

\* Every step keeps each cached name that of its app: the decoder compares it.
LEMMA OwnNamesNext == TypeInv /\ RequestInv /\ OwnNames /\ [Next]_vars => OwnNames'
<1> SUFFICES ASSUME TypeInv, RequestInv, OwnNames, [Next]_vars
             PROVE  OwnNames'
  OBVIOUS
<1>1. CASE UNCHANGED appVars
  BY <1>1 DEF appVars, OwnNames, Cached
<1>2. CASE EndSession
  BY <1>2 DEF EndSession, ClearSession, OwnNames, Cached
<1>3. CASE AppFragment
  <2> DEFINE buf == Append(bytes, Head(ds))
             a == attributes.app
             r == Head(buf).response
  <2>1. expected = <<ExpectApp(a)>> /\ a \in App /\ a \notin Cached
    BY <1>3 DEF AppFragment, RequestInv, OneExpectation, TypeInv, TypeOK, Notification,
                FetchesUncached, Cached
  <2>2. Head(expected) = ExpectApp(a)
    BY <2>1
  <2>3. \/ UNCHANGED appVars
        \/ "decoded" \in Parse(buf, ExpectApp(a)) /\ RetainAppName(a, r.app)
    BY <1>3, <2>2 DEF AppFragment
  <2>4. CASE "decoded" \in Parse(buf, ExpectApp(a)) /\ RetainAppName(a, r.app)
    <3> HIDE DEF buf, a
    <3>1. r.app = a
      BY <2>4, DecodedAnswers DEF Answers, ExpectApp
    <3>2. RetainAppName(a, a)
      BY <2>4, <3>1
    <3>3. app_names \in [App -> App \cup {NoApp}]
      BY DEF TypeInv, TypeOK
    <3>4. PICK oldest :
            app_names' \in {[[app_names EXCEPT ![a] = a] EXCEPT ![oldest] = NoApp],
                            [app_names EXCEPT ![a] = a]}
      BY <3>2 DEF RetainAppName
    <3> QED
      BY <2>1, <3>3, <3>4 DEF OwnNames, Cached
  <2> QED
    BY <1>1, <2>3, <2>4
<1> QED
  BY <1>1, <1>2, <1>3, CacheFrame

-----------------------------------------------------------------------------
(* ShownUnderOwnUid and NoOrphans *)

\* Every handle shows its uid's text, and no two uids share one.
OwnHandles ==
    /\ \A u \in Mapped : desktop[handles[u]] # NoContent /\ desktop[handles[u]].uid = u
    /\ \A u, w \in Mapped : handles[u] = handles[w] => u = w

\* The steps that touch the handles or the desktop: Removed, delivery, the session's end.
LEMMA DesktopFrame ==
    ASSUME TypeInv, [Next]_vars, ~(ReceiveEvent \/ Create \/ Replace \/ EndSession)
    PROVE  /\ UNCHANGED <<handles, desktop>>
           /\ sink_alive' => sink_alive
<1>1. UNCHANGED <<handles, desktop>>
  BY DEF Next, Phone, Engine, vars, engineVars, handleVars, PhoneAdds, PhoneModifies,
         PhoneRemoves, PhoneAnswers, PhoneIgnores, SinkDies, DiscardFragment, ProcessNext,
         NotificationFragment, NotificationFails, ResolveApp, AppFragment, AppFails,
         DeliveryFails, afterDelivery
<1>2. sink_alive \in BOOLEAN /\ (sink_alive' = sink_alive \/ sink_alive' = FALSE)
  BY DEF TypeInv, TypeOK, Next, Phone, Engine, vars, engineVars, handleVars, PhoneAdds,
         PhoneModifies, PhoneRemoves, PhoneAnswers, PhoneIgnores, SinkDies, DiscardFragment, ProcessNext,
         NotificationFragment, NotificationFails, ResolveApp, AppFragment, AppFails,
         DeliveryFails, afterDelivery
<1> QED
  BY <1>1, <1>2

\* An event leaves handles and desktop alone, or closes the handle of one uid.
LEMMA IngestDesktop ==
    ASSUME TypeInv, NEW e \in Event, Ingest(e)
    PROVE  \/ UNCHANGED <<handles, desktop>>
           \/ /\ e.kind = "Removed" /\ e.uid \in Mapped
              /\ \A u \in UID : handles'[u] = IF u = e.uid THEN NoHandle ELSE handles[u]
              /\ \A id \in DesktopId : desktop'[id] =
                    IF sink_alive /\ id = handles[e.uid] THEN NoContent ELSE desktop[id]
<1>1. CASE UNCHANGED <<handleVars, desktop>>
  BY <1>1 DEF handleVars
<1>2. CASE IngestRemoved(e) /\ e.uid \in Mapped
  <2>1. /\ handles \in [UID -> DesktopId \cup {NoHandle}]
        /\ desktop \in [DesktopId -> Content \cup {NoContent}]
    BY DEF TypeInv, TypeOK
  <2> QED
    BY <1>2, <2>1 DEF IngestRemoved, AfterClose
<1> QED
  BY <1>1, <1>2 DEF Ingest, SkipPreExisting, IngestFresh, IngestRemoved

\* A create shows the text under a new id; beyond the bound it closes the handle of one
\* uid and records the loss.
LEMMA CreateDesktop ==
    ASSUME TypeInv, Create
    PROVE  \E id \in FreshIds : \E closed \in UID \cup {NoUid} :
              /\ sink_alive /\ processing \in UID /\ processing \notin Mapped
              /\ Delivered \in Content
              /\ \A u \in UID : handles'[u] =
                    IF u = closed THEN NoHandle
                    ELSE IF u = processing THEN id ELSE handles[u]
              /\ \A i \in DesktopId : desktop'[i] =
                    IF closed = processing /\ i = id THEN NoContent
                    ELSE IF closed \in Mapped /\ i = handles[closed] THEN NoContent
                    ELSE IF i = id THEN Delivered ELSE desktop[i]
              /\ excused \subseteq excused' /\ closed \in excused' \cup {NoUid}
<1>1. /\ sink_alive /\ processing \in UID /\ processing \notin Mapped
      /\ Delivered \in Content
      /\ handles \in [UID -> DesktopId \cup {NoHandle}] /\ handle_order \in Seq(UID)
      /\ desktop \in [DesktopId -> Content \cup {NoContent}]
  BY DEF Create, TypeInv, TypeOK, Delivered, Content, Notification
<1>2. PICK id \in FreshIds : RetainHandle(processing, id, [desktop EXCEPT ![id] = Delivered])
  BY DEF Create
<1>3. id \in DesktopId /\ id # NoHandle /\ \A u \in UID : handles[u] # id
  BY HandleAssumption DEF FreshIds
<1> DEFINE order == Append(handle_order, processing)
           mapped == [handles EXCEPT ![processing] = id]
           shown == [desktop EXCEPT ![id] = Delivered]
           oldest == Head(order)
<1>4. \/ /\ handles' = [mapped EXCEPT ![oldest] = NoHandle]
         /\ desktop' = [shown EXCEPT ![mapped[oldest]] = NoContent]
         /\ excused' = excused \cup {oldest}
      \/ handles' = mapped /\ desktop' = shown /\ excused' = excused
  BY <1>1, <1>2 DEF RetainHandle, AfterClose
<1>5. oldest \in UID
  <2>1. order \in Seq(UID) /\ order # <<>>
    BY <1>1, AppendType
  <2> HIDE DEF order
  <2> QED
    BY <2>1, TailElements
<1> HIDE DEF order, oldest
<1>6. CASE handles' = mapped /\ desktop' = shown /\ excused' = excused
  <2>1. NoUid \notin UID /\ NoUid \notin Mapped /\ processing # NoUid
    BY <1>1, UidAssumption DEF Mapped
  <2> WITNESS id \in FreshIds
  <2> WITNESS NoUid \in UID \cup {NoUid}
  <2> QED
    BY <1>1, <1>3, <1>6, <2>1
<1>7. CASE /\ handles' = [mapped EXCEPT ![oldest] = NoHandle]
           /\ desktop' = [shown EXCEPT ![mapped[oldest]] = NoContent]
           /\ excused' = excused \cup {oldest}
  <2> USE <1>5
  <2> WITNESS id \in FreshIds
  <2> WITNESS oldest \in UID \cup {NoUid}
  <2>1. mapped[oldest] = IF oldest = processing THEN id ELSE handles[oldest]
    BY <1>1, <1>5
  <2>2. oldest \in Mapped <=> handles[oldest] # NoHandle
    BY <1>5 DEF Mapped
  <2>3. \A u \in UID : handles'[u] =
            IF u = oldest THEN NoHandle ELSE IF u = processing THEN id ELSE handles[u]
    BY <1>1, <1>7
  <2>4. \A i \in DesktopId : desktop'[i] =
            IF i = mapped[oldest] THEN NoContent ELSE IF i = id THEN Delivered ELSE desktop[i]
    BY <1>1, <1>3, <1>7
  <2>5. \A i \in DesktopId : desktop'[i] =
            IF oldest = processing /\ i = id THEN NoContent
            ELSE IF oldest \in Mapped /\ i = handles[oldest] THEN NoContent
            ELSE IF i = id THEN Delivered ELSE desktop[i]
    BY <1>1, <2>1, <2>2, <2>4, HandleAssumption
  <2> HIDE DEF mapped, shown
  <2> QED
    BY <1>1, <1>7, <2>3, <2>5
<1> QED
  BY <1>4, <1>6, <1>7

\* A replace changes what the processed uid's handle shows, and nothing else.
LEMMA ReplaceDesktop ==
    ASSUME TypeInv, Replace
    PROVE  /\ processing \in Mapped /\ Delivered \in Content
           /\ handles' = handles /\ UNCHANGED excused
           /\ \A i \in DesktopId : desktop'[i] =
                 IF i = handles[processing] THEN Delivered ELSE desktop[i]
BY DEF Replace, handleVars, TypeInv, TypeOK, Delivered, Content, Notification

\* The session's end forgets every handle, and closes those the sink can close.
LEMMA EndDesktop ==
    ASSUME EndSession
    PROVE  /\ \A u \in UID : handles'[u] = NoHandle
           /\ sink_alive' = sink_alive
           /\ sink_alive => \A i \in DesktopId : desktop'[i] =
                 IF \E u \in UID : handles[u] = i THEN NoContent ELSE desktop[i]
BY DEF EndSession, ClearSession, CloseAll

\* Every step keeps each handle with its uid's text.
LEMMA OwnHandlesNext ==
    TypeInv /\ OwnAttributes /\ OwnHandles /\ [Next]_vars => OwnHandles'
<1> SUFFICES ASSUME TypeInv, OwnAttributes, OwnHandles, [Next]_vars
             PROVE  OwnHandles'
  OBVIOUS
<1>1. /\ \A u \in UID : handles[u] \in DesktopId \cup {NoHandle}
      /\ NoHandle \notin DesktopId /\ NoContent \notin Content
      /\ pc = "deliver" => Delivered.uid = processing
  BY HandleAssumption, ContentAssumption DEF TypeInv, TypeOK, Content, OwnAttributes, Delivered
<1>2. CASE ReceiveEvent
  <2>1. Head(ns) \in Event /\ Ingest(Head(ns))
    BY <1>2, TailElements DEF ReceiveEvent, TypeInv, TypeOK
  <2> QED
    BY <1>1, <2>1, IngestDesktop DEF OwnHandles, Mapped
<1>3. CASE Create
  <2>1. PICK id \in FreshIds, closed \in UID \cup {NoUid} :
              /\ processing \in UID /\ processing \notin Mapped
              /\ Delivered.uid = processing /\ Delivered \in Content
              /\ \A u \in UID : handles'[u] =
                    IF u = closed THEN NoHandle
                    ELSE IF u = processing THEN id ELSE handles[u]
              /\ \A i \in DesktopId : desktop'[i] =
                    IF closed = processing /\ i = id THEN NoContent
                    ELSE IF closed \in Mapped /\ i = handles[closed] THEN NoContent
                    ELSE IF i = id THEN Delivered ELSE desktop[i]
    BY <1>1, <1>3, CreateDesktop DEF Create
  <2>2. id \in DesktopId /\ \A u \in UID : handles[u] # id
    BY DEF FreshIds
  <2>3. \A u \in UID : u \in Mapped' =>
          /\ u # closed
          /\ \/ u = processing /\ handles'[u] = id
             \/ u # processing /\ u \in Mapped /\ handles'[u] = handles[u]
    BY <2>1, <2>2 DEF Mapped
  <2>4. \A u \in UID : u \in Mapped' =>
          desktop'[handles'[u]] # NoContent /\ desktop'[handles'[u]].uid = u
    <3> SUFFICES ASSUME NEW u \in UID, u \in Mapped'
                 PROVE  desktop'[handles'[u]] # NoContent /\ desktop'[handles'[u]].uid = u
      OBVIOUS
    <3>1. CASE u = processing
      <4>1. u # closed /\ handles'[u] = id
        BY <2>3, <3>1
      <4>2. desktop'[id] = Delivered
        BY <2>1, <2>2, <3>1, <4>1 DEF Mapped
      <4> QED
        BY <1>1, <2>1, <3>1, <4>1, <4>2
    <3>2. CASE u # processing
      <4>1. u # closed /\ u \in Mapped /\ handles'[u] = handles[u]
        BY <2>3, <3>2
      <4>2. handles[u] \in DesktopId /\ handles[u] # id
        BY <1>1, <2>2, <4>1 DEF Mapped
      <4>3. closed \in Mapped => handles[closed] # handles[u]
        BY <4>1 DEF OwnHandles
      <4>4. desktop'[handles[u]] = desktop[handles[u]]
        BY <2>1, <4>2, <4>3
      <4> QED
        BY <4>1, <4>4 DEF OwnHandles
    <3> QED
      BY <3>1, <3>2
  <2>5. \A u, w \in UID : u \in Mapped' /\ w \in Mapped' /\ handles'[u] = handles'[w] => u = w
    BY <2>2, <2>3 DEF OwnHandles
  <2> QED
    BY <2>4, <2>5 DEF OwnHandles, Mapped
<1>4. CASE Replace
  <2>1. Delivered.uid = processing
    BY <1>1, <1>4 DEF Replace
  <2> QED
    BY <1>1, <1>4, <2>1, ReplaceDesktop DEF OwnHandles, Mapped
<1>5. CASE EndSession
  BY <1>5, EndDesktop DEF OwnHandles, Mapped
<1>6. CASE UNCHANGED <<handles, desktop>>
  BY <1>6 DEF OwnHandles, Mapped
<1> QED
  BY <1>2, <1>3, <1>4, <1>5, <1>6, DesktopFrame

\* "Each ANCS UID maps to one Freedesktop notification handle": the decoder, the cache
\* and the handles never mix up two uids or two apps, whatever arrives late.
THEOREM OwnUidCorrect == Spec => []ShownUnderOwnUid
<1>1. Init => OwnHandles /\ OwnNames
  BY DEF Init, OwnHandles, OwnNames, Mapped, Cached
<1>2. OwnHandles /\ OwnNames => ShownUnderOwnUid
  BY DEF OwnHandles, OwnNames, ShownUnderOwnUid
<1> QED
  BY <1>1, <1>2, OwnHandlesNext, OwnNamesNext, TypeCorrect, RequestCorrect,
     OwnAttributesCorrect, PTL DEF Spec

\* Every step leaves what is shown with somebody who can close it.
LEMMA NoOrphansNext ==
    TypeInv /\ NoOrphans /\ [Next]_vars => NoOrphans'
<1> SUFFICES ASSUME TypeInv, NoOrphans, [Next]_vars, sink_alive',
                    NEW i \in DesktopId, desktop'[i] # NoContent
             PROVE  \E u \in UID : handles'[u] = i
  BY DEF NoOrphans
<1>0. NoHandle \notin DesktopId
  BY HandleAssumption
<1>1. CASE ReceiveEvent
  <2>1. Head(ns) \in Event /\ Ingest(Head(ns)) /\ sink_alive
    BY <1>1, TailElements DEF ReceiveEvent, TypeInv, TypeOK
  <2> QED
    BY <2>1, IngestDesktop DEF NoOrphans
<1>2. CASE Create
  BY <1>0, <1>2, CreateDesktop DEF NoOrphans, Mapped
<1>3. CASE Replace
  <2>1. sink_alive
    BY <1>3 DEF Replace
  <2>2. handles[processing] = i => \E u \in UID : handles[u] = i
    BY <1>3, ReplaceDesktop DEF Mapped
  <2> QED
    BY <1>3, <2>1, <2>2, ReplaceDesktop DEF NoOrphans
<1>4. CASE EndSession
  BY <1>4, EndDesktop DEF NoOrphans
<1>5. CASE UNCHANGED <<handles, desktop>> /\ sink_alive
  BY <1>5 DEF NoOrphans
<1> QED
  BY <1>1, <1>2, <1>3, <1>4, <1>5, DesktopFrame

\* While the sink works, nothing stays on the screen that the engine cannot close.
THEOREM NoOrphansCorrect == Spec => []NoOrphans
<1>1. Init => NoOrphans
  BY DEF Init, NoOrphans
<1> QED
  BY <1>1, NoOrphansNext, TypeCorrect, PTL DEF Spec

-----------------------------------------------------------------------------
(* MirrorsPhone: the answers on their way *)

\* The fragments the decoder holds and those it will read, in this order.
Stream == bytes \o ds

\* q is the request for u's attributes, or the response to one.
IsFor(q, u) == q.cmd = "notification" /\ q.uid = u

Asked(u) == {i \in DOMAIN requests : IsFor(requests[i], u)}
Told(u) == {i \in DOMAIN Stream : IsFor(Stream[i].response, u)}
Awaits(u) == pc = "notification" /\ processing = u

\* Requests for u and answers to them exist only while the engine waits for one, and
\* then it is one request, or one response that was not read past yet.
OneAnswer(u) ==
    /\ ~Awaits(u) => Asked(u) = {} /\ Told(u) = {}
    /\ \A i, j \in Asked(u) : i = j
    /\ Asked(u) # {} => Told(u) = {}
    /\ \A i \in Told(u) : Stream[i].part \in 1..Stream[i].of
    /\ \A i, j \in Told(u) : Stream[i].of = Stream[j].of
    /\ \A i, j \in Told(u) : Stream[i].part = Stream[j].part => i = j

\* The engine has, or will have, an event of u to work off.
Announced(u) == Coming(u) \/ u \in Pending

\* An answer on its way carries u's text, unless a later event is announced.
CurrentAnswer(u) ==
    u \in present /\ ~Announced(u) =>
        \A i \in Told(u) : Stream[i].response.version = version[u]

\* u's current text is about to be delivered.
InHand(u) ==
    /\ pc \in {"resolve", "app", "deliver"}
    /\ processing = u
    /\ attributes.version = version[u]

\* While the sink works, u is on its way to the desktop or there already.
Followed(u) ==
    u \in present /\ sink_alive =>
        \/ Announced(u) \/ Awaits(u) \/ InHand(u)
        \/ processing # u /\ UpToDate(u)

Answering == \A u \in UID \ excused : OneAnswer(u) /\ CurrentAnswer(u)
Following == \A u \in UID \ excused : Followed(u)

\* The elements of two queues, one after the other.
LEMMA ConcatElements ==
    ASSUME NEW S, NEW s \in Seq(S), NEW t \in Seq(S)
    PROVE  /\ s \o t \in Seq(S) /\ Len(s) \in Nat /\ Len(t) \in Nat
           /\ DOMAIN s = 1..Len(s) /\ DOMAIN t = 1..Len(t)
           /\ DOMAIN (s \o t) = 1..(Len(s) + Len(t))
           /\ \A i \in 1..Len(s) : (s \o t)[i] = s[i]
           /\ \A i \in 1..Len(t) : (s \o t)[Len(s) + i] = t[i]
OBVIOUS

\* The stream is one of fragments.
LEMMA StreamType ==
    ASSUME TypeInv
    PROVE  Stream \in Seq(Fragment) /\ \A i \in DOMAIN Stream : Stream[i] \in Fragment
<1>1. Stream \in Seq(Fragment)
  BY ConcatElements DEF Stream, TypeInv, TypeOK
<1> QED
  BY <1>1

\* A fragment that is read into the buffer stays where it is in the stream.
LEMMA StreamKept ==
    ASSUME TypeInv, ds # <<>>, bytes' = Append(bytes, Head(ds)), ds' = Tail(ds)
    PROVE  DOMAIN Stream' = DOMAIN Stream /\ \A i \in DOMAIN Stream : Stream'[i] = Stream[i]
<1> DEFINE m == Len(bytes)
           k == Len(ds)
<1>1. bytes \in Seq(Fragment) /\ ds \in Seq(Fragment)
  BY DEF TypeInv, TypeOK
<1>2. /\ m \in Nat /\ k \in Nat \ {0} /\ DOMAIN Stream = 1..(m + k)
      /\ \A i \in 1..m : Stream[i] = bytes[i]
      /\ \A i \in 1..k : Stream[m + i] = ds[i]
  BY <1>1, ConcatElements, TailElements DEF Stream
<1>3. /\ bytes' \in Seq(Fragment) /\ Len(bytes') = m + 1
      /\ \A i \in 1..m : bytes'[i] = bytes[i]
      /\ bytes'[m + 1] = ds[1]
  <2>1. Head(ds) \in Fragment /\ Head(ds) = ds[1]
    BY <1>1, TailElements
  <2>2. Len(Append(bytes, Head(ds))) = m + 1
    BY <1>1, <2>1
  <2> QED
    BY <1>1, <2>1, <2>2, AppendElements
<1>4. /\ ds' \in Seq(Fragment) /\ Len(ds') = k - 1
      /\ \A i \in 1..(k - 1) : ds'[i] = ds[i + 1]
  BY <1>1, TailElements
<1>5. /\ DOMAIN Stream' = 1..((m + 1) + (k - 1))
      /\ \A i \in 1..(m + 1) : Stream'[i] = bytes'[i]
      /\ \A i \in 1..(k - 1) : Stream'[(m + 1) + i] = ds'[i]
  BY <1>3, <1>4, ConcatElements DEF Stream
<1> HIDE DEF m, k
<1>6. DOMAIN Stream' = DOMAIN Stream
  BY <1>2, <1>5
<1>7. ASSUME NEW i \in 1..(m + k)
      PROVE  Stream'[i] = Stream[i]
  <2>1. CASE i <= m
    BY <1>2, <1>3, <1>5, <2>1
  <2>2. CASE i = m + 1
    BY <1>2, <1>3, <1>5, <2>2
  <2>3. CASE i > m + 1
    <3>1. /\ i - (m + 1) \in 1..(k - 1) /\ i - m \in 1..k
          /\ i = (m + 1) + (i - (m + 1)) /\ i = m + (i - m)
      BY <1>2, <2>3
    <3>2. Stream'[i] = ds'[i - (m + 1)]
      BY <1>5, <3>1
    <3>3. Stream[i] = ds[i - m]
      BY <1>2, <3>1
    <3>4. ds'[i - (m + 1)] = ds[(i - (m + 1)) + 1] /\ (i - (m + 1)) + 1 = i - m
      BY <1>2, <1>4, <3>1
    <3> QED
      BY <3>2, <3>3, <3>4
  <2> QED
    BY <1>2, <2>1, <2>2, <2>3
<1> QED
  BY <1>2, <1>6, <1>7

\* The buffer can be cleared and a fragment dropped: nothing new is in the stream, and
\* if both happen, what is left was not read yet.
LEMMA StreamFewer ==
    ASSUME TypeInv, bytes' \in {bytes, <<>>}, ds' = ds \/ (ds # <<>> /\ ds' = Tail(ds))
    PROVE  \A i \in DOMAIN Stream' : \E j \in DOMAIN Stream :
              /\ Stream'[i] = Stream[j]
              /\ bytes' = <<>> /\ ds' # ds => j > Len(bytes) + 1
<1> DEFINE m == Len(bytes)
           k == Len(ds)
           m1 == Len(bytes')
           k1 == Len(ds')
<1>1. bytes \in Seq(Fragment) /\ ds \in Seq(Fragment)
  BY DEF TypeInv, TypeOK
<1>2. /\ m \in Nat /\ k \in Nat /\ DOMAIN Stream = 1..(m + k)
      /\ \A i \in 1..m : Stream[i] = bytes[i]
      /\ \A i \in 1..k : Stream[m + i] = ds[i]
  BY <1>1, ConcatElements DEF Stream
<1>3. \/ bytes' = bytes /\ m1 = m
      \/ bytes' = <<>> /\ m1 = 0
  OBVIOUS
<1>4. \/ ds' = ds /\ k1 = k
      \/ ds' = Tail(ds) /\ k1 = k - 1 /\ k > 0 /\ \A i \in 1..k1 : ds'[i] = ds[i + 1]
  BY <1>1, TailElements
<1>5. /\ bytes' \in Seq(Fragment) /\ ds' \in Seq(Fragment)
  BY <1>1, EmptyType, TailElements
<1>6. /\ m1 \in Nat /\ k1 \in Nat /\ DOMAIN Stream' = 1..(m1 + k1)
      /\ \A i \in 1..m1 : Stream'[i] = bytes'[i]
      /\ \A i \in 1..k1 : Stream'[m1 + i] = ds'[i]
  BY <1>5, ConcatElements DEF Stream
<1> HIDE DEF m, k, m1, k1
<1> SUFFICES ASSUME NEW i \in 1..(m1 + k1)
             PROVE  \E j \in 1..(m + k) :
                       /\ Stream'[i] = Stream[j]
                       /\ bytes' = <<>> /\ ds' # ds => j > m + 1
  BY <1>2, <1>6 DEF m
<1>7. CASE i <= m1
  <2>1. i \in 1..m /\ Stream'[i] = Stream[i] /\ bytes' = bytes /\ bytes' # <<>>
    <3>1. i \in 1..m1 /\ bytes' = bytes /\ m1 = m
      BY <1>2, <1>3, <1>6, <1>7
    <3>2. bytes' # <<>>
      BY <1>6, <3>1 DEF m1
    <3> QED
      BY <1>2, <1>6, <3>1, <3>2
  <2> QED
    BY <1>2, <2>1
<1>8. CASE i > m1
  <2> DEFINE h == i - m1
  <2>1. h \in 1..k1 /\ i = m1 + h
    BY <1>6, <1>8
  <2> HIDE DEF h
  <2>2. Stream'[i] = ds'[h]
    BY <1>6, <2>1
  <2>3. CASE ds' = ds /\ k1 = k
    <3>1. m + h \in 1..(m + k) /\ Stream[m + h] = ds[h]
      BY <1>2, <2>1, <2>3
    <3> QED
      BY <2>2, <2>3, <3>1
  <2>4. CASE k1 = k - 1 /\ k > 0 /\ \A l \in 1..k1 : ds'[l] = ds[l + 1]
    <3>1. /\ h + 1 \in 1..k /\ m + (h + 1) \in 1..(m + k) /\ m + (h + 1) > m + 1
          /\ Stream[m + (h + 1)] = ds[h + 1] /\ ds'[h] = ds[h + 1]
      BY <1>2, <2>1, <2>4
    <3> QED
      BY <2>2, <3>1
  <2> QED
    BY <1>4, <2>3, <2>4
<1> QED
  BY <1>6, <1>7, <1>8

\* A response is appended to the stream, part by part.
LEMMA StreamAnswered ==
    ASSUME TypeInv, NEW r \in Response, NEW n \in 1..MaxFragments,
           bytes' = bytes, ds' = ds \o Fragments(r, n)
    PROVE  /\ Len(Stream) \in Nat /\ DOMAIN Stream = 1..Len(Stream)
           /\ DOMAIN Stream' = 1..(Len(Stream) + n)
           /\ \A i \in DOMAIN Stream : Stream'[i] = Stream[i]
           /\ \A i \in 1..n :
                 Stream'[Len(Stream) + i] = [response |-> r, part |-> i, of |-> n]
<1> DEFINE f == Fragments(r, n)
           m == Len(bytes)
           k == Len(ds)
<1>1. bytes \in Seq(Fragment) /\ ds \in Seq(Fragment) /\ n \in Nat
  BY BoundAssumption DEF TypeInv, TypeOK
<1>2. /\ f \in Seq(Fragment) /\ Len(f) = n
      /\ \A i \in 1..n : f[i] = [response |-> r, part |-> i, of |-> n]
  <2>1. \A i \in 1..n : [response |-> r, part |-> i, of |-> n] \in Fragment
    BY <1>1 DEF Fragment
  <2>2. f \in [1..n -> Fragment]
    BY <1>1, <2>1 DEF Fragments
  <2>3. f \in Seq(Fragment) /\ Len(f) = n
    BY <1>1, <2>2
  <2> QED
    BY <2>3 DEF Fragments
<1>3. /\ m \in Nat /\ k \in Nat /\ DOMAIN Stream = 1..(m + k) /\ Len(Stream) = m + k
      /\ \A i \in 1..m : Stream[i] = bytes[i]
      /\ \A i \in 1..k : Stream[m + i] = ds[i]
  BY <1>1, ConcatElements DEF Stream
<1>4. /\ ds' \in Seq(Fragment) /\ Len(ds') = k + n
      /\ \A i \in 1..k : ds'[i] = ds[i]
      /\ \A i \in 1..n : ds'[k + i] = f[i]
  BY <1>1, <1>2, ConcatElements
<1>5. /\ DOMAIN Stream' = 1..(m + (k + n))
      /\ \A i \in 1..m : Stream'[i] = bytes[i]
      /\ \A i \in 1..(k + n) : Stream'[m + i] = ds'[i]
  <2>1. bytes' \in Seq(Fragment) /\ Len(bytes') = m
    BY <1>1
  <2>2. Stream' = bytes' \o ds'
    BY DEF Stream
  <2>3. /\ DOMAIN (bytes' \o ds') = 1..(Len(bytes') + Len(ds'))
        /\ \A i \in 1..Len(bytes') : (bytes' \o ds')[i] = bytes'[i]
        /\ \A i \in 1..Len(ds') : (bytes' \o ds')[Len(bytes') + i] = ds'[i]
    <3>1. bytes' \in Seq(Fragment) /\ ds' \in Seq(Fragment)
      BY <1>4, <2>1
    <3> QED
      BY <3>1, ConcatElements
  <2>4. Len(bytes') = m /\ Len(ds') = k + n /\ bytes' = bytes
    BY <1>4, <2>1
  <2> HIDE DEF m, k
  <2> QED
    BY <2>2, <2>3, <2>4
<1> HIDE DEF f, m, k
<1>6. \A i \in 1..(m + k) : Stream'[i] = Stream[i]
  <2> SUFFICES ASSUME NEW i \in 1..(m + k) PROVE Stream'[i] = Stream[i]
    OBVIOUS
  <2>1. CASE i <= m
    BY <1>3, <1>5, <2>1
  <2>2. CASE i > m
    <3> DEFINE h == i - m
    <3>1. h \in 1..k /\ h \in 1..(k + n) /\ i = m + h
      BY <1>1, <1>3, <2>2
    <3> HIDE DEF h
    <3>2. Stream[m + h] = ds[h] /\ ds'[h] = ds[h]
      BY <1>3, <1>4, <3>1
    <3>3. Stream'[m + h] = ds'[h]
      BY <1>5, <3>1
    <3> QED
      BY <3>1, <3>2, <3>3
  <2> QED
    BY <1>3, <2>1, <2>2
<1>7. \A i \in 1..n : Stream'[(m + k) + i] = f[i]
  <2> SUFFICES ASSUME NEW i \in 1..n PROVE Stream'[(m + k) + i] = f[i]
    OBVIOUS
  <2>1. k + i \in 1..(k + n) /\ (m + k) + i = m + (k + i)
    BY <1>1, <1>3
  <2> QED
    BY <1>4, <1>5, <2>1
<1> QED
  BY <1>1, <1>2, <1>3, <1>5, <1>6, <1>7

\* Within a session a recorded loss stays recorded.
LEMMA ExcusedGrows ==
    ASSUME TypeInv, [Next]_vars, ~EndSession
    PROVE  excused \subseteq excused'
<1>1. CASE ReceiveEvent
  <2>1. Head(ns) \in Event /\ Ingest(Head(ns))
    BY <1>1, TailElements DEF ReceiveEvent, TypeInv, TypeOK
  <2> QED
    BY <2>1, IngestEffect
<1>2. CASE Create
  BY <1>2, CreateDesktop
<1>3. CASE NotificationFragment
  BY <1>3 DEF NotificationFragment, TakeNotification, GiveUpNotification
<1> QED
  BY <1>1, <1>2, <1>3
     DEF Next, Phone, Engine, vars, PhoneAdds, PhoneModifies, PhoneRemoves, PhoneAnswers,
         PhoneIgnores, SinkDies, DiscardFragment, ProcessNext, NotificationFails,
         GiveUpNotification, ResolveApp, AppFragment, AppFails, Replace, DeliveryFails,
         afterDelivery

\* A uid on the phone without a recorded loss: its text changes only with an event, and
\* what is announced stays so until process_next takes it up.
LEMMA NewsNext ==
    ASSUME TypeInv, QueuesAgree, Notices, OwnAttributes, [Next]_vars, ~EndSession,
           NEW u \in UID, u \in present', u \notin excused', ~Announced(u)'
    PROVE  /\ u \in present /\ u \notin excused /\ version'[u] = version[u]
           /\ Announced(u) => ProcessNext /\ Awaits(u)'
<1>1. u \notin excused
  BY ExcusedGrows
<1>2. ASSUME NEW w \in UID, NEW e \in Event, e.uid = w, ns' = Append(ns, e),
             version' = version \/ version' = [version EXCEPT ![w] = @ + 1]
                               \/ version' = [version EXCEPT ![w] = 1],
             present' \subseteq present \cup {w}, Pending' = Pending
      PROVE  u \in present /\ version'[u] = version[u] /\ ~Announced(u)
  <2> DEFINE n == Len(ns)
  <2>1. /\ n \in Nat /\ DOMAIN ns = 1..n /\ DOMAIN ns' = 1..(n + 1)
        /\ \A i \in 1..n : ns'[i] = ns[i]
        /\ ns'[n + 1] = e
    BY <1>2, NoticeTypes, AppendElements
  <2> HIDE DEF n
  <2>2. u # w
    BY <1>2, <2>1 DEF Announced, Coming
  <2>3. ~Announced(u)
    BY <1>2, <2>1 DEF Announced, Coming
  <2> QED
    BY <1>2, <2>2, <2>3, NoticeTypes
<1>3. CASE \E w \in UID : PhoneAdds(w) \/ PhoneModifies(w) \/ PhoneRemoves(w)
  <2>1. PICK w \in UID : PhoneAdds(w) \/ PhoneModifies(w) \/ PhoneRemoves(w)
    BY <1>3
  <2>2. \A kind \in {"Added", "Modified", "Removed"} : \A old \in BOOLEAN :
          [kind |-> kind, uid |-> w, preExisting |-> old] \in Event
    BY DEF Event
  <2>3. PICK e \in Event : e.uid = w /\ ns' = Append(ns, e)
    BY <2>1, <2>2 DEF PhoneAdds, PhoneModifies, PhoneRemoves
  <2>4. /\ present' \subseteq present \cup {w} /\ Pending' = Pending
        /\ version' = version \/ version' = [version EXCEPT ![w] = @ + 1]
                              \/ version' = [version EXCEPT ![w] = 1]
    BY <2>1 DEF PhoneAdds, PhoneModifies, PhoneRemoves, engineVars, queueVars, Pending
  <2> QED
    BY <1>1, <1>2, <2>3, <2>4
<1>4. CASE ReceiveEvent
  <2> DEFINE e == Head(ns)
             n == Len(ns)
  <2>1. ns # <<>> /\ Ingest(e) /\ ns' = Tail(ns) /\ UNCHANGED <<version, present, outstanding>>
    BY <1>4 DEF ReceiveEvent, phoneVars
  <2>2. /\ e = ns[1] /\ e \in Event /\ e.uid \in UID
        /\ n \in Nat \ {0} /\ DOMAIN ns = 1..n /\ DOMAIN ns' = 1..(n - 1)
        /\ \A i \in 1..(n - 1) : ns'[i] = ns[i + 1]
    BY <2>1, NoticeTypes, TailElements
  <2> HIDE DEF e, n
  <2>3. \A i \in 1..n : ns[i].uid = u => i = 1
    <3> SUFFICES ASSUME NEW i \in 1..n, ns[i].uid = u, i # 1 PROVE FALSE
      OBVIOUS
    <3>1. i - 1 \in 1..(n - 1) /\ ns'[i - 1] = ns[i]
      BY <2>2
    <3> QED
      BY <2>2, <3>1 DEF Announced, Coming
  <2>4. CASE e.uid = u
    <3>1. e.kind # "Removed"
      BY <2>1, <2>2, <2>4 DEF Notices, Truthful
    <3>2. e.kind = "Added" => outstanding # u
      BY <2>2, <2>4 DEF Notices, AddedFirst
    <3>3. u \in Pending' \cup excused'
      BY <2>1, <2>2, <2>4, <3>1, <3>2, IngestEffect
    <3> QED
      BY <3>3 DEF Announced
  <2>5. CASE e.uid # u
    <3>1. ~Coming(u)
      BY <2>2, <2>3, <2>5 DEF Coming
    <3>2. u \in Pending => u \in Pending'
      BY <2>1, <2>2, <2>5, IngestEffect
    <3> QED
      BY <1>1, <2>1, <3>1, <3>2 DEF Announced
  <2> QED
    BY <2>4, <2>5
<1>5. CASE UNCHANGED <<version, present, ns>> /\ ProcessNext
  <2> DEFINE w == Head(pending_order)
  <2>1. w \in UID
    BY <1>5, TailElements DEF ProcessNext, TypeInv, TypeOK
  <2>2. Pending' = Pending \ {w}
    BY <1>5, <2>1, PendingWithout DEF ProcessNext
  <2>3. \/ pc' = "notification" /\ processing' = w
        \/ excused' = excused \cup {w}
    BY <1>5 DEF ProcessNext
  <2> HIDE DEF w
  <2> QED
    BY <1>1, <1>5, <2>1, <2>2, <2>3 DEF Announced, Coming, Awaits
<1>6. CASE UNCHANGED <<version, present, ns>> /\ Pending' = Pending
  BY <1>1, <1>6 DEF Announced, Coming
<1>7. CASE UNCHANGED <<version, present, ns>> /\ ~ProcessNext /\ ~ReceiveEvent
  <2>1. Pending' = Pending
    BY <1>7, RequestFrame, RequestAnswered DEF RequestSteps, Pending, queueVars
  <2> QED
    BY <1>6, <1>7, <2>1
<1> QED
  BY <1>3, <1>4, <1>5, <1>7, EventFrame

\* Only an answer of the phone puts something into the stream.
LEMMA StreamNext ==
    ASSUME TypeInv, RequestInv, [Next]_vars, ~PhoneAnswers, ~EndSession
    PROVE  \A i \in DOMAIN Stream' : \E j \in DOMAIN Stream : Stream'[i] = Stream[j]
<1>1. CASE /\ bytes' \in {bytes, <<>>}
           /\ ds' = ds \/ (ds # <<>> /\ ds' = Tail(ds))
  BY <1>1, StreamFewer
<1>2. CASE bytes' = Append(bytes, Head(ds)) /\ ds # <<>> /\ ds' = Tail(ds)
  BY <1>2, StreamKept
<1>3. CASE NotificationFragment
  BY <1>1, <1>2, <1>3, NotificationOutcome DEF NotificationFragment
<1>4. CASE AppFragment
  BY <1>1, <1>2, <1>4 DEF AppFragment, ClearDecoder
<1>5. CASE DiscardFragment
  BY <1>1, <1>5 DEF DiscardFragment, engineVars, decoderVars
<1>6. CASE ProcessNext \/ ResolveApp \/ NotificationFails \/ AppFails
  BY <1>1, <1>6 DEF ProcessNext, ResolveApp, NotificationFails, AppFails, ClearDecoder,
                    decoderVars
<1>7. CASE UNCHANGED <<bytes, ds>>
  BY <1>1, <1>7
<1> QED
  BY <1>3, <1>4, <1>5, <1>6, <1>7
     DEF Next, Phone, Engine, vars, engineVars, decoderVars, PhoneAdds, PhoneModifies,
         PhoneRemoves, PhoneIgnores, SinkDies, ReceiveEvent, Create, Replace, DeliveryFails,
         afterDelivery

\* When u's response is decoded, all of it was read: none is left in the stream.
LEMMA DecodedConsumes ==
    ASSUME TypeInv, NEW u \in UID, OneAnswer(u), ds # <<>>,
           "decoded" \in Parse(Append(bytes, Head(ds)), ExpectNotification(u)),
           bytes' = <<>>, ds' = Tail(ds)
    PROVE  /\ Told(u)' = {} /\ Asked(u) = {}
           /\ 1 \in Told(u) /\ Stream[1] = Head(Append(bytes, Head(ds)))
<1> DEFINE buf == Append(bytes, Head(ds))
           m == Len(bytes)
           n == buf[1].of
<1>1. /\ bytes \in Seq(Fragment) /\ ds \in Seq(Fragment)
      /\ Head(ds) \in Fragment /\ Head(ds) = ds[1] /\ Len(ds) \in Nat \ {0}
  BY TailElements DEF TypeInv, TypeOK
<1>2. /\ m \in Nat /\ buf \in Seq(Fragment) /\ Len(buf) = m + 1 /\ Head(buf) = buf[1]
      /\ \A i \in 1..m : buf[i] = bytes[i]
      /\ buf[m + 1] = ds[1]
  <2>1. Len(buf) = m + 1 /\ buf \in Seq(Fragment)
    BY <1>1
  <2>2. Head(buf) = buf[1]
    OBVIOUS
  <2> QED
    BY <1>1, <2>1, <2>2, AppendElements
<1>3. /\ DOMAIN Stream = 1..(m + Len(ds))
      /\ \A i \in 1..m : Stream[i] = bytes[i]
      /\ \A i \in 1..Len(ds) : Stream[m + i] = ds[i]
  BY <1>1, ConcatElements DEF Stream
<1>4. /\ Head(buf).part = 1 /\ Answers(Head(buf).response, ExpectNotification(u))
      /\ StartsWithResponse(buf)
  BY DecodedAnswers
<1> HIDE DEF buf, m
<1>5. \A i \in 1..(m + 1) : i \in DOMAIN Stream /\ Stream[i] = buf[i]
  <2> SUFFICES ASSUME NEW i \in 1..(m + 1) PROVE i \in DOMAIN Stream /\ Stream[i] = buf[i]
    OBVIOUS
  <2>1. CASE i <= m
    BY <1>1, <1>2, <1>3, <2>1
  <2>2. CASE i = m + 1
    <3>1. 1 \in 1..Len(ds)
      BY <1>1
    <3> QED
      BY <1>1, <1>2, <1>3, <2>2, <3>1
  <2> QED
    BY <1>2, <2>1, <2>2
<1>6. /\ n <= m + 1 /\ n \in Nat
      /\ \A i \in 1..n : buf[i].part = i /\ buf[i].response = buf[1].response
      /\ IsFor(buf[1].response, u) /\ buf[1].part = 1
  <2>1. buf[1] \in Fragment
    BY <1>2
  <2>2. n \in Nat
    BY <2>1 DEF Fragment
  <2> QED
    BY <1>2, <1>4, <2>2 DEF StartsWithResponse, Answers, ExpectNotification, IsFor
<1> HIDE DEF n
<1>7. \A i \in 1..n : i \in Told(u) /\ Stream[i].part = i
  <2> SUFFICES ASSUME NEW i \in 1..n PROVE i \in Told(u) /\ Stream[i].part = i
    OBVIOUS
  <2>1. i \in 1..(m + 1)
    BY <1>2, <1>6
  <2> QED
    BY <1>5, <1>6, <2>1 DEF Told
<1>8. 1 \in Told(u) /\ Stream[1] = buf[1] /\ Stream[1].of = n
  <2>1. 1 \in 1..(m + 1)
    BY <1>2
  <2> QED
    BY <1>5, <1>6, <2>1 DEF Told, n
<1>9. Told(u)' = {}
  <2> SUFFICES ASSUME NEW i \in Told(u)' PROVE FALSE
    OBVIOUS
  <2>1. i \in DOMAIN Stream' /\ IsFor(Stream'[i].response, u)
    BY DEF Told
  <2>2. ds' # ds
    <3> SUFFICES ASSUME Tail(ds) = ds PROVE FALSE
      OBVIOUS
    <3>1. DOMAIN Tail(ds) = 1..(Len(ds) - 1) /\ DOMAIN ds = 1..Len(ds)
      BY <1>1, TailElements
    <3>2. Len(ds) \in 1..(Len(ds) - 1)
      BY <1>1, <3>1
    <3> QED
      BY <1>1, <3>2
  <2>3. PICK j \in DOMAIN Stream : Stream'[i] = Stream[j] /\ j > m + 1
    BY <2>1, <2>2, StreamFewer DEF m
  <2>4. j \in Told(u)
    BY <2>1, <2>3 DEF Told
  <2> DEFINE part == Stream[j].part
  <2>5. part \in 1..n
    BY <1>8, <2>4 DEF OneAnswer
  <2> HIDE DEF part
  <2>6. part \in Told(u) /\ Stream[part].part = part
    BY <1>7, <2>5
  <2>7. j = part
    BY <2>4, <2>6 DEF OneAnswer, part
  <2> QED
    BY <1>2, <1>6, <2>3, <2>5, <2>7
<1> QED
  BY <1>2, <1>8, <1>9 DEF OneAnswer, buf

\* The requests after the oldest was answered or ignored, and after another was written.
LEMMA AskedNext ==
    ASSUME TypeInv, NEW u \in UID
    PROVE  /\ requests' = requests => Asked(u)' = Asked(u)
           /\ requests # <<>> /\ requests' = Tail(requests) =>
                 \A i \in Asked(u)' : i \in Nat \ {0} /\ i + 1 \in Asked(u)
           /\ \A q \in Expectation : requests' = Append(requests, q) =>
                 Asked(u)' \subseteq Asked(u) \cup (IF IsFor(q, u) THEN {Len(requests) + 1} ELSE {})
<1>0. requests \in Seq(Expectation)
  BY DEF TypeInv, TypeOK
<1>1. requests' = requests => Asked(u)' = Asked(u)
  BY DEF Asked
<1>2. ASSUME requests # <<>>, requests' = Tail(requests)
      PROVE  \A i \in Asked(u)' : i \in Nat \ {0} /\ i + 1 \in Asked(u)
  <2> DEFINE n == Len(requests)
  <2>1. /\ n \in Nat \ {0} /\ DOMAIN requests = 1..n /\ DOMAIN requests' = 1..(n - 1)
        /\ \A i \in 1..(n - 1) : requests'[i] = requests[i + 1]
    BY <1>0, <1>2, TailElements
  <2> HIDE DEF n
  <2> QED
    BY <2>1 DEF Asked
<1>3. ASSUME NEW q \in Expectation, requests' = Append(requests, q)
      PROVE  Asked(u)' \subseteq Asked(u) \cup (IF IsFor(q, u) THEN {Len(requests) + 1} ELSE {})
  <2> DEFINE n == Len(requests)
  <2>1. /\ n \in Nat /\ DOMAIN requests = 1..n /\ DOMAIN requests' = 1..(n + 1)
        /\ \A i \in 1..n : requests'[i] = requests[i]
        /\ requests'[n + 1] = q
    BY <1>0, <1>3, AppendElements
  <2> HIDE DEF n
  <2> SUFFICES Asked(u)' \subseteq Asked(u) \cup (IF IsFor(q, u) THEN {n + 1} ELSE {})
    BY DEF n
  <2> QED
    BY <2>1 DEF Asked
<1> QED
  BY <1>1, <1>2, <1>3

\* A step that leaves or shrinks the stream keeps it empty of answers to u.
LEMMA ToldNothing ==
    ASSUME TypeInv, RequestInv, [Next]_vars, ~PhoneAnswers, ~EndSession,
           NEW u \in UID, Told(u) = {}
    PROVE  Told(u)' = {}
BY StreamNext DEF Told

\* The phone answers: the one request for u turns into one response with u's text.
LEMMA AnswersAnswer ==
    ASSUME TypeInv, PhoneAnswers, NEW u \in UID, OneAnswer(u)
    PROVE  /\ OneAnswer(u)'
           /\ \A i \in Told(u)' :
                 \/ i \in Told(u) /\ Stream'[i] = Stream[i]
                 \/ Stream'[i].response.version = version[u]
<1> DEFINE q == Head(requests)
           r == IF q.cmd = "notification" THEN NotificationOf(q.uid) ELSE NameOf(q.app)
           n == Len(Stream)
<1>1. /\ requests # <<>> /\ requests' = Tail(requests) /\ q = requests[1] /\ q \in Expectation
      /\ 1 \in DOMAIN requests
  BY TailElements DEF PhoneAnswers, TypeInv, TypeOK
<1>2. PICK k \in 1..MaxFragments : ds' = ds \o Fragments(r, k)
  BY DEF PhoneAnswers
<1>3. UNCHANGED <<bytes, pc, processing, version>>
  BY DEF PhoneAnswers, engineVars, decoderVars, workVars
<1> HIDE DEF q
<1>4. /\ r \in Response
      /\ IsFor(r, u) <=> IsFor(q, u)
      /\ IsFor(r, u) => r.version = version[u]
  <2>1. q.cmd \in {"notification", "app"} /\ version \in [UID -> Nat]
    BY <1>1 DEF Expectation, TypeInv, TypeOK
  <2>2. CASE q.cmd = "notification"
    <3>1. q.uid \in UID
      BY <1>1, <2>2 DEF Expectation
    <3> QED
      BY <2>1, <2>2, <3>1, AppAssumption
         DEF Response, Notification, NotificationOf, IsFor
  <2>3. CASE q.cmd = "app"
    <3>1. q.app \in App
      BY <1>1, <2>3 DEF Expectation
    <3> QED
      BY <2>3, <3>1 DEF Response, NameOf, IsFor
  <2> QED
    BY <2>1, <2>2, <2>3
<1> HIDE DEF r
<1>5. /\ n \in Nat /\ DOMAIN Stream = 1..n /\ DOMAIN Stream' = 1..(n + k) /\ k \in Nat
      /\ \A i \in 1..n : Stream'[i] = Stream[i]
      /\ \A i \in 1..k : Stream'[n + i] = [response |-> r, part |-> i, of |-> k]
  <2>1. k \in Nat /\ bytes' = bytes
    BY <1>3, BoundAssumption
  <2>2. /\ Len(Stream) \in Nat /\ DOMAIN Stream = 1..Len(Stream)
        /\ DOMAIN Stream' = 1..(Len(Stream) + k)
        /\ \A i \in DOMAIN Stream : Stream'[i] = Stream[i]
        /\ \A i \in 1..k : Stream'[Len(Stream) + i] = [response |-> r, part |-> i, of |-> k]
    BY <1>2, <1>4, <2>1, StreamAnswered
  <2> QED
    BY <2>1, <2>2
<1> HIDE DEF n
<1>6. \A i \in 1..(n + k) : \/ i \in 1..n /\ Stream'[i] = Stream[i]
                            \/ /\ i > n /\ Stream'[i].response = r
                               /\ Stream'[i].part = i - n /\ Stream'[i].part \in 1..k
                               /\ Stream'[i].of = k
  <2> SUFFICES ASSUME NEW i \in 1..(n + k), i > n
               PROVE  /\ Stream'[i].response = r
                      /\ Stream'[i].part = i - n /\ Stream'[i].part \in 1..k
                      /\ Stream'[i].of = k
    BY <1>5
  <2> DEFINE h == i - n
  <2>1. h \in 1..k /\ i = n + h
    BY <1>5
  <2> HIDE DEF h
  <2>2. Stream'[n + h] = [response |-> r, part |-> h, of |-> k]
    BY <1>5, <2>1
  <2> QED
    BY <1>5, <2>1, <2>2
<1>7. CASE IsFor(q, u)
  <2>1. 1 \in Asked(u)
    BY <1>1, <1>7 DEF Asked
  <2>2. Told(u) = {} /\ Awaits(u)
    BY <2>1 DEF OneAnswer
  <2>3. Asked(u)' = {}
    <3> SUFFICES ASSUME NEW i \in Asked(u)' PROVE FALSE
      OBVIOUS
    <3>1. i \in Nat \ {0} /\ i + 1 \in Asked(u)
      BY <1>1, AskedNext
    <3>2. i + 1 = 1
      BY <2>1, <3>1 DEF OneAnswer
    <3> QED
      BY <3>1, <3>2
  <2>4. Awaits(u)'
    BY <1>3, <2>2 DEF Awaits
  <2>5. \A i \in Told(u)' : /\ i \in 1..(n + k) /\ Stream'[i].response = r
                            /\ Stream'[i].part = i - n /\ Stream'[i].part \in 1..k
                            /\ Stream'[i].of = k
    <3> SUFFICES ASSUME NEW i \in Told(u)'
                 PROVE  /\ i \in 1..(n + k) /\ ~(i \in 1..n)
      BY <1>5, <1>6
    <3>1. i \in 1..(n + k) /\ IsFor(Stream'[i].response, u)
      BY <1>5 DEF Told
    <3>2. i \in 1..n => i \in Told(u)
      BY <1>5, <3>1 DEF Told
    <3> QED
      BY <2>2, <3>1, <3>2
  <2>6. OneAnswer(u)'
    BY <1>5, <2>3, <2>4, <2>5 DEF OneAnswer
  <2> QED
    BY <1>4, <1>7, <2>5, <2>6
<1>8. CASE ~IsFor(q, u)
  <2>1. \A i \in Told(u)' : i \in Told(u) /\ Stream'[i] = Stream[i]
    <3> SUFFICES ASSUME NEW i \in Told(u)'
                 PROVE  i \in Told(u) /\ Stream'[i] = Stream[i]
      OBVIOUS
    <3>1. i \in 1..(n + k) /\ IsFor(Stream'[i].response, u)
      BY <1>5 DEF Told
    <3>2. i \in 1..n /\ Stream'[i] = Stream[i]
      BY <1>4, <1>6, <1>8, <3>1
    <3> QED
      BY <1>5, <3>1, <3>2 DEF Told
  <2>2. \A i \in Asked(u)' : i \in Nat \ {0} /\ i + 1 \in Asked(u)
    BY <1>1, AskedNext
  <2>3. Awaits(u)' <=> Awaits(u)
    BY <1>3 DEF Awaits
  <2>4. \A i, j \in Asked(u)' : i = j
    <3> SUFFICES ASSUME NEW i \in Asked(u)', NEW j \in Asked(u)' PROVE i = j
      OBVIOUS
    <3>1. i + 1 = j + 1 /\ i \in Nat /\ j \in Nat
      BY <2>2 DEF OneAnswer
    <3> QED
      BY <3>1
  <2>5. OneAnswer(u)'
    BY <2>1, <2>2, <2>3, <2>4 DEF OneAnswer
  <2> QED
    BY <2>1, <2>5
<1> QED
  BY <1>7, <1>8

\* Neither a request for u nor an answer to one is on its way, and none is awaited.
LEMMA NoAnswer ==
    ASSUME NEW u, Asked(u)' = {}, Told(u)' = {}
    PROVE  OneAnswer(u)'
BY DEF OneAnswer

\* The same requests and the same stream.
LEMMA SameAnswer ==
    ASSUME NEW u, OneAnswer(u), requests' = requests, Awaits(u)' <=> Awaits(u),
           DOMAIN Stream' = DOMAIN Stream, \A i \in DOMAIN Stream : Stream'[i] = Stream[i]
    PROVE  OneAnswer(u)'
<1>1. Asked(u)' = Asked(u)
  BY DEF Asked
<1>2. Told(u)' = Told(u) /\ \A i \in Told(u) : Stream'[i] = Stream[i]
  BY DEF Told
<1> QED
  BY <1>1, <1>2 DEF OneAnswer

\* Within a session every step keeps requests and answers for u paired, unless a loss is
\* recorded for u.
LEMMA OneAnswerNext ==
    ASSUME TypeInv, RequestInv, [Next]_vars, ~EndSession,
           NEW u \in UID, u \notin excused', OneAnswer(u)
    PROVE  OneAnswer(u)'
<1>1. CASE PhoneAnswers
  BY <1>1, AnswersAnswer
<1>0. SUFFICES ASSUME ~PhoneAnswers PROVE OneAnswer(u)'
  BY <1>1
<1>3. ~Awaits(u) => Asked(u) = {} /\ Told(u) = {} /\ Told(u)' = {}
  BY <1>0, ToldNothing DEF OneAnswer
<1>4. requests' = requests => Asked(u)' = Asked(u)
  BY AskedNext
<1>2. CASE PhoneIgnores
  <2>1. /\ requests # <<>> /\ requests' = Tail(requests)
        /\ UNCHANGED <<bytes, ds, pc, processing>>
    BY <1>2 DEF PhoneIgnores, engineVars, decoderVars, workVars
  <2>2. \A i \in Asked(u)' : i \in Nat \ {0} /\ i + 1 \in Asked(u)
    BY <2>1, AskedNext
  <2>3. Stream' = Stream /\ Told(u)' = Told(u) /\ (Awaits(u)' <=> Awaits(u))
    BY <2>1 DEF Stream, Told, Awaits
  <2>4. \A i, j \in Asked(u)' : i = j
    <3> SUFFICES ASSUME NEW i \in Asked(u)', NEW j \in Asked(u)' PROVE i = j
      OBVIOUS
    <3>1. i + 1 = j + 1 /\ i \in Nat /\ j \in Nat
      BY <2>2 DEF OneAnswer
    <3> QED
      BY <3>1
  <2> QED
    BY <2>2, <2>3, <2>4 DEF OneAnswer
<1>5. CASE DiscardFragment
  <2>1. ~Awaits(u) /\ requests' = requests
    BY <1>5 DEF DiscardFragment, phoneVars, Awaits
  <2> QED
    BY <1>3, <1>4, <2>1, NoAnswer
<1>6. CASE ProcessNext
  <2> DEFINE w == Head(pending_order)
             q == ExpectNotification(w)
  <2>1. w \in UID /\ q \in Expectation /\ (IsFor(q, u) <=> u = w)
    BY <1>6, TailElements
       DEF ProcessNext, TypeInv, TypeOK, Expectation, ExpectNotification, IsFor
  <2>2. ~Awaits(u)
    BY <1>6 DEF ProcessNext, Awaits
  <2>3. \/ requests' = Append(requests, q) /\ pc' = "notification" /\ processing' = w
        \/ requests' = requests /\ excused' = excused \cup {w}
    BY <1>6 DEF ProcessNext
  <2> HIDE DEF w, q
  <2>4. CASE requests' = requests
    BY <1>3, <1>4, <2>2, <2>4, NoAnswer
  <2>5. CASE requests' = Append(requests, q) /\ pc' = "notification" /\ processing' = w
    <3>1. Asked(u)' \subseteq IF u = w THEN {Len(requests) + 1} ELSE {}
      BY <1>3, <2>1, <2>2, <2>5, AskedNext
    <3>2. CASE u = w
      BY <1>3, <2>2, <2>5, <3>1, <3>2 DEF OneAnswer, Awaits
    <3>3. CASE u # w
      BY <1>3, <2>2, <3>1, <3>3, NoAnswer
    <3> QED
      BY <3>2, <3>3
  <2> QED
    BY <2>3, <2>4, <2>5
<1>7. CASE NotificationFragment
  <2> DEFINE buf == Append(bytes, Head(ds))
  <2>1. /\ pc = "notification" /\ ds # <<>> /\ ds' = Tail(ds) /\ requests' = requests
    BY <1>7 DEF NotificationFragment, phoneVars
  <2>2. \/ bytes' = buf /\ UNCHANGED workVars
        \/ /\ "decoded" \in Parse(buf, ExpectNotification(processing))
           /\ bytes' = <<>>
        \/ excused' = excused \cup {processing}
    BY <1>7, NotificationOutcome
  <2> HIDE DEF buf
  <2>3. CASE bytes' = buf /\ UNCHANGED workVars
    <3>1. Awaits(u)' <=> Awaits(u)
      BY <2>3 DEF workVars, Awaits
    <3> QED
      BY <2>1, <2>3, <3>1, StreamKept, SameAnswer DEF buf
  <2>4. CASE ~Awaits(u)
    BY <1>3, <1>4, <2>1, <2>4, NoAnswer
  <2>5. CASE /\ Awaits(u) /\ bytes' = <<>>
             /\ "decoded" \in Parse(buf, ExpectNotification(processing))
    <3>1. u = processing
      BY <2>5 DEF Awaits
    <3>2. Told(u)' = {} /\ Asked(u) = {}
      BY <2>1, <2>5, <3>1, DecodedConsumes DEF buf
    <3> QED
      BY <1>4, <2>1, <3>2, NoAnswer
  <2>6. CASE Awaits(u) /\ excused' = excused \cup {processing}
    BY <2>6 DEF Awaits
  <2> QED
    BY <2>2, <2>3, <2>4, <2>5, <2>6
<1>8. CASE NotificationFails
  <2>1. ~Awaits(u) /\ requests' = requests
    BY <1>8 DEF NotificationFails, GiveUpNotification, phoneVars, Awaits
  <2> QED
    BY <1>3, <1>4, <2>1, NoAnswer
<1>9. CASE ResolveApp
  <2> DEFINE q == ExpectApp(attributes.app)
  <2>1. ~Awaits(u) /\ (requests' = requests \/ requests' = Append(requests, q))
    BY <1>9 DEF ResolveApp, Awaits
  <2>2. q \in Expectation /\ ~IsFor(q, u)
    BY <1>9 DEF ResolveApp, TypeInv, TypeOK, Notification, Expectation, ExpectApp, IsFor
  <2> HIDE DEF q
  <2>3. Asked(u)' \subseteq Asked(u)
    BY <2>1, <2>2, AskedNext
  <2> QED
    BY <1>3, <2>1, <2>3, NoAnswer
<1>10. CASE AppFragment \/ AppFails
  <2>1. ~Awaits(u) /\ requests' = requests
    BY <1>10 DEF AppFragment, AppFails, phoneVars, Awaits
  <2> QED
    BY <1>3, <1>4, <2>1, NoAnswer
<1>11. CASE UNCHANGED <<bytes, ds, requests>> /\ (Awaits(u)' <=> Awaits(u))
  BY <1>11, SameAnswer DEF Stream
<1>12. CASE Create \/ Replace \/ DeliveryFails
  <2>1. UNCHANGED <<bytes, ds, requests>> /\ ~Awaits(u) /\ ~Awaits(u)'
    BY <1>12 DEF Create, Replace, DeliveryFails, Finish, afterDelivery, phoneVars,
                 decoderVars, Awaits
  <2> QED
    BY <1>11, <2>1
<1>13. CASE UNCHANGED <<bytes, ds, requests, pc, processing>>
  BY <1>11, <1>13 DEF Awaits
<1> QED
  BY <1>0, <1>2, <1>5, <1>6, <1>7, <1>8, <1>9, <1>10, <1>12, <1>13
     DEF Next, Phone, Engine, vars, phoneVars, engineVars, decoderVars, workVars, PhoneAdds,
         PhoneModifies, PhoneRemoves, SinkDies, ReceiveEvent

\* Within a session every step keeps u's answer current, or has a later event announced.
LEMMA CurrentAnswerNext ==
    ASSUME TypeInv, RequestInv, QueuesAgree, Notices, OwnAttributes, [Next]_vars, ~EndSession,
           NEW u \in UID, u \notin excused', OneAnswer(u), CurrentAnswer(u)
    PROVE  CurrentAnswer(u)'
<1> SUFFICES ASSUME u \in present', ~Announced(u)', NEW i \in Told(u)'
             PROVE  Stream'[i].response.version = version'[u]
  BY DEF CurrentAnswer
<1>1. /\ u \in present /\ version'[u] = version[u]
      /\ Announced(u) => ProcessNext
  BY NewsNext
<1>2. CASE PhoneAnswers
  <2>1. ~Announced(u)
    BY <1>2 DEF PhoneAnswers, Announced, Coming, Pending, engineVars, queueVars
  <2> QED
    BY <1>1, <1>2, <2>1, AnswersAnswer DEF CurrentAnswer
<1>3. CASE ~PhoneAnswers
  <2>1. PICK j \in DOMAIN Stream : Stream'[i] = Stream[j]
    BY <1>3, StreamNext DEF Told
  <2>2. j \in Told(u)
    BY <2>1 DEF Told
  <2>3. ~Announced(u)
    <3> SUFFICES ASSUME ProcessNext PROVE FALSE
      BY <1>1
    <3>1. ~Awaits(u)
      BY DEF ProcessNext, Awaits
    <3> QED
      BY <2>2, <3>1 DEF OneAnswer
  <2> QED
    BY <1>1, <2>1, <2>2, <2>3 DEF CurrentAnswer
<1> QED
  BY <1>2, <1>3

\* Every step keeps the answers on their way right.
LEMMA AnsweringNext ==
    TypeInv /\ RequestInv /\ QueuesAgree /\ Notices /\ OwnAttributes /\ Answering /\ [Next]_vars
      => Answering'
<1> SUFFICES ASSUME TypeInv, RequestInv, QueuesAgree, Notices, OwnAttributes, Answering,
                    [Next]_vars, NEW u \in UID, u \notin excused'
             PROVE  OneAnswer(u)' /\ CurrentAnswer(u)'
  BY DEF Answering
<1>1. CASE EndSession
  <2>1. Asked(u)' = {} /\ Stream' = <<>> \o <<>> /\ present' = {}
    BY <1>1 DEF EndSession, ClearSession, ClearDecoder, FreshPhone, Asked, Stream
  <2>2. DOMAIN Stream' = {}
    BY <2>1
  <2>3. Told(u)' = {}
    BY <2>2 DEF Told
  <2> QED
    BY <2>1, <2>3, NoAnswer DEF CurrentAnswer
<1>2. CASE ~EndSession
  <2>1. u \in UID \ excused
    BY <1>2, ExcusedGrows
  <2> QED
    BY <1>2, <2>1, OneAnswerNext, CurrentAnswerNext DEF Answering
<1> QED
  BY <1>1, <1>2

-----------------------------------------------------------------------------
(* MirrorsPhone: what becomes of a notification *)

\* An answer that is taken has u's text in hand, unless a later event is announced.
LEMMA FollowsAnswer ==
    ASSUME TypeInv, RequestInv, Notices, NotificationFragment, NEW u \in UID,
           u \in present, u \notin excused', ~Announced(u), version'[u] = version[u],
           OneAnswer(u), CurrentAnswer(u), Awaits(u)
    PROVE  Awaits(u)' \/ InHand(u)'
<1> DEFINE buf == Append(bytes, Head(ds))
<1>1. pc = "notification" /\ processing = u /\ u \notin canceled
  BY DEF Awaits, Notices, Truthful
<1>2. CASE UNCHANGED workVars
  BY <1>1, <1>2 DEF workVars, Awaits
<1>3. CASE /\ "decoded" \in Parse(buf, ExpectNotification(u))
           /\ bytes' = <<>> /\ pc' = "resolve" /\ processing' = processing
           /\ attributes' = Head(buf).response
  <2>1. ds # <<>> /\ ds' = Tail(ds)
    BY DEF NotificationFragment
  <2>2. 1 \in Told(u) /\ Stream[1] = Head(buf)
    BY <1>3, <2>1, DecodedConsumes
  <2>3. Head(buf).response.version = version[u]
    BY <2>2 DEF CurrentAnswer
  <2> QED
    BY <1>1, <1>3, <2>3 DEF InHand
<1> QED
  BY <1>1, <1>2, <1>3, NotificationOutcome

\* A delivery shows what is in hand, and leaves what other uids show.
LEMMA FollowsDelivery ==
    ASSUME TypeInv, OwnAttributes, OwnHandles, Create \/ Replace, NEW u \in UID,
           u \notin excused', version'[u] = version[u],
           InHand(u) \/ (processing # u /\ UpToDate(u))
    PROVE  processing' # u /\ UpToDate(u)'
<1>1. /\ processing' = NoUid /\ NoUid \notin UID
      /\ \A w \in UID : handles[w] \in DesktopId \cup {NoHandle}
      /\ NoHandle \notin DesktopId
  BY UidAssumption, HandleAssumption DEF Create, Replace, Finish, TypeInv, TypeOK
<1>2. InHand(u) => Delivered = [uid |-> u, version |-> version[u]]
  BY DEF InHand, OwnAttributes, Delivered
<1>3. CASE Create
  <2>1. PICK id \in FreshIds, closed \in UID \cup {NoUid} :
              /\ processing \in UID /\ processing \notin Mapped
              /\ \A w \in UID : handles'[w] =
                    IF w = closed THEN NoHandle
                    ELSE IF w = processing THEN id ELSE handles[w]
              /\ \A i \in DesktopId : desktop'[i] =
                    IF closed = processing /\ i = id THEN NoContent
                    ELSE IF closed \in Mapped /\ i = handles[closed] THEN NoContent
                    ELSE IF i = id THEN Delivered ELSE desktop[i]
              /\ closed \in excused' \cup {NoUid}
    BY <1>3, CreateDesktop
  <2>2. id \in DesktopId /\ \A w \in UID : handles[w] # id
    BY DEF FreshIds
  <2>3. u # closed
    BY <1>1, <2>1
  <2>4. CASE InHand(u)
    <3>1. processing = u /\ handles'[u] = id
      BY <2>1, <2>3, <2>4 DEF InHand
    <3>2. desktop'[id] = Delivered
      BY <2>1, <2>2, <2>3, <3>1 DEF Mapped
    <3> QED
      BY <1>1, <1>2, <2>2, <2>4, <3>1, <3>2 DEF UpToDate, Mapped
  <2>5. CASE processing # u /\ UpToDate(u)
    <3>1. u \in Mapped /\ handles'[u] = handles[u] /\ handles[u] \in DesktopId /\ handles[u] # id
      BY <1>1, <2>1, <2>2, <2>3, <2>5 DEF UpToDate, Mapped
    <3>2. closed \in Mapped => handles[closed] # handles[u]
      BY <2>3, <3>1 DEF OwnHandles
    <3>3. desktop'[handles[u]] = desktop[handles[u]]
      BY <2>1, <3>1, <3>2
    <3> QED
      BY <1>1, <2>5, <3>1, <3>3 DEF UpToDate, Mapped
  <2> QED
    BY <2>4, <2>5
<1>4. CASE Replace
  <2>1. /\ processing \in Mapped /\ handles' = handles
        /\ \A i \in DesktopId : desktop'[i] =
              IF i = handles[processing] THEN Delivered ELSE desktop[i]
    BY <1>4, ReplaceDesktop
  <2>2. CASE InHand(u)
    <3>1. processing = u /\ handles[u] \in DesktopId
      BY <1>1, <2>1, <2>2 DEF InHand, Mapped
    <3> QED
      BY <1>1, <1>2, <2>1, <2>2, <3>1 DEF UpToDate, Mapped
  <2>3. CASE processing # u /\ UpToDate(u)
    <3>1. handles[u] \in DesktopId /\ handles[u] # handles[processing]
      BY <1>1, <2>1, <2>3 DEF UpToDate, OwnHandles, Mapped
    <3> QED
      BY <1>1, <2>1, <2>3, <3>1 DEF UpToDate, Mapped
  <2> QED
    BY <2>2, <2>3
<1> QED
  BY <1>3, <1>4

\* Handling another uid's event leaves what u shows.
LEMMA FollowsEvent ==
    ASSUME TypeInv, Notices, OwnHandles, ReceiveEvent, NEW u \in UID, u \in present,
           UpToDate(u)
    PROVE  UpToDate(u)'
<1>1. /\ Head(ns) \in Event /\ Ingest(Head(ns)) /\ version' = version
      /\ Head(ns) = ns[1] /\ 1 \in DOMAIN ns
  BY TailElements DEF ReceiveEvent, phoneVars, TypeInv, TypeOK
<1>2. Head(ns).kind = "Removed" => Head(ns).uid # u
  BY <1>1 DEF Notices, Truthful
<1>3. u \in Mapped /\ handles[u] \in DesktopId
  BY DEF UpToDate, Mapped, TypeInv, TypeOK
<1>4. CASE UNCHANGED <<handles, desktop>>
  BY <1>1, <1>4 DEF UpToDate, Mapped
<1>5. ASSUME NEW w \in Mapped, w # u,
             \A x \in UID : handles'[x] = IF x = w THEN NoHandle ELSE handles[x],
             \A id \in DesktopId : desktop'[id] =
                 IF sink_alive /\ id = handles[w] THEN NoContent ELSE desktop[id]
      PROVE  UpToDate(u)'
  <2>1. handles[w] # handles[u] /\ handles'[u] = handles[u]
    BY <1>3, <1>5 DEF OwnHandles
  <2>2. desktop'[handles[u]] = desktop[handles[u]]
    BY <1>3, <1>5, <2>1
  <2> QED
    BY <1>1, <1>3, <2>1, <2>2 DEF UpToDate, Mapped
<1> QED
  BY <1>1, <1>2, <1>4, <1>5, IngestDesktop

\* Within a session every step keeps u on its way to the desktop, or there.
LEMMA FollowedNext ==
    ASSUME TypeInv, RequestInv, QueuesAgree, Notices, OwnAttributes, OwnHandles, [Next]_vars,
           ~EndSession, NEW u \in UID, u \notin excused', OneAnswer(u), CurrentAnswer(u),
           Followed(u)
    PROVE  Followed(u)'
<1> SUFFICES ASSUME u \in present', sink_alive', ~Announced(u)'
             PROVE  \/ Awaits(u)' \/ InHand(u)'
                    \/ processing' # u /\ UpToDate(u)'
  BY DEF Followed
<1>1. /\ u \in present /\ u \notin excused /\ version'[u] = version[u]
      /\ Announced(u) => Awaits(u)'
  BY NewsNext
<1>2. sink_alive
  BY DesktopFrame DEF ReceiveEvent, Create, Replace
<1>3. SUFFICES ASSUME ~Announced(u)
               PROVE  \/ Awaits(u)' \/ InHand(u)'
                      \/ processing' # u /\ UpToDate(u)'
  BY <1>1
<1>4. Awaits(u) \/ InHand(u) \/ (processing # u /\ UpToDate(u))
  BY <1>1, <1>2, <1>3 DEF Followed
<1>5. UNCHANGED <<handles, desktop>> /\ UpToDate(u) => UpToDate(u)'
  BY <1>1 DEF UpToDate, Mapped
<1>6. CASE NotificationFragment
  <2>1. CASE Awaits(u)
    BY <1>1, <1>3, <1>6, <2>1, FollowsAnswer
  <2>2. CASE ~Awaits(u)
    <3>1. UNCHANGED <<handles, desktop>> /\ pc = "notification"
      BY <1>6 DEF NotificationFragment, handleVars
    <3>2. processing' \in {processing, NoUid}
      BY <1>6 DEF NotificationFragment, TakeNotification, GiveUpNotification, Finish, workVars
    <3> QED
      BY <1>4, <1>5, <2>2, <3>1, <3>2, UidAssumption DEF InHand
  <2> QED
    BY <2>1, <2>2
<1>7. CASE NotificationFails \/ DeliveryFails
  <2>1. /\ UNCHANGED <<handles, desktop>> /\ pc \in {"notification", "deliver"}
        /\ processing' = NoUid /\ excused' = excused \cup {processing}
    BY <1>7 DEF NotificationFails, GiveUpNotification, DeliveryFails, Finish, handleVars
  <2> QED
    BY <1>4, <1>5, <2>1, UidAssumption DEF Awaits, InHand
<1>8. CASE Create \/ Replace
  <2>1. ~Awaits(u)
    BY <1>8 DEF Create, Replace, Awaits
  <2> QED
    BY <1>1, <1>4, <1>8, <2>1, FollowsDelivery
<1>9. CASE ReceiveEvent
  <2>1. UNCHANGED workVars
    BY <1>9 DEF ReceiveEvent
  <2> QED
    BY <1>1, <1>4, <1>9, <2>1, FollowsEvent DEF workVars, Awaits, InHand
<1>10. CASE ProcessNext
  <2>1. UNCHANGED <<handles, desktop>> /\ pc = "idle" /\ ~Awaits(u) /\ ~InHand(u)
    BY <1>10 DEF ProcessNext, handleVars, Awaits, InHand
  <2>2. processing' = u => Awaits(u)'
    <3>1. processing # u
      BY <1>4, <2>1
    <3> QED
      BY <1>10, <3>1 DEF ProcessNext, workVars, Awaits
  <2> QED
    BY <1>4, <1>5, <2>1, <2>2
<1>11. CASE ResolveApp \/ AppFragment \/ AppFails
  <2>1. /\ UNCHANGED <<handles, desktop, processing, attributes>>
        /\ pc \in {"resolve", "app"} /\ pc' \in {"resolve", "app", "deliver"}
    BY <1>11 DEF ResolveApp, AppFragment, AppFails, handleVars
  <2> QED
    BY <1>1, <1>4, <1>5, <2>1 DEF Awaits, InHand
<1>12. CASE UNCHANGED <<workVars, handles, desktop>>
  BY <1>1, <1>4, <1>5, <1>12 DEF workVars, Awaits, InHand
<1> QED
  BY <1>6, <1>7, <1>8, <1>9, <1>10, <1>11, <1>12
     DEF Next, Phone, Engine, vars, engineVars, handleVars, PhoneAdds, PhoneModifies,
         PhoneRemoves, PhoneAnswers, PhoneIgnores, SinkDies, DiscardFragment

\* Every step keeps every notification without a recorded loss followed.
LEMMA FollowingNext ==
    TypeInv /\ RequestInv /\ QueuesAgree /\ Notices /\ OwnAttributes /\ OwnHandles
    /\ Answering /\ Following /\ [Next]_vars
      => Following'
<1> SUFFICES ASSUME TypeInv, RequestInv, QueuesAgree, Notices, OwnAttributes, OwnHandles,
                    Answering, Following, [Next]_vars, NEW u \in UID, u \notin excused'
             PROVE  Followed(u)'
  BY DEF Following
<1>1. CASE EndSession
  BY <1>1 DEF EndSession, FreshPhone, Followed
<1>2. CASE ~EndSession
  <2>1. u \in UID \ excused
    BY <1>2, ExcusedGrows
  <2> QED
    BY <1>2, <2>1, FollowedNext DEF Following, Answering
<1> QED
  BY <1>1, <1>2

\* Each uid's text under its own handle, as a part of ShownUnderOwnUid.
THEOREM OwnHandlesCorrect == Spec => []OwnHandles
<1>1. ShownUnderOwnUid => OwnHandles
  BY DEF ShownUnderOwnUid, OwnHandles
<1> QED
  BY <1>1, OwnUidCorrect, PTL

\* No Modified is lost, whatever it interleaves with: when every event is handled, each
\* notification on the phone is shown with its current text, unless a loss was recorded
\* for it or the sink stopped.
THEOREM MirrorsPhoneCorrect == Spec => []MirrorsPhone
<1>1. Init => Answering /\ Following
  <2> SUFFICES ASSUME Init PROVE Answering /\ Following
    OBVIOUS
  <2>1. Stream = <<>> \o <<>> /\ present = {} /\ requests = <<>>
    BY DEF Init, Stream
  <2>2. DOMAIN Stream = {} /\ DOMAIN requests = {}
    BY <2>1
  <2>3. \A u \in UID : Asked(u) = {} /\ Told(u) = {}
    BY <2>2 DEF Asked, Told
  <2> QED
    BY <2>1, <2>3 DEF Answering, Following, OneAnswer, CurrentAnswer, Followed
<1>2. TypeInv /\ QueuesAgree /\ Following => MirrorsPhone
  <2> SUFFICES ASSUME TypeInv, QueuesAgree, Following, Quiescent, sink_alive,
                      NEW u \in present \ excused
               PROVE  UpToDate(u)
    BY DEF MirrorsPhone
  <2>1. u \in UID /\ Followed(u)
    BY DEF Following, TypeInv, TypeOK
  <2>2. ~Coming(u)
    BY DEF Quiescent, Coming
  <2>3. u \notin Pending
    BY DEF Quiescent, QueuesAgree, Orders
  <2> QED
    BY <2>1, <2>2, <2>3 DEF Followed, Announced, Awaits, InHand, Quiescent
<1> QED
  BY <1>1, <1>2, AnsweringNext, FollowingNext, TypeCorrect, RequestCorrect, QueuesCorrect,
     NoticesCorrect, OwnAttributesCorrect, OwnHandlesCorrect, PTL DEF Spec

=============================================================================
