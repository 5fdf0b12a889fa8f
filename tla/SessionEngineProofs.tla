------------------------ MODULE SessionEngineProofs ------------------------
(***************************************************************************)
(* What holds of SessionEngine for every set of uids, apps and desktop     *)
(* ids and every bound: the types, the request in flight, and the queues,  *)
(* maps and bounds.  TypeInv is inductive by itself, also under steps that *)
(* drop process_next (BridgeProofs); each later invariant is inductive     *)
(* relative to it and to those proved before, and its proof names the few  *)
(* actions that touch the state it is about.                               *)
(***************************************************************************)
EXTENDS SessionEngine, FiniteSetTheorems, TLAPS

-----------------------------------------------------------------------------
(* Queues: sequences that list the elements of a set once each, under      *)
(* append, pop and retain.                                                 *)

\* A queue that was appended to has its type and is not empty.
LEMMA AppendType ==
    ASSUME NEW S, NEW s \in Seq(S), NEW x \in S
    PROVE  Append(s, x) \in Seq(S) /\ Append(s, x) # <<>>
<1>1. Append(s, x) \in Seq(S) /\ Len(Append(s, x)) = Len(s) + 1 /\ Len(s) \in Nat
  OBVIOUS
<1> QED
  BY <1>1

\* The empty queue has every type.
LEMMA EmptyType == \A S : <<>> \in Seq(S)
OBVIOUS

\* Retaining all but one element of a queue keeps its type.
LEMMA WithoutType ==
    ASSUME NEW S, NEW s \in Seq(S), NEW x
    PROVE  Without(s, x) \in Seq(S)
<1>1. CASE \E i \in DOMAIN s : s[i] = x
  <2> DEFINE k == CHOOSE i \in DOMAIN s : s[i] = x
  <2>1. k \in 1..Len(s)
    BY <1>1
  <2>2. \A i \in 1..(Len(s) - 1) : (IF i < k THEN s[i] ELSE s[i + 1]) \in S
    BY <2>1
  <2>3. Without(s, x) = [i \in 1..(Len(s) - 1) |-> IF i < k THEN s[i] ELSE s[i + 1]]
    BY <1>1 DEF Without
  <2>4. Len(s) - 1 \in Nat
    BY <2>1
  <2> HIDE DEF k
  <2>5. Without(s, x) \in [1..(Len(s) - 1) -> S]
    BY <2>2, <2>3
  <2> QED
    BY <2>4, <2>5
<1>2. CASE ~\E i \in DOMAIN s : s[i] = x
  BY <1>2 DEF Without
<1> QED
  BY <1>1, <1>2

\* Retaining all but x of a queue that lists S lists S without x.
LEMMA WithoutOrders ==
    ASSUME NEW T, NEW S, NEW s \in Seq(T), NEW x, Orders(s, S)
    PROVE  Orders(Without(s, x), S \ {x})
<1>1. CASE \E i \in DOMAIN s : s[i] = x
  <2> DEFINE k == CHOOSE i \in DOMAIN s : s[i] = x
             w == Without(s, x)
  <2>1. k \in 1..Len(s) /\ s[k] = x
    BY <1>1
  <2>2. w = [i \in 1..(Len(s) - 1) |-> IF i < k THEN s[i] ELSE s[i + 1]]
    BY <1>1 DEF Without
  <2> HIDE DEF k, w
  <2>3. DOMAIN w = 1..(Len(s) - 1)
    BY <2>2
  <2>4. \A i \in DOMAIN w : w[i] = (IF i < k THEN s[i] ELSE s[i + 1])
    BY <2>2
  <2>5. \A i, j \in DOMAIN s : s[i] = s[j] => i = j
    BY DEF Orders
  <2>6. ASSUME NEW i \in DOMAIN w, NEW j \in DOMAIN w, w[i] = w[j]
        PROVE  i = j
    BY <2>1, <2>3, <2>4, <2>5, <2>6
  <2>7. ASSUME NEW y \in S \ {x}
        PROVE  \E i \in DOMAIN w : w[i] = y
    <3>1. PICK i \in DOMAIN s : s[i] = y
      BY <2>7 DEF Orders
    <3>2. CASE i < k
      BY <2>1, <2>3, <2>4, <3>1, <3>2
    <3>3. CASE i > k
      <4>1. i - 1 \in DOMAIN w
        BY <2>1, <2>3, <3>1, <3>3
      <4>2. ~(i - 1 < k) /\ (i - 1) + 1 = i
        BY <2>1, <3>1, <3>3
      <4>3. w[i - 1] = s[i]
        BY <2>4, <4>1, <4>2
      <4> QED
        BY <3>1, <4>1, <4>3
    <3> QED
      BY <2>1, <2>7, <3>1, <3>2, <3>3
  <2>8. ASSUME NEW i \in DOMAIN w
        PROVE  w[i] \in S \ {x}
    <3>1. i \in DOMAIN s /\ i + 1 \in DOMAIN s /\ i \in Nat
      BY <2>3
    <3>2. \A j \in DOMAIN s : s[j] \in S
      BY DEF Orders
    <3> QED
      BY <2>1, <2>4, <2>5, <3>1, <3>2
  <2> QED
    BY <2>6, <2>7, <2>8 DEF Orders, w
<1>2. CASE ~\E i \in DOMAIN s : s[i] = x
  BY <1>2 DEF Without, Orders
<1> QED
  BY <1>1, <1>2

\* Appending a new element.
LEMMA AppendOrders ==
    ASSUME NEW T, NEW S, NEW s \in Seq(T), NEW x \in T, x \notin S, Orders(s, S)
    PROVE  Orders(Append(s, x), S \cup {x})
<1> DEFINE w == Append(s, x)
<1>1. DOMAIN w = 1..(Len(s) + 1) /\ Len(s) \in Nat /\ DOMAIN s = 1..Len(s)
  OBVIOUS
<1>2. (\A i \in 1..Len(s) : w[i] = s[i]) /\ w[Len(s) + 1] = x
  OBVIOUS
<1> HIDE DEF w
<1>3. \A i \in DOMAIN s : s[i] \in S /\ s[i] # x
  BY DEF Orders
<1>4. ASSUME NEW i \in DOMAIN w, NEW j \in DOMAIN w, w[i] = w[j]
      PROVE  i = j
  <2>1. \A p, q \in DOMAIN s : s[p] = s[q] => p = q
    BY DEF Orders
  <2>2. i \in 1..Len(s) \/ i = Len(s) + 1
    BY <1>1
  <2>3. j \in 1..Len(s) \/ j = Len(s) + 1
    BY <1>1
  <2> QED
    BY <1>1, <1>2, <1>3, <1>4, <2>1, <2>2, <2>3
<1>5. ASSUME NEW y \in S \cup {x}
      PROVE  \E i \in DOMAIN w : w[i] = y
  <2>1. CASE y = x
    BY <1>1, <1>2, <2>1
  <2>2. CASE y \in S
    BY <1>1, <1>2, <2>2 DEF Orders
  <2> QED
    BY <2>1, <2>2
<1>6. ASSUME NEW i \in DOMAIN w
      PROVE  w[i] \in S \cup {x}
  <2>1. i \in 1..Len(s) \/ i = Len(s) + 1
    BY <1>1
  <2> QED
    BY <1>1, <1>2, <1>3, <2>1
<1> QED
  BY <1>4, <1>5, <1>6 DEF Orders, w

\* Popping the first element.
LEMMA TailOrders ==
    ASSUME NEW T, NEW S, NEW s \in Seq(T), s # <<>>, Orders(s, S)
    PROVE  /\ Head(s) \in S
           /\ Orders(Tail(s), S \ {Head(s)})
<1> DEFINE w == Tail(s)
<1>1. Len(s) \in Nat \ {0} /\ DOMAIN s = 1..Len(s) /\ Head(s) = s[1]
  OBVIOUS
<1>2. DOMAIN w = 1..(Len(s) - 1) /\ \A i \in 1..(Len(s) - 1) : w[i] = s[i + 1]
  BY <1>1
<1> HIDE DEF w
<1>3. \A p, q \in DOMAIN s : s[p] = s[q] => p = q
  BY DEF Orders
<1>4. \A i \in DOMAIN s : s[i] \in S
  BY DEF Orders
<1>5. Head(s) \in S
  BY <1>1, <1>4
<1>6. ASSUME NEW i \in DOMAIN w, NEW j \in DOMAIN w, w[i] = w[j]
      PROVE  i = j
  <2>1. i + 1 \in DOMAIN s /\ j + 1 \in DOMAIN s /\ i \in Nat /\ j \in Nat
    BY <1>1, <1>2
  <2> QED
    BY <1>2, <1>3, <1>6, <2>1
<1>7. ASSUME NEW y \in S \ {Head(s)}
      PROVE  \E i \in DOMAIN w : w[i] = y
  <2>1. PICK i \in DOMAIN s : s[i] = y
    BY DEF Orders
  <2>2. i # 1 /\ i - 1 \in DOMAIN w /\ (i - 1) + 1 = i
    BY <1>1, <1>2, <2>1
  <2> QED
    BY <1>2, <2>1, <2>2
<1>8. ASSUME NEW i \in DOMAIN w
      PROVE  w[i] \in S \ {Head(s)}
  <2>1. i + 1 \in DOMAIN s /\ i + 1 # 1 /\ 1 \in DOMAIN s
    BY <1>1, <1>2
  <2> QED
    BY <1>1, <1>2, <1>3, <1>4, <2>1
<1> QED
  BY <1>5, <1>6, <1>7, <1>8 DEF Orders, w

-----------------------------------------------------------------------------
(* The type invariant *)

\* The engine waits for a response it expects, and a notification request that is
\* awaited is the outstanding one.
Expecting ==
    /\ Waiting => expected # <<>>
    /\ pc = "notification" => outstanding = processing

\* An app name is only fetched while it is not cached.
FetchesUncached == pc = "app" => app_names[attributes.app] = NoApp

TypeInv == TypeOK /\ Expecting /\ FetchesUncached

\* The invariant holds at the start.
LEMMA TypeInit == Init => TypeInv
BY UidAssumption, BoundAssumption
   DEF Init, TypeInv, TypeOK, Expecting, FetchesUncached, Waiting

\* Ingesting an event keeps the types of what it touches.
LEMMA IngestType ==
    ASSUME TypeInv, NEW e \in Event, Ingest(e)
    PROVE  /\ pending_order' \in Seq(UID)
           /\ pending_kind' \in [UID -> {"none", "Added", "Modified"}]
           /\ canceled' \subseteq UID
           /\ handles' \in [UID -> DesktopId \cup {NoHandle}]
           /\ handle_order' \in Seq(UID)
           /\ desktop' \in [DesktopId -> Content \cup {NoContent}]
           /\ excused' \subseteq UID
<1> USE DEF TypeInv, TypeOK, Event
<1>1. CASE SkipPreExisting(e)
  BY <1>1 DEF SkipPreExisting, queueVars, handleVars
<1>2. CASE IngestRemoved(e)
  <2>1. /\ Without(pending_order, e.uid) \in Seq(UID)
        /\ Without(handle_order, e.uid) \in Seq(UID)
    BY WithoutType
  <2> QED
    BY <1>2, <2>1 DEF IngestRemoved, AfterClose, Mapped, handleVars
<1>3. CASE IngestFresh(e)
  <2>1. UNCHANGED <<canceled, handleVars, desktop>>
    BY <1>3 DEF IngestFresh
  <2>2. CASE Coalesce(e)
    BY <2>1, <2>2 DEF Coalesce, handleVars
  <2>3. CASE Requeue(e)
    <3>1. CASE e.kind = "Modified"
      <4>1. /\ pending_kind' = [pending_kind EXCEPT ![e.uid] = "Modified"]
            /\ pending_order' = Append(pending_order, e.uid)
            /\ UNCHANGED excused
        BY <2>3, <3>1 DEF Requeue, Queue
      <4> QED
        BY <2>1, <4>1 DEF handleVars
    <3>2. CASE e.kind # "Modified"
      BY <2>1, <2>3, <3>2 DEF Requeue, handleVars, queueVars
    <3> QED
      BY <3>1, <3>2
  <2>4. CASE DropWhenFull(e)
    BY <2>1, <2>4 DEF DropWhenFull, handleVars, queueVars
  <2>5. CASE Enqueue(e)
    BY <1>3, <2>1, <2>5 DEF IngestFresh, Enqueue, Queue, handleVars
  <2> QED
    BY <1>3, <2>2, <2>3, <2>4, <2>5 DEF IngestFresh
<1> QED
  BY <1>1, <1>2, <1>3 DEF Ingest

\* The invariant in three parts, so that a step is compared with what it touches.
TypeEnvironment ==
    /\ version \in [UID -> Nat]
    /\ present \subseteq UID
    /\ requests \in Seq(Expectation)
    /\ ns \in Seq(Event)
    /\ ds \in Seq(Fragment)
    /\ desktop \in [DesktopId -> Content \cup {NoContent}]
    /\ sink_alive \in BOOLEAN
    /\ excused \subseteq UID
    /\ sessions \in Nat

TypeMaps ==
    /\ pending_order \in Seq(UID)
    /\ pending_kind \in [UID -> {"none", "Added", "Modified"}]
    /\ canceled \subseteq UID
    /\ handles \in [UID -> DesktopId \cup {NoHandle}]
    /\ handle_order \in Seq(UID)
    /\ app_names \in [App -> App \cup {NoApp}]
    /\ app_order \in Seq(App)

TypeWork ==
    /\ outstanding \in UID \cup {NoUid}
    /\ bytes \in Seq(Fragment)
    /\ expected \in Seq(Expectation)
    /\ pc \in {"idle", "notification", "resolve", "app", "deliver"}
    /\ processing \in UID \cup {NoUid}
    /\ (pc = "idle") <=> (processing = NoUid)
    /\ IF pc \in {"resolve", "app", "deliver"} THEN attributes \in Notification
                                              ELSE attributes = NoAttributes
    /\ Expecting

\* TypeInv is the conjunction of its named parts.
LEMMA TypeParts == TypeInv <=> TypeEnvironment /\ TypeMaps /\ TypeWork /\ FetchesUncached
BY DEF TypeInv, TypeOK, TypeEnvironment, TypeMaps, TypeWork

\* The parts after a step give the invariant after it.
LEMMA TypePartsNext ==
    ASSUME TypeEnvironment', TypeMaps', TypeWork', FetchesUncached'
    PROVE  TypeInv'
BY DEF TypeInv, TypeOK, TypeEnvironment, TypeMaps, TypeWork

\* The buffer a decoder step parses: what it held and the fragment received.
LEMMA BufferType ==
    ASSUME TypeInv, ds # <<>>
    PROVE  /\ Tail(ds) \in Seq(Fragment)
           /\ Append(bytes, Head(ds)) \in Seq(Fragment)
           /\ Head(Append(bytes, Head(ds))) \in Fragment
           /\ Head(Append(bytes, Head(ds))).response \in Response
<1>1. bytes \in Seq(Fragment) /\ ds \in Seq(Fragment)
  BY DEF TypeInv, TypeOK
<1> DEFINE buf == Append(bytes, Head(ds))
<1>2. Head(ds) \in Fragment /\ Tail(ds) \in Seq(Fragment)
  BY <1>1
<1>3. buf \in Seq(Fragment) /\ buf # <<>>
  BY <1>1, <1>2
<1>4. Head(buf) \in Fragment
  <2> HIDE DEF buf
  <2> QED BY <1>3
<1>5. Head(buf).response \in Response
  <2> HIDE DEF buf
  <2> QED BY <1>4 DEF Fragment
<1> QED
  BY <1>2, <1>3, <1>4, <1>5

\* An answer is a sequence of fragments of the request it answers.
LEMMA PhoneAnswersType == TypeInv /\ PhoneAnswers => TypeInv'
<1> SUFFICES ASSUME TypeInv, PhoneAnswers
             PROVE  TypeInv'
  OBVIOUS
<1> DEFINE q == Head(requests)
           r == IF q.cmd = "notification" THEN NotificationOf(q.uid) ELSE NameOf(q.app)
<1>1. TypeEnvironment /\ TypeMaps /\ TypeWork /\ FetchesUncached
  BY TypeParts
<1>2. q \in Expectation /\ requests' \in Seq(Expectation)
  BY <1>1 DEF PhoneAnswers, TypeEnvironment
<1> HIDE DEF q
<1>3. r \in Response
  BY <1>1, <1>2, AppAssumption
     DEF Response, Notification, NotificationOf, NameOf, Expectation, TypeEnvironment
<1> HIDE DEF r
<1>4. ASSUME NEW n \in 1..MaxFragments
      PROVE  Fragments(r, n) \in Seq(Fragment)
  <2>1. \A i \in 1..n : [response |-> r, part |-> i, of |-> n] \in Fragment
    BY <1>3, BoundAssumption DEF Fragment
  <2>2. Fragments(r, n) \in [1..n -> Fragment] /\ n \in Nat
    BY <2>1, BoundAssumption DEF Fragments
  <2> QED
    BY <2>2
<1>5. PICK n \in 1..MaxFragments : ds' = ds \o Fragments(r, n)
  BY DEF PhoneAnswers, q, r
<1>6. ds' \in Seq(Fragment)
  <2>1. ds \in Seq(Fragment) /\ Fragments(r, n) \in Seq(Fragment)
    BY <1>1, <1>4 DEF TypeEnvironment
  <2> QED
    BY <1>5, <2>1
<1>7. UNCHANGED <<version, present, ns, engineVars, desktop, sink_alive, excused, sessions>>
  BY DEF PhoneAnswers
<1>8. TypeEnvironment'
  BY <1>1, <1>2, <1>6, <1>7 DEF TypeEnvironment
<1>9. TypeMaps'
  BY <1>1, <1>7 DEF TypeMaps, engineVars, queueVars, requestVars, handleVars, appVars
<1>10. TypeWork'
  BY <1>1, <1>7 DEF TypeWork, Expecting, Waiting, engineVars,
                    requestVars, decoderVars, workVars
<1>11. FetchesUncached'
  BY <1>1, <1>7 DEF FetchesUncached, engineVars, appVars, workVars
<1> QED
  BY <1>8, <1>9, <1>10, <1>11, TypePartsNext

\* A fragment of a notification is parsed, and ends the wait or not.
LEMMA NotificationFragmentType == TypeInv /\ NotificationFragment => TypeInv'
<1> SUFFICES ASSUME TypeInv, NotificationFragment
             PROVE  TypeInv'
  OBVIOUS
<1> DEFINE buf == Append(bytes, Head(ds))
           r == Head(buf).response
<1>1. TypeEnvironment /\ TypeMaps /\ TypeWork /\ FetchesUncached
  BY TypeParts
<1>2. Tail(ds) \in Seq(Fragment) /\ buf \in Seq(Fragment) /\ r \in Response
  BY BufferType DEF NotificationFragment
<1>3. PICK outcome \in Parse(buf, Head(expected)) :
        \/ /\ bytes' = buf
           /\ UNCHANGED <<expected, requestVars, workVars, excused>>
        \/ /\ bytes' = <<>>
           /\ expected' = Tail(expected)
           /\ TakeNotification(r)
        \/ ClearDecoder /\ GiveUpNotification
  BY DEF NotificationFragment
<1> HIDE DEF buf, r
<1>4. /\ pc = "notification" /\ ds' = Tail(ds)
      /\ UNCHANGED <<phoneVars, ns, queueVars, handleVars, appVars, desktop, sink_alive, sessions>>
  BY DEF NotificationFragment
<1>5. /\ processing \in UID
      /\ Tail(expected) \in Seq(Expectation)
      /\ attributes = NoAttributes
      /\ outstanding = processing
  BY <1>1, <1>4 DEF TypeWork, Expecting, Waiting
\* What the three outcomes do to the request and to the locals.
<1>6. \/ /\ bytes' = buf
         /\ UNCHANGED <<expected, requestVars, workVars, excused>>
      \/ /\ bytes' = <<>> /\ expected' \in Seq(Expectation) /\ outstanding' = NoUid
         /\ canceled' = canceled \ {processing}
         /\ pc' = "resolve" /\ processing' = processing /\ attributes' \in Notification
         /\ UNCHANGED excused
      \/ /\ bytes' = <<>> /\ expected' \in Seq(Expectation) /\ outstanding' = NoUid
         /\ canceled' = canceled \ {processing}
         /\ pc' = "idle" /\ processing' = NoUid /\ attributes' = NoAttributes
         /\ excused' \subseteq excused \cup {processing}
  <2>1. CASE ClearDecoder /\ GiveUpNotification
    BY <2>1 DEF ClearDecoder, GiveUpNotification, Answered, Finish
  <2>2. CASE bytes' = <<>> /\ expected' = Tail(expected) /\ TakeNotification(r)
    <3>1. CASE r.cmd = "app"
      BY <1>5, <2>2, <3>1 DEF TakeNotification, GiveUpNotification, Answered, Finish
    <3>2. CASE r.cmd # "app"
      <4>1. r \in Notification
        BY <1>2, <3>2 DEF Response
      <4>2. CASE processing \in canceled
        BY <1>5, <2>2, <3>2, <4>2 DEF TakeNotification, Answered, Finish
      <4>3. CASE processing \notin canceled
        BY <1>5, <2>2, <3>2, <4>1, <4>3 DEF TakeNotification, Answered
      <4> QED
        BY <4>2, <4>3
    <3> QED
      BY <3>1, <3>2
  <2> QED
    BY <1>3, <2>1, <2>2
<1>7. TypeEnvironment'
  <2>1. excused' \subseteq UID
    BY <1>1, <1>5, <1>6 DEF TypeEnvironment
  <2> QED
    BY <1>1, <1>2, <1>4, <2>1 DEF TypeEnvironment, phoneVars
<1>8. TypeMaps'
  <2>1. canceled' \subseteq UID
    BY <1>1, <1>6 DEF TypeMaps, requestVars
  <2> QED
    BY <1>1, <1>4, <2>1 DEF TypeMaps, queueVars, handleVars, appVars
<1>9. TypeWork'
  <2>1. CASE bytes' = buf /\ UNCHANGED <<expected, requestVars, workVars, excused>>
    BY <1>1, <1>2, <2>1
       DEF TypeWork, Expecting, Waiting, requestVars, workVars
  <2>2. CASE /\ bytes' = <<>> /\ expected' \in Seq(Expectation) /\ outstanding' = NoUid
             /\ pc' = "resolve" /\ processing' = processing /\ attributes' \in Notification
    BY <1>5, <2>2, UidAssumption DEF TypeWork, Expecting, Waiting
  <2>3. CASE /\ bytes' = <<>> /\ expected' \in Seq(Expectation) /\ outstanding' = NoUid
             /\ pc' = "idle" /\ processing' = NoUid /\ attributes' = NoAttributes
    BY <2>3 DEF TypeWork, Expecting, Waiting
  <2> QED
    BY <1>6, <2>1, <2>2, <2>3
<1>10. FetchesUncached'
  BY <1>4, <1>6 DEF FetchesUncached, workVars
<1> QED
  BY <1>7, <1>8, <1>9, <1>10, TypePartsNext

\* The app name is cached, requested, or the request fails to be written.
LEMMA ResolveAppType == TypeInv /\ ResolveApp => TypeInv'
<1> SUFFICES ASSUME TypeInv, ResolveApp
             PROVE  TypeInv'
  OBVIOUS
<1> DEFINE q == ExpectApp(attributes.app)
<1>1. TypeEnvironment /\ TypeMaps /\ TypeWork /\ FetchesUncached
  BY TypeParts
<1>2. /\ pc = "resolve"
      /\ UNCHANGED <<version, present, ns, ds, queueVars, requestVars, handleVars, appVars,
                     processing, attributes, desktop, sink_alive, excused, sessions>>
  BY DEF ResolveApp
<1>3. attributes \in Notification /\ expected \in Seq(Expectation) /\ processing \in UID
  BY <1>1, <1>2 DEF TypeWork
<1>4. q \in Expectation
  BY <1>3 DEF Expectation, ExpectApp, Notification
<1> HIDE DEF q
<1>5. Append(expected, q) \in Seq(Expectation) /\ Append(expected, q) # <<>>
  BY <1>3, <1>4, AppendType
\* The name is cached or its request cannot be written, or it is awaited.
<1>6. \/ /\ pc' = "deliver" /\ UNCHANGED requests /\ expected' \in Seq(Expectation)
         /\ bytes' \in {bytes, <<>>}
      \/ /\ pc' = "app" /\ expected' = Append(expected, q) /\ UNCHANGED bytes
         /\ requests' = Append(requests, q)
         /\ attributes.app \notin Cached
  BY <1>3, EmptyType DEF ResolveApp, ClearDecoder, decoderVars, q
<1>7. TypeEnvironment'
  <2>1. requests \in Seq(Expectation) /\ Append(requests, q) \in Seq(Expectation)
    <3>1. requests \in Seq(Expectation)
      BY <1>1 DEF TypeEnvironment
    <3> QED
      BY <1>4, <3>1
  <2>2. requests' = requests \/ requests' = Append(requests, q)
    BY <1>6, Zenon
  <2>3. requests' \in Seq(Expectation)
    BY <2>1, <2>2, Zenon
  <2> QED
    BY <1>1, <1>2, <2>3 DEF TypeEnvironment
<1>8. TypeMaps'
  BY <1>1, <1>2 DEF TypeMaps, queueVars, handleVars, appVars, requestVars
<1>9. TypeWork'
  <2>1. CASE pc' = "deliver" /\ expected' \in Seq(Expectation) /\ bytes' \in {bytes, <<>>}
    <3>1. bytes' \in Seq(Fragment)
      <4>1. bytes \in Seq(Fragment)
        BY <1>1 DEF TypeWork
      <4>2. <<>> \in Seq(Fragment)
        OBVIOUS
      <4>3. bytes' = bytes \/ bytes' = <<>>
        BY <2>1, Zenon
      <4> QED
        BY <4>1, <4>2, <4>3, Zenon
    <3> QED
      BY <1>1, <1>2, <1>3, <2>1, <3>1, UidAssumption
         DEF TypeWork, Expecting, Waiting, requestVars
  <2>2. CASE pc' = "app" /\ expected' = Append(expected, q) /\ UNCHANGED bytes
    <3>1. expected' \in Seq(Expectation) /\ expected' # <<>>
      BY <1>5, <2>2
    <3> QED
      BY <1>1, <1>2, <1>3, <2>2, <3>1, UidAssumption
         DEF TypeWork, Expecting, Waiting, requestVars
  <2> QED
    BY <1>6, <2>1, <2>2
<1>10. FetchesUncached'
  <2>1. attributes.app \in App
    BY <1>3 DEF Notification
  <2> QED
    BY <1>2, <1>6, <2>1 DEF FetchesUncached, Cached, appVars
<1> QED
  BY <1>7, <1>8, <1>9, <1>10, TypePartsNext

\* Caching a name that was not cached keeps the types of the cache.
LEMMA RetainAppNameType ==
    ASSUME NEW a \in App, NEW name \in App, TypeMaps, app_names[a] = NoApp,
           RetainAppName(a, name)
    PROVE  app_names' \in [App -> App \cup {NoApp}] /\ app_order' \in Seq(App)
<1> DEFINE order == Append(app_order, a)
<1>1. a \notin Cached
  BY DEF Cached
<1>2. app_names \in [App -> App \cup {NoApp}] /\ app_order \in Seq(App)
  BY DEF TypeMaps
<1>3. order \in Seq(App) /\ order # <<>>
  BY <1>2
<1>4. \/ /\ app_names' = [[app_names EXCEPT ![a] = name] EXCEPT ![Head(order)] = NoApp]
         /\ app_order' = Tail(order)
      \/ /\ app_names' = [app_names EXCEPT ![a] = name]
         /\ app_order' = order
  BY <1>1 DEF RetainAppName
<1> HIDE DEF order
<1>5. Tail(order) \in Seq(App) /\ Head(order) \in App
  BY <1>3
<1> QED
  BY <1>2, <1>3, <1>4, <1>5

\* A fragment of an app name is parsed, and caches the name when complete.
LEMMA AppFragmentType == TypeInv /\ AppFragment => TypeInv'
<1> SUFFICES ASSUME TypeInv, AppFragment
             PROVE  TypeInv'
  OBVIOUS
<1> DEFINE buf == Append(bytes, Head(ds))
           r == Head(buf).response
<1>1. TypeEnvironment /\ TypeMaps /\ TypeWork /\ FetchesUncached
  BY TypeParts
<1>2. Tail(ds) \in Seq(Fragment) /\ buf \in Seq(Fragment) /\ r \in Response
  BY BufferType DEF AppFragment
<1>3. PICK outcome \in Parse(buf, Head(expected)) :
        \/ bytes' = buf /\ UNCHANGED <<expected, appVars, pc>>
        \/ /\ bytes' = <<>>
           /\ expected' = Tail(expected)
           /\ pc' = "deliver"
           /\ IF r.cmd = "app" THEN RetainAppName(attributes.app, r.app) ELSE UNCHANGED appVars
        \/ ClearDecoder /\ pc' = "deliver" /\ UNCHANGED appVars
  BY DEF AppFragment
<1> HIDE DEF buf, r
<1>4. /\ pc = "app" /\ ds' = Tail(ds)
      /\ UNCHANGED <<phoneVars, ns, queueVars, requestVars, handleVars, processing,
                     attributes, desktop, sink_alive, excused, sessions>>
  BY DEF AppFragment
<1>5. /\ processing \in UID
      /\ attributes \in Notification
      /\ Tail(expected) \in Seq(Expectation)
  BY <1>1, <1>4 DEF TypeWork, Expecting, Waiting
<1>6. attributes.app \in App /\ r.app \in App
  BY <1>2, <1>5 DEF Notification, Response
<1>7. TypeEnvironment'
  BY <1>1, <1>2, <1>4 DEF TypeEnvironment, phoneVars
<1>8. TypeMaps'
  <2>1. app_names[attributes.app] = NoApp
    BY <1>1, <1>4 DEF FetchesUncached
  <2>2. app_names' \in [App -> App \cup {NoApp}] /\ app_order' \in Seq(App)
    <3>1. CASE RetainAppName(attributes.app, r.app)
      BY <1>1, <1>6, <2>1, <3>1, RetainAppNameType
    <3>2. CASE UNCHANGED appVars
      BY <1>1, <3>2 DEF TypeMaps, appVars
    <3> QED
      BY <1>3, <3>1, <3>2
  <2> QED
    BY <1>1, <1>4, <2>2 DEF TypeMaps, queueVars, requestVars, handleVars
<1>9. TypeWork'
  <2>1. CASE bytes' = buf /\ UNCHANGED <<expected, appVars, pc>>
    BY <1>1, <1>2, <1>4, <2>1
       DEF TypeWork, Expecting, Waiting, requestVars
  <2>2. CASE bytes' = <<>> /\ expected' \in Seq(Expectation) /\ pc' = "deliver"
    BY <1>1, <1>4, <1>5, <2>2, UidAssumption
       DEF TypeWork, Expecting, Waiting, requestVars
  <2> QED
    BY <1>3, <1>5, <2>1, <2>2, EmptyType DEF ClearDecoder
<1>10. FetchesUncached'
  BY <1>1, <1>3, <1>4 DEF FetchesUncached, appVars
<1> QED
  BY <1>7, <1>8, <1>9, <1>10, TypePartsNext

\* A create maps the uid, and may evict another.
LEMMA CreateType == TypeInv /\ Create => TypeInv'
<1> SUFFICES ASSUME TypeInv, Create
             PROVE  TypeInv'
  OBVIOUS
<1>1. TypeEnvironment /\ TypeMaps /\ TypeWork /\ FetchesUncached
  BY TypeParts
<1>2. /\ pc = "deliver" /\ pc' = "idle" /\ processing' = NoUid /\ attributes' = NoAttributes
      /\ UNCHANGED <<phoneVars, ns, ds, queueVars, requestVars, appVars, decoderVars,
                     sink_alive, sessions>>
  BY DEF Create, Finish, afterDelivery
<1>3. Delivered \in Content /\ processing \in UID
  BY <1>1, <1>2 DEF TypeWork, Delivered, Content, Notification
<1>4. PICK id \in FreshIds : RetainHandle(processing, id, [desktop EXCEPT ![id] = Delivered])
  BY DEF Create
<1>5. id \in DesktopId
  BY DEF FreshIds
<1> DEFINE order == Append(handle_order, processing)
           mapped == [handles EXCEPT ![processing] = id]
           shown == [desktop EXCEPT ![id] = Delivered]
<1>6. \/ /\ handles' = [mapped EXCEPT ![Head(order)] = NoHandle]
         /\ handle_order' = Tail(order)
         /\ desktop' = AfterClose(shown, mapped[Head(order)])
         /\ excused' = excused \cup {Head(order)}
      \/ /\ handles' = mapped
         /\ handle_order' = order
         /\ desktop' = shown
         /\ UNCHANGED excused
  BY <1>4 DEF RetainHandle
<1>7. order \in Seq(UID) /\ order # <<>>
  BY <1>1, <1>3 DEF TypeMaps
<1>8. mapped \in [UID -> DesktopId \cup {NoHandle}]
  BY <1>1, <1>3, <1>5 DEF TypeMaps
<1>9. shown \in [DesktopId -> Content \cup {NoContent}]
  BY <1>1, <1>3, <1>5 DEF TypeEnvironment
<1> HIDE DEF order, mapped, shown
<1>10. Tail(order) \in Seq(UID) /\ Head(order) \in UID
  BY <1>7
<1>11. AfterClose(shown, mapped[Head(order)]) \in [DesktopId -> Content \cup {NoContent}]
  BY <1>9 DEF AfterClose
<1>12. TypeEnvironment'
  <2>1. excused' \subseteq UID /\ desktop' \in [DesktopId -> Content \cup {NoContent}]
    BY <1>1, <1>6, <1>9, <1>10, <1>11 DEF TypeEnvironment
  <2> QED
    BY <1>1, <1>2, <2>1 DEF TypeEnvironment, phoneVars
<1>13. TypeMaps'
  <2>1. handles' \in [UID -> DesktopId \cup {NoHandle}] /\ handle_order' \in Seq(UID)
    BY <1>6, <1>7, <1>8, <1>10
  <2> QED
    BY <1>1, <1>2, <2>1 DEF TypeMaps, queueVars, requestVars, appVars
<1>14. TypeWork'
  BY <1>1, <1>2, UidAssumption
     DEF TypeWork, Expecting, Waiting, requestVars, decoderVars
<1>15. FetchesUncached'
  BY <1>2 DEF FetchesUncached
<1> QED
  BY <1>12, <1>13, <1>14, <1>15, TypePartsNext

\* Every step keeps the types.
LEMMA TypeNext == TypeInv /\ [Next]_vars => TypeInv'
<1> SUFFICES ASSUME TypeInv, [Next]_vars
             PROVE  TypeInv'
  OBVIOUS
<1>4. CASE PhoneAnswers
  BY <1>4, PhoneAnswersType
<1>10. CASE NotificationFragment
  BY <1>10, NotificationFragmentType
<1>12. CASE ResolveApp
  BY <1>12, ResolveAppType
<1>13. CASE AppFragment
  BY <1>13, AppFragmentType
<1>15. CASE Create
  BY <1>15, CreateType
<1> USE UidAssumption, AppAssumption, BoundAssumption
<1> USE DEF TypeInv, TypeOK, Expecting, FetchesUncached, Waiting,
            phoneVars, queueVars, handleVars, appVars, decoderVars, workVars, requestVars,
            engineVars
<1>1. ASSUME NEW u \in UID, PhoneAdds(u)
      PROVE  TypeInv'
  <2>1. \A old \in BOOLEAN : [kind |-> "Added", uid |-> u, preExisting |-> old] \in Event
    BY DEF Event
  <2>2. ns' \in Seq(Event)
    BY <1>1, <2>1 DEF PhoneAdds
  <2> QED
    BY <1>1, <2>2 DEF PhoneAdds
<1>2. ASSUME NEW u \in UID, PhoneModifies(u)
      PROVE  TypeInv'
  <2>1. [kind |-> "Modified", uid |-> u, preExisting |-> FALSE] \in Event
    BY DEF Event
  <2>2. ns' \in Seq(Event)
    BY <1>2, <2>1 DEF PhoneModifies
  <2>3. version' \in [UID -> Nat]
    BY <1>2 DEF PhoneModifies
  <2> QED
    BY <1>2, <2>2, <2>3 DEF PhoneModifies
<1>3. ASSUME NEW u \in UID, PhoneRemoves(u)
      PROVE  TypeInv'
  <2>1. [kind |-> "Removed", uid |-> u, preExisting |-> FALSE] \in Event
    BY DEF Event
  <2>2. ns' \in Seq(Event)
    BY <1>3, <2>1 DEF PhoneRemoves
  <2> QED
    BY <1>3, <2>2 DEF PhoneRemoves
<1>6. CASE SinkDies
  BY <1>6 DEF SinkDies
<1>7. CASE ReceiveEvent
  <2>1. Head(ns) \in Event /\ Tail(ns) \in Seq(Event)
    BY <1>7 DEF ReceiveEvent
  <2>2. /\ pending_order' \in Seq(UID)
        /\ pending_kind' \in [UID -> {"none", "Added", "Modified"}]
        /\ canceled' \subseteq UID
        /\ handles' \in [UID -> DesktopId \cup {NoHandle}]
        /\ handle_order' \in Seq(UID)
        /\ desktop' \in [DesktopId -> Content \cup {NoContent}]
        /\ excused' \subseteq UID
    <3>1. Ingest(Head(ns))
      BY <1>7 DEF ReceiveEvent
    <3> QED
      BY <2>1, <3>1, IngestType
  <2>3. /\ ns' = Tail(ns)
        /\ UNCHANGED <<phoneVars, ds, outstanding, appVars, decoderVars, workVars,
                       sink_alive, sessions>>
    BY <1>7 DEF ReceiveEvent
  <2> QED
    BY <2>1, <2>2, <2>3
<1>8. CASE DiscardFragment
  BY <1>8 DEF DiscardFragment
<1>9. CASE ProcessNext
  <2> DEFINE u == Head(pending_order)
             q == ExpectNotification(u)
  <2>1. u \in UID /\ pending_order' \in Seq(UID)
    BY <1>9 DEF ProcessNext
  <2>2. q \in Expectation
    BY <2>1 DEF Expectation, ExpectNotification
  <2>3. Append(expected, q) \in Seq(Expectation) /\ Append(expected, q) # <<>>
    BY <2>2, AppendType
  <2>4. Append(requests, q) \in Seq(Expectation)
    BY <2>2
  <2>5. pending_kind' \in [UID -> {"none", "Added", "Modified"}]
    BY <1>9 DEF ProcessNext
  <2> HIDE DEF q, u
  <2>6. CASE pc' = "notification"
    BY <1>9, <2>1, <2>2, <2>3, <2>4, <2>5, <2>6 DEF ProcessNext, q, u
  <2>7. CASE pc' # "notification"
    <3>1. /\ outstanding' = NoUid
          /\ bytes' = <<>> /\ expected' = <<>>
          /\ excused' = excused \cup {u}
          /\ canceled' = canceled \ {u}
          /\ UNCHANGED <<requests, workVars, version, present, ns, ds, handleVars, appVars,
                         desktop, sink_alive, sessions>>
      BY <1>9, <2>7 DEF ProcessNext, ClearDecoder, u
    <3> QED
      BY <1>9, <2>1, <2>5, <3>1, EmptyType DEF ProcessNext
  <2> QED
    BY <2>6, <2>7
<1>11. CASE NotificationFails
  <2>1. processing \in UID
    BY <1>11 DEF NotificationFails
  <2> QED
    BY <1>11, <2>1 DEF NotificationFails, GiveUpNotification, Answered, Finish, ClearDecoder
<1>5. CASE PhoneIgnores
  <2>1. Tail(requests) \in Seq(Expectation)
    BY <1>5 DEF PhoneIgnores
  <2> QED
    BY <1>5, <2>1 DEF PhoneIgnores
<1>14. CASE AppFails
  BY <1>14 DEF AppFails, ClearDecoder
<1>16. CASE Replace
  <2>1. Delivered \in Content
    BY <1>16 DEF Replace, Delivered, Content, Notification
  <2>2. handles[processing] \in DesktopId
    BY <1>16 DEF Replace, Mapped
  <2>3. desktop' \in [DesktopId -> Content \cup {NoContent}]
    BY <1>16, <2>1, <2>2 DEF Replace
  <2> QED
    BY <1>16, <2>3 DEF Replace, Finish, afterDelivery
<1>17. CASE DeliveryFails
  <2>1. processing \in UID
    BY <1>17 DEF DeliveryFails
  <2> QED
    BY <1>17, <2>1 DEF DeliveryFails, Finish, afterDelivery
<1>18. CASE EndSession
  BY <1>18 DEF EndSession, ClearSession, CloseAll, FreshPhone, ClearDecoder
<1>19. CASE UNCHANGED vars
  BY <1>19 DEF vars
<1> QED
  BY <1>1, <1>2, <1>3, <1>4, <1>5, <1>6, <1>7, <1>8, <1>9, <1>10, <1>11, <1>12,
     <1>13, <1>14, <1>15, <1>16, <1>17, <1>18, <1>19 DEF Next, Phone, Engine

\* The types of the state and the shape of the request in flight hold always.
THEOREM TypeCorrect == Spec => []TypeInv
BY TypeInit, TypeNext, PTL DEF Spec

\* Every variable of the engine, of the phone and of the desktop keeps its type,
\* and process_next's locals live exactly as long as it runs.
THEOREM TypeOKCorrect == Spec => []TypeOK
<1>1. TypeInv => TypeOK
  BY DEF TypeInv
<1> QED
  BY <1>1, TypeCorrect, PTL

-----------------------------------------------------------------------------
(* The queue of uids and the request in flight *)

\* The outstanding uid is the one whose notification request is awaited.
OutstandingPhase ==
    outstanding = (IF pc = "notification" THEN processing ELSE NoUid)

RequestInv == OneExpectation /\ OutstandingPhase

\* Every step keeps the request in flight and what the decoder expects together.
LEMMA RequestNext == TypeInv /\ RequestInv /\ [Next]_vars => RequestInv'
<1> SUFFICES ASSUME TypeInv, RequestInv, [Next]_vars
             PROVE  RequestInv'
  OBVIOUS
<1> USE DEF RequestInv, OneExpectation, OutstandingPhase, Waiting
<1>1. CASE ReceiveEvent
  BY <1>1 DEF ReceiveEvent, decoderVars, workVars
<1>2. CASE ProcessNext
  BY <1>2 DEF ProcessNext, ClearDecoder, workVars
<1>3. CASE NotificationFragment
  <2>1. pc = "notification" /\ Tail(expected) = <<>>
    <3>1. pc = "notification" /\ expected = <<ExpectNotification(processing)>>
      BY <1>3 DEF NotificationFragment
    <3> QED
      BY <3>1
  <2> QED
    BY <1>3, <2>1 DEF NotificationFragment, TakeNotification, GiveUpNotification, Answered,
                      Finish, ClearDecoder, requestVars, workVars
<1>4. CASE NotificationFails
  BY <1>4 DEF NotificationFails, GiveUpNotification, Answered, Finish, ClearDecoder
<1>5. CASE ResolveApp
  BY <1>5 DEF ResolveApp, ClearDecoder, decoderVars, requestVars
<1>6. CASE AppFragment
  <2>1. pc = "app" /\ Tail(expected) = <<>>
    <3>1. pc = "app" /\ expected = <<ExpectApp(attributes.app)>>
      BY <1>6 DEF AppFragment
    <3> QED
      BY <3>1
  <2> QED
    BY <1>6, <2>1 DEF AppFragment, ClearDecoder, requestVars
<1>7. CASE AppFails
  BY <1>7 DEF AppFails, ClearDecoder, requestVars
<1>8. CASE Create \/ Replace \/ DeliveryFails
  BY <1>8 DEF Create, Replace, DeliveryFails, Finish, afterDelivery, decoderVars, requestVars
<1>9. CASE EndSession
  BY <1>9 DEF EndSession, ClearSession, ClearDecoder, workVars
<1>10. CASE UNCHANGED <<decoderVars, workVars, outstanding>>
  BY <1>10 DEF decoderVars, workVars
<1> QED
  BY <1>1, <1>2, <1>3, <1>4, <1>5, <1>6, <1>7, <1>8, <1>9, <1>10
     DEF Next, Phone, Engine, vars, engineVars, requestVars, PhoneAdds, PhoneModifies,
         PhoneRemoves, PhoneAnswers, PhoneIgnores, SinkDies, DiscardFragment

\* The request in flight is the one expected, always.
THEOREM RequestCorrect == Spec => []RequestInv
<1>1. Init => RequestInv
  BY DEF Init, RequestInv, OneExpectation, OutstandingPhase, Waiting
<1> QED
  BY <1>1, RequestNext, TypeCorrect, PTL DEF Spec

\* One Control Point request at a time: process_next expects the response to the
\* request it wrote, and an engine that waits for nothing expects nothing.
THEOREM ExpectationCorrect == Spec => []OneExpectation
<1>1. RequestInv => OneExpectation
  BY DEF RequestInv
<1> QED
  BY <1>1, RequestCorrect, PTL

\* The steps that touch the queue of uids or the request in flight.
RequestSteps ==
    ReceiveEvent \/ ProcessNext \/ NotificationFragment \/ NotificationFails \/ EndSession

\* The other steps leave them alone.
LEMMA RequestFrame ==
    ASSUME [Next]_vars, ~RequestSteps
    PROVE  UNCHANGED <<queueVars, requestVars>>
BY DEF Next, Phone, Engine, vars, engineVars, RequestSteps, PhoneAdds, PhoneModifies,
       PhoneRemoves, PhoneAnswers, PhoneIgnores, SinkDies, DiscardFragment, ResolveApp,
       AppFragment, AppFails, Create, Replace, DeliveryFails, afterDelivery

\* What a step in the notification phase does to the request in flight.
LEMMA RequestAnswered ==
    ASSUME NotificationFragment \/ NotificationFails
    PROVE  /\ UNCHANGED queueVars
           /\ \/ UNCHANGED requestVars
              \/ outstanding' = NoUid /\ canceled' = canceled \ {processing}
<1>1. CASE NotificationFails
  BY <1>1 DEF NotificationFails, GiveUpNotification, Answered
<1>2. CASE NotificationFragment
  BY <1>2 DEF NotificationFragment, TakeNotification, GiveUpNotification, Answered
<1> QED
  BY <1>1, <1>2

\* Forgetting or recording the kind of u.
LEMMA PendingWithout ==
    ASSUME NEW u \in UID, TypeInv, pending_kind' = [pending_kind EXCEPT ![u] = "none"]
    PROVE  Pending' = Pending \ {u}
<1>1. pending_kind \in [UID -> {"none", "Added", "Modified"}]
  BY DEF TypeInv, TypeOK
<1> QED
  BY <1>1 DEF Pending

\* A queued uid is pending.
LEMMA PendingWith ==
    ASSUME NEW u \in UID, NEW k \in {"Added", "Modified"}, TypeInv,
           pending_kind' = [pending_kind EXCEPT ![u] = k]
    PROVE  Pending' = Pending \cup {u}
<1>1. pending_kind \in [UID -> {"none", "Added", "Modified"}]
  BY DEF TypeInv, TypeOK
<1> QED
  BY <1>1 DEF Pending

\* The effect of an event on the queue of uids: unchanged, one uid fewer, or one
\* uid more, which is the outstanding one or finds the bound not reached.
LEMMA IngestQueue ==
    ASSUME TypeInv, NEW e \in Event, Ingest(e)
    PROVE  \/ pending_order' = pending_order /\ Pending' = Pending
           \/ pending_order' = Without(pending_order, e.uid) /\ Pending' = Pending \ {e.uid}
           \/ /\ e.uid \notin Pending
              /\ pending_order' = Append(pending_order, e.uid)
              /\ Pending' = Pending \cup {e.uid}
              /\ outstanding = e.uid \/ PendingLen < MaxPending
<1>0. e.uid \in UID /\ e.kind \in {"Added", "Modified", "Removed"}
  BY DEF Event
<1>1. CASE SkipPreExisting(e)
  BY <1>1 DEF SkipPreExisting, queueVars, Pending
<1>2. CASE IngestRemoved(e)
  BY <1>0, <1>2, PendingWithout DEF IngestRemoved
<1>3. CASE IngestFresh(e)
  <2>0. e.kind \in {"Added", "Modified"}
    BY <1>0, <1>3 DEF IngestFresh
  <2>1. CASE Coalesce(e)
    <3>1. e.uid \in Pending /\ pending_order' = pending_order
      BY <2>1 DEF Coalesce
    <3>2. CASE e.kind = "Modified"
      BY <1>0, <2>1, <3>1, <3>2, PendingWith DEF Coalesce
    <3>3. CASE e.kind # "Modified"
      BY <2>1, <3>1, <3>3 DEF Coalesce, Pending
    <3> QED
      BY <3>2, <3>3
  <2>2. CASE UNCHANGED queueVars
    BY <2>2 DEF queueVars, Pending
  <2>3. CASE /\ e.uid \notin Pending
             /\ outstanding = e.uid \/ PendingLen < MaxPending
             /\ Queue(e)
    BY <1>0, <2>0, <2>3, PendingWith DEF Queue
  <2> QED
    BY <1>3, <2>1, <2>2, <2>3 DEF IngestFresh, Requeue, DropWhenFull, Enqueue
<1> QED
  BY <1>1, <1>2, <1>3 DEF Ingest

-----------------------------------------------------------------------------
(* CanceledIsOutstanding *)

\* Every step keeps cancellation to the outstanding uid.
LEMMA CanceledNext ==
    TypeInv /\ RequestInv /\ CanceledIsOutstanding /\ [Next]_vars => CanceledIsOutstanding'
<1> SUFFICES ASSUME TypeInv, RequestInv, CanceledIsOutstanding, [Next]_vars
             PROVE  CanceledIsOutstanding'
  OBVIOUS
<1> USE DEF CanceledIsOutstanding
<1>1. /\ canceled \subseteq UID
      /\ pc = "idle" => outstanding = NoUid
      /\ pc = "notification" => outstanding = processing
      /\ NoUid \notin UID
  BY UidAssumption DEF TypeInv, TypeOK, RequestInv, OutstandingPhase
<1>2. CASE ReceiveEvent
  <2>1. outstanding' = outstanding
    BY <1>2 DEF ReceiveEvent
  <2>2. canceled' \subseteq canceled \cup {outstanding}
    BY <1>2 DEF ReceiveEvent, Ingest, SkipPreExisting, IngestRemoved, IngestFresh
  <2> QED
    BY <2>1, <2>2
<1>3. CASE ProcessNext
  <2>1. canceled = {}
    BY <1>1, <1>3 DEF ProcessNext
  <2> QED
    BY <1>3, <2>1 DEF ProcessNext
<1>4. CASE NotificationFragment \/ NotificationFails
  <2>1. pc = "notification"
    BY <1>4 DEF NotificationFragment, NotificationFails
  <2> QED
    BY <1>1, <1>4, <2>1, RequestAnswered DEF requestVars
<1>5. CASE EndSession
  BY <1>5 DEF EndSession, ClearSession
<1>6. CASE UNCHANGED <<queueVars, requestVars>>
  BY <1>6 DEF requestVars
<1> QED
  BY <1>2, <1>3, <1>4, <1>5, <1>6, RequestFrame DEF RequestSteps

\* What Removed canceled is the request in flight and nothing else, in every
\* session: SessionEngine::ingest and the end of fetch_notification agree.
THEOREM CanceledCorrect == Spec => []CanceledIsOutstanding
<1>1. Init => CanceledIsOutstanding
  BY DEF Init, CanceledIsOutstanding
<1> QED
  BY <1>1, CanceledNext, TypeCorrect, RequestCorrect, PTL DEF Spec

-----------------------------------------------------------------------------
(* QueuesAgree *)

\* Every step keeps the queue an order of the queued uids.
LEMMA QueuesNext == TypeInv /\ QueuesAgree /\ [Next]_vars => QueuesAgree'
<1> SUFFICES ASSUME TypeInv, QueuesAgree, [Next]_vars
             PROVE  QueuesAgree'
  OBVIOUS
<1>1. pending_order \in Seq(UID)
  BY DEF TypeInv, TypeOK
<1>2. Orders(pending_order, Pending)
  BY DEF QueuesAgree
<1>3. SUFFICES Orders(pending_order', Pending')
  BY DEF QueuesAgree
<1>4. CASE ReceiveEvent
  <2>1. PICK e \in Event : Ingest(e)
    <3>1. ns \in Seq(Event) /\ ns # <<>> /\ Ingest(Head(ns))
      BY <1>4 DEF ReceiveEvent, TypeInv, TypeOK
    <3>2. Head(ns) \in Event
      BY <3>1
    <3> QED
      BY <3>1, <3>2
  <2>2. e.uid \in UID
    BY DEF Event
  <2>3. Orders(Without(pending_order, e.uid), Pending \ {e.uid})
    BY <1>1, <1>2, WithoutOrders
  <2>4. e.uid \notin Pending => Orders(Append(pending_order, e.uid), Pending \cup {e.uid})
    BY <1>1, <1>2, <2>2, AppendOrders
  <2> QED
    BY <1>2, <2>1, <2>3, <2>4, IngestQueue
<1>5. CASE ProcessNext
  <2>1. /\ pending_order # <<>>
        /\ pending_order' = Tail(pending_order)
        /\ pending_kind' = [pending_kind EXCEPT ![Head(pending_order)] = "none"]
    BY <1>5 DEF ProcessNext
  <2>2. Head(pending_order) \in UID
    BY <1>1, <2>1
  <2>3. Pending' = Pending \ {Head(pending_order)}
    BY <2>1, <2>2, PendingWithout
  <2> QED
    BY <1>1, <1>2, <2>1, <2>3, TailOrders
<1>6. CASE EndSession
  <2>1. pending_order' = <<>> /\ Pending' = {}
    BY <1>6 DEF EndSession, ClearSession, Pending
  <2> QED
    BY <2>1 DEF Orders
<1>7. CASE UNCHANGED queueVars
  BY <1>2, <1>7 DEF queueVars, Pending
<1> QED
  BY <1>4, <1>5, <1>6, <1>7, RequestFrame, RequestAnswered DEF RequestSteps

\* The queue of uids and their kinds describe the same uids, each queued once.
THEOREM QueuesCorrect == Spec => []QueuesAgree
<1>1. Init => QueuesAgree
  BY DEF Init, QueuesAgree, Orders, Pending
<1> QED
  BY <1>1, QueuesNext, TypeCorrect, PTL DEF Spec

-----------------------------------------------------------------------------
(* PendingBounded *)

\* The uids pending_len counts.
Waited == Pending \cup ({outstanding} \ {NoUid})

\* The pending uids can be counted.
LEMMA PendingFinite == IsFiniteSet(Pending) /\ Cardinality(Pending) \in Nat
<1>1. Pending \subseteq UID
  BY DEF Pending
<1>2. IsFiniteSet(Pending)
  BY <1>1, UidAssumption, FS_Subset
<1> QED
  BY <1>2, FS_CardinalityType

\* pending_len is the number of uids waiting, queued or outstanding.
LEMMA PendingLenCounts ==
    IsFiniteSet(Waited) /\ PendingLen = Cardinality(Waited) /\ PendingLen \in Nat
<1>1. CASE outstanding # NoUid /\ outstanding \notin Pending
  <2>1. Waited = Pending \cup {outstanding}
    BY <1>1 DEF Waited
  <2>2. IsFiniteSet(Waited) /\ Cardinality(Waited) = Cardinality(Pending) + 1
    BY <1>1, <2>1, PendingFinite, FS_AddElement
  <2> QED
    BY <1>1, <2>2, PendingFinite DEF PendingLen
<1>2. CASE ~(outstanding # NoUid /\ outstanding \notin Pending)
  <2>1. Waited = Pending
    BY <1>2 DEF Waited
  <2> QED
    BY <1>2, <2>1, PendingFinite DEF PendingLen
<1> QED
  BY <1>1, <1>2

\* The same after a step.
LEMMA PendingLenCountsNext == PendingLen' = Cardinality(Waited')
<1>1. Pending' \subseteq UID /\ IsFiniteSet(Pending') /\ Cardinality(Pending') \in Nat
  <2>1. Pending' \subseteq UID
    BY DEF Pending
  <2>2. IsFiniteSet(Pending')
    BY <2>1, UidAssumption, FS_Subset
  <2> QED
    BY <2>1, <2>2, FS_CardinalityType
<1>2. CASE outstanding' # NoUid /\ outstanding' \notin Pending'
  <2>1. Waited' = Pending' \cup {outstanding'}
    BY <1>2 DEF Waited
  <2>2. Cardinality(Waited') = Cardinality(Pending') + 1
    BY <1>1, <1>2, <2>1, FS_AddElement
  <2> QED
    BY <1>1, <1>2, <2>2 DEF PendingLen
<1>3. CASE ~(outstanding' # NoUid /\ outstanding' \notin Pending')
  <2>1. Waited' = Pending'
    BY <1>3 DEF Waited
  <2> QED
    BY <1>1, <1>3, <2>1 DEF PendingLen
<1> QED
  BY <1>2, <1>3

\* Only an event that finds the bound not reached makes a uid wait.
LEMMA WaitedNext ==
    ASSUME TypeInv, QueuesAgree, [Next]_vars
    PROVE  \/ Waited' \subseteq Waited
           \/ PendingLen < MaxPending /\ \E u \in UID : Waited' \subseteq Waited \cup {u}
<1>1. /\ pending_order \in Seq(UID)
      /\ Orders(pending_order, Pending)
  BY DEF TypeInv, TypeOK, QueuesAgree
<1>2. CASE ReceiveEvent
  <2>1. outstanding' = outstanding
    BY <1>2 DEF ReceiveEvent
  <2>2. PICK e \in Event : Ingest(e)
    <3>1. ns \in Seq(Event) /\ ns # <<>> /\ Ingest(Head(ns))
      BY <1>2 DEF ReceiveEvent, TypeInv, TypeOK
    <3>2. Head(ns) \in Event
      BY <3>1
    <3> QED
      BY <3>1, <3>2
  <2>3. e.uid \in UID
    BY DEF Event
  <2>4. CASE Pending' \subseteq Pending
    BY <2>1, <2>4 DEF Waited
  <2>5. CASE Pending' = Pending \cup {e.uid} /\ outstanding = e.uid
    BY <2>1, <2>3, <2>5, UidAssumption DEF Waited
  <2>6. CASE Pending' = Pending \cup {e.uid} /\ PendingLen < MaxPending
    BY <2>1, <2>3, <2>6 DEF Waited
  <2> QED
    BY <2>2, <2>4, <2>5, <2>6, IngestQueue
<1>3. CASE ProcessNext
  <2>1. /\ pending_order # <<>>
        /\ pending_kind' = [pending_kind EXCEPT ![Head(pending_order)] = "none"]
        /\ outstanding' \in {Head(pending_order), NoUid}
    BY <1>3 DEF ProcessNext
  <2>2. Head(pending_order) \in UID
    BY <1>1, <2>1
  <2>3. Head(pending_order) \in Pending /\ Pending' = Pending \ {Head(pending_order)}
    BY <1>1, <2>1, <2>2, PendingWithout, TailOrders
  <2> QED
    BY <2>1, <2>3 DEF Waited
<1>4. CASE NotificationFragment \/ NotificationFails
  BY <1>4, RequestAnswered DEF Waited, Pending, queueVars, requestVars
<1>5. CASE EndSession
  BY <1>5 DEF EndSession, ClearSession, Waited, Pending
<1>6. CASE UNCHANGED <<queueVars, requestVars>>
  BY <1>6 DEF Waited, Pending, queueVars, requestVars
<1> QED
  BY <1>2, <1>3, <1>4, <1>5, <1>6, RequestFrame DEF RequestSteps

\* Every step keeps the pending uids within the bound.
LEMMA PendingNext ==
    TypeInv /\ QueuesAgree /\ PendingBounded /\ [Next]_vars => PendingBounded'
<1> SUFFICES ASSUME TypeInv, QueuesAgree, PendingBounded, [Next]_vars
             PROVE  PendingLen' <= MaxPending
  BY DEF PendingBounded
<1>1. PendingLen <= MaxPending /\ MaxPending \in Nat
  BY BoundAssumption DEF PendingBounded
<1>2. CASE Waited' \subseteq Waited
  <2>1. IsFiniteSet(Waited') /\ Cardinality(Waited') <= Cardinality(Waited)
    BY <1>2, PendingLenCounts, FS_Subset
  <2>2. Cardinality(Waited') \in Nat
    BY <2>1, FS_CardinalityType
  <2> QED
    BY <1>1, <2>1, <2>2, PendingLenCounts, PendingLenCountsNext
<1>3. CASE PendingLen < MaxPending /\ \E u \in UID : Waited' \subseteq Waited \cup {u}
  <2>1. PICK u \in UID : Waited' \subseteq Waited \cup {u}
    BY <1>3
  <2>2. /\ IsFiniteSet(Waited \cup {u})
        /\ Cardinality(Waited \cup {u}) <= Cardinality(Waited) + 1
    BY PendingLenCounts, FS_AddElement
  <2>3. IsFiniteSet(Waited') /\ Cardinality(Waited') <= Cardinality(Waited \cup {u})
    BY <2>1, <2>2, FS_Subset
  <2>4. Cardinality(Waited') \in Nat /\ Cardinality(Waited \cup {u}) \in Nat
    BY <2>2, <2>3, FS_CardinalityType
  <2> QED
    BY <1>1, <1>3, <2>2, <2>3, <2>4, PendingLenCounts, PendingLenCountsNext
<1> QED
  BY <1>2, <1>3, WaitedNext

\* At most MAX_PENDING_UIDS uids wait, although the requeue of the outstanding
\* uid does not look at the bound.
THEOREM PendingCorrect == Spec => []PendingBounded
<1>1. Init => PendingBounded
  <2> SUFFICES ASSUME Init
               PROVE  PendingBounded
    OBVIOUS
  <2>1. Waited = {}
    BY DEF Init, Waited, Pending
  <2> QED
    BY <2>1, PendingLenCounts, FS_EmptySet, BoundAssumption DEF PendingBounded
<1> QED
  BY <1>1, PendingNext, TypeCorrect, QueuesCorrect, PTL DEF Spec

-----------------------------------------------------------------------------
(* HandlesAgree and HandlesBounded *)

\* The steps that touch the handles: Removed, a first delivery, the session's end.
LEMMA HandleFrame ==
    ASSUME [Next]_vars, ~(ReceiveEvent \/ Create \/ EndSession)
    PROVE  UNCHANGED handleVars
BY DEF Next, Phone, Engine, vars, engineVars, PhoneAdds, PhoneModifies, PhoneRemoves,
       PhoneAnswers, PhoneIgnores, SinkDies, DiscardFragment, ProcessNext,
       NotificationFragment, NotificationFails, ResolveApp, AppFragment, AppFails,
       Replace, DeliveryFails, afterDelivery

\* An event leaves the handles alone or takes that of one uid away.
LEMMA IngestHandles ==
    ASSUME TypeInv, NEW e \in Event, Ingest(e)
    PROVE  \/ handle_order' = handle_order /\ Mapped' = Mapped
           \/ handle_order' = Without(handle_order, e.uid) /\ Mapped' = Mapped \ {e.uid}
<1>1. handles \in [UID -> DesktopId \cup {NoHandle}]
  BY DEF TypeInv, TypeOK
<1>2. CASE UNCHANGED handleVars
  BY <1>2 DEF handleVars, Mapped
<1>3. CASE IngestRemoved(e) /\ e.uid \in Mapped
  BY <1>1, <1>3 DEF IngestRemoved, Mapped
<1> QED
  BY <1>2, <1>3 DEF Ingest, SkipPreExisting, IngestFresh, IngestRemoved

\* No uid is mapped at the start.
LEMMA HandlesInit == Init => HandlesAgree /\ HandlesBounded
<1> SUFFICES ASSUME Init
             PROVE  HandlesAgree /\ HandlesBounded
  OBVIOUS
<1>1. Mapped = {} /\ handle_order = <<>>
  BY DEF Init, Mapped
<1> QED
  BY <1>1, FS_EmptySet, BoundAssumption DEF HandlesAgree, HandlesBounded, Orders

\* Every step keeps the handles ordered and within the bound.
LEMMA HandlesNext ==
    TypeInv /\ HandlesAgree /\ HandlesBounded /\ [Next]_vars => HandlesAgree' /\ HandlesBounded'
<1> SUFFICES ASSUME TypeInv, HandlesAgree, HandlesBounded, [Next]_vars
             PROVE  Orders(handle_order', Mapped') /\ Cardinality(Mapped') <= MaxHandles
  BY DEF HandlesAgree, HandlesBounded
<1>1. /\ handles \in [UID -> DesktopId \cup {NoHandle}]
      /\ handle_order \in Seq(UID)
      /\ Orders(handle_order, Mapped)
      /\ Cardinality(Mapped) <= MaxHandles
      /\ MaxHandles \in Nat \ {0}
  BY BoundAssumption DEF TypeInv, TypeOK, HandlesAgree, HandlesBounded
<1>2. IsFiniteSet(Mapped) /\ Cardinality(Mapped) \in Nat
  <2>1. Mapped \subseteq UID
    BY DEF Mapped
  <2>2. IsFiniteSet(Mapped)
    BY <2>1, UidAssumption, FS_Subset
  <2> QED
    BY <2>2, FS_CardinalityType
<1>3. CASE ReceiveEvent
  <2>1. PICK e \in Event : Ingest(e)
    <3>1. ns \in Seq(Event) /\ ns # <<>> /\ Ingest(Head(ns))
      BY <1>3 DEF ReceiveEvent, TypeInv, TypeOK
    <3>2. Head(ns) \in Event
      BY <3>1
    <3> QED
      BY <3>1, <3>2
  <2>2. Orders(Without(handle_order, e.uid), Mapped \ {e.uid})
    BY <1>1, WithoutOrders
  <2>3. Cardinality(Mapped \ {e.uid}) <= MaxHandles
    <3>1. IsFiniteSet(Mapped \ {e.uid}) /\ Cardinality(Mapped \ {e.uid}) <= Cardinality(Mapped)
      BY <1>2, FS_Subset
    <3>2. Cardinality(Mapped \ {e.uid}) \in Nat
      BY <3>1, FS_CardinalityType
    <3> QED
      BY <1>1, <1>2, <3>1, <3>2
  <2>4. CASE handle_order' = handle_order /\ Mapped' = Mapped
    BY <1>1, <2>4
  <2>5. CASE handle_order' = Without(handle_order, e.uid) /\ Mapped' = Mapped \ {e.uid}
    BY <2>2, <2>3, <2>5
  <2> QED
    BY <2>1, <2>4, <2>5, IngestHandles
<1>4. CASE Create
  <2> DEFINE order == Append(handle_order, processing)
             both == Mapped \cup {processing}
  <2>1. processing \in UID /\ processing \notin Mapped
    BY <1>4 DEF Create, TypeInv, TypeOK
  <2>2. PICK id \in FreshIds : RetainHandle(processing, id, [desktop EXCEPT ![id] = Delivered])
    BY <1>4 DEF Create
  <2>3. id \in DesktopId /\ id # NoHandle
    BY HandleAssumption DEF FreshIds
  <2> DEFINE mapped == [handles EXCEPT ![processing] = id]
  <2>4. mapped \in [UID -> DesktopId \cup {NoHandle}]
    BY <1>1, <2>1, <2>3
  <2>5. {u \in UID : mapped[u] # NoHandle} = both
    BY <1>1, <2>1, <2>3 DEF Mapped
  <2>6. order \in Seq(UID) /\ order # <<>> /\ Orders(order, both)
    BY <1>1, <2>1, AppendOrders
  <2>7. Cardinality(both) = Cardinality(Mapped) + 1 /\ IsFiniteSet(both)
    BY <1>2, <2>1, FS_AddElement
  <2>8. \/ /\ Cardinality(both) > MaxHandles
           /\ handles' = [mapped EXCEPT ![Head(order)] = NoHandle]
           /\ handle_order' = Tail(order)
        \/ /\ ~(Cardinality(both) > MaxHandles)
           /\ handles' = mapped
           /\ handle_order' = order
    BY <2>2 DEF RetainHandle
  <2> HIDE DEF order, both, mapped
  <2>9. CASE /\ Cardinality(both) > MaxHandles
             /\ handles' = [mapped EXCEPT ![Head(order)] = NoHandle]
             /\ handle_order' = Tail(order)
    <3>1. Head(order) \in both /\ Orders(Tail(order), both \ {Head(order)})
      BY <2>6, TailOrders
    <3>2. Mapped' = both \ {Head(order)}
      BY <2>4, <2>5, <2>9 DEF Mapped
    <3>3. Cardinality(Mapped') = Cardinality(both) - 1
      BY <2>7, <3>1, <3>2, FS_RemoveElement
    <3> QED
      BY <1>1, <1>2, <2>7, <2>9, <3>1, <3>2, <3>3
  <2>10. CASE /\ ~(Cardinality(both) > MaxHandles)
              /\ handles' = mapped
              /\ handle_order' = order
    <3>1. Mapped' = both
      BY <2>5, <2>10 DEF Mapped
    <3> QED
      BY <1>1, <1>2, <2>6, <2>7, <2>10, <3>1
  <2> QED
    BY <2>8, <2>9, <2>10
<1>5. CASE EndSession
  <2>1. handle_order' = <<>> /\ Mapped' = {}
    BY <1>5 DEF EndSession, ClearSession, Mapped
  <2>2. Orders(<<>>, {})
    BY DEF Orders
  <2> QED
    BY <1>1, <2>1, <2>2, FS_EmptySet
<1>6. CASE UNCHANGED handleVars
  <2>1. handle_order' = handle_order /\ Mapped' = Mapped
    BY <1>6 DEF handleVars, Mapped
  <2> QED
    BY <1>1, <2>1
<1> QED
  BY <1>3, <1>4, <1>5, <1>6, HandleFrame

\* The handles and their eviction order describe the same uids.
THEOREM HandlesCorrect == Spec => []HandlesAgree
BY HandlesInit, HandlesNext, TypeCorrect, PTL DEF Spec

\* At most MAX_ACTIVE_NOTIFICATIONS uids have a handle: retain_handle evicts one
\* that is mapped whenever it goes beyond.
THEOREM HandlesWithinBound == Spec => []HandlesBounded
BY HandlesInit, HandlesNext, TypeCorrect, PTL DEF Spec

-----------------------------------------------------------------------------
(* CacheBounded *)

\* The steps that touch the app cache: an app name, and the session's end.
LEMMA CacheFrame ==
    ASSUME [Next]_vars, ~(AppFragment \/ EndSession)
    PROVE  UNCHANGED appVars
BY DEF Next, Phone, Engine, vars, engineVars, PhoneAdds, PhoneModifies, PhoneRemoves,
       PhoneAnswers, PhoneIgnores, SinkDies, ReceiveEvent, DiscardFragment, ProcessNext,
       NotificationFragment, NotificationFails, ResolveApp, AppFails, Create, Replace,
       DeliveryFails, afterDelivery

\* A fragment of an app name leaves the cache alone, or has the name of an app cached
\* that was not.
LEMMA AppFragmentCaches ==
    ASSUME TypeInv, AppFragment
    PROVE  \/ UNCHANGED appVars
           \/ \E a \in App : \E name \in App : a \notin Cached /\ RetainAppName(a, name)
<1> DEFINE buf == Append(bytes, Head(ds))
           r == Head(buf).response
<1>1. /\ attributes.app \in App
      /\ attributes.app \notin Cached
  BY DEF AppFragment, TypeInv, TypeOK, FetchesUncached, Cached, Notification
<1>2. r \in Response
  BY BufferType DEF AppFragment
<1>3. r.app \in App
  BY <1>2 DEF Response, Notification
<1>4. \/ UNCHANGED appVars
      \/ RetainAppName(attributes.app, r.app)
  BY DEF AppFragment
<1> HIDE DEF r, buf
<1> QED
  BY <1>1, <1>3, <1>4

\* Caching the name of an app that is not cached keeps order and bound: the oldest
\* name goes, and it is one of the cached.
LEMMA RetainKeepsCache ==
    ASSUME TypeInv, CacheBounded,
           NEW a \in App, NEW name \in App, a \notin Cached, RetainAppName(a, name)
    PROVE  CacheBounded'
<1> DEFINE order == Append(app_order, a)
           names == [app_names EXCEPT ![a] = name]
           both == Cached \cup {a}
<1>1. /\ app_names \in [App -> App \cup {NoApp}] /\ app_order \in Seq(App)
      /\ NoApp \notin App /\ MaxApps \in Nat
      /\ Orders(app_order, Cached) /\ Cardinality(Cached) <= MaxApps
  BY AppAssumption, BoundAssumption DEF TypeInv, TypeOK, CacheBounded
<1>2. IsFiniteSet(Cached) /\ Cardinality(Cached) \in Nat
  <2>1. Cached \subseteq App
    BY DEF Cached
  <2>2. IsFiniteSet(Cached)
    BY <2>1, AppAssumption, FS_Subset
  <2> QED
    BY <2>2, FS_CardinalityType
<1>3. IsFiniteSet(both) /\ Cardinality(both) = Cardinality(Cached) + 1
  BY <1>2, FS_AddElement
<1>4. order \in Seq(App) /\ order # <<>> /\ Orders(order, both)
  BY <1>1, AppendOrders
<1>5. names \in [App -> App \cup {NoApp}] /\ {b \in App : names[b] # NoApp} = both
  BY <1>1 DEF Cached
<1>6. \/ /\ Cardinality(both) > MaxApps
         /\ app_names' = [names EXCEPT ![Head(order)] = NoApp]
         /\ app_order' = Tail(order)
      \/ /\ ~(Cardinality(both) > MaxApps)
         /\ app_names' = names
         /\ app_order' = order
  BY DEF RetainAppName
<1> HIDE DEF order, names, both
<1>7. CASE /\ Cardinality(both) > MaxApps
           /\ app_names' = [names EXCEPT ![Head(order)] = NoApp]
           /\ app_order' = Tail(order)
  <2>1. Head(order) \in both /\ Orders(Tail(order), both \ {Head(order)})
    BY <1>4, TailOrders
  <2>2. Cached' = both \ {Head(order)}
    BY <1>5, <1>7 DEF Cached
  <2>3. Cardinality(Cached') = Cardinality(both) - 1
    BY <1>3, <2>1, <2>2, FS_RemoveElement
  <2> QED
    BY <1>1, <1>2, <1>3, <1>7, <2>1, <2>2, <2>3 DEF CacheBounded
<1>8. CASE /\ ~(Cardinality(both) > MaxApps)
           /\ app_names' = names
           /\ app_order' = order
  <2>1. Cached' = both
    BY <1>5, <1>8 DEF Cached
  <2> QED
    BY <1>1, <1>2, <1>3, <1>4, <1>8, <2>1 DEF CacheBounded
<1> QED
  BY <1>6, <1>7, <1>8

\* Every step keeps the cache ordered and within its bound.
LEMMA CacheNext == TypeInv /\ CacheBounded /\ [Next]_vars => CacheBounded'
<1> SUFFICES ASSUME TypeInv, CacheBounded, [Next]_vars
             PROVE  CacheBounded'
  OBVIOUS
<1>1. CASE UNCHANGED appVars
  BY <1>1 DEF appVars, CacheBounded, Cached
<1>2. CASE AppFragment
  BY <1>1, <1>2, AppFragmentCaches, RetainKeepsCache
<1>3. CASE EndSession
  <2>1. app_order' = <<>> /\ Cached' = {}
    BY <1>3 DEF EndSession, ClearSession, Cached
  <2> QED
    BY <2>1, FS_EmptySet, BoundAssumption DEF CacheBounded, Orders
<1> QED
  BY <1>1, <1>2, <1>3, CacheFrame

\* At most MAX_CACHED_APPS names are cached: retain_app_name is never left without an
\* oldest one to evict.
THEOREM CacheCorrect == Spec => []CacheBounded
<1>1. Init => CacheBounded
  <2> SUFFICES ASSUME Init PROVE CacheBounded
    OBVIOUS
  <2>1. app_order = <<>> /\ Cached = {}
    BY DEF Init, Cached
  <2> QED
    BY <2>1, FS_EmptySet, BoundAssumption DEF CacheBounded, Orders
<1> QED
  BY <1>1, CacheNext, TypeCorrect, PTL DEF Spec

-----------------------------------------------------------------------------
(* Together *)

\* Whatever the engine keeps twice agrees, for every number of uids and sessions.
THEOREM RecordsCorrect == Spec => []RecordsAgree
<1>1. QueuesAgree /\ HandlesAgree /\ CanceledIsOutstanding => RecordsAgree
  BY DEF RecordsAgree
<1> QED
  BY <1>1, QueuesCorrect, HandlesCorrect, CanceledCorrect, PTL

\* The engine's memory is bounded by the three limits of the code, whatever the phone
\* sends and in which order.
THEOREM BoundsCorrect == Spec => []WithinBounds
<1>1. PendingBounded /\ HandlesBounded /\ CacheBounded => WithinBounds
  BY DEF WithinBounds
<1> QED
  BY <1>1, PendingCorrect, HandlesWithinBound, CacheCorrect, PTL

=============================================================================
