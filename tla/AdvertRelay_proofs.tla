--------------------------- MODULE AdvertRelay_proofs ---------------------------
(***************************************************************************)
(* Theorems about AdvertRelay.  The types hold whatever the constants; the *)
(* three promises about the stand-ins once both sides are at rest hold for *)
(* any number of applications, restarts and outages, under the assumptions *)
(* on AllJoyn and the server that each of them needs.                      *)
(***************************************************************************)
EXTENDS AdvertRelay, FiniteSetTheorems, SequenceTheorems, TLAPS

(* What the daemon reports to a watch that begins.                         *)
Running == {b \in Apps : Up(b)}
Present == {Found(a) : a \in Running} \cup {Announced(a) : a \in Running}

-----------------------------------------------------------------------------
(* An order of a finite set is a sequence of its elements, in which every  *)
(* one of them occurs.                                                     *)
LEMMA Orders ==
    ASSUME NEW S, IsFiniteSet(S), NEW order \in SetToSeqs(S)
    PROVE  order \in Seq(S) /\ \A x \in S : \E i \in DOMAIN order : order[i] = x
<1> DEFINE D == 1 .. Cardinality(S)
<1>1. /\ order \in [D -> S]
      /\ \A i, j \in D : i # j => order[i] # order[j]
  BY DEF SetToSeqs
<1>2. Cardinality(S) \in Nat
  BY FS_CardinalityType
<1>3. order \in Injection(D, S)
  BY <1>1, Zenon DEF Injection, IsInjective
<1>4. Cardinality(D) = Cardinality(S)
  BY <1>2, FS_Interval
<1>5. order \in Surjection(D, S)
  BY <1>3, <1>4, FS_Injection
<1>6. order \in Seq(S)
  BY <1>1, <1>2
<1>7. DOMAIN order = D
  BY <1>1
<1>8. QED BY <1>5, <1>6, <1>7 DEF Surjection

(* Finitely many applications run.                                         *)
LEMMA PresentIsFinite == IsFiniteSet(Present)
<1> DEFINE found == [a \in Running |-> Found(a)]
           heard == [a \in Running |-> Announced(a)]
<1>1. IsFiniteSet(Running)
  <2>1. Running \in SUBSET Apps
    BY DEF Running
  <2>2. QED BY <2>1, ConstantsAssumption, FS_Subset
<1>2. IsFiniteSet({Found(a) : a \in Running})
  <2>1. found \in Surjection(Running, {Found(a) : a \in Running})
    BY Zenon DEF Surjection
  <2>2. QED BY <1>1, <2>1, FS_Surjection
<1>3. IsFiniteSet({Announced(a) : a \in Running})
  <2>1. heard \in Surjection(Running, {Announced(a) : a \in Running})
    BY Zenon DEF Surjection
  <2>2. QED BY <1>1, <2>1, FS_Surjection
<1>4. QED BY <1>2, <1>3, FS_Union DEF Present

(* Short sequences.                                                        *)
LEMMA Short ==
    ASSUME NEW S, NEW x \in S, NEW y \in S
    PROVE  /\ <<>> \in Seq(S) /\ <<x>> \in Seq(S) /\ <<x, y>> \in Seq(S)
           /\ <<x>> = Append(<<>>, x) /\ <<x, y>> = Append(<<x>>, y)
<1>1. <<>> \in Seq(S)
  BY EmptySeq
<1>2. <<x>> = Append(<<>>, x) /\ <<x, y>> = Append(<<x>>, y)
  OBVIOUS
<1>3. <<x>> \in Seq(S)
  <2>1. Append(<<>>, x) \in Seq(S)
    BY <1>1, AppendProperties
  <2>2. QED BY <1>2, <2>1
<1>4. <<x, y>> \in Seq(S)
  <2>1. Append(<<x>>, y) \in Seq(S)
    BY <1>3, AppendProperties
  <2>2. QED BY <1>2, <2>1
<1>5. QED BY <1>1, <1>2, <1>3, <1>4

(* The message a walk's end sends, or a loss, is appended if the far       *)
(* connector is there to get it.                                           *)
LEMMA Sent ==
    ASSUME toFar \in Seq(Message), NEW m \in Message, Send(m)
    PROVE  toFar' \in Seq(Message)
  BY DEF Send

(* What the application's end or start tells is appended for the listener. *)
LEMMA Told ==
    ASSUME due \in Seq(Event), NEW events \in Seq(Event), Tell(events)
    PROVE  due' \in Seq(Event)
  BY DEF Tell

(* The steps that take a callback, a message or a presence leave the rest. *)
LEMMA Rests ==
    ASSUME NEW M, NEW box \in Seq(M), box # <<>>
    PROVE  Tail(box) \in Seq(M) /\ Head(box) \in M
  OBVIOUS

(* The history of what came to nothing holds ways.                         *)
LEMMA Failing ==
    ASSUME NEW f \in [Apps -> SUBSET Ways], NEW a, NEW ways \in SUBSET Ways
    PROVE  [f EXCEPT ![a] = @ \cup ways] \in [Apps -> SUBSET Ways]
  OBVIOUS

LEMMA StepFailed ==
    ASSUME TypeOK, Next
    PROVE  failed' \in [Apps -> SUBSET Ways]
<1>1. failed \in [Apps -> SUBSET Ways]
  BY DEF TypeOK
<1>2. ASSUME NEW a, NEW ways \in SUBSET Ways, Fails(a, ways)
      PROVE  failed' \in [Apps -> SUBSET Ways]
  BY <1>1, <1>2, Failing DEF Fails
<1>3. {"Advertisement"} \in SUBSET Ways /\ {"Announce"} \in SUBSET Ways /\ Ways \in SUBSET Ways
  BY DEF Ways
<1>4. ASSUME NEW a \in Apps, Start(a) \/ Stop(a)
      PROVE  failed' \in [Apps -> SUBSET Ways]
  BY <1>1, <1>4 DEF Start, Stop
<1>5. ASSUME NearXmppThread
      PROVE  failed' \in [Apps -> SUBSET Ways]
  BY <1>1, <1>5 DEF NearXmppThread, ReceiveAvailable, ReceiveUnavailable
<1>6. ASSUME Listener
      PROVE  failed' \in [Apps -> SUBSET Ways]
  <2>1. \/ failed' = failed
        \/ Fails(App, {"Advertisement"}) \/ Fails(App, {"Announce"})
    BY <1>6 DEF Listener, NameOwnerChanged, FoundAdvertisedName, ListenerAnnounced,
                LostAdvertisedName, Introspect
  <2>2. QED BY <1>1, <1>2, <1>3, <2>1
<1>7. ASSUME NEW w \in walks, Answer(w)
      PROVE  failed' \in [Apps -> SUBSET Ways]
  <2>1. failed' = failed \/ Fails(w.app, {w.type})
    BY <1>7 DEF Answer, IntrospectCallback, GetBusObjectsCallback,
                GetBusObjectsAnnouncementCallback
  <2>2. {w.type} \in SUBSET Ways
    BY DEF TypeOK, Ways
  <2>3. QED BY <1>1, <1>2, <2>1, <2>2
<1>8. ASSUME FarXmppThread
      PROVE  failed' \in [Apps -> SUBSET Ways]
  <2> DEFINE m == Head(toFar)
  <2>1. \/ failed' = failed \/ Fails(m.app, Ways)
        \/ m.type \in Ways /\ Fails(m.app, {m.type})
    BY <1>8 DEF FarXmppThread, ReceiveAdvertisement, ReceiveAnnounce, Available, Ways,
                ReceiveAdvertisementLost, ReceiveNameOwnerChanged, NoStandIn, StandInGivenUp
  <2>2. m.type \in Ways => {m.type} \in SUBSET Ways
    OBVIOUS
  <2>3. QED BY <1>1, <1>2, <1>3, <2>1, <2>2
<1>9. ASSUME FarGoes \/ FarReturns
      PROVE  failed' \in [Apps -> SUBSET Ways]
  BY <1>1, <1>9 DEF FarGoes, FarReturns
<1>10. QED BY <1>4, <1>5, <1>6, <1>7, <1>8, <1>9 DEF Next

LEMMA StepTypes ==
    ASSUME TypeOK, Next
    PROVE  TypeOK'
<1> USE ConstantsAssumption DEF near, far, Versions
<1>0. failed' \in [Apps -> SUBSET Ways]
  BY StepFailed
<1> USE <1>0
<1>1. ASSUME NEW a \in Apps, Start(a)
      PROVE  TypeOK'
  <2>1. version' \in [Apps -> Versions] /\ version[a] + 1 \in Versions
    BY <1>1 DEF Start, TypeOK
  <2>2. due' \in Seq(Event) /\ (~listening => due' = due)
    <3>1. PICK events \in {<<Found(a), Announced(a)>>, <<Announced(a), Found(a)>>} :
             Tell(<<Owner(a, version[a] + 1, TRUE)>> \o events)
      BY <1>1 DEF Start
    <3>2. events \in Seq(Event)
      <4> DEFINE found == Found(a)
      <4> DEFINE announced == Announced(a)
      <4>1. found \in Event /\ announced \in Event
        BY DEF Found, Announced, Event
      <4>2. events = <<announced, found>> \/ events = <<found, announced>>
        BY <3>1
      <4> HIDE DEF found, announced
      <4>3. <<announced, found>> \in Seq(Event) /\ <<found, announced>> \in Seq(Event)
        BY ONLY <4>1, Short
      <4>4. QED BY ONLY <4>2, <4>3
    <3>3. Owner(a, version[a] + 1, TRUE) \in Event
      BY <2>1 DEF Owner, Event
    <3>4. <<Owner(a, version[a] + 1, TRUE)>> \o events \in Seq(Event)
      BY <3>2, <3>3, Short, ConcatProperties
    <3>5. due \in Seq(Event)
      BY DEF TypeOK
    <3>6. QED BY <3>1, <3>4, <3>5, Told DEF Tell
  <2>3. UNCHANGED <<listening, uniqueName, walks, toFar, presence, far>>
    BY <1>1 DEF Start
  <2>4. QED BY <2>1, <2>2, <2>3 DEF TypeOK
<1>2. ASSUME NEW a \in Apps, Stop(a)
      PROVE  TypeOK'
  <2>1. version' \in [Apps -> Versions] /\ version[a] \in Versions
    BY <1>2 DEF Stop, TypeOK
  <2>2. due' \in Seq(Event) /\ (~listening => due' = due)
    <3> DEFINE gone == Owner(a, version[a], FALSE)
    <3>1. PICK events \in {<<gone, LostName(a)>>, <<LostName(a), gone>>} : Tell(events)
      BY <1>2 DEF Stop
    <3>2. gone \in Event /\ LostName(a) \in Event
      BY <2>1 DEF Owner, LostName, Event
    <3>3. events \in Seq(Event)
      <4> DEFINE lost == LostName(a)
      <4>1. events = <<gone, lost>> \/ events = <<lost, gone>>
        BY <3>1
      <4>2. gone \in Event /\ lost \in Event
        BY <3>2
      <4> HIDE DEF gone, lost
      <4>3. <<gone, lost>> \in Seq(Event) /\ <<lost, gone>> \in Seq(Event)
        BY ONLY <4>2, Short
      <4>4. QED BY ONLY <4>1, <4>3
    <3>4. due \in Seq(Event)
      BY DEF TypeOK
    <3>5. QED BY <3>1, <3>3, <3>4, Told DEF Tell
  <2>3. UNCHANGED <<listening, uniqueName, walks, toFar, presence, far>>
    BY <1>2 DEF Stop
  <2>4. QED BY <2>1, <2>2, <2>3 DEF TypeOK
<1>3. ASSUME ReceiveAvailable
      PROVE  TypeOK'
  <2>1. due' \in Seq(Event)
    <3>1. CASE listening
      BY <1>3, <3>1 DEF ReceiveAvailable, TypeOK
    <3>2. CASE ~listening
      <4>1. due' \in SetToSeqs(Present)
        BY <1>3, <3>2 DEF ReceiveAvailable, Present, Running
      <4>2. due' \in Seq(Present)
        BY <4>1, PresentIsFinite, Orders
      <4>3. Present \subseteq Event
        BY DEF Present, Running, Found, Announced, Event
      <4>4. QED BY <4>2, <4>3, SeqMonotonic
    <3>3. QED BY <3>1, <3>2
  <2>2. presence' \in Seq({"available", "unavailable"})
    BY <1>3, Rests DEF ReceiveAvailable, TypeOK
  <2>3. QED BY <1>3, <2>1, <2>2 DEF ReceiveAvailable, TypeOK
<1>4. ASSUME ReceiveUnavailable
      PROVE  TypeOK'
  <2>1. presence' \in Seq({"available", "unavailable"})
    BY <1>4, Rests DEF ReceiveUnavailable, TypeOK
  <2>2. due' = <<>> /\ walks' = {} /\ listening' = FALSE
    BY <1>4 DEF ReceiveUnavailable
  <2>3. UNCHANGED <<version, uniqueName, toFar, far>>
    BY <1>4 DEF ReceiveUnavailable
  <2>4. <<>> \in Seq(Event)
    BY EmptySeq
  <2>5. QED BY <2>1, <2>2, <2>3, <2>4 DEF TypeOK
<1>5. ASSUME NameOwnerChanged
      PROVE  TypeOK'
  <2> DEFINE e == Head(due)
  <2>1. due' \in Seq(Event) /\ e \in Event /\ e.type = "Owner" /\ listening
    BY <1>5, Rests DEF NameOwnerChanged, Callback, TypeOK
  <2>2. e.app \in Apps /\ e.version \in Versions /\ e.up \in BOOLEAN
    BY <2>1 DEF Event
  <2>3. uniqueName' \in [Apps -> Versions]
    BY <1>5, <2>2 DEF NameOwnerChanged, TypeOK
  <2>4. toFar' \in Seq(Message)
    <3> DEFINE m == [type |-> "NameOwnerChanged", app |-> e.app, version |-> e.version]
    <3>1. m \in Message
      BY <2>2 DEF Message
    <3>2. toFar' = toFar \/ Send(m)
      BY <1>5 DEF NameOwnerChanged
    <3>3. QED BY <3>1, <3>2, Sent DEF TypeOK
  <2>5. UNCHANGED <<version, listening, walks, presence, far>>
    BY <1>5 DEF NameOwnerChanged
  <2>6. QED BY <2>1, <2>3, <2>4, <2>5 DEF TypeOK
<1>6. ASSUME FoundAdvertisedName \/ ListenerAnnounced
      PROVE  TypeOK'
  <2>1. PICK type \in {"Advertisement", "Announce"} :
           due # <<>> /\ due' = Tail(due) /\ Introspect(type)
    BY <1>6 DEF FoundAdvertisedName, ListenerAnnounced, Callback
  <2>2. due' \in Seq(Event) /\ Head(due) \in Event /\ listening
    BY <2>1, Rests DEF TypeOK
  <2>3. App \in Apps /\ version[App] \in Versions
    BY <2>2 DEF App, Event, TypeOK
  <2>4. walks' \subseteq walks \cup {Walk(type, App, version[App])}
    BY <2>1 DEF Introspect
  <2>5. Walk(type, App, version[App]) \in [type : {"Advertisement", "Announce"}, app : Apps,
                                           version : Versions, at : {"root", "tree"}]
    BY <2>3 DEF Walk
  <2>6. UNCHANGED <<version, listening, uniqueName, toFar, presence, far>>
    BY <2>1 DEF Introspect
  <2>7. QED BY <2>2, <2>4, <2>5, <2>6 DEF TypeOK
<1>7. ASSUME LostAdvertisedName
      PROVE  TypeOK'
  <2>1. due' \in Seq(Event) /\ App \in Apps /\ listening
    BY <1>7, Rests DEF LostAdvertisedName, Callback, App, Event, TypeOK
  <2>2. [type |-> "AdvertLost", app |-> App] \in Message
    BY <2>1 DEF Message
  <2>3. toFar' \in Seq(Message)
    BY <1>7, <2>2, Sent DEF LostAdvertisedName, TypeOK
  <2>4. UNCHANGED <<version, listening, uniqueName, walks, presence, far>>
    BY <1>7 DEF LostAdvertisedName
  <2>5. QED BY <2>1, <2>3, <2>4 DEF TypeOK
<1>8. ASSUME NEW w \in walks, IntrospectCallback(w)
      PROVE  TypeOK'
  <2>1. w \in [type : {"Advertisement", "Announce"}, app : Apps,
               version : Versions, at : {"root", "tree"}]
    BY DEF TypeOK
  <2>2. [w EXCEPT !.at = "tree"] \in [type : {"Advertisement", "Announce"}, app : Apps,
                                      version : Versions, at : {"root", "tree"}]
    BY <2>1
  <2>3. walks' \subseteq walks \cup {[w EXCEPT !.at = "tree"]}
    BY <1>8 DEF IntrospectCallback
  <2>4. UNCHANGED <<version, listening, due, uniqueName, toFar, presence, far>>
    BY <1>8 DEF IntrospectCallback
  <2>5. listening
    BY DEF TypeOK
  <2>6. QED BY <2>2, <2>3, <2>4, <2>5 DEF TypeOK
<1>9. ASSUME NEW w \in walks, GetBusObjectsCallback(w) \/ GetBusObjectsAnnouncementCallback(w)
      PROVE  TypeOK'
  <2>1. w.app \in Apps /\ uniqueName[w.app] \in Versions
    BY DEF TypeOK
  <2>2. [type |-> "Advertisement", app |-> w.app, version |-> uniqueName[w.app]] \in Message
    BY <2>1 DEF Message
  <2>3. [type |-> "Announce", app |-> w.app, version |-> uniqueName[w.app], by |-> AnnouncedBy]
           \in Message
    BY <2>1 DEF Message
  <2>4. toFar' \in Seq(Message)
    BY <1>9, <2>2, <2>3, Sent
       DEF GetBusObjectsCallback, GetBusObjectsAnnouncementCallback,
           SendAdvertisement, SendAnnounce, TypeOK
  <2>5. /\ walks' \subseteq walks
        /\ UNCHANGED <<version, listening, due, uniqueName, presence, far>>
    BY <1>9 DEF GetBusObjectsCallback, GetBusObjectsAnnouncementCallback
  <2>6. QED BY <2>4, <2>5 DEF TypeOK
<1>10. ASSUME FarXmppThread
       PROVE  TypeOK'
  <2>1. toFar # <<>> /\ toFar' = Tail(toFar)
    BY <1>10 DEF FarXmppThread, ReceiveAdvertisement, ReceiveAnnounce,
                 ReceiveAdvertisementLost, ReceiveNameOwnerChanged, Available
  <2>2. toFar' \in Seq(Message) /\ Head(toFar) \in Message
    BY <2>1, Rests DEF TypeOK
  <2>3. UNCHANGED <<version, near, presence, farUp, outages>>
    BY <1>10 DEF FarXmppThread, ReceiveAdvertisement, ReceiveAnnounce,
                 ReceiveAdvertisementLost, ReceiveNameOwnerChanged
  <2>4. standIns' \subseteq [app : Apps, version : Versions, name : {"wkn", "unique"}]
    <3>1. CASE ReceiveAdvertisementLost \/ ReceiveNameOwnerChanged
      BY <3>1 DEF ReceiveAdvertisementLost, ReceiveNameOwnerChanged, TypeOK
    <3>2. CASE ReceiveAdvertisement
      BY <2>2, <3>2 DEF ReceiveAdvertisement, Available, WithStandIn, NoStandIn, StandInGivenUp,
                        Message, TypeOK
    <3>3. CASE ReceiveAnnounce
      BY <2>2, <3>3 DEF ReceiveAnnounce, Available, WithStandIn, NoStandIn, Message, TypeOK
    <3>4. QED BY <1>10, <3>1, <3>2, <3>3 DEF FarXmppThread
  <2>5. QED BY <2>2, <2>3, <2>4 DEF TypeOK
<1>11. ASSUME FarGoes
       PROVE  TypeOK'
  <2>1. presence' = Append(presence, "unavailable") /\ presence \in Seq({"available", "unavailable"})
    BY <1>11 DEF FarGoes, TypeOK
  <2>2. presence' \in Seq({"available", "unavailable"})
    BY <2>1, AppendProperties
  <2>3. toFar' = <<>> /\ standIns' = {} /\ farUp' = FALSE /\ outages' \in 0 .. MaxOutages
    BY <1>11 DEF FarGoes, TypeOK
  <2>4. UNCHANGED <<version, near>>
    BY <1>11 DEF FarGoes
  <2>5. <<>> \in Seq(Message)
    BY EmptySeq
  <2>6. QED BY <2>2, <2>3, <2>4, <2>5 DEF TypeOK
<1>12. ASSUME FarReturns
       PROVE  TypeOK'
  <2>1. presence' = Append(presence, "available") /\ presence \in Seq({"available", "unavailable"})
    BY <1>12 DEF FarReturns, TypeOK
  <2>2. presence' \in Seq({"available", "unavailable"})
    BY <2>1, AppendProperties
  <2>3. farUp' = TRUE /\ UNCHANGED <<version, near, toFar, outages, standIns>>
    BY <1>12 DEF FarReturns
  <2>4. QED BY <2>2, <2>3 DEF TypeOK
<1>13. QED BY <1>1, <1>2, <1>3, <1>4, <1>5, <1>6, <1>7, <1>8, <1>9, <1>10, <1>11, <1>12
           DEF Next, NearXmppThread, Listener, Answer

(* The types hold at first.                                                *)
LEMMA FirstTypes ==
    ASSUME Init
    PROVE  TypeOK
<1>1. <<>> \in Seq(Event) /\ <<>> \in Seq(Message)
  BY EmptySeq
<1>2. <<"available">> \in Seq({"available", "unavailable"})
  BY Short
<1>3. /\ due = <<>> /\ toFar = <<>> /\ presence = <<"available">>
      /\ walks = {} /\ standIns = {} /\ farUp = TRUE /\ outages = 0 /\ listening = FALSE
      /\ version = [a \in Apps |-> 0] /\ uniqueName = [a \in Apps |-> 0]
      /\ failed = [a \in Apps |-> {}]
  BY DEF Init
<1>4. 0 \in Versions /\ 0 \in 0 .. MaxOutages
  BY ConstantsAssumption DEF Versions
<1>5. QED BY <1>1, <1>2, <1>3, <1>4 DEF TypeOK

(* Every variable keeps its type, whatever AllJoyn, the applications and   *)
(* the server do: no callback or message is of a shape the handlers of     *)
(* AllJoynListener and of the far connector do not know, and nothing is    *)
(* due or under way without a watching attachment.                         *)
THEOREM TypeCorrect == Spec => []TypeOK
<1>1. Init => TypeOK
  BY FirstTypes
<1>2. TypeOK /\ [Next]_vars => TypeOK'
  <2>1. ASSUME TypeOK, UNCHANGED vars
        PROVE  TypeOK'
    BY <2>1 DEF TypeOK, vars, near, far
  <2>2. QED BY <2>1, StepTypes
<1>3. QED BY <1>1, <1>2, PTL DEF Spec

-----------------------------------------------------------------------------
(* What is under way.  A message m of the queue box after the place i.     *)
After(box, i, m) == \E j \in DOMAIN box : i < j /\ box[j] = m

(* The places of the callbacks by which a appears, those that begin one    *)
(* way of it, and of those by which it goes.                               *)
Appears(box, a) == {i \in DOMAIN box : box[i].app = a /\ box[i].type \in {"Found", "Announced"}}
Beginning(way) == IF way = "Advertisement" THEN "Found" ELSE "Announced"
Begins(box, way, a) == {i \in DOMAIN box : box[i].app = a /\ box[i].type = Beginning(way)}
Goes(box, a) ==
    {i \in DOMAIN box : /\ box[i].app = a
                        /\ box[i].type = "Lost" \/ (box[i].type = "Owner" /\ ~box[i].up)}

(* The places of the messages that report a, those of one way, and of     *)
(* those that withdraw it.                                                 *)
Reports(box, a) == {i \in DOMAIN box : box[i].app = a /\ box[i].type \in Ways}
Tells(box, way, a) == {i \in DOMAIN box : box[i].app = a /\ box[i].type = way}
Withdraws(box, a) ==
    {i \in DOMAIN box : box[i].app = a /\ box[i].type \in {"AdvertLost", "NameOwnerChanged"}}

Ends(S, T) == \E i \in S : \A j \in T : j < i

(* A far connector that returns only when its going has been noticed: the  *)
(* near one watches while it is there, and otherwise nothing is on its way *)
(* to it and it keeps nothing.                                             *)
LinkInv ==
    /\ farUp => \/ listening /\ presence = <<>>
                \/ ~listening /\ presence = <<"available">>
    /\ ~farUp => \/ listening /\ presence = <<"unavailable">>
                 \/ ~listening /\ presence \in {<<>>, <<"available", "unavailable">>}
    /\ ~(farUp /\ listening) => toFar = <<>> /\ standIns = {}

(* Every stand-in carries the well-known name.                             *)
NameInv ==
    /\ \A s \in standIns : s.name = "wkn"
    /\ \A i \in DOMAIN toFar : toFar[i].type = "Announce" => toFar[i].by = "wkn"

(* The stand-in of a is there, or, on this way, its report, introspection  *)
(* or the callback that begins one; and nothing that would undo it comes   *)
(* after.                                                                  *)
Coming(way, a) ==
    \/ Ends(Begins(due, way, a), Goes(due, a))
    \/ /\ Goes(due, a) = {}
       /\ \/ \E w \in walks : w.type = way /\ w.app = a /\ w.version = version[a]
          \/ Ends(Tells(toFar, way, a), Withdraws(toFar, a))
          \/ Withdraws(toFar, a) = {} /\ \E s \in standIns : s.app = a

MissingInv ==
    farUp /\ listening =>
       \A a \in Apps : Up(a) => \A way \in Ways : way \in failed[a] \/ Coming(way, a)

-----------------------------------------------------------------------------
(* A queue after its first message is taken, and one with more appended.   *)
LEMMA WhereFrom ==
    ASSUME NEW M, NEW box \in Seq(M), box # <<>>, NEW rest, rest = Tail(box)
    PROVE  \A i \in DOMAIN rest : /\ i \in Nat /\ i > 0
                                 /\ i + 1 \in DOMAIN box /\ rest[i] = box[i + 1]
<1>1. Len(box) \in Nat \ {0}
  BY EmptySeq, Zenon
<1>2. QED BY <1>1

LEMMA WhereTo ==
    ASSUME NEW M, NEW box \in Seq(M), box # <<>>, NEW rest, rest = Tail(box)
    PROVE  /\ 1 \in DOMAIN box /\ Head(box) = box[1]
           /\ \A i \in DOMAIN box : /\ i \in Nat /\ i > 0
                                   /\ i # 1 => i - 1 \in DOMAIN rest /\ rest[i - 1] = box[i]
<1>1. Len(box) \in Nat \ {0}
  BY EmptySeq, Zenon
<1>2. QED BY <1>1

LEMMA Longer ==
    ASSUME NEW M, NEW box \in Seq(M), NEW more \in Seq(M), NEW long, long = box \o more
    PROVE  /\ Len(box) \in Nat
           /\ \A i \in DOMAIN box : /\ i \in Nat /\ 0 < i /\ i <= Len(box)
                                   /\ i \in DOMAIN long /\ long[i] = box[i]
           /\ \A k \in DOMAIN more : /\ k \in Nat /\ 0 < k /\ Len(box) + k \in DOMAIN long
                                    /\ long[Len(box) + k] = more[k]
           /\ \A i \in DOMAIN long :
                 \/ i \in DOMAIN box
                 \/ /\ i \in Nat /\ i > Len(box)
                    /\ i - Len(box) \in DOMAIN more /\ long[i] = more[i - Len(box)]
<1>1. /\ Len(box) \in Nat /\ Len(more) \in Nat /\ Len(long) = Len(box) + Len(more)
      /\ DOMAIN box = 1 .. Len(box) /\ DOMAIN more = 1 .. Len(more) /\ DOMAIN long = 1 .. Len(long)
      /\ \A i \in 1 .. Len(box) + Len(more) :
            long[i] = IF i <= Len(box) THEN box[i] ELSE more[i - Len(box)]
  BY ConcatProperties, LenProperties
<1>2. QED BY <1>1

LEMMA OneLonger ==
    ASSUME NEW M, NEW box \in Seq(M), NEW m, NEW long, long = Append(box, m)
    PROVE  /\ Len(box) + 1 \in DOMAIN long /\ long[Len(box) + 1] = m /\ Len(box) \in Nat
           /\ \A i \in DOMAIN box : /\ i \in Nat /\ 0 < i /\ i <= Len(box)
                                   /\ i \in DOMAIN long /\ long[i] = box[i]
           /\ \A i \in DOMAIN long : i \in DOMAIN box \/ i = Len(box) + 1
  OBVIOUS

(* The presence of the far connector is noticed in order.                  *)
LEMMA StepLink ==
    ASSUME TypeOK, LinkInv, ~Hasty, Next
    PROVE  LinkInv'
<1> USE DEF near, far
<1>1. ASSUME NEW a \in Apps, Start(a) \/ Stop(a)
      PROVE  LinkInv'
  <2>1. UNCHANGED <<listening, toFar, presence, far>>
    BY <1>1 DEF Start, Stop
  <2>2. QED BY <2>1 DEF LinkInv
<1>2. ASSUME ReceiveAvailable
      PROVE  LinkInv'
  <2>1. presence # <<>> /\ Head(presence) = "available" /\ presence' = Tail(presence)
    BY <1>2 DEF ReceiveAvailable
  <2>2. listening' = TRUE /\ UNCHANGED <<toFar, far>>
    BY <1>2 DEF ReceiveAvailable
  <2>3. presence = <<"available">> \/ presence = <<"available", "unavailable">>
    <3>1. presence # <<"unavailable">>
      BY <2>1
    <3>2. QED BY <2>1, <3>1 DEF LinkInv, TypeOK
  <2>4. ~listening
    BY <2>3, <2>1 DEF LinkInv
  <2>5. CASE presence = <<"available">>
    <3>1. presence' = <<>>
      BY <2>1, <2>5
    <3>2. farUp
      BY <2>5, <2>4 DEF LinkInv, TypeOK
    <3>3. QED BY <2>2, <2>4, <3>1, <3>2 DEF LinkInv
  <2>6. CASE presence = <<"available", "unavailable">>
    <3>1. presence' = <<"unavailable">>
      BY <2>1, <2>6
    <3>2. ~farUp
      BY <2>6, <2>4 DEF LinkInv, TypeOK
    <3>3. QED BY <2>2, <2>4, <3>1, <3>2 DEF LinkInv
  <2>7. QED BY <2>3, <2>5, <2>6
<1>3. ASSUME ReceiveUnavailable
      PROVE  LinkInv'
  <2>1. presence # <<>> /\ Head(presence) = "unavailable" /\ presence' = Tail(presence)
    BY <1>3 DEF ReceiveUnavailable
  <2>2. listening' = FALSE /\ UNCHANGED <<toFar, far>>
    BY <1>3 DEF ReceiveUnavailable
  <2>3. presence = <<"unavailable">> /\ ~farUp
    <3>1. presence # <<"available">> /\ presence # <<"available", "unavailable">>
      BY <2>1
    <3>2. QED BY <2>1, <3>1 DEF LinkInv, TypeOK
  <2>4. presence' = <<>>
    BY <2>1, <2>3
  <2>5. QED BY <2>2, <2>3, <2>4 DEF LinkInv
<1>4. ASSUME Listener \/ \E w \in walks : Answer(w)
      PROVE  LinkInv'
  <2>1. UNCHANGED <<listening, presence, far>>
    BY <1>4 DEF Listener, Answer, NameOwnerChanged, FoundAdvertisedName, ListenerAnnounced,
                LostAdvertisedName, Introspect, IntrospectCallback, GetBusObjectsCallback,
                GetBusObjectsAnnouncementCallback
  <2>2. listening
    BY <1>4 DEF Listener, NameOwnerChanged, FoundAdvertisedName, ListenerAnnounced,
                LostAdvertisedName, Callback, TypeOK
  <2>3. ~farUp => toFar' = toFar
    BY <1>4 DEF Listener, Answer, NameOwnerChanged, FoundAdvertisedName, ListenerAnnounced,
                LostAdvertisedName, Introspect, IntrospectCallback, GetBusObjectsCallback,
                GetBusObjectsAnnouncementCallback, SendAdvertisement, SendAnnounce, Send
  <2>4. QED BY <2>1, <2>2, <2>3 DEF LinkInv, TypeOK
<1>5. ASSUME FarXmppThread
      PROVE  LinkInv'
  <2>1. UNCHANGED <<listening, presence, farUp>> /\ farUp /\ toFar # <<>>
    BY <1>5 DEF FarXmppThread, ReceiveAdvertisement, ReceiveAnnounce,
                ReceiveAdvertisementLost, ReceiveNameOwnerChanged, Available
  <2>2. QED BY <2>1 DEF LinkInv
<1>6. ASSUME FarGoes
      PROVE  LinkInv'
  <2>1. /\ farUp /\ farUp' = FALSE /\ standIns' = {} /\ toFar' = <<>>
        /\ presence' = Append(presence, "unavailable") /\ listening' = listening
    BY <1>6 DEF FarGoes
  <2>2. CASE listening /\ presence = <<>>
    <3>1. presence' = <<"unavailable">>
      BY <2>1, <2>2
    <3>2. QED BY <2>1, <2>2, <3>1 DEF LinkInv
  <2>3. CASE ~listening /\ presence = <<"available">>
    <3>1. presence' = <<"available", "unavailable">>
      <4>1. <<"available", "unavailable">> = Append(<<"available">>, "unavailable")
        BY Short
      <4>2. QED BY <2>1, <2>3, <4>1, Zenon
    <3>2. QED BY <2>1, <2>3, <3>1 DEF LinkInv
  <2>4. QED BY <2>1, <2>2, <2>3 DEF LinkInv
<1>7. ASSUME FarReturns
      PROVE  LinkInv'
  <2>1. /\ ~farUp /\ farUp' = TRUE /\ presence = <<>>
        /\ presence' = Append(presence, "available") /\ UNCHANGED <<listening, toFar, standIns>>
    BY <1>7 DEF FarReturns
  <2>2. presence' = <<"available">>
    BY <2>1
  <2>3. ~listening
    BY <2>1 DEF LinkInv
  <2>4. QED BY <2>1, <2>2, <2>3 DEF LinkInv
<1>8. QED BY <1>1, <1>2, <1>3, <1>4, <1>5, <1>6, <1>7 DEF Next, NearXmppThread

(* What is sent to the far connector is appended if it is there.           *)
LEMMA StepName ==
    ASSUME TypeOK, NameInv, AnnouncedBy = "wkn", Next
    PROVE  NameInv'
<1> USE DEF near, far
<1>1. ASSUME NEW m \in Message, Send(m), standIns' = standIns, m.type = "Announce" => m.by = "wkn"
      PROVE  NameInv'
  <2>1. CASE toFar' = toFar
    BY <1>1, <2>1 DEF NameInv
  <2>2. CASE toFar' = Append(toFar, m)
    <3>1. toFar \in Seq(Message)
      BY DEF TypeOK
    <3>2. \A i \in DOMAIN toFar' : toFar'[i] = m \/ (i \in DOMAIN toFar /\ toFar'[i] = toFar[i])
      BY <2>2, <3>1, OneLonger
    <3>3. QED BY <1>1, <3>2 DEF NameInv
  <2>3. QED BY <1>1, <2>1, <2>2 DEF Send
<1>2. ASSUME UNCHANGED <<toFar, standIns>>
      PROVE  NameInv'
  BY <1>2 DEF NameInv
<1>3. ASSUME toFar' = <<>>, standIns' = {}
      PROVE  NameInv'
  BY <1>3 DEF NameInv
<1>4. ASSUME NameOwnerChanged
      PROVE  NameInv'
  <2> DEFINE e == Head(due)
             m == [type |-> "NameOwnerChanged", app |-> e.app, version |-> e.version]
  <2>1. e \in Event /\ e.type = "Owner"
    BY <1>4, Rests DEF NameOwnerChanged, Callback, TypeOK
  <2>2. m \in Message /\ m.type = "NameOwnerChanged"
    BY <2>1 DEF Event, Message
  <2>3. (toFar' = toFar \/ Send(m)) /\ standIns' = standIns
    BY <1>4 DEF NameOwnerChanged
  <2> HIDE DEF m
  <2>4. QED BY <1>1, <1>2, <2>2, <2>3
<1>5. ASSUME LostAdvertisedName
      PROVE  NameInv'
  <2> DEFINE m == [type |-> "AdvertLost", app |-> App]
  <2>1. App \in Apps
    BY <1>5, Rests DEF LostAdvertisedName, Callback, App, Event, TypeOK
  <2>2. m \in Message /\ m.type = "AdvertLost"
    BY <2>1 DEF Message
  <2>3. Send(m) /\ standIns' = standIns
    BY <1>5 DEF LostAdvertisedName
  <2> HIDE DEF m
  <2>4. QED BY <1>1, <2>2, <2>3
<1>6. ASSUME NEW w \in walks, GetBusObjectsCallback(w) \/ GetBusObjectsAnnouncementCallback(w)
      PROVE  NameInv'
  <2>1. w.app \in Apps /\ uniqueName[w.app] \in Versions
    BY DEF TypeOK
  <2>2. PICK m \in Message : Send(m) /\ (m.type = "Announce" => m.by = "wkn")
    BY <1>6, <2>1 DEF GetBusObjectsCallback, GetBusObjectsAnnouncementCallback,
                      SendAdvertisement, SendAnnounce, Message
  <2>3. standIns' = standIns
    BY <1>6 DEF GetBusObjectsCallback, GetBusObjectsAnnouncementCallback
  <2>4. QED BY <1>1, <2>2, <2>3
<1>7. ASSUME FarXmppThread
      PROVE  NameInv'
  <2>1. toFar \in Seq(Message) /\ toFar # <<>> /\ toFar' = Tail(toFar)
    BY <1>7 DEF FarXmppThread, ReceiveAdvertisement, ReceiveAnnounce,
                ReceiveAdvertisementLost, ReceiveNameOwnerChanged, Available, TypeOK
  <2>2. \A i \in DOMAIN toFar' : toFar'[i].type = "Announce" => toFar'[i].by = "wkn"
    BY <2>1, WhereFrom DEF NameInv
  <2>3. Head(toFar).type = "Announce" => Head(toFar).by = "wkn"
    BY <2>1, WhereTo DEF NameInv
  <2>4. \A s \in standIns' : s.name = "wkn"
    <3>1. ASSUME NEW name, name = "wkn", standIns' = WithStandIn(Head(toFar), name)
          PROVE  \A s \in standIns' : s.name = "wkn"
      BY <3>1 DEF WithStandIn, NameInv
    <3>2. standIns' \subseteq standIns \/ standIns' = WithStandIn(Head(toFar), "wkn")
      <4>1. CASE ReceiveAdvertisement
        BY <4>1 DEF ReceiveAdvertisement, NoStandIn, StandInGivenUp
      <4>2. CASE ReceiveAnnounce
        BY <4>2, <2>3 DEF ReceiveAnnounce, NoStandIn, Available
      <4>3. CASE ReceiveAdvertisementLost \/ ReceiveNameOwnerChanged
        BY <4>3 DEF ReceiveAdvertisementLost, ReceiveNameOwnerChanged
      <4>4. QED BY <1>7, <4>1, <4>2, <4>3 DEF FarXmppThread
    <3>3. QED BY <3>1, <3>2 DEF NameInv
  <2>5. QED BY <2>2, <2>4 DEF NameInv
<1>8. ASSUME FarGoes
      PROVE  NameInv'
  BY <1>3, <1>8 DEF FarGoes
<1>9. ASSUME NEW a \in Apps, Start(a) \/ Stop(a)
      PROVE  NameInv'
  BY <1>2, <1>9 DEF Start, Stop
<1>10. ASSUME \/ ReceiveAvailable \/ ReceiveUnavailable \/ FoundAdvertisedName
              \/ ListenerAnnounced \/ FarReturns
       PROVE  NameInv'
  BY <1>2, <1>10 DEF ReceiveAvailable, ReceiveUnavailable, FoundAdvertisedName,
                     ListenerAnnounced, Introspect, FarReturns
<1>11. ASSUME NEW w \in walks, IntrospectCallback(w)
       PROVE  NameInv'
  BY <1>2, <1>11 DEF IntrospectCallback
<1>12. QED BY <1>4, <1>5, <1>6, <1>7, <1>8, <1>9, <1>10, <1>11
           DEF Next, NearXmppThread, Listener, Answer

-----------------------------------------------------------------------------
(* What the start and the end of an application append for the listener.   *)
LEMMA Started ==
    ASSUME TypeOK, listening, NEW a \in Apps, Start(a)
    PROVE  /\ due \in Seq(Event)
           /\ \E more \in Seq(Event) :
                 /\ due' = due \o more
                 /\ DOMAIN more = 1 .. 3 /\ more[1] = Owner(a, version[a] + 1, TRUE)
                 /\ \/ more[2] = Found(a) /\ more[3] = Announced(a)
                    \/ more[2] = Announced(a) /\ more[3] = Found(a)
<1> DEFINE owner == Owner(a, version[a] + 1, TRUE)
<1>1. PICK events \in {<<Found(a), Announced(a)>>, <<Announced(a), Found(a)>>} :
         Tell(<<owner>> \o events)
  BY DEF Start
<1>2. due' = due \o (<<owner>> \o events)
  BY <1>1 DEF Tell
<1>3. version[a] + 1 \in Versions
  BY ConstantsAssumption DEF Start, TypeOK, Versions
<1>4. owner \in Event /\ Found(a) \in Event /\ Announced(a) \in Event
  BY <1>3 DEF Owner, Found, Announced, Event
<1>5. events \in Seq(Event) /\ <<owner>> \in Seq(Event)
  BY <1>4, Short
<1> HIDE DEF owner
<1>6. /\ DOMAIN (<<owner>> \o events) = 1 .. 3
      /\ (<<owner>> \o events)[1] = owner
      /\ (<<owner>> \o events)[2] = events[1] /\ (<<owner>> \o events)[3] = events[2]
  <2> DEFINE one == <<owner>>
             long == one \o events
  <2>1. Len(events) = 2 /\ DOMAIN events = 1 .. 2 /\ Len(one) = 1 /\ DOMAIN one = 1 .. 1 /\ one[1] = owner
    OBVIOUS
  <2>2. one \in Seq(Event)
    BY <1>5
  <2> HIDE DEF one
  <2>3. long \in Seq(Event) /\ Len(long) = Len(one) + Len(events)
    BY <1>5, <2>2, ConcatProperties
  <2>4. DOMAIN long = 1 .. 3
    BY <2>1, <2>3, LenProperties
  <2>5. /\ 1 \in DOMAIN one => long[1] = one[1]
        /\ 1 \in DOMAIN events => long[Len(one) + 1] = events[1]
        /\ 2 \in DOMAIN events => long[Len(one) + 2] = events[2]
    BY <1>5, <2>2, Longer
  <2>6. /\ long[1] = one[1]
        /\ long[2] = events[1] /\ long[3] = events[2]
    <3>1. 1 \in DOMAIN one /\ 1 \in DOMAIN events /\ 2 \in DOMAIN events
      BY <2>1
    <3>2. Len(one) + 1 = 2 /\ Len(one) + 2 = 3
      BY <2>1
    <3> HIDE DEF long
    <3>3. QED BY <2>5, <3>1, <3>2
  <2>7. QED BY <2>1, <2>4, <2>6 DEF one
<1>7. <<owner>> \o events \in Seq(Event)
  BY <1>5, ConcatProperties
<1>8. \/ events[1] = Found(a) /\ events[2] = Announced(a)
      \/ events[1] = Announced(a) /\ events[2] = Found(a)
  OBVIOUS
<1>9. QED BY <1>2, <1>6, <1>7, <1>8 DEF TypeOK, owner

LEMMA Stopped ==
    ASSUME TypeOK, listening, NEW a \in Apps, Stop(a)
    PROVE  /\ due \in Seq(Event)
           /\ \E more \in Seq(Event) :
                 /\ due' = due \o more
                 /\ DOMAIN more = 1 .. 2
                 /\ \/ more[1] = Owner(a, version[a], FALSE) /\ more[2] = LostName(a)
                    \/ more[1] = LostName(a) /\ more[2] = Owner(a, version[a], FALSE)
<1> DEFINE gone == Owner(a, version[a], FALSE)
<1>1. PICK events \in {<<gone, LostName(a)>>, <<LostName(a), gone>>} : Tell(events)
  BY DEF Stop
<1>2. due' = due \o events
  BY <1>1 DEF Tell
<1>3. gone \in Event /\ LostName(a) \in Event
  BY DEF Owner, LostName, Event, TypeOK
<1> HIDE DEF gone
<1>4. events \in Seq(Event)
  BY <1>3, Short
<1>5. DOMAIN events = 1 .. 2
  OBVIOUS
<1>6. \/ events[1] = gone /\ events[2] = LostName(a)
      \/ events[1] = LostName(a) /\ events[2] = gone
  OBVIOUS
<1>7. QED BY <1>2, <1>4, <1>5, <1>6 DEF TypeOK, gone

(* A callback taken: what appears stays the last, or has just been taken.  *)
LEMMA CallbackTaken ==
    ASSUME NEW box \in Seq(Event), box # <<>>, NEW rest, rest = Tail(box), NEW a, NEW way
    PROVE  /\ Goes(box, a) = {} => Goes(rest, a) = {}
           /\ Ends(Begins(box, way, a), Goes(box, a)) =>
                 \/ Ends(Begins(rest, way, a), Goes(rest, a))
                 \/ /\ Goes(rest, a) = {}
                    /\ Head(box).app = a /\ Head(box).type = Beginning(way)
           /\ Head(box).app = a /\ (Head(box).type = "Lost" \/ (Head(box).type = "Owner" /\ ~Head(box).up))
                 => Goes(box, a) # {}
<1>1. \A j \in Goes(rest, a) : j \in Nat /\ j + 1 \in Goes(box, a)
  BY WhereFrom DEF Goes
<1>2. /\ 1 \in DOMAIN box /\ Head(box) = box[1]
      /\ \A i \in Begins(box, way, a) : i \in Nat /\ (i # 1 => i - 1 \in Begins(rest, way, a))
  BY WhereTo DEF Begins
<1>3. ASSUME Ends(Begins(box, way, a), Goes(box, a))
      PROVE  \/ Ends(Begins(rest, way, a), Goes(rest, a))
             \/ /\ Goes(rest, a) = {}
                /\ Head(box).app = a /\ Head(box).type = Beginning(way)
  <2>1. PICK i \in Begins(box, way, a) : \A j \in Goes(box, a) : j < i
    BY <1>3 DEF Ends
  <2>2. i \in Nat /\ \A j \in Goes(rest, a) : j \in Nat /\ j + 1 < i
    BY <1>1, <1>2, <2>1
  <2>3. CASE i # 1
    <3>1. i - 1 \in Begins(rest, way, a)
      BY <1>2, <2>3
    <3>2. \A j \in Goes(rest, a) : j < i - 1
      BY <2>2
    <3>3. QED BY <3>1, <3>2 DEF Ends
  <2>4. CASE i = 1
    <3>1. Goes(rest, a) = {}
      BY <2>2, <2>4
    <3>2. QED BY <1>2, <2>4, <3>1 DEF Begins
  <2>5. QED BY <2>3, <2>4
<1>4. QED BY <1>1, <1>2, <1>3 DEF Goes

(* A message taken: likewise.                                              *)
LEMMA MessageTaken ==
    ASSUME NEW box \in Seq(Message), box # <<>>, NEW rest, rest = Tail(box), NEW a, NEW way
    PROVE  /\ Withdraws(box, a) = {} => Withdraws(rest, a) = {}
           /\ Ends(Tells(box, way, a), Withdraws(box, a)) =>
                 \/ Ends(Tells(rest, way, a), Withdraws(rest, a))
                 \/ /\ Withdraws(rest, a) = {}
                    /\ Head(box).app = a /\ Head(box).type = way
           /\ Head(box).app = a /\ Head(box).type \in {"AdvertLost", "NameOwnerChanged"}
                 => Withdraws(box, a) # {}
<1>1. \A j \in Withdraws(rest, a) : j \in Nat /\ j + 1 \in Withdraws(box, a)
  BY WhereFrom DEF Withdraws
<1>2. /\ 1 \in DOMAIN box /\ Head(box) = box[1]
      /\ \A i \in Tells(box, way, a) : i \in Nat /\ (i # 1 => i - 1 \in Tells(rest, way, a))
  BY WhereTo DEF Tells
<1>3. ASSUME Ends(Tells(box, way, a), Withdraws(box, a))
      PROVE  \/ Ends(Tells(rest, way, a), Withdraws(rest, a))
             \/ /\ Withdraws(rest, a) = {}
                /\ Head(box).app = a /\ Head(box).type = way
  <2>1. PICK i \in Tells(box, way, a) : \A j \in Withdraws(box, a) : j < i
    BY <1>3 DEF Ends
  <2>2. i \in Nat /\ \A j \in Withdraws(rest, a) : j \in Nat /\ j + 1 < i
    BY <1>1, <1>2, <2>1
  <2>3. CASE i # 1
    <3>1. i - 1 \in Tells(rest, way, a)
      BY <1>2, <2>3
    <3>2. \A j \in Withdraws(rest, a) : j < i - 1
      BY <2>2
    <3>3. QED BY <3>1, <3>2 DEF Ends
  <2>4. CASE i = 1
    <3>1. Withdraws(rest, a) = {}
      BY <2>2, <2>4
    <3>2. QED BY <1>2, <2>4, <3>1 DEF Tells
  <2>5. QED BY <2>3, <2>4
<1>4. QED BY <1>1, <1>2, <1>3 DEF Withdraws

(* Callbacks about other applications change nothing for this one.         *)
LEMMA OthersTold ==
    ASSUME NEW box \in Seq(Event), NEW more \in Seq(Event), NEW a, NEW way,
           \A k \in DOMAIN more : more[k].app # a
    PROVE  Begins(box \o more, way, a) = Begins(box, way, a) /\ Goes(box \o more, a) = Goes(box, a)
<1> DEFINE long == box \o more
<1>1. /\ \A i \in DOMAIN box : i \in DOMAIN long /\ long[i] = box[i]
      /\ \A i \in DOMAIN long : i \in DOMAIN box \/ long[i].app # a
  BY Longer
<1> HIDE DEF long
<1>2. Begins(long, way, a) = Begins(box, way, a) /\ Goes(long, a) = Goes(box, a)
  BY <1>1 DEF Begins, Goes
<1>3. QED BY <1>2 DEF long

(* Callbacks that name an application, and none of them its end, are the   *)
(* last word about it.                                                     *)
LEMMA LastToldBegins ==
    ASSUME NEW box \in Seq(Event), NEW more \in Seq(Event), NEW a, NEW way,
           NEW k \in DOMAIN more, more[k].app = a, more[k].type = Beginning(way),
           \A i \in DOMAIN more :
              ~(more[i].type = "Lost" \/ (more[i].type = "Owner" /\ ~more[i].up))
    PROVE  Ends(Begins(box \o more, way, a), Goes(box \o more, a))
<1> DEFINE long == box \o more
<1>1. /\ Len(box) \in Nat /\ k \in Nat /\ 0 < k
      /\ Len(box) + k \in DOMAIN long /\ long[Len(box) + k] = more[k]
      /\ \A i \in DOMAIN box : i \in Nat /\ i <= Len(box)
  BY Longer
<1>2. \A i \in DOMAIN long : i \in DOMAIN box \/ \E j \in DOMAIN more : long[i] = more[j]
  BY Longer
<1> HIDE DEF long
<1>3. Len(box) + k \in Begins(long, way, a)
  BY <1>1 DEF Begins
<1>4. \A i \in Goes(long, a) : i \in DOMAIN box
  BY <1>2 DEF Goes
<1>5. \A i \in Goes(long, a) : i < Len(box) + k
  BY <1>1, <1>4
<1>6. QED BY <1>3, <1>5 DEF Ends, long

(* A message about another application, likewise.                          *)
LEMMA OthersSent ==
    ASSUME NEW box \in Seq(Message), NEW m, NEW a, NEW way, m.app # a
    PROVE  /\ Tells(Append(box, m), way, a) = Tells(box, way, a)
           /\ Withdraws(Append(box, m), a) = Withdraws(box, a)
<1> DEFINE long == Append(box, m)
<1>1. /\ \A i \in DOMAIN box : i \in DOMAIN long /\ long[i] = box[i]
      /\ \A i \in DOMAIN long : i \in DOMAIN box \/ long[i].app # a
  BY OneLonger
<1> HIDE DEF long
<1>2. Tells(long, way, a) = Tells(box, way, a) /\ Withdraws(long, a) = Withdraws(box, a)
  BY <1>1 DEF Tells, Withdraws
<1>3. QED BY <1>2 DEF long

(* A report withdraws nothing.                                             *)
LEMMA ReportsOnly ==
    ASSUME NEW box \in Seq(Message), NEW m, m.type \in Ways, NEW a, NEW way
    PROVE  /\ Ends(Tells(box, way, a), Withdraws(box, a))
                 => Ends(Tells(Append(box, m), way, a), Withdraws(Append(box, m), a))
           /\ Withdraws(Append(box, m), a) = Withdraws(box, a)
<1> DEFINE long == Append(box, m)
<1>1. /\ \A i \in DOMAIN box : i \in DOMAIN long /\ long[i] = box[i]
      /\ \A i \in DOMAIN long : i \in DOMAIN box \/ long[i] = m
  BY OneLonger
<1> HIDE DEF long
<1>2. Withdraws(long, a) = Withdraws(box, a) /\ Tells(box, way, a) \subseteq Tells(long, way, a)
  BY <1>1 DEF Withdraws, Tells, Ways
<1>3. QED BY <1>2 DEF long, Ends

(* A report sent is the last word about its application.                   *)
LEMMA ReportSent ==
    ASSUME NEW box \in Seq(Message), NEW m, NEW way \in Ways, m.type = way
    PROVE  Ends(Tells(Append(box, m), way, m.app), Withdraws(Append(box, m), m.app))
<1> DEFINE long == Append(box, m)
<1>1. /\ Len(box) + 1 \in DOMAIN long /\ long[Len(box) + 1] = m
      /\ \A i \in DOMAIN long : i # Len(box) + 1 => i < Len(box) + 1
  BY OneLonger
<1> HIDE DEF long
<1>2. Len(box) + 1 \in Tells(long, way, m.app)
  BY <1>1 DEF Tells
<1>3. \A j \in Withdraws(long, m.app) : j < Len(box) + 1
  BY <1>1 DEF Withdraws, Ways
<1>4. QED BY <1>2, <1>3 DEF Ends, long

(* What the end of a walk sends: whose, and with which owner of the name.  *)
LEMMA ReportMade ==
    ASSUME farUp', farUp' = farUp, NEW w,
           GetBusObjectsCallback(w) \/ GetBusObjectsAnnouncementCallback(w)
    PROVE  \E m : /\ toFar' = Append(toFar, m) /\ m.app = w.app
                  /\ m.type \in Ways /\ m.type = w.type
                  /\ m.version = uniqueName[w.app]
<1> DEFINE found == [type |-> "Advertisement", app |-> w.app, version |-> uniqueName[w.app]]
           heard == [type |-> "Announce", app |-> w.app, version |-> uniqueName[w.app],
                     by |-> AnnouncedBy]
<1>1. /\ found.app = w.app /\ found.type = "Advertisement" /\ found.version = uniqueName[w.app]
      /\ heard.app = w.app /\ heard.type = "Announce" /\ heard.version = uniqueName[w.app]
  OBVIOUS
<1>2. \/ toFar' = Append(toFar, found) /\ w.type = "Advertisement"
      \/ toFar' = Append(toFar, heard) /\ w.type = "Announce"
  BY DEF GetBusObjectsCallback, GetBusObjectsAnnouncementCallback,
         SendAdvertisement, SendAnnounce, Send
<1> HIDE DEF found, heard
<1>3. QED BY <1>1, <1>2 DEF Ways

(* What has come to nothing is noted, and only a start or a new watch      *)
(* forgets it.                                                             *)
LEMMA Noted ==
    ASSUME TypeOK, NEW a \in Apps, NEW b, NEW ways, Fails(b, ways)
    PROVE  failed[a] \subseteq failed'[a] /\ (a = b => ways \subseteq failed'[a])
  BY DEF Fails, TypeOK

(* Whatever happens, what is to be seen on the far bus stays under way     *)
(* until it is there, or has come to nothing.                              *)
LEMMA StepMissing ==
    ASSUME TypeOK, LinkInv, LinkInv', MissingInv, Next
    PROVE  MissingInv'
<1> SUFFICES ASSUME farUp', listening', NEW a \in Apps, Up(a)',
                    NEW way \in Ways, way \notin failed'[a]
             PROVE  Coming(way, a)'
  BY DEF MissingInv
<1> USE DEF near, far
<1>held. farUp /\ listening /\ Up(a) /\ way \notin failed[a] => Coming(way, a)
  BY DEF MissingInv
<1>0. due \in Seq(Event) /\ toFar \in Seq(Message)
  BY DEF TypeOK
<1>1. ASSUME NEW b \in Apps, Start(b)
      PROVE  Coming(way, a)'
  <2>1. farUp /\ listening /\ UNCHANGED <<walks, toFar, standIns>>
    BY <1>1 DEF Start
  <2>2. PICK more \in Seq(Event) :
           /\ due' = due \o more
           /\ DOMAIN more = 1 .. 3 /\ more[1] = Owner(b, version[b] + 1, TRUE)
           /\ \/ more[2] = Found(b) /\ more[3] = Announced(b)
              \/ more[2] = Announced(b) /\ more[3] = Found(b)
    BY <1>1, <2>1, Started
  <2>3. CASE a = b
    <3>1. PICK k \in {2, 3} : more[k].app = a /\ more[k].type = Beginning(way)
      <4>1. /\ \E k \in {2, 3} : more[k] = Found(a)
            /\ \E k \in {2, 3} : more[k] = Announced(a)
        BY <2>2, <2>3
      <4>2. /\ Found(a).app = a /\ Found(a).type = "Found"
            /\ Announced(a).app = a /\ Announced(a).type = "Announced"
        BY DEF Found, Announced
      <4>3. Beginning(way) \in {"Found", "Announced"}
        BY DEF Beginning
      <4>4. QED BY <4>1, <4>2, <4>3
    <3>2. \A i \in DOMAIN more : ~(more[i].type = "Lost" \/ (more[i].type = "Owner" /\ ~more[i].up))
      BY <2>2 DEF Found, Announced, Owner
    <3>3. k \in DOMAIN more
      BY <2>2
    <3>4. due' = due \o more
      BY <2>2
    <3>5. Ends(Begins(due', way, a), Goes(due', a))
      BY <1>0, <3>1, <3>2, <3>3, <3>4, LastToldBegins
    <3>6. QED BY <3>5 DEF Coming
  <2>4. CASE a # b
    <3>1. Up(a) /\ version'[a] = version[a]
      BY <1>1, <2>4 DEF Start, Up, TypeOK
    <3>2. \A k \in DOMAIN more : more[k].app # a
      BY <2>2, <2>4 DEF Found, Announced, Owner
    <3>3. Begins(due', way, a) = Begins(due, way, a) /\ Goes(due', a) = Goes(due, a)
      <4>1. due' = due \o more
        BY <2>2
      <4>2. QED BY <1>0, <3>2, <4>1, OthersTold
    <3>4. Coming(way, a)
      <4>1. failed'[a] = failed[a]
        BY <1>1, <2>4 DEF Start, TypeOK
      <4>2. QED BY <1>held, <2>1, <3>1, <4>1
    <3>5. QED BY <2>1, <3>1, <3>3, <3>4 DEF Coming
  <2>5. QED BY <2>3, <2>4
<1>2. ASSUME NEW b \in Apps, Stop(b)
      PROVE  Coming(way, a)'
  <2>1. farUp /\ listening /\ UNCHANGED <<walks, toFar, standIns>>
    BY <1>2 DEF Stop
  <2>2. PICK more \in Seq(Event) :
           /\ due' = due \o more
           /\ DOMAIN more = 1 .. 2
           /\ \/ more[1] = Owner(b, version[b], FALSE) /\ more[2] = LostName(b)
              \/ more[1] = LostName(b) /\ more[2] = Owner(b, version[b], FALSE)
    BY <1>2, <2>1, Stopped
  <2>3. a # b
    <3>1. Up(b) /\ version'[b] = version[b] + 1 /\ version[b] \in Nat
      BY <1>2, ConstantsAssumption DEF Stop, TypeOK, Versions
    <3>2. ~Up(b)'
      BY <3>1 DEF Up
    <3>3. QED BY <3>2
  <2>4. Up(a) /\ version'[a] = version[a]
    BY <1>2, <2>3 DEF Stop, Up, TypeOK
  <2>5. \A k \in DOMAIN more : more[k].app # a
    BY <2>2, <2>3 DEF LostName, Owner
  <2>6. Begins(due', way, a) = Begins(due, way, a) /\ Goes(due', a) = Goes(due, a)
    <3>1. due' = due \o more
      BY <2>2
    <3>2. QED BY <1>0, <2>5, <3>1, OthersTold
  <2>7. Coming(way, a)
    <3>1. failed' = failed
      BY <1>2 DEF Stop
    <3>2. QED BY <1>held, <2>1, <2>4, <3>1
  <2>8. QED BY <2>1, <2>4, <2>6, <2>7 DEF Coming
<1>3. ASSUME ReceiveAvailable
      PROVE  Coming(way, a)'
  <2>1. ~listening
    <3>1. presence # <<>> /\ Head(presence) = "available" /\ farUp
      BY <1>3 DEF ReceiveAvailable
    <3>2. QED BY <3>1 DEF LinkInv
  <2>2. due' \in SetToSeqs(Present) /\ Up(a)
    BY <1>3, <2>1 DEF ReceiveAvailable, Present, Running, Up
  <2>3. due' \in Seq(Present) /\ \A x \in Present : \E i \in DOMAIN due' : due'[i] = x
    BY <2>2, PresentIsFinite, Orders
  <2>4. Goes(due', a) = {}
    <3>1. \A i \in DOMAIN due' : due'[i] \in Present
      BY <2>3
    <3>2. \A e \in Present : e.type \in {"Found", "Announced"}
      BY DEF Present, Found, Announced
    <3>3. QED BY <3>1, <3>2 DEF Goes
  <2>5. PICK e \in Present : e.app = a /\ e.type = Beginning(way)
    <3>1. Found(a) \in Present /\ Announced(a) \in Present
      BY <2>2 DEF Present, Running
    <3>2. /\ Found(a).app = a /\ Found(a).type = "Found"
          /\ Announced(a).app = a /\ Announced(a).type = "Announced"
      BY DEF Found, Announced
    <3>3. QED BY <3>1, <3>2 DEF Beginning
  <2>6. \E i \in DOMAIN due' : i \in Begins(due', way, a)
    BY <2>3, <2>5 DEF Begins
  <2>7. QED BY <2>4, <2>6 DEF Ends, Coming
<1>4. ASSUME ReceiveUnavailable
      PROVE  Coming(way, a)'
  BY <1>4 DEF ReceiveUnavailable
<1>5. ASSUME Listener, MissingInv
      PROVE  Coming(way, a)'
  <2> DEFINE e == Head(due)
  <2>1. /\ due # <<>> /\ due' = Tail(due)
        /\ UNCHANGED <<version, listening, farUp, standIns>> /\ walks \subseteq walks'
    BY <1>5 DEF Listener, NameOwnerChanged, FoundAdvertisedName, ListenerAnnounced,
                LostAdvertisedName, Callback, Introspect
  <2>2. Up(a) /\ Coming(way, a)
    <3>1. failed' = failed \/ \E ways : Fails(e.app, ways)
      BY <1>5 DEF Listener, NameOwnerChanged, FoundAdvertisedName, ListenerAnnounced,
                  LostAdvertisedName, Introspect, App
    <3>2. way \notin failed[a]
      BY <3>1, Noted
    <3>3. QED BY <1>held, <2>1, <3>2 DEF Up
  <2>3. /\ Goes(due, a) = {} => Goes(due', a) = {}
        /\ Ends(Begins(due, way, a), Goes(due, a)) =>
              \/ Ends(Begins(due', way, a), Goes(due', a))
              \/ Goes(due', a) = {} /\ e.app = a /\ e.type = Beginning(way)
        /\ e.app = a /\ (e.type = "Lost" \/ (e.type = "Owner" /\ ~e.up)) => Goes(due, a) # {}
    BY <1>0, <2>1, CallbackTaken
  <2>4. CASE FoundAdvertisedName \/ ListenerAnnounced
    <3>1. PICK type \in Ways :
             /\ e.type = Beginning(type) /\ toFar' = toFar
             /\ walks' = walks \cup {Walk(type, e.app, version[e.app])} \/ Fails(e.app, {type})
      <4>1. \E type \in Ways : e.type = Beginning(type) /\ Introspect(type)
        BY <2>4 DEF FoundAdvertisedName, ListenerAnnounced, Callback, Ways, Beginning
      <4>2. QED BY <4>1 DEF Introspect, App
    <3>2. e.app = a /\ e.type = Beginning(way) =>
             \E w \in walks' : w.type = way /\ w.app = a /\ w.version = version'[a]
      <4> SUFFICES ASSUME e.app = a, e.type = Beginning(way)
                   PROVE  \E w \in walks' : w.type = way /\ w.app = a /\ w.version = version'[a]
        OBVIOUS
      <4>1. type = way
        BY <3>1 DEF Ways, Beginning
      <4>2. ~Fails(e.app, {type})
        BY <4>1, Noted
      <4>3. /\ Walk(type, e.app, version[e.app]) \in walks'
            /\ Walk(type, e.app, version[e.app]).app = e.app
            /\ Walk(type, e.app, version[e.app]).type = type
            /\ Walk(type, e.app, version[e.app]).version = version[e.app]
        BY <3>1, <4>2 DEF Walk
      <4>4. QED BY <2>1, <4>1, <4>3
    <3>3. CASE Ends(Begins(due, way, a), Goes(due, a))
      BY <2>3, <3>2, <3>3 DEF Coming
    <3>4. CASE Goes(due, a) = {} /\ ~Ends(Begins(due, way, a), Goes(due, a))
      BY <2>1, <2>2, <2>3, <3>1, <3>4 DEF Coming
    <3>5. QED BY <2>2, <3>3, <3>4 DEF Coming
  <2>5. CASE NameOwnerChanged \/ LostAdvertisedName
    <3>1. e.type # Beginning(way)
      BY <2>5 DEF NameOwnerChanged, LostAdvertisedName, Callback, Beginning
    <3>2. CASE Ends(Begins(due, way, a), Goes(due, a))
      BY <2>3, <3>1, <3>2 DEF Coming
    <3>3. CASE Goes(due, a) = {} /\ ~Ends(Begins(due, way, a), Goes(due, a))
      <4>1. e.app = a => e.type = "Owner" /\ e.up
        BY <2>3, <2>5, <3>3 DEF NameOwnerChanged, LostAdvertisedName, Callback
      <4>2. /\ Tells(toFar', way, a) = Tells(toFar, way, a)
            /\ Withdraws(toFar', a) = Withdraws(toFar, a)
        <5>1. toFar' = toFar \/ \E m : toFar' = Append(toFar, m) /\ m.app # a
          <6> DEFINE gone == [type |-> "NameOwnerChanged", app |-> e.app, version |-> e.version]
                     lost == [type |-> "AdvertLost", app |-> e.app]
          <6>1. gone.app = e.app /\ lost.app = e.app
            OBVIOUS
          <6>2. CASE NameOwnerChanged
            <7>1. toFar' = toFar \/ (~e.up /\ toFar' = Append(toFar, gone))
              BY <6>2 DEF NameOwnerChanged, Send
            <7> HIDE DEF gone
            <7>2. QED BY <4>1, <6>1, <7>1
          <6>3. CASE LostAdvertisedName
            <7>1. e.type = "Lost" /\ (toFar' = toFar \/ toFar' = Append(toFar, lost))
              BY <6>3 DEF LostAdvertisedName, Callback, Send, App
            <7> HIDE DEF lost
            <7>2. QED BY <4>1, <6>1, <7>1
          <6>4. QED BY <2>5, <6>2, <6>3
        <5>2. CASE toFar' = toFar
          BY <5>2
        <5>3. CASE \E m : toFar' = Append(toFar, m) /\ m.app # a
          <6>1. PICK m : toFar' = Append(toFar, m) /\ m.app # a
            BY <5>3
          <6>2. QED BY <1>0, <6>1, OthersSent
        <5>4. QED BY <5>1, <5>2, <5>3
      <4>3. QED BY <2>1, <2>2, <2>3, <3>3, <4>2 DEF Coming
    <3>4. QED BY <2>2, <3>2, <3>3 DEF Coming
  <2>6. QED BY <1>5, <2>4, <2>5 DEF Listener
<1>6. ASSUME NEW w \in walks, IntrospectCallback(w)
      PROVE  Coming(way, a)'
  <2>1. UNCHANGED <<version, listening, due, toFar, farUp, standIns>>
    BY <1>6 DEF IntrospectCallback
  <2>2. Up(a) /\ Coming(way, a)
    <3>1. failed' = failed \/ \E ways : Fails(w.app, ways)
      BY <1>6 DEF IntrospectCallback
    <3>2. way \notin failed[a]
      BY <3>1, Noted
    <3>3. QED BY <1>held, <2>1, <3>2 DEF Up
  <2>3. (\E v \in walks : v.type = way /\ v.app = a /\ v.version = version[a])
           => \E v \in walks' : v.type = way /\ v.app = a /\ v.version = version'[a]
    <3> SUFFICES ASSUME NEW v \in walks, v.type = way, v.app = a, v.version = version[a]
                 PROVE  \E x \in walks' : x.type = way /\ x.app = a /\ x.version = version'[a]
      OBVIOUS
    <3>1. CASE v # w
      BY <1>6, <2>1, <3>1 DEF IntrospectCallback
    <3>2. CASE v = w
      <4>1. [w EXCEPT !.at = "tree"] \in walks'
        <5>1. ~Fails(w.app, {w.type})
          BY <3>2, Noted
        <5>2. QED BY <1>6, <3>2, <5>1 DEF IntrospectCallback
      <4>2. /\ [w EXCEPT !.at = "tree"].app = a /\ [w EXCEPT !.at = "tree"].version = version[a]
            /\ [w EXCEPT !.at = "tree"].type = way
        <5>1. w \in [type : {"Advertisement", "Announce"}, app : Apps,
                     version : Versions, at : {"root", "tree"}]
          BY DEF TypeOK
        <5>2. QED BY <3>2, <5>1
      <4>3. QED BY <2>1, <4>1, <4>2
    <3>3. QED BY <3>1, <3>2
  <2>4. QED BY <2>1, <2>2, <2>3 DEF Coming
<1>7. ASSUME NEW w \in walks, GetBusObjectsCallback(w) \/ GetBusObjectsAnnouncementCallback(w)
      PROVE  Coming(way, a)'
  <2>1. /\ UNCHANGED <<version, listening, due, farUp, standIns, failed>> /\ farUp
        /\ walks' = walks \ {w}
    BY <1>7 DEF GetBusObjectsCallback, GetBusObjectsAnnouncementCallback
  <2>2. Up(a) /\ Coming(way, a)
    BY <1>held, <2>1 DEF Up
  <2>3. PICK m : /\ toFar' = Append(toFar, m) /\ m.app = w.app
                 /\ m.type \in Ways /\ m.type = w.type
    BY <1>7, <2>1, ReportMade
  <2>4. CASE w.app = a /\ w.type = way
    <3>1. Ends(Tells(toFar', way, a), Withdraws(toFar', a))
      BY <1>0, <2>3, <2>4, ReportSent
    <3>2. QED BY <2>1, <2>2, <3>1 DEF Coming
  <2>5. CASE ~(w.app = a /\ w.type = way)
    <3>1. /\ Ends(Tells(toFar, way, a), Withdraws(toFar, a))
                 => Ends(Tells(toFar', way, a), Withdraws(toFar', a))
          /\ Withdraws(toFar', a) = Withdraws(toFar, a)
      BY <1>0, <2>3, ReportsOnly
    <3>2. QED BY <2>1, <2>2, <2>5, <3>1 DEF Coming
  <2>6. QED BY <2>4, <2>5
<1>8. ASSUME FarXmppThread
      PROVE  Coming(way, a)'
  <2> DEFINE m == Head(toFar)
  <2>1. /\ UNCHANGED <<version, listening, due, walks, farUp>>
        /\ toFar # <<>> /\ toFar' = Tail(toFar)
    BY <1>8 DEF FarXmppThread, ReceiveAdvertisement, ReceiveAnnounce,
                ReceiveAdvertisementLost, ReceiveNameOwnerChanged, Available
  <2>2. Up(a) /\ Coming(way, a)
    <3>1. failed' = failed \/ \E ways : Fails(m.app, ways)
      BY <1>8 DEF FarXmppThread, ReceiveAdvertisement, ReceiveAnnounce, NoStandIn,
                  StandInGivenUp, ReceiveAdvertisementLost, ReceiveNameOwnerChanged
    <3>2. way \notin failed[a]
      BY <3>1, Noted
    <3>3. QED BY <1>held, <2>1, <3>2 DEF Up
  <2>3. /\ Withdraws(toFar, a) = {} => Withdraws(toFar', a) = {}
        /\ Ends(Tells(toFar, way, a), Withdraws(toFar, a)) =>
              \/ Ends(Tells(toFar', way, a), Withdraws(toFar', a))
              \/ Withdraws(toFar', a) = {} /\ m.app = a /\ m.type = way
        /\ m.app = a /\ m.type \in {"AdvertLost", "NameOwnerChanged"} => Withdraws(toFar, a) # {}
    BY <1>0, <2>1, MessageTaken
  <2>4. CASE ReceiveAdvertisement \/ ReceiveAnnounce
    <3>1. CASE \E name : standIns' = WithStandIn(m, name)
      <4>1. PICK name : standIns' = WithStandIn(m, name)
        BY <3>1
      <4>2. standIns \subseteq standIns' /\ (m.app = a => \E s \in standIns' : s.app = a)
        <5> DEFINE new == [app |-> m.app, version |-> m.version, name |-> name]
        <5>1. new.app = m.app
          OBVIOUS
        <5>2. \/ GetRemoteAttachment(m) # {} /\ standIns' = standIns
              \/ GetRemoteAttachmentByAdvertisedName(m.app) # {} /\ standIns' = standIns
              \/ standIns' = standIns \cup {new}
          BY <4>1 DEF WithStandIn
        <5> HIDE DEF new
        <5>3. QED BY <5>1, <5>2 DEF GetRemoteAttachment, GetRemoteAttachmentByAdvertisedName
      <4>3. QED BY <2>1, <2>2, <2>3, <4>2 DEF Coming
    <3>2. CASE NoStandIn(m)
      <4>1. standIns' = standIns /\ ~(m.app = a /\ m.type = way)
        BY <3>2, Noted DEF NoStandIn
      <4>2. QED BY <2>1, <2>2, <2>3, <4>1 DEF Coming
    <3>3. CASE StandInGivenUp(m)
      <4>1. m.app # a
        BY <3>3, Noted DEF StandInGivenUp
      <4>2. \A s \in standIns : s.app = a => s \in standIns'
        BY <3>3, <4>1 DEF StandInGivenUp, GetRemoteAttachment
      <4>3. QED BY <2>1, <2>2, <2>3, <4>1, <4>2 DEF Coming
    <3>4. QED BY <2>4, <3>1, <3>2, <3>3 DEF ReceiveAdvertisement, ReceiveAnnounce
  <2>5. CASE ReceiveAdvertisementLost \/ ReceiveNameOwnerChanged
    <3>1. m.type \in {"AdvertLost", "NameOwnerChanged"} /\ m.type # way
      BY <2>5 DEF ReceiveAdvertisementLost, ReceiveNameOwnerChanged, Available, Ways
    <3>2. \A s \in standIns : s.app # m.app => s \in standIns'
      BY <2>5 DEF ReceiveAdvertisementLost, ReceiveNameOwnerChanged,
                  GetRemoteAttachment, GetRemoteAttachmentByAdvertisedName
    <3>3. QED BY <2>1, <2>2, <2>3, <3>1, <3>2 DEF Coming
  <2>6. QED BY <1>8, <2>4, <2>5 DEF FarXmppThread
<1>9. ASSUME FarGoes \/ FarReturns
      PROVE  Coming(way, a)'
  <2>1. FarReturns
    BY <1>9 DEF FarGoes
  <2>2. listening /\ ~farUp /\ presence' = Append(presence, "available")
    BY <2>1 DEF FarReturns
  <2>3. presence' # <<>>
    <3>1. presence \in Seq({"available", "unavailable"})
      BY DEF TypeOK
    <3>2. QED BY <2>2, <3>1, AppendProperties
  <2>4. QED BY <2>3 DEF LinkInv
<1>10. QED BY <1>1, <1>2, <1>3, <1>4, <1>5, <1>6, <1>7, <1>8, <1>9
           DEF Next, NearXmppThread, Answer

(* Under LinkInv and NameInv the promise is what MissingInv says at rest.  *)
LEMMA MissingSuffices ==
    ASSUME TypeOK, NameInv, MissingInv
    PROVE  NothingMissing
<1> SUFFICES ASSUME Quiet, NEW a \in Apps, Up(a), failed[a] # Ways
             PROVE  GetRemoteAttachmentByAdvertisedName(a) # {}
  BY DEF NothingMissing
<1>1. PICK way \in Ways : way \notin failed[a]
  BY DEF TypeOK
<1>2. Coming(way, a)
  BY <1>1 DEF MissingInv, Quiet
<1>3. Begins(due, way, a) = {} /\ Tells(toFar, way, a) = {} /\ walks = {}
  BY DEF Quiet, Begins, Tells
<1>4. \E s \in standIns : s.app = a
  BY <1>2, <1>3 DEF Coming, Ends
<1>5. QED BY <1>4 DEF NameInv, GetRemoteAttachmentByAdvertisedName

(* Once nothing is under way, an application that runs has a stand-in that *)
(* carries its well-known name, however often it was started and stopped,  *)
(* and however often the far connector came and went, unless both its      *)
(* advertisement and its announcement came to nothing since it started and *)
(* the watch began: nothing that ReceiveAdvertisement made is undone by a  *)
(* loss that was reported late, and the failure of one way does not undo   *)
(* the other, except where the far bus refuses to advertise.  It needs a   *)
(* far connector that is missed before it is back, and announcements made  *)
(* by the well-known name.                                                 *)
THEOREM StandInsAreThere ==
    ASSUME ~Hasty, AnnouncedBy = "wkn"
    PROVE  Spec => []NothingMissing
<1> DEFINE Inv == TypeOK /\ LinkInv /\ NameInv /\ MissingInv
<1>1. Init => Inv
  <2>1. ASSUME Init PROVE Inv
    <3>1. TypeOK
      BY <2>1, FirstTypes
    <3>2. LinkInv /\ NameInv /\ MissingInv
      BY <2>1 DEF Init, LinkInv, NameInv, MissingInv
    <3>3. QED BY <3>1, <3>2
  <2>2. QED BY <2>1
<1>2. Inv /\ [Next]_vars => Inv'
  <2>1. ASSUME Inv, UNCHANGED vars
        PROVE  Inv'
    <3>1. UNCHANGED <<version, listening, due, uniqueName, walks, toFar, presence,
                      farUp, outages, standIns, failed>>
      BY <2>1 DEF vars, near, far
    <3>2. QED BY <2>1, <3>1 DEF TypeOK, LinkInv, NameInv, MissingInv, Coming, Up
  <2>2. ASSUME Inv, Next
        PROVE  Inv'
    <3>1. TypeOK' /\ LinkInv' /\ NameInv'
      BY <2>2, StepTypes, StepLink, StepName
    <3>2. QED BY <2>2, <3>1, StepMissing
  <2>3. QED BY <2>1, <2>2
<1>3. Inv => NothingMissing
  BY MissingSuffices
<1>4. QED BY <1>1, <1>2, <1>3, PTL DEF Spec

-----------------------------------------------------------------------------
AdvertLost(a)   == [type |-> "AdvertLost", app |-> a]
OwnerGone(a, v) == [type |-> "NameOwnerChanged", app |-> a, version |-> v]

(* The loss of a's name is to be called back, or its message comes after   *)
(* the place i; and what is removed by the name's owner v having gone.     *)
Withdrawn(a, i) == After(due, 0, LostName(a)) \/ After(toFar, i, AdvertLost(a))

Replaced(a, v, i) ==
    \/ Withdrawn(a, i)
    \/ After(due, 0, Owner(a, v, FALSE)) \/ After(toFar, i, OwnerGone(a, v))

(* A walk over the tree is one of the objects of what runs: AllJoyn waits  *)
(* for the walk before it lets the application go.                         *)
WalkInv == \A w \in walks : w.at = "tree" => Up(w.app) /\ w.version = version[w.app]

(* What is left of an application that has gone, or on its way, is going   *)
(* to be withdrawn.                                                        *)
LeftInv ==
    \A a \in Apps : ~Up(a) =>
       /\ \A s \in standIns : s.app = a => Withdrawn(a, 0)
       /\ \A i \in Reports(toFar, a) : Withdrawn(a, i)

(* A message that comes after a place still does when the queue gets more  *)
(* or moves up.                                                            *)
LEMMA AfterMore ==
    ASSUME NEW M, NEW box \in Seq(M), NEW more \in Seq(M), NEW i, NEW m
    PROVE  /\ After(box, i, m) => After(box \o more, i, m)
           /\ i \in DOMAIN box \cup {0} =>
                 \A k \in DOMAIN more : more[k] = m => After(box \o more, i, m)
<1> DEFINE long == box \o more
<1>1. \A j \in DOMAIN box : j \in DOMAIN long /\ long[j] = box[j]
  BY Longer
<1>2. /\ Len(box) \in Nat
      /\ \A k \in DOMAIN more : k \in Nat /\ k > 0 /\ Len(box) + k \in DOMAIN long
                                /\ long[Len(box) + k] = more[k]
  BY Longer
<1>3. \A j \in DOMAIN box : j \in Nat /\ j <= Len(box)
  BY Longer
<1> HIDE DEF long
<1>4. After(box, i, m) => After(long, i, m)
  BY <1>1 DEF After
<1>5. ASSUME i \in DOMAIN box \cup {0}, NEW k \in DOMAIN more, more[k] = m
      PROVE  After(long, i, m)
  <2>1. i < Len(box) + k
    BY <1>2, <1>3, <1>5
  <2>2. QED BY <1>2, <1>5, <2>1 DEF After
<1>6. QED BY <1>4, <1>5 DEF long

LEMMA AfterAppend ==
    ASSUME NEW M, NEW box \in Seq(M), NEW i, NEW m, NEW x
    PROVE  /\ After(box, i, m) => After(Append(box, x), i, m)
           /\ i \in DOMAIN box \cup {0} => After(Append(box, m), i, m)
<1>1. ASSUME NEW long, long = Append(box, x), After(box, i, m)
      PROVE  After(long, i, m)
  <2>1. \A j \in DOMAIN box : j \in DOMAIN long /\ long[j] = box[j]
    BY <1>1, OneLonger
  <2>2. QED BY <1>1, <2>1 DEF After
<1>2. ASSUME NEW long, long = Append(box, m), i \in DOMAIN box \cup {0}
      PROVE  After(long, i, m)
  <2>1. /\ Len(box) + 1 \in DOMAIN long /\ long[Len(box) + 1] = m /\ Len(box) \in Nat
        /\ \A j \in DOMAIN box : j \in Nat /\ j <= Len(box)
    BY <1>2, OneLonger
  <2>2. i < Len(box) + 1
    BY <1>2, <2>1
  <2>3. QED BY <2>1, <2>2 DEF After
<1>3. QED BY <1>1, <1>2

LEMMA AfterTaken ==
    ASSUME NEW M, NEW box \in Seq(M), box # <<>>, NEW m, NEW rest, rest = Tail(box)
    PROVE  /\ \A i \in Nat : After(box, i + 1, m) => After(rest, i, m)
           /\ After(box, 1, m) => After(rest, 0, m)
           /\ After(box, 0, m) => Head(box) = m \/ After(rest, 0, m)
<1>1. /\ 1 \in DOMAIN box /\ Head(box) = box[1]
      /\ \A j \in DOMAIN box : /\ j \in Nat /\ j > 0
                              /\ j # 1 => j - 1 \in DOMAIN rest /\ rest[j - 1] = box[j]
  BY WhereTo
<1>2. ASSUME NEW i \in Nat, After(box, i + 1, m)
      PROVE  After(rest, i, m)
  <2>1. PICK j \in DOMAIN box : i + 1 < j /\ box[j] = m
    BY <1>2 DEF After
  <2>2. j - 1 \in DOMAIN rest /\ rest[j - 1] = m /\ i < j - 1
    BY <1>1, <2>1
  <2>3. QED BY <2>2 DEF After
<1>3. ASSUME After(box, 0, m)
      PROVE  Head(box) = m \/ After(rest, 0, m)
  <2>1. PICK j \in DOMAIN box : box[j] = m
    BY <1>3 DEF After
  <2>2. CASE j = 1
    BY <1>1, <2>1, <2>2
  <2>3. CASE j # 1
    <3>1. j - 1 \in DOMAIN rest /\ rest[j - 1] = m /\ 0 < j - 1
      BY <1>1, <2>1, <2>3
    <3>2. QED BY <3>1 DEF After
  <2>4. QED BY <2>2, <2>3
<1>4. ASSUME After(box, 1, m)
      PROVE  After(rest, 0, m)
  <2>1. PICK j \in DOMAIN box : 1 < j /\ box[j] = m
    BY <1>4 DEF After
  <2>2. j - 1 \in DOMAIN rest /\ rest[j - 1] = m /\ 0 < j - 1
    BY <1>1, <2>1
  <2>3. QED BY <2>2 DEF After
<1>5. QED BY <1>2, <1>3, <1>4

(* Where the reports of a queue are after a message is taken or appended.  *)
LEMMA ReportsTaken ==
    ASSUME NEW box \in Seq(Message), box # <<>>, NEW a, NEW rest, rest = Tail(box)
    PROVE  /\ \A i \in Reports(rest, a) : i \in Nat /\ i + 1 \in Reports(box, a) /\ rest[i] = box[i + 1]
           /\ Head(box).app = a /\ Head(box).type \in Ways
                 => 1 \in Reports(box, a) /\ box[1] = Head(box)
<1>1. \A i \in Reports(rest, a) : i \in Nat /\ i + 1 \in Reports(box, a) /\ rest[i] = box[i + 1]
  BY WhereFrom DEF Reports
<1>2. 1 \in DOMAIN box /\ Head(box) = box[1]
  BY WhereTo
<1>3. QED BY <1>1, <1>2 DEF Reports

LEMMA ReportsAppended ==
    ASSUME NEW box \in Seq(Message), NEW m, NEW a, NEW long, long = Append(box, m)
    PROVE  \A i \in Reports(long, a) :
              \/ i \in Reports(box, a) /\ long[i] = box[i]
              \/ m.app = a /\ m.type \in Ways /\ long[i] = m
<1>1. /\ long[Len(box) + 1] = m
      /\ \A i \in DOMAIN box : long[i] = box[i]
      /\ \A i \in DOMAIN long : i \in DOMAIN box \/ i = Len(box) + 1
  BY OneLonger
<1>2. QED BY <1>1 DEF Reports

-----------------------------------------------------------------------------
(* What was to be withdrawn or replaced is not forgotten: when something   *)
(* is told to the listener or sent, when the listener is called back, and  *)
(* when the far connector takes a message.                                 *)
LEMMA MarksGrow ==
    ASSUME TypeOK, NEW a, NEW v, NEW i,
           \/ toFar' = toFar /\ \E more \in Seq(Event) : due' = due \o more
           \/ due' = due /\ \E m : toFar' = Append(toFar, m)
    PROVE  (Withdrawn(a, i) => Withdrawn(a, i)') /\ (Replaced(a, v, i) => Replaced(a, v, i)')
<1>1. due \in Seq(Event) /\ toFar \in Seq(Message)
  BY DEF TypeOK
<1>2. CASE toFar' = toFar /\ \E more \in Seq(Event) : due' = due \o more
  <2>1. PICK more \in Seq(Event) : due' = due \o more
    BY <1>2
  <2>2. \A m : After(due, 0, m) => After(due', 0, m)
    BY <1>1, <2>1, AfterMore
  <2>3. QED BY <1>2, <2>2 DEF Withdrawn, Replaced
<1>3. CASE due' = due /\ \E m : toFar' = Append(toFar, m)
  <2>1. PICK x : toFar' = Append(toFar, x)
    BY <1>3
  <2>2. \A m : After(toFar, i, m) => After(toFar', i, m)
    BY <1>1, <2>1, AfterAppend
  <2>3. QED BY <1>3, <2>2 DEF Withdrawn, Replaced
<1>4. QED BY <1>2, <1>3

LEMMA MarksCalled ==
    ASSUME TypeOK, farUp, Listener, NEW a, NEW v, NEW i \in DOMAIN toFar \cup {0}
    PROVE  /\ Withdrawn(a, i) => Withdrawn(a, i)'
           /\ Replaced(a, v, i) => Replaced(a, v, i)'
<1>1. due \in Seq(Event) /\ toFar \in Seq(Message)
  BY DEF TypeOK
<1>2. due # <<>> /\ due' = Tail(due)
  BY DEF Listener, NameOwnerChanged, FoundAdvertisedName, ListenerAnnounced,
         LostAdvertisedName, Callback
<1>3. Head(due) \in Event
  BY <1>1, <1>2, Rests
<1>4. \A m : After(due, 0, m) => Head(due) = m \/ After(due', 0, m)
  BY <1>1, <1>2, AfterTaken
<1>5. toFar' = toFar \/ \E m : toFar' = Append(toFar, m)
  BY DEF Listener, NameOwnerChanged, FoundAdvertisedName, ListenerAnnounced,
         LostAdvertisedName, Introspect, Send
<1>6. \A m : After(toFar, i, m) => After(toFar', i, m)
  BY <1>1, <1>5, AfterAppend
<1>7. Head(due) = LostName(a) => After(toFar', i, AdvertLost(a))
  <2> SUFFICES ASSUME Head(due) = LostName(a) PROVE After(toFar', i, AdvertLost(a))
    OBVIOUS
  <2>1. Head(due).type = "Lost" /\ Head(due).app = a
    BY DEF LostName
  <2>2. toFar' = Append(toFar, AdvertLost(a))
    BY <2>1 DEF Listener, NameOwnerChanged, FoundAdvertisedName, ListenerAnnounced,
                LostAdvertisedName, Callback, Send, App, AdvertLost
  <2>3. QED BY <1>1, <2>2, AfterAppend
<1>8. Head(due) = Owner(a, v, FALSE) => After(toFar', i, OwnerGone(a, v))
  <2> SUFFICES ASSUME Head(due) = Owner(a, v, FALSE) PROVE After(toFar', i, OwnerGone(a, v))
    OBVIOUS
  <2>1. /\ Head(due).type = "Owner" /\ Head(due).app = a
        /\ Head(due).version = v /\ Head(due).up = FALSE
    BY DEF Owner
  <2>2. NameOwnerChanged
    BY <2>1 DEF Listener, FoundAdvertisedName, ListenerAnnounced, LostAdvertisedName, Callback
  <2>3. toFar' = Append(toFar, OwnerGone(a, v))
    BY <2>1, <2>2 DEF NameOwnerChanged, Send, OwnerGone
  <2>4. QED BY <1>1, <2>3, AfterAppend
<1>9. Withdrawn(a, i) => Withdrawn(a, i)'
  BY <1>4, <1>6, <1>7 DEF Withdrawn
<1>10. Replaced(a, v, i) => Replaced(a, v, i)'
  BY <1>4, <1>6, <1>8, <1>9 DEF Replaced
<1>11. QED BY <1>9, <1>10

LEMMA MarksTaken ==
    ASSUME TypeOK, due' = due, toFar # <<>>, toFar' = Tail(toFar), NEW a, NEW v
    PROVE  /\ \A i \in Nat : /\ Withdrawn(a, i + 1) => Withdrawn(a, i)'
                             /\ Replaced(a, v, i + 1) => Replaced(a, v, i)'
           /\ Withdrawn(a, 0) => Head(toFar) = AdvertLost(a) \/ Withdrawn(a, 0)'
           /\ Replaced(a, v, 0) => \/ Head(toFar) \in {AdvertLost(a), OwnerGone(a, v)}
                                   \/ Replaced(a, v, 0)'
<1>1. toFar \in Seq(Message)
  BY DEF TypeOK
<1>2. /\ \A m : \A i \in Nat : After(toFar, i + 1, m) => After(toFar', i, m)
      /\ \A m : After(toFar, 0, m) => Head(toFar) = m \/ After(toFar', 0, m)
  BY <1>1, AfterTaken
<1>3. QED BY <1>2 DEF Withdrawn, Replaced

(* The listener's callbacks report nothing themselves.                     *)
LEMMA ListenerReportsNothing ==
    ASSUME toFar \in Seq(Message), Listener, NEW a
    PROVE  \A i \in Reports(toFar', a) : i \in Reports(toFar, a) /\ toFar'[i] = toFar[i]
<1> DEFINE e == Head(due)
           gone == [type |-> "NameOwnerChanged", app |-> e.app, version |-> e.version]
           lost == [type |-> "AdvertLost", app |-> e.app]
<1>1. gone.type \notin Ways /\ lost.type \notin Ways
  BY DEF Ways
<1>2. toFar' = toFar \/ toFar' = Append(toFar, gone) \/ toFar' = Append(toFar, lost)
  BY DEF Listener, NameOwnerChanged, FoundAdvertisedName, ListenerAnnounced,
         LostAdvertisedName, Introspect, Send, App
<1> HIDE DEF gone, lost
<1>3. CASE toFar' = toFar
  BY <1>3
<1>4. ASSUME NEW m, toFar' = Append(toFar, m), m.type \notin Ways
      PROVE  \A i \in Reports(toFar', a) : i \in Reports(toFar, a) /\ toFar'[i] = toFar[i]
  BY <1>4, ReportsAppended
<1>5. QED BY <1>1, <1>2, <1>3, <1>4

(* A new stand-in is of the report that was taken.                         *)
LEMMA StandInAdded ==
    ASSUME FarXmppThread, NEW s \in standIns', s \notin standIns
    PROVE  /\ s.app = Head(toFar).app /\ s.version = Head(toFar).version
           /\ Head(toFar).type \in Ways
<1> DEFINE m == Head(toFar)
<1>1. ReceiveAdvertisement \/ ReceiveAnnounce
  BY DEF FarXmppThread, ReceiveAdvertisementLost, ReceiveNameOwnerChanged
<1>2. PICK name : standIns' = WithStandIn(m, name)
  BY <1>1 DEF ReceiveAdvertisement, ReceiveAnnounce, NoStandIn, StandInGivenUp
<1>3. s = [app |-> m.app, version |-> m.version, name |-> name]
  BY <1>2 DEF WithStandIn
<1>4. s.app = m.app /\ s.version = m.version
  BY <1>3
<1>5. QED BY <1>1, <1>4 DEF ReceiveAdvertisement, ReceiveAnnounce, Available, Ways

-----------------------------------------------------------------------------
LEMMA StepWalk ==
    ASSUME TypeOK, WalkInv, ~Outlives, Next
    PROVE  WalkInv'
<1> USE DEF near, far
<1>1. ASSUME NEW a \in Apps, Start(a) \/ Stop(a)
      PROVE  WalkInv'
  <2> SUFFICES ASSUME NEW w \in walks', w.at = "tree"
               PROVE  Up(w.app)' /\ w.version = version'[w.app]
    BY DEF WalkInv
  <2>1. w \in walks /\ Up(w.app) /\ w.version = version[w.app] /\ w.app \in Apps
    BY <1>1 DEF Start, Stop, WalkInv, TypeOK
  <2>2. w.app # a
    <3>1. CASE Start(a)
      BY <2>1, <3>1 DEF Start
    <3>2. CASE Stop(a)
      BY <2>1, <3>2 DEF Stop
    <3>3. QED BY <1>1, <3>1, <3>2
  <2>3. version'[w.app] = version[w.app]
    BY <1>1, <2>1, <2>2 DEF Start, Stop, TypeOK
  <2>4. QED BY <2>1, <2>3 DEF Up
<1>2. ASSUME version' = version,
             \A w \in walks' : w \in walks \/ (w.at = "tree" => Up(w.app) /\ w.version = version[w.app])
      PROVE  WalkInv'
  BY <1>2 DEF WalkInv, Up
<1>3. ASSUME NEW w \in walks, IntrospectCallback(w)
      PROVE  WalkInv'
  <2> DEFINE x == [w EXCEPT !.at = "tree"]
  <2>1. w \in [type : {"Advertisement", "Announce"}, app : Apps,
               version : Versions, at : {"root", "tree"}]
    BY DEF TypeOK
  <2>2. x.app = w.app /\ x.version = w.version
    BY <2>1
  <2> HIDE DEF x
  <2>3. \/ walks' \subseteq walks
        \/ walks' \subseteq walks \cup {x} /\ version[w.app] = w.version /\ Up(w.app)
    BY <1>3 DEF IntrospectCallback, x
  <2>4. version' = version
    BY <1>3 DEF IntrospectCallback
  <2>5. QED BY <1>2, <2>2, <2>3, <2>4
<1>4. ASSUME FoundAdvertisedName \/ ListenerAnnounced
      PROVE  WalkInv'
  <2>1. PICK type \in Ways :
           /\ walks' \subseteq walks \cup {Walk(type, App, version[App])}
           /\ version' = version
    BY <1>4 DEF FoundAdvertisedName, ListenerAnnounced, Introspect, Ways
  <2>2. Walk(type, App, version[App]).at # "tree"
    BY DEF Walk
  <2>3. QED BY <1>2, <2>1, <2>2
<1>5. ASSUME NEW w \in walks, GetBusObjectsCallback(w) \/ GetBusObjectsAnnouncementCallback(w)
      PROVE  WalkInv'
  BY <1>2, <1>5 DEF GetBusObjectsCallback, GetBusObjectsAnnouncementCallback
<1>6. ASSUME \/ ReceiveAvailable \/ ReceiveUnavailable \/ NameOwnerChanged
             \/ LostAdvertisedName \/ FarXmppThread \/ FarGoes \/ FarReturns
      PROVE  WalkInv'
  <2>1. version' = version /\ walks' \subseteq walks
    BY <1>6 DEF ReceiveAvailable, ReceiveUnavailable, NameOwnerChanged, LostAdvertisedName,
                FarXmppThread, ReceiveAdvertisement, ReceiveAnnounce, ReceiveAdvertisementLost,
                ReceiveNameOwnerChanged, FarGoes, FarReturns
  <2>2. QED BY <1>2, <2>1
<1>7. QED BY <1>1, <1>3, <1>4, <1>5, <1>6 DEF Next, NearXmppThread, Listener, Answer

(* Only while both are there can something be left on the far bus.         *)
LEMMA BothThere ==
    ASSUME LinkInv, LinkInv', farUp', listening', Next
    PROVE  /\ listening \/ (standIns = {} /\ toFar = <<>>)
           /\ ~ReceiveUnavailable /\ ~FarGoes /\ ~FarReturns
           /\ ReceiveAvailable => standIns' = {} /\ toFar' = <<>>
<1>1. ~ReceiveUnavailable /\ ~FarGoes
  BY DEF ReceiveUnavailable, FarGoes
<1>2. ~FarReturns
  <2> SUFFICES ASSUME FarReturns PROVE FALSE
    OBVIOUS
  <2>1. listening /\ ~farUp /\ presence' = Append(presence, "available")
    BY DEF FarReturns, near
  <2>2. presence = <<"unavailable">> /\ presence' = <<>>
    BY <2>1 DEF LinkInv
  <2>3. <<"unavailable">> \in Seq({"available", "unavailable"})
    BY Short
  <2>4. QED BY <2>1, <2>2, <2>3, AppendProperties
<1>3. ReceiveAvailable => standIns' = {} /\ toFar' = <<>>
  <2> SUFFICES ASSUME ReceiveAvailable PROVE standIns' = {} /\ toFar' = <<>>
    OBVIOUS
  <2>1. /\ presence # <<>> /\ Head(presence) = "available"
        /\ UNCHANGED <<toFar, farUp, standIns>>
    BY DEF ReceiveAvailable, far
  <2>2. ~listening
    BY <2>1 DEF LinkInv
  <2>3. QED BY <2>1, <2>2 DEF LinkInv
<1>4. QED BY <1>1, <1>2, <1>3 DEF LinkInv

LEMMA StepLeft ==
    ASSUME TypeOK, LinkInv, LinkInv', NameInv, WalkInv, LeftInv, Next
    PROVE  LeftInv'
<1>a. CASE ~(farUp' /\ listening')
  <2>1. toFar' = <<>> /\ standIns' = {}
    BY <1>a DEF LinkInv
  <2>2. QED BY <2>1 DEF LeftInv, Reports
<1> SUFFICES ASSUME farUp', listening', NEW a \in Apps, ~Up(a)'
             PROVE  /\ \A s \in standIns' : s.app = a => Withdrawn(a, 0)'
                    /\ \A i \in Reports(toFar', a) : Withdrawn(a, i)'
  BY <1>a DEF LeftInv
<1> USE DEF near, far
<1>0. due \in Seq(Event) /\ toFar \in Seq(Message)
  BY DEF TypeOK
<1>1. ASSUME NEW b \in Apps, Start(b)
      PROVE  /\ \A s \in standIns' : s.app = a => Withdrawn(a, 0)'
             /\ \A i \in Reports(toFar', a) : Withdrawn(a, i)'
  <2>1. listening /\ UNCHANGED <<toFar, standIns>>
    BY <1>1 DEF Start
  <2>2. \E more \in Seq(Event) : due' = due \o more
    BY <1>1, <2>1, Started
  <2>3. ~Up(a)
    <3>1. version[b] \in Nat /\ ~Up(b) /\ version' = [version EXCEPT ![b] = @ + 1]
      BY <1>1, ConstantsAssumption DEF Start, TypeOK, Versions
    <3>2. CASE a = b
      BY <3>1, <3>2
    <3>3. CASE a # b
      BY <3>1, <3>3 DEF Up, TypeOK
    <3>4. QED BY <3>2, <3>3
  <2>4. /\ \A s \in standIns : s.app = a => Withdrawn(a, 0)
        /\ \A i \in Reports(toFar, a) : Withdrawn(a, i)
    BY <2>3 DEF LeftInv
  <2>5. \A i : Withdrawn(a, i) => Withdrawn(a, i)'
    BY <2>1, <2>2, MarksGrow
  <2>6. QED BY <2>1, <2>4, <2>5
<1>2. ASSUME NEW b \in Apps, Stop(b)
      PROVE  /\ \A s \in standIns' : s.app = a => Withdrawn(a, 0)'
             /\ \A i \in Reports(toFar', a) : Withdrawn(a, i)'
  <2>1. listening /\ UNCHANGED <<toFar, standIns>>
    BY <1>2 DEF Stop
  <2>2. PICK more \in Seq(Event) :
           /\ due' = due \o more
           /\ DOMAIN more = 1 .. 2
           /\ \/ more[1] = Owner(b, version[b], FALSE) /\ more[2] = LostName(b)
              \/ more[1] = LostName(b) /\ more[2] = Owner(b, version[b], FALSE)
    BY <1>2, <2>1, Stopped
  <2>3. CASE a = b
    <3>1. \E k \in DOMAIN more : more[k] = LostName(a)
      <4>1. 1 \in DOMAIN more /\ 2 \in DOMAIN more
        BY <2>2
      <4>2. QED BY <2>2, <2>3, <4>1
    <3>2. After(due', 0, LostName(a))
      BY <1>0, <2>2, <3>1, AfterMore
    <3>3. QED BY <3>2 DEF Withdrawn
  <2>4. CASE a # b
    <3>1. ~Up(a)
      BY <1>2, <2>4 DEF Stop, Up, TypeOK
    <3>2. /\ \A s \in standIns : s.app = a => Withdrawn(a, 0)
          /\ \A i \in Reports(toFar, a) : Withdrawn(a, i)
      BY <3>1 DEF LeftInv
    <3>3. \A i : Withdrawn(a, i) => Withdrawn(a, i)'
      BY <2>1, <2>2, MarksGrow
    <3>4. QED BY <2>1, <3>2, <3>3
  <2>5. QED BY <2>3, <2>4
<1>3. ASSUME ReceiveAvailable
      PROVE  /\ \A s \in standIns' : s.app = a => Withdrawn(a, 0)'
             /\ \A i \in Reports(toFar', a) : Withdrawn(a, i)'
  BY <1>3, BothThere DEF Reports
<1>4. ASSUME version' = version
      PROVE  /\ \A s \in standIns : s.app = a => Withdrawn(a, 0)
             /\ \A i \in Reports(toFar, a) : Withdrawn(a, i)
  BY <1>4 DEF LeftInv, Up
<1>5. ASSUME Listener
      PROVE  /\ \A s \in standIns' : s.app = a => Withdrawn(a, 0)'
             /\ \A i \in Reports(toFar', a) : Withdrawn(a, i)'
  <2>1. UNCHANGED <<version, farUp, standIns>>
    BY <1>5 DEF Listener, NameOwnerChanged, FoundAdvertisedName, ListenerAnnounced,
                LostAdvertisedName, Introspect
  <2>2. \A i \in DOMAIN toFar \cup {0} : Withdrawn(a, i) => Withdrawn(a, i)'
    BY <1>5, <2>1, MarksCalled
  <2>3. \A i \in Reports(toFar', a) : i \in Reports(toFar, a)
    BY <1>0, <1>5, ListenerReportsNothing
  <2>4. \A i \in Reports(toFar, a) : i \in DOMAIN toFar
    BY DEF Reports
  <2>5. QED BY <1>4, <2>1, <2>2, <2>3, <2>4
<1>6. ASSUME NEW w \in walks, IntrospectCallback(w)
      PROVE  /\ \A s \in standIns' : s.app = a => Withdrawn(a, 0)'
             /\ \A i \in Reports(toFar', a) : Withdrawn(a, i)'
  <2>1. UNCHANGED <<version, due, toFar, standIns>>
    BY <1>6 DEF IntrospectCallback
  <2>2. QED BY <1>4, <2>1 DEF Withdrawn
<1>7. ASSUME NEW w \in walks, GetBusObjectsCallback(w) \/ GetBusObjectsAnnouncementCallback(w)
      PROVE  /\ \A s \in standIns' : s.app = a => Withdrawn(a, 0)'
             /\ \A i \in Reports(toFar', a) : Withdrawn(a, i)'
  <2>1. UNCHANGED <<version, due, farUp, standIns>> /\ w.at = "tree"
    BY <1>7 DEF GetBusObjectsCallback, GetBusObjectsAnnouncementCallback
  <2>2. w.app # a
    BY <2>1 DEF WalkInv, Up
  <2>3. PICK m : toFar' = Append(toFar, m) /\ m.app = w.app
    BY <1>7, <2>1, ReportMade
  <2>m. m.app # a
    BY <2>2, <2>3
  <2>4. \A i : Withdrawn(a, i) => Withdrawn(a, i)'
    BY <2>1, <2>3, MarksGrow
  <2>5. Reports(toFar', a) = Reports(toFar, a)
    <3>1. /\ \A i \in DOMAIN toFar : i \in DOMAIN toFar' /\ toFar'[i] = toFar[i]
          /\ \A i \in DOMAIN toFar' : i \in DOMAIN toFar \/ toFar'[i].app # a
      BY <1>0, <2>3, <2>m, OneLonger
    <3>2. QED BY <3>1 DEF Reports
  <2>6. QED BY <1>4, <2>1, <2>4, <2>5
<1>8. ASSUME FarXmppThread
      PROVE  /\ \A s \in standIns' : s.app = a => Withdrawn(a, 0)'
             /\ \A i \in Reports(toFar', a) : Withdrawn(a, i)'
  <2> DEFINE m == Head(toFar)
  <2>1. UNCHANGED <<version, due>> /\ toFar # <<>> /\ toFar' = Tail(toFar)
    BY <1>8 DEF FarXmppThread, ReceiveAdvertisement, ReceiveAnnounce,
                ReceiveAdvertisementLost, ReceiveNameOwnerChanged, Available
  <2>2. /\ \A i \in Nat : Withdrawn(a, i + 1) => Withdrawn(a, i)'
        /\ Withdrawn(a, 0) => m = AdvertLost(a) \/ Withdrawn(a, 0)'
    BY <2>1, MarksTaken
  <2>3. \A i \in Reports(toFar', a) : i \in Nat /\ i + 1 \in Reports(toFar, a)
    BY <1>0, <2>1, ReportsTaken
  <2>4. \A i \in Reports(toFar', a) : Withdrawn(a, i)'
    BY <1>4, <2>1, <2>2, <2>3
  <2>5. ASSUME NEW s \in standIns', s.app = a
        PROVE  Withdrawn(a, 0)'
    <3>1. CASE s \in standIns
      <4>1. CASE m = AdvertLost(a)
        <5>1. m.type = "AdvertLost" /\ m.app = a
          BY <4>1 DEF AdvertLost
        <5>2. standIns' = standIns \ GetRemoteAttachmentByAdvertisedName(a)
          BY <1>8, <5>1 DEF FarXmppThread, ReceiveAdvertisement, ReceiveAnnounce,
                            ReceiveAdvertisementLost, ReceiveNameOwnerChanged, Available
        <5>3. s.name = "wkn"
          BY <3>1 DEF NameInv
        <5>4. QED BY <2>5, <3>1, <5>2, <5>3 DEF GetRemoteAttachmentByAdvertisedName
      <4>2. CASE m # AdvertLost(a)
        BY <1>4, <2>1, <2>2, <2>5, <3>1, <4>2
      <4>3. QED BY <4>1, <4>2
    <3>2. CASE s \notin standIns
      <4>1. s.app = m.app /\ m.type \in Ways
        BY <1>8, <2>1, <3>2, StandInAdded
      <4>2. 1 \in Reports(toFar, a)
        BY <1>0, <2>1, <2>5, <4>1, ReportsTaken
      <4>3. Withdrawn(a, 0 + 1)
        BY <1>4, <2>1, <4>2
      <4>4. QED BY <2>2, <4>3
    <3>3. QED BY <3>1, <3>2
  <2>6. QED BY <2>4, <2>5
<1>9. QED BY <1>1, <1>2, <1>3, <1>5, <1>6, <1>7, <1>8, BothThere
          DEF Next, NearXmppThread, Answer

(* Once nothing is under way, no stand-in is left of an application that   *)
(* has gone: an advertisement that an introspection under way sends late,  *)
(* after the loss of the name was reported, is never of one that has gone. *)
(* It needs, besides, that AllJoyn ends the walk over an application's     *)
(* objects before it lets the application go.                              *)
THEOREM NoGhosts ==
    ASSUME ~Hasty, AnnouncedBy = "wkn", ~Outlives
    PROVE  Spec => []NothingLeft
<1> DEFINE Inv == TypeOK /\ LinkInv /\ NameInv /\ WalkInv /\ LeftInv
<1>1. Init => Inv
  <2>1. ASSUME Init PROVE Inv
    <3>1. TypeOK
      BY <2>1, FirstTypes
    <3>2. LinkInv /\ NameInv /\ WalkInv /\ LeftInv
      BY <2>1 DEF Init, LinkInv, NameInv, WalkInv, LeftInv, Reports
    <3>3. QED BY <3>1, <3>2
  <2>2. QED BY <2>1
<1>2. Inv /\ [Next]_vars => Inv'
  <2>1. ASSUME Inv, UNCHANGED vars
        PROVE  Inv'
    <3>1. UNCHANGED <<version, listening, due, uniqueName, walks, toFar, presence,
                      farUp, outages, standIns, failed>>
      BY <2>1 DEF vars, near, far
    <3>2. QED BY <2>1, <3>1 DEF TypeOK, LinkInv, NameInv, WalkInv, LeftInv, Withdrawn, Up
  <2>2. ASSUME Inv, Next
        PROVE  Inv'
    <3>1. TypeOK' /\ LinkInv' /\ NameInv' /\ WalkInv'
      BY <2>2, StepTypes, StepLink, StepName, StepWalk
    <3>2. QED BY <2>2, <3>1, StepLeft
  <2>3. QED BY <2>1, <2>2
<1>3. Inv => NothingLeft
  <2> SUFFICES ASSUME Inv, Quiet, NEW s \in standIns
               PROVE  Up(s.app)
    BY DEF NothingLeft
  <2>1. due = <<>> /\ toFar = <<>>
    BY DEF Quiet
  <2>2. s.app \in Apps
    BY DEF TypeOK
  <2>3. ~Withdrawn(s.app, 0)
    BY <2>1 DEF Withdrawn, After
  <2>4. QED BY <2>2, <2>3 DEF LeftInv
<1>4. QED BY <1>1, <1>2, <1>3, PTL DEF Spec

-----------------------------------------------------------------------------
(* The places of the callbacks about the owner of a's name.                *)
Owners(box, a) == {i \in DOMAIN box : box[i].app = a /\ box[i].type = "Owner"}

(* The last of them names the owner the name has by now, if it has one;    *)
(* without any m_wellKnownNameMap is up to date, or knows nothing of it.   *)
(* An owner that is not the present one is followed by its own going.      *)
LastOwner(a) ==
    \/ Owners(due, a) = {} /\ uniqueName[a] \in {0, version[a]}
    \/ \E i \in Owners(due, a) :
          due[i] = Owner(a, version[a], TRUE) /\ \A j \in Owners(due, a) : j <= i

Outlived(a, i) ==
    \/ Up(a) /\ due[i].version = version[a]
    \/ After(due, i, Owner(a, due[i].version, FALSE))

OwnerInv ==
    \A a \in Apps : /\ Up(a) => LastOwner(a)
                    /\ \A i \in Owners(due, a) : due[i].up => Outlived(a, i)

(* An entry of m_wellKnownNameMap is empty or of the present owner, or its *)
(* owner's going is to be called back, or it is from before the watch and  *)
(* is replaced before anything about the application is looked at.         *)
Unheard(a) ==
    /\ \A w \in walks : w.app # a
    /\ \A i \in Appears(due, a) : \E j \in Owners(due, a) : j < i

Accounted(a) ==
    \/ uniqueName[a] = 0
    \/ Up(a) /\ uniqueName[a] = version[a]
    \/ After(due, 0, Owner(a, uniqueName[a], FALSE))
    \/ Unheard(a)

UniqueInv == \A a \in Apps : Accounted(a)

(* What a stand-in or a report has kept of an earlier owner is going to be *)
(* withdrawn or removed.                                                   *)
ReachInv ==
    \A a \in Apps, v \in Versions : v # 0 /\ v # version[a] =>
       /\ \A s \in standIns : s.app = a /\ s.version = v => Replaced(a, v, 0)
       /\ \A i \in Reports(toFar, a) : toFar[i].version = v => Replaced(a, v, i)

(* The callbacks about owners, after more are told.                        *)
LEMMA OwnersKept ==
    ASSUME NEW box \in Seq(Event), NEW more \in Seq(Event), NEW a
    PROVE  \A i \in Owners(box, a) : /\ i \in Owners(box \o more, a) /\ (box \o more)[i] = box[i]
                                     /\ i \in Nat /\ i <= Len(box)
<1> DEFINE long == box \o more
<1>1. \A i \in DOMAIN box : i \in DOMAIN long /\ long[i] = box[i] /\ i \in Nat /\ i <= Len(box)
  BY Longer
<1> HIDE DEF long
<1>2. \A i \in Owners(box, a) : /\ i \in Owners(long, a) /\ long[i] = box[i]
                                /\ i \in Nat /\ i <= Len(box)
  BY <1>1 DEF Owners
<1>3. QED BY <1>2 DEF long

LEMMA OwnersTold ==
    ASSUME NEW box \in Seq(Event), NEW more \in Seq(Event), NEW a
    PROVE  \A i \in Owners(box \o more, a) :
              \/ i \in Owners(box, a)
              \/ \E k \in DOMAIN more : /\ i = Len(box) + k /\ (box \o more)[i] = more[k]
                                        /\ more[k].app = a /\ more[k].type = "Owner"
<1> DEFINE long == box \o more
<1>1. /\ Len(box) \in Nat
      /\ \A i \in DOMAIN box : long[i] = box[i]
      /\ \A i \in DOMAIN long :
            \/ i \in DOMAIN box
            \/ i \in Nat /\ i - Len(box) \in DOMAIN more /\ long[i] = more[i - Len(box)]
  BY Longer
<1> HIDE DEF long
<1>2. ASSUME NEW i \in Owners(long, a), i \notin Owners(box, a)
      PROVE  \E k \in DOMAIN more : /\ i = Len(box) + k /\ long[i] = more[k]
                                   /\ more[k].app = a /\ more[k].type = "Owner"
  <2>1. i \in DOMAIN long /\ long[i].app = a /\ long[i].type = "Owner"
    BY <1>2 DEF Owners
  <2>2. i \notin DOMAIN box
    BY <1>1, <1>2, <2>1 DEF Owners
  <2>3. i \in Nat /\ i - Len(box) \in DOMAIN more /\ long[i] = more[i - Len(box)]
    BY <1>1, <2>1, <2>2
  <2>4. i = Len(box) + (i - Len(box))
    BY <1>1, <2>3
  <2>5. QED BY <2>1, <2>3, <2>4
<1>3. QED BY <1>2 DEF long

-----------------------------------------------------------------------------
(* What is told of another application leaves the owners of a as they are. *)
LEMMA OwnersOfOthers ==
    ASSUME NEW box \in Seq(Event), NEW more \in Seq(Event), NEW a,
           \A k \in DOMAIN more : more[k].app # a
    PROVE  /\ Owners(box \o more, a) = Owners(box, a)
           /\ \A i \in Owners(box, a) : (box \o more)[i] = box[i]
<1> DEFINE long == box \o more
<1>1. /\ \A i \in DOMAIN box : i \in DOMAIN long /\ long[i] = box[i]
      /\ \A i \in DOMAIN long : i \in DOMAIN box \/ long[i].app # a
  BY Longer
<1> HIDE DEF long
<1>2. Owners(long, a) = Owners(box, a) /\ \A i \in Owners(box, a) : long[i] = box[i]
  BY <1>1 DEF Owners
<1>3. QED BY <1>2 DEF long

LEMMA StepOwner ==
    ASSUME TypeOK, OwnerInv, ~Unseen, Next
    PROVE  OwnerInv'
<1> SUFFICES ASSUME NEW a \in Apps
             PROVE  /\ Up(a)' => LastOwner(a)'
                    /\ \A i \in Owners(due', a) : due'[i].up => Outlived(a, i)'
  BY DEF OwnerInv
<1> USE DEF near, far
<1>d. due \in Seq(Event)
  BY DEF TypeOK
<1>0. /\ Up(a) => LastOwner(a)
      /\ \A i \in Owners(due, a) : due[i].up => Outlived(a, i)
  BY DEF OwnerInv
<1>1. ASSUME UNCHANGED <<version, due, uniqueName>>
      PROVE  /\ Up(a)' => LastOwner(a)'
             /\ \A i \in Owners(due', a) : due'[i].up => Outlived(a, i)'
  BY <1>0, <1>1 DEF LastOwner, Outlived, Up
<1>2. ASSUME NEW b \in Apps, b # a, version'[a] = version[a], uniqueName' = uniqueName,
             NEW more \in Seq(Event), due' = due \o more,
             \A k \in DOMAIN more : more[k].app = b
      PROVE  /\ Up(a)' => LastOwner(a)'
             /\ \A i \in Owners(due', a) : due'[i].up => Outlived(a, i)'
  <2>1. Owners(due', a) = Owners(due, a) /\ \A i \in Owners(due, a) : due'[i] = due[i]
    <3>1. \A k \in DOMAIN more : more[k].app # a
      BY <1>2
    <3>2. due' = due \o more
      BY <1>2
    <3>3. QED BY <1>d, <3>1, <3>2, OwnersOfOthers
  <2>2. Up(a)' => LastOwner(a)'
    BY <1>0, <1>2, <2>1 DEF LastOwner, Up
  <2>3. \A i, m : After(due, i, m) => After(due', i, m)
    BY <1>d, <1>2, AfterMore
  <2>4. \A i \in Owners(due, a) : due[i].up => Outlived(a, i)'
    BY <1>0, <1>2, <2>1, <2>3 DEF Outlived, Up
  <2>5. QED BY <2>1, <2>2, <2>4
<1>3. ASSUME NEW b \in Apps, Start(b)
      PROVE  /\ Up(a)' => LastOwner(a)'
             /\ \A i \in Owners(due', a) : due'[i].up => Outlived(a, i)'
  <2>1. CASE ~listening
    <3>1. due' = due /\ due = <<>> /\ uniqueName' = uniqueName
      BY <1>3, <2>1 DEF Start, Tell, TypeOK
    <3>2. Owners(due', a) = {}
      BY <3>1 DEF Owners
    <3>3. CASE a = b
      <4>1. uniqueName[a] = 0
        BY <1>3, <2>1, <3>3 DEF Start
      <4>2. QED BY <3>1, <3>2, <4>1 DEF LastOwner
    <3>4. CASE a # b
      <4>1. version'[a] = version[a]
        BY <1>3, <3>4 DEF Start, TypeOK
      <4>2. Owners(due, a) = {}
        BY <3>1, <3>2
      <4>3. QED BY <1>0, <3>1, <3>2, <4>1, <4>2 DEF LastOwner, Up
    <3>5. QED BY <3>3, <3>4
  <2>2. CASE listening
    <3>1. PICK more \in Seq(Event) :
             /\ due' = due \o more
             /\ DOMAIN more = 1 .. 3 /\ more[1] = Owner(b, version[b] + 1, TRUE)
             /\ \/ more[2] = Found(b) /\ more[3] = Announced(b)
                \/ more[2] = Announced(b) /\ more[3] = Found(b)
      BY <1>3, <2>2, Started
    <3>0. due' = due \o more
      BY <3>1
    <3>2. uniqueName' = uniqueName /\ version' = [version EXCEPT ![b] = @ + 1] /\ ~Up(b)
      BY <1>3 DEF Start
    <3>3. CASE a # b
      <4>1. version'[a] = version[a]
        BY <3>2, <3>3 DEF TypeOK
      <4>2. \A k \in DOMAIN more : more[k].app = b
        BY <3>1 DEF Found, Announced, Owner
      <4>3. QED BY <1>2, <3>1, <3>2, <3>3, <4>1, <4>2
    <3>4. CASE a = b
      <4>1. version'[a] = version[a] + 1
        BY <3>2, <3>4 DEF TypeOK
      <4>2. \A k \in DOMAIN more : more[k].type = "Owner" => k = 1 /\ more[k] = Owner(a, version'[a], TRUE)
        <5>1. Found(b).type # "Owner" /\ Announced(b).type # "Owner"
          BY DEF Found, Announced
        <5>2. more[1] = Owner(a, version'[a], TRUE)
          BY <3>1, <3>4, <4>1
        <5>3. \A k \in DOMAIN more : k = 1 \/ more[k] \in {Found(b), Announced(b)}
          BY <3>1
        <5>4. QED BY <5>1, <5>2, <5>3
      <4>3. \A i \in Owners(due', a) :
               \/ i \in Owners(due, a) /\ due'[i] = due[i] /\ i \in Nat /\ i <= Len(due)
               \/ i = Len(due) + 1 /\ due'[i] = Owner(a, version'[a], TRUE)
        <5>1. \A i \in Owners(due, a) : due'[i] = due[i] /\ i \in Nat /\ i <= Len(due)
          BY <1>d, <3>0, OwnersKept
        <5>2. ASSUME NEW i \in Owners(due', a), i \notin Owners(due, a)
              PROVE  i = Len(due) + 1 /\ due'[i] = Owner(a, version'[a], TRUE)
          <6>1. PICK k \in DOMAIN more :
                   i = Len(due) + k /\ due'[i] = more[k] /\ more[k].type = "Owner"
            BY <1>d, <3>0, <5>2, OwnersTold
          <6>2. QED BY <4>2, <6>1
        <5>3. QED BY <5>1, <5>2
      <4>4. Len(due) + 1 \in Owners(due', a) /\ due'[Len(due) + 1] = Owner(a, version'[a], TRUE)
        <5>1. 1 \in DOMAIN more
          BY <3>1
        <5>2. Len(due) + 1 \in DOMAIN due' /\ due'[Len(due) + 1] = more[1]
          BY <1>d, <3>0, <5>1, Longer
        <5>3. due'[Len(due) + 1] = Owner(a, version'[a], TRUE)
          BY <3>1, <3>4, <4>1, <5>2
        <5>4. QED BY <5>2, <5>3 DEF Owners, Owner
      <4>5. LastOwner(a)'
        <5>1. Len(due) \in Nat
          BY <1>d
        <5>2. \A j \in Owners(due', a) : (j \in Nat /\ j <= Len(due)) \/ j = Len(due) + 1
          BY <4>3
        <5>3. \A j \in Owners(due', a) : j <= Len(due) + 1
          BY <5>1, <5>2
        <5>4. QED BY <4>4, <5>3 DEF LastOwner
      <4>6. ASSUME NEW i \in Owners(due', a), due'[i].up
            PROVE  Outlived(a, i)'
        <5>1. CASE i \in Owners(due, a) /\ due'[i] = due[i]
          <6>1. After(due, i, Owner(a, due[i].version, FALSE))
            BY <1>0, <3>2, <3>4, <4>6, <5>1 DEF Outlived
          <6>2. After(due', i, Owner(a, due[i].version, FALSE))
            BY <1>d, <3>0, <6>1, AfterMore
          <6>3. QED BY <5>1, <6>2 DEF Outlived
        <5>2. CASE due'[i] = Owner(a, version'[a], TRUE)
          <6>1. due'[i].version = version'[a]
            BY <5>2 DEF Owner
          <6>2. Up(a)'
            <7>1. version[a] \in Nat /\ ~Up(a)
              BY <3>2, <3>4, ConstantsAssumption DEF TypeOK, Versions
            <7>2. QED BY <4>1, <7>1 DEF Up
          <6>3. QED BY <6>1, <6>2 DEF Outlived
        <5>3. QED BY <4>3, <4>6, <5>1, <5>2
      <4>7. QED BY <4>5, <4>6
    <3>5. QED BY <3>3, <3>4
  <2>3. QED BY <2>1, <2>2
<1>4. ASSUME NEW b \in Apps, Stop(b)
      PROVE  /\ Up(a)' => LastOwner(a)'
             /\ \A i \in Owners(due', a) : due'[i].up => Outlived(a, i)'
  <2>0. uniqueName' = uniqueName /\ version' = [version EXCEPT ![b] = @ + 1] /\ Up(b)
    BY <1>4 DEF Stop
  <2>1. b = a => ~Up(a)'
    <3>1. version[b] \in Nat /\ version'[b] = version[b] + 1
      BY <2>0, ConstantsAssumption DEF TypeOK, Versions
    <3>2. QED BY <2>0, <3>1 DEF Up
  <2>2. b # a => version'[a] = version[a]
    BY <2>0 DEF TypeOK
  <2>3. CASE ~listening
    <3>1. due' = due /\ due = <<>>
      BY <1>4, <2>3 DEF Stop, Tell, TypeOK
    <3>2. Owners(due', a) = {} /\ Owners(due, a) = {}
      BY <3>1 DEF Owners
    <3>3. QED BY <1>0, <2>0, <2>1, <2>2, <3>1, <3>2 DEF LastOwner, Up
  <2>4. CASE listening
    <3>1. PICK more \in Seq(Event) :
             /\ due' = due \o more
             /\ DOMAIN more = 1 .. 2
             /\ \/ more[1] = Owner(b, version[b], FALSE) /\ more[2] = LostName(b)
                \/ more[1] = LostName(b) /\ more[2] = Owner(b, version[b], FALSE)
      BY <1>4, <2>4, Stopped
    <3>0. due' = due \o more
      BY <3>1
    <3>2. CASE a # b
      <4>1. \A k \in DOMAIN more : more[k].app = b
        BY <3>1 DEF LostName, Owner
      <4>2. QED BY <1>2, <2>0, <2>2, <3>1, <3>2, <4>1
    <3>3. CASE a = b
      <4>1. \A k \in DOMAIN more : more[k].type = "Owner" => ~more[k].up
        BY <3>1 DEF LostName, Owner
      <4>2. \E k \in DOMAIN more : more[k] = Owner(a, version[a], FALSE)
        <5>1. 1 \in DOMAIN more /\ 2 \in DOMAIN more
          BY <3>1
        <5>2. QED BY <3>1, <3>3, <5>1
      <4>3. ASSUME NEW i \in Owners(due', a), due'[i].up
            PROVE  Outlived(a, i)'
        <5>1. i \in Owners(due, a) /\ due'[i] = due[i]
          <6>1. i \in Owners(due, a)
            BY <1>d, <3>0, <4>1, <4>3, OwnersTold
          <6>2. QED BY <1>d, <3>0, <6>1, OwnersKept
        <5>2. CASE due[i].version = version[a]
          <6>1. After(due', i, Owner(a, version[a], FALSE))
            <7>1. i \in DOMAIN due
              BY <5>1 DEF Owners
            <7>2. QED BY <1>d, <3>0, <4>2, <7>1, AfterMore
          <6>2. QED BY <5>1, <5>2, <6>1 DEF Outlived
        <5>3. CASE due[i].version # version[a]
          <6>1. After(due, i, Owner(a, due[i].version, FALSE))
            BY <1>0, <4>3, <5>1, <5>3 DEF Outlived
          <6>2. After(due', i, Owner(a, due[i].version, FALSE))
            BY <1>d, <3>0, <6>1, AfterMore
          <6>3. QED BY <5>1, <6>2 DEF Outlived
        <5>4. QED BY <5>2, <5>3
      <4>4. QED BY <2>1, <3>3, <4>3
    <3>4. QED BY <3>2, <3>3
  <2>5. QED BY <2>3, <2>4
<1>5. ASSUME ReceiveAvailable
      PROVE  /\ Up(a)' => LastOwner(a)'
             /\ \A i \in Owners(due', a) : due'[i].up => Outlived(a, i)'
  <2>1. CASE listening
    BY <1>1, <1>5, <2>1 DEF ReceiveAvailable
  <2>2. CASE ~listening
    <3>1. due = <<>> /\ UNCHANGED <<version, uniqueName>>
      BY <1>5, <2>2 DEF ReceiveAvailable, TypeOK
    <3>2. due' \in SetToSeqs(Present)
      BY <1>5, <2>2 DEF ReceiveAvailable, Present, Running
    <3>3. \A i \in DOMAIN due' : due'[i] \in Present
      BY <3>2, PresentIsFinite, Orders
    <3>4. \A e \in Present : e.type # "Owner"
      BY DEF Present, Found, Announced
    <3>5. Owners(due', a) = {} /\ Owners(due, a) = {}
      BY <3>1, <3>3, <3>4 DEF Owners
    <3>6. QED BY <1>0, <3>1, <3>5 DEF LastOwner, Up
  <2>3. QED BY <2>1, <2>2
<1>6. ASSUME ReceiveUnavailable
      PROVE  /\ Up(a)' => LastOwner(a)'
             /\ \A i \in Owners(due', a) : due'[i].up => Outlived(a, i)'
  <2>1. due' = <<>> /\ UNCHANGED <<version, uniqueName>>
    BY <1>6 DEF ReceiveUnavailable
  <2>2. Owners(due, a) = {} /\ Owners(due', a) = {}
    BY <1>6, <2>1 DEF ReceiveUnavailable, Owners
  <2>3. QED BY <1>0, <2>1, <2>2 DEF LastOwner, Up
<1>7. ASSUME Listener
      PROVE  /\ Up(a)' => LastOwner(a)'
             /\ \A i \in Owners(due', a) : due'[i].up => Outlived(a, i)'
  <2> DEFINE e == Head(due)
  <2>1. due # <<>> /\ due' = Tail(due) /\ version' = version
    BY <1>7 DEF Listener, NameOwnerChanged, FoundAdvertisedName, ListenerAnnounced,
                LostAdvertisedName, Callback, Introspect
  <2>2. /\ \A i \in Owners(due', a) : i \in Nat /\ i + 1 \in Owners(due, a) /\ due'[i] = due[i + 1]
        /\ 1 \in Owners(due, a) <=> e.app = a /\ e.type = "Owner"
        /\ e = due[1]
    <3>1. \A i \in Owners(due', a) : i \in Nat /\ i + 1 \in Owners(due, a) /\ due'[i] = due[i + 1]
      BY <1>d, <2>1, WhereFrom DEF Owners
    <3>2. 1 \in DOMAIN due /\ e = due[1]
      BY <1>d, <2>1, WhereTo
    <3>3. QED BY <3>1, <3>2 DEF Owners
  <2>3. ASSUME NEW i \in Owners(due', a), due'[i].up
        PROVE  Outlived(a, i)'
    <3>1. i \in Nat /\ due'[i] = due[i + 1] /\ Outlived(a, i + 1)
      BY <1>0, <2>2, <2>3
    <3>2. After(due, i + 1, Owner(a, due[i + 1].version, FALSE))
             => After(due', i, Owner(a, due[i + 1].version, FALSE))
      BY <1>d, <2>1, <3>1, AfterTaken
    <3>3. QED BY <2>1, <3>1, <3>2 DEF Outlived, Up
  <2>4. e.type = "Owner" <=> NameOwnerChanged
    BY <1>7 DEF Listener, NameOwnerChanged, FoundAdvertisedName, ListenerAnnounced,
                LostAdvertisedName, Callback
  <2>5. 1 \notin Owners(due, a) => uniqueName'[a] = uniqueName[a]
    <3>1. CASE NameOwnerChanged
      BY <2>2, <2>4, <3>1 DEF NameOwnerChanged, TypeOK
    <3>2. CASE ~NameOwnerChanged
      BY <1>7, <3>2 DEF Listener, FoundAdvertisedName, ListenerAnnounced, LostAdvertisedName, Introspect
    <3>3. QED BY <3>1, <3>2
  <2>6. ASSUME Up(a)'
        PROVE  LastOwner(a)'
    <3>1. LastOwner(a)
      BY <1>0, <2>1, <2>6 DEF Up
    <3>2. CASE Owners(due, a) = {}
      <4>1. Owners(due', a) = {}
        BY <2>2, <3>2
      <4>2. uniqueName[a] \in {0, version[a]}
        BY <3>1, <3>2 DEF LastOwner
      <4>3. QED BY <2>1, <2>5, <3>2, <4>1, <4>2 DEF LastOwner
    <3>3. CASE Owners(due, a) # {}
      <4>1. PICK i \in Owners(due, a) :
               due[i] = Owner(a, version[a], TRUE) /\ \A j \in Owners(due, a) : j <= i
        BY <3>1, <3>3 DEF LastOwner
      <4>2. \A j \in Owners(due', a) : j \in Nat /\ j + 1 <= i
        BY <2>2, <4>1
      <4>3. i \in Nat /\ (i # 1 => i - 1 \in Owners(due', a) /\ due'[i - 1] = due[i])
        BY <1>d, <2>1, WhereTo DEF Owners
      <4>4. CASE i # 1
        <5>1. \A j \in Owners(due', a) : j <= i - 1
          BY <4>2, <4>3
        <5>2. QED BY <2>1, <4>1, <4>3, <4>4, <5>1 DEF LastOwner
      <4>5. CASE i = 1
        <5>1. Owners(due', a) = {}
          <6>1. \A j \in Owners(due', a) : j \in Nat /\ j > 0
            BY <1>d, <2>1, WhereFrom DEF Owners
          <6>2. \A j \in Owners(due', a) : FALSE
            BY <4>2, <4>5, <6>1
          <6>3. QED BY <6>2
        <5>2. e = Owner(a, version[a], TRUE)
          BY <2>2, <4>1, <4>5
        <5>3. e.type = "Owner" /\ e.app = a /\ e.version = version[a] /\ e.up = TRUE
          BY <5>2 DEF Owner
        <5>4. uniqueName'[a] = version[a]
          BY <2>4, <5>3 DEF NameOwnerChanged, TypeOK
        <5>5. QED BY <2>1, <5>1, <5>4 DEF LastOwner
      <4>6. QED BY <4>4, <4>5
    <3>4. QED BY <3>2, <3>3
  <2>7. QED BY <2>3, <2>6
<1>8. ASSUME (\E w \in walks : Answer(w)) \/ FarXmppThread \/ FarGoes \/ FarReturns
      PROVE  /\ Up(a)' => LastOwner(a)'
             /\ \A i \in Owners(due', a) : due'[i].up => Outlived(a, i)'
  <2>1. UNCHANGED <<version, due, uniqueName>>
    BY <1>8 DEF Answer, IntrospectCallback, GetBusObjectsCallback,
                GetBusObjectsAnnouncementCallback, FarXmppThread, ReceiveAdvertisement,
                ReceiveAnnounce, ReceiveAdvertisementLost, ReceiveNameOwnerChanged,
                FarGoes, FarReturns
  <2>2. QED BY <1>1, <2>1
<1>9. QED BY <1>3, <1>4, <1>5, <1>6, <1>7, <1>8 DEF Next, NearXmppThread

-----------------------------------------------------------------------------
(* An entry nothing has been heard of stays so when more is told, if what  *)
(* is told of the application begins with the owner of its name.           *)
LEMMA UnheardTold ==
    ASSUME TypeOK, walks' = walks, NEW a, NEW more \in Seq(Event), due' = due \o more, Unheard(a),
           \A k \in DOMAIN more :
              more[k].app = a /\ more[k].type \in {"Found", "Announced"} =>
                 k > 1 /\ 1 \in DOMAIN more /\ more[1].app = a /\ more[1].type = "Owner"
    PROVE  Unheard(a)'
<1>1. due \in Seq(Event)
  BY DEF TypeOK
<1>2. /\ Len(due) \in Nat
      /\ \A i \in DOMAIN due : i \in DOMAIN due' /\ due'[i] = due[i]
      /\ \A k \in DOMAIN more : k \in Nat /\ Len(due) + k \in DOMAIN due' /\ due'[Len(due) + k] = more[k]
      /\ \A i \in DOMAIN due' :
            \/ i \in DOMAIN due
            \/ i \in Nat /\ i - Len(due) \in DOMAIN more /\ due'[i] = more[i - Len(due)]
  BY <1>1, Longer
<1>3. \A i \in Owners(due, a) : i \in Owners(due', a)
  BY <1>2 DEF Owners
<1>4. ASSUME NEW i \in Appears(due', a)
      PROVE  \E j \in Owners(due', a) : j < i
  <2>1. i \in DOMAIN due' /\ due'[i].app = a /\ due'[i].type \in {"Found", "Announced"}
    BY DEF Appears
  <2>2. CASE i \in DOMAIN due
    <3>1. i \in Appears(due, a)
      BY <1>2, <2>1, <2>2 DEF Appears
    <3>2. QED BY <1>3, <3>1 DEF Unheard
  <2>3. CASE i \notin DOMAIN due
    <3>1. i \in Nat /\ i - Len(due) \in DOMAIN more /\ due'[i] = more[i - Len(due)]
      BY <1>2, <2>1, <2>3
    <3>2. i - Len(due) > 1 /\ 1 \in DOMAIN more /\ more[1].app = a /\ more[1].type = "Owner"
      BY <2>1, <3>1
    <3>3. Len(due) + 1 \in DOMAIN due' /\ due'[Len(due) + 1] = more[1]
      BY <1>2, <3>2
    <3>4. Len(due) + 1 \in Owners(due', a)
      BY <3>2, <3>3 DEF Owners
    <3>5. Len(due) + 1 < i
      BY <1>2, <3>1, <3>2
    <3>6. QED BY <3>4, <3>5
  <2>4. QED BY <2>2, <2>3
<1>5. QED BY <1>4 DEF Unheard

(* And when a callback is taken that is not about the owner of its name;   *)
(* one by which the application appears cannot be the next.                *)
LEMMA UnheardTaken ==
    ASSUME TypeOK, due # <<>>, due' = Tail(due), NEW a, Unheard(a),
           ~(Head(due).app = a /\ Head(due).type = "Owner")
    PROVE  /\ ~(Head(due).app = a /\ Head(due).type \in {"Found", "Announced"})
           /\ \A i \in Appears(due', a) : \E j \in Owners(due', a) : j < i
<1>1. due \in Seq(Event)
  BY DEF TypeOK
<1>2. \A i \in Appears(due', a) : i \in Nat /\ i + 1 \in Appears(due, a)
  BY <1>1, WhereFrom DEF Appears
<1>3. \A j \in Owners(due, a) : j \in Nat /\ ~(j < 1)
  BY <1>1, WhereTo DEF Owners
<1>4. \A j \in Owners(due, a) : j # 1 => j - 1 \in Owners(due', a)
  BY <1>1, WhereTo DEF Owners
<1>5. 1 \in DOMAIN due /\ Head(due) = due[1]
  BY <1>1, WhereTo
<1>6. 1 \notin Owners(due, a)
  BY <1>5 DEF Owners
<1>7. ASSUME Head(due).app = a /\ Head(due).type \in {"Found", "Announced"}
      PROVE  FALSE
  <2>1. 1 \in Appears(due, a)
    BY <1>5, <1>7 DEF Appears
  <2>2. PICK j \in Owners(due, a) : j < 1
    BY <2>1 DEF Unheard
  <2>3. QED BY <1>3, <2>2
<1>8. ASSUME NEW i \in Appears(due', a)
      PROVE  \E j \in Owners(due', a) : j < i
  <2>1. i \in Nat /\ i + 1 \in Appears(due, a)
    BY <1>2
  <2>2. PICK j \in Owners(due, a) : j < i + 1
    BY <2>1 DEF Unheard
  <2>0. j # 1
    BY <1>6
  <2>3. j \in Nat /\ j - 1 \in Owners(due', a)
    BY <1>3, <1>4, <2>0
  <2>4. j - 1 < i
    BY <2>1, <2>2, <2>3
  <2>5. QED BY <2>3, <2>4
<1>9. QED BY <1>7, <1>8

LEMMA StepUnique ==
    ASSUME TypeOK, TypeOK', OwnerInv, UniqueInv, Next
    PROVE  UniqueInv'
<1> SUFFICES ASSUME NEW a \in Apps PROVE Accounted(a)'
  BY DEF UniqueInv
<1> USE DEF near, far
<1>a. Accounted(a)
  BY DEF UniqueInv
<1>d. due \in Seq(Event)
  BY DEF TypeOK
<1>0. CASE ~listening'
  <2>1. due' = <<>> /\ walks' = {}
    BY <1>0 DEF TypeOK
  <2>2. Appears(due', a) = {}
    BY <2>1 DEF Appears
  <2>3. Unheard(a)'
    BY <2>1, <2>2 DEF Unheard
  <2>4. QED BY <2>3 DEF Accounted
<1>1. ASSUME UNCHANGED <<version, due, uniqueName>>,
             \A w \in walks' : \E x \in walks : w.app = x.app
      PROVE  Accounted(a)'
  <2>1. Unheard(a) => Unheard(a)'
    BY <1>1 DEF Unheard
  <2>2. QED BY <1>a, <1>1, <2>1 DEF Accounted, Up
<1>2. ASSUME NEW more \in Seq(Event), due' = due \o more, UNCHANGED <<uniqueName, walks>>,
             \A k \in DOMAIN more :
                more[k].app = a /\ more[k].type \in {"Found", "Announced"} =>
                   k > 1 /\ 1 \in DOMAIN more /\ more[1].app = a /\ more[1].type = "Owner",
             \/ version'[a] = version[a] \/ ~Up(a)
             \/ \E k \in DOMAIN more : more[k] = Owner(a, version[a], FALSE)
      PROVE  Accounted(a)'
  <2>1. Unheard(a) => Unheard(a)'
    BY <1>2, UnheardTold
  <2>2. After(due, 0, Owner(a, uniqueName[a], FALSE)) => After(due', 0, Owner(a, uniqueName[a], FALSE))
    BY <1>d, <1>2, AfterMore
  <2>3. CASE version'[a] = version[a] \/ ~Up(a)
    BY <1>a, <1>2, <2>1, <2>2, <2>3 DEF Accounted, Up
  <2>4. CASE \E k \in DOMAIN more : more[k] = Owner(a, version[a], FALSE)
    <3>1. After(due', 0, Owner(a, version[a], FALSE))
      BY <1>d, <1>2, <2>4, AfterMore
    <3>2. QED BY <1>a, <1>2, <2>1, <2>2, <3>1 DEF Accounted
  <2>5. QED BY <1>2, <2>3, <2>4
<1>3. ASSUME NEW b \in Apps, Start(b), listening'
      PROVE  Accounted(a)'
  <2>1. listening /\ UNCHANGED <<uniqueName, walks>>
    BY <1>3 DEF Start
  <2>2. PICK more \in Seq(Event) :
           /\ due' = due \o more
           /\ DOMAIN more = 1 .. 3 /\ more[1] = Owner(b, version[b] + 1, TRUE)
           /\ \/ more[2] = Found(b) /\ more[3] = Announced(b)
              \/ more[2] = Announced(b) /\ more[3] = Found(b)
    BY <1>3, <2>1, Started
  <2>3. \A k \in DOMAIN more : more[k].app = b
    BY <2>2 DEF Found, Announced, Owner
  <2>4. more[1].type = "Owner"
    BY <2>2 DEF Owner
  <2>5. 1 \in DOMAIN more /\ \A k \in DOMAIN more : k = 1 \/ k > 1
    BY <2>2
  <2>6. \A k \in DOMAIN more :
           more[k].app = a /\ more[k].type \in {"Found", "Announced"} =>
              k > 1 /\ 1 \in DOMAIN more /\ more[1].app = a /\ more[1].type = "Owner"
    BY <2>3, <2>4, <2>5
  <2>7. version'[a] = version[a] \/ ~Up(a)
    BY <1>3 DEF Start, TypeOK
  <2>8. due' = due \o more
    BY <2>2
  <2>9. QED BY <1>2, <2>1, <2>6, <2>7, <2>8
<1>4. ASSUME NEW b \in Apps, Stop(b), listening'
      PROVE  Accounted(a)'
  <2>1. listening /\ UNCHANGED <<uniqueName, walks>>
    BY <1>4 DEF Stop
  <2>2. PICK more \in Seq(Event) :
           /\ due' = due \o more
           /\ DOMAIN more = 1 .. 2
           /\ \/ more[1] = Owner(b, version[b], FALSE) /\ more[2] = LostName(b)
              \/ more[1] = LostName(b) /\ more[2] = Owner(b, version[b], FALSE)
    BY <1>4, <2>1, Stopped
  <2>3. \A k \in DOMAIN more : more[k].type \notin {"Found", "Announced"}
    BY <2>2 DEF LostName, Owner
  <2>4. \E k \in DOMAIN more : more[k] = Owner(b, version[b], FALSE)
    <3>1. 1 \in DOMAIN more /\ 2 \in DOMAIN more
      BY <2>2
    <3>2. QED BY <2>2, <3>1
  <2>5. version'[a] = version[a] \/ a = b
    BY <1>4 DEF Stop, TypeOK
  <2>6. due' = due \o more
    BY <2>2
  <2>7. QED BY <1>2, <2>1, <2>3, <2>4, <2>5, <2>6
<1>5. ASSUME ReceiveAvailable
      PROVE  Accounted(a)'
  <2>1. UNCHANGED <<version, uniqueName, walks>>
    BY <1>5 DEF ReceiveAvailable
  <2>2. CASE listening
    <3>1. due' = due
      BY <1>5, <2>2 DEF ReceiveAvailable
    <3>2. QED BY <1>1, <2>1, <3>1
  <2>3. CASE ~listening
    <3>1. due = <<>> /\ walks = {}
      BY <2>3 DEF TypeOK
    <3>2. due' \in SetToSeqs(Present)
      BY <1>5, <2>3 DEF ReceiveAvailable, Present, Running
    <3>3. CASE Up(a)
      <4>1. Owners(due, a) = {}
        BY <3>1 DEF Owners
      <4>2. uniqueName[a] \in {0, version[a]}
        BY <3>3, <4>1 DEF OwnerInv, LastOwner
      <4>3. QED BY <2>1, <3>3, <4>2 DEF Accounted, Up
    <3>4. CASE ~Up(a)
      <4>1. \A i \in DOMAIN due' : due'[i] \in Present
        BY <3>2, PresentIsFinite, Orders
      <4>2. \A e \in Present : e.app # a
        BY <3>4 DEF Present, Running, Found, Announced
      <4>3. Appears(due', a) = {}
        BY <4>1, <4>2 DEF Appears
      <4>4. Unheard(a)'
        BY <2>1, <3>1, <4>3 DEF Unheard
      <4>5. QED BY <4>4 DEF Accounted
    <3>5. QED BY <3>3, <3>4
  <2>4. QED BY <2>2, <2>3
<1>6. ASSUME Listener
      PROVE  Accounted(a)'
  <2> DEFINE e == Head(due)
  <2>1. due # <<>> /\ due' = Tail(due) /\ version' = version
    BY <1>6 DEF Listener, NameOwnerChanged, FoundAdvertisedName, ListenerAnnounced,
                LostAdvertisedName, Callback, Introspect
  <2>2. e.type = "Owner" <=> NameOwnerChanged
    BY <1>6 DEF Listener, NameOwnerChanged, FoundAdvertisedName, ListenerAnnounced,
                LostAdvertisedName, Callback
  <2>3. CASE e.app = a /\ e.type = "Owner"
    <3>1. uniqueName'[a] = IF e.up THEN e.version ELSE 0
      BY <2>2, <2>3 DEF NameOwnerChanged, TypeOK
    <3>2. CASE ~e.up
      BY <3>1, <3>2 DEF Accounted
    <3>3. CASE e.up
      <4>1. 1 \in DOMAIN due /\ e = due[1]
        BY <1>d, <2>1, WhereTo
      <4>2. 1 \in Owners(due, a) /\ due[1].up
        BY <2>3, <3>3, <4>1 DEF Owners
      <4>3. Outlived(a, 1)
        BY <4>2 DEF OwnerInv
      <4>4. uniqueName'[a] = due[1].version
        BY <3>1, <3>3, <4>1
      <4>5. CASE Up(a) /\ due[1].version = version[a]
        BY <2>1, <4>4, <4>5 DEF Accounted, Up
      <4>6. CASE After(due, 1, Owner(a, due[1].version, FALSE))
        <5>1. After(due, 1, Owner(a, uniqueName'[a], FALSE))
          BY <4>4, <4>6
        <5>2. After(due', 0, Owner(a, uniqueName'[a], FALSE))
          BY <1>d, <2>1, <5>1, AfterTaken
        <5>3. QED BY <5>2 DEF Accounted
      <4>7. QED BY <4>3, <4>5, <4>6 DEF Outlived
    <3>4. QED BY <3>2, <3>3
  <2>4. CASE ~(e.app = a /\ e.type = "Owner")
    <3>1. uniqueName'[a] = uniqueName[a]
      <4>1. CASE NameOwnerChanged
        BY <2>2, <2>4, <4>1 DEF NameOwnerChanged, TypeOK
      <4>2. CASE ~NameOwnerChanged
        BY <1>6, <4>2 DEF Listener, FoundAdvertisedName, ListenerAnnounced, LostAdvertisedName, Introspect
      <4>3. QED BY <4>1, <4>2
    <3>2. After(due, 0, Owner(a, uniqueName[a], FALSE)) => After(due', 0, Owner(a, uniqueName[a], FALSE))
      <4>1. \A v : e # Owner(a, v, FALSE)
        BY <2>4 DEF Owner
      <4>2. QED BY <1>d, <2>1, <4>1, AfterTaken
    <3>3. Unheard(a) => Unheard(a)'
      <4> SUFFICES ASSUME Unheard(a) PROVE Unheard(a)'
        OBVIOUS
      <4>1. /\ ~(e.app = a /\ e.type \in {"Found", "Announced"})
            /\ \A i \in Appears(due', a) : \E j \in Owners(due', a) : j < i
        BY <2>1, <2>4, UnheardTaken
      <4>2. \A w \in walks' : w \in walks \/ (w.app = e.app /\ e.type \in {"Found", "Announced"})
        BY <1>6 DEF Listener, NameOwnerChanged, FoundAdvertisedName, ListenerAnnounced,
                    LostAdvertisedName, Callback, Introspect, Walk, App
      <4>3. \A w \in walks' : w.app # a
        BY <4>1, <4>2 DEF Unheard
      <4>4. QED BY <4>1, <4>3 DEF Unheard
    <3>4. QED BY <1>a, <2>1, <3>1, <3>2, <3>3 DEF Accounted, Up
  <2>5. QED BY <2>3, <2>4
<1>7. ASSUME NEW w \in walks, Answer(w)
      PROVE  Accounted(a)'
  <2>1. UNCHANGED <<version, due, uniqueName>>
    BY <1>7 DEF Answer, IntrospectCallback, GetBusObjectsCallback, GetBusObjectsAnnouncementCallback
  <2>2. walks' \subseteq walks \cup {[w EXCEPT !.at = "tree"]}
    BY <1>7 DEF Answer, IntrospectCallback, GetBusObjectsCallback, GetBusObjectsAnnouncementCallback
  <2>3. [w EXCEPT !.at = "tree"].app = w.app
    BY DEF TypeOK
  <2>4. \A x \in walks' : \E y \in walks : x.app = y.app
    BY <2>2, <2>3
  <2>5. QED BY <1>1, <2>1, <2>4
<1>8. ASSUME FarXmppThread \/ FarGoes \/ FarReturns
      PROVE  Accounted(a)'
  <2>1. UNCHANGED <<version, due, uniqueName, walks>>
    BY <1>8 DEF FarXmppThread, ReceiveAdvertisement, ReceiveAnnounce, ReceiveAdvertisementLost,
                ReceiveNameOwnerChanged, FarGoes, FarReturns
  <2>2. QED BY <1>1, <2>1
<1>9. CASE listening'
  <2>1. ~ReceiveUnavailable
    BY <1>9 DEF ReceiveUnavailable
  <2>2. QED BY <1>3, <1>4, <1>5, <1>6, <1>7, <1>8, <1>9, <2>1 DEF Next, NearXmppThread
<1>10. QED BY <1>0, <1>9

(* No stand-in and no report is of an earlier owner for good: the owner    *)
(* the listener knows is none, the present one, or one whose going is yet  *)
(* to be called back.                                                      *)
LEMMA StepReach ==
    ASSUME TypeOK, LinkInv, LinkInv', NameInv, WalkInv, LeftInv, UniqueInv, ReachInv, Next
    PROVE  ReachInv'
<1>a. CASE ~(farUp' /\ listening')
  <2>1. toFar' = <<>> /\ standIns' = {}
    BY <1>a DEF LinkInv
  <2>2. QED BY <2>1 DEF ReachInv, Reports
<1> SUFFICES ASSUME farUp', listening',
                    NEW a \in Apps, NEW v \in Versions, v # 0, v # version'[a]
             PROVE  /\ \A s \in standIns' : s.app = a /\ s.version = v => Replaced(a, v, 0)'
                    /\ \A i \in Reports(toFar', a) : toFar'[i].version = v => Replaced(a, v, i)'
  BY <1>a DEF ReachInv
<1> USE DEF near, far
<1>0. toFar \in Seq(Message)
  BY DEF TypeOK
<1>1. ASSUME version'[a] = version[a]
      PROVE  /\ \A s \in standIns : s.app = a /\ s.version = v => Replaced(a, v, 0)
             /\ \A i \in Reports(toFar, a) : toFar[i].version = v => Replaced(a, v, i)
  BY <1>1 DEF ReachInv
<1>2. ASSUME NEW b \in Apps, Start(b) \/ Stop(b)
      PROVE  /\ \A s \in standIns' : s.app = a /\ s.version = v => Replaced(a, v, 0)'
             /\ \A i \in Reports(toFar', a) : toFar'[i].version = v => Replaced(a, v, i)'
  <2>1. listening /\ UNCHANGED <<toFar, standIns>>
    BY <1>2 DEF Start, Stop
  <2>2. \E more \in Seq(Event) : due' = due \o more
    BY <1>2, <2>1, Started, Stopped
  <2>3. \A i : Replaced(a, v, i) => Replaced(a, v, i)'
    BY <2>1, <2>2, MarksGrow
  <2>4. CASE a # b
    <3>1. version'[a] = version[a]
      BY <1>2, <2>4 DEF Start, Stop, TypeOK
    <3>2. QED BY <1>1, <2>1, <2>3, <3>1
  <2>5. CASE a = b /\ Start(b)
    <3>1. ~Up(a)
      BY <2>5 DEF Start
    <3>2. /\ \A s \in standIns : s.app = a => Withdrawn(a, 0)
          /\ \A i \in Reports(toFar, a) : Withdrawn(a, i)
      BY <3>1 DEF LeftInv
    <3>3. \A i : Withdrawn(a, i) => Replaced(a, v, i)
      BY DEF Replaced
    <3>4. QED BY <2>1, <2>3, <3>2, <3>3
  <2>6. CASE a = b /\ Stop(b)
    <3>1. PICK more \in Seq(Event) :
             /\ due' = due \o more
             /\ DOMAIN more = 1 .. 2
             /\ \/ more[1] = Owner(b, version[b], FALSE) /\ more[2] = LostName(b)
                \/ more[1] = LostName(b) /\ more[2] = Owner(b, version[b], FALSE)
      BY <2>1, <2>6, Stopped
    <3>2. \E k \in DOMAIN more : more[k] = LostName(a)
      <4>1. 1 \in DOMAIN more /\ 2 \in DOMAIN more
        BY <3>1
      <4>2. QED BY <2>6, <3>1, <4>1
    <3>3. due \in Seq(Event)
      BY DEF TypeOK
    <3>4. After(due', 0, LostName(a))
      BY <3>1, <3>2, <3>3, AfterMore
    <3>5. \A i : Replaced(a, v, i)'
      BY <3>4 DEF Replaced, Withdrawn
    <3>6. QED BY <3>5
  <2>7. QED BY <1>2, <2>4, <2>5, <2>6
<1>3. ASSUME ReceiveAvailable
      PROVE  /\ \A s \in standIns' : s.app = a /\ s.version = v => Replaced(a, v, 0)'
             /\ \A i \in Reports(toFar', a) : toFar'[i].version = v => Replaced(a, v, i)'
  BY <1>3, BothThere DEF Reports
<1>5. ASSUME Listener
      PROVE  /\ \A s \in standIns' : s.app = a /\ s.version = v => Replaced(a, v, 0)'
             /\ \A i \in Reports(toFar', a) : toFar'[i].version = v => Replaced(a, v, i)'
  <2>1. UNCHANGED <<version, farUp, standIns>>
    BY <1>5 DEF Listener, NameOwnerChanged, FoundAdvertisedName, ListenerAnnounced,
                LostAdvertisedName, Introspect
  <2>2. \A i \in DOMAIN toFar \cup {0} : Replaced(a, v, i) => Replaced(a, v, i)'
    BY <1>5, <2>1, MarksCalled
  <2>3. \A i \in Reports(toFar', a) : i \in Reports(toFar, a) /\ toFar'[i] = toFar[i]
    BY <1>0, <1>5, ListenerReportsNothing
  <2>4. \A i \in Reports(toFar, a) : i \in DOMAIN toFar
    BY DEF Reports
  <2>5. QED BY <1>1, <2>1, <2>2, <2>3, <2>4
<1>6. ASSUME NEW w \in walks, IntrospectCallback(w)
      PROVE  /\ \A s \in standIns' : s.app = a /\ s.version = v => Replaced(a, v, 0)'
             /\ \A i \in Reports(toFar', a) : toFar'[i].version = v => Replaced(a, v, i)'
  <2>1. UNCHANGED <<version, due, toFar, standIns>>
    BY <1>6 DEF IntrospectCallback
  <2>2. \A i : Replaced(a, v, i) => Replaced(a, v, i)'
    BY <2>1 DEF Replaced, Withdrawn
  <2>3. QED BY <1>1, <2>1, <2>2
<1>7. ASSUME NEW w \in walks, GetBusObjectsCallback(w) \/ GetBusObjectsAnnouncementCallback(w)
      PROVE  /\ \A s \in standIns' : s.app = a /\ s.version = v => Replaced(a, v, 0)'
             /\ \A i \in Reports(toFar', a) : toFar'[i].version = v => Replaced(a, v, i)'
  <2>1. UNCHANGED <<version, due, farUp, standIns>> /\ w.at = "tree"
    BY <1>7 DEF GetBusObjectsCallback, GetBusObjectsAnnouncementCallback
  <2>2. PICK m : toFar' = Append(toFar, m) /\ m.app = w.app /\ m.version = uniqueName[w.app]
    BY <1>7, <2>1, ReportMade
  <2>3. \A i : Replaced(a, v, i) => Replaced(a, v, i)'
    BY <2>1, <2>2, MarksGrow
  <2>4. ASSUME w.app = a, uniqueName[a] = v
        PROVE  \A i : Replaced(a, v, i)'
    <3>1. Accounted(a)
      BY DEF UniqueInv
    <3>2. ~Unheard(a)
      BY <2>4 DEF Unheard
    <3>3. version[a] # v
      BY <2>1
    <3>4. After(due, 0, Owner(a, v, FALSE))
      BY <2>4, <3>1, <3>2, <3>3 DEF Accounted
    <3>5. QED BY <2>1, <3>4 DEF Replaced
  <2>5. \A i \in Reports(toFar', a) :
           \/ i \in Reports(toFar, a) /\ toFar'[i] = toFar[i]
           \/ m.app = a /\ toFar'[i] = m
    BY <1>0, <2>2, OneLonger DEF Reports
  <2>6. \A i \in Reports(toFar', a) : toFar'[i].version = v => Replaced(a, v, i)'
    BY <1>1, <2>1, <2>2, <2>3, <2>4, <2>5
  <2>7. QED BY <1>1, <2>1, <2>3, <2>6
<1>8. ASSUME FarXmppThread
      PROVE  /\ \A s \in standIns' : s.app = a /\ s.version = v => Replaced(a, v, 0)'
             /\ \A i \in Reports(toFar', a) : toFar'[i].version = v => Replaced(a, v, i)'
  <2> DEFINE m == Head(toFar)
  <2>1. UNCHANGED <<version, due>> /\ toFar # <<>> /\ toFar' = Tail(toFar)
    BY <1>8 DEF FarXmppThread, ReceiveAdvertisement, ReceiveAnnounce,
                ReceiveAdvertisementLost, ReceiveNameOwnerChanged, Available
  <2>2. /\ \A i \in Nat : Replaced(a, v, i + 1) => Replaced(a, v, i)'
        /\ Replaced(a, v, 0) => m \in {AdvertLost(a), OwnerGone(a, v)} \/ Replaced(a, v, 0)'
    BY <2>1, MarksTaken
  <2>3. \A i \in Reports(toFar', a) : i \in Nat /\ i + 1 \in Reports(toFar, a) /\ toFar'[i] = toFar[i + 1]
    BY <1>0, <2>1, WhereFrom DEF Reports
  <2>4. \A i \in Reports(toFar', a) : toFar'[i].version = v => Replaced(a, v, i)'
    BY <1>1, <2>1, <2>2, <2>3
  <2>5. ASSUME NEW s \in standIns', s.app = a, s.version = v
        PROVE  Replaced(a, v, 0)'
    <3>1. CASE s \in standIns
      <4>1. CASE m = AdvertLost(a)
        <5>1. m.type = "AdvertLost" /\ m.app = a
          BY <4>1 DEF AdvertLost
        <5>2. standIns' = standIns \ GetRemoteAttachmentByAdvertisedName(a)
          BY <1>8, <5>1 DEF FarXmppThread, ReceiveAdvertisement, ReceiveAnnounce,
                            ReceiveAdvertisementLost, ReceiveNameOwnerChanged, Available
        <5>3. s.name = "wkn"
          BY <3>1 DEF NameInv
        <5>4. QED BY <2>5, <3>1, <5>2, <5>3 DEF GetRemoteAttachmentByAdvertisedName
      <4>2. CASE m = OwnerGone(a, v)
        <5>1. m.type = "NameOwnerChanged" /\ m.app = a /\ m.version = v
          BY <4>2 DEF OwnerGone
        <5>2. standIns' = standIns \ GetRemoteAttachment(m)
          BY <1>8, <5>1 DEF FarXmppThread, ReceiveAdvertisement, ReceiveAnnounce,
                            ReceiveAdvertisementLost, ReceiveNameOwnerChanged, Available
        <5>3. QED BY <2>5, <3>1, <5>1, <5>2 DEF GetRemoteAttachment
      <4>3. CASE m \notin {AdvertLost(a), OwnerGone(a, v)}
        <5>1. Replaced(a, v, 0)
          BY <1>1, <2>1, <2>5, <3>1
        <5>2. QED BY <2>2, <4>3, <5>1
      <4>4. QED BY <4>1, <4>2, <4>3
    <3>2. CASE s \notin standIns
      <4>1. s.app = m.app /\ s.version = m.version /\ m.type \in Ways
        BY <1>8, <2>1, <3>2, StandInAdded
      <4>2. 1 \in Reports(toFar, a) /\ toFar[1] = m
        BY <1>0, <2>1, <2>5, <4>1, ReportsTaken
      <4>3. Replaced(a, v, 0 + 1)
        <5>1. toFar[1].version = v
          BY <2>5, <4>1, <4>2
        <5>2. QED BY <1>1, <2>1, <4>2, <5>1
      <4>4. QED BY <2>2, <4>3
    <3>3. QED BY <3>1, <3>2
  <2>6. QED BY <2>4, <2>5
<1>9. QED BY <1>2, <1>3, <1>5, <1>6, <1>7, <1>8, BothThere DEF Next, NearXmppThread, Answer

(* Once nothing is under way, what is sent to the application of a         *)
(* stand-in, by the name the stand-in was made for, reaches the owner that *)
(* runs now: m_wellKnownNameMap may be behind when an advertisement is     *)
(* sent, but then the going of the owner it names is reported after it.    *)
(* It needs, besides, that no restart goes unseen between two watches: the *)
(* map is kept when the watch ends.                                        *)
THEOREM NamesReach ==
    ASSUME ~Hasty, AnnouncedBy = "wkn", ~Outlives, ~Unseen
    PROVE  Spec => []ReachesApp
<1> DEFINE Inv == /\ TypeOK /\ LinkInv /\ NameInv /\ WalkInv /\ LeftInv
                  /\ OwnerInv /\ UniqueInv /\ ReachInv
<1>1. Init => Inv
  <2>1. ASSUME Init PROVE Inv
    <3>1. TypeOK
      BY <2>1, FirstTypes
    <3>2. LinkInv /\ NameInv /\ WalkInv /\ LeftInv
      BY <2>1 DEF Init, LinkInv, NameInv, WalkInv, LeftInv, Reports
    <3>4. OwnerInv /\ UniqueInv
      BY <2>1 DEF Init, OwnerInv, LastOwner, UniqueInv, Accounted, Owners
    <3>5. ReachInv
      BY <2>1 DEF Init, ReachInv, Reports
    <3>6. QED BY <3>1, <3>2, <3>4, <3>5
  <2>2. QED BY <2>1
<1>2. Inv /\ [Next]_vars => Inv'
  <2>1. ASSUME Inv, UNCHANGED vars
        PROVE  Inv'
    <3>1. UNCHANGED <<version, listening, due, uniqueName, walks, toFar, presence,
                      farUp, outages, standIns, failed>>
      BY <2>1 DEF vars, near, far
    <3>2. TypeOK' /\ LinkInv' /\ NameInv' /\ WalkInv' /\ LeftInv'
      BY <2>1, <3>1 DEF TypeOK, LinkInv, NameInv, WalkInv, LeftInv, Withdrawn, Up
    <3>3. OwnerInv' /\ UniqueInv'
      BY <2>1, <3>1 DEF OwnerInv, LastOwner, Outlived, UniqueInv, Accounted, Unheard, Up
    <3>4. ReachInv'
      BY <2>1, <3>1 DEF ReachInv, Replaced, Withdrawn
    <3>5. QED BY <3>2, <3>3, <3>4
  <2>2. ASSUME Inv, Next
        PROVE  Inv'
    <3>1. TypeOK' /\ LinkInv' /\ NameInv' /\ WalkInv'
      BY <2>2, StepTypes, StepLink, StepName, StepWalk
    <3>2. LeftInv' /\ OwnerInv'
      BY <2>2, <3>1, StepLeft, StepOwner
    <3>3. UniqueInv' /\ ReachInv'
      BY <2>2, <3>1, StepUnique, StepReach
    <3>4. QED BY <3>1, <3>2, <3>3
  <2>3. QED BY <2>1, <2>2
<1>3. Inv => ReachesApp
  <2> SUFFICES ASSUME Inv, Quiet, NEW s \in standIns
               PROVE  s.version \in {0, version[s.app]}
    BY DEF ReachesApp
  <2>1. due = <<>> /\ toFar = <<>>
    BY DEF Quiet
  <2>2. s.app \in Apps /\ s.version \in Versions
    BY DEF TypeOK
  <2>3. ~Replaced(s.app, s.version, 0)
    BY <2>1 DEF Replaced, Withdrawn, After
  <2>4. QED BY <2>2, <2>3 DEF ReachInv
<1>4. QED BY <1>1, <1>2, <1>3, PTL DEF Spec

=============================================================================
