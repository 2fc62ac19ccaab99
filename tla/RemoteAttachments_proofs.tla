----------------------- MODULE RemoteAttachments_proofs -----------------------
(* Theorems about RemoteAttachments, for any sets of attachments, names    *)
(* and threads.                                                            *)
EXTENDS RemoteAttachments, TLAPS

(* The steps of the main thread, of the callbacks and of relayed calls.    *)
LEMMA StepCases ==
    ASSUME Next
    PROVE  \/ \E r \in RemoteNames, n \in WellKnown :
                 ReceiveAdvertisement(r, n) \/ ReceiveAnnounce(r, n)
           \/ \E n \in Names : ReceiveAdvertisementLost(n)
           \/ \E r \in RemoteNames : ReceiveNameOwnerChanged(r)
           \/ CreateBusAttachment \/ GoOffline
           \/ RequestName \/ WriteName \/ AdvertiseName
           \/ Disconnect \/ Join \/ Remove \/ Delete
           \/ ClearRegistry \/ StopBus \/ JoinBus \/ DeleteBus
           \/ StopOne \/ JoinOne \/ \E k \in Attachments : FreeOne(k)
           \/ \E k \in Attachments : BeginCall(k) \/ SignalReply(k) \/ TimeOut(k)
           \/ \E t \in Threads : \/ LockRegistry(t) \/ OwnsWellKnownName(t) \/ Introspect(t)
                                 \/ \E n \in Names : FoundAdvertisedName(t, n)
  BY DEF Next, Receive, Handle, Callback

(* Only OwnsWellKnownName answers a callback that walks the registry.      *)
LEMMA StepAnswers ==
    ASSUME Next, callback \in [Threads -> [at : {"none", "found", "walking", "introspect"},
                                          name : Names \cup {None}]],
           NEW t \in Threads, callback[t].at = "walking", callback'[t].at # "walking"
    PROVE  OwnsWellKnownName(t)
<1>1. callback' # callback
  OBVIOUS
<1>2. PICK u \in Threads : \/ LockRegistry(u) \/ OwnsWellKnownName(u) \/ Introspect(u)
                          \/ \E n \in Names : FoundAdvertisedName(u, n)
  BY <1>1, StepCases
     DEF ReceiveAdvertisement, ReceiveAnnounce, ReceiveAdvertisementLost,
         ReceiveNameOwnerChanged, CreateBusAttachment, GoOffline, RequestName, WriteName,
         AdvertiseName, Disconnect, Join, Remove, Delete, ClearRegistry, StopBus, JoinBus,
         DeleteBus, StopOne, JoinOne, FreeOne, BeginCall, SignalReply, TimeOut
<1>3. u = t
  <2>1. u # t => callback'[t] = callback[t]
    BY <1>2 DEF LockRegistry, OwnsWellKnownName, Introspect, FoundAdvertisedName
  <2>2. QED BY <2>1
<1>4. QED BY <1>2, <1>3 DEF LockRegistry, Introspect, FoundAdvertisedName, NoCallback

-----------------------------------------------------------------------------
(* The invariant.  Where the main thread is says what it has in hand and   *)
(* how far a deletion has gone.                                            *)

Naming == {"request", "requestOnly", "write", "writeOnly"}
InHand == Naming \cup {"advertise", "disconnect", "join", "remove"}

(* The attachment in hand is registered until Remove and exists until      *)
(* Delete.                                                                 *)
HandIsTrue ==
    /\ main.at \in InHand => main.k \in registry
    /\ main.at \in {"freed", "joinOne"} => main.k \in registry \cap Alive
    /\ main.at = "delete" => main.k \in Alive \ registry
    /\ main.at \in Naming => main.name \in WellKnown /\ wellKnownName[main.k] = None
    /\ main.at = "advertise" => wellKnownName[main.k] # None

Clearing == {"clear", "freed", "joinOne"}

(* What is connected is registered and exists; what is registered is       *)
(* connected, but for what is being deleted; and nobody waits in what has  *)
(* been joined.                                                            *)
DeletionIsTrue ==
    /\ locked <=> main.at \in Clearing
    /\ ~locked => registry \subseteq Alive
    /\ connected \subseteq registry \cap Alive
    /\ \A k \in registry : \/ k \in connected \/ main.at \in Clearing
                           \/ main.at \in {"join", "remove"} /\ k = main.k
    /\ main.at \in {"join", "remove", "joinOne"} => main.k \notin connected
    /\ waiting \subseteq Alive
    /\ main.at \in {"remove", "delete"} => main.k \notin waiting

(* The watching attachment has callbacks only while it exists, each for a  *)
(* name.                                                                   *)
BusIsTrue ==
    /\ bus = "stopped" <=> main.at \in {"joinBus", "deleteBus"}
    /\ bus = "none" \/ main.at = "deleteBus" => \A t \in Threads : callback[t] = NoCallback
    /\ \A t \in Threads : callback[t].at = "walking" \/ callback[t].at = "found"
                             => callback[t].name \in Names

(* What is advertised has a name.                                          *)
AdvertisedIsNamed ==
    \A k \in advertised : wellKnownName[k] # None

RegistryInv ==
    TypeOK /\ HandIsTrue /\ DeletionIsTrue /\ BusIsTrue /\ AdvertisedIsNamed

(* Nothing that exists has been forgotten, if the list's node is intact;   *)
(* and no name is owned but by the attachment that has it or is about to.  *)
LeakInv ==
    /\ NodeIntact =>
          /\ OneStandIn
          /\ Alive \subseteq registry \cup (IF main.at = "delete" THEN {main.k} ELSE {})
    /\ \A n \in Names : owner[n] # None =>
          /\ owner[n] \in connected
          /\ \/ wellKnownName[owner[n]] = n
             \/ main.at \in {"write", "writeOnly"} /\ main.k = owner[n] /\ main.name = n

-----------------------------------------------------------------------------
LEMMA RegistryInvInductive == Spec => []RegistryInv
<1> USE ConstantsAssumption
<1>1. Init => RegistryInv
  <2> SUFFICES ASSUME Init PROVE RegistryInv
    OBVIOUS
  <2>1. TypeOK
    BY DEF Init, TypeOK, Idle, NoCallback, Alive, Places, InHand, Naming, Clearing
  <2>2. HandIsTrue
    BY DEF Init, HandIsTrue, Idle, NoCallback, Alive, Places, InHand, Naming, Clearing
  <2>3. DeletionIsTrue
    BY DEF Init, DeletionIsTrue, Idle, NoCallback, Alive, Places, InHand, Naming, Clearing
  <2>4. BusIsTrue
    BY DEF Init, BusIsTrue, Idle, NoCallback, Alive, Places, InHand, Naming, Clearing
  <2>5. AdvertisedIsNamed
    BY DEF Init, AdvertisedIsNamed, Idle, NoCallback, Alive, Places, InHand, Naming, Clearing
  <2>6. QED BY <2>1, <2>2, <2>3, <2>4, <2>5 DEF RegistryInv
<1>2. RegistryInv /\ [Next]_vars => RegistryInv'
  <2> SUFFICES ASSUME RegistryInv, [Next]_vars PROVE RegistryInv'
    OBVIOUS
  <2> USE DEF RegistryInv, TypeOK, HandIsTrue, DeletionIsTrue, BusIsTrue, AdvertisedIsNamed,
              Idle, NoCallback, Alive, Places, InHand, Naming, Clearing, WellKnown, OwnName
  <2>1. ASSUME NEW r \in RemoteNames, NEW n \in WellKnown, ReceiveAdvertisement(r, n)
        PROVE RegistryInv'
    <3>1. CASE /\ GetsNoAttachment(r)
             /\ UNCHANGED <<locked, owner, advertised, waiting, bus, callback>>
      BY <3>1 DEF GetsNoAttachment
    <3>2. ASSUME NEW k \in Attachments, GetRemoteAttachment(r, k),
                 Name(k, n, "advertise")
          PROVE  RegistryInv'
      <4>1. UNCHANGED <<locked, owner, advertised, waiting, bus, callback>> /\ At("idle") /\ Free
        BY <2>1 DEF ReceiveAdvertisement
      <4>2. CASE k \in registry /\ UNCHANGED <<registry, remoteName, wellKnownName, connected>>
        BY <3>2, <4>1, <4>2 DEF Name, At, Free
      <4>3. CASE /\ k \notin Alive
                 /\ remoteName' = [remoteName EXCEPT ![k] = r]
                 /\ wellKnownName' = [wellKnownName EXCEPT ![k] = None]
                 /\ connected' = connected \cup {k}
                 /\ registry' = registry \cup {k}
        <5>1. TypeOK'
          BY <3>2, <4>1, <4>3 DEF Name, At, Free
        <5>2. HandIsTrue'
          BY <3>2, <4>1, <4>3 DEF Name, At, Free
        <5>3. DeletionIsTrue'
          BY <3>2, <4>1, <4>3 DEF Name, At, Free
        <5>4. BusIsTrue'
          BY <3>2, <4>1, <4>3 DEF Name, At, Free
        <5>5. AdvertisedIsNamed'
          BY <3>2, <4>1, <4>3 DEF Name, At, Free
        <5>6. QED BY <5>1, <5>2, <5>3, <5>4, <5>5
      <4>4. QED BY <3>2, <4>2, <4>3 DEF GetRemoteAttachment
    <3>3. QED BY <2>1, <3>1, <3>2 DEF ReceiveAdvertisement
  <2>2. ASSUME NEW r \in RemoteNames, NEW n \in WellKnown, ReceiveAnnounce(r, n) PROVE RegistryInv'
    <3>1. CASE /\ GetsNoAttachment(r)
             /\ UNCHANGED <<locked, owner, advertised, waiting, bus, callback>>
      BY <3>1 DEF GetsNoAttachment
    <3>2. ASSUME NEW k \in Attachments, GetRemoteAttachment(r, k),
                 IF k \in registry /\ wellKnownName[k] # None THEN UNCHANGED main
                ELSE main' = [at |-> "requestOnly", k |-> k, name |-> n, byRef |-> FALSE]
          PROVE  RegistryInv'
      <4>1. UNCHANGED <<locked, owner, advertised, waiting, bus, callback>> /\ At("idle") /\ Free
        BY <2>2 DEF ReceiveAnnounce
      <4>2. CASE k \in registry /\ UNCHANGED <<registry, remoteName, wellKnownName, connected>>
        <5>1. CASE wellKnownName[k] # None
          BY <3>2, <4>1, <4>2, <5>1 DEF At, Free
        <5>2. CASE wellKnownName[k] = None
          <6>1. main' = [at |-> "requestOnly", k |-> k, name |-> n, byRef |-> FALSE]
            BY <3>2, <4>1, <4>2, <5>2 DEF At
          <6>2. QED BY <6>1, <4>1, <4>2, <5>2 DEF At
        <5>3. QED BY <5>1, <5>2
      <4>3. CASE /\ k \notin Alive
                 /\ remoteName' = [remoteName EXCEPT ![k] = r]
                 /\ wellKnownName' = [wellKnownName EXCEPT ![k] = None]
                 /\ connected' = connected \cup {k}
                 /\ registry' = registry \cup {k}
        <5>1. TypeOK'
          <6>1. main' = [at |-> "requestOnly", k |-> k, name |-> n, byRef |-> FALSE]
            BY <3>2, <4>1, <4>3 DEF At
          <6>2. QED BY <6>1, <4>1, <4>3
        <5>2. HandIsTrue'
          BY <3>2, <4>1, <4>3 DEF At, Free
        <5>3. DeletionIsTrue'
          BY <3>2, <4>1, <4>3 DEF At, Free
        <5>4. BusIsTrue'
          BY <3>2, <4>1, <4>3 DEF At, Free
        <5>5. AdvertisedIsNamed'
          BY <3>2, <4>1, <4>3 DEF At, Free
        <5>6. QED BY <5>1, <5>2, <5>3, <5>4, <5>5
      <4>4. QED BY <3>2, <4>2, <4>3 DEF GetRemoteAttachment
    <3>3. QED BY <2>2, <3>1, <3>2 DEF ReceiveAnnounce
  <2>3. ASSUME NEW n \in Names, ReceiveAdvertisementLost(n) PROVE RegistryInv'
    BY <2>3 DEF ReceiveAdvertisementLost, ToDelete, At
  <2>4. ASSUME NEW r \in RemoteNames, ReceiveNameOwnerChanged(r) PROVE RegistryInv'
    BY <2>4 DEF ReceiveNameOwnerChanged, ToDelete, At
  <2>5. ASSUME CreateBusAttachment PROVE RegistryInv'
    BY <2>5 DEF CreateBusAttachment, At
  <2>6. ASSUME GoOffline PROVE RegistryInv'
    BY <2>6 DEF GoOffline, At, Goto
  <2>7. ASSUME RequestName PROVE RegistryInv'
    BY <2>7 DEF RequestName, At, Goto
  <2>8. ASSUME WriteName PROVE RegistryInv'
    <3>1. TypeOK'
      <4>1. main' \in [at : Places, k : Attachments \cup {None},
                       name : WellKnown \cup {None}, byRef : BOOLEAN]
        <5>1. main' = Idle \/ main' = [main EXCEPT !.at = "advertise"]
          BY <2>8 DEF WriteName, Goto
        <5>2. CASE main' = Idle
          BY <5>2
        <5>3. CASE main' = [main EXCEPT !.at = "advertise"]
          BY <5>3
        <5>4. QED BY <5>1, <5>2, <5>3
      <4>2. wellKnownName' \in [Attachments -> WellKnown \cup {None}]
        BY <2>8 DEF WriteName
      <4>3. QED BY <2>8, <4>1, <4>2 DEF WriteName
    <3>2. HandIsTrue'
      BY <2>8 DEF WriteName, At, Goto
    <3>3. DeletionIsTrue'
      BY <2>8 DEF WriteName, At, Goto
    <3>4. BusIsTrue'
      BY <2>8 DEF WriteName, At, Goto
    <3>5. AdvertisedIsNamed'
      BY <2>8 DEF WriteName, At, Goto
    <3>6. QED BY <3>1, <3>2, <3>3, <3>4, <3>5
  <2>9. ASSUME AdvertiseName PROVE RegistryInv'
    <3>1. TypeOK'
      <4>1. main' \in [at : Places, k : Attachments \cup {None},
                       name : WellKnown \cup {None}, byRef : BOOLEAN]
        <5>1. main' = Idle \/ main' = [main EXCEPT !.at = "disconnect"]
          BY <2>9 DEF AdvertiseName, Goto
        <5>2. CASE main' = Idle
          BY <5>2
        <5>3. CASE main' = [main EXCEPT !.at = "disconnect"]
          BY <5>3
        <5>4. QED BY <5>1, <5>2, <5>3
      <4>2. main.k \in connected
        BY <2>9 DEF AdvertiseName, At
      <4>3. QED BY <2>9, <4>1, <4>2 DEF AdvertiseName
    <3>2. HandIsTrue'
      BY <2>9 DEF AdvertiseName, At, Goto
    <3>3. DeletionIsTrue'
      BY <2>9 DEF AdvertiseName, At, Goto
    <3>4. BusIsTrue'
      BY <2>9 DEF AdvertiseName, At, Goto
    <3>5. AdvertisedIsNamed'
      BY <2>9 DEF AdvertiseName, At, Goto
    <3>6. QED BY <3>1, <3>2, <3>3, <3>4, <3>5
  <2>10. ASSUME Disconnect PROVE RegistryInv'
    BY <2>10 DEF Disconnect, At, Goto, Release
  <2>11. ASSUME Join PROVE RegistryInv'
    BY <2>11 DEF Join, At, Goto
  <2>12. ASSUME Remove PROVE RegistryInv'
    BY <2>12 DEF Remove, At, Goto, Free
  <2>13. ASSUME Delete PROVE RegistryInv'
    BY <2>13 DEF Delete, At
  <2>14. ASSUME ClearRegistry PROVE RegistryInv'
    BY <2>14 DEF ClearRegistry, At, Goto
  <2>15. ASSUME StopBus PROVE RegistryInv'
    <3>1. TypeOK'
      <4>1. CASE bus = "none"
        <5>1. main' = Idle /\ bus' = bus
          BY <4>1, <2>15 DEF StopBus
        <5>2. QED BY <5>1, <2>15 DEF StopBus
      <4>2. CASE bus # "none"
        BY <4>2, <2>15 DEF StopBus, At, Goto
      <4>3. QED BY <4>1, <4>2
    <3>2. HandIsTrue'
      BY <2>15 DEF StopBus, At, Goto, Free
    <3>3. DeletionIsTrue'
      BY <2>15 DEF StopBus, At, Goto, Free
    <3>4. BusIsTrue'
      BY <2>15 DEF StopBus, At, Goto, Free
    <3>5. AdvertisedIsNamed'
      BY <2>15 DEF StopBus, At, Goto, Free
    <3>6. QED BY <3>1, <3>2, <3>3, <3>4, <3>5
  <2>16. ASSUME JoinBus PROVE RegistryInv'
    BY <2>16 DEF JoinBus, At, Goto
  <2>17. ASSUME DeleteBus PROVE RegistryInv'
    BY <2>17 DEF DeleteBus, At, Goto
  <2>18. ASSUME NEW k \in Attachments, FreeOne(k) PROVE RegistryInv'
    BY <2>18 DEF FreeOne, At
  <2>19. ASSUME StopOne PROVE RegistryInv'
    BY <2>19 DEF StopOne, At, Goto, Release
  <2>20. ASSUME JoinOne PROVE RegistryInv'
    BY <2>20 DEF JoinOne, At, Goto
  <2>29. ASSUME NEW k \in Attachments, BeginCall(k) PROVE RegistryInv'
    BY <2>29 DEF BeginCall, Freed
  <2>21. ASSUME NEW k \in Attachments, SignalReply(k) PROVE RegistryInv'
    BY <2>21 DEF SignalReply
  <2>22. ASSUME NEW k \in Attachments, TimeOut(k) PROVE RegistryInv'
    BY <2>22 DEF TimeOut
  <2>23. ASSUME NEW t \in Threads, LockRegistry(t) PROVE RegistryInv'
    BY <2>23 DEF LockRegistry
  <2>24. ASSUME NEW t \in Threads, OwnsWellKnownName(t) PROVE RegistryInv'
    BY <2>24 DEF OwnsWellKnownName
  <2>25. ASSUME NEW t \in Threads, Introspect(t) PROVE RegistryInv'
    BY <2>25 DEF Introspect
  <2>26. ASSUME NEW t \in Threads, NEW n \in Names, FoundAdvertisedName(t, n) PROVE RegistryInv'
    BY <2>26 DEF FoundAdvertisedName
  <2>27. CASE UNCHANGED vars
    BY <2>27 DEF vars
  <2>28. QED
    <3>1. CASE Next
      BY <3>1, StepCases, <2>1, <2>2, <2>3, <2>4, <2>5, <2>6, <2>7, <2>8, <2>9, <2>10,
         <2>11, <2>12, <2>13, <2>14, <2>15, <2>16, <2>17, <2>18, <2>19, <2>20, <2>21, <2>22,
         <2>23, <2>24, <2>25, <2>26, <2>29
    <3>2. QED BY <3>1, <2>27
<1>3. QED BY <1>1, <1>2, PTL DEF Spec

(* What the registry holds is of the kind the code expects of it.          *)
THEOREM TypeCorrect == Spec => []TypeOK
BY RegistryInvInductive, PTL DEF RegistryInv

(* Nothing in the registry is deleted but under the lock: the going        *)
(* offline of the source keeps it until it has cleared the map, and        *)
(* DeleteRemoteAttachment takes out of the map before it deletes.  Nobody  *)
(* is in a call of an attachment that is gone, nor in a callback of the    *)
(* watching one: they are joined, if only by ajn::BusAttachment's own      *)
(* destructor, which is external, after the going offline has freed what   *)
(* the threads are in.  That the freed node of the list keeps its contents *)
(* is not needed.                                                          *)
THEOREM NothingUsedAfterDelete == Spec => []NoUseAfterDelete
<1>1. RegistryInv => NoUseAfterDelete
  BY DEF RegistryInv, DeletionIsTrue, BusIsTrue, NoUseAfterDelete
<1>2. QED BY <1>1, RegistryInvInductive, PTL

-----------------------------------------------------------------------------
(* Nothing leaks, if the pointer that DeleteRemoteAttachment reads back    *)
(* through the reference to the removed list node is still there.          *)
LEMMA LeakInvInductive == Spec => []LeakInv
<1> USE ConstantsAssumption
<1>1. Init => LeakInv
  BY DEF Init, LeakInv, OneStandIn, Alive, Idle
<1>2. RegistryInv /\ LeakInv /\ [Next]_vars => LeakInv'
  <2> SUFFICES ASSUME RegistryInv, LeakInv, [Next]_vars PROVE LeakInv'
    OBVIOUS
  <2> USE DEF RegistryInv, TypeOK, HandIsTrue, DeletionIsTrue, LeakInv, OneStandIn,
              Idle, Alive, InHand, Naming, Clearing, WellKnown
  <2>1. ASSUME NEW r \in RemoteNames, NEW n \in WellKnown, ReceiveAdvertisement(r, n) PROVE LeakInv'
    <3>1. CASE UNCHANGED <<remoteName, wellKnownName, registry, connected, owner>>
      BY <2>1, <3>1 DEF ReceiveAdvertisement, Name, At, Free
    <3>2. ASSUME NEW k \in Attachments, ~Has(r), k \notin Alive,
                 remoteName' = [remoteName EXCEPT ![k] = r],
                 wellKnownName' = [wellKnownName EXCEPT ![k] = None],
                 connected' = connected \cup {k}, registry' = registry \cup {k}
          PROVE  LeakInv'
      <4>1. NodeIntact => OneStandIn'
        BY <2>1, <3>2 DEF ReceiveAdvertisement, Name, Has, At
      <4>2. NodeIntact => (Alive \subseteq registry)'
        BY <2>1, <3>2 DEF ReceiveAdvertisement, Name, At
      <4>3. owner' = owner /\ main.at = "idle"
        BY <2>1 DEF ReceiveAdvertisement, Name, At
      <4>4. QED BY <3>2, <4>1, <4>2, <4>3
    <3>3. QED BY <2>1, <3>1, <3>2
         DEF ReceiveAdvertisement, Name, GetRemoteAttachment, GetsNoAttachment
  <2>2. ASSUME NEW r \in RemoteNames, NEW n \in WellKnown, ReceiveAnnounce(r, n) PROVE LeakInv'
    <3>1. CASE UNCHANGED <<remoteName, wellKnownName, registry, connected, owner>>
      BY <2>2, <3>1 DEF ReceiveAnnounce, At, Free
    <3>2. ASSUME NEW k \in Attachments, ~Has(r), k \notin Alive,
                 remoteName' = [remoteName EXCEPT ![k] = r],
                 wellKnownName' = [wellKnownName EXCEPT ![k] = None],
                 connected' = connected \cup {k}, registry' = registry \cup {k}
          PROVE  LeakInv'
      <4>1. NodeIntact => OneStandIn'
        BY <2>2, <3>2 DEF ReceiveAnnounce, Has, At
      <4>2. NodeIntact => (Alive \subseteq registry)'
        BY <2>2, <3>2 DEF ReceiveAnnounce, At
      <4>3. owner' = owner /\ main.at = "idle"
        BY <2>2 DEF ReceiveAnnounce, At
      <4>4. QED BY <3>2, <4>1, <4>2, <4>3
    <3>3. QED BY <2>2, <3>1, <3>2 DEF ReceiveAnnounce, GetRemoteAttachment, GetsNoAttachment
  <2>3. ASSUME NEW n \in Names, ReceiveAdvertisementLost(n) PROVE LeakInv'
    BY <2>3 DEF ReceiveAdvertisementLost, ToDelete, At
  <2>4. ASSUME NEW r \in RemoteNames, ReceiveNameOwnerChanged(r) PROVE LeakInv'
    BY <2>4 DEF ReceiveNameOwnerChanged, ToDelete, At
  <2>5. ASSUME CreateBusAttachment PROVE LeakInv'
    BY <2>5 DEF CreateBusAttachment, At
  <2>6. ASSUME GoOffline PROVE LeakInv'
    BY <2>6 DEF GoOffline, At, Goto
  <2>7. ASSUME RequestName PROVE LeakInv'
    BY <2>7 DEF RequestName, At, Goto
  <2>8. ASSUME WriteName PROVE LeakInv'
    BY <2>8 DEF WriteName, At, Goto
  <2>9. ASSUME AdvertiseName PROVE LeakInv'
    BY <2>9 DEF AdvertiseName, At, Goto
  <2>10. ASSUME Disconnect PROVE LeakInv'
    BY <2>10 DEF Disconnect, At, Goto, Release
  <2>11. ASSUME Join PROVE LeakInv'
    BY <2>11 DEF Join, At, Goto
  <2>12. ASSUME Remove PROVE LeakInv'
    BY <2>12 DEF Remove, At, Goto
  <2>13. ASSUME Delete PROVE LeakInv'
    BY <2>13 DEF Delete, At
  <2>14. ASSUME ClearRegistry PROVE LeakInv'
    BY <2>14 DEF ClearRegistry, At, Goto
  <2>15. ASSUME StopBus PROVE LeakInv'
    BY <2>15 DEF StopBus, At, Goto
  <2>16. ASSUME JoinBus PROVE LeakInv'
    BY <2>16 DEF JoinBus, At, Goto
  <2>17. ASSUME DeleteBus PROVE LeakInv'
    BY <2>17 DEF DeleteBus, At, Goto
  <2>18. ASSUME NEW k \in Attachments, FreeOne(k) PROVE LeakInv'
    BY <2>18 DEF FreeOne, At
  <2>19. ASSUME StopOne PROVE LeakInv'
    BY <2>19 DEF StopOne, At, Goto, Release
  <2>20. ASSUME JoinOne PROVE LeakInv'
    BY <2>20 DEF JoinOne, At, Goto
  <2>29. ASSUME NEW k \in Attachments, BeginCall(k) PROVE LeakInv'
    BY <2>29 DEF BeginCall, Freed
  <2>21. ASSUME NEW k \in Attachments, SignalReply(k) PROVE LeakInv'
    BY <2>21 DEF SignalReply
  <2>22. ASSUME NEW k \in Attachments, TimeOut(k) PROVE LeakInv'
    BY <2>22 DEF TimeOut
  <2>23. ASSUME NEW t \in Threads, LockRegistry(t) PROVE LeakInv'
    BY <2>23 DEF LockRegistry
  <2>24. ASSUME NEW t \in Threads, OwnsWellKnownName(t) PROVE LeakInv'
    BY <2>24 DEF OwnsWellKnownName
  <2>25. ASSUME NEW t \in Threads, Introspect(t) PROVE LeakInv'
    BY <2>25 DEF Introspect
  <2>26. ASSUME NEW t \in Threads, NEW n \in Names, FoundAdvertisedName(t, n) PROVE LeakInv'
    BY <2>26 DEF FoundAdvertisedName
  <2>27. CASE UNCHANGED vars
    BY <2>27 DEF vars
  <2>28. QED
    <3>1. CASE Next
      BY <3>1, StepCases, <2>1, <2>2, <2>3, <2>4, <2>5, <2>6, <2>7, <2>8, <2>9, <2>10,
         <2>11, <2>12, <2>13, <2>14, <2>15, <2>16, <2>17, <2>18, <2>19, <2>20, <2>21, <2>22,
         <2>23, <2>24, <2>25, <2>26, <2>29
    <3>2. QED BY <3>1, <2>27
<1>3. QED BY <1>1, <1>2, RegistryInvInductive, PTL DEF Spec

(* OwnsWellKnownName, although it reads names the main thread may be       *)
(* writing, never denies one that a stand-in owns and advertises: the one  *)
(* it reads may be torn only before it is advertised.                      *)
THEOREM OwnNamesStayKnown == Spec => OwnNamesAreKnown
<1> DEFINE Known == \A t \in Threads :
              callback[t].at = "walking" /\ callback'[t].at = "introspect" =>
                  owner[callback[t].name] \notin advertised
<1>1. RegistryInv /\ LeakInv /\ [Next]_vars => [Known]_vars
  <2> SUFFICES ASSUME RegistryInv, LeakInv, Next, NEW t \in Threads,
                      callback[t].at = "walking", callback'[t].at = "introspect",
                      owner[callback[t].name] \in advertised
               PROVE  FALSE
    OBVIOUS
  <2> DEFINE n == callback[t].name
             k == owner[n]
  <2>1. OwnsWellKnownName(t)
    BY StepAnswers DEF RegistryInv, TypeOK
  <2>2. n \in Names /\ k \in connected /\ k \in registry /\ k # None
    BY ConstantsAssumption DEF RegistryInv, BusIsTrue, DeletionIsTrue, TypeOK
  <2>3. wellKnownName[k] # None
    BY DEF RegistryInv, AdvertisedIsNamed
  <2>4. ~Writes(k)
    BY <2>3 DEF Writes, RegistryInv, HandIsTrue, Naming
  <2>5. wellKnownName[k] = n
    BY <2>2, <2>4 DEF LeakInv, Writes
  <2>6. callback'[t] = NoCallback
    BY <2>1, <2>2, <2>4, <2>5 DEF OwnsWellKnownName, RegistryInv, TypeOK
  <2>7. QED BY <2>6 DEF NoCallback
<1>2. QED BY <1>1, RegistryInvInductive, LeakInvInductive, PTL DEF Spec, OwnNamesAreKnown

(* One remote application has one stand-in, if that pointer is there.      *)
THEOREM OneStandInEach ==
  ASSUME NodeIntact
  PROVE  Spec => []OneStandIn
<1>1. LeakInv => OneStandIn
  BY DEF LeakInv
<1>2. QED BY <1>1, LeakInvInductive, PTL

(* Between two messages, what exists is registered and owns the names that *)
(* it has.                                                                 *)
THEOREM NothingIsForgotten ==
  ASSUME NodeIntact
  PROVE  Spec => []NothingLeaks
<1>1. RegistryInv /\ LeakInv => NothingLeaks
  BY DEF RegistryInv, DeletionIsTrue, Clearing, LeakInv, NothingLeaks, At
<1>2. QED BY <1>1, RegistryInvInductive, LeakInvInductive, PTL
=============================================================================
