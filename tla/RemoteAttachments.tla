--------------------------- MODULE RemoteAttachments ---------------------------
(***************************************************************************)
(* The registry of one connector: the RemoteBusAttachments that stand for  *)
(* the applications of the remote source, and the BusAttachment and        *)
(* AllJoynListener through which the connector watches its own bus for     *)
(* that source.  Only the main thread changes the registry, inside the     *)
(* handlers of XMPP messages and presence.  Callback threads of the        *)
(* watching attachment read it under m_remoteAttachmentsMutex to tell the  *)
(* connector's own names from those of local applications; threads of a    *)
(* stand-in wait in relayed calls.  The roster holds one entry, so there   *)
(* is one source.                                                          *)
(***************************************************************************)
EXTENDS Naturals, FiniteSets

CONSTANTS
    Attachments,   \* stand-ins that can exist at a time
    RemoteNames,   \* unique names of remote applications
    Names,         \* well-known names
    Threads,       \* callback threads of the watching attachment
    NodeIntact,    \* TRUE: a freed list node keeps its contents until it is read
    None

(* RequestWellKnownName takes an attachment's own unique name, which nobody *)
(* contends for, when the application advertises its unique name.          *)
OwnName == "unique"
WellKnown == Names \cup {OwnName}

ASSUME ConstantsAssumption ==
    /\ IsFiniteSet(Attachments) /\ IsFiniteSet(RemoteNames)
    /\ IsFiniteSet(Names) /\ IsFiniteSet(Threads)
    /\ NodeIntact \in BOOLEAN
    /\ OwnName \notin Names
    /\ None \notin Attachments \cup RemoteNames \cup WellKnown

VARIABLES
    main,            \* the main thread: where it is, and with which attachment
    locked,          \* the main thread holds m_remoteAttachmentsMutex across steps
    registry,        \* m_remoteAttachments of the source
    remoteName,      \* m_remoteName of each attachment; None: not constructed
    wellKnownName,   \* m_wellKnownName; None: empty
    connected,       \* attachments connected to the daemon
    owner,           \* the daemon: which attachment owns each name
    advertised,      \* attachments whose name the daemon advertises
    waiting,         \* attachments with a thread in a relayed call
    bus,             \* the watching attachment in m_buses, with its listener
    callback         \* each thread of the watching attachment

vars == <<main, locked, registry, remoteName, wellKnownName, connected, owner,
          advertised, waiting, bus, callback>>

Alive == {k \in Attachments : remoteName[k] # None}

(* The attachment whose objects and listener have been freed, while its    *)
(* base class still has to be stopped and joined.                          *)
Freed(k) == main.at \in {"freed", "joinOne"} /\ main.k = k

Idle == [at |-> "idle", k |-> None, name |-> None, byRef |-> FALSE]
NoCallback == [at |-> "none", name |-> None]

Init ==
    /\ main = Idle
    /\ locked = FALSE
    /\ registry = {}
    /\ remoteName = [k \in Attachments |-> None]
    /\ wellKnownName = [k \in Attachments |-> None]
    /\ connected = {} /\ advertised = {} /\ waiting = {}
    /\ owner = [n \in Names |-> None]
    /\ bus = "none"
    /\ callback = [t \in Threads |-> NoCallback]

(* The mutex is free: neither the main thread nor a callback holds it.     *)
Free == ~locked /\ \A t \in Threads : callback[t].at # "walking"

Release(k) == [n \in Names |-> IF owner[n] = k THEN None ELSE owner[n]]

At(place) == main.at = place
Goto(place) == main' = [main EXCEPT !.at = place]

-----------------------------------------------------------------------------
(* Messages from the source.                                               *)

Has(r) == \E k \in registry : remoteName[k] = r

(* GetRemoteAttachment gets k: the stand-in of the remote application, or, *)
(* if there is none, one that is made.                                     *)
GetRemoteAttachment(r, k) ==
    \/ /\ k \in registry /\ remoteName[k] = r
       /\ UNCHANGED <<registry, remoteName, wellKnownName, connected>>
    \/ /\ ~Has(r) /\ k \notin Alive
       /\ remoteName' = [remoteName EXCEPT ![k] = r]
       /\ wellKnownName' = [wellKnownName EXCEPT ![k] = None]
       /\ connected' = connected \cup {k}
       /\ registry' = registry \cup {k}

(* It gets none: objects that cannot be registered, a failing Start or     *)
(* Connect.                                                                *)
GetsNoAttachment(r) ==
    ~Has(r) /\ UNCHANGED <<main, registry, remoteName, wellKnownName, connected>>

(* Which step follows for the attachment k that a message asks to be named *)
(* n: only an attachment without a name requests one.                      *)
Name(k, n, then) ==
    main' = [at |-> IF k \in registry /\ wellKnownName[k] # None THEN then ELSE "request",
             k |-> k, name |-> n, byRef |-> FALSE]

ReceiveAdvertisement(r, n) ==
    /\ At("idle") /\ Free
    /\ \/ \E k \in Attachments : GetRemoteAttachment(r, k) /\ Name(k, n, "advertise")
       \/ GetsNoAttachment(r)
    /\ UNCHANGED <<locked, owner, advertised, waiting, bus, callback>>

(* An announcement names the attachment but does not advertise the name;   *)
(* RelayAnnouncement touches the attachment's About object only.           *)
ReceiveAnnounce(r, n) ==
    /\ At("idle") /\ Free
    /\ \/ \E k \in Attachments :
             /\ GetRemoteAttachment(r, k)
             /\ IF k \in registry /\ wellKnownName[k] # None THEN UNCHANGED main
                ELSE main' = [at |-> "requestOnly", k |-> k, name |-> n, byRef |-> FALSE]
       \/ GetsNoAttachment(r)
    /\ UNCHANGED <<locked, owner, advertised, waiting, bus, callback>>

(* RequestName, without queueing and without replacing another owner.      *)
RequestName ==
    /\ main.at \in {"request", "requestOnly"}
    /\ IF main.name = OwnName \/ owner[main.name] = None
       THEN /\ owner' = [n \in Names |-> IF n = main.name THEN main.k ELSE owner[n]]
            /\ Goto(IF At("request") THEN "write" ELSE "writeOnly")
       ELSE UNCHANGED owner /\ Goto("disconnect")
    /\ UNCHANGED <<locked, registry, remoteName, wellKnownName, connected, advertised,
                   waiting, bus, callback>>

(* m_wellKnownName is assigned without the mutex.                          *)
WriteName ==
    /\ main.at \in {"write", "writeOnly"}
    /\ wellKnownName' = [wellKnownName EXCEPT ![main.k] = main.name]
    /\ IF At("write") THEN Goto("advertise") ELSE main' = Idle
    /\ UNCHANGED <<locked, registry, remoteName, connected, owner, advertised, waiting,
                   bus, callback>>

(* AdvertiseName of the name the attachment has, whichever was asked for.  *)
AdvertiseName ==
    /\ At("advertise")
    /\ \/ advertised' = advertised \cup {main.k} /\ main' = Idle
       \/ main.k \notin advertised /\ UNCHANGED advertised /\ Goto("disconnect")
    /\ UNCHANGED <<locked, registry, remoteName, wellKnownName, connected, owner, waiting,
                   bus, callback>>

ToDelete(k, byRef) == main' = [at |-> "disconnect", k |-> k, name |-> None, byRef |-> byRef]

ReceiveAdvertisementLost(n) ==
    /\ At("idle") /\ Free
    /\ \E k \in registry : wellKnownName[k] = n /\ ToDelete(k, FALSE)
    /\ UNCHANGED <<locked, registry, remoteName, wellKnownName, connected, owner,
                   advertised, waiting, bus, callback>>

(* The walk takes no lock, and hands DeleteRemoteAttachment a reference to *)
(* the list's own element.                                                 *)
ReceiveNameOwnerChanged(r) ==
    /\ At("idle")
    /\ \E k \in registry : remoteName[k] = r /\ ToDelete(k, TRUE)
    /\ UNCHANGED <<locked, registry, remoteName, wellKnownName, connected, owner,
                   advertised, waiting, bus, callback>>

-----------------------------------------------------------------------------
(* DeleteRemoteAttachment.                                                 *)

(* Mutant: the attachment is left running until it is deleted.             *)
DisconnectNot ==
    /\ At("disconnect")
    /\ Goto("join")
    /\ UNCHANGED <<locked, registry, remoteName, wellKnownName, connected, owner,
                   advertised, waiting, bus, callback>>

(* Disconnect and Stop: the daemon drops the attachment's names, and no    *)
(* call begins on it any more.                                             *)
Disconnect ==
    /\ At("disconnect")
    /\ connected' = connected \ {main.k}
    /\ advertised' = advertised \ {main.k}
    /\ owner' = Release(main.k)
    /\ Goto("join")
    /\ UNCHANGED <<locked, registry, remoteName, wellKnownName, waiting, bus, callback>>

(* Join: threads inside the attachment are waited for.                     *)
Join ==
    /\ At("join")
    /\ main.k \notin waiting
    /\ Goto("remove")
    /\ UNCHANGED <<locked, registry, remoteName, wellKnownName, connected, owner,
                   advertised, waiting, bus, callback>>

Remove ==
    /\ At("remove") /\ Free
    /\ registry' = registry \ {main.k}
    /\ Goto("delete")
    /\ UNCHANGED <<locked, remoteName, wellKnownName, connected, owner, advertised,
                   waiting, bus, callback>>

(* Mutant: what is deleted through the reference is never the attachment.  *)
DeleteReused ==
    /\ At("delete")
    /\ IF main.byRef THEN UNCHANGED remoteName
       ELSE remoteName' = [remoteName EXCEPT ![main.k] = None]
    /\ main' = Idle
    /\ UNCHANGED <<locked, registry, wellKnownName, connected, owner, advertised,
                   waiting, bus, callback>>

(* The pointer is read back through the reference.  If that is to the      *)
(* removed node, something else than the attachment may be deleted.        *)
Delete ==
    /\ At("delete")
    /\ \/ remoteName' = [remoteName EXCEPT ![main.k] = None]
       \/ main.byRef /\ ~NodeIntact /\ UNCHANGED remoteName
    /\ main' = Idle
    /\ UNCHANGED <<locked, registry, wellKnownName, connected, owner, advertised,
                   waiting, bus, callback>>

-----------------------------------------------------------------------------
(* Presence of the source; the destructor of the connector takes the steps *)
(* of its going offline.                                                   *)

(* A repeated presence finds the watching attachment and changes nothing.  *)
CreateBusAttachment ==
    /\ At("idle") /\ Free
    /\ bus = "none"
    /\ bus' = "up"
    /\ UNCHANGED <<main, locked, registry, remoteName, wellKnownName, connected, owner,
                   advertised, waiting, callback>>

GoOffline ==
    /\ At("idle") /\ Free
    /\ registry # {} \/ bus # "none"
    /\ locked' = TRUE
    /\ Goto("clear")
    /\ UNCHANGED <<registry, remoteName, wellKnownName, connected, owner, advertised,
                   waiting, bus, callback>>

(* Under the lock each attachment is deleted, without Disconnect, Stop or  *)
(* Join: its destructor frees objects and listener, whoever is in them; ...*)
FreeOne(k) ==
    /\ At("clear") /\ k \in registry \cap Alive
    /\ main' = [main EXCEPT !.at = "freed", !.k = k]
    /\ UNCHANGED <<locked, registry, remoteName, wellKnownName, connected, owner,
                   advertised, waiting, bus, callback>>

(* ... that of BusAttachment, after it, disconnects, ...                   *)
StopOne ==
    /\ At("freed")
    /\ connected' = connected \ {main.k}
    /\ advertised' = advertised \ {main.k}
    /\ owner' = Release(main.k)
    /\ Goto("joinOne")
    /\ UNCHANGED <<locked, registry, remoteName, wellKnownName, waiting, bus, callback>>

(* ... and waits for the threads.                                          *)
JoinOne ==
    /\ At("joinOne") /\ main.k \notin waiting
    /\ remoteName' = [remoteName EXCEPT ![main.k] = None]
    /\ Goto("clear")
    /\ UNCHANGED <<locked, registry, wellKnownName, connected, owner, advertised,
                   waiting, bus, callback>>

(* Mutant: the map is cleared before its attachments are deleted.          *)
ClearRegistryFirst ==
    /\ At("clear")
    /\ registry' = {}
    /\ locked' = FALSE
    /\ Goto("stopBus")
    /\ UNCHANGED <<remoteName, wellKnownName, connected, owner, advertised, waiting,
                   bus, callback>>

ClearRegistry ==
    /\ At("clear") /\ registry \cap Alive = {}
    /\ registry' = {}
    /\ locked' = FALSE
    /\ Goto("stopBus")
    /\ UNCHANGED <<remoteName, wellKnownName, connected, owner, advertised, waiting,
                   bus, callback>>

(* Mutant: the lock is kept while the callbacks are waited for.            *)
StopBusLocked ==
    /\ At("stopBus") /\ Free
    /\ IF bus = "none" THEN main' = Idle /\ UNCHANGED <<bus, locked>>
       ELSE bus' = "stopped" /\ locked' = TRUE /\ Goto("joinBus")
    /\ UNCHANGED <<registry, remoteName, wellKnownName, connected, owner, advertised,
                   waiting, callback>>

(* DeleteBusAttachment, in three: Stop under the lock; Join without it,    *)
(* since callbacks may be waiting for it; deletion under it again.         *)
StopBus ==
    /\ At("stopBus") /\ Free
    /\ IF bus = "none" THEN main' = Idle /\ UNCHANGED bus
       ELSE bus' = "stopped" /\ Goto("joinBus")
    /\ UNCHANGED <<locked, registry, remoteName, wellKnownName, connected, owner,
                   advertised, waiting, callback>>

(* Mutant: the callbacks are not waited for.                               *)
JoinBusNot ==
    /\ At("joinBus")
    /\ Goto("deleteBus")
    /\ UNCHANGED <<locked, registry, remoteName, wellKnownName, connected, owner,
                   advertised, waiting, bus, callback>>

JoinBus ==
    /\ At("joinBus")
    /\ \A t \in Threads : callback[t] = NoCallback
    /\ Goto("deleteBus")
    /\ UNCHANGED <<locked, registry, remoteName, wellKnownName, connected, owner,
                   advertised, waiting, bus, callback>>

DeleteBus ==
    /\ At("deleteBus") /\ Free
    /\ bus' = "none"
    /\ main' = Idle
    /\ UNCHANGED <<locked, registry, remoteName, wellKnownName, connected, owner,
                   advertised, waiting, callback>>

-----------------------------------------------------------------------------
(* Callback threads of the watching attachment.                            *)

(* The daemon reports a name, a stand-in's or a local application's, to    *)
(* FoundAdvertisedName or Announced.                                       *)
FoundAdvertisedName(t, n) ==
    /\ bus = "up" /\ callback[t] = NoCallback
    /\ callback' = [callback EXCEPT ![t] = [at |-> "found", name |-> n]]
    /\ UNCHANGED <<main, locked, registry, remoteName, wellKnownName, connected, owner,
                   advertised, waiting, bus>>

(* OwnsWellKnownName takes the lock, ...                                   *)
LockRegistry(t) ==
    /\ callback[t].at = "found" /\ Free
    /\ callback' = [callback EXCEPT ![t].at = "walking"]
    /\ UNCHANGED <<main, locked, registry, remoteName, wellKnownName, connected, owner,
                   advertised, waiting, bus>>

Writes(k) == main.at \in {"write", "writeOnly"} /\ main.k = k

(* ... compares the name with those of the stand-ins, where one that the   *)
(* main thread is writing may seem equal or not, and gives the lock up.    *)
OwnsWellKnownName(t) ==
    /\ callback[t].at = "walking"
    /\ LET matches(k) == wellKnownName[k] = callback[t].name
       IN \E own \in BOOLEAN :
             /\ own => \E k \in registry : matches(k) \/ Writes(k)
             /\ ~own => \A k \in registry : ~matches(k) \/ Writes(k)
             /\ callback' = [callback EXCEPT ![t] =
                                IF own THEN NoCallback ELSE [@ EXCEPT !.at = "introspect"]]
    /\ UNCHANGED <<main, locked, registry, remoteName, wellKnownName, connected, owner,
                   advertised, waiting, bus>>

(* The rest of the callback joins a session and starts an introspection.   *)
Introspect(t) ==
    /\ callback[t].at = "introspect"
    /\ callback' = [callback EXCEPT ![t] = NoCallback]
    /\ UNCHANGED <<main, locked, registry, remoteName, wellKnownName, connected, owner,
                   advertised, waiting, bus>>

(* Threads of a stand-in: a relayed call waits for a reply, which only the *)
(* main thread delivers, and for ten seconds at most.                      *)
BeginCall(k) ==
    /\ k \in connected \ waiting /\ ~Freed(k)
    /\ waiting' = waiting \cup {k}
    /\ UNCHANGED <<main, locked, registry, remoteName, wellKnownName, connected, owner,
                   advertised, bus, callback>>

SignalReply(k) ==
    /\ At("idle") /\ Free
    /\ k \in waiting \cap registry
    /\ waiting' = waiting \ {k}
    /\ UNCHANGED <<main, locked, registry, remoteName, wellKnownName, connected, owner,
                   advertised, bus, callback>>

TimeOut(k) ==
    /\ k \in waiting
    /\ waiting' = waiting \ {k}
    /\ UNCHANGED <<main, locked, registry, remoteName, wellKnownName, connected, owner,
                   advertised, bus, callback>>

-----------------------------------------------------------------------------
Receive ==
    \/ \E r \in RemoteNames, n \in WellKnown :
          ReceiveAdvertisement(r, n) \/ ReceiveAnnounce(r, n)
    \/ \E n \in Names : ReceiveAdvertisementLost(n)
    \/ \E r \in RemoteNames : ReceiveNameOwnerChanged(r)
    \/ \E k \in Attachments : SignalReply(k)
    \/ CreateBusAttachment \/ GoOffline

(* The steps of a handler once it has begun.                               *)
Handle ==
    \/ RequestName \/ WriteName \/ AdvertiseName
    \/ Disconnect \/ Join \/ Remove \/ Delete
    \/ \E k \in Attachments : FreeOne(k)
    \/ StopOne \/ JoinOne
    \/ ClearRegistry \/ StopBus \/ JoinBus \/ DeleteBus

Callback(t) == LockRegistry(t) \/ OwnsWellKnownName(t) \/ Introspect(t)

Next ==
    \/ Receive \/ Handle
    \/ \E t \in Threads : Callback(t) \/ \E n \in Names : FoundAdvertisedName(t, n)
    \/ \E k \in Attachments : BeginCall(k) \/ TimeOut(k)

Spec == Init /\ [][Next]_vars

(* The main thread and the callbacks run; a mutex that is free again and   *)
(* again is taken; a wait for a reply ends, unless what it waits on has    *)
(* been freed.                                                             *)
Fairness ==
    /\ SF_vars(Handle)
    /\ \A t \in Threads : SF_vars(Callback(t))
    /\ \A k \in Attachments : WF_vars(~Freed(k) /\ TimeOut(k))

FairSpec == Spec /\ Fairness

-----------------------------------------------------------------------------
Places == {"idle", "request", "requestOnly", "write", "writeOnly", "advertise",
           "disconnect", "join", "remove", "delete", "clear", "freed", "joinOne",
           "stopBus", "joinBus", "deleteBus"}

(* The values each variable may take.                                      *)
TypeOK ==
    /\ main \in [at : Places, k : Attachments \cup {None},
                 name : WellKnown \cup {None}, byRef : BOOLEAN]
    /\ locked \in BOOLEAN
    /\ registry \subseteq Attachments
    /\ remoteName \in [Attachments -> RemoteNames \cup {None}]
    /\ wellKnownName \in [Attachments -> WellKnown \cup {None}]
    /\ connected \subseteq Attachments /\ advertised \subseteq connected
    /\ owner \in [Names -> Attachments \cup {None}]
    /\ waiting \subseteq Attachments
    /\ bus \in {"none", "up", "stopped"}
    /\ callback \in [Threads -> [at : {"none", "found", "walking", "introspect"},
                                 name : Names \cup {None}]]

(* One remote application has one stand-in, however its advertisements,    *)
(* announcements and ends follow each other; GetRemoteAttachment takes the *)
(* first that matches.                                                     *)
OneStandIn ==
    \A k, l \in Alive : remoteName[k] = remoteName[l] => k = l

(* The registry holds living attachments, whatever is being read there by  *)
(* a callback: nothing in it is deleted, except under the lock.  Nobody is *)
(* in a relayed call of an attachment that DeleteRemoteAttachment deletes, *)
(* or in a callback of the watching one.  (When the source goes offline    *)
(* the objects of a stand-in are freed with threads inside; only the base  *)
(* class waits for them.)                                                  *)
NoUseAfterDelete ==
    /\ ~locked => registry \subseteq Alive
    /\ waiting \subseteq Alive
    /\ bus = "none" => \A t \in Threads : callback[t] = NoCallback

(* No attachment is forgotten: between two messages those that exist, and  *)
(* the names they own on the bus, are those of the registry.               *)
NothingLeaks ==
    At("idle") => /\ Alive = registry
                  /\ \A n \in Names : owner[n] # None =>
                        owner[n] \in registry /\ wellKnownName[owner[n]] = n

(* OwnsWellKnownName never says no to a name that one of the connector's   *)
(* stand-ins has on the bus and advertises at that moment, whatever the    *)
(* main thread writes meanwhile: what it brought here is not sent back to  *)
(* where it came from.                                                     *)
OwnNamesAreKnown ==
    [][\A t \in Threads :
         callback[t].at = "walking" /\ callback'[t].at = "introspect" =>
             owner[callback[t].name] \notin advertised]_vars

(* Each handler of the main thread ends: deleting an attachment waits for  *)
(* its callbacks, none of which waits for the main thread for ever; unless *)
(* the wait is for a thread inside objects that the going offline of the   *)
(* source has freed.                                                       *)
HandlersReturn == ~At("idle") ~> At("idle") \/ \E k \in waiting : Freed(k)
=============================================================================
