------------------------------ MODULE AdvertRelay ------------------------------
(***************************************************************************)
(* How the applications of one bus become visible on the other.  The near  *)
(* connector watches its bus while the far connector is online: a name     *)
(* that is found, or announced, is introspected asynchronously before its  *)
(* advertisement is sent; a name that is lost, or whose owner goes, is     *)
(* reported at once.  The far connector keeps a stand-in for each.         *)
(* The daemon of the near bus, the applications and the XMPP server, with  *)
(* its presence messages, are external.                                    *)
(***************************************************************************)
EXTENDS Naturals, Sequences, SequencesExt, FiniteSets

CONSTANTS
    Apps,          \* applications of the near bus, each with one well-known name
    MaxVersion,    \* bound: how often an application starts or stops
    MaxOutages,    \* bound: how often the far connector goes down
    AnnouncedBy,   \* the name an announcement is made by: "wkn" or "unique"
    Outlives,      \* TRUE: the walk over an application's objects may outlive it
    Unseen,        \* TRUE: an application's restart may go unseen by the watch
    Hasty          \* TRUE: the far connector may be back before it was missed

ASSUME ConstantsAssumption ==
    /\ IsFiniteSet(Apps)
    /\ MaxVersion \in Nat /\ MaxOutages \in Nat
    /\ AnnouncedBy \in {"wkn", "unique"}
    /\ Outlives \in BOOLEAN /\ Unseen \in BOOLEAN /\ Hasty \in BOOLEAN

VARIABLES
    version,     \* of each application: odd while it runs; its unique name then
    listening,   \* near: there is a watching BusAttachment and AllJoynListener
    due,         \* callbacks the daemon has yet to make to the listener
    uniqueName,  \* near: m_wellKnownNameMap; 0: no entry
    walks,       \* introspections under way
    toFar,       \* messages on their way to the far connector
    presence,    \* the far connector's presence, on its way to the near one
    farUp,       \* the far connector runs
    outages,
    standIns,    \* far: the RemoteBusAttachments
    failed       \* history: the ways of an application that came to nothing since
                 \* it started and the watch began

near == <<listening, due, uniqueName, walks>>
far  == <<farUp, outages, standIns>>
vars == <<version, near, toFar, presence, far, failed>>

(* How an application gets its stand-in.                                   *)
Ways == {"Advertisement", "Announce"}

Versions == 0 .. MaxVersion
Up(a) == version[a] % 2 = 1

(* What the daemon calls back.                                             *)
Found(a)         == [type |-> "Found", app |-> a]
LostName(a)      == [type |-> "Lost", app |-> a]
Announced(a)     == [type |-> "Announced", app |-> a]
Owner(a, v, up)  == [type |-> "Owner", app |-> a, version |-> v, up |-> up]

(* An introspection: first of the root object, then of the tree below it.  *)
Walk(type, a, v) == [type |-> type, app |-> a, version |-> v, at |-> "root"]

Init ==
    /\ version = [a \in Apps |-> 0]
    /\ listening = FALSE /\ due = <<>>
    /\ uniqueName = [a \in Apps |-> 0]
    /\ walks = {}
    /\ toFar = <<>>
    /\ presence = <<"available">>
    /\ farUp = TRUE /\ outages = 0
    /\ standIns = {}
    /\ failed = [a \in Apps |-> {}]

Fails(a, ways) == failed' = [failed EXCEPT ![a] = @ \cup ways]

Send(message) == toFar' = IF farUp THEN Append(toFar, message) ELSE toFar
Callback(type) == due # <<>> /\ Head(due).type = type /\ due' = Tail(due)
App == Head(due).app

-----------------------------------------------------------------------------
(* The applications and the daemon of the near bus.                        *)

Tell(events) == due' = IF listening THEN due \o events ELSE due

(* An application takes its name, and advertises and announces it.         *)
Start(a) ==
    /\ ~Up(a) /\ version[a] < MaxVersion
    /\ listening \/ Unseen \/ uniqueName[a] = 0
    /\ version' = [version EXCEPT ![a] = @ + 1]
    /\ \E events \in {<<Found(a), Announced(a)>>, <<Announced(a), Found(a)>>} :
          Tell(<<Owner(a, version[a] + 1, TRUE)>> \o events)
    /\ failed' = [failed EXCEPT ![a] = {}]
    /\ UNCHANGED <<listening, uniqueName, walks, toFar, presence, far>>

(* It ends, at any point; only a tree walk may be waited for.              *)
Stop(a) ==
    /\ Up(a) /\ version[a] < MaxVersion
    /\ Outlives \/ \A w \in walks : w.app = a => w.at # "tree"
    /\ version' = [version EXCEPT ![a] = @ + 1]
    /\ LET gone == Owner(a, version[a], FALSE) IN
       \E events \in {<<gone, LostName(a)>>, <<LostName(a), gone>>} : Tell(events)
    /\ UNCHANGED <<listening, uniqueName, walks, toFar, presence, far, failed>>

-----------------------------------------------------------------------------
(* Presence of the far connector at the near one (XmppPresenceHandler).    *)

(* Mutant: nobody asks the daemon for the names that are there already.    *)
ReceiveAvailableSilently ==
    /\ presence # <<>> /\ Head(presence) = "available"
    /\ presence' = Tail(presence)
    /\ listening' = TRUE
    /\ UNCHANGED <<version, due, uniqueName, walks, toFar, far, failed>>

(* CreateBusAttachment, FindAdvertisedName and WhoImplements: the daemon   *)
(* reports what runs, not who owns which name.  A repeated presence finds  *)
(* the watching attachment.                                                *)
ReceiveAvailable ==
    /\ presence # <<>> /\ Head(presence) = "available"
    /\ presence' = Tail(presence)
    /\ listening' = TRUE
    /\ IF listening THEN UNCHANGED <<due, failed>>
       ELSE /\ \E order \in SetToSeqs({Found(a) : a \in {b \in Apps : Up(b)}}
                                          \cup {Announced(a) : a \in {b \in Apps : Up(b)}}) :
                  due' = order
            /\ failed' = [a \in Apps |-> {}]
    /\ UNCHANGED <<version, uniqueName, walks, toFar, far>>

(* The watching attachment is deleted; m_wellKnownNameMap is kept.  Unless *)
(* changes may go unseen, those that have happened are called back first.  *)
ReceiveUnavailable ==
    /\ presence # <<>> /\ Head(presence) = "unavailable"
    /\ Unseen \/ \A i \in DOMAIN due : due[i].type # "Owner"
    /\ presence' = Tail(presence)
    /\ listening' = FALSE
    /\ due' = <<>> /\ walks' = {}
    /\ UNCHANGED <<version, uniqueName, toFar, far, failed>>

-----------------------------------------------------------------------------
(* The near connector's AllJoynListener.                                   *)

(* Mutant: an entry of the map is neither erased nor replaced.             *)
NameOwnerChangedOnce ==
    /\ Callback("Owner")
    /\ LET e == Head(due) IN
       /\ uniqueName' = [uniqueName EXCEPT ![e.app] = IF @ = 0 THEN e.version ELSE @]
       /\ IF e.up THEN UNCHANGED toFar
          ELSE Send([type |-> "NameOwnerChanged", app |-> e.app, version |-> e.version])
    /\ UNCHANGED <<version, listening, walks, presence, far, failed>>

(* The message says who the owner was; the far connector heeds it only if  *)
(* there is no new one, so only then is it in the model.                   *)
NameOwnerChanged ==
    /\ Callback("Owner")
    /\ LET e == Head(due) IN
       /\ uniqueName' = [uniqueName EXCEPT ![e.app] = IF e.up THEN e.version ELSE 0]
       /\ IF e.up THEN UNCHANGED toFar
          ELSE Send([type |-> "NameOwnerChanged", app |-> e.app, version |-> e.version])
    /\ UNCHANGED <<version, listening, walks, presence, far, failed>>

(* The introspection goes to whoever owns the name by now.  It is not      *)
(* begun if the bus or the connection is not ready, the session cannot be  *)
(* joined or the call cannot be made; nobody tries again.                  *)
Introspect(type) ==
    /\ \/ walks' = walks \cup {Walk(type, App, version[App])} /\ UNCHANGED failed
       \/ UNCHANGED walks /\ Fails(App, {type})
    /\ UNCHANGED <<version, listening, uniqueName, toFar, presence, far>>

FoundAdvertisedName == Callback("Found") /\ Introspect("Advertisement")

ListenerAnnounced == Callback("Announced") /\ Introspect("Announce")

(* Mutant: the loss of the name of an application that is still being      *)
(* introspected is not reported, as it has not been advertised.            *)
LostAdvertisedNameEarly ==
    /\ Callback("Lost")
    /\ IF \E w \in walks : w.app = App THEN UNCHANGED toFar
       ELSE Send([type |-> "AdvertLost", app |-> App])
    /\ UNCHANGED <<version, listening, uniqueName, walks, presence, far, failed>>

LostAdvertisedName ==
    /\ Callback("Lost")
    /\ Send([type |-> "AdvertLost", app |-> App])
    /\ UNCHANGED <<version, listening, uniqueName, walks, presence, far, failed>>

(* Mutant: an introspection that failed is asked for again, of nobody.     *)
IntrospectCallbackRetries(w) ==
    /\ w.at = "root"
    /\ IF version[w.app] = w.version /\ Up(w.app)
       THEN walks' = (walks \ {w}) \cup {[w EXCEPT !.at = "tree"]}
       ELSE UNCHANGED walks
    /\ UNCHANGED <<version, listening, due, uniqueName, toFar, presence, far, failed>>

(* IntrospectCallback: with an error, and one that runs may answer so too, *)
(* nothing more happens; otherwise the walk over the tree begins.          *)
IntrospectCallback(w) ==
    /\ w.at = "root"
    /\ \/ /\ version[w.app] = w.version /\ Up(w.app)
          /\ walks' = (walks \ {w}) \cup {[w EXCEPT !.at = "tree"]}
          /\ UNCHANGED failed
       \/ /\ walks' = walks \ {w}
          /\ IF version[w.app] = w.version THEN Fails(w.app, {w.type}) ELSE UNCHANGED failed
    /\ UNCHANGED <<version, listening, due, uniqueName, toFar, presence, far>>

(* The unique name, if the listener has seen its owner, else the name.     *)
SendAdvertisement(a) ==
    Send([type |-> "Advertisement", app |-> a, version |-> uniqueName[a]])

SendAnnounce(a) ==
    Send([type |-> "Announce", app |-> a, version |-> uniqueName[a], by |-> AnnouncedBy])

(* The callback of a walk over the tree, which comes whatever became of    *)
(* the application, tells the far connector.                               *)
GetBusObjectsCallback(w) ==
    /\ w.at = "tree" /\ w.type = "Advertisement"
    /\ walks' = walks \ {w}
    /\ SendAdvertisement(w.app)
    /\ UNCHANGED <<version, listening, due, uniqueName, presence, far, failed>>

GetBusObjectsAnnouncementCallback(w) ==
    /\ w.at = "tree" /\ w.type = "Announce"
    /\ walks' = walks \ {w}
    /\ SendAnnounce(w.app)
    /\ UNCHANGED <<version, listening, due, uniqueName, presence, far, failed>>

-----------------------------------------------------------------------------
(* The far connector.  A stand-in is found by the unique name it was made  *)
(* for (or the well-known one, 0) or by the name it has taken.             *)

Available(type) ==
    farUp /\ toFar # <<>> /\ Head(toFar).type = type /\ toFar' = Tail(toFar)

GetRemoteAttachment(m) == {s \in standIns : s.app = m.app /\ s.version = m.version}

GetRemoteAttachmentByAdvertisedName(a) == {s \in standIns : s.app = a /\ s.name = "wkn"}

(* The stand-ins after m asked for one with this name: a new one takes the *)
(* name unless it has another owner, and is given up if it cannot; an old  *)
(* one keeps its name.                                                     *)
WithStandIn(m, name) ==
    IF GetRemoteAttachment(m) # {} THEN standIns
    ELSE IF name = "wkn" /\ GetRemoteAttachmentByAdvertisedName(m.app) # {} THEN standIns
    ELSE standIns \cup {[app |-> m.app, version |-> m.version, name |-> name]}

(* A new stand-in cannot be made, or its name or advertisement is refused: *)
(* it is deleted.                                                          *)
NoStandIn(m) ==
    /\ GetRemoteAttachment(m) = {}
    /\ UNCHANGED standIns
    /\ Fails(m.app, {m.type})

(* The bus refuses to advertise the name a stand-in has already: it is     *)
(* deleted, although it may be the announcement's.                         *)
StandInGivenUp(m) ==
    /\ standIns' = standIns \ GetRemoteAttachment(m)
    /\ Fails(m.app, Ways)

ReceiveAdvertisement ==
    /\ Available("Advertisement")
    /\ LET m == Head(toFar) IN
       \/ standIns' = WithStandIn(m, "wkn") /\ UNCHANGED failed
       \/ NoStandIn(m)
       \/ GetRemoteAttachment(m) # {} /\ StandInGivenUp(m)
    /\ UNCHANGED <<version, near, presence, farUp, outages>>

ReceiveAnnounce ==
    /\ Available("Announce")
    /\ LET m == Head(toFar) IN
       \/ standIns' = WithStandIn(m, m.by) /\ UNCHANGED failed
       \/ NoStandIn(m)
    /\ UNCHANGED <<version, near, presence, farUp, outages>>

ReceiveAdvertisementLost ==
    /\ Available("AdvertLost")
    /\ standIns' = standIns \ GetRemoteAttachmentByAdvertisedName(Head(toFar).app)
    /\ UNCHANGED <<version, near, presence, farUp, outages, failed>>

ReceiveNameOwnerChanged ==
    /\ Available("NameOwnerChanged")
    /\ standIns' = standIns \ GetRemoteAttachment(Head(toFar))
    /\ UNCHANGED <<version, near, presence, farUp, outages, failed>>

(* The far connector goes, with all it kept and was sent; the server tells *)
(* the near one.                                                           *)
FarGoes ==
    /\ farUp /\ outages < MaxOutages
    /\ farUp' = FALSE /\ outages' = outages + 1
    /\ standIns' = {} /\ toFar' = <<>>
    /\ presence' = Append(presence, "unavailable")
    /\ UNCHANGED <<version, near, failed>>

FarReturns ==
    /\ ~farUp
    /\ Hasty \/ presence = <<>>
    /\ farUp' = TRUE
    /\ presence' = Append(presence, "available")
    /\ UNCHANGED <<version, near, toFar, outages, standIns, failed>>

-----------------------------------------------------------------------------
NearXmppThread == ReceiveAvailable \/ ReceiveUnavailable
Listener == NameOwnerChanged \/ FoundAdvertisedName \/ ListenerAnnounced \/ LostAdvertisedName
Answer(w) ==
    IntrospectCallback(w) \/ GetBusObjectsCallback(w) \/ GetBusObjectsAnnouncementCallback(w)
FarXmppThread ==
    \/ ReceiveAdvertisement \/ ReceiveAnnounce
    \/ ReceiveAdvertisementLost \/ ReceiveNameOwnerChanged

Next ==
    \/ \E a \in Apps : Start(a) \/ Stop(a)
    \/ NearXmppThread \/ Listener \/ FarXmppThread
    \/ \E w \in walks : Answer(w)
    \/ FarGoes \/ FarReturns

Spec == Init /\ [][Next]_vars

(* Both XMPP threads and the listener's callbacks run, AllJoyn ends every  *)
(* introspection it has begun, and the far connector comes back.           *)
Fairness ==
    /\ WF_vars(NearXmppThread) /\ WF_vars(Listener) /\ WF_vars(FarXmppThread)
    /\ WF_vars(\E w \in walks : Answer(w)) /\ WF_vars(FarReturns)

FairSpec == Spec /\ Fairness

-----------------------------------------------------------------------------
Event ==
    [type : {"Found", "Lost", "Announced"}, app : Apps]
        \cup [type : {"Owner"}, app : Apps, version : Versions, up : BOOLEAN]
Message ==
    [type : {"Advertisement", "NameOwnerChanged"}, app : Apps, version : Versions]
        \cup [type : {"AdvertLost"}, app : Apps]
        \cup [type : {"Announce"}, app : Apps, version : Versions, by : {"wkn", "unique"}]

(* The values each variable may take.                                      *)
TypeOK ==
    /\ version \in [Apps -> Versions]
    /\ listening \in BOOLEAN
    /\ due \in Seq(Event) /\ (~listening => due = <<>> /\ walks = {})
    /\ uniqueName \in [Apps -> Versions]
    /\ walks \subseteq [type : {"Advertisement", "Announce"}, app : Apps,
                        version : Versions, at : {"root", "tree"}]
    /\ toFar \in Seq(Message)
    /\ presence \in Seq({"available", "unavailable"})
    /\ farUp \in BOOLEAN /\ outages \in 0 .. MaxOutages
    /\ standIns \subseteq [app : Apps, version : Versions, name : {"wkn", "unique"}]
    /\ failed \in [Apps -> SUBSET Ways]

(* Nothing is under way between the two connectors.                        *)
Quiet ==
    /\ listening /\ farUp
    /\ due = <<>> /\ walks = {} /\ toFar = <<>> /\ presence = <<>>

(* Once nothing is under way, an application that runs has a stand-in that *)
(* carries its well-known name, unless both its advertisement and its      *)
(* announcement came to nothing: one that gets through is enough, whatever *)
(* was lost, withdrawn or refused before it, but nothing is tried again,   *)
(* and an advertisement refused by the bus ends both.                      *)
NothingMissing ==
    Quiet => \A a \in Apps :
       Up(a) => failed[a] = Ways \/ GetRemoteAttachmentByAdvertisedName(a) # {}

(* Once nothing is under way, no stand-in is left of an application that   *)
(* has gone.                                                               *)
NothingLeft ==
    Quiet => \A s \in standIns : Up(s.app)

(* Once nothing is under way, what is sent to a stand-in's application, by *)
(* the name kept for it, reaches the one that runs.                        *)
ReachesApp ==
    Quiet => \A s \in standIns : Up(s.app) => s.version \in {0, version[s.app]}

(* Whatever happens on the near bus and however often the far connector    *)
(* goes and comes back, the two sides come to rest.                        *)
Settles == []<>Quiet
=============================================================================
