----------------------------- MODULE ConnectorMain -----------------------------
(***************************************************************************)
(* The main loop of the program and the configuration service.  The main   *)
(* thread reads the configuration file, sets up the bus, runs an           *)
(* XMPPConnector until it stops, tears everything down and starts over;    *)
(* without usable parameters, or after a refused login, it waits for the   *)
(* file to change.  A thread of the bus executes the calls of the          *)
(* configuration service, which rewrite the file and ask for the restart.  *)
(* SIGINT is handled on the main thread.  The file is the only thing the   *)
(* two threads share apart from the pointer s_Conn, and nothing locks it.  *)
(* A call may come whenever the service is registered, SIGINT at any time. *)
(***************************************************************************)
EXTENDS Naturals

CONSTANTS
    MaxCalls,         \* bound: calls of the configuration service
    MaxDescriptors    \* inotify descriptors the process may have (128 on Linux)

ASSUME ConstantsAssumption == MaxCalls \in Nat /\ MaxDescriptors \in Nat

Fields == {"UserJID", "AllJoynPasscode", "AppId"}

(* What a field may be: absent, the empty string, or a text; the default   *)
(* passcode and the fields of a working file are texts.                    *)
Values  == Nat
Missing == 0
Empty   == 1
Default == 2
Content == [Fields -> Values]
Factory == [f \in Fields |-> Missing]

VARIABLES
    file,         \* xmppconn.conf; Torn between fopen(.., "wb") and fclose
    fresh,        \* the last value made up, to tell values apart
    pc,           \* where the main thread is
    rewrite,      \* what each thread is about to write, once it has truncated
    user,         \* s_User (s_Password and s_Roster come and go with it)
    s_Conn,       \* the pointer: "null", "live", or "dangling" when deleted
    used,         \* the parameters the XMPPConnector was made with
    stopping,     \* XMPPConnector::Stop has reached the running connector
    resetbus, waitForConfigChange, s_Continue,
    bus,          \* "none", "up" (with service, store and aboutObj), "closing"
    passcode,     \* SrpKeyXListener::m_PassCode
    descriptors,  \* inotify descriptors that are open
    modified,     \* an inotify event is pending
    svc,          \* where the call of the configuration service is
    call,         \* its kind
    held,         \* the copy of s_Conn it has read
    calls,
    met,          \* history: since main last read the file a call has been
                  \* under way while main was not waiting
    direct,       \* history: UpdateConfigurations or ResetConfigurations has
                  \* named the passcode since the bus was set up
    rival,        \* history: main has made up an AppId while it kept the bus
    ended         \* why the process ended

conf     == <<file, fresh, rewrite>>
params   == <<user, used>>
conn     == <<s_Conn, stopping>>
flags    == <<resetbus, waitForConfigChange, s_Continue>>
busVars  == <<bus, passcode, direct, rival>>
watch    == <<descriptors, modified>>
service  == <<svc, call, held, calls>>
vars     == <<conf, pc, params, conn, flags, busVars, watch, service, met, ended>>

(* A truncated file holds no fields.                                       *)
Torn == [f \in {} |-> 0]

Init ==
    /\ file \in {Factory, [f \in Fields |-> Default]}
    /\ fresh = Default
    /\ pc = "read"
    /\ rewrite = [t \in {"main", "svc"} |-> [content |-> Factory, truncated |-> FALSE]]
    /\ user = Missing /\ used = Missing
    /\ s_Conn = "null" /\ stopping = FALSE
    /\ resetbus = TRUE /\ waitForConfigChange = FALSE /\ s_Continue = TRUE
    /\ bus = "none" /\ passcode = Missing /\ direct = FALSE /\ rival = FALSE
    /\ descriptors = 0 /\ modified = FALSE
    /\ svc = "idle" /\ call = "none" /\ held = "null" /\ calls = 0
    /\ met = FALSE /\ ended = "no"

Running == ended = "no"

(* Main waits in Start or in select.                                       *)
Settled == pc \in {"running", "select"}

Main(here) == Running /\ pc = here

(* A round of main begins with its reading of the fields.                  *)
Remember ==
    met' = \/ met /\ (pc = "fields" => pc' = "fields")
           \/ (svc # "idle" \/ svc' # "idle") /\ ~(Settled /\ pc' = pc)

Exit(why) ==
    /\ ended' = why
    /\ UNCHANGED <<conf, params, conn, flags, busVars, watch, service, pc>>

-----------------------------------------------------------------------------
(* ConfigParser.  A set is: read the whole file, truncate it, write it.    *)
(* An empty file has no members, and asking for one ends the program.      *)

IsConfigValid == file # Torn

(* GetField gives the empty string for a field the file does not have.     *)
IsUnset(v) == v \in {Missing, Empty}

FileModified == modified' = (modified \/ pc = "select")

BeginWrite(who, content) ==
    rewrite' = [rewrite EXCEPT ![who] = [content |-> content, truncated |-> FALSE]]

(* fopen(.., "wb")                                                         *)
Truncate(who) ==
    /\ Running
    /\ IF who = "main" THEN pc = "writeAppId"
       ELSE svc \in {"announce", "setPassCode", "copied", "newAppId"}
    /\ ~rewrite[who].truncated
    /\ rewrite' = [rewrite EXCEPT ![who].truncated = TRUE]
    /\ file' = Torn
    /\ FileModified
    /\ UNCHANGED <<params, conn, flags, busVars, service, fresh, pc,
                   descriptors, ended>>

EndWrite(who) ==
    /\ rewrite[who].truncated
    /\ file' = rewrite[who].content
    /\ FileModified
    /\ UNCHANGED rewrite

-----------------------------------------------------------------------------
(* The main loop.                                                          *)

(* getConfigurationFields: a file that is not valid ends the program; ... *)
ReadConfig ==
    /\ Main("read")
    /\ IF ~IsConfigValid THEN Exit("torn")
       ELSE /\ pc' = "fields"
            /\ UNCHANGED <<conf, params, conn, flags, busVars, watch, service, ended>>

(* ... each field is read from the file anew; ...                          *)
GetFields ==
    /\ Main("fields")
    /\ IF ~IsConfigValid THEN Exit("torn")
       ELSE /\ user' = file["UserJID"]
            /\ pc' = IF IsUnset(file["AppId"]) THEN "newAppId" ELSE "setUp"
            /\ rival' = (rival \/ (IsUnset(file["AppId"]) /\ bus = "up"))
            /\ UNCHANGED <<conf, conn, flags, bus, passcode, direct, watch, service,
                           used, ended>>

(* ... a missing AppId is made up and written.                             *)
MakeAppId ==
    /\ Main("newAppId")
    /\ IF ~IsConfigValid THEN Exit("torn")
       ELSE /\ fresh' = fresh + 1
            /\ BeginWrite("main", [file EXCEPT !["AppId"] = fresh + 1])
            /\ pc' = "writeAppId"
            /\ UNCHANGED <<params, conn, flags, busVars, watch, service, file, ended>>

WriteAppId ==
    /\ Main("writeAppId")
    /\ EndWrite("main")
    /\ pc' = "setUp"
    /\ UNCHANGED <<params, conn, flags, busVars, service, fresh, descriptors, ended>>

(* A bus that is still there from the last round is kept.  A new one gets  *)
(* data store, listeners and configuration service; the service's listener *)
(* takes its passcode from the file, or stores the default if the field is *)
(* missing.  Any error ends the program.                                   *)
SetUpBus ==
    /\ Main("setUp")
    /\ \/ /\ ~resetbus
          /\ pc' = "decide"
          /\ UNCHANGED <<busVars, file, ended>>
       \/ /\ resetbus
          /\ bus' = "up"
          /\ passcode' = IF file["AllJoynPasscode"] = Missing THEN Default
                         ELSE file["AllJoynPasscode"]
          /\ file' = [file EXCEPT !["AllJoynPasscode"] = passcode']
          /\ direct' = FALSE
          /\ pc' = "decide"
          /\ UNCHANGED <<rival, ended>>
       \/ /\ resetbus
          /\ ended' = "bus"
          /\ UNCHANGED <<busVars, file, pc>>
    /\ UNCHANGED <<params, conn, flags, watch, service, fresh, rewrite>>

(* Without parameters, or after a failure, the program waits.              *)
Decide ==
    /\ Main("decide")
    /\ resetbus' = FALSE
    /\ waitForConfigChange' = (waitForConfigChange \/ IsUnset(user))
    /\ pc' = IF waitForConfigChange' THEN "watch" ELSE "construct"
    /\ UNCHANGED <<conf, params, conn, busVars, watch, service, s_Continue, ended>>

(* new XMPPConnector, and Init, which may fail: then the bus is kept.      *)
Construct ==
    /\ Main("construct")
    /\ s_Conn' = "live"
    /\ used' = user
    /\ \/ pc' = "start" /\ UNCHANGED waitForConfigChange
       \/ pc' = "delete" /\ waitForConfigChange' = TRUE
    /\ UNCHANGED <<conf, busVars, watch, service, user, resetbus, stopping,
                   s_Continue, ended>>

Start ==
    /\ Main("start")
    /\ pc' = "running"
    /\ UNCHANGED <<conf, params, conn, flags, busVars, watch, service, ended>>

(* Start returns, with an error if the server refused the login.           *)
StartReturns ==
    /\ Main("running")
    /\ waitForConfigChange' \in BOOLEAN
    /\ resetbus' = TRUE
    /\ pc' = "delete"
    /\ UNCHANGED <<conf, params, conn, busVars, watch, service, s_Continue, ended>>

(* delete s_Conn; ...                                                      *)
DeleteConnector ==
    /\ Main("delete")
    /\ s_Conn' = "dangling"
    /\ held' = IF held = "live" THEN "dangling" ELSE held
    /\ stopping' = FALSE
    /\ pc' = "clear"
    /\ UNCHANGED <<conf, params, flags, busVars, watch, svc, call, calls, ended>>

(* Mutant: the pointer is not cleared.                                     *)
ClearPointerNot ==
    /\ Main("clear")
    /\ pc' = "after"
    /\ UNCHANGED <<s_Conn, conf, params, flags, busVars, watch, service, stopping,
                   ended>>

(* ... s_Conn = 0.                                                         *)
ClearPointer ==
    /\ Main("clear")
    /\ s_Conn' = "null"
    /\ pc' = "after"
    /\ UNCHANGED <<conf, params, flags, busVars, watch, service, stopping, ended>>

(* inotify_init and inotify_add_watch.                                     *)
Watch ==
    /\ Main("watch")
    /\ IF descriptors = MaxDescriptors THEN Exit("descriptors")
       ELSE /\ descriptors' = descriptors + 1
            /\ modified' = FALSE
            /\ pc' = "select"
            /\ UNCHANGED <<conf, params, conn, flags, busVars, service, ended>>

(* The file changed: the descriptor is closed, and five seconds are to     *)
(* let the other thread finish its writing.                                *)
SelectModified ==
    /\ Main("select") /\ modified
    /\ descriptors' = descriptors - 1
    /\ modified' = FALSE
    /\ waitForConfigChange' = FALSE
    /\ pc' = "after"
    /\ UNCHANGED <<conf, params, conn, busVars, service, resetbus, s_Continue, ended>>

(* Thirty seconds have passed, or SIGINT interrupts: nothing is closed.    *)
SelectTimesOut ==
    /\ Main("select")
    /\ modified' = FALSE
    /\ waitForConfigChange' = FALSE
    /\ pc' = "after"
    /\ UNCHANGED <<conf, params, conn, busVars, service, resetbus,
                   descriptors, s_Continue, ended>>

(* Mutant: the bus is not torn down before the next is set up.             *)
CleanupSkipped ==
    /\ Main("after")
    /\ pc' = "loop"
    /\ UNCHANGED <<conf, params, conn, flags, watch, service, busVars, ended>>

(* cleanup: aboutObj goes first, then the bus, ...                         *)
Cleanup ==
    /\ Main("after")
    /\ bus' = IF resetbus THEN "closing" ELSE bus
    /\ pc' = IF resetbus THEN "join" ELSE "loop"
    /\ UNCHANGED <<conf, params, conn, flags, watch, service, passcode, direct, rival, ended>>

(* ... whose destructor waits for its threads, then data store, listeners  *)
(* and service.                                                            *)
JoinBus ==
    /\ Main("join") /\ svc = "idle"
    /\ bus' = "none"
    /\ rival' = FALSE
    /\ pc' = "loop"
    /\ UNCHANGED <<conf, params, conn, flags, watch, service, passcode, direct, ended>>

(* Mutant: while (true).                                                   *)
LoopForever ==
    /\ Main("loop")
    /\ pc' = "read"
    /\ UNCHANGED <<conf, params, conn, flags, busVars, watch, service, ended>>

Loop ==
    /\ Main("loop")
    /\ IF s_Continue THEN pc' = "read" /\ UNCHANGED ended
       ELSE ended' = "normally" /\ UNCHANGED pc
    /\ UNCHANGED <<conf, params, conn, flags, busVars, watch, service>>

(* XMPPConnector::Stop ends the Start that runs; before it, it is lost.    *)
StopConnector == stopping' = (stopping \/ pc = "running")

(* SigIntHandler.  A pointer that dangles is used all the same.            *)
SigInt ==
    /\ Running /\ s_Continue
    /\ s_Continue' = FALSE
    /\ IF s_Conn = "null" THEN UNCHANGED stopping ELSE StopConnector
    /\ ended' = IF s_Conn = "dangling" THEN "stale" ELSE ended
    /\ UNCHANGED <<conf, params, busVars, watch, service, pc, s_Conn,
                   resetbus, waitForConfigChange>>

-----------------------------------------------------------------------------
(* The configuration service; its calls come one after another.            *)

Svc(here) == Running /\ svc = here

(* A call arrives.                                                         *)
Call(kind) ==
    /\ Svc("idle") /\ bus = "up" /\ calls < MaxCalls
    /\ calls' = calls + 1
    /\ call' = kind
    /\ svc' = IF kind = "restart" THEN "restart" ELSE "begin"
    /\ UNCHANGED <<conf, params, conn, flags, busVars, watch, pc, held, ended>>

Begins(kind) == Svc("begin") /\ call = kind

(* Asking an empty document for a member ends the program as well.         *)
ExitService ==
    /\ ended' = "torn"
    /\ UNCHANGED <<conf, pc, params, conn, flags, watch, service>>

(* Mutant: the document of the last call is taken for the file's.          *)
BeginSetCached(f, v, next) ==
    IF ~IsConfigValid THEN ExitService
    ELSE /\ BeginWrite("svc", [rewrite["svc"].content EXCEPT ![f] = v])
         /\ fresh' = IF v > fresh THEN v ELSE fresh
         /\ svc' = next
         /\ UNCHANGED <<file, pc, params, conn, flags, watch, call, held, calls, ended>>

(* SetField of the parser, up to the truncation.                           *)
BeginSet(f, v, next) ==
    IF ~IsConfigValid THEN ExitService
    ELSE /\ BeginWrite("svc", [file EXCEPT ![f] = v])
         /\ fresh' = IF v > fresh THEN v ELSE fresh
         /\ svc' = next
         /\ UNCHANGED <<params, conn, flags, watch, file, pc, call, held, calls, ended>>

NoteDirect(f) == direct' = (direct \/ f = "AllJoynPasscode")

(* ConfigDataStore::Update of any field, the passcode and the AppId as     *)
(* well; a value of the wrong type only restarts.                          *)
Update ==
    /\ Begins("update")
    /\ \/ \E f \in Fields : BeginSet(f, fresh + 1, "announce") /\ NoteDirect(f)
       \/ /\ svc' = "restart"
          /\ UNCHANGED <<conf, params, conn, flags, direct, watch, pc, call, held, calls,
                         ended>>
    /\ UNCHANGED <<bus, passcode, rival>>

(* ConfigDataStore::Delete: back to what the factory's file says, which is *)
(* the empty string for what is not there; a field the announced data does *)
(* not have only restarts.                                                 *)
Delete ==
    /\ Begins("delete")
    /\ \/ \E f \in Fields : BeginSet(f, Empty, "announce") /\ NoteDirect(f)
       \/ /\ svc' = "restart"
          /\ UNCHANGED <<conf, params, conn, flags, direct, watch, pc, call, held, calls,
                         ended>>
    /\ UNCHANGED <<bus, passcode, rival>>

(* SetPassphrase.                                                          *)
PersistPassword ==
    /\ Begins("passphrase")
    /\ BeginSet("AllJoynPasscode", fresh + 1, "setPassCode")
    /\ UNCHANGED busVars

(* Mutant: the key listener keeps the passcode it was made with.           *)
SetPassCodeInFile ==
    /\ Svc("setPassCode")
    /\ EndWrite("svc")
    /\ svc' = "idle"
    /\ UNCHANGED <<params, conn, flags, busVars, fresh, pc, descriptors, call,
                   held, calls, ended>>

SetPassCode ==
    /\ Svc("setPassCode")
    /\ EndWrite("svc")
    /\ passcode' = rewrite["svc"].content["AllJoynPasscode"]
    /\ svc' = "idle"
    /\ UNCHANGED <<params, conn, flags, fresh, pc, bus, direct, rival, descriptors,
                   call, held, calls, ended>>

(* Mutant: no restart.                                                     *)
AnnounceUpdateOnly ==
    /\ Svc("announce")
    /\ EndWrite("svc")
    /\ ended' = IF bus = "closing" THEN "stale" ELSE ended
    /\ svc' = "idle"
    /\ UNCHANGED <<params, conn, flags, busVars, fresh, pc, descriptors, call,
                   held, calls>>

(* Write, and Announce by way of aboutObj (a password is not announced);   *)
(* then the restart callback.                                              *)
AnnounceUpdate ==
    /\ Svc("announce")
    /\ EndWrite("svc")
    /\ ended' \in {ended, IF bus = "closing" THEN "stale" ELSE ended}
    /\ svc' = "restart"
    /\ UNCHANGED <<params, conn, flags, busVars, fresh, pc, descriptors, call,
                   held, calls>>

(* FactoryReset copies the factory's file, ...                             *)
FactoryReset ==
    /\ Begins("reset")
    /\ BeginWrite("svc", Factory)
    /\ svc' = "copied"
    /\ UNCHANGED <<params, conn, flags, busVars, watch, file, fresh, pc, call,
                   held, calls, ended>>

CopyFactory ==
    /\ Svc("copied")
    /\ EndWrite("svc")
    /\ svc' = "initialize"
    /\ UNCHANGED <<params, conn, flags, busVars, fresh, pc, descriptors, call,
                   held, calls, ended>>

(* ... reads it back and gives the application a new identity; a file that *)
(* is not valid is only logged.                                            *)
Initialize ==
    /\ Svc("initialize")
    /\ IF ~IsConfigValid
         THEN svc' = "restart" /\ UNCHANGED <<rewrite, fresh>>
         ELSE /\ BeginWrite("svc", [file EXCEPT !["AppId"] = fresh + 1])
              /\ fresh' = fresh + 1
              /\ svc' = "newAppId"
    /\ UNCHANGED <<params, conn, flags, busVars, watch, file, pc, call, held,
                   calls, ended>>

StoreAppId ==
    /\ Svc("newAppId")
    /\ EndWrite("svc")
    /\ svc' = "restart"
    /\ UNCHANGED <<params, conn, flags, busVars, fresh, pc, descriptors, call,
                   held, calls, ended>>

(* onRestart: reads s_Conn, ...                                            *)
Returned == IF call = "reset" THEN "reset" ELSE "idle"

OnRestart ==
    /\ Svc("restart")
    /\ held' = s_Conn
    /\ svc' = IF s_Conn = "null" THEN Returned ELSE "stop"
    /\ UNCHANGED <<conf, params, conn, flags, busVars, watch, pc, call, calls, ended>>

(* ... and calls Stop.                                                     *)
OnRestartStop ==
    /\ Svc("stop")
    /\ StopConnector
    /\ ended' = IF held = "dangling" THEN "stale" ELSE ended
    /\ held' = "null"
    /\ svc' = Returned
    /\ UNCHANGED <<conf, params, flags, busVars, watch, pc, s_Conn, call, calls>>

(* The listener's FactoryReset announces once more, after the restart it   *)
(* has asked for.                                                          *)
AnnounceReset ==
    /\ Svc("reset")
    /\ ended' = IF bus = "closing" THEN "stale" ELSE ended
    /\ svc' = "idle"
    /\ UNCHANGED <<conf, params, conn, flags, busVars, watch, pc, call, held, calls>>

-----------------------------------------------------------------------------
MainStep ==
    /\ \/ ReadConfig \/ GetFields \/ MakeAppId \/ Truncate("main") \/ WriteAppId
       \/ SetUpBus \/ Decide \/ Construct \/ Start \/ DeleteConnector \/ ClearPointer
       \/ Watch \/ SelectModified \/ SelectTimesOut \/ Cleanup \/ JoinBus \/ Loop
    /\ Remember

Returns == StartReturns /\ Remember

SvcStep ==
    /\ \/ Update \/ Delete \/ PersistPassword \/ SetPassCode \/ AnnounceUpdate
       \/ FactoryReset \/ CopyFactory \/ Initialize \/ StoreAppId \/ Truncate("svc")
       \/ OnRestart \/ OnRestartStop \/ AnnounceReset
    /\ Remember

Kinds == {"update", "delete", "passphrase", "reset", "restart"}

Event == (SigInt \/ \E kind \in Kinds : Call(kind)) /\ Remember

Next == MainStep \/ Returns \/ SvcStep \/ Event

Spec == Init /\ [][Next]_vars

(* Both threads go on; select returns after thirty seconds.  Nothing makes *)
(* Start return, a call come or a user press a key.                        *)
FairSpec == Spec /\ WF_vars(MainStep) /\ WF_vars(SvcStep)

-----------------------------------------------------------------------------
(* The values each variable may take.                                      *)
TypeOK ==
    /\ file \in Content \cup {Torn}
    /\ \A t \in {"main", "svc"} :
          rewrite[t].content \in Content /\ rewrite[t].truncated \in BOOLEAN
    /\ fresh \in Values /\ user \in Values /\ used \in Values /\ passcode \in Values
    /\ pc \in {"read", "fields", "newAppId", "writeAppId", "setUp", "decide", "construct",
               "start", "running", "delete", "clear", "watch", "select", "after",
               "join", "loop"}
    /\ svc \in {"idle", "begin", "announce", "setPassCode", "copied", "initialize",
                "newAppId", "restart", "stop", "reset"}
    /\ call \in Kinds \cup {"none"}
    /\ s_Conn \in {"null", "live", "dangling"} /\ held \in {"null", "live", "dangling"}
    /\ {stopping, resetbus, waitForConfigChange, s_Continue, modified,
        met, direct, rival} \subseteq BOOLEAN
    /\ bus \in {"none", "up", "closing"}
    /\ descriptors \in 0 .. MaxDescriptors /\ calls \in 0 .. MaxCalls
    /\ ended \in {"no", "torn", "bus", "descriptors", "normally", "stale"}

(* A thread that finds the file truncated by the other's write, which ends *)
(* the program (isConfigValid, exit(1)), does so in a round that has kept  *)
(* the bus.  One that sets the bus up anew reads it undisturbed: cleanup   *)
(* has waited for the calls of the old bus.                                *)
FileIsWhole == ended = "torn" => ~resetbus

(* The restart callback calls Stop of a connector that is deleted, or a    *)
(* call announces by an aboutObj that is, only when the call is under way  *)
(* while main goes on, as nothing keeps them apart; and SIGINT only        *)
(* between the deletion and the next statement (onRestart, cleanup).  No   *)
(* later call, of the same round or another, finds a stale pointer.        *)
NoUseAfterDelete == ended = "stale" => met \/ (pc = "clear" /\ ~s_Continue)

(* The connector that runs uses the parameters that are in the file, or is *)
(* being stopped, if no call has been under way between main's reading of  *)
(* the file and Start; whatever came earlier, in other rounds, no update   *)
(* is missed (onRestart's look at s_Conn, the inotify watch).              *)
InEffect ==
    pc = "running" /\ ~stopping /\ svc = "idle" /\ ~met => used = file["UserJID"]

(* The passcode peers are asked for is the one in the file, unless a       *)
(* factory reset has just removed it from there; or an update or reset of  *)
(* the field has gone past SetPassphrase, which alone tells the key        *)
(* listener; or main's writing of an AppId has met a call's.               *)
PasscodeKept ==
    Running /\ svc = "idle" /\ bus = "up" /\ file # Torn /\ ~direct /\ ~rival =>
        file["AllJoynPasscode"] \in {Missing, passcode}

(* The rewriting of the file by both threads implements a store that sets  *)
(* one field at a time: a write is the setting, the truncation before it   *)
(* does not count (rewrite holds what the file will be).  No write undoes  *)
(* another, unless main makes up an AppId while it keeps the bus, whose    *)
(* calls write too.                                                        *)
Settings == IF file # Torn THEN file
            ELSE rewrite[IF pc = "writeAppId" THEN "main" ELSE "svc"].content

Store == INSTANCE ConfigStore WITH settings <- Settings
StoreSpec == Store!Init /\ [][rival \/ Store!Next]_Settings

(* SIGINT ends the program once main is past Start: the round is finished  *)
(* and none follows.  (On the way to Start it is lost, as Stop finds no    *)
(* connection to end; when Start returns is TransportLifecycle's matter.)  *)
PastStart == pc \in {"delete", "clear", "watch", "select", "after", "join", "loop"}

SigIntEnds == ~s_Continue /\ PastStart ~> ended # "no"
=============================================================================
