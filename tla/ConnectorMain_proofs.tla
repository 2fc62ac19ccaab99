-------------------------- MODULE ConnectorMain_proofs --------------------------
(* Theorems about ConnectorMain, for any number of calls and descriptors,  *)
(* whenever the calls and SIGINT come.                                     *)
EXTENDS ConnectorMain, TLAPS

Threads == {"main", "svc"}

FileTypes ==
    /\ file \in Content \cup {Torn}
    /\ rewrite \in [Threads -> [content : Content, truncated : BOOLEAN]]
    /\ fresh \in Nat /\ user \in Values /\ used \in Values /\ passcode \in Values

PlaceTypes ==
    /\ pc \in {"read", "fields", "newAppId", "writeAppId", "setUp", "decide", "construct",
               "start", "running", "delete", "clear", "watch", "select", "after",
               "join", "loop"}
    /\ svc \in {"idle", "begin", "announce", "setPassCode", "copied", "initialize",
                "newAppId", "restart", "stop", "reset"}
    /\ call \in Kinds \cup {"none"}
    /\ s_Conn \in {"null", "live", "dangling"} /\ held \in {"null", "live", "dangling"}
    /\ bus \in {"none", "up", "closing"}
    /\ descriptors \in 0 .. MaxDescriptors /\ calls \in 0 .. MaxCalls
    /\ pc = "select" => descriptors # 0
    /\ ended \in {"no", "torn", "bus", "descriptors", "normally", "stale"}

FlagTypes ==
    /\ stopping \in BOOLEAN /\ resetbus \in BOOLEAN /\ waitForConfigChange \in BOOLEAN
    /\ s_Continue \in BOOLEAN /\ modified \in BOOLEAN
    /\ met \in BOOLEAN /\ direct \in BOOLEAN /\ rival \in BOOLEAN

(* What main owns is there where it is used, and a call has its bus.       *)
PlaceInv ==
    /\ bus = "none" => svc = "idle"
    /\ bus = "none" <=> resetbus
                       /\ pc \in {"read", "fields", "newAppId", "writeAppId", "setUp", "loop"}
    /\ bus = "closing" <=> pc = "join"
    /\ pc = "join" => resetbus
    /\ s_Conn = "dangling" => pc = "clear"
    /\ pc \in {"start", "running", "delete"} => s_Conn = "live"
    /\ svc # "stop" => held = "null"

Writers == {"announce", "setPassCode", "copied", "newAppId"}

(* The file is truncated only while a thread writes it, and then nobody    *)
(* finds it so who has set up the bus anew: that round has main alone.     *)
WriteInv ==
    /\ file = Torn => \/ svc \in Writers /\ rewrite["svc"].truncated
                      \/ pc = "writeAppId" /\ rewrite["main"].truncated
    /\ ended = "torn" => ~resetbus

(* Unless main writes an AppId while it keeps the bus, there is one writer *)
(* at a time, and it is about to set one field or to put all back.         *)
Sets(who, f) ==
    \A g \in Fields \ {f} : rewrite[who].content[g] = file[g]

RivalInv ==
    ~rival =>
        /\ pc \in {"newAppId", "writeAppId"} => bus = "none"
        /\ svc \in Writers => (file = Torn <=> rewrite["svc"].truncated)
        /\ pc = "writeAppId" => (file = Torn <=> rewrite["main"].truncated)
        /\ file # Torn =>
              /\ svc = "announce" => \E f \in Fields : Sets("svc", f)
              /\ svc = "setPassCode" => Sets("svc", "AllJoynPasscode")
              /\ svc = "newAppId" => Sets("svc", "AppId")
              /\ pc = "writeAppId" => Sets("main", "AppId")
        /\ svc = "copied" => rewrite["svc"].content = Factory

(* The passcode is the file's, as long as there is a bus to ask for it.    *)
PasscodeInv ==
    ~rival /\ ~direct =>
        /\ bus # "none" /\ file # Torn => file["AllJoynPasscode"] \in {Missing, passcode}
        /\ svc \in {"announce", "copied", "newAppId"} =>
              rewrite["svc"].content["AllJoynPasscode"] \in {Missing, passcode}

(* Unless a call is under way while main goes on: what main is about to    *)
(* use is the file's, and when a call has changed what the connector was   *)
(* made with the connector will stop.                                      *)
QuietInv ==
    /\ ended = "stale" => met \/ (pc = "clear" /\ ~s_Continue)
    /\ ~met =>
        /\ svc # "idle" => Settled
        /\ held # "dangling"
        /\ pc \in {"newAppId", "setUp", "decide", "construct", "start"} => user = file["UserJID"]
        /\ pc = "writeAppId" => user = rewrite["main"].content["UserJID"]
        /\ pc = "start" => used = user
        /\ pc = "running" /\ ~stopping /\ svc \in {"idle", "begin"} => used = file["UserJID"]
        /\ pc = "running" /\ ~stopping /\ svc = "setPassCode" =>
              used = rewrite["svc"].content["UserJID"]
        /\ pc = "running" /\ svc = "reset" => stopping

TypeInv == FileTypes /\ PlaceTypes /\ FlagTypes

Inv == TypeInv /\ PlaceInv /\ WriteInv /\ RivalInv /\ PasscodeInv /\ QuietInv

-----------------------------------------------------------------------------
(* The file and what is about to be written.                               *)

LEMMA FileIsContent ==
    /\ Torn \notin Content /\ Factory \in Content
    /\ \A c \in Content : \A f \in Fields : c[f] \in Values
BY DEF Content, Torn, Factory, Fields, Values, Missing

(* Setting a field of a content gives a content (SetField).                *)
LEMMA FieldSet ==
    ASSUME NEW c \in Content, NEW f \in Fields, NEW v \in Values
    PROVE  [c EXCEPT ![f] = v] \in Content
BY DEF Content

(* A write is begun with a content (SetField, factoryReset).               *)
LEMMA WriteBegun ==
    ASSUME rewrite \in [Threads -> [content : Content, truncated : BOOLEAN]],
           NEW who \in Threads, NEW c \in Content, BeginWrite(who, c)
    PROVE  /\ rewrite' \in [Threads -> [content : Content, truncated : BOOLEAN]]
           /\ rewrite'[who].content = c /\ rewrite'[who].truncated = FALSE
           /\ \A other \in Threads \ {who} : rewrite'[other] = rewrite[other]
BY DEF BeginWrite

(* What a call's SetField leaves: the end of the program, or a write.      *)
LEMMA SetBegun ==
    ASSUME FileTypes, NEW f \in Fields, NEW v \in Nat, NEW next, BeginSet(f, v, next)
    PROVE  /\ UNCHANGED <<params, conn, flags, watch, file, pc, call, held, calls>>
           /\ rewrite' \in [Threads -> [content : Content, truncated : BOOLEAN]]
           /\ fresh' \in Nat /\ rewrite'["main"] = rewrite["main"]
           /\ \/ file = Torn /\ ended' = "torn" /\ svc' = svc /\ rewrite' = rewrite
              \/ /\ file \in Content /\ ended' = ended /\ svc' = next
                 /\ rewrite'["svc"].content \in Content
                 /\ \A g \in Fields \ {f} : rewrite'["svc"].content[g] = file[g]
                 /\ rewrite'["svc"].truncated = FALSE
<1>1. CASE file = Torn
  BY <1>1 DEF BeginSet, IsConfigValid, ExitService, service, conf, FileTypes
<1>2. CASE file # Torn
  <2>1. file \in Content /\ v \in Values
    BY <1>2 DEF FileTypes, Values
  <2>2. PICK c \in Content : c = [file EXCEPT ![f] = v]
    BY <2>1, FieldSet
  <2>3. \A g \in Fields \ {f} : c[g] = file[g]
    BY <2>1, <2>2 DEF Content
  <2>4. BeginWrite("svc", c)
    BY <1>2, <2>2 DEF BeginSet, IsConfigValid
  <2>5. /\ rewrite' \in [Threads -> [content : Content, truncated : BOOLEAN]]
        /\ rewrite'["svc"].content = c /\ rewrite'["svc"].truncated = FALSE
        /\ rewrite'["main"] = rewrite["main"]
    BY <2>4, WriteBegun DEF FileTypes, Threads
  <2>6. /\ UNCHANGED <<params, conn, flags, watch, file, pc, call, held, calls, ended>>
        /\ svc' = next /\ fresh' \in Nat
    BY <1>2 DEF BeginSet, IsConfigValid, FileTypes
  <2>7. QED BY <2>1, <2>3, <2>5, <2>6
<1>3. QED BY <1>1, <1>2

(* The end of a write: the file holds what was written.                    *)
LEMMA WriteEnded ==
    ASSUME FileTypes, NEW who \in Threads, EndWrite(who)
    PROVE  /\ file' \in Content /\ file' # Torn /\ file' = rewrite[who].content
           /\ rewrite' = rewrite /\ rewrite[who].truncated
BY FileIsContent DEF FileTypes, EndWrite

(* The truncation before it.                                               *)
LEMMA Truncated ==
    ASSUME FileTypes, NEW who \in Threads, Truncate(who)
    PROVE  /\ file' = Torn
           /\ rewrite' \in [Threads -> [content : Content, truncated : BOOLEAN]]
           /\ \A t \in Threads : rewrite'[t].content = rewrite[t].content
           /\ rewrite'[who].truncated
           /\ \A t \in Threads \ {who} : rewrite'[t] = rewrite[t]
           /\ ~rewrite[who].truncated
           /\ UNCHANGED <<params, conn, flags, busVars, service, fresh, pc, ended>>
BY DEF FileTypes, Truncate

(* The steps by what they do to the file.                                  *)
Reads ==
    \/ ReadConfig \/ Decide \/ Construct \/ Start \/ StartReturns \/ DeleteConnector
    \/ ClearPointer \/ Watch \/ SelectModified \/ SelectTimesOut \/ Cleanup \/ JoinBus \/ Loop
    \/ OnRestart \/ OnRestartStop \/ AnnounceReset \/ SigInt \/ \E kind \in Kinds : Call(kind)

LEMMA StepCases ==
    ASSUME Next
    PROVE  /\ Remember
           /\ \/ Reads \/ GetFields \/ MakeAppId \/ Truncate("main") \/ WriteAppId \/ SetUpBus
              \/ Update \/ Delete \/ PersistPassword \/ SetPassCode \/ AnnounceUpdate
              \/ FactoryReset \/ CopyFactory \/ Initialize \/ StoreAppId \/ Truncate("svc")
BY DEF Next, MainStep, Returns, SvcStep, Event, Reads

LEMMA ReadsOnly ==
    ASSUME Reads
    PROVE  UNCHANGED <<file, rewrite, fresh, user, passcode, direct>>
BY DEF Reads, ReadConfig, Decide, Construct, Start, StartReturns, DeleteConnector,
       ClearPointer, Watch, SelectModified, SelectTimesOut, Cleanup, JoinBus, Loop,
       OnRestart, OnRestartStop, AnnounceReset, SigInt, Call, Exit, conf, params, busVars

(* A call's field is any, its value new or the empty string.               *)
LEMMA UpdateSets ==
    ASSUME FileTypes, Update \/ Delete
    PROVE  \/ /\ svc' = "restart" /\ UNCHANGED <<conf, params, conn, flags, busVars, watch, pc,
                                                 call, held, calls, ended>>
           \/ \E f \in Fields, v \in Nat :
                 BeginSet(f, v, "announce") /\ NoteDirect(f) /\ UNCHANGED <<bus, passcode, rival>>
<1>1. fresh + 1 \in Nat /\ Empty \in Nat
  BY DEF FileTypes, Empty
<1>2. QED BY <1>1, Zenon DEF Update, Delete, busVars

-----------------------------------------------------------------------------
(* The inductive step, one part of the invariant after the other.          *)

LEMMA StepFile ==
    ASSUME FileTypes, FlagTypes, PlaceInv, WriteInv, Next
    PROVE  FileTypes'
<1> USE DEF conf, params, conn, flags, busVars, watch, service
<1>0. fresh \in Nat /\ fresh + 1 \in Nat /\ user \in Values /\ used \in Values /\ passcode \in Values
  BY DEF FileTypes
<1>1. ASSUME Reads PROVE FileTypes'
  <2>1. used' \in Values
    BY <1>0, <1>1
       DEF Reads, ReadConfig, Decide, Construct, Start, StartReturns, DeleteConnector,
           ClearPointer, Watch, SelectModified, SelectTimesOut, Cleanup, JoinBus, Loop,
           OnRestart, OnRestartStop, AnnounceReset, SigInt, Call, Exit
  <2>2. QED BY <1>1, <2>1, ReadsOnly DEF FileTypes
<1>2. ASSUME GetFields PROVE FileTypes'
  <2>1. CASE IsConfigValid
    <3>1. file["UserJID"] \in Values
      BY <2>1, FileIsContent DEF IsConfigValid, FileTypes, Fields
    <3>2. QED BY <1>2, <2>1, <3>1 DEF GetFields, FileTypes
  <2>2. CASE ~IsConfigValid
    BY <1>2, <2>2 DEF GetFields, Exit, FileTypes
  <2>3. QED BY <2>1, <2>2
<1>3. ASSUME MakeAppId PROVE FileTypes'
  <2>1. CASE IsConfigValid
    <3>1. [file EXCEPT !["AppId"] = fresh + 1] \in Content
      BY <1>0, <2>1, FieldSet DEF IsConfigValid, FileTypes, Fields, Values
    <3>2. BeginWrite("main", [file EXCEPT !["AppId"] = fresh + 1])
      BY <1>3, <2>1 DEF MakeAppId
    <3>3. rewrite' \in [Threads -> [content : Content, truncated : BOOLEAN]]
      BY <3>1, <3>2, WriteBegun DEF FileTypes, Threads
    <3>4. QED BY <1>0, <1>3, <2>1, <3>3 DEF MakeAppId, FileTypes
  <2>2. CASE ~IsConfigValid
    BY <1>3, <2>2 DEF MakeAppId, Exit, FileTypes
  <2>3. QED BY <2>1, <2>2
<1>4. ASSUME NEW who \in Threads, Truncate(who) PROVE FileTypes'
  BY <1>4, Truncated DEF FileTypes
<1>5. ASSUME NEW who \in Threads, EndWrite(who),
             UNCHANGED <<fresh, user, used>>, passcode' \in Values
      PROVE  FileTypes'
  BY <1>5, WriteEnded DEF FileTypes
<1>6. ASSUME WriteAppId \/ AnnounceUpdate \/ CopyFactory \/ StoreAppId PROVE FileTypes'
  BY <1>0, <1>5, <1>6 DEF WriteAppId, AnnounceUpdate, CopyFactory, StoreAppId, Threads
<1>7. ASSUME SetPassCode PROVE FileTypes'
  <2>1. rewrite["svc"].content["AllJoynPasscode"] \in Values
    BY FileIsContent DEF FileTypes, Threads, Fields
  <2>2. QED BY <1>5, <1>7, <2>1 DEF SetPassCode, Threads
<1>8. ASSUME SetUpBus PROVE FileTypes'
  <2>1. CASE resetbus /\ ended' = ended
    <3>1. file \in Content
      BY <1>8, <2>1 DEF SetUpBus, Main, FileTypes, PlaceInv, WriteInv, Writers
    <3>2. passcode' \in Values
      BY <1>8, <2>1, <3>1, FileIsContent
         DEF SetUpBus, Main, Running, FileTypes, Fields, Values, Default
    <3>3. file' \in Content
      BY <1>8, <2>1, <3>1, <3>2, FieldSet DEF SetUpBus, Main, Running, Fields
    <3>4. QED BY <1>8, <3>2, <3>3 DEF SetUpBus, FileTypes
  <2>2. CASE ~(resetbus /\ ended' = ended)
    BY <1>8, <2>2 DEF SetUpBus, FileTypes
  <2>3. QED BY <2>1, <2>2
<1>9. ASSUME NEW f \in Fields, NEW v \in Nat, NEW next, BeginSet(f, v, next), passcode' = passcode
      PROVE  FileTypes'
  BY <1>0, <1>9, SetBegun DEF FileTypes
<1>10. ASSUME Update \/ Delete PROVE FileTypes'
  <2>1. CASE \E f \in Fields, v \in Nat :
                BeginSet(f, v, "announce") /\ UNCHANGED <<bus, passcode, rival>>
    BY <1>9, <2>1
  <2>2. QED BY <1>10, <2>1, UpdateSets DEF FileTypes
<1>11. ASSUME PersistPassword PROVE FileTypes'
  BY <1>0, <1>9, <1>11 DEF PersistPassword, Fields
<1>12. ASSUME FactoryReset PROVE FileTypes'
  <2>1. rewrite' \in [Threads -> [content : Content, truncated : BOOLEAN]]
    BY <1>12, FileIsContent, WriteBegun DEF FactoryReset, FileTypes, Threads
  <2>2. QED BY <1>12, <2>1 DEF FactoryReset, FileTypes
<1>13. ASSUME Initialize PROVE FileTypes'
  <2>1. CASE IsConfigValid
    <3>1. [file EXCEPT !["AppId"] = fresh + 1] \in Content
      BY <1>0, <2>1, FieldSet DEF IsConfigValid, FileTypes, Fields, Values
    <3>2. BeginWrite("svc", [file EXCEPT !["AppId"] = fresh + 1])
      BY <1>13, <2>1 DEF Initialize
    <3>3. rewrite' \in [Threads -> [content : Content, truncated : BOOLEAN]]
      BY <3>1, <3>2, WriteBegun DEF FileTypes, Threads
    <3>4. QED BY <1>0, <1>13, <2>1, <3>3 DEF Initialize, FileTypes
  <2>2. CASE ~IsConfigValid
    BY <1>13, <2>2 DEF Initialize, FileTypes
  <2>3. QED BY <2>1, <2>2
<1>14. QED
  BY StepCases, <1>1, <1>2, <1>3, <1>4, <1>6, <1>7, <1>8, <1>10, <1>11, <1>12, <1>13
     DEF Threads

LEMMA StepPlaceTypes ==
    ASSUME FileTypes, PlaceTypes, FlagTypes, Next
    PROVE  PlaceTypes' /\ FlagTypes'
<1> USE ConstantsAssumption DEF conf, params, conn, flags, busVars, watch, service, Exit
<1>1. ASSUME \/ ReadConfig \/ Decide \/ Construct \/ Start \/ StartReturns \/ DeleteConnector
             \/ ClearPointer \/ Watch \/ GetFields \/ MakeAppId
      PROVE  PlaceTypes'
  BY <1>1 DEF PlaceTypes, ReadConfig, Decide, Construct, Start, StartReturns, DeleteConnector,
              ClearPointer, Watch, GetFields, MakeAppId, Main
<1>2. ASSUME \/ SelectModified \/ SelectTimesOut \/ Cleanup \/ JoinBus \/ Loop
             \/ WriteAppId \/ SetUpBus
      PROVE  PlaceTypes'
  BY <1>2 DEF PlaceTypes, SelectModified, SelectTimesOut, Cleanup, JoinBus, Loop,
              WriteAppId, SetUpBus, Main
<1>3. ASSUME \/ OnRestart \/ OnRestartStop \/ AnnounceReset \/ SigInt
             \/ SetPassCode \/ AnnounceUpdate \/ FactoryReset \/ CopyFactory
             \/ Initialize \/ StoreAppId
      PROVE  PlaceTypes'
  BY <1>3 DEF PlaceTypes, OnRestart, OnRestartStop, AnnounceReset, SigInt, SetPassCode,
              AnnounceUpdate, FactoryReset, CopyFactory, Initialize, StoreAppId, Returned
<1>4. ASSUME NEW kind \in Kinds, Call(kind) PROVE PlaceTypes'
  BY <1>4 DEF PlaceTypes, Call
<1>5. ASSUME NEW who \in Threads, Truncate(who) PROVE PlaceTypes'
  BY <1>5 DEF PlaceTypes, Truncate
<1>6. ASSUME NEW f \in Fields, NEW v \in Nat, NEW next \in {"announce", "setPassCode"},
             BeginSet(f, v, next), bus' = bus
      PROVE  PlaceTypes'
  <2>1. /\ UNCHANGED <<params, conn, flags, watch, file, pc, call, held, calls>>
        /\ \/ ended' = "torn" /\ svc' = svc
           \/ ended' = ended /\ svc' = next
    BY ONLY <1>6, SetBegun, FileTypes
  <2>2. UNCHANGED <<pc, call, s_Conn, held, bus, descriptors, calls>>
    BY ONLY <1>6, <2>1 DEF conn, watch
  <2>3. QED BY <1>6, <2>1, <2>2 DEF PlaceTypes
<1>7. ASSUME Update \/ Delete PROVE PlaceTypes'
  <2>1. CASE \E f \in Fields, v \in Nat :
                BeginSet(f, v, "announce") /\ UNCHANGED <<bus, passcode, rival>>
    BY <1>6, <2>1
  <2>2. QED BY <1>7, <2>1, UpdateSets DEF PlaceTypes
<1>8. ASSUME PersistPassword PROVE PlaceTypes'
  <2>1. fresh + 1 \in Nat
    BY DEF FileTypes
  <2>2. QED BY <1>6, <1>8, <2>1 DEF PersistPassword, Fields
<1>9. PlaceTypes'
  BY StepCases, <1>1, <1>2, <1>3, <1>4, <1>5, <1>7, <1>8 DEF Reads, Threads
<1>10. met' \in BOOLEAN
  BY StepCases DEF Remember
<1>11. {stopping', resetbus', waitForConfigChange', s_Continue'} \subseteq BOOLEAN
  <2>1. CASE Reads \/ GetFields \/ MakeAppId
    BY <2>1 DEF Reads, FlagTypes, ReadConfig, Decide, Construct, Start, StartReturns,
                DeleteConnector, ClearPointer, Watch, SelectModified, SelectTimesOut, Cleanup,
                JoinBus, Loop, OnRestart, OnRestartStop, StopConnector, AnnounceReset, SigInt,
                Call, GetFields, MakeAppId
  <2>2. CASE \/ Truncate("main") \/ WriteAppId \/ SetUpBus \/ SetPassCode \/ AnnounceUpdate
             \/ FactoryReset \/ CopyFactory \/ Initialize \/ StoreAppId \/ Truncate("svc")
    BY <2>2 DEF FlagTypes, Truncate, WriteAppId, SetUpBus, SetPassCode, AnnounceUpdate,
                FactoryReset, CopyFactory, Initialize, StoreAppId
  <2>3. CASE Update \/ Delete \/ PersistPassword
    BY <2>3 DEF FlagTypes, Update, Delete, PersistPassword, BeginSet, ExitService
  <2>4. QED BY StepCases, <2>1, <2>2, <2>3
<1>12. {modified', direct', rival'} \subseteq BOOLEAN
  <2>1. CASE Reads \/ GetFields \/ MakeAppId
    BY <2>1 DEF Reads, FlagTypes, ReadConfig, Decide, Construct, Start, StartReturns,
                DeleteConnector, ClearPointer, Watch, SelectModified, SelectTimesOut, Cleanup,
                JoinBus, Loop, OnRestart, OnRestartStop, StopConnector, AnnounceReset, SigInt,
                Call, GetFields, MakeAppId
  <2>2. CASE \/ Truncate("main") \/ WriteAppId \/ SetUpBus \/ SetPassCode \/ AnnounceUpdate
             \/ FactoryReset \/ CopyFactory \/ Initialize \/ StoreAppId \/ Truncate("svc")
    BY <2>2 DEF FlagTypes, Truncate, WriteAppId, SetUpBus, SetPassCode, AnnounceUpdate,
                FactoryReset, CopyFactory, Initialize, StoreAppId, EndWrite, FileModified
  <2>3. CASE Update \/ Delete \/ PersistPassword
    BY <2>3 DEF FlagTypes, Update, Delete, PersistPassword, BeginSet, ExitService, NoteDirect
  <2>4. QED BY StepCases, <2>1, <2>2, <2>3
<1>13. FlagTypes'
  BY <1>10, <1>11, <1>12 DEF FlagTypes
<1>14. QED BY <1>9, <1>13

(* Which steps of a call leave where main is, and its bus.                 *)
LEMMA CallSteps ==
    ASSUME FileTypes,
           \/ Update \/ Delete \/ PersistPassword \/ SetPassCode \/ AnnounceUpdate
           \/ FactoryReset \/ CopyFactory \/ Initialize \/ StoreAppId
    PROVE  /\ UNCHANGED <<pc, bus, s_Conn, stopping, resetbus, s_Continue, held, rival,
                          user, used, calls>>
           /\ svc # "idle" /\ Running
           /\ svc' = "idle" => svc = "setPassCode"
           /\ svc' # svc \/ ended' = "torn"
           /\ svc' \in {"begin", "idle", "announce", "setPassCode", "copied", "initialize",
                        "newAppId", "restart"}
           /\ (svc # "stop" /\ svc' # "begin") \/ svc' = svc
<1> USE DEF conf, params, conn, flags, busVars, watch, service, Svc, Begins
<1>1. ASSUME NEW f \in Fields, NEW v \in Nat, NEW next, BeginSet(f, v, next)
      PROVE  /\ UNCHANGED <<pc, s_Conn, stopping, resetbus, s_Continue, held, user, used, calls>>
             /\ (svc' = svc /\ ended' = "torn") \/ svc' = next
  BY <1>1, SetBegun
<1>2. fresh + 1 \in Nat
  BY DEF FileTypes
<1>3. CASE Update \/ Delete
  <2>1. Svc("begin")
    BY <1>3 DEF Update, Delete
  <2>2. CASE \E f \in Fields, v \in Nat :
                BeginSet(f, v, "announce") /\ UNCHANGED <<bus, passcode, rival>>
    BY <1>1, <2>1, <2>2
  <2>3. QED BY <1>3, <2>1, <2>2, UpdateSets
<1>4. CASE PersistPassword
  BY <1>1, <1>2, <1>4 DEF PersistPassword, Fields
<1>5. CASE \/ SetPassCode \/ AnnounceUpdate \/ FactoryReset \/ CopyFactory \/ Initialize
           \/ StoreAppId
  BY <1>5 DEF SetPassCode, AnnounceUpdate, FactoryReset, CopyFactory, Initialize, StoreAppId
<1>6. QED BY <1>3, <1>4, <1>5

LEMMA StepPlace ==
    ASSUME TypeInv, PlaceInv, Next
    PROVE  PlaceInv'
<1> USE DEF conf, params, conn, flags, busVars, watch, service, Exit, Main, Svc, TypeInv,
            PlaceTypes, FlagTypes
<1>1. ASSUME \/ ReadConfig \/ Decide \/ Construct \/ Start \/ StartReturns \/ DeleteConnector
             \/ ClearPointer \/ Watch \/ GetFields \/ MakeAppId
      PROVE  PlaceInv'
  BY <1>1 DEF PlaceInv, ReadConfig, Decide, Construct, Start, StartReturns, DeleteConnector,
              ClearPointer, Watch, GetFields, MakeAppId
<1>2. ASSUME \/ SelectModified \/ SelectTimesOut \/ Cleanup \/ JoinBus \/ Loop
             \/ WriteAppId \/ SetUpBus
      PROVE  PlaceInv'
  BY <1>2 DEF PlaceInv, SelectModified, SelectTimesOut, Cleanup, JoinBus, Loop,
              WriteAppId, SetUpBus
<1>3. ASSUME \/ OnRestart \/ OnRestartStop \/ AnnounceReset \/ SigInt
             \/ \E kind \in Kinds : Call(kind)
      PROVE  PlaceInv'
  BY <1>3 DEF PlaceInv, OnRestart, OnRestartStop, AnnounceReset, SigInt, Call, Returned,
              StopConnector
<1>4. ASSUME NEW who \in Threads, Truncate(who) PROVE PlaceInv'
  BY <1>4 DEF PlaceInv, Truncate
<1>5. ASSUME \/ Update \/ Delete \/ PersistPassword \/ SetPassCode \/ AnnounceUpdate
             \/ FactoryReset \/ CopyFactory \/ Initialize \/ StoreAppId
      PROVE  PlaceInv'
  BY <1>5, CallSteps DEF PlaceInv
<1>6. QED BY StepCases, <1>1, <1>2, <1>3, <1>4, <1>5 DEF Reads, Threads

(* A valid file is read where nobody writes.                               *)
LEMMA StepWrite ==
    ASSUME TypeInv, PlaceInv, WriteInv, Next
    PROVE  WriteInv'
<1> USE DEF conf, params, conn, flags, busVars, watch, service, Exit, Main, Svc, Running
<1> USE DEF TypeInv, PlaceTypes, FlagTypes, PlaceInv, Writers
<1>0. resetbus /\ file = Torn => pc = "writeAppId" \/ svc # "idle"
  BY DEF WriteInv
<1>1. ASSUME Reads PROVE WriteInv'
  <2>1. file' = file /\ rewrite' = rewrite
    BY <1>1, ReadsOnly
  <2>2. CASE \/ ReadConfig \/ Decide \/ Construct \/ Start \/ StartReturns \/ DeleteConnector
             \/ ClearPointer \/ Watch
    BY <2>1, <2>2 DEF WriteInv, ReadConfig, Decide, Construct, Start, StartReturns,
                      DeleteConnector, ClearPointer, Watch, IsConfigValid
  <2>3. CASE SelectModified \/ SelectTimesOut \/ Cleanup \/ JoinBus \/ Loop
    BY <2>1, <2>3 DEF WriteInv, SelectModified, SelectTimesOut, Cleanup, JoinBus, Loop
  <2>4. CASE \/ OnRestart \/ OnRestartStop \/ AnnounceReset \/ SigInt
             \/ \E kind \in Kinds : Call(kind)
    BY <2>1, <2>4 DEF WriteInv, OnRestart, OnRestartStop, AnnounceReset, SigInt, Call
  <2>5. QED BY <1>1, <2>2, <2>3, <2>4 DEF Reads
<1>2. ASSUME GetFields PROVE WriteInv'
  BY <1>2 DEF WriteInv, GetFields, IsConfigValid
<1>3. ASSUME MakeAppId PROVE WriteInv'
  BY <1>3 DEF WriteInv, MakeAppId, IsConfigValid
<1>4. ASSUME Truncate("main") PROVE WriteInv'
  <2>1. rewrite'["main"].truncated
    BY <1>4, Truncated DEF Threads
  <2>2. QED BY <1>4, <2>1 DEF WriteInv, Truncate
<1>5. ASSUME Truncate("svc") PROVE WriteInv'
  <2>1. rewrite'["svc"].truncated
    BY <1>5, Truncated DEF Threads
  <2>2. QED BY <1>5, <2>1 DEF WriteInv, Truncate
<1>6. ASSUME WriteAppId \/ SetPassCode \/ AnnounceUpdate \/ CopyFactory \/ StoreAppId
      PROVE  WriteInv'
  <2>1. file' # Torn
    BY <1>6, WriteEnded
       DEF WriteAppId, SetPassCode, AnnounceUpdate, CopyFactory, StoreAppId, Threads
  <2>2. resetbus' = resetbus /\ (ended' = "torn" => ended = "torn")
    BY <1>6 DEF WriteAppId, SetPassCode, AnnounceUpdate, CopyFactory, StoreAppId
  <2>3. QED BY <2>1, <2>2 DEF WriteInv
<1>7. ASSUME SetUpBus PROVE WriteInv'
  <2>1. file # Torn \/ ~resetbus
    BY <1>7, <1>0 DEF SetUpBus
  <2>2. CASE file' = file
    BY <1>7, <2>1, <2>2 DEF WriteInv, SetUpBus
  <2>3. CASE file' # file
    <3>1. resetbus /\ file # Torn
      BY <1>7, <2>1, <2>3 DEF SetUpBus
    <3>2. TypeInv'
      BY <1>7, StepFile, StepPlaceTypes DEF Next, MainStep, WriteInv
    <3>3. file' # Torn
      <4>1. "AppId" \in DOMAIN file
        BY <3>1 DEF FileTypes, Content, Fields
      <4>2. "AppId" \in DOMAIN file'
        BY <1>7, <2>3, <4>1 DEF SetUpBus
      <4>3. QED BY <4>2 DEF Torn
    <3>4. QED BY <1>7, <3>3 DEF WriteInv, SetUpBus
  <2>4. QED BY <2>2, <2>3
<1>8. ASSUME NEW f \in Fields, NEW v \in Nat, NEW next, BeginSet(f, v, next), svc = "begin"
      PROVE  WriteInv'
  <2>1. CASE file = Torn
    BY <1>8, <2>1, SetBegun DEF WriteInv
  <2>2. CASE file # Torn
    BY <1>8, <2>2, SetBegun DEF WriteInv
  <2>3. QED BY <2>1, <2>2
<1>9. ASSUME Update \/ Delete \/ PersistPassword PROVE WriteInv'
  <2>1. svc = "begin" /\ Running
    BY <1>9 DEF Update, Delete, PersistPassword, Begins
  <2>2. CASE \E f \in Fields, v \in Nat :
                BeginSet(f, v, "announce") /\ UNCHANGED <<bus, passcode, rival>>
    BY <1>8, <2>1, <2>2
  <2>3. CASE PersistPassword
    BY <1>8, <2>1, <2>3 DEF PersistPassword, FileTypes, Fields
  <2>4. CASE svc' = "restart" /\ UNCHANGED <<conf, flags, pc, ended>>
    BY <2>1, <2>4 DEF WriteInv
  <2>5. QED BY <1>9, <2>2, <2>3, <2>4, UpdateSets
<1>10. ASSUME FactoryReset \/ Initialize PROVE WriteInv'
  <2>1. rewrite'["main"] = rewrite["main"]
    BY <1>10 DEF FactoryReset, Initialize, BeginWrite, FileTypes, Threads
  <2>2. QED BY <1>10, <2>1 DEF WriteInv, FactoryReset, Initialize, Begins, IsConfigValid
<1>11. QED
  BY StepCases, <1>1, <1>2, <1>3, <1>4, <1>5, <1>6, <1>7, <1>9, <1>10

(* What main does alone.                                                   *)
LEMMA MainAlone ==
    ASSUME TypeInv, PlaceInv, RivalInv, pc \in {"newAppId", "writeAppId"}, ~rival
    PROVE  svc = "idle" /\ bus = "none"
BY DEF PlaceInv, RivalInv

LEMMA StepRival ==
    ASSUME TypeInv, PlaceInv, WriteInv, RivalInv, Next
    PROVE  RivalInv'
<1> USE DEF conf, params, conn, flags, busVars, watch, service, Exit, Main, Svc, Running,
            TypeInv, PlaceTypes, FlagTypes, PlaceInv, Writers
<1>0. \A t \in Threads : rewrite[t].content \in Content
  BY DEF FileTypes
<1>1. ASSUME Reads PROVE RivalInv'
  <2>1. file' = file /\ rewrite' = rewrite
    BY <1>1, ReadsOnly
  <2>2. CASE \/ ReadConfig \/ Decide \/ Construct \/ Start \/ StartReturns \/ DeleteConnector
             \/ ClearPointer \/ Watch \/ SelectModified \/ SelectTimesOut \/ Cleanup \/ Loop
    <3>1. UNCHANGED <<rival, svc>> /\ (pc' # pc => pc' \notin {"newAppId", "writeAppId"})
      BY <2>2 DEF ReadConfig, Decide, Construct, Start, StartReturns, DeleteConnector,
                  ClearPointer, Watch, SelectModified, SelectTimesOut, Cleanup, Loop
    <3>2. pc \in {"newAppId", "writeAppId"} => pc' = pc /\ bus' = bus
      BY <2>2 DEF ReadConfig, Decide, Construct, Start, StartReturns, DeleteConnector,
                  ClearPointer, Watch, SelectModified, SelectTimesOut, Cleanup, Loop
    <3>3. QED BY <2>1, <3>1, <3>2 DEF RivalInv, Sets
  <2>3. CASE JoinBus
    BY <2>1, <2>3 DEF RivalInv, JoinBus
  <2>4. CASE \/ OnRestart \/ OnRestartStop \/ AnnounceReset \/ SigInt
             \/ \E kind \in Kinds : Call(kind)
    <3>1. UNCHANGED <<rival, pc, bus>> /\ (svc' = svc \/ svc' \notin Writers)
      BY <2>4 DEF OnRestart, OnRestartStop, AnnounceReset, SigInt, Call, Returned
    <3>2. QED BY <2>1, <3>1 DEF RivalInv, Sets
  <2>5. QED BY <1>1, <2>2, <2>3, <2>4 DEF Reads
<1>2. ASSUME GetFields PROVE RivalInv'
  <2>1. CASE IsConfigValid
    <3>1. /\ UNCHANGED <<file, rewrite, svc, bus>> /\ pc' \in {"newAppId", "setUp"}
          /\ (rival' <=> rival \/ (pc' = "newAppId" /\ bus = "up"))
      BY <1>2, <2>1 DEF GetFields, PlaceTypes
    <3>2. bus = "none" \/ bus = "up"
      BY <1>2 DEF GetFields
    <3>3. QED BY <3>1, <3>2 DEF RivalInv, Sets
  <2>2. CASE ~IsConfigValid
    BY <1>2, <2>2 DEF GetFields, RivalInv, Sets
  <2>3. QED BY <2>1, <2>2
<1>3. ASSUME MakeAppId PROVE RivalInv'
  <2>1. CASE IsConfigValid
    <3>1. file \in Content /\ fresh + 1 \in Nat
      BY <2>1 DEF IsConfigValid, FileTypes
    <3>2. /\ rewrite'["main"].content = [file EXCEPT !["AppId"] = fresh + 1]
          /\ rewrite'["main"].truncated = FALSE
      <4>1. BeginWrite("main", [file EXCEPT !["AppId"] = fresh + 1])
        BY <1>3, <2>1 DEF MakeAppId
      <4>2. [file EXCEPT !["AppId"] = fresh + 1] \in Content
        BY <3>1, FieldSet DEF Fields, Values
      <4>3. QED BY <4>1, <4>2, WriteBegun DEF FileTypes, Threads
    <3>3. \A g \in Fields \ {"AppId"} : rewrite'["main"].content[g] = file[g]
      BY <3>1, <3>2 DEF Content
    <3>4. /\ UNCHANGED <<file, svc, bus, rival>> /\ pc' = "writeAppId" /\ pc = "newAppId"
          /\ file # Torn
      BY <1>3, <2>1 DEF MakeAppId, IsConfigValid
    <3>5. ~rival => svc = "idle" /\ bus = "none"
      BY <3>4, MainAlone
    <3>6. QED BY <3>2, <3>3, <3>4, <3>5 DEF RivalInv, Sets
  <2>2. CASE ~IsConfigValid
    BY <1>3, <2>2 DEF MakeAppId, RivalInv, Sets
  <2>3. QED BY <2>1, <2>2
<1>4. ASSUME Truncate("main") PROVE RivalInv'
  <2>1. /\ UNCHANGED <<rival, svc, bus, pc>> /\ pc = "writeAppId" /\ file' = Torn
        /\ rewrite'["main"].truncated
    BY <1>4, Truncated DEF Truncate, Threads
  <2>2. ~rival => svc = "idle" /\ bus = "none"
    BY <2>1, MainAlone
  <2>3. QED BY <2>1, <2>2 DEF RivalInv
<1>5. ASSUME Truncate("svc") PROVE RivalInv'
  <2>1. /\ UNCHANGED <<rival, svc, bus, pc>> /\ svc \in Writers /\ file' = Torn
        /\ rewrite'["svc"].truncated
        /\ rewrite'["svc"].content = rewrite["svc"].content
    BY <1>5, Truncated DEF Truncate, Threads
  <2>2. ~rival => pc # "writeAppId"
    BY <2>1, MainAlone
  <2>3. QED BY <2>1, <2>2 DEF RivalInv
<1>6. ASSUME WriteAppId PROVE RivalInv'
  <2>1. /\ UNCHANGED <<rival, svc, bus>> /\ pc' = "setUp" /\ pc = "writeAppId"
    BY <1>6 DEF WriteAppId
  <2>2. ~rival => svc = "idle" /\ bus = "none"
    BY <2>1, MainAlone
  <2>3. QED BY <2>1, <2>2 DEF RivalInv
<1>7. ASSUME SetPassCode \/ AnnounceUpdate \/ CopyFactory \/ StoreAppId
      PROVE  RivalInv'
  <2>1. /\ UNCHANGED <<rival, bus, pc>> /\ svc \in Writers /\ svc' \notin Writers
    BY <1>7 DEF SetPassCode, AnnounceUpdate, CopyFactory, StoreAppId
  <2>2. ~rival => pc # "writeAppId"
    BY <2>1, MainAlone
  <2>3. QED BY <2>1, <2>2 DEF RivalInv
<1>8. ASSUME SetUpBus PROVE RivalInv'
  <2>1. /\ UNCHANGED <<rival, svc, rewrite>> /\ pc' \in {pc, "decide"} /\ pc = "setUp"
        /\ file' = file \/ svc = "idle"
    BY <1>8 DEF SetUpBus
  <2>2. QED BY <2>1 DEF RivalInv, Sets
<1>9. ASSUME NEW f \in Fields, NEW v \in Nat, NEW next \in {"announce", "setPassCode"},
             BeginSet(f, v, next), next = "setPassCode" => f = "AllJoynPasscode",
             UNCHANGED <<bus, rival>>
      PROVE  RivalInv'
  <2>1. CASE file = Torn
    BY <1>9, <2>1, SetBegun, FileIsContent DEF RivalInv
  <2>2. CASE file # Torn
    <3>1. /\ file' = file /\ pc' = pc /\ svc' = next
          /\ \A g \in Fields \ {f} : rewrite'["svc"].content[g] = file[g]
          /\ rewrite'["svc"].truncated = FALSE /\ rewrite'["main"] = rewrite["main"]
      BY <1>9, <2>2, SetBegun
    <3>2. QED BY <1>9, <2>2, <3>1 DEF RivalInv, Sets
  <2>3. QED BY <2>1, <2>2
<1>10. ASSUME Update \/ Delete \/ PersistPassword PROVE RivalInv'
  <2>1. CASE \E f \in Fields, v \in Nat :
                BeginSet(f, v, "announce") /\ UNCHANGED <<bus, passcode, rival>>
    BY <1>9, <2>1
  <2>2. CASE PersistPassword
    <3>1. fresh + 1 \in Nat
      BY DEF FileTypes
    <3>2. QED BY <1>9, <2>2, <3>1 DEF PersistPassword, Fields
  <2>3. CASE svc' = "restart" /\ UNCHANGED <<conf, busVars, pc>>
    BY <2>3 DEF RivalInv, Sets
  <2>4. QED BY <1>10, <2>1, <2>2, <2>3, UpdateSets
<1>11. ASSUME FactoryReset PROVE RivalInv'
  <2>1. /\ UNCHANGED <<file, rival, bus, pc>> /\ svc = "begin" /\ svc' = "copied"
        /\ rewrite'["svc"].content = Factory /\ rewrite'["svc"].truncated = FALSE
    BY <1>11 DEF FactoryReset, Begins, BeginWrite, FileTypes, Threads
  <2>2. ~rival => pc \notin {"newAppId", "writeAppId"}
    BY <2>1, MainAlone
  <2>3. ~rival => file # Torn
    BY <2>1, <2>2 DEF WriteInv
  <2>4. QED BY <2>1, <2>2, <2>3 DEF RivalInv
<1>12. ASSUME Initialize PROVE RivalInv'
  <2>1. CASE IsConfigValid
    <3>1. file \in Content /\ fresh + 1 \in Nat
      BY <2>1 DEF IsConfigValid, FileTypes
    <3>2. /\ rewrite'["svc"].content = [file EXCEPT !["AppId"] = fresh + 1]
          /\ rewrite'["svc"].truncated = FALSE /\ rewrite'["main"] = rewrite["main"]
      <4>1. BeginWrite("svc", [file EXCEPT !["AppId"] = fresh + 1])
        BY <1>12, <2>1 DEF Initialize
      <4>2. [file EXCEPT !["AppId"] = fresh + 1] \in Content
        BY <3>1, FieldSet DEF Fields, Values
      <4>3. QED BY <4>1, <4>2, WriteBegun DEF FileTypes, Threads
    <3>3. \A g \in Fields \ {"AppId"} : rewrite'["svc"].content[g] = file[g]
      BY <3>1, <3>2 DEF Content
    <3>4. /\ UNCHANGED <<file, bus, rival, pc>> /\ svc' = "newAppId" /\ file # Torn
      BY <1>12, <2>1 DEF Initialize, IsConfigValid
    <3>5. QED BY <3>2, <3>3, <3>4 DEF RivalInv, Sets
  <2>2. CASE ~IsConfigValid
    BY <1>12, <2>2 DEF Initialize, RivalInv, Sets
  <2>3. QED BY <2>1, <2>2
<1>13. QED
  BY StepCases, <1>1, <1>2, <1>3, <1>4, <1>5, <1>6, <1>7, <1>8, <1>10, <1>11, <1>12

LEMMA StepPasscode ==
    ASSUME TypeInv, PlaceInv, WriteInv, RivalInv, PasscodeInv, Next
    PROVE  PasscodeInv'
<1> USE DEF conf, params, conn, flags, busVars, watch, service, Exit, Main, Svc, Running,
            TypeInv, PlaceTypes, FlagTypes, PlaceInv
<1> DEFINE p == "AllJoynPasscode"
<1>0. p \in Fields /\ p # "AppId"
  BY DEF Fields
<1>1. ASSUME Reads \/ GetFields PROVE PasscodeInv'
  <2>1. UNCHANGED <<file, rewrite, passcode, direct>>
    BY <1>1, ReadsOnly DEF GetFields
  <2>2. JoinBus => bus' = "none" /\ svc' = "idle"
    BY DEF JoinBus
  <2>3. ~JoinBus => /\ rival => rival'
                    /\ bus' # "none" => bus # "none"
                    /\ svc' = svc \/ svc' \notin {"announce", "copied", "newAppId"}
    BY <1>1 DEF Reads, ReadConfig, Decide, Construct, Start, StartReturns, DeleteConnector,
                ClearPointer, Watch, SelectModified, SelectTimesOut, Cleanup, Loop,
                OnRestart, OnRestartStop, AnnounceReset, SigInt, Call, Returned, GetFields
  <2>4. QED BY <2>1, <2>2, <2>3 DEF PasscodeInv
<1>2. ASSUME MakeAppId PROVE PasscodeInv'
  <2>1. rewrite'["svc"] = rewrite["svc"]
    BY <1>2 DEF MakeAppId, BeginWrite, FileTypes, Threads
  <2>2. QED BY <1>2, <2>1 DEF PasscodeInv, MakeAppId
<1>3. ASSUME NEW who \in Threads, Truncate(who) PROVE PasscodeInv'
  BY <1>3, Truncated DEF PasscodeInv, Threads
<1>4. ASSUME WriteAppId PROVE PasscodeInv'
  <2>1. /\ UNCHANGED <<busVars, svc>> /\ pc = "writeAppId"
    BY <1>4 DEF WriteAppId
  <2>2. ~rival => svc = "idle" /\ bus = "none"
    BY <2>1, MainAlone
  <2>3. QED BY <2>1, <2>2 DEF PasscodeInv
<1>5. ASSUME AnnounceUpdate \/ CopyFactory \/ StoreAppId PROVE PasscodeInv'
  <2>1. /\ UNCHANGED busVars /\ file' = rewrite["svc"].content /\ rewrite' = rewrite
        /\ svc \in {"announce", "copied", "newAppId"}
        /\ svc' \notin {"announce", "copied", "newAppId"}
    BY <1>5, WriteEnded DEF AnnounceUpdate, CopyFactory, StoreAppId, Threads
  <2>2. QED BY <2>1 DEF PasscodeInv
<1>6. ASSUME SetPassCode PROVE PasscodeInv'
  <2>1. /\ file' = rewrite["svc"].content /\ passcode' = rewrite["svc"].content[p]
        /\ svc' = "idle"
    BY <1>6, WriteEnded DEF SetPassCode, Threads
  <2>2. QED BY <2>1 DEF PasscodeInv
<1>7. ASSUME SetUpBus PROVE PasscodeInv'
  <2>1. CASE resetbus /\ ended' = ended
    <3>1. file \in Content /\ svc' = "idle"
      BY <1>7, <2>1 DEF SetUpBus, FileTypes, WriteInv, Writers
    <3>2. file' = [file EXCEPT ![p] = passcode']
      BY <1>7, <2>1 DEF SetUpBus
    <3>3. file'[p] = passcode'
      BY <1>0, <3>1, <3>2 DEF Content
    <3>4. QED BY <3>1, <3>3 DEF PasscodeInv
  <2>2. CASE ~(resetbus /\ ended' = ended)
    BY <1>7, <2>2 DEF SetUpBus, PasscodeInv
  <2>3. QED BY <2>1, <2>2
<1>8. ASSUME NEW f \in Fields, NEW v \in Nat, BeginSet(f, v, "announce"), NoteDirect(f),
             UNCHANGED <<bus, passcode, rival>>, svc = "begin"
      PROVE  PasscodeInv'
  <2>1. file' = file /\ (direct' <=> direct \/ f = p)
    BY <1>8, SetBegun DEF NoteDirect
  <2>2. CASE file = Torn
    <3>1. svc' = svc
      BY <1>8, <2>2, SetBegun, FileIsContent
    <3>2. QED BY <1>8, <2>1, <2>2, <3>1 DEF PasscodeInv
  <2>3. CASE file # Torn
    <3>1. f # p => rewrite'["svc"].content[p] = file[p]
      BY <1>0, <1>8, <2>3, SetBegun
    <3>2. bus # "none"
      BY <1>8
    <3>3. QED BY <1>8, <2>1, <2>3, <3>1, <3>2 DEF PasscodeInv
  <2>4. QED BY <2>2, <2>3
<1>9. ASSUME Update \/ Delete PROVE PasscodeInv'
  <2>1. svc = "begin"
    BY <1>9 DEF Update, Delete, Begins
  <2>2. CASE svc' = "restart" /\ UNCHANGED <<conf, busVars>>
    BY <2>2 DEF PasscodeInv
  <2>3. QED BY <1>8, <1>9, <2>1, <2>2, UpdateSets
<1>10. ASSUME PersistPassword PROVE PasscodeInv'
  <2>1. /\ fresh + 1 \in Nat /\ BeginSet(p, fresh + 1, "setPassCode") /\ UNCHANGED busVars
        /\ svc = "begin"
    BY <1>10 DEF PersistPassword, Begins, FileTypes
  <2>2. file' = file /\ svc' \in {"begin", "setPassCode"}
    BY <1>0, <2>1, SetBegun
  <2>3. QED BY <2>1, <2>2 DEF PasscodeInv
<1>11. ASSUME FactoryReset PROVE PasscodeInv'
  <2>1. /\ UNCHANGED <<file, busVars>>
        /\ rewrite'["svc"].content = Factory
    BY <1>11 DEF FactoryReset, BeginWrite, FileTypes, Threads
  <2>2. Factory[p] = Missing
    BY <1>0 DEF Factory
  <2>3. QED BY <2>1, <2>2 DEF PasscodeInv
<1>12. ASSUME Initialize PROVE PasscodeInv'
  <2>1. CASE IsConfigValid
    <3>1. file \in Content /\ file # Torn /\ fresh + 1 \in Nat
      BY <2>1 DEF IsConfigValid, FileTypes
    <3>2. rewrite'["svc"].content = [file EXCEPT !["AppId"] = fresh + 1]
      <4>1. BeginWrite("svc", [file EXCEPT !["AppId"] = fresh + 1])
        BY <1>12, <2>1 DEF Initialize
      <4>2. [file EXCEPT !["AppId"] = fresh + 1] \in Content
        BY <3>1, FieldSet DEF Fields, Values
      <4>3. QED BY <4>1, <4>2, WriteBegun DEF FileTypes, Threads
    <3>3. rewrite'["svc"].content[p] = file[p]
      BY <1>0, <3>1, <3>2 DEF Content
    <3>4. UNCHANGED <<file, busVars>> /\ bus # "none"
      BY <1>12 DEF Initialize
    <3>5. QED BY <3>1, <3>3, <3>4 DEF PasscodeInv
  <2>2. CASE ~IsConfigValid
    BY <1>12, <2>2 DEF Initialize, PasscodeInv
  <2>3. QED BY <2>1, <2>2
<1>13. QED
  BY StepCases, <1>1, <1>2, <1>3, <1>4, <1>5, <1>6, <1>7, <1>9, <1>10, <1>11, <1>12
     DEF Threads

(* Main's reading of the file and its Start have no call between them.     *)
LEMMA StepQuiet ==
    ASSUME TypeInv, PlaceInv, WriteInv, RivalInv, QuietInv, Next
    PROVE  QuietInv'
<1> USE DEF conf, params, conn, flags, busVars, watch, service, Exit, Main, Svc, Running,
            TypeInv, PlaceTypes, FlagTypes, PlaceInv
<1> DEFINE u == "UserJID"
<1>0. u \in Fields /\ u # "AppId" /\ u # "AllJoynPasscode"
  BY DEF Fields
<1>1. Remember
  BY StepCases
<1>2. ASSUME ~met'
      PROVE  (svc = "idle" /\ svc' = "idle") \/ (Settled /\ pc' = pc)
  BY <1>1, <1>2 DEF Remember
<1>3. met' \/ ~met \/ (pc = "fields" /\ pc' # "fields")
  BY <1>1 DEF Remember
<1>4. ASSUME ended = "stale" PROVE QuietInv'
  BY <1>4, StepCases, CallSteps
     DEF Reads, ReadConfig, Decide, Construct, Start, StartReturns, DeleteConnector,
         ClearPointer, Watch, SelectModified, SelectTimesOut, Cleanup, JoinBus, Loop,
         OnRestart, OnRestartStop, AnnounceReset, SigInt, Call, GetFields, MakeAppId,
         Truncate, WriteAppId, SetUpBus
<1>5. ASSUME ended # "stale", ended' = "stale"
      PROVE  met' \/ (pc' = "clear" /\ ~s_Continue')
  <2>1. OnRestartStop \/ AnnounceReset \/ AnnounceUpdate \/ SigInt
    <3>1. ASSUME NEW f \in Fields, NEW v \in Nat, NEW next, BeginSet(f, v, next)
          PROVE  FALSE
      BY <1>5, <3>1, SetBegun
    <3>2. ~Update /\ ~Delete /\ ~PersistPassword
      BY <1>5, <3>1, UpdateSets DEF PersistPassword, FileTypes, Fields
    <3>3. QED
      BY <1>5, <3>2, StepCases
         DEF Reads, ReadConfig, Decide, Construct, Start, StartReturns, DeleteConnector,
             ClearPointer, Watch, SelectModified, SelectTimesOut, Cleanup, JoinBus, Loop,
             OnRestart, Call, GetFields, MakeAppId, Truncate, WriteAppId, SetUpBus,
             SetPassCode, FactoryReset, CopyFactory, Initialize, StoreAppId
  <2>2. CASE SigInt
    BY <1>5, <2>2 DEF SigInt
  <2>3. CASE AnnounceReset \/ AnnounceUpdate
    <3>1. pc = "join" /\ svc # "idle"
      BY <1>5, <2>3 DEF AnnounceReset, AnnounceUpdate
    <3>2. QED BY <3>1, <1>2 DEF Settled
  <2>4. CASE OnRestartStop
    <3>1. held = "dangling" /\ pc' = pc
      BY <1>5, <2>4 DEF OnRestartStop
    <3>2. met
      BY <3>1 DEF QuietInv
    <3>3. QED BY <1>3, <3>1, <3>2
  <2>5. QED BY <2>1, <2>2, <2>3, <2>4
<1> SUFFICES ASSUME ended # "stale", ~met'
             PROVE  /\ svc' # "idle" => Settled'
                    /\ held' # "dangling"
                    /\ pc' \in {"newAppId", "setUp", "decide", "construct", "start"}
                          => user' = file'[u]
                    /\ pc' = "writeAppId" => user' = rewrite'["main"].content[u]
                    /\ pc' = "start" => used' = user'
                    /\ pc' = "running" /\ ~stopping' /\ svc' \in {"idle", "begin"}
                          => used' = file'[u]
                    /\ pc' = "running" /\ ~stopping' /\ svc' = "setPassCode" =>
                          used' = rewrite'["svc"].content[u]
                    /\ pc' = "running" /\ svc' = "reset" => stopping'
  BY <1>4, <1>5 DEF QuietInv
<1>6. svc' # "idle" => Settled'
  BY <1>2 DEF Settled
<1>7. CASE svc # "idle" \/ svc' # "idle"
  <2>1. Settled /\ pc' = pc
    BY <1>2, <1>7
  <2>2. ~met /\ held # "dangling"
    BY <1>3, <2>1 DEF Settled, QuietInv
  <2>3. pc \in {"running", "select"} /\ s_Conn # "dangling" /\ (pc = "running" => s_Conn = "live")
    BY <2>1 DEF Settled
  <2>4. held' # "dangling"
    <3>1. held' = held \/ held' = s_Conn \/ held' = "null" \/ DeleteConnector
      BY StepCases, CallSteps
         DEF Reads, ReadConfig, Decide, Construct, Start, StartReturns, ClearPointer, Watch,
             SelectModified, SelectTimesOut, Cleanup, JoinBus, Loop, OnRestart,
             OnRestartStop, AnnounceReset, SigInt, Call, GetFields, MakeAppId, Truncate,
             WriteAppId, SetUpBus
    <3>2. ~DeleteConnector
      BY <2>3 DEF DeleteConnector
    <3>3. QED BY <2>2, <2>3, <3>1, <3>2
  <2>5. CASE pc = "select"
    BY <1>6, <2>1, <2>4, <2>5
  <2>6. CASE pc = "running"
    <3>1. /\ ~stopping /\ svc \in {"idle", "begin"} => used = file[u]
          /\ ~stopping /\ svc = "setPassCode" => used = rewrite["svc"].content[u]
          /\ svc = "reset" => stopping
      BY <2>2, <2>6 DEF QuietInv
    <3> DEFINE Kept == /\ ~stopping' /\ svc' \in {"idle", "begin"} => used' = file'[u]
                       /\ ~stopping' /\ svc' = "setPassCode" => used' = rewrite'["svc"].content[u]
                       /\ svc' = "reset" => stopping'
    <3>2. CASE Reads
      <4>1. file' = file /\ rewrite' = rewrite
        BY <3>2, ReadsOnly
      <4>2. \/ OnRestart \/ OnRestartStop \/ AnnounceReset \/ SigInt
            \/ \E kind \in Kinds : Call(kind)
        BY <2>1, <2>6, <3>2
           DEF Reads, ReadConfig, Decide, Construct, Start, StartReturns, DeleteConnector,
               ClearPointer, Watch, SelectModified, SelectTimesOut, Cleanup, JoinBus, Loop
      <4>3. Kept
        BY <2>3, <2>6, <3>1, <4>1, <4>2
           DEF OnRestart, OnRestartStop, AnnounceReset, SigInt, Call, Returned, StopConnector
      <4>4. QED BY <1>6, <2>1, <2>4, <2>6, <4>3
    <3>3. CASE Truncate("svc")
      <4>1. /\ UNCHANGED <<svc, used, stopping>> /\ svc \notin {"idle", "begin", "reset"}
            /\ rewrite'["svc"].content = rewrite["svc"].content
        BY <3>3, Truncated DEF Truncate, Threads
      <4>2. QED BY <1>6, <2>1, <2>4, <2>6, <3>1, <4>1
    <3>4. CASE SetPassCode
      <4>1. /\ file' = rewrite["svc"].content /\ svc' = "idle" /\ svc = "setPassCode"
            /\ UNCHANGED <<used, stopping>>
        BY <3>4, WriteEnded DEF SetPassCode, Threads
      <4>2. QED BY <1>6, <2>1, <2>4, <2>6, <3>1, <4>1
    <3>5. CASE Update \/ Delete
      <4>1. ASSUME NEW f \in Fields, NEW v \in Nat, BeginSet(f, v, "announce")
            PROVE  /\ UNCHANGED <<used, stopping, file>>
                   /\ svc' = "announce" \/ svc' = svc
        BY <4>1, SetBegun
      <4>2. svc = "begin"
        BY <3>5 DEF Update, Delete, Begins
      <4>3. CASE svc' = "restart"
        BY <1>6, <2>1, <2>4, <2>6, <4>3
      <4>4. QED BY <1>6, <2>1, <2>4, <2>6, <3>1, <3>5, <4>1, <4>2, <4>3, UpdateSets
    <3>6. CASE PersistPassword
      <4>1. BeginSet("AllJoynPasscode", fresh + 1, "setPassCode") /\ fresh + 1 \in Nat
            /\ svc = "begin" /\ "AllJoynPasscode" \in Fields
        BY <3>6 DEF PersistPassword, Begins, FileTypes, Fields
      <4>2. UNCHANGED <<used, stopping, file>>
        BY <4>1, SetBegun
      <4>3. \/ svc' = svc
            \/ svc' = "setPassCode" /\ rewrite'["svc"].content[u] = file[u]
        BY <1>0, <4>1, SetBegun
      <4>4. QED BY <1>6, <2>1, <2>4, <2>6, <3>1, <4>1, <4>2, <4>3
    <3>7. CASE AnnounceUpdate \/ FactoryReset \/ CopyFactory \/ Initialize \/ StoreAppId
      <4>1. svc' \in {"restart", "copied", "initialize", "newAppId"}
        BY <3>7 DEF AnnounceUpdate, FactoryReset, CopyFactory, Initialize, StoreAppId
      <4>2. QED BY <1>6, <2>1, <2>4, <2>6, <4>1
    <3>8. ~(GetFields \/ MakeAppId \/ Truncate("main") \/ WriteAppId \/ SetUpBus)
      BY <2>6 DEF GetFields, MakeAppId, Truncate, WriteAppId, SetUpBus
    <3>9. QED BY StepCases, <3>2, <3>3, <3>4, <3>5, <3>6, <3>7, <3>8
  <2>7. QED BY <2>3, <2>5, <2>6
<1>8. CASE svc = "idle" /\ svc' = "idle"
  <2>1. held = "null" /\ held' # "dangling"
    <3>1. held = "null"
      BY <1>8
    <3>2. held' = held
      BY <1>8, <3>1, StepCases, CallSteps
         DEF Reads, ReadConfig, Decide, Construct, Start, StartReturns, DeleteConnector,
             ClearPointer, Watch, SelectModified, SelectTimesOut, Cleanup, JoinBus, Loop,
             OnRestart, OnRestartStop, AnnounceReset, SigInt, Call, GetFields, MakeAppId,
             Truncate, WriteAppId, SetUpBus
    <3>3. QED BY <3>1, <3>2
  <2>2. ~met \/ (pc = "fields" /\ pc' # "fields")
    BY <1>3
  <2>3. \/ Truncate("main") \/ WriteAppId \/ SetUpBus \/ Reads \/ GetFields \/ MakeAppId
    BY <1>8, StepCases, CallSteps DEF Truncate, Svc
  <2>4. CASE Reads
    <3>1. UNCHANGED <<file, rewrite, user>>
      BY <2>4, ReadsOnly
    <3>2. pc # "fields" \/ pc' = pc
      BY <1>8, <2>4
         DEF Reads, ReadConfig, Decide, Construct, Start, StartReturns, DeleteConnector,
             ClearPointer, Watch, SelectModified, SelectTimesOut, Cleanup, JoinBus, Loop,
             OnRestart, OnRestartStop, AnnounceReset, SigInt, Call
    <3>3. ~met
      BY <2>2, <3>2
    <3>4. QED
      BY <1>8, <2>1, <2>4, <3>1, <3>3
         DEF QuietInv, Reads, ReadConfig, Decide, Construct, Start, StartReturns,
             DeleteConnector, ClearPointer, Watch, SelectModified, SelectTimesOut, Cleanup,
             JoinBus, Loop, OnRestart, OnRestartStop, AnnounceReset, SigInt, Call,
             StopConnector
  <2>5. CASE GetFields
    <3>1. CASE IsConfigValid
      BY <1>8, <2>1, <2>5, <3>1 DEF GetFields
    <3>2. CASE ~IsConfigValid
      BY <1>8, <2>1, <2>5, <3>2 DEF GetFields
    <3>3. QED BY <3>1, <3>2
  <2>6. CASE MakeAppId
    <3>1. CASE IsConfigValid
      <4>1. file \in Content /\ fresh + 1 \in Nat
        BY <3>1 DEF IsConfigValid, FileTypes
      <4>2. [file EXCEPT !["AppId"] = fresh + 1] \in Content
        BY <4>1, FieldSet DEF Fields, Values
      <4>3. BeginWrite("main", [file EXCEPT !["AppId"] = fresh + 1])
        BY <2>6, <3>1 DEF MakeAppId
      <4>4. rewrite'["main"].content = [file EXCEPT !["AppId"] = fresh + 1]
        BY <4>2, <4>3, WriteBegun DEF FileTypes, Threads
      <4>5. rewrite'["main"].content[u] = file[u]
        BY <1>0, <4>1, <4>4 DEF Content
      <4>6. user = file[u]
        BY <2>2, <2>6 DEF MakeAppId, QuietInv
      <4>7. QED BY <1>8, <2>1, <2>6, <3>1, <4>5, <4>6 DEF MakeAppId
    <3>2. CASE ~IsConfigValid
      BY <1>8, <2>1, <2>2, <2>6, <3>2 DEF MakeAppId, QuietInv
    <3>3. QED BY <3>1, <3>2
  <2>7. CASE Truncate("main")
    <3>1. /\ pc = "writeAppId" /\ pc' = pc /\ user' = user
          /\ rewrite'["main"].content = rewrite["main"].content
      BY <2>7, Truncated DEF Truncate, Threads
    <3>2. QED BY <1>8, <2>1, <2>2, <3>1 DEF QuietInv
  <2>8. CASE WriteAppId
    <3>1. /\ pc = "writeAppId" /\ pc' = "setUp" /\ user' = user
          /\ file' = rewrite["main"].content
      BY <2>8, WriteEnded DEF WriteAppId, Threads
    <3>2. QED BY <1>8, <2>1, <2>2, <3>1 DEF QuietInv
  <2>9. CASE SetUpBus
    <3>1. pc = "setUp" /\ pc' \in {"setUp", "decide"} /\ user' = user
      BY <2>9 DEF SetUpBus
    <3>2. user = file[u]
      BY <2>2, <3>1 DEF QuietInv
    <3>3. file'[u] = file[u]
      <4>1. CASE file' = file
        BY <4>1
      <4>2. CASE file' = [file EXCEPT !["AllJoynPasscode"] = passcode']
        <5>1. CASE file \in Content
          BY <1>0, <4>2, <5>1 DEF Content
        <5>2. CASE file = Torn
          BY <1>8, <3>1, <5>2 DEF WriteInv, Writers
        <5>3. QED BY <5>1, <5>2 DEF FileTypes
      <4>3. QED BY <2>9, <4>1, <4>2 DEF SetUpBus
    <3>4. QED BY <1>8, <2>1, <3>1, <3>2, <3>3
  <2>10. QED BY <2>3, <2>4, <2>5, <2>6, <2>7, <2>8, <2>9
<1>9. QED BY <1>2, <1>7, <1>8

(* The invariant holds from the start, and every step keeps it.            *)
LEMMA InvInductive == Spec => []Inv
<1>1. ASSUME Init PROVE Inv
  <2>1. Factory \in Content /\ [f \in Fields |-> Default] \in Content
    BY FileIsContent DEF Content, Values, Default
  <2>2. FileTypes
    BY <1>1, <2>1 DEF Init, FileTypes, Threads, Values, Default, Missing
  <2>3. PlaceTypes
    BY <1>1, ConstantsAssumption DEF Init, PlaceTypes, Kinds
  <2>4. FlagTypes /\ PlaceInv
    BY <1>1 DEF Init, FlagTypes, PlaceInv
  <2>5. file # Torn
    BY <1>1, <2>1, FileIsContent DEF Init
  <2>6. WriteInv /\ RivalInv
    BY <1>1, <2>5 DEF Init, WriteInv, RivalInv, Writers
  <2>7. PasscodeInv /\ QuietInv
    BY <1>1 DEF Init, PasscodeInv, QuietInv
  <2>8. QED BY <2>2, <2>3, <2>4, <2>6, <2>7 DEF Inv, TypeInv
<1>2. ASSUME Inv, UNCHANGED vars PROVE Inv'
  BY <1>2 DEF vars, conf, params, conn, flags, busVars, watch, service, Inv, TypeInv,
     FileTypes, PlaceTypes, FlagTypes, PlaceInv, WriteInv, RivalInv, Sets, PasscodeInv,
     QuietInv, Settled
<1>3. ASSUME Inv, Next PROVE Inv'
  <2>1. TypeInv'
    BY <1>3, StepFile, StepPlaceTypes DEF Inv, TypeInv
  <2>2. PlaceInv' /\ WriteInv'
    BY <1>3, StepPlace, StepWrite DEF Inv
  <2>3. RivalInv' /\ PasscodeInv' /\ QuietInv'
    BY <1>3, StepRival, StepPasscode, StepQuiet DEF Inv
  <2>4. QED BY <2>1, <2>2, <2>3 DEF Inv
<1>4. Inv /\ [Next]_vars => Inv'
  BY <1>2, <1>3
<1>5. QED BY <1>1, <1>4, PTL DEF Spec

-----------------------------------------------------------------------------
(* Every variable keeps its type.                                          *)
THEOREM TypeCorrect == Spec => []TypeOK
<1>1. ASSUME Inv PROVE TypeOK
  <2>1. \A t \in {"main", "svc"} :
           rewrite[t].content \in Content /\ rewrite[t].truncated \in BOOLEAN
    BY <1>1 DEF Inv, TypeInv, FileTypes, Threads
  <2>2. {stopping, resetbus, waitForConfigChange, s_Continue, modified,
         met, direct, rival} \subseteq BOOLEAN
    BY <1>1 DEF Inv, TypeInv, FlagTypes
  <2>3. QED
    BY <1>1, <2>1, <2>2 DEF Inv, TypeInv, FileTypes, PlaceTypes, TypeOK, Values
<1>2. QED BY <1>1, InvInductive, PTL

(* A thread that finds the file truncated by the other's write, which ends *)
(* the program (isConfigValid), does so in a round that has kept the bus,  *)
(* whenever the calls come: cleanup's deletion of the bus waits for them.  *)
THEOREM FileStaysWhole == Spec => []FileIsWhole
<1>1. Inv => FileIsWhole
  BY DEF Inv, WriteInv, FileIsWhole
<1>2. QED BY <1>1, InvInductive, PTL

(* onRestart uses a deleted XMPPConnector, or a call a deleted aboutObj,   *)
(* only if the call is under way while main goes on; SigIntHandler only    *)
(* between the deletion and the clearing of s_Conn.                        *)
THEOREM NothingUsedAfterDelete == Spec => []NoUseAfterDelete
<1>1. Inv => NoUseAfterDelete
  BY DEF Inv, QuietInv, NoUseAfterDelete
<1>2. QED BY <1>1, InvInductive, PTL

(* A connector that runs, has not been told to stop and is disturbed by no *)
(* call uses the parameters that are in the file, if no call was under way *)
(* between main's last reading of the file and Start.                      *)
THEOREM UpdatesTakeEffect == Spec => []InEffect
<1>1. Inv => InEffect
  BY DEF Inv, QuietInv, InEffect
<1>2. QED BY <1>1, InvInductive, PTL

(* Between calls the passcode peers are asked for is the one in the file,  *)
(* or the file has none, unless ConfigDataStore has been told to change    *)
(* the field itself (direct), or main has written an AppId while it kept   *)
(* the bus (rival).                                                        *)
THEOREM PasscodeIsTheFiles == Spec => []PasscodeKept
<1>1. Inv => PasscodeKept
  BY DEF Inv, PasscodeInv, PasscodeKept
<1>2. QED BY <1>1, InvInductive, PTL

-----------------------------------------------------------------------------
(* Contents that differ in one field are apart by a setting of it.         *)
LEMMA OneFieldSet ==
    ASSUME Settings \in Content, Settings' \in Content, NEW f \in Fields,
           \A g \in Fields \ {f} : Settings'[g] = Settings[g]
    PROVE  Store!Next
<1>1. Settings' = [Settings EXCEPT ![f] = Settings'[f]] /\ Settings'[f] \in Values
  BY DEF Content
<1>2. QED BY <1>1, Zenon DEF Store!Next, Store!Set, Settings

LEMMA SettingsTyped ==
    ASSUME TypeInv
    PROVE  Settings \in Content
BY DEF TypeInv, FileTypes, Settings, Threads

(* Every step of the two threads sets one field, puts all back to the      *)
(* factory's, or leaves the settings as they are.                          *)
LEMMA StepSets ==
    ASSUME Inv, Inv', Next, ~rival
    PROVE  Store!Next \/ Settings' = Settings
<1>1. Settings \in Content /\ Settings' \in Content
  <2>1. TypeInv /\ TypeInv'
    BY DEF Inv
  <2>2. TypeInv' => (Settings \in Content)'
    BY SettingsTyped, PTL
  <2>3. QED BY <2>1, <2>2, SettingsTyped DEF Content
<1>2. Torn \notin Content
  BY FileIsContent
<1>3. CASE UNCHANGED <<file, rewrite>> /\ (file # Torn \/ pc' = pc)
  BY <1>3 DEF Settings
<1>4. CASE file # Torn /\ file' = file
  BY <1>4 DEF Settings
<1>5. TypeInv /\ PlaceInv /\ WriteInv /\ RivalInv /\ FileTypes
  BY DEF Inv, TypeInv
<1>6. CASE Truncate("main")
  <2>1. /\ pc = "writeAppId" /\ pc' = pc /\ ~rewrite["main"].truncated /\ file' = Torn
        /\ rewrite'["main"].content = rewrite["main"].content
    BY <1>5, <1>6, Truncated DEF Truncate, Threads
  <2>2. file # Torn /\ Sets("main", "AppId")
    BY <1>5, <2>1 DEF RivalInv
  <2>3. \A g \in Fields \ {"AppId"} : Settings'[g] = Settings[g]
    BY <2>1, <2>2 DEF Settings, Sets
  <2>4. QED BY <1>1, <2>3, OneFieldSet DEF Fields
<1>7. CASE Truncate("svc")
  <2>1. /\ svc \in Writers /\ ~rewrite["svc"].truncated /\ file' = Torn /\ pc' = pc
        /\ rewrite'["svc"].content = rewrite["svc"].content
    BY <1>5, <1>7, Truncated DEF Truncate, Threads, Writers
  <2>2. pc # "writeAppId" /\ file # Torn
    <3>1. bus # "none"
      BY <1>5, <2>1 DEF PlaceInv, Writers
    <3>2. QED BY <1>5, <2>1, <3>1 DEF RivalInv
  <2>3. Settings = file /\ Settings' = rewrite["svc"].content
    BY <2>1, <2>2 DEF Settings
  <2>4. CASE svc = "copied"
    BY <1>5, <2>3, <2>4 DEF RivalInv, Store!Next, Store!Reset
  <2>5. CASE svc # "copied"
    <3>1. PICK f \in Fields : Sets("svc", f)
      BY <1>5, <2>1, <2>2, <2>5 DEF RivalInv, Writers, Fields
    <3>2. QED BY <1>1, <2>3, <3>1, OneFieldSet DEF Sets
  <2>6. QED BY <2>4, <2>5
<1>8. CASE WriteAppId
  <2>1. /\ pc = "writeAppId" /\ rewrite["main"].truncated
        /\ file' # Torn /\ file' = rewrite["main"].content
    BY <1>5, <1>8, WriteEnded DEF WriteAppId, Main, Threads
  <2>2. file = Torn
    BY <1>5, <2>1 DEF RivalInv
  <2>3. QED BY <2>1, <2>2 DEF Settings
<1>9. CASE SetPassCode \/ AnnounceUpdate \/ CopyFactory \/ StoreAppId
  <2>1. /\ svc \in Writers /\ rewrite["svc"].truncated
        /\ file' # Torn /\ file' = rewrite["svc"].content
    BY <1>5, <1>9, WriteEnded
       DEF SetPassCode, AnnounceUpdate, CopyFactory, StoreAppId, Svc, Threads, Writers
  <2>2. file = Torn /\ pc # "writeAppId"
    <3>1. bus # "none"
      BY <1>5, <2>1 DEF PlaceInv, Writers
    <3>2. QED BY <1>5, <2>1, <3>1 DEF RivalInv
  <2>3. QED BY <2>1, <2>2 DEF Settings
<1>10. CASE SetUpBus
  <2>1. CASE file' = [file EXCEPT !["AllJoynPasscode"] = passcode'] /\ resetbus
    <3>1. file \in Content
      BY <1>5, <1>10, <2>1 DEF SetUpBus, Main, FileTypes, PlaceInv, WriteInv, Writers
    <3>2. file' \in Content
      BY <3>1, <2>1 DEF Inv, TypeInv, FileTypes, Torn, Content, Fields
    <3>3. Settings = file /\ Settings' = file'
      BY <1>2, <3>1, <3>2 DEF Settings
    <3>4. \A g \in Fields \ {"AllJoynPasscode"} : file'[g] = file[g]
      BY <2>1, <3>1 DEF Content
    <3>5. QED BY <1>1, <3>3, <3>4, OneFieldSet DEF Fields
  <2>2. CASE file' = file /\ rewrite' = rewrite
    <3>1. pc' = pc \/ (pc # "writeAppId" /\ pc' # "writeAppId")
      BY <1>10 DEF SetUpBus, Main
    <3>2. QED BY <2>2, <3>1 DEF Settings
  <2>3. QED BY <1>10, <2>1, <2>2 DEF SetUpBus, conf
<1>11. CASE MakeAppId \/ Initialize
  BY <1>3, <1>4, <1>11 DEF MakeAppId, Initialize, Exit, IsConfigValid, conf
<1>12. CASE Update \/ Delete \/ PersistPassword
  BY <1>3, <1>4, <1>12
     DEF Update, Delete, PersistPassword, BeginSet, ExitService, IsConfigValid, conf
<1>13. CASE FactoryReset
  <2>1. svc = "begin" /\ file' = file
    BY <1>13 DEF FactoryReset, Begins, Svc
  <2>2. pc # "writeAppId"
    BY <1>5, <2>1, MainAlone
  <2>3. file # Torn
    BY <1>5, <2>1, <2>2 DEF WriteInv, Writers
  <2>4. QED BY <1>4, <2>1, <2>3
<1>14. CASE Reads \/ GetFields
  <2>1. file' = file /\ rewrite' = rewrite
    BY <1>14, ReadsOnly DEF GetFields, Exit, conf
  <2>2. pc' = pc \/ (pc # "writeAppId" /\ pc' # "writeAppId")
    BY <1>14
       DEF Reads, ReadConfig, Decide, Construct, Start, StartReturns, DeleteConnector,
           ClearPointer, Watch, SelectModified, SelectTimesOut, Cleanup, JoinBus, Loop,
           OnRestart, OnRestartStop, AnnounceReset, SigInt, Call, GetFields, Exit, Main
  <2>3. QED BY <2>1, <2>2 DEF Settings
<1>15. QED
  BY StepCases, <1>6, <1>7, <1>8, <1>9, <1>10, <1>11, <1>12, <1>13, <1>14

(* The rewriting of the file by main and by the configuration service      *)
(* (ConfigParser::SetField, factoryReset) implements the abstract store:   *)
(* no write brings back the value another one has replaced, whenever the   *)
(* calls come, unless main writes an AppId while it keeps the bus (rival). *)
THEOREM FileIsAStore == Spec => StoreSpec
<1>1. Init => Store!Init
  BY DEF Init, Store!Init, Settings, Content, Factory, Torn, Values, Fields, Missing, Default
<1>2. ASSUME Inv, Inv', [Next]_vars PROVE [rival \/ Store!Next]_Settings
  BY <1>2, StepSets DEF vars, conf, Settings
<1>3. QED BY <1>1, <1>2, InvInductive, PTL DEF Spec, StoreSpec
=============================================================================
