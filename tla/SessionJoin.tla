------------------------------ MODULE SessionJoin ------------------------------
(***************************************************************************)
(* Sessions relayed between two connectors.  An application (a joiner) on  *)
(* the near bus joins a session hosted by the RemoteBusAttachment that     *)
(* stands for a remote application (a joinee).  The attachment's listener  *)
(* asks the far connector to join the joinee on behalf of the joiner,      *)
(* waits at most ten seconds for the id of that session, accepts, and      *)
(* pairs the two session ids on both sides, so that the end of one session *)
(* ends the other.  The far connector remembers in a SessionTracker which  *)
(* joins it has answered, and recovers from repeated join requests.        *)
(* The two AllJoyn daemons and the XMPP link are external.                 *)
(***************************************************************************)
EXTENDS Naturals, Sequences, FiniteSets

CONSTANTS
    Joiners,      \* applications on the near bus
    Joinees,      \* applications on the far bus
    MaxJoins,     \* bound: session joins asked for by the joiners
    Overlap,      \* TRUE: two joiners may wait at one attachment at a time
    LateAnswers,  \* TRUE: an answer may take longer than the ten seconds
    Lossy,        \* TRUE: the link may lose the news of a lost session
    JoineesLeave  \* TRUE: joinees may leave their sessions

ASSUME ConstantsAssumption ==
    /\ Joiners # {} /\ IsFiniteSet(Joiners)
    /\ Joinees # {} /\ IsFiniteSet(Joinees)
    /\ MaxJoins \in Nat
    /\ Overlap \in BOOLEAN /\ LateAnswers \in BOOLEAN
    /\ Lossy \in BOOLEAN /\ JoineesLeave \in BOOLEAN

(* Both daemons number their sessions from 1; 0 is no session.             *)
Ids  == 1 .. MaxJoins
Ids0 == 0 .. MaxJoins

(* A session of a daemon; an entry of RemoteBusAttachment's m_activeSessions*)
Session == [id : Ids, joiner : Joiners, joinee : Joinees]
Entry(Peers) == [id : Ids, peer : Peers, remoteId : Ids]

(* The field joiner of a JoinResponse is a ghost: the message names only   *)
(* the joinee.                                                             *)
JoinRequest   == [type : {"JoinRequest"}, joinee : Joinees, joiner : Joiners]
JoinResponse  == [type : {"JoinResponse"}, joinee : Joinees, joiner : Joiners, id : Ids0]
SessionJoined == [type : {"SessionJoined"}, joinee : Joinees, joiner : Joiners,
                  remoteId : Ids, localId : Ids]
SessionLost(Peers) == [type : {"SessionLost"}, peer : Peers, id : Ids]

NoJoin  == [status |-> "none"]
Joining == [status : {"ok", "already", "fail"}, joinee : Joinees,
            joiner : Joiners, id : Ids0]

PC == {"idle", "waiting", "woken", "accepted"}

VARIABLES
    \* near connector: the listener of each joinee's attachment
    pc,                       \* AcceptSessionJoiner, for each joinee and joiner
    sessionJoinedSignalReceived,
    remoteSessionId,
    pendingSessionJoiners,    \* 0: no entry
    hosted,                   \* m_activeSessions of each joinee's attachment
    \* far connector
    tracker,                  \* m_sessionTracker: pending and sessions; 0: no entry
    joining,                  \* ReceiveJoinRequest, after its JoinSession
    joined,                   \* m_activeSessions of each joiner's attachment
    \* external: the daemons and the link
    nearSessions, farSessions,  \* the sessions ever made
    nearLive, farLive,          \* the ids of those that are up
    nearLost, farLost,          \* SessionLost callbacks due
    toFar, toNear,
    \* ghosts
    joins,                    \* joins asked for so far
    relayed                   \* every pairing the near connector announced

listener == <<pc, sessionJoinedSignalReceived, remoteSessionId, pendingSessionJoiners>>
near     == <<listener, hosted>>
far      == <<tracker, joining, joined>>
nearBus  == <<nearSessions, nearLive, nearLost>>
farBus   == <<farSessions, farLive, farLost>>
link     == <<toFar, toNear>>
vars     == <<near, far, nearBus, farBus, link, joins, relayed>>

Init ==
    /\ pc = [e \in Joinees |-> [j \in Joiners |-> "idle"]]
    /\ sessionJoinedSignalReceived = [e \in Joinees |-> FALSE]
    /\ remoteSessionId = [e \in Joinees |-> 0]
    /\ pendingSessionJoiners = [e \in Joinees |-> [j \in Joiners |-> 0]]
    /\ hosted = [e \in Joinees |-> {}]
    /\ tracker = [pending  |-> [j \in Joiners |-> 0], sessions |-> [j \in Joiners |-> 0]]
    /\ joining = NoJoin
    /\ joined = [j \in Joiners |-> {}]
    /\ nearSessions = {} /\ farSessions = {}
    /\ nearLive = {} /\ farLive = {}
    /\ nearLost = {} /\ farLost = {}
    /\ toFar = <<>> /\ toNear = <<>>
    /\ joins = 0
    /\ relayed = {}

-----------------------------------------------------------------------------
(* RemoteBusAttachment's map of active sessions, from local id to peer and *)
(* remote id, as a set of entries; searches take the lowest local id.      *)

RemoveSession(active, id) == {s \in active : s.id # id}

AddSession(active, id, peer, remoteId) ==
    RemoveSession(active, id) \cup {[id |-> id, peer |-> peer, remoteId |-> remoteId]}

FirstId(found) ==
    IF found = {} THEN 0
    ELSE (CHOOSE s \in found : \A t \in found : s.id <= t.id).id

GetLocalSessionId(active, remoteId) == FirstId({s \in active : s.remoteId = remoteId})

GetSessionIdByPeer(active, peer) == FirstId({s \in active : s.peer = peer})

(* SessionTracker, whose two maps are keyed by the joiner alone.           *)

JoinSent(t, j, id) == [t EXCEPT !.pending[j] = id]

JoinConfirmed(t, j) ==
    IF t.pending[j] = 0 THEN t
    ELSE [t EXCEPT !.sessions[j] = t.pending[j], !.pending[j] = 0]

TrackerSessionLost(t, j) == [t EXCEPT !.sessions[j] = 0]

GetSession(t, j) == IF t.pending[j] # 0 THEN t.pending[j] ELSE t.sessions[j]

-----------------------------------------------------------------------------
(* The near connector.                                                     *)

SessionsOf(made, j, e) == {s.id : s \in {t \in made : t.joiner = j /\ t.joinee = e}}

(* Mutant: the answer to the last request is not cleared.                  *)
AcceptSessionJoinerKeeps(e, j) ==
    /\ pc[e][j] = "idle"
    /\ joins < MaxJoins
    /\ SessionsOf(nearSessions, j, e) \cap (nearLive \cup nearLost) = {}
    /\ Overlap \/ \A k \in Joiners : pc[e][k] \in {"idle", "accepted"}
    /\ joins' = joins + 1
    /\ toFar' = Append(toFar, [type |-> "JoinRequest", joinee |-> e, joiner |-> j])
    /\ pc' = [pc EXCEPT ![e][j] = "waiting"]
    /\ UNCHANGED <<sessionJoinedSignalReceived, remoteSessionId, pendingSessionJoiners,
                   hosted, far, nearBus, farBus, toNear, relayed>>

(* AcceptSessionJoiner up to its wait, under the listener's mutex.  The    *)
(* daemon lets an application join a host it has no session with, after    *)
(* the end of the last one has been reported.                              *)
AcceptSessionJoiner(e, j) ==
    /\ pc[e][j] = "idle"
    /\ joins < MaxJoins
    /\ SessionsOf(nearSessions, j, e) \cap (nearLive \cup nearLost) = {}
    /\ Overlap \/ \A k \in Joiners : pc[e][k] \in {"idle", "accepted"}
    /\ joins' = joins + 1
    /\ sessionJoinedSignalReceived' = [sessionJoinedSignalReceived EXCEPT ![e] = FALSE]
    /\ remoteSessionId' = [remoteSessionId EXCEPT ![e] = 0]
    /\ toFar' = Append(toFar, [type |-> "JoinRequest", joinee |-> e, joiner |-> j])
    /\ pc' = [pc EXCEPT ![e][j] = "waiting"]
    /\ UNCHANGED <<pendingSessionJoiners, hosted, far, nearBus, farBus, toNear, relayed>>

(* Mutant: a refusal makes it wait again.                                  *)
DecideRetries(e, j) ==
    IF remoteSessionId[e] # 0
    THEN /\ pendingSessionJoiners' = [pendingSessionJoiners EXCEPT ![e][j] = remoteSessionId[e]]
         /\ pc' = [pc EXCEPT ![e][j] = "accepted"]
    ELSE /\ pc' = [pc EXCEPT ![e][j] = "waiting"]
         /\ UNCHANGED pendingSessionJoiners

(* The wait is over: whatever id is there decides, and 0 is a refusal.     *)
Decide(e, j) ==
    IF remoteSessionId[e] # 0
    THEN /\ pendingSessionJoiners' = [pendingSessionJoiners EXCEPT ![e][j] = remoteSessionId[e]]
         /\ pc' = [pc EXCEPT ![e][j] = "accepted"]
    ELSE /\ pc' = [pc EXCEPT ![e][j] = "idle"]
         /\ UNCHANGED pendingSessionJoiners

(* A woken joiner decides only if the signal is still there.               *)
Wake(e, j) ==
    /\ pc[e][j] = "woken"
    /\ IF sessionJoinedSignalReceived[e]
       THEN Decide(e, j)
       ELSE pc' = [pc EXCEPT ![e][j] = "waiting"] /\ UNCHANGED pendingSessionJoiners
    /\ UNCHANGED <<sessionJoinedSignalReceived, remoteSessionId, hosted, far,
                   nearBus, farBus, link, joins, relayed>>

WakeSpuriously(e, j) ==
    /\ pc[e][j] = "waiting"
    /\ pc' = [pc EXCEPT ![e][j] = "woken"]
    /\ UNCHANGED <<sessionJoinedSignalReceived, remoteSessionId, pendingSessionJoiners,
                   hosted, far, nearBus, farBus, link, joins, relayed>>

(* A request for this joinee, or its answer, is still under way.           *)
Asked(e) ==
    \/ \E i \in DOMAIN toFar : toFar[i].type = "JoinRequest" /\ toFar[i].joinee = e
    \/ joining # NoJoin /\ joining.joinee = e
    \/ \E i \in DOMAIN toNear : toNear[i].type = "JoinResponse" /\ toNear[i].joinee = e

(* The wait ends after ten seconds.                                        *)
TimeOut(e, j) ==
    /\ pc[e][j] = "waiting"
    /\ LateAnswers \/ ~Asked(e)
    /\ Decide(e, j)
    /\ UNCHANGED <<sessionJoinedSignalReceived, remoteSessionId, hosted, far,
                   nearBus, farBus, link, joins, relayed>>

(* The daemon makes the session and calls SessionJoined, which takes the   *)
(* joiner's remote id, records the pair and sends it to the far connector. *)
ListenerSessionJoined(e, j) ==
    LET id == Cardinality(nearSessions) + 1
        remoteId == pendingSessionJoiners[e][j]
    IN
    /\ pc[e][j] = "accepted"
    /\ nearSessions' = nearSessions \cup {[id |-> id, joiner |-> j, joinee |-> e]}
    /\ nearLive' = nearLive \cup {id}
    /\ pendingSessionJoiners' = [pendingSessionJoiners EXCEPT ![e][j] = 0]
    /\ hosted' = [hosted EXCEPT ![e] = AddSession(@, id, j, remoteId)]
    /\ toFar' = Append(toFar, [type |-> "SessionJoined", joiner |-> j, joinee |-> e,
                               remoteId |-> remoteId, localId |-> id])
    /\ relayed' = relayed \cup {[id |-> id, remoteId |-> remoteId]}
    /\ pc' = [pc EXCEPT ![e][j] = "idle"]
    /\ UNCHANGED <<sessionJoinedSignalReceived, remoteSessionId, far, nearLost,
                   farBus, toNear, joins>>

(* A joiner leaves its session, and the daemon tells the attachment.       *)
JoinerLeaves(id) ==
    /\ id \in nearLive
    /\ nearLive' = nearLive \ {id}
    /\ nearLost' = nearLost \cup {id}
    /\ UNCHANGED <<near, far, nearSessions, farBus, link, joins, relayed>>

(* RemoteBusListener::SessionLost at a joinee's attachment: a session it   *)
(* does not know, or has removed already, is not reported.                 *)
NearSessionLost(id) ==
    LET e == (CHOOSE s \in nearSessions : s.id = id).joinee
        known == {s \in hosted[e] : s.id = id}
    IN
    /\ id \in nearLost
    /\ nearLost' = nearLost \ {id}
    /\ hosted' = [hosted EXCEPT ![e] = RemoveSession(@, id)]
    /\ toFar' = IF known = {} THEN toFar
                ELSE Append(toFar, [type |-> "SessionLost", id |-> id,
                                    peer |-> (CHOOSE s \in known : TRUE).peer])
    /\ UNCHANGED <<listener, far, nearSessions, nearLive, farBus, toNear, joins, relayed>>

(* XMPP thread: SignalSessionJoined stores the answer for the attachment   *)
(* it names and wakes one waiting joiner, if there is one.                 *)
ReceiveJoinResponse ==
    /\ toNear # <<>> /\ Head(toNear).type = "JoinResponse"
    /\ LET e == Head(toNear).joinee
           waiting == {j \in Joiners : pc[e][j] = "waiting"}
       IN
       /\ sessionJoinedSignalReceived' = [sessionJoinedSignalReceived EXCEPT ![e] = TRUE]
       /\ remoteSessionId' = [remoteSessionId EXCEPT ![e] = Head(toNear).id]
       /\ \/ \E j \in waiting : pc' = [pc EXCEPT ![e][j] = "woken"]
          \/ waiting = {} /\ UNCHANGED pc
    /\ toNear' = Tail(toNear)
    /\ UNCHANGED <<pendingSessionJoiners, hosted, far, nearBus, farBus, toFar, joins, relayed>>

(* Mutant: the id in the message is taken for the local one.               *)
NearReceiveSessionLostById ==
    /\ toNear # <<>> /\ Head(toNear).type = "SessionLost"
    /\ LET e == Head(toNear).peer
           id == Head(toNear).id
       IN
       /\ nearLive' = nearLive \ {id}
       /\ hosted' = [hosted EXCEPT ![e] = RemoveSession(@, id)]
    /\ toNear' = Tail(toNear)
    /\ UNCHANGED <<listener, far, nearSessions, nearLost, farBus, toFar, joins, relayed>>

(* XMPP thread: a session of the joinee's is over; the paired local one is *)
(* left, if it is still up, and forgotten.                                 *)
NearReceiveSessionLost ==
    /\ toNear # <<>> /\ Head(toNear).type = "SessionLost"
    /\ LET e == Head(toNear).peer
           id == GetLocalSessionId(hosted[e], Head(toNear).id)
       IN
       /\ nearLive' = nearLive \ {id}
       /\ hosted' = [hosted EXCEPT ![e] = RemoveSession(@, id)]
    /\ toNear' = Tail(toNear)
    /\ UNCHANGED <<listener, far, nearSessions, nearLost, farBus, toFar, joins, relayed>>

-----------------------------------------------------------------------------
(* The far connector.  Its XMPP thread is busy while joining # NoJoin.     *)

Available(type) == joining = NoJoin /\ toFar # <<>> /\ Head(toFar).type = type

UpWith(live, j, e) == SessionsOf(farSessions, j, e) \cap live

(* The daemon's answers to JoinSession: a new session, a failure (also the *)
(* one to create the joiner's attachment), or the news that there is one,  *)
(* with or without its id.                                                 *)
JoinSession(live, j, e) ==
    LET up == UpWith(live, j, e)
        answer(status, id) == [status |-> status, joiner |-> j, joinee |-> e, id |-> id]
    IN IF up = {} THEN {answer("ok", Cardinality(farSessions) + 1), answer("fail", 0)}
       ELSE {answer("already", id) : id \in up \cup {0}}

MadeBy(a) ==
    IF a.status = "ok" THEN {[id |-> a.id, joiner |-> a.joiner, joinee |-> a.joinee]} ELSE {}

(* ReceiveJoinRequest, up to the answer of the daemon.                     *)
ReceiveJoinRequest ==
    /\ Available("JoinRequest")
    /\ \E a \in JoinSession(farLive, Head(toFar).joiner, Head(toFar).joinee) :
          /\ joining' = a
          /\ farSessions' = farSessions \cup MadeBy(a)
          /\ farLive' = farLive \cup {s.id : s \in MadeBy(a)}
    /\ toFar' = Tail(toFar)
    /\ UNCHANGED <<near, tracker, joined, nearBus, farLost, toNear, joins, relayed>>

(* The rest of ReceiveJoinRequest: what the tracker and the active         *)
(* sessions say of a joiner the daemon knows decides the answer.           *)

SendJoinResponse(id) ==
    /\ toNear' = Append(toNear, [type |-> "JoinResponse", joinee |-> joining.joinee,
                                 joiner |-> joining.joiner, id |-> id])
    /\ joining' = NoJoin
    /\ UNCHANGED <<near, joined, nearBus, farLost, toFar, joins, relayed>>

Pending  == GetSession(tracker, joining.joiner)
ActiveId == GetSessionIdByPeer(joined[joining.joiner], joining.joinee)
NotJoined == joining.status = "already" /\ joining.id = 0

AnswerJoined ==
    /\ joining.status = "ok"
    /\ tracker' = JoinSent(tracker, joining.joiner, joining.id)
    /\ SendJoinResponse(joining.id)
    /\ UNCHANGED <<farSessions, farLive>>

AnswerAsIs ==
    /\ joining.status # "ok" /\ ~NotJoined
    /\ SendJoinResponse(joining.id)
    /\ UNCHANGED <<tracker, farSessions, farLive>>

(* A second request before the SessionJoined: the same answer again.       *)
AnswerRepeated ==
    /\ NotJoined /\ Pending # 0 /\ ActiveId = 0
    /\ tracker' = TrackerSessionLost(tracker, joining.joiner)
    /\ SendJoinResponse(Pending)
    /\ UNCHANGED <<farSessions, farLive>>

(* The tracker is corrected by what the attachment recorded.               *)
AnswerDisagreement ==
    /\ NotJoined /\ Pending # 0 /\ ActiveId # 0 /\ ActiveId # Pending
    /\ tracker' = JoinSent(TrackerSessionLost(tracker, joining.joiner), joining.joiner, ActiveId)
    /\ SendJoinResponse(ActiveId)
    /\ UNCHANGED <<farSessions, farLive>>

AnswerActive ==
    /\ NotJoined /\ Pending # 0 /\ ActiveId = Pending
    /\ SendJoinResponse(ActiveId)
    /\ UNCHANGED <<tracker, farSessions, farLive>>

(* A session the tracker does not know is left and joined again.           *)
AnswerRejoin ==
    /\ NotJoined /\ Pending = 0 /\ ActiveId # 0
    /\ \E a \in JoinSession(farLive \ {ActiveId}, joining.joiner, joining.joinee) :
          /\ farSessions' = farSessions \cup MadeBy(a)
          /\ farLive' = (farLive \ {ActiveId}) \cup {s.id : s \in MadeBy(a)}
          /\ tracker' = IF a.status = "ok"
                        THEN JoinSent(tracker, joining.joiner, a.id) ELSE tracker
          /\ SendJoinResponse(a.id)

AnswerUnknown ==
    /\ NotJoined /\ Pending = 0 /\ ActiveId = 0
    /\ tracker' = TrackerSessionLost(JoinConfirmed(tracker, joining.joiner), joining.joiner)
    /\ SendJoinResponse(0)
    /\ UNCHANGED <<farSessions, farLive>>

AnswerJoin ==
    /\ joining # NoJoin
    /\ \/ AnswerJoined \/ AnswerAsIs \/ AnswerRepeated \/ AnswerDisagreement
       \/ AnswerActive \/ AnswerRejoin \/ AnswerUnknown

ReceiveSessionJoined ==
    /\ Available("SessionJoined")
    /\ LET m == Head(toFar) IN
       /\ tracker' = JoinConfirmed(tracker, m.joiner)
       /\ joined' = [joined EXCEPT ![m.joiner] = AddSession(@, m.remoteId, m.joinee, m.localId)]
    /\ toFar' = Tail(toFar)
    /\ UNCHANGED <<near, joining, nearBus, farBus, toNear, joins, relayed>>

(* Mutant: the session is forgotten but not left.                          *)
FarReceiveSessionLostStays ==
    /\ Available("SessionLost")
    /\ LET j == Head(toFar).peer
           id == GetLocalSessionId(joined[j], Head(toFar).id)
       IN joined' = [joined EXCEPT ![j] = RemoveSession(@, id)]
    /\ toFar' = Tail(toFar)
    /\ UNCHANGED <<near, tracker, joining, nearBus, farBus, toNear, joins, relayed>>

(* Mutant: the session is left but not forgotten.                          *)
FarReceiveSessionLostKeeps ==
    /\ Available("SessionLost")
    /\ LET j == Head(toFar).peer IN
       farLive' = farLive \ {GetLocalSessionId(joined[j], Head(toFar).id)}
    /\ toFar' = Tail(toFar)
    /\ UNCHANGED <<near, far, nearBus, farSessions, farLost, toNear, joins, relayed>>

(* The tracker is not told that the session is over.                       *)
FarReceiveSessionLost ==
    /\ Available("SessionLost")
    /\ LET j == Head(toFar).peer
           id == GetLocalSessionId(joined[j], Head(toFar).id)
       IN
       /\ farLive' = farLive \ {id}
       /\ joined' = [joined EXCEPT ![j] = RemoveSession(@, id)]
    /\ toFar' = Tail(toFar)
    /\ UNCHANGED <<near, tracker, joining, nearBus, farSessions, farLost, toNear, joins, relayed>>

(* A joinee leaves its session, and the daemon tells the attachment.       *)
JoineeLeaves(id) ==
    /\ JoineesLeave
    /\ id \in farLive
    /\ farLive' = farLive \ {id}
    /\ farLost' = farLost \cup {id}
    /\ UNCHANGED <<near, far, nearBus, farSessions, link, joins, relayed>>

(* RemoteBusListener::SessionLost at a joiner's attachment.                *)
FarSessionLost(id) ==
    LET j == (CHOOSE s \in farSessions : s.id = id).joiner
        known == {s \in joined[j] : s.id = id}
    IN
    /\ id \in farLost
    /\ farLost' = farLost \ {id}
    /\ joined' = [joined EXCEPT ![j] = RemoveSession(@, id)]
    /\ toNear' = IF known = {} THEN toNear
                 ELSE Append(toNear, [type |-> "SessionLost", id |-> id,
                                      peer |-> (CHOOSE s \in known : TRUE).peer])
    /\ UNCHANGED <<near, tracker, joining, nearBus, farSessions, farLive, toFar, joins, relayed>>

(* The link drops the news that a near session is over.                    *)
LoseSessionLost ==
    /\ Lossy
    /\ toFar # <<>> /\ Head(toFar).type = "SessionLost"
    /\ toFar' = Tail(toFar)
    /\ UNCHANGED <<near, far, nearBus, farBus, toNear, joins, relayed>>

-----------------------------------------------------------------------------
NearXmppThread == ReceiveJoinResponse \/ NearReceiveSessionLost
FarXmppThread ==
    \/ ReceiveJoinRequest \/ AnswerJoin \/ ReceiveSessionJoined \/ FarReceiveSessionLost
Caller(e, j) == Wake(e, j) \/ TimeOut(e, j) \/ ListenerSessionJoined(e, j)

Next ==
    \/ \E e \in Joinees, j \in Joiners :
          AcceptSessionJoiner(e, j) \/ WakeSpuriously(e, j) \/ Caller(e, j)
    \/ \E id \in Ids :
          JoinerLeaves(id) \/ NearSessionLost(id) \/ JoineeLeaves(id) \/ FarSessionLost(id)
    \/ NearXmppThread \/ FarXmppThread \/ LoseSessionLost

Spec == Init /\ [][Next]_vars

(* The XMPP threads drain their input, threads run and callbacks that are  *)
(* due are made; spurious wakeups do not postpone the absolute deadline of *)
(* a wait for ever.                                                        *)
Fairness ==
    /\ WF_vars(NearXmppThread) /\ WF_vars(FarXmppThread)
    /\ \A e \in Joinees, j \in Joiners :
          WF_vars(Wake(e, j)) /\ WF_vars(ListenerSessionJoined(e, j)) /\ SF_vars(TimeOut(e, j))
    /\ \A id \in Ids : WF_vars(NearSessionLost(id)) /\ WF_vars(FarSessionLost(id))

FairSpec == Spec /\ Fairness

-----------------------------------------------------------------------------
(* The values each variable may take.                                      *)
TypeOK ==
    /\ pc \in [Joinees -> [Joiners -> PC]]
    /\ sessionJoinedSignalReceived \in [Joinees -> BOOLEAN]
    /\ remoteSessionId \in [Joinees -> Ids0]
    /\ pendingSessionJoiners \in [Joinees -> [Joiners -> Ids0]]
    /\ \A e \in Joinees, j \in Joiners :
          pc[e][j] = "accepted" <=> pendingSessionJoiners[e][j] # 0
    /\ hosted \in [Joinees -> SUBSET Entry(Joiners)]
    /\ tracker \in [pending : [Joiners -> Ids0], sessions : [Joiners -> Ids0]]
    /\ joining \in Joining \cup {NoJoin}
    /\ joined \in [Joiners -> SUBSET Entry(Joinees)]
    /\ nearSessions \subseteq Session /\ farSessions \subseteq Session
    /\ nearLive \subseteq Ids /\ nearLost \subseteq Ids
    /\ farLive \subseteq Ids /\ farLost \subseteq Ids
    /\ toFar \in Seq(JoinRequest \cup SessionJoined \cup SessionLost(Joiners))
    /\ toNear \in Seq(JoinResponse \cup SessionLost(Joinees))
    /\ joins \in 0 .. MaxJoins
    /\ relayed \subseteq [id : Ids, remoteId : Ids]

MadeFor(made, id, j, e) == [id |-> id, joiner |-> j, joinee |-> e] \in made

(* A session is paired with one that was joined for the same joiner with   *)
(* the same joinee, on both sides.                                         *)
SessionsPaired ==
    /\ \A e \in Joinees : \A s \in hosted[e] : MadeFor(farSessions, s.remoteId, s.peer, e)
    /\ \A j \in Joiners : \A s \in joined[j] :
          MadeFor(farSessions, s.id, j, s.peer) /\ MadeFor(nearSessions, s.remoteId, j, s.peer)

(* Each near session gets a far session of its own.                        *)
EverySessionIsFresh ==
    \A r, s \in relayed : r.remoteId = s.remoteId => r = s

(* A joiner has at most one recorded session with a joinee, so the search  *)
(* by peer that recovers from a repeated request has one candidate.        *)
PeersAreUnambiguous ==
    \A j \in Joiners : \A s, t \in joined[j] : s.peer = t.peer => s = t

(* When a joiner leaves, or its session is lost, the far session ends too. *)
NearEndReachesFar ==
    \A l, r \in Ids :
        [id |-> l, remoteId |-> r] \in relayed /\ l \notin nearLive ~> r \notin farLive

(* When a joinee has left, and the far connector knows the near session by *)
(* the time it hears of it, the joiner's session ends too.                 *)
FarEndReachesNear ==
    \A l, r \in Ids :
        r \in farLost /\ (\E j \in Joiners : \E s \in joined[j] : s.id = r /\ s.remoteId = l)
            ~> l \notin nearLive

(* AcceptSessionJoiner returns, also when its answer comes late or belongs *)
(* to an earlier request.                                                  *)
JoinReturns ==
    \A e \in Joinees, j \in Joiners :
        pc[e][j] \in {"waiting", "woken"} ~> pc[e][j] \in {"idle", "accepted"}
=============================================================================
