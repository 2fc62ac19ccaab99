------------------------------ MODULE SignalRelay ------------------------------
(***************************************************************************)
(* Signals of an application, relayed to the bus where its stand-in is.    *)
(* Those it emits in a session carry that session's id on its own bus, and *)
(* the stand-in emits them in the session paired with it; sessionless ones *)
(* carry 0.  Sessions come and go by other messages of the same stream     *)
(* (SessionJoin) and are modelled here only as far as signals see them.    *)
(* The texts of arguments and bodies are parameters; Codec is their values.*)
(* The bus daemons and the order of the XMPP stream are external.          *)
(***************************************************************************)
EXTENDS Naturals, Sequences, FiniteSets

CONSTANTS
    ToText(_), FromText(_),    \* VectorToString and VectorFromString
    ToBody(_, _), FromBody(_), \* Body and Message
    Ids,          \* session ids, of either bus
    Members,      \* signals the application's objects have
    ArgLists,     \* arguments of signals
    MaxSignals,   \* bound: signals relayed
    MaxSessions,  \* bound: sessions it is in
    Prompt        \* TRUE: it emits in a session when both ends know the
                  \* session, and no session ends with signals on their way

ASSUME ConstantsAssumption ==
    /\ Ids \subseteq STRING /\ "0" \notin Ids /\ Members \subseteq STRING
    /\ MaxSignals \in Nat /\ MaxSessions \in Nat /\ Prompt \in BOOLEAN

VARIABLES
    hosted,            \* sessions the attachment on the application's bus is in
    unanswered,        \* of these, those whose join request is not answered yet
    stream,            \* the messages on their way
    accepted,          \* answers, before the bus reports the session joined
    m_activeSessions,  \* of the stand-in: local id to remote id
    standIn,           \* it exists
    members,           \* those its objects and their interfaces have
    compress,          \* the sender's option
    sent,              \* history: the signals the handlers passed on
    emitted,           \* history: the signals the stand-in emitted, by number
    refused,           \* history: those the bus would not take from it
    sessions           \* history: how many sessions there were

options == <<members, compress>>
vars == <<hosted, unanswered, stream, accepted, m_activeSessions, standIn, options,
          sent, emitted, refused, sessions>>

Init ==
    /\ hosted = {} /\ unanswered = {}
    /\ stream = <<>> /\ accepted = {}
    /\ m_activeSessions = {}
    /\ standIn = TRUE
    /\ members \in SUBSET Members /\ compress \in BOOLEAN
    /\ sent = <<>> /\ emitted = {} /\ refused = {}
    /\ sessions = 0

Quiet == stream = <<>> /\ accepted = {} /\ unanswered = {}

-----------------------------------------------------------------------------
(* The application's side.                                                 *)

(* ReceiveJoinRequest: the attachment joins, and registers for the signals *)
(* of the application before the request is answered.                      *)
JoinSession(h) ==
    /\ standIn /\ h \notin hosted /\ sessions < MaxSessions
    /\ Prompt => \A p \in m_activeSessions : p.remoteId # h
    /\ hosted' = hosted \cup {h}
    /\ unanswered' = unanswered \cup {h}
    /\ sessions' = sessions + 1
    /\ UNCHANGED <<stream, accepted, m_activeSessions, standIn, options, sent, emitted,
                   refused>>

SendJoinResponse(h) ==
    /\ h \in unanswered
    /\ unanswered' = unanswered \ {h}
    /\ stream' = Append(stream, [type |-> "response", session |-> h])
    /\ UNCHANGED <<hosted, accepted, m_activeSessions, standIn, options, sent, emitted,
                   refused, sessions>>

(* Type code, session, member and arguments; the member stands for object, *)
(* interface and member; the sender is the same for all signals here.      *)
SignalText(s) == <<"_", s.session, s.member>> \o ToText(s.args)

Signals == [session : Ids \cup {"0"}, member : Members, args : ArgLists]

(* Whatever its arguments, a signal's text comes out of the body with its  *)
(* session and member where they were.                                     *)
ASSUME TextAssumption ==
    \A s \in Signals, compressed \in BOOLEAN :
        LET text == FromBody(ToBody(SignalText(s), compressed)) IN
        text[2] = s.session /\ text[3] = s.member

SendSignal(s) ==
    /\ Len(sent) < MaxSignals
    /\ sent' = Append(sent, s)
    /\ stream' = Append(stream, [type |-> "signal", number |-> Len(sent) + 1,
                                 body |-> ToBody(SignalText(s), compress)])
    /\ UNCHANGED <<hosted, unanswered, accepted, m_activeSessions, standIn, options,
                   emitted, refused, sessions>>

Known(h) == standIn /\ \E p \in m_activeSessions : p.remoteId = h

(* RemoteBusAttachment::AllJoynSignalHandler, of an attachment that has    *)
(* been in a session: any signal the bus gives it, also one outside of     *)
(* sessions, which may get the other handler too and then be sent twice.   *)
AllJoynSignalHandler(s) ==
    /\ IF s.session = "0" THEN sessions > 0
       ELSE s.session \in hosted /\ (Prompt => Known(s.session))
    /\ SendSignal(s)

(* AllJoynListener's, which leaves out what belongs to a session.          *)
SessionlessSignalHandler(s) == s.session = "0" /\ SendSignal(s)

-----------------------------------------------------------------------------
(* The stand-in's side.                                                    *)

(* The XMPP thread takes the next message.                                 *)
TakeMessage == stream # <<>> /\ stream' = Tail(stream)

Receives(type) == TakeMessage /\ Head(stream).type = type

ReceiveJoinResponse ==
    /\ Receives("response")
    /\ accepted' = IF standIn THEN accepted \cup {Head(stream).session} ELSE accepted
    /\ UNCHANGED <<hosted, unanswered, m_activeSessions, standIn, options, sent, emitted,
                   refused, sessions>>

(* The bus reports the session under an id of its own: AddSession.         *)
SessionJoined(h, l) ==
    /\ h \in accepted /\ standIn
    /\ \A p \in m_activeSessions : p.localId # l
    /\ accepted' = accepted \ {h}
    /\ m_activeSessions' = m_activeSessions \cup {[localId |-> l, remoteId |-> h]}
    /\ UNCHANGED <<hosted, unanswered, stream, standIn, options, sent, emitted, refused,
                   sessions>>

(* Mutant: the ids of the two buses are taken for the same.                *)
GetLocalSessionIdSame(h) == IF \E p \in m_activeSessions : p.localId = h THEN h ELSE "0"

(* 0 if there is no such session.                                          *)
GetLocalSessionId(h) ==
    IF Known(h) THEN (CHOOSE p \in m_activeSessions : p.remoteId = h).localId ELSE "0"

(* RemoteBusObject::SendSignal: a signal of an object, interface or member *)
(* the stand-in does not have is dropped.                                  *)
Relayed(message, text, session) ==
    IF text[3] \notin members THEN {}
    ELSE {[number |-> message.number, session |-> session, pairs |-> m_activeSessions,
           args |-> FromText(SubSeq(text, 4, Len(text)))]}

(* Mutant: only signals of sessions are relayed.                           *)
RelaySignalInSession(message) ==
    LET text    == FromBody(message.body)
        session == GetLocalSessionId(text[2])
    IN  IF session = "0" THEN {} ELSE Relayed(message, text, session)

(* A signal for session 0, and one whose session has no local id, is       *)
(* emitted with the sessionless flag.                                      *)
RelaySignal(message) ==
    LET text == FromBody(message.body)
    IN  Relayed(message, text, IF text[2] = "0" THEN "0" ELSE GetLocalSessionId(text[2]))

(* Without a stand-in it is dropped, and when the bus refuses it, lost.    *)
ReceiveSignal ==
    /\ Receives("signal")
    /\ LET signals == IF standIn THEN RelaySignal(Head(stream)) ELSE {} IN
       \/ emitted' = emitted \cup signals /\ UNCHANGED refused
       \/ /\ signals # {} /\ UNCHANGED emitted
          /\ refused' = refused \cup {Head(stream).number}
    /\ UNCHANGED <<hosted, unanswered, accepted, m_activeSessions, standIn, options, sent,
                   sessions>>

(* A session ends at the stand-in and, by a message the other way, at the  *)
(* application.                                                            *)
SessionLost(p) ==
    /\ Prompt => Quiet
    /\ m_activeSessions' = m_activeSessions \ {p}
    /\ hosted' = hosted \ {p.remoteId}
    /\ UNCHANGED <<unanswered, stream, accepted, standIn, options, sent, emitted, refused,
                   sessions>>

(* The stand-in is deleted (RemoteAttachments).                            *)
DeleteStandIn ==
    /\ standIn
    /\ standIn' = FALSE
    /\ m_activeSessions' = {} /\ accepted' = {}
    /\ UNCHANGED <<hosted, unanswered, stream, options, sent, emitted, refused, sessions>>

Next ==
    \/ \E h \in Ids : JoinSession(h) \/ SendJoinResponse(h)
    \/ \E s \in Signals : AllJoynSignalHandler(s) \/ SessionlessSignalHandler(s)
    \/ ReceiveJoinResponse
    \/ \E h, l \in Ids : SessionJoined(h, l)
    \/ ReceiveSignal
    \/ \E p \in m_activeSessions : SessionLost(p)
    \/ DeleteStandIn

Spec == Init /\ [][Next]_vars

(* The XMPP thread does not rest on a message.                             *)
FairSpec == Spec /\ WF_stream(TakeMessage)

-----------------------------------------------------------------------------
(* The values each variable may take.                                      *)
TypeOK ==
    /\ hosted \subseteq Ids /\ unanswered \subseteq Ids /\ accepted \subseteq Ids
    /\ m_activeSessions \subseteq [localId : Ids, remoteId : hosted]
    /\ standIn \in BOOLEAN /\ compress \in BOOLEAN /\ members \subseteq Members
    /\ sent \in Seq(Signals) /\ refused \subseteq DOMAIN sent
    /\ \A e \in emitted : e.session \in Ids \cup {"0"} /\ e.number \in DOMAIN sent
    /\ sessions \in 0 .. MaxSessions

(* What is emitted in a session is not broadcast on the other bus as a     *)
(* sessionless signal, nor the other way round, and it is heard in the     *)
(* session paired with the one it was emitted in (RelaySignal).            *)
StaysInSession ==
    \A e \in emitted :
        LET from == sent[e.number].session IN
        IF from = "0" THEN e.session = "0"
        ELSE [localId |-> e.session, remoteId |-> from] \in e.pairs

(* The arguments come out as they went in, with and without compression    *)
(* (VectorToString, Body, Message, VectorFromString).                      *)
ArgumentsSurvive == \A e \in emitted : e.args = sent[e.number].args

(* Every signal a handler passes on is emitted on the other bus, with or   *)
(* without a session, except one the stand-in has no such signal for, one  *)
(* the bus refuses, and those that come when the stand-in is gone.         *)
SignalsArrive ==
    \A n \in 1 .. MaxSignals :
        n \in DOMAIN sent ~>
           \/ ~standIn \/ n \in refused \/ \E e \in emitted : e.number = n
           \/ n \in DOMAIN sent /\ sent[n].member \notin members
=============================================================================
