-------------------------- MODULE SignalRelay_proofs --------------------------
(***************************************************************************)
(* Theorems about SignalRelay, for any texts of arguments and bodies that  *)
(* keep a signal's session where it was, any number of sessions, signals   *)
(* and lists of arguments.                                                 *)
(***************************************************************************)
EXTENDS SignalRelay, SequenceTheorems, TLAPS

Texts == {ToBody(SignalText(s), c) : s \in Signals, c \in BOOLEAN}
Messages ==
    [type : {"response"}, session : Ids] \cup [type : {"signal"}, number : Nat, body : Texts]

(* What the messages on their way are made of.                             *)
TypesInv ==
    /\ sent \in Seq(Signals)
    /\ stream \in Seq(Messages)
    /\ compress \in BOOLEAN
    /\ m_activeSessions \subseteq [localId : Ids, remoteId : Ids]

(* A session of which the stand-in, while it exists, knows the pair.       *)
Paired(h) == standIn => \E p \in m_activeSessions : p.remoteId = h

(* A signal on its way is the one that was sent under its number, and its  *)
(* session stays known until it arrives: no session ends with signals on   *)
(* their way.                                                              *)
Faithful(m) ==
    m.type = "signal" =>
       /\ m.number \in DOMAIN sent
       /\ m.body = ToBody(SignalText(sent[m.number]), compress)
       /\ sent[m.number].session # "0" => Paired(sent[m.number].session)

StreamInv == \A i \in DOMAIN stream : Faithful(stream[i])

(* What was emitted had been sent, and was emitted where it belongs.       *)
EmittedInv ==
    \A e \in emitted :
       /\ e.number \in DOMAIN sent
       /\ IF sent[e.number].session = "0" THEN e.session = "0"
          ELSE [localId |-> e.session, remoteId |-> sent[e.number].session] \in e.pairs

IInv == TypesInv /\ StreamInv /\ EmittedInv

-----------------------------------------------------------------------------
(* A queue with one more, and one less, at its ends.                       *)
LEMMA Appended ==
    ASSUME NEW S, NEW s \in Seq(S), NEW x \in S
    PROVE  /\ Append(s, x) \in Seq(S) /\ Len(s) \in Nat
           /\ Len(s) + 1 \in DOMAIN Append(s, x) /\ Append(s, x)[Len(s) + 1] = x
           /\ \A i \in DOMAIN s : i \in DOMAIN Append(s, x) /\ Append(s, x)[i] = s[i]
           /\ \A i \in DOMAIN Append(s, x) : i \in DOMAIN s \/ i = Len(s) + 1
  OBVIOUS

LEMMA Taken ==
    ASSUME NEW S, NEW s \in Seq(S), s # <<>>
    PROVE  /\ Tail(s) \in Seq(S) /\ Head(s) \in S
           /\ 1 \in DOMAIN s /\ Head(s) = s[1]
           /\ \A i \in DOMAIN Tail(s) : i + 1 \in DOMAIN s /\ Tail(s)[i] = s[i + 1]
<1>1. Len(s) \in Nat \ {0}
  BY EmptySeq, Zenon
<1>2. QED BY <1>1

-----------------------------------------------------------------------------
(* A signal sent: its number is new, so the earlier ones keep theirs.      *)
LEMMA SignalSent ==
    ASSUME IInv, NEW new \in Signals, SendSignal(new), UNCHANGED <<standIn, m_activeSessions>>,
           new.session # "0" => Paired(new.session)
    PROVE  IInv'
<1>1. PICK msg : msg = [type |-> "signal", number |-> Len(sent) + 1,
                        body |-> ToBody(SignalText(new), compress)]
  OBVIOUS
<1>3. sent \in Seq(Signals) /\ stream \in Seq(Messages) /\ compress \in BOOLEAN
  BY DEF IInv, TypesInv
<1>4. msg \in Messages
  <2>1. Len(sent) + 1 \in Nat
    BY <1>3
  <2>2. ToBody(SignalText(new), compress) \in Texts
    BY <1>3 DEF Texts
  <2>3. QED BY <1>1, <2>1, <2>2 DEF Messages
<1>5. /\ msg.type = "signal" /\ msg.number = Len(sent) + 1
      /\ msg.body = ToBody(SignalText(new), compress)
  BY <1>1
<1>append. /\ sent' = Append(sent, new) /\ stream' = Append(stream, msg)
      /\ UNCHANGED <<compress, emitted>>
  BY <1>1 DEF SendSignal, options
<1>6. /\ sent' \in Seq(Signals) /\ Len(sent) + 1 \in DOMAIN sent' /\ sent'[Len(sent) + 1] = new
      /\ \A n \in DOMAIN sent : n \in DOMAIN sent' /\ sent'[n] = sent[n]
  BY <1>append, <1>3, Appended
<1>7. /\ stream' \in Seq(Messages) /\ stream'[Len(stream) + 1] = msg
      /\ \A i \in DOMAIN stream : stream'[i] = stream[i]
      /\ \A i \in DOMAIN stream' : i \in DOMAIN stream \/ i = Len(stream) + 1
  BY <1>append, <1>3, <1>4, Appended
<1>8. TypesInv'
  BY <1>append, <1>6, <1>7 DEF IInv, TypesInv
<1>same. compress' = compress /\ \A h : Paired(h) => Paired(h)'
  BY <1>append DEF Paired
<1>9. ASSUME NEW m, Faithful(m)
      PROVE  Faithful(m)'
  <2>1. CASE m.type = "signal"
    <3>1. m.number \in DOMAIN sent' /\ sent'[m.number] = sent[m.number]
      BY <1>6, <1>9, <2>1 DEF Faithful
    <3>2. QED BY <1>same, <1>9, <2>1, <3>1 DEF Faithful
  <2>2. QED BY <2>1 DEF Faithful
<1>10. Faithful(msg)'
  <2>1. msg.number \in DOMAIN sent' /\ sent'[msg.number] = new
    BY <1>5, <1>6
  <2>2. msg.body = ToBody(SignalText(sent'[msg.number]), compress')
    BY <1>same, <1>5, <2>1
  <2>3. new.session # "0" => Paired(new.session)'
    BY <1>same
  <2>4. QED BY <1>5, <2>1, <2>2, <2>3 DEF Faithful
<1>11. StreamInv'
  <2>1. ASSUME NEW i \in DOMAIN stream', NEW m, m = stream'[i]
        PROVE  Faithful(m)'
    <3>1. CASE i \in DOMAIN stream
      <4>1. m = stream[i]
        BY <1>7, <2>1, <3>1
      <4>2. Faithful(m)
        BY <3>1, <4>1 DEF IInv, StreamInv
      <4>3. QED BY <1>9, <4>2
    <3>2. CASE i = Len(stream) + 1
      <4>1. m = msg
        BY <1>7, <2>1, <3>2
      <4>2. QED BY <1>10, <4>1
    <3>3. QED BY <1>7, <3>1, <3>2
  <2>2. QED BY <2>1 DEF StreamInv
<1>12. EmittedInv'
  BY <1>append, <1>6 DEF IInv, EmittedInv
<1>13. QED BY <1>8, <1>11, <1>12 DEF IInv

(* A message of another kind appended.                                     *)
LEMMA ResponseSent ==
    ASSUME IInv, NEW h \in Ids, SendJoinResponse(h)
    PROVE  IInv'
<1> DEFINE msg == [type |-> "response", session |-> h]
<1>1. stream' = Append(stream, msg) /\ UNCHANGED <<sent, compress, emitted, standIn, m_activeSessions>>
  BY DEF SendJoinResponse, options
<1>2. msg \in Messages /\ msg.type = "response"
  BY DEF Messages
<1>3. stream \in Seq(Messages)
  BY DEF IInv, TypesInv
<1> HIDE DEF msg
<1>4. /\ stream' \in Seq(Messages) /\ stream'[Len(stream) + 1] = msg
      /\ \A i \in DOMAIN stream : stream'[i] = stream[i]
      /\ \A i \in DOMAIN stream' : i \in DOMAIN stream \/ i = Len(stream) + 1
  BY <1>1, <1>2, <1>3, Appended
<1>5. \A m : Faithful(m) => Faithful(m)'
  BY <1>1 DEF Faithful, Paired
<1>6. Faithful(msg)'
  BY <1>2 DEF Faithful
<1>7. StreamInv'
  BY <1>4, <1>5, <1>6 DEF IInv, StreamInv
<1>8. QED BY <1>1, <1>4, <1>7 DEF IInv, TypesInv, EmittedInv

(* A message taken: the rest of the stream is as it was.                   *)
LEMMA RestOfStream ==
    ASSUME TypesInv, StreamInv, TakeMessage, UNCHANGED <<sent, compress, standIn, m_activeSessions>>
    PROVE  TypesInv' /\ StreamInv' /\ Head(stream) \in Messages /\ Faithful(Head(stream))
<1>1. stream \in Seq(Messages) /\ stream # <<>> /\ stream' = Tail(stream)
  BY DEF TypesInv, TakeMessage
<1>2. /\ stream' \in Seq(Messages) /\ Head(stream) \in Messages
      /\ 1 \in DOMAIN stream /\ Head(stream) = stream[1]
      /\ \A i \in DOMAIN stream' : i + 1 \in DOMAIN stream /\ stream'[i] = stream[i + 1]
  BY <1>1, Taken
<1>3. \A m : Faithful(m) => Faithful(m)'
  BY DEF Faithful, Paired
<1>4. \A i \in DOMAIN stream' : Faithful(stream'[i])
  BY <1>2 DEF StreamInv
<1>5. QED BY <1>2, <1>3, <1>4 DEF TypesInv, StreamInv

(* A signal received is emitted in the session paired with its own, under  *)
(* the number it was sent under.                                           *)
LEMMA SignalRelayed ==
    ASSUME IInv, standIn, NEW m, m.type = "signal", Faithful(m), NEW e \in RelaySignal(m)
    PROVE  /\ e.number \in DOMAIN sent
           /\ IF sent[e.number].session = "0" THEN e.session = "0"
              ELSE [localId |-> e.session, remoteId |-> sent[e.number].session] \in e.pairs
<1> DEFINE s == sent[m.number]
           text == FromBody(m.body)
           session == IF text[2] = "0" THEN "0" ELSE GetLocalSessionId(text[2])
<1>1. /\ m.number \in DOMAIN sent
      /\ m.body = ToBody(SignalText(s), compress)
      /\ s.session # "0" => \E p \in m_activeSessions : p.remoteId = s.session
  BY DEF Faithful, Paired
<1>2. s \in Signals /\ compress \in BOOLEAN
  <2>1. sent \in Seq(Signals) /\ compress \in BOOLEAN
    BY DEF IInv, TypesInv
  <2>2. QED BY <1>1, <2>1
<1>3. text[2] = s.session
  BY <1>1, <1>2, TextAssumption
<1>4. e.number = m.number /\ e.session = session /\ e.pairs = m_activeSessions
  BY DEF RelaySignal, Relayed
<1>5. CASE s.session = "0"
  BY <1>1, <1>3, <1>4, <1>5
<1>6. CASE s.session # "0"
  <2> DEFINE pair == CHOOSE p \in m_activeSessions : p.remoteId = s.session
  <2>1. pair \in m_activeSessions /\ pair.remoteId = s.session
    BY <1>1, <1>6
  <2>2. session = pair.localId
    BY <1>1, <1>3, <1>6 DEF GetLocalSessionId, Known
  <2>3. pair = [localId |-> pair.localId, remoteId |-> s.session]
    BY <2>1 DEF IInv, TypesInv
  <2>4. QED BY <1>1, <1>4, <1>6, <2>1, <2>2, <2>3
<1>7. QED BY <1>5, <1>6

LEMMA SignalReceived ==
    ASSUME IInv, ReceiveSignal
    PROVE  IInv'
<1>1. /\ TakeMessage /\ Head(stream).type = "signal"
      /\ UNCHANGED <<sent, compress, standIn, m_activeSessions>>
      /\ emitted' \subseteq emitted \cup IF standIn THEN RelaySignal(Head(stream)) ELSE {}
  BY DEF ReceiveSignal, Receives, options
<1>2. TypesInv' /\ StreamInv' /\ Faithful(Head(stream))
  BY <1>1, RestOfStream DEF IInv
<1>3. ASSUME NEW e \in emitted'
      PROVE  /\ e.number \in DOMAIN sent
             /\ IF sent[e.number].session = "0" THEN e.session = "0"
                ELSE [localId |-> e.session, remoteId |-> sent[e.number].session] \in e.pairs
  <2>1. CASE e \in emitted
    BY <2>1 DEF IInv, EmittedInv
  <2>2. CASE e \notin emitted
    <3>1. standIn /\ e \in RelaySignal(Head(stream))
      BY <1>1, <1>3, <2>2
    <3>2. PICK m : m = Head(stream)
      OBVIOUS
    <3>3. QED BY <1>1, <1>2, <3>1, <3>2, SignalRelayed
  <2>3. QED BY <2>1, <2>2
<1>4. EmittedInv'
  BY <1>1, <1>3 DEF EmittedInv
<1>5. QED BY <1>2, <1>4 DEF IInv

(* Pairs come, and go only when nothing is on its way or with the stand-in.*)
LEMMA PairsChanged ==
    ASSUME IInv, UNCHANGED <<stream, sent, compress, emitted>>,
           m_activeSessions' \subseteq [localId : Ids, remoteId : Ids],
           \/ m_activeSessions \subseteq m_activeSessions' /\ standIn' = standIn
           \/ stream = <<>>
           \/ ~standIn'
    PROVE  IInv'
<1>1. \A i \in DOMAIN stream : Faithful(stream[i])'
  <2> SUFFICES ASSUME NEW i \in DOMAIN stream, NEW m, m = stream[i]
               PROVE  Faithful(m)'
    OBVIOUS
  <2>1. Faithful(m)
    BY DEF IInv, StreamInv
  <2>2. stream # <<>>
    OBVIOUS
  <2>3. QED BY <2>1, <2>2 DEF Faithful, Paired
<1>2. StreamInv'
  BY <1>1 DEF StreamInv
<1>3. QED BY <1>2 DEF IInv, TypesInv, EmittedInv

LEMMA StepHolds ==
    ASSUME Prompt, IInv, Next
    PROVE  IInv'
<1>1. ASSUME NEW h \in Ids, JoinSession(h)
      PROVE  IInv'
  <2>1. UNCHANGED <<stream, sent, compress, emitted, standIn, m_activeSessions>>
    BY <1>1 DEF JoinSession, options
  <2>2. QED BY <2>1, PairsChanged DEF IInv, TypesInv
<1>2. ASSUME NEW s \in Signals, AllJoynSignalHandler(s)
      PROVE  IInv'
  <2>1. /\ SendSignal(s) /\ UNCHANGED <<standIn, m_activeSessions>>
        /\ s.session # "0" => Paired(s.session)
    BY <1>2 DEF AllJoynSignalHandler, SendSignal, Known, Paired
  <2>2. QED BY <2>1, SignalSent
<1>3. ASSUME NEW s \in Signals, SessionlessSignalHandler(s)
      PROVE  IInv'
  <2>1. SendSignal(s) /\ UNCHANGED <<standIn, m_activeSessions>> /\ s.session = "0"
    BY <1>3 DEF SessionlessSignalHandler, SendSignal
  <2>2. QED BY <2>1, SignalSent
<1>4. ASSUME ReceiveJoinResponse
      PROVE  IInv'
  <2>1. TakeMessage /\ UNCHANGED <<sent, compress, emitted, standIn, m_activeSessions>>
    BY <1>4 DEF ReceiveJoinResponse, Receives, options
  <2>2. TypesInv' /\ StreamInv'
    BY <2>1, RestOfStream DEF IInv
  <2>3. QED BY <2>1, <2>2 DEF IInv, EmittedInv
<1>5. ASSUME NEW h \in Ids, NEW l \in Ids, SessionJoined(h, l)
      PROVE  IInv'
  <2>1. /\ UNCHANGED <<stream, sent, compress, emitted, standIn>>
        /\ m_activeSessions' = m_activeSessions \cup {[localId |-> l, remoteId |-> h]}
    BY <1>5 DEF SessionJoined, options
  <2>2. m_activeSessions' \subseteq [localId : Ids, remoteId : Ids]
    BY <2>1 DEF IInv, TypesInv
  <2>3. QED BY <2>1, <2>2, PairsChanged
<1>6. ASSUME NEW p \in m_activeSessions, SessionLost(p)
      PROVE  IInv'
  <2>1. /\ UNCHANGED <<stream, sent, compress, emitted, standIn>>
        /\ m_activeSessions' = m_activeSessions \ {p} /\ stream = <<>>
    BY <1>6 DEF SessionLost, Quiet, options
  <2>2. m_activeSessions' \subseteq [localId : Ids, remoteId : Ids]
    BY <2>1 DEF IInv, TypesInv
  <2>3. QED BY <2>1, <2>2, PairsChanged
<1>7. ASSUME DeleteStandIn
      PROVE  IInv'
  <2>1. UNCHANGED <<stream, sent, compress, emitted>> /\ m_activeSessions' = {} /\ ~standIn'
    BY <1>7 DEF DeleteStandIn, options
  <2>2. QED BY <2>1, PairsChanged
<1>8. QED BY <1>1, <1>2, <1>3, <1>4, <1>5, <1>6, <1>7, ResponseSent, SignalReceived DEF Next

(* What an application emits in a session is emitted on the other bus in   *)
(* the session paired with it, and what it emits without one in none: as   *)
(* long as both ends know a session before signals use it and no session   *)
(* ends with signals on their way, GetLocalSessionId finds the pair of     *)
(* every signal that arrives.                                              *)
THEOREM SignalsKeepTheirSession ==
    ASSUME Prompt
    PROVE  Spec => []StaysInSession
<1>1. Init => IInv
  BY DEF Init, IInv, TypesInv, StreamInv, EmittedInv
<1>2. IInv /\ [Next]_vars => IInv'
  <2>1. ASSUME IInv, UNCHANGED vars
        PROVE  IInv'
    BY <2>1 DEF vars, options, IInv, TypesInv, StreamInv, EmittedInv, Faithful, Paired
  <2>2. QED BY <2>1, StepHolds
<1>3. IInv => StaysInSession
  BY DEF IInv, EmittedInv, StaysInSession
<1>4. QED BY <1>1, <1>2, <1>3, PTL DEF Spec
===============================================================================
