--------------------------- MODULE SessionJoin_proofs ---------------------------
(***************************************************************************)
(* Theorems about SessionJoin.  The types and the counts that keep the ids *)
(* within their bounds hold whatever happens; the pairing of sessions when *)
(* an attachment has one joiner waiting at a time, answers come in time    *)
(* and the link loses nothing.                                             *)
(***************************************************************************)
EXTENDS SessionJoin, FiniteSetTheorems, WellFoundedInduction, SequenceTheorems, TLAPS

(* The places of the messages of a type in a mailbox.                      *)
At(box, type) == {i \in DOMAIN box : box[i].type = type}

Requests == At(toFar, "JoinRequest")
Records  == At(toFar, "SessionJoined")
Losses   == At(toFar, "SessionLost")
Answers  == At(toNear, "JoinResponse")
Endings  == At(toNear, "SessionLost")

FarMail  == JoinRequest \cup SessionJoined \cup SessionLost(Joiners)
NearMail == JoinResponse \cup SessionLost(Joinees)

Busy == {p \in Joinees \X Joiners : pc[p[1]][p[2]] # "idle"}

-----------------------------------------------------------------------------
(* Sessions are numbered in the order they are made, and there is at most  *)
(* one on each bus for every join asked for.                               *)
Numbered(made) ==
    /\ IsFiniteSet(made)
    /\ \A s \in made : s.id <= Cardinality(made)
    /\ \A s, t \in made : s.id = t.id => s = t

Numbers(made) == {s.id : s \in made}

CountInv ==
    /\ Numbered(nearSessions) /\ Numbered(farSessions)
    /\ nearLive \cup nearLost \subseteq Numbers(nearSessions)
    /\ farLive \cup farLost \subseteq Numbers(farSessions)
    /\ Cardinality(nearSessions) + Cardinality(Busy) <= joins
    /\ Cardinality(farSessions) + Cardinality(Requests)
          + (IF joining.status = "already" THEN 1 ELSE 0) <= joins

TypeInv == TypeOK /\ CountInv

-----------------------------------------------------------------------------
(* The listener of e waits for an answer to j.                             *)
Waits(e, j) == pc[e][j] \in {"waiting", "woken"}

Unanswered(e, j) ==
    Waits(e, j) /\ ~sessionJoinedSignalReceived[e] /\ remoteSessionId[e] = 0

(* At most one request for a joinee, or its answer, is under way, and its  *)
(* joiner waits for it.                                                    *)
AskInv ==
    /\ \A e \in Joinees : \A j, k \in Joiners : Waits(e, j) /\ Waits(e, k) => j = k
    /\ \A e \in Joinees : \A j \in Joiners :
          Waits(e, j) /\ ~sessionJoinedSignalReceived[e] => remoteSessionId[e] = 0
    /\ \A i \in Requests :
          /\ Unanswered(toFar[i].joinee, toFar[i].joiner)
          /\ \A k \in Requests : toFar[k].joinee = toFar[i].joinee => k = i
          /\ joining # NoJoin => joining.joinee # toFar[i].joinee
          /\ \A k \in Answers : toNear[k].joinee # toFar[i].joinee
    /\ joining # NoJoin =>
          /\ Unanswered(joining.joinee, joining.joiner)
          /\ \A k \in Answers : toNear[k].joinee # joining.joinee
          /\ joining.status = "fail" => joining.id = 0
    /\ \A i \in Answers :
          /\ Unanswered(toNear[i].joinee, toNear[i].joiner)
          /\ \A k \in Answers : toNear[k].joinee = toNear[i].joinee => k = i

(* The far session r, made for j with e, is on its way to the pairing.     *)
Carried(r, j, e) ==
    \/ joining.status = "ok" /\ joining.id = r /\ joining.joiner = j /\ joining.joinee = e
    \/ \E i \in Answers : toNear[i].id = r /\ toNear[i].joiner = j /\ toNear[i].joinee = e
    \/ Waits(e, j) /\ remoteSessionId[e] = r
    \/ pendingSessionJoiners[e][j] = r

Relayed(l, r) == [id |-> l, remoteId |-> r] \in relayed

BothMade(l, r, j, e) == MadeFor(nearSessions, l, j, e) /\ MadeFor(farSessions, r, j, e)

(* A pairing joins two sessions made for the same two applications, and no *)
(* session is in two pairings; a session on its way to a pairing is in     *)
(* none.                                                                   *)
FreshInv ==
    /\ joining.status # "already"
    /\ \A p \in relayed : \E j \in Joiners, e \in Joinees : BothMade(p.id, p.remoteId, j, e)
    /\ \A p, q \in relayed : p.id = q.id \/ p.remoteId = q.remoteId => p = q
    /\ \A r \in Ids, j \in Joiners, e \in Joinees :
          Carried(r, j, e) =>
              MadeFor(farSessions, r, j, e) /\ \A p \in relayed : p.remoteId # r

(* What a joinee's attachment records has been paired, is not over unless  *)
(* the attachment is about to hear of it, and is one session per joiner.   *)
HostedInv ==
    \A e \in Joinees :
        /\ \A s \in hosted[e] :
              /\ Relayed(s.id, s.remoteId) /\ BothMade(s.id, s.remoteId, s.peer, e)
              /\ s.id \in nearLive \cup nearLost
              /\ pc[e][s.peer] = "idle"
        /\ \A s, t \in hosted[e] : s.peer = t.peer => s = t

Hosted(e, l, j, r) == [id |-> l, peer |-> j, remoteId |-> r] \in hosted[e]

IsLoss(k, l, j) == toFar[k].id = l /\ toFar[k].peer = j

(* What a joiner's attachment records has been paired; the other side      *)
(* still has it, or the news that it is over is on its way.                *)
JoinedInv ==
    \A j \in Joiners :
        /\ \A s \in joined[j] :
              /\ Relayed(s.remoteId, s.id) /\ BothMade(s.remoteId, s.id, j, s.peer)
              /\ \/ Hosted(s.peer, s.remoteId, j, s.id)
                 \/ \E k \in Losses : IsLoss(k, s.remoteId, j)
        /\ \A s, t \in joined[j] : s.peer = t.peer => s = t

(* A pair on its way to the far connector is not recorded there yet, is on *)
(* its way once, and travels ahead of the news that its near session is    *)
(* over.                                                                   *)
RecordInv ==
    /\ \A i \in Records, m \in SessionJoined : toFar[i] = m =>
          /\ Relayed(m.localId, m.remoteId) /\ BothMade(m.localId, m.remoteId, m.joiner, m.joinee)
          /\ \/ Hosted(m.joinee, m.localId, m.joiner, m.remoteId)
             \/ \E k \in Losses : k > i /\ IsLoss(k, m.localId, m.joiner)
          /\ \A k \in Records : toFar[k].localId = m.localId => k = i
          /\ \A s \in joined[m.joiner] : s.remoteId # m.localId
    /\ \A k \in Losses :
          /\ toFar[k].id \in Numbers(nearSessions)
          /\ \A i \in Records : toFar[i].localId = toFar[k].id => i < k

(* Between two requests or records of the same two applications travels    *)
(* the news that the earlier session is over: the far connector forgets it *)
(* before it hears of the next.                                            *)
OrderInv ==
    \A i \in Requests \cup Records :
        /\ \A s \in joined[toFar[i].joiner] : s.peer = toFar[i].joinee =>
              \E k \in Losses : k < i /\ IsLoss(k, s.remoteId, toFar[i].joiner)
        /\ \A n \in Records :
              toFar[n].joiner = toFar[i].joiner /\ toFar[n].joinee = toFar[i].joinee =>
                 /\ n < i => \E k \in Losses : n < k /\ k < i
                                               /\ IsLoss(k, toFar[n].localId, toFar[i].joiner)
                 /\ i \in Requests => n < i

(* Before the near connector hears that a far session is over, the far one *)
(* has forgotten it.                                                       *)
EndingInv ==
    \A i \in Endings :
        /\ \E p \in relayed : p.remoteId = toNear[i].id
        /\ \A j \in Joiners : \A s \in joined[j] : s.id # toNear[i].id
        /\ \A k \in Records : toFar[k].remoteId # toNear[i].id

(* A far session that is up is on its way to a pairing, recorded, or on    *)
(* its way to be recorded: the far daemon has no session the connectors do *)
(* not know.                                                               *)
LiveInv ==
    /\ farLive \cap farLost = {}
    /\ \A s \in farSessions : s.id \in farLive =>
          \/ Carried(s.id, s.joiner, s.joinee)
          \/ \E t \in joined[s.joiner] : t.id = s.id
          \/ \E i \in Records : toFar[i].remoteId = s.id

PairInv ==
    AskInv /\ FreshInv /\ HostedInv /\ JoinedInv /\ RecordInv /\ OrderInv /\ EndingInv /\ LiveInv

-----------------------------------------------------------------------------
(* Lemmas about the helpers of the model.                                  *)


(* A set of numbers that is not empty has a smallest element.              *)
LEMMA Smallest ==
    ASSUME NEW T, T \subseteq Nat, T # {}
    PROVE  \E x \in T : \A y \in T : x <= y
<1>1. PICK x \in T : \A y \in T : <<y, x>> \notin OpToRel(<, Nat)
  BY NatLessThanWellFounded, WFMin, Zenon
<1>2. \A y \in T : ~(y < x)
  BY <1>1 DEF OpToRel
<1>3. QED BY <1>2

(* The search of the map of active sessions finds an entry if there is one *)
(* (GetLocalSessionId, GetSessionIdByPeer).                                *)
LEMMA FirstIdFound ==
    ASSUME NEW P, NEW found, found \subseteq Entry(P)
    PROVE  /\ FirstId(found) \in Ids0
           /\ found = {} => FirstId(found) = 0
           /\ found # {} => \E s \in found : FirstId(found) = s.id
<1>1. CASE found = {}
  BY <1>1, ConstantsAssumption DEF FirstId, Ids0
<1>2. CASE found # {}
  <2> DEFINE T == {s.id : s \in found}
             first == CHOOSE s \in found : \A t \in found : s.id <= t.id
  <2>1. \A s \in found : s.id \in Nat /\ s.id \in Ids0
    BY ConstantsAssumption DEF Entry, Ids, Ids0
  <2>2. T \subseteq Nat /\ T # {}
    BY <1>2, <2>1
  <2>3. PICK x \in T : \A y \in T : x <= y
    BY <2>2, Smallest
  <2>4. \E s \in found : \A t \in found : s.id <= t.id
    BY <2>3
  <2>5. first \in found
    BY <2>4
  <2>6. FirstId(found) = first.id
    BY <1>2 DEF FirstId
  <2>7. QED BY <1>2, <2>1, <2>5, <2>6
<1>3. QED BY <1>1, <1>2

(* A message appended to a box is its last; the others stay in place.      *)
LEMMA Appended ==
    ASSUME NEW M, NEW box \in Seq(M), NEW m \in M, NEW type
    PROVE  /\ Append(box, m) \in Seq(M)
           /\ \A i \in At(box, type) : i \in Nat /\ 0 < i /\ i <= Len(box)
           /\ Append(box, m)[Len(box) + 1] = m
           /\ \A i \in At(box, type) : Append(box, m)[i] = box[i]
           /\ m.type = type =>
                 At(Append(box, m), type) = At(box, type) \cup {Len(box) + 1}
           /\ m.type # type => At(Append(box, m), type) = At(box, type)
  BY DEF At

(* The first message of a box is taken; the others move up.                *)
LEMMA Taken ==
    ASSUME NEW M, NEW box \in Seq(M), box # <<>>, NEW type
    PROVE  /\ Tail(box) \in Seq(M) /\ Head(box) \in M /\ Head(box) = box[1]
           /\ 1 \in DOMAIN box
           /\ \A i \in At(box, type) : i \in Nat /\ 0 < i
           /\ Head(box).type = type <=> 1 \in At(box, type)
           /\ \A i \in At(Tail(box), type) :
                 i \in Nat /\ 0 < i /\ i + 1 \in At(box, type) /\ Tail(box)[i] = box[i + 1]
           /\ \A i \in At(box, type) :
                 i # 1 => i - 1 \in At(Tail(box), type) /\ Tail(box)[i - 1] = box[i]
<1>1. /\ DOMAIN box = 1 .. Len(box) /\ Len(box) \in Nat \ {0} /\ Head(box) = box[1]
      /\ DOMAIN Tail(box) = 1 .. Len(box) - 1
      /\ \A i \in 1 .. Len(box) - 1 : Tail(box)[i] = box[i + 1]
  <2>1. Len(box) \in Nat \ {0}
    BY EmptySeq, Zenon
  <2>2. QED BY <2>1
<1>2. Tail(box) \in Seq(M) /\ Head(box) \in M
  OBVIOUS
<1>3. QED BY <1>1, <1>2 DEF At

(* A box holds finitely many messages of a kind.                           *)
LEMMA BoxesAreFinite ==
    ASSUME NEW M, NEW box \in Seq(M), NEW type
    PROVE  IsFiniteSet(At(box, type)) /\ Cardinality(At(box, type)) \in Nat
<1>1. At(box, type) \subseteq 1 .. Len(box) /\ Len(box) \in Nat
  BY DEF At
<1>2. IsFiniteSet(1 .. Len(box))
  BY <1>1, FS_Interval
<1>3. QED BY <1>1, <1>2, FS_Subset, FS_CardinalityType

(* A message appended to a box adds one to those of its kind.              *)
LEMMA CountAppended ==
    ASSUME NEW M, NEW box \in Seq(M), NEW m \in M, NEW type
    PROVE  Cardinality(At(Append(box, m), type))
             = Cardinality(At(box, type)) + (IF m.type = type THEN 1 ELSE 0)
<1>1. Len(box) + 1 \notin At(box, type)
  BY DEF At
<1>2. CASE m.type = type
  <2>1. At(Append(box, m), type) = At(box, type) \cup {Len(box) + 1}
    BY <1>2, Appended
  <2>2. IsFiniteSet(At(box, type)) /\ Cardinality(At(box, type)) \in Nat
    BY BoxesAreFinite
  <2>3. Cardinality(At(box, type) \cup {Len(box) + 1}) = Cardinality(At(box, type)) + 1
    BY <1>1, <2>2, FS_AddElement
  <2>4. QED BY <1>2, <2>1, <2>3
<1>3. CASE m.type # type
  <2>1. At(Append(box, m), type) = At(box, type)
    BY <1>3 DEF At
  <2>2. QED BY <1>3, <2>1, BoxesAreFinite
<1>4. QED BY <1>2, <1>3

(* The first message of a box, taken, is one less of its kind.             *)
LEMMA CountTaken ==
    ASSUME NEW M, NEW box \in Seq(M), box # <<>>, NEW type
    PROVE  Cardinality(At(Tail(box), type))
             = Cardinality(At(box, type)) - (IF Head(box).type = type THEN 1 ELSE 0)
<1> DEFINE old == At(box, type) \ {1}
           new == At(Tail(box), type)
           up  == [i \in new |-> i + 1]
<1>1. up \in Bijection(new, old)
  <2>1. up \in [new -> old]
    BY Taken
  <2>2. \A i, k \in new : up[i] = up[k] => i = k
    BY Taken
  <2>3. \A i \in old : \E k \in new : up[k] = i
    <3> TAKE i \in old
    <3>1. i - 1 \in new /\ i \in Nat
      BY Taken
    <3>2. up[i - 1] = i
      BY <3>1
    <3>3. QED BY <3>1, <3>2
  <2>4. QED BY <2>1, <2>2, <2>3, Zenon DEF Bijection, Injection, Surjection, IsInjective
<1>2. IsFiniteSet(new) /\ Cardinality(old) = Cardinality(new)
  <2>1. IsFiniteSet(new)
    BY Taken, BoxesAreFinite
  <2>2. QED BY <1>1, <2>1, FS_Bijection, Zenon DEF ExistsBijection
<1>3. Cardinality(old) = Cardinality(At(box, type)) - (IF 1 \in At(box, type) THEN 1 ELSE 0)
  <2>1. IsFiniteSet(At(box, type))
    BY BoxesAreFinite
  <2>2. CASE 1 \in At(box, type)
    BY <2>1, <2>2, FS_RemoveElement
  <2>3. CASE 1 \notin At(box, type)
    <3>1. old = At(box, type)
      BY <2>3
    <3>2. Cardinality(At(box, type)) \in Nat
      BY BoxesAreFinite
    <3>3. QED BY <2>3, <3>1, <3>2, SMTT(30)
  <2>4. QED BY <2>2, <2>3
<1>4. QED BY <1>2, <1>3, Taken

(* A joiner's place, or the session it is to get, is set.                  *)
LEMMA PcSet ==
    ASSUME pc \in [Joinees -> [Joiners -> PC]],
           NEW e \in Joinees, NEW j \in Joiners, NEW v \in PC,
           pc' = [pc EXCEPT ![e][j] = v]
    PROVE  /\ pc' \in [Joinees -> [Joiners -> PC]]
           /\ \A f \in Joinees, k \in Joiners :
                 pc'[f][k] = IF f = e /\ k = j THEN v ELSE pc[f][k]
  OBVIOUS

(* The remote id an attachment keeps for a joiner is set.                  *)
LEMMA PendingSet ==
    ASSUME pendingSessionJoiners \in [Joinees -> [Joiners -> Ids0]],
           NEW e \in Joinees, NEW j \in Joiners, NEW v \in Ids0,
           pendingSessionJoiners' = [pendingSessionJoiners EXCEPT ![e][j] = v]
    PROVE  /\ pendingSessionJoiners' \in [Joinees -> [Joiners -> Ids0]]
           /\ \A f \in Joinees, k \in Joiners :
                 pendingSessionJoiners'[f][k]
                   = IF f = e /\ k = j THEN v ELSE pendingSessionJoiners[f][k]
  OBVIOUS

(* The next session a daemon makes has a number of its own.                *)
LEMMA NextNumber ==
    ASSUME NEW made, Numbered(made), made \subseteq Session,
           NEW s, s.id = Cardinality(made) + 1
    PROVE  /\ Cardinality(made) \in Nat
           /\ Numbered(made \cup {s})
           /\ Cardinality(made \cup {s}) = Cardinality(made) + 1
           /\ s.id \notin Numbers(made)
           /\ Numbers(made \cup {s}) = Numbers(made) \cup {s.id}
<1>1. IsFiniteSet(made) /\ Cardinality(made) \in Nat
  BY FS_CardinalityType DEF Numbered
<1>2. \A t \in made : t.id \in Nat /\ t.id <= Cardinality(made)
  BY ConstantsAssumption DEF Numbered, Session, Ids
<1>3. s \notin made /\ s.id \notin Numbers(made)
  BY <1>1, <1>2 DEF Numbers
<1>4. IsFiniteSet(made \cup {s}) /\ Cardinality(made \cup {s}) = Cardinality(made) + 1
  BY <1>1, <1>3, FS_AddElement
<1>5. \A t \in made \cup {s} : t.id <= Cardinality(made) + 1
  BY <1>1, <1>2
<1>6. \A t, u \in made \cup {s} : t.id = u.id => t = u
  BY <1>1, <1>2 DEF Numbered
<1>7. QED BY <1>1, <1>3, <1>4, <1>5, <1>6 DEF Numbered, Numbers

(* Finitely many callbacks run at a time.                                  *)
LEMMA BusyIsFinite ==
    IsFiniteSet(Busy) /\ Cardinality(Busy) \in Nat
<1>1. IsFiniteSet(Joinees \X Joiners)
  BY ConstantsAssumption, FS_Product
<1>2. Busy \in SUBSET (Joinees \X Joiners)
  BY DEF Busy
<1>3. IsFiniteSet(Busy)
  BY <1>1, <1>2, FS_Subset
<1>4. QED BY <1>3, FS_CardinalityType

(* A callback that begins adds one to those that run; one that goes on or  *)
(* returns adds none.                                                      *)
LEMMA BusySteps ==
    ASSUME pc \in [Joinees -> [Joiners -> PC]],
           NEW e \in Joinees, NEW j \in Joiners, NEW v,
           pc' = [pc EXCEPT ![e][j] = v]
    PROVE  /\ IsFiniteSet(Busy) /\ Cardinality(Busy) \in Nat
           /\ IsFiniteSet(Busy') /\ Cardinality(Busy') \in Nat
           /\ Cardinality(Busy') <= Cardinality(Busy) + 1
           /\ v = "idle" \/ pc[e][j] # "idle" => Cardinality(Busy') <= Cardinality(Busy)
           /\ v = "idle" /\ pc[e][j] # "idle" =>
                 Cardinality(Busy) > 0 /\ Cardinality(Busy') = Cardinality(Busy) - 1
<1>1. \A p \in Joinees \X Joiners :
         pc'[p[1]][p[2]] = IF p = <<e, j>> THEN v ELSE pc[p[1]][p[2]]
  OBVIOUS
<1>2. IsFiniteSet(Busy) /\ Cardinality(Busy) \in Nat
  BY BusyIsFinite
<1>3. CASE v # "idle"
  <2>1. Busy' = Busy \cup {<<e, j>>}
    BY <1>1, <1>3 DEF Busy
  <2>2. IsFiniteSet(Busy') /\ Cardinality(Busy') \in Nat
    BY <1>2, <2>1, FS_AddElement, FS_CardinalityType
  <2>3. pc[e][j] # "idle" => <<e, j>> \in Busy
    BY DEF Busy
  <2>4. Cardinality(Busy') = IF <<e, j>> \in Busy THEN Cardinality(Busy) ELSE Cardinality(Busy) + 1
    BY <1>2, <2>1, FS_AddElement
  <2>5. QED BY <1>2, <1>3, <2>2, <2>3, <2>4
<1>4. CASE v = "idle"
  <2>1. Busy' = Busy \ {<<e, j>>}
    BY <1>1, <1>4 DEF Busy
  <2>2. IsFiniteSet(Busy') /\ Cardinality(Busy') \in Nat
    BY <1>2, <2>1, FS_RemoveElement, FS_CardinalityType
  <2>3. pc[e][j] # "idle" => <<e, j>> \in Busy
    BY DEF Busy
  <2>4. Cardinality(Busy') = IF <<e, j>> \in Busy THEN Cardinality(Busy) - 1 ELSE Cardinality(Busy)
    BY <1>2, <2>1, FS_RemoveElement
  <2>5. QED BY <1>2, <2>2, <2>3, <2>4
<1>5. QED BY <1>3, <1>4

(* The actions Next is made of.                                            *)
LEMMA StepCases ==
    ASSUME Next
    PROVE  \/ \E e \in Joinees, j \in Joiners :
                 \/ AcceptSessionJoiner(e, j) \/ WakeSpuriously(e, j) \/ Wake(e, j)
                 \/ TimeOut(e, j) \/ ListenerSessionJoined(e, j)
           \/ \E id \in Ids : \/ JoinerLeaves(id) \/ NearSessionLost(id)
                              \/ JoineeLeaves(id) \/ FarSessionLost(id)
           \/ ReceiveJoinResponse \/ NearReceiveSessionLost
           \/ ReceiveJoinRequest \/ AnswerJoin \/ ReceiveSessionJoined
           \/ FarReceiveSessionLost \/ LoseSessionLost
  BY DEF Next, Caller, NearXmppThread, FarXmppThread

(* Every step keeps the types, and the counts of sessions and joins.       *)
LEMMA StepTypes ==
    ASSUME TypeInv, Next
    PROVE  TypeInv'
<1> USE ConstantsAssumption
        DEF TypeInv, listener, near, far, nearBus, farBus, link, Requests
<1>0. /\ toFar \in Seq(FarMail) /\ toNear \in Seq(NearMail)
      /\ Cardinality(nearSessions) \in Nat /\ Cardinality(farSessions) \in Nat
      /\ Cardinality(Busy) \in Nat /\ Cardinality(Requests) \in Nat
      /\ joins \in Nat
  <2>1. toFar \in Seq(FarMail) /\ toNear \in Seq(NearMail)
    BY DEF TypeOK, FarMail, NearMail
  <2>2. QED
    BY <2>1, BusyIsFinite, BoxesAreFinite, FS_CardinalityType DEF CountInv, Numbered, TypeOK
<1>1. ASSUME NEW e \in Joinees, NEW j \in Joiners, AcceptSessionJoiner(e, j) PROVE TypeInv'
  <2> DEFINE m == [type |-> "JoinRequest", joinee |-> e, joiner |-> j]
  <2>1. m \in FarMail /\ m.type = "JoinRequest"
    BY DEF FarMail, JoinRequest
  <2>2. toFar' \in Seq(FarMail) /\ Cardinality(Requests') = Cardinality(Requests) + 1
    BY <1>0, <1>1, <2>1, CountAppended DEF AcceptSessionJoiner
  <2>3. Cardinality(Busy') \in Nat /\ Cardinality(Busy') <= Cardinality(Busy) + 1
    BY <1>1, BusySteps DEF AcceptSessionJoiner, TypeOK
  <2>4. TypeOK'
    <3>1. /\ pc' \in [Joinees -> [Joiners -> PC]]
          /\ \A f \in Joinees, k \in Joiners : pc'[f][k] = "accepted" <=> pc[f][k] = "accepted"
      <4>1. "waiting" \in PC /\ pc[e][j] = "idle" /\ pc' = [pc EXCEPT ![e][j] = "waiting"]
        BY <1>1 DEF AcceptSessionJoiner, PC
      <4>2. /\ pc' \in [Joinees -> [Joiners -> PC]]
            /\ \A f \in Joinees, k \in Joiners :
                  pc'[f][k] = IF f = e /\ k = j THEN "waiting" ELSE pc[f][k]
        BY <4>1, PcSet DEF TypeOK
      <4>3. ASSUME NEW f \in Joinees, NEW k \in Joiners
            PROVE  pc'[f][k] = "accepted" <=> pc[f][k] = "accepted"
        <5>1. CASE f = e /\ k = j
          BY <4>1, <4>2, <5>1
        <5>2. CASE ~(f = e /\ k = j)
          BY <4>2, <5>2
        <5>3. QED BY <5>1, <5>2
      <4>4. QED BY <4>2, <4>3, Zenon
    <3>2. \A f \in Joinees, k \in Joiners :
             pc'[f][k] = "accepted" <=> pendingSessionJoiners'[f][k] # 0
      BY <1>1, <3>1 DEF AcceptSessionJoiner, TypeOK
    <3>3. /\ sessionJoinedSignalReceived' \in [Joinees -> BOOLEAN]
          /\ remoteSessionId' \in [Joinees -> Ids0]
          /\ joins' \in 0 .. MaxJoins
      BY <1>1 DEF AcceptSessionJoiner, TypeOK, Ids0
    <3>4. UNCHANGED <<pendingSessionJoiners, hosted, tracker, joining, joined, nearSessions,
                      farSessions, nearLive, farLive, nearLost, farLost, toNear, relayed>>
      BY <1>1 DEF AcceptSessionJoiner
    <3>5. toFar' \in Seq(JoinRequest \cup SessionJoined \cup SessionLost(Joiners))
      BY <2>2 DEF FarMail
    <3>6. TypeOK
      OBVIOUS
    <3> HIDE DEF TypeInv
    <3>7. QED BY <3>1, <3>2, <3>3, <3>4, <3>5, <3>6 DEF TypeOK
  <2>5. CountInv'
    <3>1. /\ UNCHANGED <<joining, nearSessions, farSessions, nearLive, farLive, nearLost, farLost>>
          /\ joins' = joins + 1
      BY <1>1 DEF AcceptSessionJoiner
    <3>2. CountInv
      OBVIOUS
    <3> HIDE DEF TypeInv, Requests
    <3>3. /\ Cardinality(nearSessions') + Cardinality(Busy') <= joins'
          /\ Cardinality(farSessions') + Cardinality(Requests')
                + (IF joining'.status = "already" THEN 1 ELSE 0) <= joins'
      BY <1>0, <2>2, <2>3, <3>1, <3>2, SMTT(30) DEF CountInv
    <3>4. QED BY <3>1, <3>2, <3>3 DEF CountInv
  <2>6. QED BY <2>4, <2>5
<1>2. ASSUME NEW e \in Joinees, NEW j \in Joiners, Wake(e, j) \/ TimeOut(e, j) \/ WakeSpuriously(e, j)
      PROVE TypeInv'
  <2>1. PICK v \in PC : pc' = [pc EXCEPT ![e][j] = v]
    BY <1>2 DEF Wake, TimeOut, WakeSpuriously, Decide, PC
  <2>2. pc[e][j] # "idle"
    BY <1>2 DEF Wake, TimeOut, WakeSpuriously
  <2>3. Cardinality(Busy') \in Nat /\ Cardinality(Busy') <= Cardinality(Busy)
    BY <2>1, <2>2, BusySteps DEF TypeOK
  <2>4. TypeOK'
    <3>1. CASE pc' = [pc EXCEPT ![e][j] = "accepted"] /\ remoteSessionId[e] # 0
               /\ pendingSessionJoiners' = [pendingSessionJoiners EXCEPT ![e][j] = remoteSessionId[e]]
      <4>1. /\ pc' \in [Joinees -> [Joiners -> PC]]
            /\ \A f \in Joinees, k \in Joiners :
                  pc'[f][k] = IF f = e /\ k = j THEN "accepted" ELSE pc[f][k]
        <5>1. "accepted" \in PC
          BY DEF PC
        <5>2. QED BY <3>1, <5>1, PcSet DEF TypeOK
      <4>2. /\ pendingSessionJoiners' \in [Joinees -> [Joiners -> Ids0]]
            /\ \A f \in Joinees, k \in Joiners :
                  pendingSessionJoiners'[f][k]
                    = IF f = e /\ k = j THEN remoteSessionId[e] ELSE pendingSessionJoiners[f][k]
        BY <3>1, PendingSet DEF TypeOK
      <4>3. QED BY <1>2, <3>1, <4>1, <4>2 DEF Wake, TimeOut, WakeSpuriously, TypeOK
    <3>2. CASE /\ \E p \in PC \ {"accepted"} : pc' = [pc EXCEPT ![e][j] = p]
               /\ UNCHANGED pendingSessionJoiners
      <4>1. pc[e][j] # "accepted"
        BY <1>2 DEF Wake, TimeOut, WakeSpuriously
      <4>2. /\ pc' \in [Joinees -> [Joiners -> PC]]
            /\ \A f \in Joinees, k \in Joiners : pc'[f][k] = "accepted" <=> pc[f][k] = "accepted"
        BY <3>2, <4>1, PcSet DEF TypeOK
      <4>3. QED BY <1>2, <3>2, <4>2 DEF Wake, TimeOut, WakeSpuriously, TypeOK
    <3>3. QED BY <1>2, <3>1, <3>2 DEF Wake, TimeOut, WakeSpuriously, Decide, PC
  <2>5. CountInv'
    BY <1>0, <1>2, <2>3 DEF Wake, TimeOut, WakeSpuriously, CountInv
  <2>6. QED BY <2>4, <2>5
<1>3. ASSUME NEW e \in Joinees, NEW j \in Joiners, ListenerSessionJoined(e, j) PROVE TypeInv'
  <2> DEFINE n == Cardinality(nearSessions) + 1
             r == pendingSessionJoiners[e][j]
             s == [id |-> n, joiner |-> j, joinee |-> e]
             m == [type |-> "SessionJoined", joiner |-> j, joinee |-> e,
                   remoteId |-> r, localId |-> n]
  <2>1. Cardinality(Busy) > 0 /\ Cardinality(Busy') = Cardinality(Busy) - 1
        /\ Cardinality(Busy') \in Nat
    BY <1>3, BusySteps DEF ListenerSessionJoined, TypeOK
  <2>2. n \in Ids /\ r \in Ids
    <3>1. n <= MaxJoins
      BY <1>0, <2>1 DEF CountInv, TypeOK
    <3>2. r \in Ids0 /\ r # 0
      BY <1>3 DEF ListenerSessionJoined, TypeOK
    <3>3. QED BY <1>0, <3>1, <3>2 DEF Ids, Ids0
  <2>3. m \in FarMail /\ m.type = "SessionJoined"
    BY <2>2 DEF FarMail, SessionJoined
  <2>4. toFar' \in Seq(FarMail) /\ Cardinality(Requests') = Cardinality(Requests)
    BY <1>0, <1>3, <2>3, CountAppended DEF ListenerSessionJoined
  <2>5. /\ Numbered(nearSessions') /\ Cardinality(nearSessions') = n
        /\ Numbers(nearSessions') = Numbers(nearSessions) \cup {n}
    <3>1. nearSessions' = nearSessions \cup {s} /\ s.id = n
      BY <1>3 DEF ListenerSessionJoined
    <3>2. Numbered(nearSessions) /\ nearSessions \subseteq Session
      BY DEF CountInv, TypeOK
    <3>3. QED BY <3>1, <3>2, NextNumber
  <2>6. TypeOK'
    <3>1. hosted' \in [Joinees -> SUBSET Entry(Joiners)]
      BY <1>3, <2>2 DEF ListenerSessionJoined, TypeOK, AddSession, RemoveSession, Entry
    <3>2. nearSessions' \subseteq Session /\ nearLive' \subseteq Ids
          /\ relayed' \subseteq [id : Ids, remoteId : Ids]
      BY <1>3, <2>2 DEF ListenerSessionJoined, TypeOK, Session
    <3>3. /\ pc' \in [Joinees -> [Joiners -> PC]]
          /\ pendingSessionJoiners' \in [Joinees -> [Joiners -> Ids0]]
          /\ \A f \in Joinees, k \in Joiners :
                pc'[f][k] = "accepted" <=> pendingSessionJoiners'[f][k] # 0
      <4>1. "idle" \in PC /\ 0 \in Ids0
        BY DEF PC, Ids0
      <4>2. /\ pc' \in [Joinees -> [Joiners -> PC]]
            /\ \A f \in Joinees, k \in Joiners :
                  pc'[f][k] = IF f = e /\ k = j THEN "idle" ELSE pc[f][k]
        BY <1>3, <4>1, PcSet DEF ListenerSessionJoined, TypeOK
      <4>3. /\ pendingSessionJoiners' \in [Joinees -> [Joiners -> Ids0]]
            /\ \A f \in Joinees, k \in Joiners :
                  pendingSessionJoiners'[f][k]
                    = IF f = e /\ k = j THEN 0 ELSE pendingSessionJoiners[f][k]
        BY <1>3, <4>1, PendingSet DEF ListenerSessionJoined, TypeOK
      <4>4. QED BY <4>2, <4>3 DEF TypeOK
    <3>4. QED
      BY <1>3, <2>4, <3>1, <3>2, <3>3 DEF ListenerSessionJoined, TypeOK, FarMail
  <2>7. CountInv'
    <3>1. /\ UNCHANGED <<farSessions, farLive, farLost, joining, joins, nearLost>>
          /\ nearLive' = nearLive \cup {n}
      BY <1>3 DEF ListenerSessionJoined
    <3>2. Cardinality(nearSessions') + Cardinality(Busy') <= joins'
      BY <1>0, <2>1, <2>5, <3>1 DEF CountInv
    <3>3. QED BY <2>4, <2>5, <3>1, <3>2 DEF CountInv
  <2>8. QED BY <2>6, <2>7
<1>4. ASSUME NEW id \in Ids, JoinerLeaves(id) \/ JoineeLeaves(id) PROVE TypeInv'
  BY <1>4 DEF JoinerLeaves, JoineeLeaves, TypeOK, CountInv, Busy
<1>5. ASSUME NEW id \in Ids, NearSessionLost(id) PROVE TypeInv'
  <2> DEFINE e == (CHOOSE s \in nearSessions : s.id = id).joinee
             known == {s \in hosted[e] : s.id = id}
             m == [type |-> "SessionLost", id |-> id, peer |-> (CHOOSE s \in known : TRUE).peer]
  <2>1. e \in Joinees
    BY <1>5 DEF NearSessionLost, CountInv, TypeOK, Numbers, Session
  <2>2. known # {} => m \in FarMail /\ m.type = "SessionLost"
    BY <2>1 DEF FarMail, SessionLost, TypeOK, Entry
  <2>3. toFar' \in Seq(FarMail) /\ Cardinality(Requests') = Cardinality(Requests)
    <3>1. toFar' = toFar \/ (known # {} /\ toFar' = Append(toFar, m))
      BY <1>5 DEF NearSessionLost
    <3>2. CASE toFar' = toFar
      BY <1>0, <3>2
    <3>3. CASE known # {} /\ toFar' = Append(toFar, m)
      BY <1>0, <2>2, <3>3, Appended, CountAppended
    <3>4. QED BY <3>1, <3>2, <3>3
  <2>4. TypeOK'
    BY <1>5, <2>1, <2>3 DEF NearSessionLost, TypeOK, RemoveSession, FarMail
  <2>5. CountInv'
    BY <1>0, <1>5, <2>3 DEF NearSessionLost, CountInv, Busy
  <2>6. QED BY <2>4, <2>5
<1>6. ASSUME NEW id \in Ids, FarSessionLost(id) PROVE TypeInv'
  <2> DEFINE j == (CHOOSE s \in farSessions : s.id = id).joiner
             known == {s \in joined[j] : s.id = id}
             m == [type |-> "SessionLost", id |-> id, peer |-> (CHOOSE s \in known : TRUE).peer]
  <2>1. j \in Joiners
    BY <1>6 DEF FarSessionLost, CountInv, TypeOK, Numbers, Session
  <2>2. known # {} => m \in NearMail
    BY <2>1 DEF NearMail, SessionLost, TypeOK, Entry
  <2>3. toNear' \in Seq(NearMail)
    BY <1>0, <1>6, <2>2, Appended DEF FarSessionLost
  <2>4. TypeOK'
    BY <1>6, <2>1, <2>3 DEF FarSessionLost, TypeOK, RemoveSession, NearMail
  <2>5. CountInv'
    BY <1>0, <1>6 DEF FarSessionLost, CountInv, Busy
  <2>6. QED BY <2>4, <2>5
<1>7. ASSUME ReceiveJoinResponse PROVE TypeInv'
  <2>1. /\ toNear' \in Seq(NearMail)
        /\ Head(toNear).joinee \in Joinees /\ Head(toNear).id \in Ids0
    BY <1>0, <1>7, Taken DEF ReceiveJoinResponse, NearMail, JoinResponse, SessionLost
  <2>2. /\ pc' \in [Joinees -> [Joiners -> PC]]
        /\ \A e \in Joinees, j \in Joiners : /\ pc'[e][j] = "accepted" <=> pc[e][j] = "accepted"
                                             /\ pc'[e][j] = "idle" <=> pc[e][j] = "idle"
    <3>1. CASE pc' = pc
      BY <3>1 DEF TypeOK
    <3>2. ASSUME NEW j \in Joiners, pc[Head(toNear).joinee][j] = "waiting",
                 pc' = [pc EXCEPT ![Head(toNear).joinee][j] = "woken"]
          PROVE  /\ pc' \in [Joinees -> [Joiners -> PC]]
                 /\ \A e \in Joinees, k \in Joiners :
                       /\ pc'[e][k] = "accepted" <=> pc[e][k] = "accepted"
                       /\ pc'[e][k] = "idle" <=> pc[e][k] = "idle"
      <4>1. "woken" \in PC
        BY DEF PC
      <4>2. QED BY <2>1, <3>2, <4>1, PcSet DEF TypeOK
    <3>3. QED BY <1>7, <3>1, <3>2 DEF ReceiveJoinResponse
  <2>3. TypeOK'
    BY <1>7, <2>1, <2>2 DEF ReceiveJoinResponse, TypeOK, NearMail
  <2>4. CountInv'
    BY <1>0, <1>7, <2>2 DEF ReceiveJoinResponse, CountInv, Busy
  <2>5. QED BY <2>3, <2>4
<1>8. ASSUME NearReceiveSessionLost PROVE TypeInv'
  <2>1. toNear' \in Seq(NearMail) /\ Head(toNear).peer \in Joinees
    BY <1>0, <1>8, Taken DEF NearReceiveSessionLost, NearMail, JoinResponse, SessionLost
  <2>2. TypeOK'
    BY <1>8, <2>1 DEF NearReceiveSessionLost, TypeOK, RemoveSession, NearMail
  <2>3. CountInv'
    BY <1>0, <1>8 DEF NearReceiveSessionLost, CountInv, Busy
  <2>4. QED BY <2>2, <2>3
<1>9. ASSUME ReceiveJoinRequest PROVE TypeInv'
  <2>1. /\ toFar' \in Seq(FarMail) /\ joining = NoJoin
        /\ Head(toFar).joinee \in Joinees /\ Head(toFar).joiner \in Joiners
        /\ Cardinality(Requests') = Cardinality(Requests) - 1
    BY <1>0, <1>9, Taken, CountTaken
       DEF ReceiveJoinRequest, Available, FarMail, JoinRequest, SessionJoined, SessionLost
  <2>2. Cardinality(Requests') \in Nat
    BY <2>1, BoxesAreFinite
  <2>3. Cardinality(farSessions) + 1 \in Ids
    BY <1>0, <2>1, <2>2 DEF CountInv, TypeOK, NoJoin, Ids
  <2>4. PICK a \in JoinSession(farLive, Head(toFar).joiner, Head(toFar).joinee) :
           /\ joining' = a
           /\ farSessions' = farSessions \cup MadeBy(a)
           /\ farLive' = farLive \cup {s.id : s \in MadeBy(a)}
    BY <1>9 DEF ReceiveJoinRequest
  <2> DEFINE e == Head(toFar).joinee
             j == Head(toFar).joiner
  <2>5. a \in Joining /\ (a.status = "ok" => UpWith(farLive, j, e) = {}
                                             /\ a = [status |-> "ok", joiner |-> j, joinee |-> e,
                                                     id |-> Cardinality(farSessions) + 1])
    <3>1. UpWith(farLive, j, e) \subseteq Ids /\ 0 \in Ids0 /\ Ids \subseteq Ids0
      <4>1. UpWith(farLive, j, e) \subseteq farLive /\ farLive \subseteq Ids
        BY DEF UpWith, TypeOK
      <4>2. MaxJoins \in Nat
        OBVIOUS
      <4>3. 0 \in Ids0 /\ Ids \subseteq Ids0
        BY <4>2 DEF Ids, Ids0
      <4>4. QED BY <4>1, <4>3
    <3>2. CASE UpWith(farLive, j, e) = {}
      BY <2>1, <2>3, <2>4, <3>1, <3>2 DEF JoinSession, Joining
    <3>3. CASE UpWith(farLive, j, e) # {}
      BY <2>1, <2>4, <3>1, <3>3 DEF JoinSession, Joining
    <3>4. QED BY <3>2, <3>3
  <2>6. CASE a.status = "ok"
    <3> DEFINE s == [id |-> Cardinality(farSessions) + 1, joiner |-> j, joinee |-> e]
    <3>1. farSessions' = farSessions \cup {s} /\ farLive' = farLive \cup {s.id}
      BY <2>4, <2>5, <2>6 DEF MadeBy
    <3>2. Numbered(farSessions) /\ farSessions \subseteq Session
      BY DEF CountInv, TypeOK
    <3>3. /\ Numbered(farSessions') /\ Cardinality(farSessions') = Cardinality(farSessions) + 1
          /\ Numbers(farSessions') = Numbers(farSessions) \cup {s.id}
      BY <3>1, <3>2, NextNumber
    <3>4. farSessions' \subseteq Session /\ farLive' \subseteq Ids
      BY <2>1, <2>3, <3>1 DEF TypeOK, Session
    <3>5. TypeOK'
      BY <1>9, <2>1, <2>4, <2>5, <3>4 DEF ReceiveJoinRequest, TypeOK, FarMail
    <3>6. UNCHANGED <<nearSessions, nearLive, nearLost, farLost, joins, pc>>
          /\ joining'.status = "ok"
      BY <1>9, <2>4, <2>6 DEF ReceiveJoinRequest
    <3>7. CountInv'
      <4>1. Cardinality(farSessions') + Cardinality(Requests') + 0 <= joins'
        BY <1>0, <2>1, <2>2, <3>3, <3>6 DEF CountInv, NoJoin
      <4>2. QED BY <3>1, <3>3, <3>6, <4>1 DEF CountInv, Busy
    <3>8. QED BY <3>5, <3>7
  <2>7. CASE a.status # "ok"
    <3>1. farSessions' = farSessions /\ farLive' = farLive
      BY <2>4, <2>7 DEF MadeBy
    <3>2. TypeOK'
      BY <1>9, <2>1, <2>4, <2>5, <3>1 DEF ReceiveJoinRequest, TypeOK, FarMail
    <3>3. UNCHANGED <<nearSessions, nearLive, nearLost, farLost, joins, pc>>
      BY <1>9 DEF ReceiveJoinRequest
    <3>4. CountInv'
      <4>1. Cardinality(farSessions') + Cardinality(Requests')
              + (IF joining'.status = "already" THEN 1 ELSE 0) <= joins'
        BY <1>0, <2>1, <2>2, <3>1, <3>3, SMTT(30) DEF CountInv, NoJoin
      <4>2. QED BY <3>1, <3>3, <4>1 DEF CountInv, Busy
    <3>5. QED BY <3>2, <3>4
  <2>8. QED BY <2>6, <2>7
<1>10. ASSUME AnswerJoin PROVE TypeInv'
  <2>1. /\ joining \in Joining
        /\ \A k \in Joiners : tracker.pending[k] \in Ids0 /\ tracker.sessions[k] \in Ids0
        /\ joined[joining.joiner] \subseteq Entry(Joinees)
    BY <1>10 DEF AnswerJoin, TypeOK, Joining
  <2>2. Pending \in Ids0 /\ ActiveId \in Ids0 /\ joining.id \in Ids0 /\ 0 \in Ids0
    <3>1. {s \in joined[joining.joiner] : s.peer = joining.joinee} \subseteq Entry(Joinees)
      BY <2>1
    <3>2. ActiveId \in Ids0
      BY <3>1, FirstIdFound DEF ActiveId, GetSessionIdByPeer
    <3>3. QED BY <2>1, <3>2 DEF Pending, GetSession, Joining, Ids0
  <2>3. ASSUME NEW id \in Ids0, SendJoinResponse(id), UNCHANGED <<farSessions, farLive>>,
               tracker' \in [pending : [Joiners -> Ids0], sessions : [Joiners -> Ids0]]
        PROVE  TypeInv'
    <3>1. toNear' \in Seq(NearMail)
      BY <1>0, <2>1, <2>3, Appended DEF SendJoinResponse, NearMail, JoinResponse, Joining
    <3>2. TypeOK'
      BY <2>3, <3>1 DEF SendJoinResponse, TypeOK, NearMail
    <3>3. CountInv'
      BY <1>0, <2>1, <2>3 DEF SendJoinResponse, CountInv, Busy, NoJoin
    <3>4. QED BY <3>2, <3>3
  <2>4. ASSUME AnswerJoined \/ AnswerAsIs \/ AnswerRepeated \/ AnswerDisagreement
               \/ AnswerActive \/ AnswerUnknown
        PROVE  TypeInv'
    <3> DEFINE Tracker == [pending : [Joiners -> Ids0], sessions : [Joiners -> Ids0]]
    <3>1. tracker' \in Tracker
      <4>1. joining.joiner \in Joiners /\ tracker \in Tracker
        BY <2>1 DEF Joining, TypeOK
      <4>2. \A t \in Tracker, id \in Ids0 : JoinSent(t, joining.joiner, id) \in Tracker
        BY <4>1 DEF JoinSent
      <4>3. \A t \in Tracker : TrackerSessionLost(t, joining.joiner) \in Tracker
        BY <2>2, <4>1 DEF TrackerSessionLost
      <4>4. \A t \in Tracker : JoinConfirmed(t, joining.joiner) \in Tracker
        BY <2>2, <4>1 DEF JoinConfirmed
      <4> HIDE DEF Tracker
      <4>5. QED
        BY <2>2, <2>4, <4>1, <4>2, <4>3, <4>4
           DEF AnswerJoined, AnswerAsIs, AnswerRepeated, AnswerDisagreement, AnswerActive,
               AnswerUnknown, SendJoinResponse
    <3>2. UNCHANGED <<farSessions, farLive>> /\ \E id \in Ids0 : SendJoinResponse(id)
      BY <2>1, <2>2, <2>4
         DEF AnswerJoined, AnswerAsIs, AnswerRepeated, AnswerDisagreement, AnswerActive,
             AnswerUnknown
    <3>3. QED BY <2>3, <3>1, <3>2
  <2>5. ASSUME AnswerRejoin PROVE TypeInv'
    <3> DEFINE e == joining.joinee
               j == joining.joiner
               s == [id |-> Cardinality(farSessions) + 1, joiner |-> j, joinee |-> e]
    <3>1. PICK a \in JoinSession(farLive \ {ActiveId}, j, e) :
             /\ farSessions' = farSessions \cup MadeBy(a)
             /\ farLive' = (farLive \ {ActiveId}) \cup {t.id : t \in MadeBy(a)}
             /\ tracker' = IF a.status = "ok" THEN JoinSent(tracker, j, a.id) ELSE tracker
             /\ SendJoinResponse(a.id)
      BY <2>5 DEF AnswerRejoin
    <3>2. joining.status = "already" /\ e \in Joinees /\ j \in Joiners
      BY <2>1, <2>5 DEF AnswerRejoin, NotJoined, Joining
    <3>3. Cardinality(farSessions) + 1 \in Ids /\ Cardinality(farSessions) + 1 \in Ids0
      <4>1. Cardinality(farSessions) + Cardinality(Requests) + 1 <= joins
        BY <3>2 DEF CountInv
      <4>2. joins \in Nat /\ joins <= MaxJoins
        BY DEF TypeOK
      <4>3. QED BY <1>0, <4>1, <4>2 DEF Ids, Ids0
    <3>4. CASE a.status # "ok"
      <4>1. farSessions' = farSessions /\ farLive' = farLive \ {ActiveId} /\ tracker' = tracker
        BY <3>1, <3>4 DEF MadeBy
      <4>2. a.id \in Ids0
        <5>1. UpWith(farLive \ {ActiveId}, j, e) \subseteq Ids
          BY DEF UpWith, TypeOK
        <5>2. Ids \subseteq Ids0
          BY DEF Ids, Ids0
        <5>3. CASE UpWith(farLive \ {ActiveId}, j, e) = {}
          BY <2>2, <3>1, <3>4, <5>3 DEF JoinSession
        <5>4. CASE UpWith(farLive \ {ActiveId}, j, e) # {}
          <6> DEFINE up == UpWith(farLive \ {ActiveId}, j, e)
          <6>1. JoinSession(farLive \ {ActiveId}, j, e)
                  = {[status |-> "already", joiner |-> j, joinee |-> e, id |-> n] : n \in up \cup {0}}
            BY <5>4, Zenon DEF JoinSession
          <6>2. a \in JoinSession(farLive \ {ActiveId}, j, e)
            BY <3>1
          <6>3. PICK n \in up \cup {0} :
                   a = [status |-> "already", joiner |-> j, joinee |-> e, id |-> n]
            BY <6>1, <6>2, Zenon
          <6>4. a.id = n
            BY <6>3
          <6>5. QED BY <2>2, <5>1, <5>2, <6>4
        <5>5. QED BY <5>3, <5>4
      <4>3. toNear' \in Seq(NearMail)
        BY <1>0, <2>1, <3>1, <4>2, Appended DEF SendJoinResponse, NearMail, JoinResponse, Joining
      <4>4. TypeOK'
        BY <3>1, <4>1, <4>3 DEF SendJoinResponse, TypeOK, NearMail
      <4>5. CountInv'
        <5>1. UNCHANGED <<nearSessions, nearLive, nearLost, farLost, toFar, joins, pc>>
              /\ joining' = NoJoin
          BY <3>1 DEF SendJoinResponse
        <5>2. Cardinality(farSessions') + Cardinality(Requests') + 0 <= joins'
          BY <1>0, <3>2, <4>1, <5>1 DEF CountInv
        <5>3. QED BY <4>1, <5>1, <5>2 DEF CountInv, Busy, NoJoin
      <4>6. QED BY <4>4, <4>5
    <3>5. CASE a.status = "ok"
      <4>1. a = [status |-> "ok", joiner |-> j, joinee |-> e, id |-> s.id]
        BY <3>1, <3>5 DEF JoinSession
      <4>2. farSessions' = farSessions \cup {s} /\ farLive' = (farLive \ {ActiveId}) \cup {s.id}
        BY <3>1, <4>1 DEF MadeBy
      <4>3. Numbered(farSessions) /\ farSessions \subseteq Session
        BY DEF CountInv, TypeOK
      <4>4. /\ Numbered(farSessions') /\ Cardinality(farSessions') = Cardinality(farSessions) + 1
            /\ Numbers(farSessions') = Numbers(farSessions) \cup {s.id}
        BY <4>2, <4>3, NextNumber
      <4>5. farSessions' \subseteq Session /\ farLive' \subseteq Ids
        BY <3>2, <3>3, <4>2 DEF TypeOK, Session
      <4>6. toNear' \in Seq(NearMail)
        BY <1>0, <2>1, <3>1, <3>3, <4>1, Appended
           DEF SendJoinResponse, NearMail, JoinResponse, Joining
      <4>7. tracker' \in [pending : [Joiners -> Ids0], sessions : [Joiners -> Ids0]]
        BY <3>1, <3>2, <3>3, <4>1 DEF JoinSent, TypeOK
      <4>8. TypeOK'
        BY <3>1, <4>5, <4>6, <4>7 DEF SendJoinResponse, TypeOK, NearMail
      <4>9. CountInv'
        <5>1. UNCHANGED <<nearSessions, nearLive, nearLost, farLost, toFar, joins, pc>>
              /\ joining' = NoJoin
          BY <3>1 DEF SendJoinResponse
        <5>2. Cardinality(farSessions') + Cardinality(Requests') + 0 <= joins'
          BY <1>0, <3>2, <4>4, <5>1 DEF CountInv
        <5>3. QED BY <4>2, <4>4, <5>1, <5>2 DEF CountInv, Busy, NoJoin
      <4>10. QED BY <4>8, <4>9
    <3>6. QED BY <3>4, <3>5
  <2>6. QED BY <1>10, <2>4, <2>5 DEF AnswerJoin
<1>11. ASSUME ReceiveSessionJoined PROVE TypeInv'
  <2>1. /\ toFar' \in Seq(FarMail) /\ Head(toFar) \in SessionJoined
        /\ Cardinality(Requests') = Cardinality(Requests)
    BY <1>0, <1>11, Taken, CountTaken
       DEF ReceiveSessionJoined, Available, FarMail, JoinRequest, SessionJoined, SessionLost
  <2> DEFINE m == Head(toFar)
  <2>2. TypeOK'
    <3>1. tracker' \in [pending : [Joiners -> Ids0], sessions : [Joiners -> Ids0]]
      <4>1. m.joiner \in Joiners /\ 0 \in Ids0 /\ tracker' = JoinConfirmed(tracker, m.joiner)
        BY <1>11, <2>1 DEF ReceiveSessionJoined, SessionJoined, Ids0
      <4>2. QED BY <4>1 DEF TypeOK, JoinConfirmed
    <3>2. AddSession(joined[m.joiner], m.remoteId, m.joinee, m.localId) \subseteq Entry(Joinees)
      BY <2>1 DEF TypeOK, AddSession, RemoveSession, SessionJoined, Entry
    <3>3. joined' \in [Joiners -> SUBSET Entry(Joinees)]
      BY <1>11, <2>1, <3>2 DEF ReceiveSessionJoined, TypeOK, SessionJoined
    <3>4. QED BY <1>11, <2>1, <3>1, <3>3 DEF ReceiveSessionJoined, TypeOK, FarMail
  <2>3. CountInv'
    BY <1>0, <1>11, <2>1 DEF ReceiveSessionJoined, CountInv, Busy
  <2>4. QED BY <2>2, <2>3
<1>12. ASSUME FarReceiveSessionLost PROVE TypeInv'
  <2>1. /\ toFar' \in Seq(FarMail) /\ Head(toFar) \in SessionLost(Joiners)
        /\ Cardinality(Requests') = Cardinality(Requests)
    BY <1>0, <1>12, Taken, CountTaken
       DEF FarReceiveSessionLost, Available, FarMail, JoinRequest, SessionJoined, SessionLost
  <2>2. TypeOK'
    BY <1>12, <2>1, SMTT(30)
       DEF FarReceiveSessionLost, TypeOK, RemoveSession, SessionLost, FarMail
  <2>3. CountInv'
    BY <1>0, <1>12, <2>1 DEF FarReceiveSessionLost, CountInv, Busy
  <2>4. QED BY <2>2, <2>3
<1>13. ASSUME LoseSessionLost PROVE TypeInv'
  <2>1. toFar' \in Seq(FarMail) /\ Cardinality(Requests') = Cardinality(Requests)
    BY <1>0, <1>13, Taken, CountTaken, SMTT(30) DEF LoseSessionLost
  <2>2. TypeOK'
    BY <1>13, <2>1 DEF LoseSessionLost, TypeOK, FarMail
  <2>3. CountInv'
    BY <1>0, <1>13, <2>1 DEF LoseSessionLost, CountInv, Busy
  <2>4. QED BY <2>2, <2>3
<1>14. QED
  BY StepCases, <1>1, <1>2, <1>3, <1>4, <1>5, <1>6, <1>7, <1>8, <1>9, <1>10, <1>11, <1>12, <1>13

-----------------------------------------------------------------------------
(* What a mailbox holds, before and after a message comes or goes.         *)
LEMMA Mail ==
    ASSUME TypeInv
    PROVE  /\ toFar \in Seq(FarMail) /\ toNear \in Seq(NearMail)
           /\ \A i \in Requests : i \in Nat /\ i > 0 /\ toFar[i] \in JoinRequest
           /\ \A i \in Records : i \in Nat /\ i > 0 /\ toFar[i] \in SessionJoined
           /\ \A i \in Losses : i \in Nat /\ i > 0 /\ toFar[i] \in SessionLost(Joiners)
           /\ \A i \in Answers : i \in Nat /\ i > 0 /\ toNear[i] \in JoinResponse
           /\ \A i \in Endings : i \in Nat /\ i > 0 /\ toNear[i] \in SessionLost(Joinees)
<1>1. toFar \in Seq(FarMail) /\ toNear \in Seq(NearMail)
  BY DEF TypeInv, TypeOK, FarMail, NearMail
<1>2. /\ \A i \in DOMAIN toFar : i \in Nat /\ i > 0 /\ toFar[i] \in FarMail
      /\ \A i \in DOMAIN toNear : i \in Nat /\ i > 0 /\ toNear[i] \in NearMail
  BY <1>1
<1>3. QED
  BY <1>1, <1>2 DEF Requests, Records, Losses, Answers, Endings, At, FarMail, NearMail,
                    JoinRequest, SessionJoined, SessionLost, JoinResponse

(* A message is of the kind of the set it is found in.                     *)
LEMMA WhereFrom ==
    ASSUME NEW M, NEW box \in Seq(M), box # <<>>, NEW rest, rest = Tail(box), NEW type
    PROVE  \A i \in At(rest, type) :
              i \in Nat /\ i > 0 /\ i + 1 \in At(box, type) /\ rest[i] = box[i + 1]
<1>1. Len(box) \in Nat \ {0}
  BY EmptySeq, Zenon
<1>2. QED BY <1>1 DEF At

(* What a message to the far connector changes.                            *)
LEMMA FarAppended ==
    ASSUME TypeInv, NEW m \in FarMail, toFar' = Append(toFar, m)
    PROVE  \E n \in Nat :
             /\ toFar'[n] = m
             /\ \A i \in Requests \cup Records \cup Losses : i < n /\ toFar'[i] = toFar[i]
             /\ Requests' = Requests \cup (IF m.type = "JoinRequest" THEN {n} ELSE {})
             /\ Records' = Records \cup (IF m.type = "SessionJoined" THEN {n} ELSE {})
             /\ Losses' = Losses \cup (IF m.type = "SessionLost" THEN {n} ELSE {})
<1> DEFINE n == Len(toFar) + 1
<1>1. toFar \in Seq(FarMail)
  BY Mail
<1>2. n \in Nat /\ toFar'[n] = m
  BY <1>1, Appended
<1>3. \A i \in Requests \cup Records \cup Losses : i < n /\ toFar'[i] = toFar[i]
  BY <1>1, Appended DEF Requests, Records, Losses
<1>4. ASSUME NEW type
      PROVE  At(toFar', type) = At(toFar, type) \cup (IF m.type = type THEN {n} ELSE {})
  <2>1. CASE m.type = type
    BY <1>1, <2>1, Appended
  <2>2. CASE m.type # type
    BY <1>1, <2>2, Appended
  <2>3. QED BY <2>1, <2>2
<1>5. QED BY <1>2, <1>3, <1>4 DEF Requests, Records, Losses

(* The messages that stay, and where they were, when the far connector     *)
(* takes its first.                                                        *)
LEMMA FarTaken ==
    ASSUME TypeInv, toFar # <<>>, toFar' = Tail(toFar)
    PROVE  /\ Head(toFar) = toFar[1]
           /\ Head(toFar).type = "JoinRequest" <=> 1 \in Requests
           /\ Head(toFar).type = "SessionJoined" <=> 1 \in Records
           /\ Head(toFar).type = "SessionLost" <=> 1 \in Losses
           /\ \A i \in Requests' : i \in Nat /\ i > 0 /\ i + 1 \in Requests /\ toFar'[i] = toFar[i + 1]
           /\ \A i \in Records' : i \in Nat /\ i > 0 /\ i + 1 \in Records /\ toFar'[i] = toFar[i + 1]
           /\ \A i \in Losses' : i \in Nat /\ i > 0 /\ i + 1 \in Losses /\ toFar'[i] = toFar[i + 1]
<1>1. toFar \in Seq(FarMail)
  BY Mail
<1>2. Head(toFar) = toFar[1]
  BY <1>1, Taken
<1>3. \A type : Head(toFar).type = type <=> 1 \in At(toFar, type)
  BY <1>1, Taken
<1>4. \A type : \A i \in At(toFar', type) :
         i \in Nat /\ i > 0 /\ i + 1 \in At(toFar, type) /\ toFar'[i] = toFar[i + 1]
  BY <1>1, WhereFrom
<1>5. QED BY <1>2, <1>3, <1>4 DEF Requests, Records, Losses

(* The same, told from where they were.                                    *)
LEMMA FarLeft ==
    ASSUME TypeInv, toFar # <<>>, toFar' = Tail(toFar)
    PROVE  /\ \A i \in Records : i # 1 => i - 1 \in Records' /\ toFar'[i - 1] = toFar[i]
           /\ \A i \in Losses : i # 1 => i - 1 \in Losses' /\ toFar'[i - 1] = toFar[i]
<1>1. toFar \in Seq(FarMail)
  BY Mail
<1>2. ASSUME NEW type, NEW i \in At(toFar, type), i # 1
      PROVE  i - 1 \in At(toFar', type) /\ toFar'[i - 1] = toFar[i]
  <2>1. Len(toFar) \in Nat \ {0}
    BY <1>1, EmptySeq, Zenon
  <2>2. QED BY <1>1, <1>2, <2>1 DEF At
<1>3. QED BY <1>2 DEF Records, Losses

(* The same for the messages to the near connector.                        *)
LEMMA NearAppended ==
    ASSUME TypeInv, NEW m \in NearMail, toNear' = Append(toNear, m)
    PROVE  \E n \in Nat :
             /\ toNear'[n] = m
             /\ \A i \in Answers \cup Endings : i < n /\ toNear'[i] = toNear[i]
             /\ Answers' = Answers \cup (IF m.type = "JoinResponse" THEN {n} ELSE {})
             /\ Endings' = Endings \cup (IF m.type = "SessionLost" THEN {n} ELSE {})
<1> DEFINE n == Len(toNear) + 1
<1>1. toNear \in Seq(NearMail)
  BY Mail
<1>2. n \in Nat /\ toNear'[n] = m
  BY <1>1, Appended
<1>3. \A i \in Answers \cup Endings : i < n /\ toNear'[i] = toNear[i]
  BY <1>1, Appended DEF Answers, Endings
<1>4. ASSUME NEW type
      PROVE  At(toNear', type) = At(toNear, type) \cup (IF m.type = type THEN {n} ELSE {})
  <2>1. CASE m.type = type
    BY <1>1, <2>1, Appended
  <2>2. CASE m.type # type
    BY <1>1, <2>2, Appended
  <2>3. QED BY <2>1, <2>2
<1>5. QED BY <1>2, <1>3, <1>4 DEF Answers, Endings

(* The messages that stay, and where they were, when the near connector    *)
(* takes its first.                                                        *)
LEMMA NearTaken ==
    ASSUME TypeInv, toNear # <<>>, toNear' = Tail(toNear)
    PROVE  /\ Head(toNear) = toNear[1]
           /\ Head(toNear).type = "JoinResponse" <=> 1 \in Answers
           /\ Head(toNear).type = "SessionLost" <=> 1 \in Endings
           /\ \A i \in Answers' : i \in Nat /\ i > 0 /\ i + 1 \in Answers /\ toNear'[i] = toNear[i + 1]
           /\ \A i \in Endings' : i \in Nat /\ i > 0 /\ i + 1 \in Endings /\ toNear'[i] = toNear[i + 1]
<1>1. toNear \in Seq(NearMail)
  BY Mail
<1>2. Head(toNear) = toNear[1]
  BY <1>1, Taken
<1>3. \A type : Head(toNear).type = type <=> 1 \in At(toNear, type)
  BY <1>1, Taken
<1>4. \A type : \A i \in At(toNear', type) :
         i \in Nat /\ i > 0 /\ i + 1 \in At(toNear, type) /\ toNear'[i] = toNear[i + 1]
  BY <1>1, WhereFrom
<1>5. QED BY <1>2, <1>3, <1>4 DEF Answers, Endings

(* The same, told from where they were.                                    *)
LEMMA NearLeft ==
    ASSUME TypeInv, toNear # <<>>, toNear' = Tail(toNear)
    PROVE  \A i \in Answers : i # 1 => i - 1 \in Answers' /\ toNear'[i - 1] = toNear[i]
<1>1. toNear \in Seq(NearMail)
  BY Mail
<1>2. ASSUME NEW type, NEW i \in At(toNear, type), i # 1
      PROVE  i - 1 \in At(toNear', type) /\ toNear'[i - 1] = toNear[i]
  <2>1. Len(toNear) \in Nat \ {0}
    BY <1>1, EmptySeq, Zenon
  <2>2. QED BY <1>1, <1>2, <2>1 DEF At
<1>3. QED BY <1>2 DEF Answers

(* The number of a session tells for whom it was made.                     *)
LEMMA OneMaker ==
    ASSUME NEW made, Numbered(made), NEW x,
           NEW j, NEW e, MadeFor(made, x, j, e)
    PROVE  /\ x \in Numbers(made)
           /\ \A k, f : MadeFor(made, x, k, f) => k = j /\ f = e
  BY DEF Numbered, Numbers, MadeFor

(* Requests and answers are as before, but for their places.               *)
LEMMA AskKept ==
    ASSUME TypeInv, AskInv, NEW c \in Nat, NEW d \in Nat,
           \A i \in Requests' : i \in Nat /\ i + c \in Requests /\ toFar'[i] = toFar[i + c],
           \A i \in Answers' : i \in Nat /\ i + d \in Answers /\ toNear'[i] = toNear[i + d],
           \A e \in Joinees, j \in Joiners : Waits(e, j)' <=> Waits(e, j),
           UNCHANGED <<sessionJoinedSignalReceived, remoteSessionId, joining>>
    PROVE  AskInv'
<1>1. \A i \in Requests' : /\ toFar'[i].joinee \in Joinees /\ toFar'[i].joiner \in Joiners
  BY Mail DEF JoinRequest
<1>2. \A i \in Answers' : /\ toNear'[i].joinee \in Joinees /\ toNear'[i].joiner \in Joiners
  BY Mail DEF JoinResponse
<1>3. joining # NoJoin => joining.joinee \in Joinees /\ joining.joiner \in Joiners
  BY DEF TypeInv, TypeOK, Joining
<1>4. \A e \in Joinees, j \in Joiners : Unanswered(e, j)' <=> Unanswered(e, j)
  BY DEF Unanswered
<1>5. (/\ \A e \in Joinees : \A j, k \in Joiners : Waits(e, j) /\ Waits(e, k) => j = k
       /\ \A e \in Joinees : \A j \in Joiners :
             Waits(e, j) /\ ~sessionJoinedSignalReceived[e] => remoteSessionId[e] = 0)'
  BY DEF AskInv
<1>6. ASSUME NEW i \in Requests'
      PROVE  (/\ Unanswered(toFar[i].joinee, toFar[i].joiner)
              /\ \A k \in Requests : toFar[k].joinee = toFar[i].joinee => k = i
              /\ joining # NoJoin => joining.joinee # toFar[i].joinee
              /\ \A k \in Answers : toNear[k].joinee # toFar[i].joinee)'
  <2>1. Unanswered(toFar[i].joinee, toFar[i].joiner)'
    <3>1. PICK e \in Joinees, j \in Joiners :
             e = toFar[i + c].joinee /\ j = toFar[i + c].joiner /\ Unanswered(e, j)
      BY <1>1 DEF AskInv
    <3>2. Unanswered(e, j)' /\ toFar'[i] = toFar[i + c]
      BY <1>4, <3>1
    <3>3. QED BY <3>1, <3>2 DEF Unanswered, Waits
  <2>2. \A k \in Requests' : toFar'[k].joinee = toFar'[i].joinee => k = i
    <3> TAKE k \in Requests'
    <3>1. toFar'[k].joinee = toFar'[i].joinee => k + c = i + c
      BY DEF AskInv
    <3>2. QED BY <3>1
  <2>3. QED BY <2>1, <2>2 DEF AskInv
<1>7. (joining # NoJoin =>
          /\ Unanswered(joining.joinee, joining.joiner)
          /\ \A k \in Answers : toNear[k].joinee # joining.joinee
          /\ joining.status = "fail" => joining.id = 0)'
  BY <1>3 DEF AskInv, Unanswered
<1>8. ASSUME NEW i \in Answers'
      PROVE  (/\ Unanswered(toNear[i].joinee, toNear[i].joiner)
              /\ \A k \in Answers : toNear[k].joinee = toNear[i].joinee => k = i)'
  <2>1. Unanswered(toNear[i].joinee, toNear[i].joiner)'
    BY <1>2 DEF AskInv, Unanswered
  <2>2. \A k \in Answers' : toNear'[k].joinee = toNear'[i].joinee => k = i
    <3> TAKE k \in Answers'
    <3>1. toNear'[k].joinee = toNear'[i].joinee => k + d = i + d
      BY DEF AskInv
    <3>2. QED BY <3>1
  <2>3. QED BY <2>1, <2>2
<1>9. QED BY <1>5, <1>6, <1>7, <1>8 DEF AskInv

-----------------------------------------------------------------------------
(* The steps keep the pairing.                                             *)

(* What RecordInv says of the record at one place of the box.              *)
LEMMA Recorded ==
    ASSUME TypeInv, RecordInv, NEW i \in Records
    PROVE  /\ toFar[i].joiner \in Joiners /\ toFar[i].joinee \in Joinees
           /\ toFar[i].localId \in Ids /\ toFar[i].remoteId \in Ids
           /\ Relayed(toFar[i].localId, toFar[i].remoteId)
           /\ BothMade(toFar[i].localId, toFar[i].remoteId, toFar[i].joiner, toFar[i].joinee)
           /\ \/ Hosted(toFar[i].joinee, toFar[i].localId, toFar[i].joiner, toFar[i].remoteId)
              \/ \E k \in Losses : k > i /\ IsLoss(k, toFar[i].localId, toFar[i].joiner)
           /\ \A k \in Records : toFar[k].localId = toFar[i].localId => k = i
           /\ \A s \in joined[toFar[i].joiner] : s.remoteId # toFar[i].localId
<1>1. PICK m \in SessionJoined : toFar[i] = m
  BY Mail
<1>2. m.joiner \in Joiners /\ m.joinee \in Joinees /\ m.localId \in Ids /\ m.remoteId \in Ids
  BY DEF SessionJoined
<1>3. QED BY <1>1, <1>2 DEF RecordInv

(* A joiner asks: nothing else of its joinee is under way, as only one     *)
(* joiner is waiting.                                                      *)
LEMMA PairAccept ==
    ASSUME TypeInv, PairInv, ~Overlap,
           NEW e \in Joinees, NEW j \in Joiners, AcceptSessionJoiner(e, j)
    PROVE  PairInv'
<1> DEFINE m == [type |-> "JoinRequest", joinee |-> e, joiner |-> j]
<1>1. PICK n \in Nat :
         /\ toFar'[n] = m
         /\ \A i \in Requests \cup Records \cup Losses : i < n /\ toFar'[i] = toFar[i]
         /\ Requests' = Requests \cup {n} /\ Records' = Records /\ Losses' = Losses
  <2>1. m \in FarMail /\ m.type = "JoinRequest"
    BY DEF FarMail, JoinRequest
  <2>2. toFar' = Append(toFar, m)
    BY DEF AcceptSessionJoiner
  <2> HIDE DEF m
  <2>3. QED BY <2>1, <2>2, FarAppended
<1>2. /\ \A k \in Joiners : ~Waits(e, k)
      /\ \A f \in Joinees, k \in Joiners : Waits(f, k)' <=> Waits(f, k) \/ (f = e /\ k = j)
      /\ \A f \in Joinees, k \in Joiners : pc'[f][k] = "idle" => pc[f][k] = "idle"
      /\ \A f \in Joinees, k \in Joiners : pc[f][k] = "idle" /\ ~(f = e /\ k = j) => pc'[f][k] = "idle"
  <2>1. \A f \in Joinees, k \in Joiners :
           pc'[f][k] = IF f = e /\ k = j THEN "waiting" ELSE pc[f][k]
    BY DEF AcceptSessionJoiner, TypeInv, TypeOK
  <2>2. \A k \in Joiners : pc[e][k] \in {"idle", "accepted"}
    BY DEF AcceptSessionJoiner
  <2>3. QED BY <2>1, <2>2 DEF Waits
<1>3. /\ \A f \in Joinees : f # e =>
            /\ sessionJoinedSignalReceived'[f] = sessionJoinedSignalReceived[f]
            /\ remoteSessionId'[f] = remoteSessionId[f]
      /\ sessionJoinedSignalReceived'[e] = FALSE /\ remoteSessionId'[e] = 0
      /\ UNCHANGED <<pendingSessionJoiners, hosted, joining, joined, nearSessions, nearLive,
                     nearLost, farSessions, farLive, farLost, toNear, relayed>>
  BY DEF AcceptSessionJoiner, TypeInv, TypeOK, far, nearBus, farBus
<1>4. /\ \A i \in Requests : toFar[i].joinee # e
      /\ joining # NoJoin => joining.joinee # e
      /\ \A i \in Answers : toNear[i].joinee # e
  BY <1>2, Mail DEF PairInv, AskInv, Unanswered, JoinRequest, JoinResponse, TypeInv, TypeOK, Joining
<1>5. \A r \in Ids, k \in Joiners, f \in Joinees : Carried(r, k, f)' <=> Carried(r, k, f)
  <2>1. Answers' = Answers
    BY <1>3 DEF Answers
  <2>2. \A r \in Ids : r # 0
    BY DEF Ids
  <2>3. \A r \in Ids, k \in Joiners, f \in Joinees :
           (Waits(f, k) /\ remoteSessionId[f] = r)' <=> Waits(f, k) /\ remoteSessionId[f] = r
    BY <1>2, <1>3, <2>2
  <2>4. QED BY <1>3, <2>1, <2>3 DEF Carried
<1>6. /\ \A l, r : Relayed(l, r)' <=> Relayed(l, r)
      /\ \A l, r, k, f : BothMade(l, r, k, f)' <=> BothMade(l, r, k, f)
      /\ \A f, l, k, r : Hosted(f, l, k, r)' <=> Hosted(f, l, k, r)
  BY <1>3 DEF Relayed, BothMade, MadeFor, Hosted
<1>7. AskInv'
  <2>1. \A i \in Requests' : i # n => i \in Requests /\ toFar'[i] = toFar[i]
    BY <1>1
  <2>2. \A f \in Joinees, k \in Joiners : f # e => (Unanswered(f, k)' <=> Unanswered(f, k))
    BY <1>2, <1>3 DEF Unanswered
  <2>3. Unanswered(e, j)'
    BY <1>2, <1>3 DEF Unanswered
  <2>4. \A i \in Requests : toFar[i].joinee \in Joinees /\ toFar[i].joiner \in Joiners
    BY Mail DEF JoinRequest
  <2>5. Answers' = Answers
    BY <1>3 DEF Answers
  <2>6. \A i \in Answers : toNear[i].joinee \in Joinees /\ toNear[i].joiner \in Joiners
    BY Mail DEF JoinResponse
  <2>7. joining # NoJoin => joining.joinee \in Joinees /\ joining.joiner \in Joiners
    BY DEF TypeInv, TypeOK, Joining
  <2>8. (/\ \A f \in Joinees : \A i, k \in Joiners : Waits(f, i) /\ Waits(f, k) => i = k
         /\ \A f \in Joinees : \A k \in Joiners :
               Waits(f, k) /\ ~sessionJoinedSignalReceived[f] => remoteSessionId[f] = 0)'
    BY <1>2, <1>3 DEF PairInv, AskInv
  <2>9. ASSUME NEW i \in Requests'
        PROVE  (/\ Unanswered(toFar[i].joinee, toFar[i].joiner)
                /\ \A k \in Requests : toFar[k].joinee = toFar[i].joinee => k = i
                /\ joining # NoJoin => joining.joinee # toFar[i].joinee
                /\ \A k \in Answers : toNear[k].joinee # toFar[i].joinee)'
    <3>1. CASE i = n
      BY <1>1, <1>3, <1>4, <2>1, <2>3, <2>5, <3>1 DEF Unanswered, Waits
    <3>2. CASE i # n
      <4>1. i \in Requests /\ toFar'[i] = toFar[i] /\ toFar[i].joinee # e
        BY <1>4, <2>1, <3>2
      <4>2. Unanswered(toFar[i].joinee, toFar[i].joiner)'
        <5>1. PICK f \in Joinees, k \in Joiners :
                 f = toFar[i].joinee /\ k = toFar[i].joiner /\ Unanswered(f, k)
          BY <2>4, <4>1 DEF PairInv, AskInv
        <5>2. Unanswered(f, k)'
          BY <2>2, <4>1, <5>1
        <5>3. QED BY <4>1, <5>1, <5>2 DEF Unanswered, Waits
      <4>3. \A k \in Requests' : toFar'[k].joinee = toFar'[i].joinee => k = i
        BY <1>1, <2>1, <4>1 DEF PairInv, AskInv
      <4>4. QED BY <1>3, <2>5, <4>1, <4>2, <4>3 DEF PairInv, AskInv
    <3>3. QED BY <3>1, <3>2
  <2>10. (joining # NoJoin =>
            /\ Unanswered(joining.joinee, joining.joiner)
            /\ \A k \in Answers : toNear[k].joinee # joining.joinee
            /\ joining.status = "fail" => joining.id = 0)'
    BY <1>3, <1>4, <2>2, <2>5, <2>7 DEF PairInv, AskInv, Unanswered
  <2>11. ASSUME NEW i \in Answers'
         PROVE  (/\ Unanswered(toNear[i].joinee, toNear[i].joiner)
                 /\ \A k \in Answers : toNear[k].joinee = toNear[i].joinee => k = i)'
    BY <1>3, <1>4, <2>2, <2>5, <2>6 DEF PairInv, AskInv, Unanswered
  <2>12. QED BY <2>8, <2>9, <2>10, <2>11 DEF AskInv
<1>8. FreshInv'
  BY <1>3, <1>5, <1>6 DEF PairInv, FreshInv, MadeFor, BothMade
<1>9. \A s \in hosted[e] : s.peer # j
  <2> SUFFICES ASSUME NEW s \in hosted[e], s.peer = j PROVE FALSE
    OBVIOUS
  <2>1. MadeFor(nearSessions, s.id, j, e) /\ s.id \in nearLive \cup nearLost
    BY DEF PairInv, HostedInv, BothMade
  <2>2. s.id \in SessionsOf(nearSessions, j, e)
    BY <2>1 DEF MadeFor, SessionsOf
  <2>3. QED BY <2>1, <2>2 DEF AcceptSessionJoiner
<1>10. HostedInv'
  BY <1>2, <1>3, <1>6, <1>9 DEF PairInv, HostedInv, TypeInv, TypeOK, Entry
<1>11. JoinedInv'
  BY <1>1, <1>3, <1>6 DEF PairInv, JoinedInv, IsLoss
<1>12. RecordInv'
  BY <1>1, <1>3, <1>6 DEF PairInv, RecordInv, IsLoss
<1>13. \A l, r : ~Hosted(e, l, j, r)
  BY <1>9 DEF Hosted
<1>14. OrderInv'
  <2> SUFFICES ASSUME NEW i \in Requests' \cup Records'
               PROVE  (/\ \A s \in joined[toFar[i].joiner] : s.peer = toFar[i].joinee =>
                            \E k \in Losses : k < i /\ IsLoss(k, s.remoteId, toFar[i].joiner)
                       /\ \A n_1 \in Records :
                            toFar[n_1].joiner = toFar[i].joiner
                            /\ toFar[n_1].joinee = toFar[i].joinee =>
                               /\ n_1 < i => \E k \in Losses : n_1 < k /\ k < i
                                               /\ IsLoss(k, toFar[n_1].localId, toFar[i].joiner)
                               /\ i \in Requests => n_1 < i)'
    BY DEF OrderInv
  <2>1. CASE i = n
    <3>1. \A s \in joined[j] : s.peer = e => \E k \in Losses : IsLoss(k, s.remoteId, j)
      BY <1>13 DEF PairInv, JoinedInv
    <3>2. \A k \in Records : toFar[k].joiner = j /\ toFar[k].joinee = e =>
             \E p \in Losses : p > k /\ IsLoss(p, toFar[k].localId, j)
      <4> SUFFICES ASSUME NEW k \in Records, toFar[k].joiner = j, toFar[k].joinee = e
                   PROVE  \E p \in Losses : p > k /\ IsLoss(p, toFar[k].localId, j)
        OBVIOUS
      <4>1. QED BY <1>13, Recorded DEF PairInv
    <3>3. toFar'[i].joiner = j /\ toFar'[i].joinee = e
      BY <1>1, <2>1
    <3>4. /\ \A k \in Losses' : k \in Losses /\ k < i /\ toFar'[k] = toFar[k]
          /\ \A k \in Losses : k \in Losses'
          /\ \A k \in Records' : k \in Records /\ k < i /\ toFar'[k] = toFar[k]
      BY <1>1, <2>1
    <3>5. \A s \in joined'[j] : s.peer = e => \E k \in Losses' : k < i /\ IsLoss(k, s.remoteId, j)'
      BY <1>3, <3>1, <3>4 DEF IsLoss
    <3>6. \A k \in Records' : toFar'[k].joiner = j /\ toFar'[k].joinee = e =>
             \E p \in Losses' : p > k /\ p < i
                               /\ toFar'[p].id = toFar'[k].localId /\ toFar'[p].peer = j
      BY <3>2, <3>4 DEF IsLoss
    <3>7. \A k, p \in Losses \cup Records : k \in Nat /\ p \in Nat /\ (p > k => k < p)
      BY Mail
    <3>8. QED BY <1>1, <2>1, <3>3, <3>4, <3>5, <3>6, <3>7 DEF IsLoss
  <2>2. CASE i # n
    <3>1. i \in Requests \cup Records /\ toFar'[i] = toFar[i] /\ (i \in Requests' <=> i \in Requests)
      BY <1>1, <2>2
    <3>2. QED BY <1>1, <1>3, <3>1 DEF PairInv, OrderInv, IsLoss
  <2>3. QED BY <2>1, <2>2
<1>15. EndingInv'
  BY <1>1, <1>3 DEF PairInv, EndingInv, Endings
<1>16. LiveInv'
  <2>1. \A s \in farSessions : s.id \in Ids /\ s.joiner \in Joiners /\ s.joinee \in Joinees
    BY DEF TypeInv, TypeOK, Session
  <2>2. QED BY <1>1, <1>3, <1>5, <2>1 DEF PairInv, LiveInv
<1>17. QED BY <1>7, <1>8, <1>10, <1>11, <1>12, <1>14, <1>15, <1>16 DEF PairInv

(* A wait goes on or ends; when it times out there is no answer to come.   *)
LEMMA PairWait ==
    ASSUME TypeInv, PairInv, ~LateAnswers,
           NEW e \in Joinees, NEW j \in Joiners,
           Wake(e, j) \/ TimeOut(e, j) \/ WakeSpuriously(e, j)
    PROVE  PairInv'
<1> DEFINE Over == ~Waits(e, j)'
           Kept == UNCHANGED pendingSessionJoiners
<1>1. UNCHANGED <<sessionJoinedSignalReceived, remoteSessionId, hosted, joining, joined,
                  nearSessions, nearLive, nearLost, farSessions, farLive, farLost,
                  toFar, toNear, relayed>>
  BY DEF Wake, TimeOut, WakeSpuriously, far, nearBus, farBus, link
<1>2. Requests' = Requests /\ Records' = Records /\ Losses' = Losses
      /\ Answers' = Answers /\ Endings' = Endings
  BY <1>1 DEF Requests, Records, Losses, Answers, Endings
<1>3. \E v \in {"waiting", "woken", "idle", "accepted"} :
         /\ pc' = [pc EXCEPT ![e][j] = v]
         /\ v \in {"waiting", "woken"} => Kept
         /\ v = "idle" => Kept /\ remoteSessionId[e] = 0
         /\ v = "accepted" => pendingSessionJoiners'
                                = [pendingSessionJoiners EXCEPT ![e][j] = remoteSessionId[e]]
         /\ v \in {"idle", "accepted"} => sessionJoinedSignalReceived[e] \/ ~Asked(e)
  BY DEF Wake, TimeOut, WakeSpuriously, Decide
<1>4. Waits(e, j) /\ pendingSessionJoiners[e][j] = 0
  BY DEF Wake, TimeOut, WakeSpuriously, Waits, TypeInv, TypeOK
<1>5. /\ \A f \in Joinees, k \in Joiners : Waits(f, k)' => Waits(f, k)
      /\ \A f \in Joinees, k \in Joiners : ~(f = e /\ k = j) => (Waits(f, k)' <=> Waits(f, k))
      /\ \A f \in Joinees, k \in Joiners : pc[f][k] = "idle" => pc'[f][k] = "idle"
  <2>1. PICK v \in PC : pc' = [pc EXCEPT ![e][j] = v]
    BY <1>3 DEF PC
  <2>2. \A f \in Joinees, k \in Joiners : pc'[f][k] = IF f = e /\ k = j THEN v ELSE pc[f][k]
    BY <2>1 DEF TypeInv, TypeOK
  <2>3. QED BY <1>4, <2>2 DEF Waits
<1>6. /\ ~Over => Kept
      /\ Over => /\ \/ Kept /\ remoteSessionId[e] = 0
                    \/ pendingSessionJoiners'
                          = [pendingSessionJoiners EXCEPT ![e][j] = remoteSessionId[e]]
                 /\ sessionJoinedSignalReceived[e] \/ ~Asked(e)
  <2>1. PICK v \in PC :
           /\ pc' = [pc EXCEPT ![e][j] = v]
           /\ v \in {"waiting", "woken"} => Kept
           /\ v = "idle" => Kept /\ remoteSessionId[e] = 0
           /\ v = "accepted" => pendingSessionJoiners'
                                  = [pendingSessionJoiners EXCEPT ![e][j] = remoteSessionId[e]]
           /\ v \in {"idle", "accepted"} => sessionJoinedSignalReceived[e] \/ ~Asked(e)
    BY <1>3 DEF PC
  <2>2. pc'[e][j] = v
    BY <2>1 DEF TypeInv, TypeOK
  <2>3. Waits(e, j)' <=> v \in {"waiting", "woken"}
    BY <2>2 DEF Waits
  <2>4. QED BY <2>1, <2>3 DEF PC
<1>7. Over => /\ \A i \in Requests : toFar[i].joinee # e
              /\ joining # NoJoin => joining.joinee # e
              /\ \A i \in Answers : toNear[i].joinee # e
  <2>1. CASE sessionJoinedSignalReceived[e]
    BY <2>1 DEF PairInv, AskInv, Unanswered
  <2>2. CASE ~Asked(e)
    BY <2>2 DEF Asked, Requests, Answers, At
  <2>3. QED BY <1>6, <2>1, <2>2
<1>8. \A r \in Ids, k \in Joiners, f \in Joinees : Carried(r, k, f)' <=> Carried(r, k, f)
  <2>1. \A r \in Ids, k \in Joiners, f \in Joinees :
           \/ Waits(f, k)' /\ remoteSessionId'[f] = r
           \/ pendingSessionJoiners'[f][k] = r
           <=>
           \/ Waits(f, k) /\ remoteSessionId[f] = r
           \/ pendingSessionJoiners[f][k] = r
    <3> SUFFICES ASSUME NEW r \in Ids, NEW k \in Joiners, NEW f \in Joinees
                 PROVE  \/ Waits(f, k)' /\ remoteSessionId'[f] = r
                        \/ pendingSessionJoiners'[f][k] = r
                        <=>
                        \/ Waits(f, k) /\ remoteSessionId[f] = r
                        \/ pendingSessionJoiners[f][k] = r
      OBVIOUS
    <3>1. r # 0
      BY DEF Ids
    <3>2. CASE f = e /\ k = j
      <4>1. CASE ~Over
        BY <1>1, <1>4, <1>6, <3>2, <4>1
      <4>2. CASE Over /\ Kept /\ remoteSessionId[e] = 0
        BY <1>1, <1>4, <3>1, <3>2, <4>2
      <4>3. CASE Over /\ pendingSessionJoiners'
                            = [pendingSessionJoiners EXCEPT ![e][j] = remoteSessionId[e]]
        <5>1. pendingSessionJoiners'[e][j] = remoteSessionId[e]
          BY <4>3 DEF TypeInv, TypeOK
        <5>2. QED BY <1>1, <1>4, <3>1, <3>2, <4>3, <5>1
      <4>4. QED BY <1>6, <4>1, <4>2, <4>3
    <3>3. CASE ~(f = e /\ k = j)
      <4>1. pendingSessionJoiners'[f][k] = pendingSessionJoiners[f][k]
        BY <1>6, <3>3 DEF TypeInv, TypeOK
      <4>2. QED BY <1>1, <1>5, <3>3, <4>1
    <3>4. QED BY <3>2, <3>3
  <2>2. QED BY <1>1, <1>2, <2>1 DEF Carried
<1>9. AskInv'
  <2>1. \A f \in Joinees, k \in Joiners :
           f # e \/ ~Over => (Unanswered(f, k)' <=> Unanswered(f, k))
    BY <1>1, <1>4, <1>5 DEF Unanswered
  <2>2. /\ \A i \in Requests : toFar[i].joinee \in Joinees /\ toFar[i].joiner \in Joiners
        /\ \A i \in Answers : toNear[i].joinee \in Joinees /\ toNear[i].joiner \in Joiners
        /\ joining # NoJoin => joining.joinee \in Joinees /\ joining.joiner \in Joiners
    BY Mail DEF JoinRequest, JoinResponse, TypeInv, TypeOK, Joining
  <2>3. \A i \in Requests : Unanswered(toFar[i].joinee, toFar[i].joiner)'
    BY <1>1, <1>7, <2>1, <2>2 DEF PairInv, AskInv, Unanswered, Waits
  <2>4. \A i \in Answers : Unanswered(toNear[i].joinee, toNear[i].joiner)'
    BY <1>1, <1>7, <2>1, <2>2 DEF PairInv, AskInv, Unanswered, Waits
  <2>5. joining # NoJoin => Unanswered(joining.joinee, joining.joiner)'
    BY <1>1, <1>7, <2>1, <2>2 DEF PairInv, AskInv, Unanswered, Waits
  <2>6. QED
    BY <1>1, <1>2, <1>5, <2>3, <2>4, <2>5 DEF PairInv, AskInv
<1>10. /\ \A l, r : Relayed(l, r)' <=> Relayed(l, r)
       /\ \A l, r, k, f : BothMade(l, r, k, f)' <=> BothMade(l, r, k, f)
       /\ \A f, l, k, r : Hosted(f, l, k, r)' <=> Hosted(f, l, k, r)
  BY <1>1 DEF Relayed, BothMade, MadeFor, Hosted
<1>11. FreshInv' /\ LiveInv'
  <2>1. \A s \in farSessions : s.id \in Ids /\ s.joiner \in Joiners /\ s.joinee \in Joinees
    BY DEF TypeInv, TypeOK, Session
  <2>2. FreshInv'
    BY <1>1, <1>8, <1>10 DEF PairInv, FreshInv, MadeFor
  <2>3. LiveInv'
    BY <1>1, <1>2, <1>8, <2>1 DEF PairInv, LiveInv
  <2>4. QED BY <2>2, <2>3
<1>12. HostedInv'
  BY <1>1, <1>5, <1>10 DEF PairInv, HostedInv, TypeInv, TypeOK, Entry
<1>13. JoinedInv'
  BY <1>1, <1>2, <1>10 DEF PairInv, JoinedInv, IsLoss
<1>14. RecordInv'
  BY <1>1, <1>2, <1>10 DEF PairInv, RecordInv, IsLoss
<1>15. OrderInv' /\ EndingInv'
  BY <1>1, <1>2 DEF PairInv, OrderInv, EndingInv, IsLoss
<1>16. QED BY <1>9, <1>11, <1>12, <1>13, <1>14, <1>15 DEF PairInv

(* The pair is recorded on the near side and announced: its ids are new on *)
(* both sides.                                                             *)
LEMMA PairListener ==
    ASSUME TypeInv, PairInv,
           NEW e \in Joinees, NEW j \in Joiners, ListenerSessionJoined(e, j)
    PROVE  PairInv'
<1>1. PICK l, r : l = Cardinality(nearSessions) + 1 /\ r = pendingSessionJoiners[e][j]
  OBVIOUS
<1> DEFINE m == [type |-> "SessionJoined", joiner |-> j, joinee |-> e,
                 remoteId |-> r, localId |-> l]
<1>2. /\ UNCHANGED <<sessionJoinedSignalReceived, remoteSessionId, joining, joined, nearLost,
                     farSessions, farLive, farLost, toNear>>
      /\ nearSessions' = nearSessions \cup {[id |-> l, joiner |-> j, joinee |-> e]}
      /\ nearLive' = nearLive \cup {l}
      /\ relayed' = relayed \cup {[id |-> l, remoteId |-> r]}
      /\ hosted' = [hosted EXCEPT ![e] = AddSession(@, l, j, r)]
      /\ toFar' = Append(toFar, m)
      /\ pc' = [pc EXCEPT ![e][j] = "idle"]
      /\ pc[e][j] = "accepted"
      /\ pendingSessionJoiners' = [pendingSessionJoiners EXCEPT ![e][j] = 0]
  BY <1>1 DEF ListenerSessionJoined, far, farBus
<1>2a. joined' = joined /\ relayed \subseteq relayed'
  BY <1>2
<1>3. /\ l \in Nat /\ l \notin Numbers(nearSessions)
      /\ Numbered(nearSessions') /\ Numbers(nearSessions') = Numbers(nearSessions) \cup {l}
  <2>1. Numbered(nearSessions) /\ nearSessions \subseteq Session
    BY DEF TypeInv, CountInv, TypeOK
  <2>2. l = Cardinality(nearSessions) + 1
    BY <1>1
  <2> DEFINE s == [id |-> l, joiner |-> j, joinee |-> e]
  <2>3. s.id = Cardinality(nearSessions) + 1 /\ nearSessions' = nearSessions \cup {s}
    BY <1>2, <2>2
  <2> HIDE DEF s
  <2>4. l = s.id
    BY <2>2, <2>3
  <2>5. /\ Cardinality(nearSessions) \in Nat
        /\ Numbered(nearSessions \cup {s})
        /\ s.id \notin Numbers(nearSessions)
        /\ Numbers(nearSessions \cup {s}) = Numbers(nearSessions) \cup {s.id}
    BY <2>1, <2>3, NextNumber
  <2>6. nearSessions' = nearSessions \cup {s}
    BY <2>3
  <2>7. l \in Nat
    BY <2>2, <2>5
  <2>8. QED BY <2>4, <2>5, <2>6, <2>7, Zenon DEF Numbered, Numbers
<1>4. r \in Ids
  <2>1. r \in Ids0 /\ r # 0
    BY <1>1, <1>2 DEF TypeInv, TypeOK
  <2>2. MaxJoins \in Nat
    BY ConstantsAssumption
  <2>3. QED BY <2>1, <2>2 DEF Ids, Ids0
<1>5. l \in Ids
  <2>1. TypeInv'
    BY StepTypes DEF Next, Caller
  <2>2. Numbers(nearSessions') \subseteq Ids
    BY <2>1 DEF TypeInv, TypeOK, Numbers, Session
  <2>3. QED BY <1>3, <2>2
<1>6. PICK n \in Nat :
         /\ toFar'[n] = m
         /\ \A i \in Requests \cup Records \cup Losses : i < n /\ toFar'[i] = toFar[i]
         /\ Requests' = Requests /\ Records' = Records \cup {n} /\ Losses' = Losses
  <2>1. m \in FarMail /\ m.type = "SessionJoined"
    BY <1>4, <1>5 DEF FarMail, SessionJoined
  <2>2. toFar' = Append(toFar, m)
    BY <1>2
  <2> HIDE DEF m
  <2>3. PICK n \in Nat :
           /\ toFar'[n] = m
           /\ \A i \in Requests \cup Records \cup Losses : i < n /\ toFar'[i] = toFar[i]
           /\ Requests' = Requests \cup (IF m.type = "JoinRequest" THEN {n} ELSE {})
           /\ Records' = Records \cup (IF m.type = "SessionJoined" THEN {n} ELSE {})
           /\ Losses' = Losses \cup (IF m.type = "SessionLost" THEN {n} ELSE {})
    BY <2>1, <2>2, FarAppended
  <2>4. QED BY <2>1, <2>3
<1>7. Answers' = Answers /\ Endings' = Endings
  BY <1>2 DEF Answers, Endings
<1>8. /\ \A f \in Joinees, k \in Joiners : Waits(f, k)' <=> Waits(f, k)
      /\ \A f \in Joinees, k \in Joiners : pc[f][k] = "idle" => pc'[f][k] = "idle"
      /\ pc'[e][j] = "idle" /\ ~Waits(e, j)
  <2>1. \A f \in Joinees, k \in Joiners : pc'[f][k] = IF f = e /\ k = j THEN "idle" ELSE pc[f][k]
    BY <1>2 DEF TypeInv, TypeOK
  <2>2. QED BY <1>2, <2>1 DEF Waits
<1>9. /\ \A f \in Joinees, k \in Joiners :
            ~(f = e /\ k = j) => pendingSessionJoiners'[f][k] = pendingSessionJoiners[f][k]
      /\ pendingSessionJoiners'[e][j] = 0
  BY <1>2 DEF TypeInv, TypeOK
<1>10. Carried(r, j, e)
  BY <1>1 DEF Carried
<1>11. /\ MadeFor(farSessions, r, j, e) /\ \A p \in relayed : p.remoteId # r
       /\ \A k, f : MadeFor(farSessions, r, k, f) => k = j /\ f = e
  <2>1. MadeFor(farSessions, r, j, e) /\ \A p \in relayed : p.remoteId # r
    BY <1>4, <1>10 DEF PairInv, FreshInv
  <2>2. Numbered(farSessions)
    BY DEF TypeInv, CountInv
  <2>3. QED BY <2>1, <2>2, OneMaker
<1>12. /\ \A x, y : Relayed(x, y)' <=> Relayed(x, y) \/ (x = l /\ y = r)
       /\ Relayed(l, r)' /\ BothMade(l, r, j, e)'
       /\ \A x, y, k, f : BothMade(x, y, k, f) => BothMade(x, y, k, f)' /\ x # l
  <2>1. \A x, y : Relayed(x, y)' <=> Relayed(x, y) \/ (x = l /\ y = r)
    BY <1>2 DEF Relayed
  <2>2. BothMade(l, r, j, e)'
    BY <1>2, <1>11 DEF BothMade, MadeFor
  <2>3. \A x, y, k, f : BothMade(x, y, k, f) => BothMade(x, y, k, f)' /\ x # l
    BY <1>2, <1>3 DEF BothMade, MadeFor, Numbers
  <2>4. QED BY <2>1, <2>2, <2>3
<1>13. /\ \A f \in Joinees : f # e => hosted'[f] = hosted[f]
       /\ hosted'[e] = hosted[e] \cup {[id |-> l, peer |-> j, remoteId |-> r]}
       /\ \A s \in hosted[e] : s.peer # j
  <2>1. \A s \in hosted[e] : s.id # l /\ s.peer # j
    BY <1>2, <1>12 DEF PairInv, HostedInv
  <2>2. hosted'[e] = AddSession(hosted[e], l, j, r)
    BY <1>2 DEF TypeInv, TypeOK
  <2>3. AddSession(hosted[e], l, j, r) = hosted[e] \cup {[id |-> l, peer |-> j, remoteId |-> r]}
    BY <2>1 DEF AddSession, RemoveSession
  <2>4. \A f \in Joinees : f # e => hosted'[f] = hosted[f]
    BY <1>2 DEF TypeInv, TypeOK
  <2>5. QED BY <2>1, <2>2, <2>3, <2>4
<1>14. /\ \A f \in Joinees : \A x, k, y : Hosted(f, x, k, y) => Hosted(f, x, k, y)'
       /\ Hosted(e, l, j, r)'
       /\ \A x, y : ~Hosted(e, x, j, y)
  BY <1>13 DEF Hosted
<1>15. AskInv'
  <2>1. AskInv
    BY DEF PairInv
  <2>2. \A i \in Requests' : i \in Nat /\ i + 0 \in Requests /\ toFar'[i] = toFar[i + 0]
    BY <1>6, Mail
  <2>3. \A i \in Answers' : i \in Nat /\ i + 0 \in Answers /\ toNear'[i] = toNear[i + 0]
    BY <1>2, <1>7, Mail
  <2>4. QED BY <1>2, <1>8, <2>1, <2>2, <2>3, AskKept
<1>16. \A x \in Ids, k \in Joiners, f \in Joinees : Carried(x, k, f)' => Carried(x, k, f) /\ x # r
  <2> SUFFICES ASSUME NEW x \in Ids, NEW k \in Joiners, NEW f \in Joinees, Carried(x, k, f)'
               PROVE  Carried(x, k, f) /\ x # r
    OBVIOUS
  <2>1. x # 0
    BY DEF Ids
  <2>2. Carried(x, k, f) /\ (k = j /\ f = e => FALSE)
    <3>1. ~Waits(e, j)
      BY <1>8
    <3>2. joining.status = "ok" => ~(joining.joiner = j /\ joining.joinee = e)
      BY <3>1 DEF PairInv, AskInv, Unanswered, NoJoin
    <3>3. \A i \in Answers : ~(toNear[i].joiner = j /\ toNear[i].joinee = e)
      BY <3>1 DEF PairInv, AskInv, Unanswered
    <3>4. QED BY <1>2, <1>7, <1>8, <1>9, <2>1, <3>1, <3>2, <3>3 DEF Carried
  <2>3. MadeFor(farSessions, x, k, f)
    BY <2>2 DEF PairInv, FreshInv
  <2>4. QED BY <1>11, <2>2, <2>3
<1>17. FreshInv'
  <2>1. joining'.status # "already"
    BY <1>2 DEF PairInv, FreshInv
  <2>2. \A p \in relayed : p.id # l /\ p.remoteId # r
    BY <1>11, <1>12 DEF PairInv, FreshInv
  <2>3. \A p \in relayed' : p \in relayed \/ (p.id = l /\ p.remoteId = r
                                            /\ p = [id |-> l, remoteId |-> r])
    BY <1>2
  <2>4. \A p \in relayed' : \E k \in Joiners, f \in Joinees : BothMade(p.id, p.remoteId, k, f)'
    BY <1>12, <2>3 DEF PairInv, FreshInv
  <2>5. \A p, q \in relayed' : p.id = q.id \/ p.remoteId = q.remoteId => p = q
    BY <2>2, <2>3 DEF PairInv, FreshInv
  <2>6. \A x \in Ids, k \in Joiners, f \in Joinees :
           Carried(x, k, f)' =>
              MadeFor(farSessions, x, k, f)' /\ \A p \in relayed' : p.remoteId # x
    BY <1>2, <1>16, <2>3 DEF PairInv, FreshInv, MadeFor
  <2>7. QED BY <2>1, <2>4, <2>5, <2>6 DEF FreshInv
<1>18. HostedInv'
  <2> SUFFICES ASSUME NEW f \in Joinees
               PROVE  (/\ \A s \in hosted[f] :
                             /\ Relayed(s.id, s.remoteId) /\ BothMade(s.id, s.remoteId, s.peer, f)
                             /\ s.id \in nearLive \cup nearLost
                             /\ pc[f][s.peer] = "idle"
                       /\ \A s, t \in hosted[f] : s.peer = t.peer => s = t)'
    BY DEF HostedInv
  <2>1. \A s \in hosted[f] : (/\ Relayed(s.id, s.remoteId) /\ BothMade(s.id, s.remoteId, s.peer, f)
                              /\ s.id \in nearLive \cup nearLost
                              /\ pc[f][s.peer] = "idle")'
    BY <1>2, <1>8, <1>12 DEF PairInv, HostedInv, TypeInv, TypeOK, Entry
  <2>2. CASE f # e
    BY <1>13, <2>1, <2>2 DEF PairInv, HostedInv
  <2>3. CASE f = e
    <3> DEFINE new == [id |-> l, peer |-> j, remoteId |-> r]
    <3>1. new.id = l /\ new.peer = j /\ new.remoteId = r /\ hosted'[e] = hosted[e] \cup {new}
      BY <1>13
    <3> HIDE DEF new
    <3>2. \A s \in hosted'[e] : s \in hosted[e] \/ s = new
      BY <3>1
    <3>3. l \in nearLive'
      BY <1>2
    <3>4. \A s, t \in hosted'[e] : s.peer = t.peer => s = t
      BY <1>13, <3>1, <3>2 DEF PairInv, HostedInv
    <3>5. QED BY <1>8, <1>12, <2>1, <2>3, <3>1, <3>2, <3>3, <3>4
  <2>4. QED BY <2>2, <2>3
<1>19. JoinedInv'
  <2> SUFFICES ASSUME NEW k \in Joiners, NEW s \in joined[k]
               PROVE  (/\ Relayed(s.remoteId, s.id) /\ BothMade(s.remoteId, s.id, k, s.peer)
                       /\ \/ Hosted(s.peer, s.remoteId, k, s.id)
                          \/ \E p \in Losses : IsLoss(p, s.remoteId, k))'
    BY <1>2 DEF PairInv, JoinedInv
  <2>1. s.peer \in Joinees
    BY DEF TypeInv, TypeOK, Entry
  <2>2. /\ Relayed(s.remoteId, s.id) /\ BothMade(s.remoteId, s.id, k, s.peer)
        /\ \/ Hosted(s.peer, s.remoteId, k, s.id)
           \/ \E p \in Losses : IsLoss(p, s.remoteId, k)
    BY DEF PairInv, JoinedInv
  <2>3. \A p \in Losses : IsLoss(p, s.remoteId, k) => p \in Losses' /\ IsLoss(p, s.remoteId, k)'
    BY <1>6 DEF IsLoss
  <2>4. QED BY <1>12, <1>14, <2>1, <2>2, <2>3
<1>20. \A k \in Joiners : \A s \in joined[k] : s.remoteId # l
  BY <1>12 DEF PairInv, JoinedInv
<1>21. RecordInv'
  <2>1. ASSUME NEW i \in Records', NEW x \in SessionJoined, toFar'[i] = x
        PROVE  (/\ Relayed(x.localId, x.remoteId)
                /\ BothMade(x.localId, x.remoteId, x.joiner, x.joinee)
                /\ \/ Hosted(x.joinee, x.localId, x.joiner, x.remoteId)
                   \/ \E k \in Losses : k > i /\ IsLoss(k, x.localId, x.joiner)
                /\ \A k \in Records : toFar[k].localId = x.localId => k = i
                /\ \A s \in joined[x.joiner] : s.remoteId # x.localId)'
    <3>0. \A k \in Records : toFar[k].localId # l
      BY <1>12, Recorded DEF PairInv
    <3>1. CASE i = n
      <4>1. x.localId = l /\ x.remoteId = r /\ x.joiner = j /\ x.joinee = e
        BY <1>6, <2>1, <3>1
      <4>2. \A k \in Records' : toFar'[k].localId = l => k = i
        BY <1>6, <3>0, <3>1
      <4>3. QED BY <1>2, <1>12, <1>14, <1>20, <4>1, <4>2
    <3>2. CASE i # n
      <4>1. i \in Records /\ toFar[i] = x
        BY <1>6, <2>1, <3>2
      <4>2. x.joinee \in Joinees
        BY DEF SessionJoined
      <4>3. /\ Relayed(x.localId, x.remoteId)
            /\ BothMade(x.localId, x.remoteId, x.joiner, x.joinee)
            /\ \/ Hosted(x.joinee, x.localId, x.joiner, x.remoteId)
               \/ \E k \in Losses : k > i /\ IsLoss(k, x.localId, x.joiner)
            /\ \A k \in Records : toFar[k].localId = x.localId => k = i
            /\ \A s \in joined[x.joiner] : s.remoteId # x.localId
        BY <4>1 DEF PairInv, RecordInv
      <4>4. \A k \in Losses : IsLoss(k, x.localId, x.joiner) =>
               k \in Losses' /\ IsLoss(k, x.localId, x.joiner)'
        BY <1>6 DEF IsLoss
      <4>5. \A k \in Records' : toFar'[k].localId = x.localId => k = i
        BY <1>6, <1>12, <4>3
      <4>6. QED BY <1>2, <1>12, <1>14, <4>2, <4>3, <4>4, <4>5
    <3>3. QED BY <3>1, <3>2
  <2>2. \A k \in Losses' :
           /\ toFar'[k].id \in Numbers(nearSessions')
           /\ \A i \in Records' : toFar'[i].localId = toFar'[k].id => i < k
    BY <1>3, <1>6 DEF PairInv, RecordInv
  <2>3. QED BY <2>1, <2>2 DEF RecordInv
<1>22. OrderInv'
  <2> SUFFICES ASSUME NEW i \in Requests' \cup Records'
               PROVE  (/\ \A s \in joined[toFar[i].joiner] : s.peer = toFar[i].joinee =>
                            \E k \in Losses : k < i /\ IsLoss(k, s.remoteId, toFar[i].joiner)
                       /\ \A q \in Records :
                            toFar[q].joiner = toFar[i].joiner /\ toFar[q].joinee = toFar[i].joinee =>
                               /\ q < i => \E k \in Losses : q < k /\ k < i
                                               /\ IsLoss(k, toFar[q].localId, toFar[i].joiner)
                               /\ i \in Requests => q < i)'
    BY DEF OrderInv
  <2>1. CASE i = n
    <3>1. \A s \in joined[j] : s.peer = e => \E k \in Losses : IsLoss(k, s.remoteId, j)
      BY <1>14 DEF PairInv, JoinedInv
    <3>2. \A k \in Records : toFar[k].joiner = j /\ toFar[k].joinee = e =>
             \E p \in Losses : p > k /\ IsLoss(p, toFar[k].localId, j)
      BY <1>14, Recorded DEF PairInv
    <3>3. toFar'[i].joiner = j /\ toFar'[i].joinee = e
      BY <1>6, <2>1
    <3>4. /\ \A k \in Losses' : k \in Losses /\ k < i /\ toFar'[k] = toFar[k]
          /\ \A k \in Losses : k \in Losses'
          /\ \A k \in Records' : k = i \/ (k \in Records /\ k < i /\ toFar'[k] = toFar[k])
          /\ i \notin Requests' /\ i \in Nat
      BY <1>6, <2>1, Mail
    <3>5. \A s \in joined'[j] : s.peer = e => \E k \in Losses' : k < i /\ IsLoss(k, s.remoteId, j)'
      BY <1>2a, <3>1, <3>4 DEF IsLoss
    <3>6. \A k \in Records' : k < i /\ toFar'[k].joiner = j /\ toFar'[k].joinee = e =>
             \E p \in Losses' : p > k /\ p < i
                               /\ toFar'[p].id = toFar'[k].localId /\ toFar'[p].peer = j
      BY <3>2, <3>4 DEF IsLoss
    <3>7. \A k, p \in Losses \cup Records : k \in Nat /\ p \in Nat /\ (p > k => k < p)
      BY Mail
    <3>8. QED BY <1>6, <2>1, <3>3, <3>4, <3>5, <3>6, <3>7 DEF IsLoss
  <2>2. CASE i # n
    <3>1. i \in Requests \cup Records /\ toFar'[i] = toFar[i] /\ (i \in Requests' <=> i \in Requests)
      BY <1>6, <2>2
    <3>2. i < n /\ i \in Nat
      BY <1>6, <3>1, Mail
    <3>3. i \in Requests => ~(toFar[i].joiner = j /\ toFar[i].joinee = e)
      BY <1>8 DEF PairInv, AskInv, Unanswered
    <3>4. ~(n < i) /\ toFar'[n].joiner = j /\ toFar'[n].joinee = e
      BY <1>6, <3>2
    <3>5. \A k \in Losses : k \in Losses' /\ toFar'[k] = toFar[k]
      BY <1>6
    <3>6. \A s \in joined'[toFar'[i].joiner] : s.peer = toFar'[i].joinee =>
             \E k \in Losses' : k < i /\ toFar'[k].id = s.remoteId /\ toFar'[k].peer = toFar'[i].joiner
      <4>1. \A s \in joined[toFar[i].joiner] : s.peer = toFar[i].joinee =>
               \E k \in Losses : k < i /\ toFar[k].id = s.remoteId /\ toFar[k].peer = toFar[i].joiner
        BY <3>1 DEF PairInv, OrderInv, IsLoss
      <4>2. QED BY <1>2a, <3>1, <3>5, <4>1
    <3>7. ASSUME NEW q \in Records', toFar'[q].joiner = toFar'[i].joiner,
                 toFar'[q].joinee = toFar'[i].joinee
          PROVE  /\ q < i => \E k \in Losses' : /\ q < k /\ k < i
                                               /\ toFar'[k].id = toFar'[q].localId
                                               /\ toFar'[k].peer = toFar'[i].joiner
                 /\ i \in Requests' => q < i
      <4>1. CASE q = n
        BY <3>1, <3>3, <3>4, <3>7, <4>1
      <4>2. CASE q # n
        <5>1. q \in Records /\ toFar'[q] = toFar[q]
          BY <1>6, <4>2
        <5>2. QED BY <3>1, <3>5, <3>7, <5>1 DEF PairInv, OrderInv, IsLoss
      <4>3. QED BY <4>1, <4>2
    <3>8. QED BY <3>6, <3>7 DEF IsLoss
  <2>3. QED BY <2>1, <2>2
<1>23. EndingInv'
  <2>1. \A i \in Endings : toNear[i].id # r
    BY <1>11 DEF PairInv, EndingInv
  <2>2. \A k \in Records' : (k \in Records /\ toFar'[k] = toFar[k]) \/ toFar'[k].remoteId = r
    BY <1>6
  <2>3. UNCHANGED <<toNear, joined>>
    BY <1>2
  <2>4. QED BY <1>2a, <1>7, <2>1, <2>2, <2>3 DEF PairInv, EndingInv
<1>24. LiveInv'
  <2> SUFFICES ASSUME NEW s \in farSessions, s.id \in farLive
               PROVE  (\/ Carried(s.id, s.joiner, s.joinee)
                       \/ \E t \in joined[s.joiner] : t.id = s.id
                       \/ \E i \in Records : toFar[i].remoteId = s.id)'
    BY <1>2 DEF PairInv, LiveInv
  <2>1. s.id \in Ids /\ s.joiner \in Joiners /\ s.joinee \in Joinees
    BY DEF TypeInv, TypeOK, Session
  <2>2. CASE s.id = r
    BY <1>6, <2>2
  <2>3. CASE s.id # r /\ Carried(s.id, s.joiner, s.joinee)
    <3>1. s.joiner = j /\ s.joinee = e => pendingSessionJoiners[s.joinee][s.joiner] = r
      BY <1>1
    <3>2. Carried(s.id, s.joiner, s.joinee)'
      BY <1>2, <1>7, <1>8, <1>9, <2>1, <2>3, <3>1 DEF Carried
    <3>3. QED BY <3>2
  <2>4. CASE ~Carried(s.id, s.joiner, s.joinee)
    BY <1>2, <1>6, <2>4 DEF PairInv, LiveInv
  <2>5. QED BY <2>2, <2>3, <2>4
<1>25. QED BY <1>15, <1>17, <1>18, <1>19, <1>21, <1>22, <1>23, <1>24 DEF PairInv

(* An application leaves: only the daemon knows yet.                       *)
LEMMA PairLeave ==
    ASSUME TypeInv, PairInv, NEW id \in Ids, JoinerLeaves(id) \/ JoineeLeaves(id)
    PROVE  PairInv'
<1>1. /\ UNCHANGED <<pc, sessionJoinedSignalReceived, remoteSessionId, pendingSessionJoiners,
                     hosted, joining, joined, nearSessions, farSessions, toFar, toNear, relayed>>
      /\ nearLive' \cup nearLost' = nearLive \cup nearLost
      /\ \/ UNCHANGED <<farLive, farLost>>
         \/ farLive' = farLive \ {id} /\ farLost' = farLost \cup {id}
  BY DEF JoinerLeaves, JoineeLeaves, near, listener, far, farBus, nearBus, link
<1>2. AskInv' /\ FreshInv'
  BY <1>1 DEF PairInv, AskInv, FreshInv, Unanswered, Waits, Carried, BothMade, MadeFor,
              Requests, Answers
<1>3. HostedInv' /\ JoinedInv'
  <2>1. HostedInv'
    BY <1>1 DEF PairInv, HostedInv, Relayed, BothMade, MadeFor
  <2>2. JoinedInv'
    BY <1>1 DEF PairInv, JoinedInv, Relayed, BothMade, MadeFor, Hosted, IsLoss, Losses
  <2>3. QED BY <2>1, <2>2
<1>4. RecordInv'
  BY <1>1 DEF PairInv, RecordInv, Relayed, BothMade, MadeFor, Hosted, IsLoss, Losses, Records
<1>5. OrderInv' /\ EndingInv'
  BY <1>1 DEF PairInv, OrderInv, EndingInv, IsLoss, Losses, Records, Requests, Endings
<1>6. LiveInv'
  BY <1>1 DEF PairInv, LiveInv, Carried, Waits, Records, Answers
<1>7. QED BY <1>2, <1>3, <1>4, <1>5, <1>6 DEF PairInv

(* The attachment of a joinee hears of the end of a near session and       *)
(* reports it, behind the record.                                          *)
LEMMA PairNearLost ==
    ASSUME TypeInv, PairInv, NEW id \in Ids, NearSessionLost(id)
    PROVE  PairInv'
<1>1. PICK e : e = (CHOOSE s \in nearSessions : s.id = id).joinee
  OBVIOUS
<1> DEFINE known == {s \in hosted[e] : s.id = id}
<1>2. /\ UNCHANGED <<pc, sessionJoinedSignalReceived, remoteSessionId, pendingSessionJoiners,
                     joining, joined, nearSessions, nearLive, farSessions, farLive, farLost,
                     toNear, relayed>>
      /\ id \in nearLost /\ nearLost' = nearLost \ {id}
      /\ hosted' = [hosted EXCEPT ![e] = RemoveSession(@, id)]
      /\ toFar' = IF known = {} THEN toFar
                  ELSE Append(toFar, [type |-> "SessionLost", id |-> id,
                                      peer |-> (CHOOSE s \in known : TRUE).peer])
  BY <1>1 DEF NearSessionLost, listener, far, farBus
<1>2a. UNCHANGED <<joined, relayed, nearSessions, farSessions, farLive, farLost, toNear>>
  BY <1>2
<1>3. id \in Numbers(nearSessions) /\ Numbered(nearSessions)
  BY <1>2 DEF TypeInv, CountInv
<1>4. e \in Joinees /\ \A k, f : MadeFor(nearSessions, id, k, f) => f = e
  <2>1. PICK s \in nearSessions : s.id = id /\ e = s.joinee
    BY <1>1, <1>3 DEF Numbers
  <2>2. \A k, f : MadeFor(nearSessions, id, k, f) => f = e
    BY <1>3, <2>1 DEF MadeFor, Numbered
  <2>3. QED BY <2>1, <2>2 DEF TypeInv, TypeOK, Session
<1>5. /\ \A f \in Joinees : f # e => hosted'[f] = hosted[f]
      /\ hosted'[e] = {s \in hosted[e] : s.id # id}
      /\ \A f \in Joinees : \A s \in hosted'[f] : s \in hosted[f] /\ s.id # id
  <2>1. /\ \A f \in Joinees : f # e => hosted'[f] = hosted[f]
        /\ hosted'[e] = {s \in hosted[e] : s.id # id}
    BY <1>2, <1>4 DEF TypeInv, TypeOK, RemoveSession
  <2>2. \A f \in Joinees : \A s \in hosted[f] : s.id = id => f = e
    BY <1>4 DEF PairInv, HostedInv, BothMade
  <2>3. QED BY <2>1, <2>2
<1>6. /\ Requests' = Requests /\ Records' = Records
      /\ \A i \in Requests \cup Records \cup Losses : toFar'[i] = toFar[i]
      /\ \A i \in Losses : i \in Losses'
      /\ \A k \in Losses' : k \in Losses \/ (toFar'[k].id = id /\ \A i \in Records : i < k)
      /\ \A l, k, r : Hosted(e, l, k, r) /\ l = id =>
            \E p \in Losses' : /\ toFar'[p].id = id /\ toFar'[p].peer = k
                               /\ \A i \in Records : i < p
  <2>1. CASE known = {}
    <3>1. toFar' = toFar
      BY <1>2, <2>1
    <3>2. \A l, k, r : ~(Hosted(e, l, k, r) /\ l = id)
      BY <2>1 DEF Hosted
    <3>3. QED BY <3>1, <3>2 DEF Requests, Records, Losses
  <2>2. CASE known # {}
    <3>1. PICK s : s = CHOOSE x \in known : TRUE
      OBVIOUS
    <3>2. s \in known /\ s.id = id /\ s.peer \in Joiners
      BY <1>4, <2>2, <3>1 DEF TypeInv, TypeOK, Entry
    <3>3. \A l, k, r : Hosted(e, l, k, r) /\ l = id => k = s.peer
      <4>1. MadeFor(nearSessions, id, s.peer, e)
        BY <1>4, <3>2 DEF PairInv, HostedInv, BothMade
      <4>2. \A l, k, r : Hosted(e, l, k, r) /\ l = id => MadeFor(nearSessions, id, k, e)
        BY <1>4 DEF PairInv, HostedInv, BothMade, Hosted
      <4>3. QED BY <1>3, <4>1, <4>2, OneMaker
    <3> DEFINE m == [type |-> "SessionLost", id |-> id, peer |-> s.peer]
    <3>4. m \in FarMail /\ m.type = "SessionLost" /\ m.id = id /\ m.peer = s.peer
      BY <3>2 DEF FarMail, SessionLost
    <3>5. toFar' = Append(toFar, m)
      BY <1>2, <2>2, <3>1
    <3> HIDE DEF m
    <3>6. PICK n \in Nat :
             /\ toFar'[n] = m
             /\ \A i \in Requests \cup Records \cup Losses : i < n /\ toFar'[i] = toFar[i]
             /\ Requests' = Requests /\ Records' = Records /\ Losses' = Losses \cup {n}
      <4>1. PICK n \in Nat :
               /\ toFar'[n] = m
               /\ \A i \in Requests \cup Records \cup Losses : i < n /\ toFar'[i] = toFar[i]
               /\ Requests' = Requests \cup (IF m.type = "JoinRequest" THEN {n} ELSE {})
               /\ Records' = Records \cup (IF m.type = "SessionJoined" THEN {n} ELSE {})
               /\ Losses' = Losses \cup (IF m.type = "SessionLost" THEN {n} ELSE {})
        BY <3>4, <3>5, FarAppended
      <4>2. QED BY <3>4, <4>1
    <3>7. QED BY <3>3, <3>4, <3>6
  <2>3. QED BY <2>1, <2>2
<1>7. Answers' = Answers /\ Endings' = Endings
  BY <1>2 DEF Answers, Endings
<1>8. /\ \A l, r : Relayed(l, r)' <=> Relayed(l, r)
      /\ \A l, r, k, f : BothMade(l, r, k, f)' <=> BothMade(l, r, k, f)
      /\ \A r, k, f : Carried(r, k, f)' <=> Carried(r, k, f)
  BY <1>2, <1>7 DEF Relayed, BothMade, MadeFor, Carried, Waits
<1>9. AskInv'
  <2>1. AskInv
    BY DEF PairInv
  <2>2. \A i \in Requests' : i \in Nat /\ i + 0 \in Requests /\ toFar'[i] = toFar[i + 0]
    BY <1>6, Mail
  <2>3. \A i \in Answers' : i \in Nat /\ i + 0 \in Answers /\ toNear'[i] = toNear[i + 0]
    BY <1>2, <1>7, Mail
  <2>4. \A f \in Joinees, k \in Joiners : Waits(f, k)' <=> Waits(f, k)
    BY <1>2 DEF Waits
  <2>5. QED BY <1>2, <2>1, <2>2, <2>3, <2>4, AskKept
<1>10. FreshInv'
  BY <1>2, <1>8 DEF PairInv, FreshInv, MadeFor
<1>11. HostedInv'
  BY <1>2, <1>5, <1>8 DEF PairInv, HostedInv
<1>12. ASSUME NEW f \in Joinees, NEW l, NEW k, NEW r, Hosted(f, l, k, r), BothMade(l, r, k, f)
       PROVE  \/ Hosted(f, l, k, r)'
              \/ \E p \in Losses' : /\ toFar'[p].id = l /\ toFar'[p].peer = k
                                    /\ \A i \in Records : i < p
  <2>1. CASE l = id
    <3>1. f = e
      BY <1>4, <1>12, <2>1 DEF BothMade
    <3>2. QED BY <1>6, <1>12, <2>1, <3>1
  <2>2. CASE l # id
    BY <1>5, <1>12, <2>2 DEF Hosted
  <2>3. QED BY <2>1, <2>2
<1>13. JoinedInv'
  <2> SUFFICES ASSUME NEW k \in Joiners, NEW s \in joined[k]
               PROVE  (/\ Relayed(s.remoteId, s.id) /\ BothMade(s.remoteId, s.id, k, s.peer)
                       /\ \/ Hosted(s.peer, s.remoteId, k, s.id)
                          \/ \E p \in Losses : IsLoss(p, s.remoteId, k))'
    BY <1>2 DEF PairInv, JoinedInv
  <2>1. s.peer \in Joinees
    BY DEF TypeInv, TypeOK, Entry
  <2>2. /\ Relayed(s.remoteId, s.id) /\ BothMade(s.remoteId, s.id, k, s.peer)
        /\ \/ Hosted(s.peer, s.remoteId, k, s.id)
           \/ \E p \in Losses : IsLoss(p, s.remoteId, k)
    BY DEF PairInv, JoinedInv
  <2>3. \A p \in Losses : IsLoss(p, s.remoteId, k) => p \in Losses' /\ IsLoss(p, s.remoteId, k)'
    BY <1>6 DEF IsLoss
  <2>4. QED BY <1>8, <1>12, <2>1, <2>2, <2>3 DEF IsLoss
<1>14. RecordInv'
  <2>1. ASSUME NEW i \in Records', NEW x \in SessionJoined, toFar'[i] = x
        PROVE  (/\ Relayed(x.localId, x.remoteId)
                /\ BothMade(x.localId, x.remoteId, x.joiner, x.joinee)
                /\ \/ Hosted(x.joinee, x.localId, x.joiner, x.remoteId)
                   \/ \E k \in Losses : k > i /\ IsLoss(k, x.localId, x.joiner)
                /\ \A k \in Records : toFar[k].localId = x.localId => k = i
                /\ \A s \in joined[x.joiner] : s.remoteId # x.localId)'
    <3>1. i \in Records /\ toFar[i] = x /\ x.joinee \in Joinees
      BY <1>6, <2>1 DEF SessionJoined
    <3>2. /\ Relayed(x.localId, x.remoteId)
          /\ BothMade(x.localId, x.remoteId, x.joiner, x.joinee)
          /\ \/ Hosted(x.joinee, x.localId, x.joiner, x.remoteId)
             \/ \E k \in Losses : k > i /\ IsLoss(k, x.localId, x.joiner)
          /\ \A k \in Records : toFar[k].localId = x.localId => k = i
          /\ \A s \in joined[x.joiner] : s.remoteId # x.localId
      BY <3>1 DEF PairInv, RecordInv
    <3>3. \A k \in Losses : IsLoss(k, x.localId, x.joiner) =>
             k \in Losses' /\ IsLoss(k, x.localId, x.joiner)'
      BY <1>6 DEF IsLoss
    <3>4. \/ Hosted(x.joinee, x.localId, x.joiner, x.remoteId)'
          \/ \E k \in Losses' : k > i /\ IsLoss(k, x.localId, x.joiner)'
      <4>1. \A p : i < p => p > i
        OBVIOUS
      <4>2. QED BY <1>12, <3>1, <3>2, <3>3, <4>1 DEF IsLoss
    <3>5. QED BY <1>2, <1>6, <1>8, <3>2, <3>4
  <2>2. \A k \in Losses' :
           /\ toFar'[k].id \in Numbers(nearSessions')
           /\ \A i \in Records' : toFar'[i].localId = toFar'[k].id => i < k
    <3> TAKE k \in Losses'
    <3>1. CASE k \in Losses
      BY <1>2a, <1>6, <3>1 DEF PairInv, RecordInv
    <3>2. CASE k \notin Losses
      BY <1>2a, <1>3, <1>6, <3>2
    <3>3. QED BY <3>1, <3>2
  <2>3. QED BY <2>1, <2>2 DEF RecordInv
<1>15. OrderInv'
  <2>1. ASSUME NEW i \in Requests \cup Records
        PROVE  /\ \A s \in joined'[toFar'[i].joiner] : s.peer = toFar'[i].joinee =>
                     \E k \in Losses' : k < i /\ toFar'[k].id = s.remoteId
                                        /\ toFar'[k].peer = toFar'[i].joiner
               /\ \A q \in Records' :
                     toFar'[q].joiner = toFar'[i].joiner /\ toFar'[q].joinee = toFar'[i].joinee =>
                        /\ q < i => \E k \in Losses' : /\ q < k /\ k < i
                                                       /\ toFar'[k].id = toFar'[q].localId
                                                       /\ toFar'[k].peer = toFar'[i].joiner
                        /\ i \in Requests' => q < i
    <3>1. /\ \A s \in joined[toFar[i].joiner] : s.peer = toFar[i].joinee =>
                \E k \in Losses : k < i /\ toFar[k].id = s.remoteId
                                   /\ toFar[k].peer = toFar[i].joiner
          /\ \A q \in Records :
                toFar[q].joiner = toFar[i].joiner /\ toFar[q].joinee = toFar[i].joinee =>
                   /\ q < i => \E k \in Losses : /\ q < k /\ k < i
                                                  /\ toFar[k].id = toFar[q].localId
                                                  /\ toFar[k].peer = toFar[i].joiner
                   /\ i \in Requests => q < i
      BY DEF PairInv, OrderInv, IsLoss
    <3>2. QED BY <1>2a, <1>6, <3>1
  <2>2. QED BY <1>6, <2>1 DEF OrderInv, IsLoss
<1>16. EndingInv'
  BY <1>2a, <1>6, <1>7 DEF PairInv, EndingInv
<1>17. LiveInv'
  BY <1>2a, <1>6, <1>8 DEF PairInv, LiveInv
<1>18. QED
  BY <1>9, <1>10, <1>11, <1>13, <1>14, <1>15, <1>16, <1>17 DEF PairInv

(* The attachment of a joiner hears of the end of a far session and        *)
(* reports it.                                                             *)
LEMMA PairFarLost ==
    ASSUME TypeInv, PairInv, NEW id \in Ids, FarSessionLost(id)
    PROVE  PairInv'
<1>1. PICK j : j = (CHOOSE s \in farSessions : s.id = id).joiner
  OBVIOUS
<1> DEFINE known == {s \in joined[j] : s.id = id}
<1>2. /\ id \in farLost /\ farLost' = farLost \ {id}
      /\ joined' = [joined EXCEPT ![j] = RemoveSession(@, id)]
      /\ toNear' = IF known = {} THEN toNear
                   ELSE Append(toNear, [type |-> "SessionLost", id |-> id,
                                        peer |-> (CHOOSE s \in known : TRUE).peer])
  BY <1>1 DEF FarSessionLost
<1>3. UNCHANGED <<pc, sessionJoinedSignalReceived, remoteSessionId, pendingSessionJoiners, hosted,
                  joining, nearSessions, nearLive, nearLost, farSessions, farLive, toFar, relayed>>
  BY DEF FarSessionLost, near, listener, nearBus
<1>4. id \in Numbers(farSessions) /\ Numbered(farSessions)
  BY <1>2 DEF TypeInv, CountInv
<1>5. j \in Joiners /\ \A k, f : MadeFor(farSessions, id, k, f) => k = j
  <2>1. PICK s \in farSessions : s.id = id /\ j = s.joiner
    BY <1>1, <1>4 DEF Numbers
  <2>2. \A k, f : MadeFor(farSessions, id, k, f) => k = j
    BY <1>4, <2>1 DEF MadeFor, Numbered
  <2>3. QED BY <2>1, <2>2 DEF TypeInv, TypeOK, Session
<1>6. /\ \A k \in Joiners : \A s \in joined'[k] : s \in joined[k] /\ s.id # id
      /\ \A k \in Joiners : \A s \in joined[k] : s.id # id => s \in joined'[k]
  <2>1. /\ \A k \in Joiners : k # j => joined'[k] = joined[k]
        /\ joined'[j] = {s \in joined[j] : s.id # id}
    BY <1>2, <1>5 DEF TypeInv, TypeOK, RemoveSession
  <2>2. \A k \in Joiners : \A s \in joined[k] : s.id = id => k = j
    BY <1>5 DEF PairInv, JoinedInv, BothMade
  <2>3. QED BY <2>1, <2>2
<1>7. /\ Requests' = Requests /\ Records' = Records /\ Losses' = Losses
      /\ Answers' = Answers
      /\ \A i \in Answers : toNear'[i] = toNear[i]
      /\ \A i \in Endings' : (i \in Endings /\ toNear'[i] = toNear[i])
                             \/ (toNear'[i].id = id /\ known # {})
  <2>1. Requests' = Requests /\ Records' = Records /\ Losses' = Losses
    BY <1>3 DEF Requests, Records, Losses
  <2>2. CASE known = {}
    <3>1. toNear' = toNear
      BY <1>2, <2>2
    <3>2. QED BY <2>1, <3>1 DEF Answers, Endings
  <2>3. CASE known # {}
    <3>1. PICK s : s = CHOOSE x \in known : TRUE
      OBVIOUS
    <3>2. s.peer \in Joinees
      BY <1>5, <2>3, <3>1 DEF TypeInv, TypeOK, Entry
    <3> DEFINE m == [type |-> "SessionLost", id |-> id, peer |-> s.peer]
    <3>3. m \in NearMail /\ m.type = "SessionLost" /\ m.id = id
      BY <3>2 DEF NearMail, SessionLost
    <3>4. toNear' = Append(toNear, m)
      BY <1>2, <2>3, <3>1
    <3> HIDE DEF m
    <3>5. PICK n \in Nat :
             /\ toNear'[n] = m
             /\ \A i \in Answers \cup Endings : i < n /\ toNear'[i] = toNear[i]
             /\ Answers' = Answers \cup (IF m.type = "JoinResponse" THEN {n} ELSE {})
             /\ Endings' = Endings \cup (IF m.type = "SessionLost" THEN {n} ELSE {})
      BY <3>3, <3>4, NearAppended
    <3>6. QED BY <2>1, <2>3, <3>3, <3>5
  <2>4. QED BY <2>2, <2>3
<1>8. /\ \A l, r : Relayed(l, r)' <=> Relayed(l, r)
      /\ \A l, r, k, f : BothMade(l, r, k, f)' <=> BothMade(l, r, k, f)
      /\ \A f, l, k, r : Hosted(f, l, k, r)' <=> Hosted(f, l, k, r)
      /\ \A r, k, f : Carried(r, k, f)' <=> Carried(r, k, f)
  BY <1>3, <1>7 DEF Relayed, BothMade, MadeFor, Hosted, Carried, Waits
<1>9. AskInv'
  <2>1. AskInv
    BY DEF PairInv
  <2>2. \A i \in Requests' : i \in Nat /\ i + 0 \in Requests /\ toFar'[i] = toFar[i + 0]
    BY <1>3, <1>7, Mail
  <2>3. \A i \in Answers' : i \in Nat /\ i + 0 \in Answers /\ toNear'[i] = toNear[i + 0]
    BY <1>7, Mail
  <2>4. \A f \in Joinees, k \in Joiners : Waits(f, k)' <=> Waits(f, k)
    BY <1>3 DEF Waits
  <2>5. QED BY <1>3, <2>1, <2>2, <2>3, <2>4, AskKept
<1>10. FreshInv' /\ HostedInv'
  BY <1>3, <1>8 DEF PairInv, FreshInv, HostedInv, MadeFor
<1>11. JoinedInv'
  BY <1>3, <1>6, <1>7, <1>8 DEF PairInv, JoinedInv, IsLoss
<1>12. RecordInv'
  <2>1. ASSUME NEW i \in Records', NEW x \in SessionJoined, toFar'[i] = x
        PROVE  (/\ Relayed(x.localId, x.remoteId)
                /\ BothMade(x.localId, x.remoteId, x.joiner, x.joinee)
                /\ \/ Hosted(x.joinee, x.localId, x.joiner, x.remoteId)
                   \/ \E k \in Losses : k > i /\ IsLoss(k, x.localId, x.joiner)
                /\ \A k \in Records : toFar[k].localId = x.localId => k = i
                /\ \A s \in joined[x.joiner] : s.remoteId # x.localId)'
    <3>1. i \in Records /\ toFar[i] = x /\ x.joiner \in Joiners
      BY <1>3, <1>7, <2>1 DEF SessionJoined
    <3>2. QED BY <1>3, <1>6, <1>7, <1>8, <3>1 DEF PairInv, RecordInv, IsLoss
  <2>2. \A k \in Losses' :
           /\ toFar'[k].id \in Numbers(nearSessions')
           /\ \A i \in Records' : toFar'[i].localId = toFar'[k].id => i < k
    BY <1>3, <1>7 DEF PairInv, RecordInv
  <2>3. QED BY <2>1, <2>2 DEF RecordInv
<1>13. OrderInv'
  <2>1. \A i \in Requests \cup Records : toFar[i].joiner \in Joiners
    BY Mail DEF JoinRequest, SessionJoined
  <2>2. QED BY <1>3, <1>6, <1>7, <2>1 DEF PairInv, OrderInv, IsLoss
<1>14. EndingInv'
  <2> SUFFICES ASSUME NEW i \in Endings'
               PROVE  /\ \E p \in relayed : p.remoteId = toNear'[i].id
                      /\ \A k \in Joiners : \A s \in joined'[k] : s.id # toNear'[i].id
                      /\ \A k \in Records : toFar[k].remoteId # toNear'[i].id
    BY <1>3, <1>7 DEF EndingInv
  <2>1. CASE i \in Endings /\ toNear'[i] = toNear[i]
    BY <1>6, <2>1 DEF PairInv, EndingInv
  <2>2. CASE toNear'[i].id = id /\ known # {}
    <3>1. PICK s \in joined[j] : s.id = id
      BY <2>2
    <3>2. Relayed(s.remoteId, id)
      BY <1>5, <3>1 DEF PairInv, JoinedInv
    <3>3. \A k \in Records : toFar[k].remoteId # id
      <4> SUFFICES ASSUME NEW k \in Records, toFar[k].remoteId = id PROVE FALSE
        OBVIOUS
      <4>1. toFar[k].joiner = j
        BY <1>5, Recorded DEF PairInv, BothMade
      <4>2. Relayed(toFar[k].localId, id)
        BY Recorded DEF PairInv
      <4>3. toFar[k].localId = s.remoteId
        BY <3>2, <4>2 DEF PairInv, FreshInv, Relayed
      <4>4. QED BY <3>1, <4>1, <4>3, Recorded DEF PairInv
    <3>4. QED BY <1>6, <2>2, <3>2, <3>3 DEF Relayed
  <2>3. QED BY <1>7, <2>1, <2>2
<1>15. LiveInv'
  <2>1. \A s \in farSessions : s.joiner \in Joiners
    BY DEF TypeInv, TypeOK, Session
  <2>2. id \notin farLive
    BY <1>2 DEF PairInv, LiveInv
  <2>3. farLive' \cap farLost' = {}
    BY <1>2, <1>3 DEF PairInv, LiveInv
  <2>4. \A s \in farSessions' : s.id \in farLive' =>
           \/ Carried(s.id, s.joiner, s.joinee)'
           \/ \E t \in joined'[s.joiner] : t.id = s.id
           \/ \E i \in Records' : toFar'[i].remoteId = s.id
    BY <1>3, <1>6, <1>7, <1>8, <2>1, <2>2 DEF PairInv, LiveInv
  <2>5. QED BY <2>3, <2>4 DEF LiveInv
<1>16. QED BY <1>9, <1>10, <1>11, <1>12, <1>13, <1>14, <1>15 DEF PairInv

(* The answer reaches the listener, which is waiting for it.               *)
LEMMA PairResponse ==
    ASSUME TypeInv, PairInv, ReceiveJoinResponse
    PROVE  PairInv'
<1>1. PICK e, id : e = Head(toNear).joinee /\ id = Head(toNear).id
  OBVIOUS
<1>2. /\ toNear # <<>> /\ toNear' = Tail(toNear) /\ Head(toNear).type = "JoinResponse"
      /\ sessionJoinedSignalReceived' = [sessionJoinedSignalReceived EXCEPT ![e] = TRUE]
      /\ remoteSessionId' = [remoteSessionId EXCEPT ![e] = id]
      /\ \/ \E j \in Joiners : pc[e][j] = "waiting" /\ pc' = [pc EXCEPT ![e][j] = "woken"]
         \/ UNCHANGED pc
  BY <1>1 DEF ReceiveJoinResponse
<1>3. UNCHANGED <<pendingSessionJoiners, hosted, joining, joined, nearSessions, nearLive, nearLost,
                  farSessions, farLive, farLost, toFar, relayed>>
  BY DEF ReceiveJoinResponse, far, nearBus, farBus
<1>4. /\ 1 \in Answers /\ toNear[1].joinee = e /\ toNear[1].id = id
      /\ \A i \in Answers' : i \in Nat /\ i > 0 /\ i + 1 \in Answers /\ toNear'[i] = toNear[i + 1]
      /\ \A i \in Endings' : i \in Nat /\ i + 1 \in Endings /\ toNear'[i] = toNear[i + 1]
      /\ Requests' = Requests /\ Records' = Records /\ Losses' = Losses
  BY <1>1, <1>2, <1>3, NearTaken DEF Requests, Records, Losses
<1>5. PICK j \in Joiners : toNear[1].joiner = j
  BY <1>4, Mail DEF JoinResponse
<1>6. e \in Joinees
  BY <1>4, Mail DEF JoinResponse
<1>7. /\ \A f \in Joinees, k \in Joiners : Waits(f, k)' <=> Waits(f, k)
      /\ \A f \in Joinees, k \in Joiners : pc[f][k] = "idle" => pc'[f][k] = "idle"
  <2>1. CASE UNCHANGED pc
    BY <2>1 DEF Waits
  <2>2. ASSUME NEW k \in Joiners, pc[e][k] = "waiting", pc' = [pc EXCEPT ![e][k] = "woken"]
        PROVE  /\ \A f \in Joinees, i \in Joiners : Waits(f, i)' <=> Waits(f, i)
               /\ \A f \in Joinees, i \in Joiners : pc[f][i] = "idle" => pc'[f][i] = "idle"
    <3>1. \A f \in Joinees, i \in Joiners :
             pc'[f][i] = IF f = e /\ i = k THEN "woken" ELSE pc[f][i]
      BY <2>2 DEF TypeInv, TypeOK
    <3>2. QED BY <2>2, <3>1 DEF Waits
  <2>3. QED BY <1>2, <2>1, <2>2
<1>8. /\ \A f \in Joinees : f # e =>
            /\ sessionJoinedSignalReceived'[f] = sessionJoinedSignalReceived[f]
            /\ remoteSessionId'[f] = remoteSessionId[f]
      /\ sessionJoinedSignalReceived'[e] = TRUE /\ remoteSessionId'[e] = id
  BY <1>2, <1>6 DEF TypeInv, TypeOK
<1>9. /\ Waits(e, j) /\ remoteSessionId[e] = 0
      /\ \A k \in Joiners : Waits(e, k) => k = j
      /\ \A i \in Requests : toFar[i].joinee # e
      /\ joining # NoJoin => joining.joinee # e
      /\ \A k \in Answers : toNear[k].joinee = e => k = 1
  BY <1>4, <1>5, <1>6 DEF PairInv, AskInv, Unanswered
<1>10. \A i \in Answers' : toNear'[i].joinee # e
  <2> TAKE i \in Answers'
  <2>1. i + 1 \in Answers /\ i + 1 # 1 /\ toNear'[i] = toNear[i + 1]
    BY <1>4, Mail
  <2>2. QED BY <1>9, <2>1
<1>11. \A r \in Ids, k \in Joiners, f \in Joinees : Carried(r, k, f)' <=> Carried(r, k, f)
  <2> SUFFICES ASSUME NEW r \in Ids, NEW k \in Joiners, NEW f \in Joinees
               PROVE  Carried(r, k, f)' <=> Carried(r, k, f)
    OBVIOUS
  <2>1. r # 0
    BY DEF Ids
  <2>2. Carried(r, k, f)' => Carried(r, k, f)
    <3>1. ASSUME NEW i \in Answers', toNear'[i].id = r, toNear'[i].joiner = k, toNear'[i].joinee = f
          PROVE  Carried(r, k, f)
      BY <1>4, <3>1 DEF Carried
    <3>2. ASSUME Waits(f, k)', remoteSessionId'[f] = r PROVE Carried(r, k, f)
      BY <1>4, <1>5, <1>7, <1>8, <1>9, <3>2 DEF Carried
    <3>3. QED BY <1>3, <3>1, <3>2 DEF Carried
  <2>3. Carried(r, k, f) => Carried(r, k, f)'
    <3>1. ASSUME NEW i \in Answers, toNear[i].id = r, toNear[i].joiner = k, toNear[i].joinee = f
          PROVE  Carried(r, k, f)'
      <4>1. CASE i = 1
        <5>1. f = e /\ k = j /\ id = r
          BY <1>4, <1>5, <3>1, <4>1
        <5>2. Waits(f, k)' /\ remoteSessionId'[f] = r
          BY <1>7, <1>8, <1>9, <5>1
        <5>3. QED BY <5>2 DEF Carried
      <4>2. CASE i # 1
        <5>1. i - 1 \in Answers' /\ toNear'[i - 1] = toNear[i]
          BY <1>2, <4>2, NearLeft
        <5>2. QED BY <3>1, <5>1 DEF Carried
      <4>3. QED BY <4>1, <4>2
    <3>2. ASSUME Waits(f, k), remoteSessionId[f] = r PROVE Carried(r, k, f)'
      BY <1>7, <1>8, <1>9, <2>1, <3>2 DEF Carried
    <3>3. QED BY <1>3, <3>1, <3>2 DEF Carried
  <2>4. QED BY <2>2, <2>3
<1>12. /\ \A l, r : Relayed(l, r)' <=> Relayed(l, r)
       /\ \A l, r, k, f : BothMade(l, r, k, f)' <=> BothMade(l, r, k, f)
       /\ \A f, l, k, r : Hosted(f, l, k, r)' <=> Hosted(f, l, k, r)
  BY <1>3 DEF Relayed, BothMade, MadeFor, Hosted
<1>13. AskInv'
  <2>1. \A f \in Joinees, k \in Joiners : f # e => (Unanswered(f, k)' <=> Unanswered(f, k))
    BY <1>7, <1>8 DEF Unanswered
  <2>2. /\ \A i \in Requests : toFar[i].joinee \in Joinees /\ toFar[i].joiner \in Joiners
        /\ \A i \in Answers' : toNear'[i].joinee \in Joinees /\ toNear'[i].joiner \in Joiners
        /\ joining # NoJoin => joining.joinee \in Joinees /\ joining.joiner \in Joiners
    <3>1. \A i \in Requests : toFar[i].joinee \in Joinees /\ toFar[i].joiner \in Joiners
      BY Mail DEF JoinRequest
    <3>2. \A i \in Answers : toNear[i].joinee \in Joinees /\ toNear[i].joiner \in Joiners
      BY Mail DEF JoinResponse
    <3>3. joining # NoJoin => joining.joinee \in Joinees /\ joining.joiner \in Joiners
      BY DEF TypeInv, TypeOK, Joining
    <3>4. QED BY <1>4, <3>1, <3>2, <3>3
  <2>3. \A i \in Requests : Unanswered(toFar[i].joinee, toFar[i].joiner)'
    BY <1>3, <1>9, <2>1, <2>2 DEF PairInv, AskInv, Unanswered, Waits
  <2>4. ASSUME NEW i \in Answers' PROVE Unanswered(toNear[i].joinee, toNear[i].joiner)'
    <3>1. PICK f \in Joinees, k \in Joiners : toNear'[i].joinee = f /\ toNear'[i].joiner = k
      BY <2>2
    <3>2. Unanswered(f, k)
      BY <1>4, <3>1 DEF PairInv, AskInv
    <3>3. Unanswered(f, k)'
      BY <1>10, <2>1, <3>1, <3>2
    <3>4. QED BY <3>1, <3>3 DEF Unanswered, Waits
  <2>5. joining # NoJoin => Unanswered(joining.joinee, joining.joiner)'
    BY <1>3, <1>9, <2>1, <2>2 DEF PairInv, AskInv, Unanswered, Waits
  <2>6. ASSUME NEW i \in Answers', NEW k \in Answers', toNear'[k].joinee = toNear'[i].joinee
        PROVE  k = i
    <3>1. k + 1 = i + 1
      BY <1>4, <2>6 DEF PairInv, AskInv
    <3>2. QED BY <1>4, <3>1
  <2>7. (\A f \in Joinees : \A i, k \in Joiners : Waits(f, i) /\ Waits(f, k) => i = k)'
    BY <1>7 DEF PairInv, AskInv
  <2>8. (\A f \in Joinees : \A k \in Joiners :
            Waits(f, k) /\ ~sessionJoinedSignalReceived[f] => remoteSessionId[f] = 0)'
    BY <1>7, <1>8 DEF PairInv, AskInv
  <2>9. \A i \in Requests : \A k \in Answers' : toNear'[k].joinee # toFar[i].joinee
    BY <1>4 DEF PairInv, AskInv
  <2>10. joining # NoJoin => \A k \in Answers' : toNear'[k].joinee # joining.joinee
    BY <1>4 DEF PairInv, AskInv
  <2>11. QED
    BY <1>3, <1>4, <2>3, <2>4, <2>5, <2>6, <2>7, <2>8, <2>9, <2>10 DEF PairInv, AskInv
<1>14. FreshInv'
  BY <1>3, <1>11, <1>12 DEF PairInv, FreshInv, MadeFor
<1>15. HostedInv'
  BY <1>3, <1>7, <1>12 DEF PairInv, HostedInv, TypeInv, TypeOK, Entry
<1>16. JoinedInv'
  BY <1>3, <1>4, <1>12 DEF PairInv, JoinedInv, IsLoss
<1>17. RecordInv'
  BY <1>3, <1>4, <1>12 DEF PairInv, RecordInv, IsLoss
<1>18. OrderInv'
  BY <1>3, <1>4 DEF PairInv, OrderInv, IsLoss
<1>19. EndingInv'
  BY <1>3, <1>4 DEF PairInv, EndingInv
<1>20. LiveInv'
  <2>1. \A s \in farSessions : s.id \in Ids /\ s.joiner \in Joiners /\ s.joinee \in Joinees
    BY DEF TypeInv, TypeOK, Session
  <2>2. QED BY <1>3, <1>4, <1>11, <2>1 DEF PairInv, LiveInv
<1>21. QED
  BY <1>13, <1>14, <1>15, <1>16, <1>17, <1>18, <1>19, <1>20 DEF PairInv

(* The near connector hears of the end of a far session and forgets its    *)
(* counterpart.                                                            *)
LEMMA PairEnding ==
    ASSUME TypeInv, PairInv, NearReceiveSessionLost
    PROVE  PairInv'
<1>1. PICK e, over, id : /\ e = Head(toNear).peer /\ over = Head(toNear).id
                         /\ id = GetLocalSessionId(hosted[e], over)
  OBVIOUS
<1>2. /\ toNear # <<>> /\ toNear' = Tail(toNear) /\ Head(toNear).type = "SessionLost"
      /\ nearLive' = nearLive \ {id}
      /\ hosted' = [hosted EXCEPT ![e] = RemoveSession(@, id)]
  BY <1>1 DEF NearReceiveSessionLost
<1>3. UNCHANGED <<pc, sessionJoinedSignalReceived, remoteSessionId, pendingSessionJoiners,
                  joining, joined, nearSessions, nearLost, farSessions, farLive, farLost,
                  toFar, relayed>>
  BY DEF NearReceiveSessionLost, listener, far, farBus
<1>4. /\ 1 \in Endings /\ toNear[1].peer = e /\ toNear[1].id = over
      /\ \A i \in Answers' : i \in Nat /\ i + 1 \in Answers /\ toNear'[i] = toNear[i + 1]
      /\ \A i \in Endings' : i \in Nat /\ i + 1 \in Endings /\ toNear'[i] = toNear[i + 1]
      /\ Requests' = Requests /\ Records' = Records /\ Losses' = Losses
  BY <1>1, <1>2, <1>3, NearTaken DEF Requests, Records, Losses
<1>5. e \in Joinees /\ hosted[e] \subseteq Entry(Joiners)
  BY <1>4, Mail DEF SessionLost, TypeInv, TypeOK
<1>6. \/ id = 0
      \/ \E t \in hosted[e] : t.remoteId = over /\ t.id = id
  <2> DEFINE found == {s \in hosted[e] : s.remoteId = over}
  <2>1. found \subseteq Entry(Joiners) /\ id = FirstId(found)
    BY <1>1, <1>5 DEF GetLocalSessionId
  <2> HIDE DEF found
  <2>2. id = 0 \/ \E t \in found : id = t.id
    BY <2>1, FirstIdFound
  <2>3. QED BY <2>2 DEF found
<1>7. \A f \in Joinees : \A s \in hosted[f] : s.id = id => f = e /\ s.remoteId = over
  <2> SUFFICES ASSUME NEW f \in Joinees, NEW s \in hosted[f], s.id = id
               PROVE  f = e /\ s.remoteId = over
    OBVIOUS
  <2>1. s.id # 0
    BY DEF TypeInv, TypeOK, Entry, Ids
  <2>2. PICK t \in hosted[e] : t.remoteId = over /\ t.id = id
    BY <1>6, <2>1
  <2>3. Relayed(s.id, s.remoteId) /\ MadeFor(nearSessions, s.id, s.peer, f)
    BY DEF PairInv, HostedInv, BothMade
  <2>4. Relayed(t.id, t.remoteId) /\ MadeFor(nearSessions, t.id, t.peer, e)
    BY <1>5 DEF PairInv, HostedInv, BothMade
  <2>5. s.remoteId = t.remoteId
    BY <2>2, <2>3, <2>4 DEF PairInv, FreshInv, Relayed
  <2>6. Numbered(nearSessions)
    BY DEF TypeInv, CountInv
  <2>7. f = e
    BY <2>2, <2>3, <2>4, <2>6, OneMaker
  <2>8. QED BY <2>2, <2>5, <2>7
<1>8. /\ \A f \in Joinees : \A s \in hosted'[f] : s \in hosted[f] /\ s.id # id
      /\ \A f \in Joinees : \A s \in hosted[f] : s.remoteId # over => s \in hosted'[f]
  <2>1. /\ \A f \in Joinees : f # e => hosted'[f] = hosted[f]
        /\ hosted'[e] = {s \in hosted[e] : s.id # id}
    BY <1>2, <1>5 DEF TypeInv, TypeOK, RemoveSession
  <2>2. QED BY <1>7, <2>1
<1>9. /\ \A l, r : Relayed(l, r)' <=> Relayed(l, r)
      /\ \A l, r, k, f : BothMade(l, r, k, f)' <=> BothMade(l, r, k, f)
      /\ \A f \in Joinees : \A l, k, r : Hosted(f, l, k, r) /\ r # over => Hosted(f, l, k, r)'
      /\ \A r, k, f : Carried(r, k, f)' <=> Carried(r, k, f)
  <2>1. /\ \A l, r : Relayed(l, r)' <=> Relayed(l, r)
        /\ \A l, r, k, f : BothMade(l, r, k, f)' <=> BothMade(l, r, k, f)
    BY <1>3 DEF Relayed, BothMade, MadeFor
  <2>2. \A f \in Joinees : \A l, k, r : Hosted(f, l, k, r) /\ r # over => Hosted(f, l, k, r)'
    BY <1>8 DEF Hosted
  <2>3. ASSUME NEW r, NEW k, NEW f
        PROVE  (\E i \in Answers' :
                   toNear'[i].id = r /\ toNear'[i].joiner = k /\ toNear'[i].joinee = f)
               <=> (\E i \in Answers :
                       toNear[i].id = r /\ toNear[i].joiner = k /\ toNear[i].joinee = f)
    <3>1. \A i \in Answers : i # 1
      BY <1>4 DEF Answers, Endings, At
    <3>2. ASSUME NEW i \in Answers PROVE i - 1 \in Answers' /\ toNear'[i - 1] = toNear[i]
      BY <1>2, <3>1, NearLeft
    <3>3. QED BY <1>4, <3>2
  <2>4. \A r, k, f : Carried(r, k, f)' <=> Carried(r, k, f)
    BY <1>3, <2>3 DEF Carried, Waits
  <2>5. QED BY <2>1, <2>2, <2>4
<1>10. AskInv'
  <2>1. AskInv
    BY DEF PairInv
  <2>2. \A i \in Requests' : i \in Nat /\ i + 0 \in Requests /\ toFar'[i] = toFar[i + 0]
    BY <1>3, <1>4, Mail
  <2>3. \A f \in Joinees, k \in Joiners : Waits(f, k)' <=> Waits(f, k)
    BY <1>3 DEF Waits
  <2>4. QED BY <1>3, <1>4, <2>1, <2>2, <2>3, AskKept
<1>11. FreshInv'
  BY <1>3, <1>9 DEF PairInv, FreshInv, MadeFor
<1>12. HostedInv'
  BY <1>2, <1>3, <1>8, <1>9 DEF PairInv, HostedInv
<1>13. JoinedInv'
  <2> SUFFICES ASSUME NEW k \in Joiners, NEW s \in joined[k]
               PROVE  (/\ Relayed(s.remoteId, s.id) /\ BothMade(s.remoteId, s.id, k, s.peer)
                       /\ \/ Hosted(s.peer, s.remoteId, k, s.id)
                          \/ \E p \in Losses : IsLoss(p, s.remoteId, k))'
    BY <1>3 DEF PairInv, JoinedInv
  <2>1. s.peer \in Joinees
    BY DEF TypeInv, TypeOK, Entry
  <2>2. s.id # over
    BY <1>4 DEF PairInv, EndingInv
  <2>3. QED BY <1>3, <1>4, <1>9, <2>1, <2>2 DEF PairInv, JoinedInv, IsLoss
<1>14. RecordInv'
  <2>1. ASSUME NEW i \in Records', NEW x \in SessionJoined, toFar'[i] = x
        PROVE  (/\ Relayed(x.localId, x.remoteId)
                /\ BothMade(x.localId, x.remoteId, x.joiner, x.joinee)
                /\ \/ Hosted(x.joinee, x.localId, x.joiner, x.remoteId)
                   \/ \E k \in Losses : k > i /\ IsLoss(k, x.localId, x.joiner)
                /\ \A k \in Records : toFar[k].localId = x.localId => k = i
                /\ \A s \in joined[x.joiner] : s.remoteId # x.localId)'
    <3>1. i \in Records /\ toFar[i] = x /\ x.joinee \in Joinees
      BY <1>3, <1>4, <2>1 DEF SessionJoined
    <3>2. x.remoteId # over
      BY <1>4, <3>1 DEF PairInv, EndingInv
    <3>3. QED BY <1>3, <1>4, <1>9, <3>1, <3>2 DEF PairInv, RecordInv, IsLoss
  <2>2. \A k \in Losses' :
           /\ toFar'[k].id \in Numbers(nearSessions')
           /\ \A i \in Records' : toFar'[i].localId = toFar'[k].id => i < k
    BY <1>3, <1>4 DEF PairInv, RecordInv
  <2>3. QED BY <2>1, <2>2 DEF RecordInv
<1>15. OrderInv'
  BY <1>3, <1>4 DEF PairInv, OrderInv, IsLoss
<1>16. EndingInv'
  BY <1>3, <1>4 DEF PairInv, EndingInv
<1>17. LiveInv'
  BY <1>3, <1>4, <1>9 DEF PairInv, LiveInv
<1>18. QED
  BY <1>10, <1>11, <1>12, <1>13, <1>14, <1>15, <1>16, <1>17 DEF PairInv

(* The far connector answers: the daemon has said that the session is new, *)
(* or that there is none.                                                  *)
LEMMA PairAnswer ==
    ASSUME TypeInv, PairInv, AnswerJoin
    PROVE  PairInv'
<1>1. PICK e \in Joinees, j \in Joiners, id \in Ids0 :
         joining.joinee = e /\ joining.joiner = j /\ joining.id = id
  BY DEF AnswerJoin, TypeInv, TypeOK, Joining
<1>2. /\ joining # NoJoin /\ joining.status \in {"ok", "fail"}
      /\ joining.status = "fail" => id = 0
  BY <1>1 DEF AnswerJoin, PairInv, AskInv, FreshInv, TypeInv, TypeOK, Joining
<1> DEFINE m == [type |-> "JoinResponse", joinee |-> e, joiner |-> j, id |-> id]
<1>3. /\ UNCHANGED <<pc, sessionJoinedSignalReceived, remoteSessionId, pendingSessionJoiners,
                     hosted, joined, nearSessions, nearLive, nearLost, farSessions, farLive,
                     farLost, toFar, relayed>>
      /\ toNear' = Append(toNear, m) /\ joining' = NoJoin
  <2>1. AnswerJoined \/ AnswerAsIs
    BY <1>2 DEF AnswerJoin, AnswerRepeated, AnswerDisagreement, AnswerActive, AnswerRejoin,
                AnswerUnknown, NotJoined
  <2>2. SendJoinResponse(id) /\ UNCHANGED <<farSessions, farLive>>
    BY <1>1, <2>1 DEF AnswerJoined, AnswerAsIs
  <2>3. QED BY <1>1, <2>2 DEF SendJoinResponse, near, listener, nearBus
<1>4. m \in NearMail /\ m.type = "JoinResponse" /\ m.joinee = e /\ m.joiner = j /\ m.id = id
  BY DEF NearMail, JoinResponse
<1> HIDE DEF m
<1>5. PICK n \in Nat :
         /\ toNear'[n] = m
         /\ \A i \in Answers \cup Endings : i < n /\ toNear'[i] = toNear[i]
         /\ Answers' = Answers \cup {n} /\ Endings' = Endings
  <2>1. PICK n \in Nat :
           /\ toNear'[n] = m
           /\ \A i \in Answers \cup Endings : i < n /\ toNear'[i] = toNear[i]
           /\ Answers' = Answers \cup (IF m.type = "JoinResponse" THEN {n} ELSE {})
           /\ Endings' = Endings \cup (IF m.type = "SessionLost" THEN {n} ELSE {})
    BY <1>3, <1>4, NearAppended
  <2>2. QED BY <1>4, <2>1
<1>6. Requests' = Requests /\ Records' = Records /\ Losses' = Losses
  BY <1>3 DEF Requests, Records, Losses
<1>7. /\ \A f \in Joinees, k \in Joiners : Waits(f, k)' <=> Waits(f, k)
      /\ \A l, r : Relayed(l, r)' <=> Relayed(l, r)
      /\ \A l, r, k, f : BothMade(l, r, k, f)' <=> BothMade(l, r, k, f)
      /\ \A f, l, k, r : Hosted(f, l, k, r)' <=> Hosted(f, l, k, r)
  BY <1>3 DEF Waits, Relayed, BothMade, MadeFor, Hosted
<1>8. \A r \in Ids, k \in Joiners, f \in Joinees : Carried(r, k, f)' <=> Carried(r, k, f)
  <2> SUFFICES ASSUME NEW r \in Ids, NEW k \in Joiners, NEW f \in Joinees
               PROVE  Carried(r, k, f)' <=> Carried(r, k, f)
    OBVIOUS
  <2>1. r # 0 /\ NoJoin.status # "ok"
    BY DEF Ids, NoJoin
  <2>2. joining'.status # "ok"
    BY <1>3, <2>1
  <2>3. (\E i \in Answers' : toNear'[i].id = r /\ toNear'[i].joiner = k /\ toNear'[i].joinee = f)
        <=> \/ \E i \in Answers : toNear[i].id = r /\ toNear[i].joiner = k /\ toNear[i].joinee = f
            \/ id = r /\ j = k /\ e = f
    BY <1>4, <1>5
  <2>4. joining.status = "ok" /\ joining.id = r /\ joining.joiner = k /\ joining.joinee = f
        <=> id = r /\ j = k /\ e = f
    BY <1>1, <1>2, <2>1
  <2>5. QED BY <1>3, <1>7, <2>2, <2>3, <2>4 DEF Carried
<1>9. AskInv'
  <2>1. /\ \A i \in Requests : toFar[i].joinee # e
        /\ Unanswered(e, j)
        /\ \A i \in Answers : toNear[i].joinee # e
    BY <1>1, <1>2 DEF PairInv, AskInv
  <2>2. \A f \in Joinees, k \in Joiners : Unanswered(f, k)' <=> Unanswered(f, k)
    BY <1>3, <1>7 DEF Unanswered
  <2>3. \A i \in Requests : Unanswered(toFar[i].joinee, toFar[i].joiner)'
    BY <1>3 DEF PairInv, AskInv, Unanswered, Waits
  <2>4. ASSUME NEW i \in Answers' PROVE Unanswered(toNear[i].joinee, toNear[i].joiner)'
    <3>1. CASE i = n
      BY <1>3, <1>4, <1>5, <2>1, <3>1 DEF Unanswered, Waits
    <3>2. CASE i # n
      <4>1. i \in Answers /\ toNear'[i] = toNear[i]
        BY <1>5, <3>2
      <4>2. Unanswered(toNear[i].joinee, toNear[i].joiner)
        BY <4>1 DEF PairInv, AskInv
      <4>3. QED BY <1>3, <4>1, <4>2 DEF Unanswered, Waits
    <3>3. QED BY <3>1, <3>2
  <2>5. ASSUME NEW i \in Answers', NEW k \in Answers', toNear'[k].joinee = toNear'[i].joinee
        PROVE  k = i
    BY <1>4, <1>5, <2>1, <2>5 DEF PairInv, AskInv
  <2>6. (/\ \A f \in Joinees : \A i, k \in Joiners : Waits(f, i) /\ Waits(f, k) => i = k
         /\ \A f \in Joinees : \A k \in Joiners :
               Waits(f, k) /\ ~sessionJoinedSignalReceived[f] => remoteSessionId[f] = 0)'
    BY <1>3, <1>7 DEF PairInv, AskInv
  <2>7. \A i \in Requests : \A k \in Answers' : toNear'[k].joinee # toFar[i].joinee
    BY <1>4, <1>5, <2>1 DEF PairInv, AskInv
  <2>8. QED BY <1>3, <1>6, <2>3, <2>4, <2>5, <2>6, <2>7 DEF PairInv, AskInv
<1>10. FreshInv'
  <2>1. joining'.status # "already"
    BY <1>3 DEF NoJoin
  <2>2. QED BY <1>3, <1>7, <1>8, <2>1 DEF PairInv, FreshInv, MadeFor
<1>11. HostedInv' /\ JoinedInv'
  <2>1. HostedInv'
    BY <1>3, <1>7 DEF PairInv, HostedInv
  <2>2. JoinedInv'
    BY <1>3, <1>6, <1>7 DEF PairInv, JoinedInv, IsLoss
  <2>3. QED BY <2>1, <2>2
<1>12. RecordInv'
  BY <1>3, <1>6, <1>7 DEF PairInv, RecordInv, IsLoss
<1>13. OrderInv'
  BY <1>3, <1>6 DEF PairInv, OrderInv, IsLoss
<1>14. EndingInv'
  <2>1. UNCHANGED <<joined, toFar, relayed>>
    BY <1>3
  <2>2. \A i \in Endings' : i \in Endings /\ toNear'[i] = toNear[i]
    BY <1>5
  <2>3. QED BY <1>6, <2>1, <2>2 DEF PairInv, EndingInv
<1>15. LiveInv'
  <2>1. \A s \in farSessions : s.id \in Ids /\ s.joiner \in Joiners /\ s.joinee \in Joinees
    BY DEF TypeInv, TypeOK, Session
  <2>2. QED BY <1>3, <1>6, <1>8, <2>1 DEF PairInv, LiveInv
<1>16. QED BY <1>9, <1>10, <1>11, <1>12, <1>13, <1>14, <1>15 DEF PairInv

(* The first message from the near connector is taken, and a session is    *)
(* recorded as it says.                                                    *)
LEMMA MailMoved ==
    ASSUME TypeInv, PairInv, toFar # <<>>, toFar' = Tail(toFar),
           UNCHANGED <<relayed, nearSessions, hosted>>,
           farSessions \subseteq farSessions',
           \A k \in Joiners : \A t \in joined'[k] :
              \/ t \in joined[k]
              \/ /\ 1 \in Records /\ toFar[1].joiner = k
                 /\ t = [id |-> toFar[1].remoteId, peer |-> toFar[1].joinee,
                         remoteId |-> toFar[1].localId],
           1 \in Losses =>
              \A k \in Joiners : toFar[1].peer = k =>
                 \A t \in joined'[k] : t.remoteId # toFar[1].id
    PROVE  JoinedInv' /\ RecordInv' /\ OrderInv'
<1>1. /\ \A i \in Requests' : i \in Nat /\ i > 0 /\ i + 1 \in Requests /\ toFar'[i] = toFar[i + 1]
      /\ \A i \in Records' : i \in Nat /\ i > 0 /\ i + 1 \in Records /\ toFar'[i] = toFar[i + 1]
      /\ \A i \in Losses' : i \in Nat /\ i > 0 /\ i + 1 \in Losses /\ toFar'[i] = toFar[i + 1]
  BY FarTaken
<1>2. ASSUME NEW k \in Losses, k # 1 PROVE k - 1 \in Losses' /\ toFar'[k - 1] = toFar[k]
  BY <1>2, FarLeft
<1>3. /\ \A l, x : Relayed(l, x)' <=> Relayed(l, x)
      /\ \A l, x, k, f : BothMade(l, x, k, f) => BothMade(l, x, k, f)'
      /\ \A f, l, k, x : Hosted(f, l, k, x)' <=> Hosted(f, l, k, x)
  BY DEF Relayed, BothMade, MadeFor, Hosted
<1>4. ASSUME NEW k \in Joiners, NEW t \in joined'[k], NEW p \in Losses, IsLoss(p, t.remoteId, k)
      PROVE  p # 1 /\ p - 1 \in Losses' /\ IsLoss(p - 1, t.remoteId, k)'
  <2>1. p # 1
    BY <1>4 DEF IsLoss
  <2>2. QED BY <1>2, <1>4, <2>1 DEF IsLoss
<1>5. \A k \in Joiners : \A t \in joined[k] : 1 \in Records /\ toFar[1].joiner = k
                                               => t.peer # toFar[1].joinee
  <2> SUFFICES ASSUME NEW k \in Joiners, NEW t \in joined[k], 1 \in Records,
                      toFar[1].joiner = k, t.peer = toFar[1].joinee
               PROVE  FALSE
    OBVIOUS
  <2>1. PICK p \in Losses : p < 1
    BY DEF PairInv, OrderInv
  <2>2. QED BY <2>1, Mail
<1>6. JoinedInv'
  <2>1. ASSUME NEW k \in Joiners, NEW t \in joined'[k]
        PROVE  (/\ Relayed(t.remoteId, t.id) /\ BothMade(t.remoteId, t.id, k, t.peer)
                /\ \/ Hosted(t.peer, t.remoteId, k, t.id)
                   \/ \E p \in Losses : IsLoss(p, t.remoteId, k))'
    <3>1. /\ Relayed(t.remoteId, t.id) /\ BothMade(t.remoteId, t.id, k, t.peer)
          /\ \/ Hosted(t.peer, t.remoteId, k, t.id)
             \/ \E p \in Losses : IsLoss(p, t.remoteId, k)
      <4>1. CASE t \in joined[k]
        BY <4>1 DEF PairInv, JoinedInv
      <4>2. CASE 1 \in Records /\ toFar[1].joiner = k /\ t.remoteId = toFar[1].localId
                 /\ t.id = toFar[1].remoteId /\ t.peer = toFar[1].joinee
        BY <4>2, Recorded DEF PairInv
      <4>3. QED BY <4>1, <4>2
    <3>2. QED BY <1>3, <1>4, <3>1
  <2>2. ASSUME NEW k \in Joiners, NEW t \in joined'[k], NEW q \in joined'[k], t.peer = q.peer
        PROVE  t = q
    BY <1>5, <2>2 DEF PairInv, JoinedInv
  <2>3. QED BY <2>1, <2>2 DEF JoinedInv
<1>7. RecordInv'
  <2>1. ASSUME NEW i \in Records', NEW x \in SessionJoined, toFar'[i] = x
        PROVE  (/\ Relayed(x.localId, x.remoteId)
                /\ BothMade(x.localId, x.remoteId, x.joiner, x.joinee)
                /\ \/ Hosted(x.joinee, x.localId, x.joiner, x.remoteId)
                   \/ \E k \in Losses : k > i /\ IsLoss(k, x.localId, x.joiner)
                /\ \A k \in Records : toFar[k].localId = x.localId => k = i
                /\ \A t \in joined[x.joiner] : t.remoteId # x.localId)'
    <3>1. i + 1 \in Records /\ toFar[i + 1] = x /\ i \in Nat /\ i > 0 /\ x.joiner \in Joiners
      BY <1>1, <2>1 DEF SessionJoined
    <3>2. /\ Relayed(x.localId, x.remoteId)
          /\ BothMade(x.localId, x.remoteId, x.joiner, x.joinee)
          /\ \/ Hosted(x.joinee, x.localId, x.joiner, x.remoteId)
             \/ \E k \in Losses : k > i + 1 /\ IsLoss(k, x.localId, x.joiner)
          /\ \A k \in Records : toFar[k].localId = x.localId => k = i + 1
          /\ \A t \in joined[x.joiner] : t.remoteId # x.localId
      BY <3>1 DEF PairInv, RecordInv
    <3>3. ASSUME NEW k \in Losses, k > i + 1, IsLoss(k, x.localId, x.joiner)
          PROVE  \E q \in Losses' : q > i /\ IsLoss(q, x.localId, x.joiner)'
      <4>1. k \in Nat /\ k # 1
        BY <3>1, <3>3, Mail
      <4>1a. k - 1 \in Losses' /\ toFar'[k - 1] = toFar[k]
        BY <1>2, <4>1
      <4>2. k - 1 > i
        BY <3>1, <3>3, <4>1
      <4>3. QED BY <3>3, <4>1a, <4>2 DEF IsLoss
    <3>4. ASSUME NEW k \in Records', toFar'[k].localId = x.localId PROVE k = i
      <4>1. k + 1 = i + 1 /\ k \in Nat
        BY <1>1, <3>2, <3>4
      <4>2. QED BY <3>1, <4>1
    <3>5. \A t \in joined'[x.joiner] : t.remoteId # x.localId
      <4>1. 1 \in Records => toFar[1].localId # x.localId
        <5>1. 1 # i + 1
          BY <3>1
        <5>2. QED BY <3>2, <5>1
      <4>2. QED BY <3>1, <3>2, <4>1
    <3>6. QED BY <1>3, <3>2, <3>3, <3>4, <3>5
  <2>2. ASSUME NEW k \in Losses'
        PROVE  /\ toFar'[k].id \in Numbers(nearSessions')
               /\ \A i \in Records' : toFar'[i].localId = toFar'[k].id => i < k
    <3>1. toFar'[k].id \in Numbers(nearSessions')
      BY <1>1 DEF PairInv, RecordInv
    <3>2. ASSUME NEW i \in Records', toFar'[i].localId = toFar'[k].id PROVE i < k
      <4>1. /\ i + 1 \in Records /\ toFar[i + 1].localId = toFar'[k].id
            /\ k + 1 \in Losses /\ toFar[k + 1].id = toFar'[k].id
            /\ i \in Nat /\ k \in Nat
        BY <1>1, <3>2
      <4>2. \A q \in Losses : \A n \in Records : toFar[n].localId = toFar[q].id => n < q
        BY DEF PairInv, RecordInv
      <4>3. i + 1 < k + 1
        BY <4>1, <4>2
      <4>4. QED BY <4>1, <4>3
    <3>3. QED BY <3>1, <3>2
  <2>3. QED BY <2>1, <2>2 DEF RecordInv
<1>8. OrderInv'
  <2> SUFFICES ASSUME NEW i \in Requests' \cup Records'
               PROVE  /\ \A t \in joined'[toFar'[i].joiner] : t.peer = toFar'[i].joinee =>
                            \E k \in Losses' : k < i /\ toFar'[k].id = t.remoteId
                                               /\ toFar'[k].peer = toFar'[i].joiner
                      /\ \A q \in Records' :
                            toFar'[q].joiner = toFar'[i].joiner
                            /\ toFar'[q].joinee = toFar'[i].joinee =>
                               /\ q < i => \E k \in Losses' : /\ q < k /\ k < i
                                                              /\ toFar'[k].id = toFar'[q].localId
                                                              /\ toFar'[k].peer = toFar'[i].joiner
                               /\ i \in Requests' => q < i
    BY DEF OrderInv, IsLoss
  <2>1. /\ i + 1 \in Requests \cup Records /\ toFar'[i] = toFar[i + 1] /\ i \in Nat
        /\ i \in Requests' => i + 1 \in Requests
        /\ i > 0 /\ toFar'[i].joiner \in Joiners
    <3>1. \A k \in Requests \cup Records : toFar[k].joiner \in Joiners
      BY Mail DEF JoinRequest, SessionJoined
    <3>2. QED BY <1>1, <3>1
  <2>2. ASSUME NEW t \in joined'[toFar'[i].joiner], t.peer = toFar'[i].joinee
        PROVE  \E k \in Losses' : k < i /\ toFar'[k].id = t.remoteId
                                  /\ toFar'[k].peer = toFar'[i].joiner
    <3>1. PICK k \in Losses : k < i + 1 /\ toFar[k].id = t.remoteId
                              /\ toFar[k].peer = toFar[i + 1].joiner
      <4>0. /\ \A q \in joined[toFar[i + 1].joiner] : q.peer = toFar[i + 1].joinee =>
                  \E k \in Losses : k < i + 1 /\ toFar[k].id = q.remoteId
                                     /\ toFar[k].peer = toFar[i + 1].joiner
            /\ \A n \in Records :
                  toFar[n].joiner = toFar[i + 1].joiner /\ toFar[n].joinee = toFar[i + 1].joinee
                  /\ n < i + 1 => \E k \in Losses : k < i + 1 /\ toFar[k].id = toFar[n].localId
                                                    /\ toFar[k].peer = toFar[i + 1].joiner
        BY <2>1 DEF PairInv, OrderInv, IsLoss
      <4>1. CASE t \in joined[toFar'[i].joiner]
        BY <2>1, <2>2, <4>0, <4>1
      <4>2. CASE 1 \in Records /\ toFar[1].joiner = toFar'[i].joiner
                 /\ t.remoteId = toFar[1].localId /\ t.peer = toFar[1].joinee
        <5>1. 1 < i + 1
          BY <2>1
        <5>2. QED BY <2>1, <2>2, <4>0, <4>2, <5>1
      <4>3. PICK k \in Joiners : k = toFar'[i].joiner
        BY <2>1
      <4>4. t \in joined'[k]
        BY <2>2, <4>3
      <4>5. PICK n : n = [id |-> toFar[1].remoteId, peer |-> toFar[1].joinee,
                          remoteId |-> toFar[1].localId]
        OBVIOUS
      <4>6. t \in joined[k] \/ (1 \in Records /\ toFar[1].joiner = k /\ t = n)
        BY <4>4, <4>5, Zenon
      <4>7. n.remoteId = toFar[1].localId /\ n.peer = toFar[1].joinee
        BY <4>5
      <4>8. QED BY <4>1, <4>2, <4>3, <4>6, <4>7, Zenon
    <3>2. k \in Nat /\ k # 1 /\ k - 1 \in Losses' /\ toFar'[k - 1] = toFar[k]
      <4>1. k # 1
        BY <2>1, <2>2, <3>1
      <4>2. QED BY <1>2, <4>1, Mail
    <3>3. k - 1 < i
      BY <2>1, <3>1, <3>2
    <3>4. QED BY <2>1, <3>1, <3>2, <3>3
  <2>3. ASSUME NEW q \in Records', toFar'[q].joiner = toFar'[i].joiner,
               toFar'[q].joinee = toFar'[i].joinee
        PROVE  /\ q < i => \E k \in Losses' : /\ q < k /\ k < i
                                              /\ toFar'[k].id = toFar'[q].localId
                                              /\ toFar'[k].peer = toFar'[i].joiner
               /\ i \in Requests' => q < i
    <3>1. q + 1 \in Records /\ toFar'[q] = toFar[q + 1] /\ q \in Nat
      BY <1>1
    <3>2. /\ q + 1 < i + 1 => \E k \in Losses : /\ q + 1 < k /\ k < i + 1
                                               /\ toFar[k].id = toFar[q + 1].localId
                                               /\ toFar[k].peer = toFar[i + 1].joiner
          /\ i + 1 \in Requests => q + 1 < i + 1
      BY <2>1, <2>3, <3>1 DEF PairInv, OrderInv, IsLoss
    <3>3. ASSUME q < i
          PROVE  \E k \in Losses' : /\ q < k /\ k < i
                                    /\ toFar'[k].id = toFar'[q].localId
                                    /\ toFar'[k].peer = toFar'[i].joiner
      <4>1. PICK k \in Losses : /\ q + 1 < k /\ k < i + 1
                                /\ toFar[k].id = toFar[q + 1].localId
                                /\ toFar[k].peer = toFar[i + 1].joiner
        BY <2>1, <3>1, <3>2, <3>3
      <4>2. k \in Nat /\ k # 1
        BY <3>1, <4>1, Mail
      <4>2a. k - 1 \in Losses' /\ toFar'[k - 1] = toFar[k]
        BY <1>2, <4>2
      <4>3. q < k - 1 /\ k - 1 < i
        BY <2>1, <3>1, <4>1, <4>2
      <4>4. QED BY <2>1, <3>1, <4>1, <4>2a, <4>3
    <3>4. i \in Requests' => q < i
      BY <2>1, <3>1, <3>2
    <3>5. QED BY <3>3, <3>4
  <2>4. QED BY <2>2, <2>3
<1>9. QED BY <1>6, <1>7, <1>8

(* The far connector asks its daemon: no session of these two is up, or it *)
(* would be in use.                                                        *)
LEMMA PairRequest ==
    ASSUME TypeInv, PairInv, ReceiveJoinRequest
    PROVE  PairInv'
<1>1. PICK e, j : e = Head(toFar).joinee /\ j = Head(toFar).joiner
  OBVIOUS
<1>2. /\ joining = NoJoin /\ toFar # <<>> /\ toFar' = Tail(toFar)
      /\ Head(toFar).type = "JoinRequest"
      /\ \E a \in JoinSession(farLive, j, e) :
            /\ joining' = a
            /\ farSessions' = farSessions \cup MadeBy(a)
            /\ farLive' = farLive \cup {s.id : s \in MadeBy(a)}
  BY <1>1 DEF ReceiveJoinRequest, Available
<1>3. UNCHANGED <<pc, sessionJoinedSignalReceived, remoteSessionId, pendingSessionJoiners, hosted,
                  joined, nearSessions, nearLive, nearLost, farLost, toNear, relayed>>
  BY DEF ReceiveJoinRequest, near, listener, nearBus
<1>4. /\ 1 \in Requests /\ toFar[1].joinee = e /\ toFar[1].joiner = j
      /\ \A i \in Requests' : i \in Nat /\ i > 0 /\ i + 1 \in Requests /\ toFar'[i] = toFar[i + 1]
      /\ \A i \in Records' : i \in Nat /\ i > 0 /\ i + 1 \in Records /\ toFar'[i] = toFar[i + 1]
      /\ \A i \in Losses' : i \in Nat /\ i > 0 /\ i + 1 \in Losses /\ toFar'[i] = toFar[i + 1]
      /\ Answers' = Answers /\ Endings' = Endings
  BY <1>1, <1>2, <1>3, FarTaken DEF Answers, Endings
<1>5. e \in Joinees /\ j \in Joiners
  BY <1>4, Mail DEF JoinRequest
<1>6. ASSUME NEW k \in Records PROVE k - 1 \in Records' /\ toFar'[k - 1] = toFar[k]
  <2>1. k # 1
    BY <1>4 DEF Requests, Records, At
  <2>2. QED BY <1>2, <2>1, FarLeft
<1>7. Numbered(farSessions) /\ farSessions \subseteq Session
  BY DEF TypeInv, CountInv, TypeOK
<1>8. UpWith(farLive, j, e) = {}
  <2> SUFFICES ASSUME NEW s \in farSessions, s.id \in farLive, s.joiner = j, s.joinee = e
               PROVE  FALSE
    BY DEF UpWith, SessionsOf
  <2>1. MadeFor(farSessions, s.id, j, e) /\ s.id \in Ids /\ s.id # 0
    BY <1>7 DEF MadeFor, Session, Ids
  <2>2. \A k, f : MadeFor(farSessions, s.id, k, f) => k = j /\ f = e
    BY <1>7, <2>1, OneMaker
  <2>3. Unanswered(e, j) /\ \A k \in Answers : toNear[k].joinee # e
    BY <1>4 DEF PairInv, AskInv
  <2>4. ~Carried(s.id, j, e)
    <3>1. pendingSessionJoiners[e][j] = 0
      BY <1>5, <2>3 DEF Unanswered, Waits, TypeInv, TypeOK
    <3>2. joining.status # "ok"
      BY <1>2 DEF NoJoin
    <3>3. QED BY <2>1, <2>3, <3>1, <3>2 DEF Carried, Unanswered
  <2>5. ASSUME NEW t \in joined[j], t.id = s.id PROVE FALSE
    <3>1. t.peer = e
      BY <1>5, <2>2, <2>5 DEF PairInv, JoinedInv, BothMade
    <3>2. QED BY <1>4, <3>1, Mail DEF PairInv, OrderInv
  <2>6. ASSUME NEW k \in Records, toFar[k].remoteId = s.id PROVE FALSE
    <3>1. toFar[k].joiner = j /\ toFar[k].joinee = e
      BY <2>2, <2>6, Recorded DEF PairInv, BothMade
    <3>2. k < 1
      BY <1>4, <3>1 DEF PairInv, OrderInv
    <3>3. QED BY <3>2, Mail
  <2>7. QED BY <2>4, <2>5, <2>6 DEF PairInv, LiveInv
<1>9. PICK r : r = Cardinality(farSessions) + 1
  OBVIOUS
<1> DEFINE s == [id |-> r, joiner |-> j, joinee |-> e]
<1>10. \/ /\ joining' = [status |-> "ok", joiner |-> j, joinee |-> e, id |-> r]
          /\ farSessions' = farSessions \cup {s} /\ farLive' = farLive \cup {r}
       \/ /\ joining' = [status |-> "fail", joiner |-> j, joinee |-> e, id |-> 0]
          /\ UNCHANGED <<farSessions, farLive>>
  <2>1. PICK a \in JoinSession(farLive, j, e) :
           /\ joining' = a
           /\ farSessions' = farSessions \cup MadeBy(a)
           /\ farLive' = farLive \cup {x.id : x \in MadeBy(a)}
    BY <1>2
  <2>2. a \in {[status |-> "ok", joiner |-> j, joinee |-> e, id |-> r],
               [status |-> "fail", joiner |-> j, joinee |-> e, id |-> 0]}
    BY <1>8, <1>9 DEF JoinSession
  <2>3. CASE a = [status |-> "ok", joiner |-> j, joinee |-> e, id |-> r]
    <3>1. MadeBy(a) = {s}
      BY <2>3 DEF MadeBy
    <3>2. {x.id : x \in MadeBy(a)} = {r}
      BY <3>1
    <3>3. QED BY <2>1, <2>3, <3>1, <3>2
  <2>4. CASE a = [status |-> "fail", joiner |-> j, joinee |-> e, id |-> 0]
    <3>1. MadeBy(a) = {}
      BY <2>4 DEF MadeBy
    <3>2. QED BY <2>1, <2>4, <3>1
  <2>5. QED BY <2>2, <2>3, <2>4
<1>11. r \notin Numbers(farSessions)
  BY <1>7, <1>9, FS_CardinalityType DEF Numbered, Numbers, Session, Ids
<1>12. /\ \A l, x : Relayed(l, x)' <=> Relayed(l, x)
       /\ \A l, x, k, f : BothMade(l, x, k, f) => BothMade(l, x, k, f)'
       /\ \A x, k, f : MadeFor(farSessions, x, k, f) => MadeFor(farSessions, x, k, f)'
       /\ \A f, l, k, x : Hosted(f, l, k, x)' <=> Hosted(f, l, k, x)
       /\ \A f \in Joinees, k \in Joiners : Waits(f, k)' <=> Waits(f, k)
  BY <1>3, <1>10 DEF Relayed, BothMade, MadeFor, Hosted, Waits
<1>13. \A x \in Ids, k \in Joiners, f \in Joinees :
          Carried(x, k, f)' <=> \/ Carried(x, k, f)
                                \/ joining'.status = "ok" /\ x = r /\ k = j /\ f = e
  <2>1. joining.status # "ok"
    BY <1>2 DEF NoJoin
  <2>2. /\ joining'.status = "ok" => joining'.id = r /\ joining'.joiner = j /\ joining'.joinee = e
    BY <1>10
  <2>3. QED BY <1>3, <1>4, <1>12, <2>1, <2>2 DEF Carried
<1>14. AskInv'
  <2>1. /\ Unanswered(e, j)
        /\ \A i \in Requests : toFar[i].joinee = e => i = 1
        /\ \A k \in Answers : toNear[k].joinee # e
    BY <1>4 DEF PairInv, AskInv
  <2>2. /\ joining'.joinee = e /\ joining'.joiner = j
        /\ joining'.status = "fail" => joining'.id = 0
    BY <1>10
  <2>3. Unanswered(joining.joinee, joining.joiner)'
    BY <1>3, <2>1, <2>2 DEF Unanswered, Waits
  <2>4. \A i \in Requests : Unanswered(toFar[i].joinee, toFar[i].joiner)
    BY DEF PairInv, AskInv
  <2>5. \A i \in Requests' : Unanswered(toFar[i].joinee, toFar[i].joiner)'
    BY <1>3, <1>4, <2>4 DEF Unanswered, Waits
  <2>6. ASSUME NEW i \in Requests', NEW k \in Requests', toFar'[k].joinee = toFar'[i].joinee
        PROVE  k = i
    <3>1. k + 1 = i + 1
      BY <1>4, <2>6 DEF PairInv, AskInv
    <3>2. QED BY <1>4, <3>1
  <2>7. \A i \in Requests' : toFar'[i].joinee # e
    <3> TAKE i \in Requests'
    <3>1. i + 1 # 1
      BY <1>4
    <3>2. QED BY <1>4, <2>1, <3>1
  <2>8. \A i \in Requests' : \A k \in Answers : toNear[k].joinee # toFar'[i].joinee
    BY <1>4 DEF PairInv, AskInv
  <2>9. \A i \in Answers : Unanswered(toNear[i].joinee, toNear[i].joiner)'
    BY <1>3 DEF PairInv, AskInv, Unanswered, Waits
  <2>10. (/\ \A f \in Joinees : \A i, k \in Joiners : Waits(f, i) /\ Waits(f, k) => i = k
          /\ \A f \in Joinees : \A k \in Joiners :
                Waits(f, k) /\ ~sessionJoinedSignalReceived[f] => remoteSessionId[f] = 0)'
    BY <1>3, <1>12 DEF PairInv, AskInv
  <2>11. \A i, k \in Answers : toNear[k].joinee = toNear[i].joinee => k = i
    BY DEF PairInv, AskInv
  <2>12. QED
    BY <1>3, <1>4, <2>1, <2>2, <2>3, <2>5, <2>6, <2>7, <2>8, <2>9, <2>10, <2>11 DEF AskInv
<1>15. FreshInv'
  <2>1. joining'.status # "already"
    BY <1>10
  <2>2. \A p \in relayed : p.remoteId # r
    <3> TAKE p \in relayed
    <3>1. PICK k \in Joiners, f \in Joinees : MadeFor(farSessions, p.remoteId, k, f)
      BY DEF PairInv, FreshInv, BothMade
    <3>2. p.remoteId \in Numbers(farSessions)
      BY <1>7, <3>1, OneMaker
    <3>3. QED BY <1>11, <3>2
  <2>3. joining'.status = "ok" => MadeFor(farSessions, r, j, e)'
    BY <1>10 DEF MadeFor
  <2>4. \A p \in relayed' : \E k \in Joiners, f \in Joinees : BothMade(p.id, p.remoteId, k, f)'
    BY <1>3, <1>12 DEF PairInv, FreshInv
  <2>5. \A x \in Ids, k \in Joiners, f \in Joinees :
           Carried(x, k, f)' =>
              MadeFor(farSessions, x, k, f)' /\ \A p \in relayed' : p.remoteId # x
    BY <1>3, <1>12, <1>13, <2>2, <2>3 DEF PairInv, FreshInv
  <2>6. \A p, q \in relayed' : p.id = q.id \/ p.remoteId = q.remoteId => p = q
    BY <1>3 DEF PairInv, FreshInv
  <2>7. QED BY <2>1, <2>4, <2>5, <2>6 DEF FreshInv
<1>16. HostedInv'
  BY <1>3, <1>12 DEF PairInv, HostedInv
<1>17. JoinedInv' /\ RecordInv' /\ OrderInv'
  <2>1. 1 \notin Losses
    BY <1>4 DEF Requests, Losses, At
  <2>2. farSessions \subseteq farSessions'
    BY <1>10
  <2>3. QED BY <1>2, <1>3, <2>1, <2>2, MailMoved
<1>18. EndingInv'
  BY <1>3, <1>4 DEF PairInv, EndingInv
<1>19. LiveInv'
  <2>1. farLost \subseteq Numbers(farSessions) /\ farLive \subseteq Numbers(farSessions)
    BY DEF TypeInv, CountInv
  <2>2. farLive' \cap farLost' = {}
    BY <1>3, <1>10, <1>11, <2>1 DEF PairInv, LiveInv
  <2>3. ASSUME NEW t \in farSessions', t.id \in farLive'
        PROVE  \/ Carried(t.id, t.joiner, t.joinee)'
               \/ \E q \in joined'[t.joiner] : q.id = t.id
               \/ \E i \in Records' : toFar'[i].remoteId = t.id
    <3>1. CASE t \in farSessions
      <4>1. t.id \in Ids /\ t.joiner \in Joiners /\ t.joinee \in Joinees
        BY <1>7, <3>1 DEF Session
      <4>2. t.id \in farLive
        BY <1>10, <1>11, <2>3, <3>1 DEF Numbers
      <4>3. CASE \E i \in Records : toFar[i].remoteId = t.id
        BY <1>6, <4>3
      <4>4. QED BY <1>3, <1>13, <3>1, <4>1, <4>2, <4>3 DEF PairInv, LiveInv
    <3>2. CASE t \notin farSessions
      <4>1. t = s /\ joining'.status = "ok" /\ joining'.id = r
            /\ joining'.joiner = j /\ joining'.joinee = e
        BY <1>10, <3>2
      <4>2. QED BY <4>1 DEF Carried
    <3>3. QED BY <3>1, <3>2
  <2>4. QED BY <2>2, <2>3 DEF LiveInv
<1>20. QED BY <1>14, <1>15, <1>16, <1>17, <1>18, <1>19 DEF PairInv

(* The far connector records the pair the near one announced.              *)
LEMMA PairRecord ==
    ASSUME TypeInv, PairInv, ReceiveSessionJoined
    PROVE  PairInv'
<1>1. PICK m : m = Head(toFar)
  OBVIOUS
<1>2. /\ joining = NoJoin /\ toFar # <<>> /\ toFar' = Tail(toFar) /\ m.type = "SessionJoined"
      /\ joined' = [joined EXCEPT ![m.joiner] = AddSession(@, m.remoteId, m.joinee, m.localId)]
  BY <1>1 DEF ReceiveSessionJoined, Available
<1>3. UNCHANGED <<pc, sessionJoinedSignalReceived, remoteSessionId, pendingSessionJoiners, hosted,
                  joining, nearSessions, nearLive, nearLost, farSessions, farLive, farLost,
                  toNear, relayed>>
  BY DEF ReceiveSessionJoined, near, listener, nearBus, farBus
<1>4. /\ 1 \in Records /\ toFar[1] = m
      /\ \A i \in Requests' : i \in Nat /\ i > 0 /\ i + 1 \in Requests /\ toFar'[i] = toFar[i + 1]
      /\ \A i \in Records' : i \in Nat /\ i > 0 /\ i + 1 \in Records /\ toFar'[i] = toFar[i + 1]
      /\ Answers' = Answers /\ Endings' = Endings
  BY <1>1, <1>2, <1>3, FarTaken DEF Answers, Endings
<1>5. m \in SessionJoined /\ m.joiner \in Joiners /\ m.joinee \in Joinees
  BY <1>4, Mail DEF SessionJoined
<1>6. joined \in [Joiners -> SUBSET Entry(Joinees)]
  BY DEF TypeInv, TypeOK
<1>7. PICK n : n = [id |-> m.remoteId, peer |-> m.joinee, remoteId |-> m.localId]
  OBVIOUS
<1>8. /\ n.id = m.remoteId
      /\ joined'[m.joiner] = {t \in joined[m.joiner] : t.id # m.remoteId} \cup {n}
      /\ \A k \in Joiners : k # m.joiner => joined'[k] = joined[k]
  BY <1>2, <1>5, <1>6, <1>7 DEF AddSession, RemoveSession
<1>9. AskInv'
  <2>1. \A i \in Requests' : i \in Nat /\ i + 1 \in Requests /\ toFar'[i] = toFar[i + 1]
    BY <1>4
  <2>2. \A i \in Answers' : i \in Nat /\ i + 0 \in Answers /\ toNear'[i] = toNear[i + 0]
    BY <1>4, <1>3, Mail
  <2>3. \A f \in Joinees, k \in Joiners : Waits(f, k)' <=> Waits(f, k)
    BY <1>3 DEF Waits
  <2>4. UNCHANGED <<sessionJoinedSignalReceived, remoteSessionId, joining>>
    BY <1>3
  <2>5. 0 \in Nat /\ 1 \in Nat /\ AskInv
    BY DEF PairInv
  <2>6. QED BY <2>1, <2>2, <2>3, <2>4, <2>5, AskKept
<1>10. /\ \A x, k, f : MadeFor(farSessions, x, k, f)' <=> MadeFor(farSessions, x, k, f)
       /\ \A x \in Ids, k \in Joiners, f \in Joinees : Carried(x, k, f)' <=> Carried(x, k, f)
  BY <1>3, <1>4 DEF Carried, MadeFor, Waits
<1>11. FreshInv'
  BY <1>3, <1>10 DEF PairInv, FreshInv, BothMade, MadeFor
<1>12. HostedInv'
  BY <1>3 DEF PairInv, HostedInv, BothMade, MadeFor, Relayed
<1>13. JoinedInv' /\ RecordInv' /\ OrderInv'
  <2>1. 1 \notin Losses
    BY <1>4 DEF Records, Losses, At
  <2>2. \A k \in Joiners : \A t \in joined'[k] :
           \/ t \in joined[k]
           \/ /\ 1 \in Records /\ toFar[1].joiner = k
              /\ t = [id |-> toFar[1].remoteId, peer |-> toFar[1].joinee,
                      remoteId |-> toFar[1].localId]
    BY <1>4, <1>7, <1>8
  <2>3. QED BY <1>2, <1>3, <2>1, <2>2, MailMoved
<1>14. EndingInv'
  <2> SUFFICES ASSUME NEW i \in Endings
               PROVE  /\ \E p \in relayed : p.remoteId = toNear[i].id
                      /\ \A j \in Joiners : \A s \in joined'[j] : s.id # toNear[i].id
                      /\ \A k \in Records' : toFar'[k].remoteId # toNear[i].id
    BY <1>3, <1>4 DEF EndingInv
  <2>1. /\ \E p \in relayed : p.remoteId = toNear[i].id
        /\ \A j \in Joiners : \A s \in joined[j] : s.id # toNear[i].id
        /\ \A k \in Records : toFar[k].remoteId # toNear[i].id
    BY DEF PairInv, EndingInv
  <2>2. n.id # toNear[i].id
    BY <1>4, <1>8, <2>1
  <2>3. \A j \in Joiners : \A s \in joined'[j] : s.id # toNear[i].id
    BY <1>8, <2>1, <2>2
  <2>4. QED BY <1>4, <2>1, <2>3
<1>15. LiveInv'
  <2>1. farLive' \cap farLost' = {}
    BY <1>3 DEF PairInv, LiveInv
  <2>2. ASSUME NEW s \in farSessions, s.id \in farLive
        PROVE  \/ Carried(s.id, s.joiner, s.joinee)'
               \/ \E q \in joined'[s.joiner] : q.id = s.id
               \/ \E i \in Records' : toFar'[i].remoteId = s.id
    <3>1. s.id \in Ids /\ s.joiner \in Joiners /\ s.joinee \in Joinees
      BY DEF TypeInv, TypeOK, Session
    <3>2. CASE Carried(s.id, s.joiner, s.joinee)
      BY <1>10, <3>1, <3>2
    <3>3. CASE s.id = m.remoteId
      <4>1. MadeFor(farSessions, s.id, s.joiner, s.joinee)
        BY DEF MadeFor, TypeInv, TypeOK, Session
      <4>2. MadeFor(farSessions, s.id, m.joiner, m.joinee)
        BY <1>4, <3>3, Recorded DEF PairInv, BothMade
      <4>3. s.joiner = m.joiner
        <5>1. Numbered(farSessions) /\ farSessions \subseteq Session
          BY DEF TypeInv, CountInv, TypeOK
        <5>2. QED BY <4>1, <4>2, <5>1, OneMaker
      <4>4. QED BY <1>8, <3>3, <4>3
    <3>4. CASE s.id # m.remoteId /\ \E q \in joined[s.joiner] : q.id = s.id
      BY <1>8, <3>1, <3>4
    <3>5. ASSUME NEW i \in Records, toFar[i].remoteId = s.id, s.id # m.remoteId
          PROVE  \E k \in Records' : toFar'[k].remoteId = s.id
      <4>1. i # 1
        BY <1>4, <3>5
      <4>2. i - 1 \in Records' /\ toFar'[i - 1] = toFar[i]
        BY <1>2, <4>1, FarLeft
      <4>3. QED BY <3>5, <4>2
    <3>6. \/ Carried(s.id, s.joiner, s.joinee)
          \/ \E q \in joined[s.joiner] : q.id = s.id
          \/ \E i \in Records : toFar[i].remoteId = s.id
      BY <2>2 DEF PairInv, LiveInv
    <3>7. QED BY <3>2, <3>3, <3>4, <3>5, <3>6
  <2>3. QED BY <1>3, <2>1, <2>2 DEF LiveInv
<1>16. QED BY <1>9, <1>11, <1>12, <1>13, <1>14, <1>15 DEF PairInv

(* The far connector hears of the end of a near session, leaves its        *)
(* counterpart and forgets it.                                             *)
LEMMA PairLoss ==
    ASSUME TypeInv, PairInv, FarReceiveSessionLost
    PROVE  PairInv'
<1>1. PICK m : m = Head(toFar)
  OBVIOUS
<1>2. PICK j, r : j = m.peer /\ r = GetLocalSessionId(joined[j], m.id)
  OBVIOUS
<1>3. /\ joining = NoJoin /\ toFar # <<>> /\ toFar' = Tail(toFar) /\ m.type = "SessionLost"
      /\ farLive' = farLive \ {r}
      /\ joined' = [joined EXCEPT ![j] = RemoveSession(@, r)]
  BY <1>1, <1>2 DEF FarReceiveSessionLost, Available
<1>4. UNCHANGED <<pc, sessionJoinedSignalReceived, remoteSessionId, pendingSessionJoiners, hosted,
                  joining, nearSessions, nearLive, nearLost, farSessions, farLost,
                  toNear, relayed>>
  BY DEF FarReceiveSessionLost, near, listener, nearBus
<1>5. /\ 1 \in Losses /\ toFar[1] = m
      /\ \A i \in Requests' : i \in Nat /\ i > 0 /\ i + 1 \in Requests /\ toFar'[i] = toFar[i + 1]
      /\ \A i \in Records' : i \in Nat /\ i > 0 /\ i + 1 \in Records /\ toFar'[i] = toFar[i + 1]
      /\ Answers' = Answers /\ Endings' = Endings
  BY <1>1, <1>3, <1>4, FarTaken DEF Answers, Endings
<1>6. j \in Joiners /\ m.id \in Ids
  BY <1>2, <1>5, Mail DEF SessionLost
<1>7. joined \in [Joiners -> SUBSET Entry(Joinees)]
  BY DEF TypeInv, TypeOK
<1>8. /\ joined'[j] = {t \in joined[j] : t.id # r}
      /\ \A k \in Joiners : k # j => joined'[k] = joined[k]
      /\ \A k \in Joiners : joined'[k] \subseteq joined[k]
  BY <1>3, <1>6, <1>7 DEF RemoveSession
<1>9. \A t \in joined[j] : t.remoteId = m.id => t.id = r
  <2>1. \A s, t \in joined[j] : s.remoteId = t.remoteId => s.id = t.id
    <3> TAKE s, t \in joined[j]
    <3>1. Relayed(s.remoteId, s.id) /\ Relayed(t.remoteId, t.id)
      BY <1>6 DEF PairInv, JoinedInv
    <3>2. QED BY <3>1 DEF PairInv, FreshInv, Relayed
  <2> TAKE t \in joined[j]
  <2> HAVE t.remoteId = m.id
  <2>2. joined[j] \subseteq Entry(Joinees)
    BY <1>6, <1>7
  <2>3. \E s \in joined[j] : s.remoteId = m.id /\ s.id = r
    <3>1. PICK found : found = {s \in joined[j] : s.remoteId = m.id}
      OBVIOUS
    <3>2. found # {} /\ found \subseteq Entry(Joinees)
      BY <2>2, <3>1
    <3>3. PICK s \in found : FirstId(found) = s.id
      BY <3>2, FirstIdFound
    <3>4. QED BY <1>2, <3>1, <3>3 DEF GetLocalSessionId
  <2>4. QED BY <2>1, <2>3
<1>10. AskInv'
  <2>1. \A i \in Requests' : i \in Nat /\ i + 1 \in Requests /\ toFar'[i] = toFar[i + 1]
    BY <1>5
  <2>2. \A i \in Answers' : i \in Nat /\ i + 0 \in Answers /\ toNear'[i] = toNear[i + 0]
    BY <1>5, <1>4, Mail
  <2>3. \A f \in Joinees, k \in Joiners : Waits(f, k)' <=> Waits(f, k)
    BY <1>4 DEF Waits
  <2>4. UNCHANGED <<sessionJoinedSignalReceived, remoteSessionId, joining>>
    BY <1>4
  <2>5. 0 \in Nat /\ 1 \in Nat /\ AskInv
    BY DEF PairInv
  <2>6. QED BY <2>1, <2>2, <2>3, <2>4, <2>5, AskKept
<1>11. /\ \A x, k, f : MadeFor(farSessions, x, k, f)' <=> MadeFor(farSessions, x, k, f)
       /\ \A x \in Ids, k \in Joiners, f \in Joinees : Carried(x, k, f)' <=> Carried(x, k, f)
  BY <1>4, <1>5 DEF Carried, MadeFor, Waits
<1>12. FreshInv'
  BY <1>4, <1>11 DEF PairInv, FreshInv, BothMade, MadeFor
<1>13. HostedInv'
  BY <1>4 DEF PairInv, HostedInv, BothMade, MadeFor, Relayed
<1>14. JoinedInv' /\ RecordInv' /\ OrderInv'
  <2>1. 1 \in Losses =>
           \A k \in Joiners : toFar[1].peer = k => \A t \in joined'[k] : t.remoteId # toFar[1].id
    BY <1>2, <1>5, <1>8, <1>9
  <2>2. \A k \in Joiners : \A t \in joined'[k] : t \in joined[k]
    BY <1>8
  <2>3. QED BY <1>3, <1>4, <2>1, <2>2, MailMoved
<1>15. EndingInv'
  BY <1>4, <1>5, <1>8 DEF PairInv, EndingInv
<1>16. LiveInv'
  <2>1. farLive' \cap farLost' = {}
    BY <1>3, <1>4 DEF PairInv, LiveInv
  <2>2. ASSUME NEW s \in farSessions, s.id \in farLive, s.id # r
        PROVE  \/ Carried(s.id, s.joiner, s.joinee)'
               \/ \E q \in joined'[s.joiner] : q.id = s.id
               \/ \E i \in Records' : toFar'[i].remoteId = s.id
    <3>1. s.id \in Ids /\ s.joiner \in Joiners /\ s.joinee \in Joinees
      BY DEF TypeInv, TypeOK, Session
    <3>2. CASE Carried(s.id, s.joiner, s.joinee)
      BY <1>11, <3>1, <3>2
    <3>3. CASE \E q \in joined[s.joiner] : q.id = s.id
      BY <1>8, <2>2, <3>1, <3>3
    <3>4. ASSUME NEW i \in Records, toFar[i].remoteId = s.id
          PROVE  \E k \in Records' : toFar'[k].remoteId = s.id
      <4>1. i # 1
        BY <1>5, <3>4 DEF Records, Losses, At
      <4>2. i - 1 \in Records' /\ toFar'[i - 1] = toFar[i]
        BY <1>3, <4>1, FarLeft
      <4>3. QED BY <3>4, <4>2
    <3>5. QED BY <2>2, <3>2, <3>3, <3>4 DEF PairInv, LiveInv
  <2>3. QED BY <1>3, <1>4, <2>1, <2>2 DEF LiveInv
<1>17. QED BY <1>10, <1>12, <1>13, <1>14, <1>15, <1>16 DEF PairInv

-----------------------------------------------------------------------------
(* The connectors start with no callbacks, no sessions and no messages.    *)
LEMMA StartsTyped == Init => TypeInv
<1> SUFFICES ASSUME Init PROVE TypeInv
  OBVIOUS
<1>1. Busy = {} /\ Requests = {}
  BY DEF Init, Busy, Requests, At
<1>2. Cardinality({}) = 0 /\ IsFiniteSet({})
  BY FS_EmptySet
<1>3. TypeOK
  <2>1. \A S : <<>> \in Seq(S)
    OBVIOUS
  <2>2. 0 \in Ids0 /\ 0 \in 0 .. MaxJoins
    BY ConstantsAssumption DEF Ids0
  <2>3. QED BY <2>1, <2>2 DEF Init, TypeOK, PC
<1>4. joining.status # "already"
  BY DEF Init, NoJoin
<1>5. CountInv
  BY <1>1, <1>2, <1>4 DEF Init, CountInv, Numbered, Numbers
<1>6. QED BY <1>3, <1>5 DEF TypeInv

LEMMA StartsPaired == Init => PairInv
<1> SUFFICES ASSUME Init PROVE PairInv
  OBVIOUS
<1>1. /\ Requests = {} /\ Records = {} /\ Losses = {} /\ Answers = {} /\ Endings = {}
      /\ \A e \in Joinees, j \in Joiners : ~Waits(e, j) /\ pendingSessionJoiners[e][j] = 0
      /\ joining = NoJoin /\ joining.status \notin {"ok", "already"} /\ relayed = {}
      /\ \A e \in Joinees : hosted[e] = {}
      /\ \A j \in Joiners : joined[j] = {}
      /\ farSessions = {} /\ farLive = {}
  BY DEF Init, Requests, Records, Losses, Answers, Endings, At, Waits, NoJoin
<1>2. AskInv /\ HostedInv /\ JoinedInv /\ RecordInv /\ OrderInv /\ EndingInv /\ LiveInv
  BY <1>1 DEF AskInv, HostedInv, JoinedInv, RecordInv, OrderInv, EndingInv, LiveInv
<1>3. FreshInv
  BY <1>1, ConstantsAssumption DEF FreshInv, Carried, Ids
<1>4. QED BY <1>2, <1>3 DEF PairInv

(* A step of something else changes nothing.                               *)
LEMMA TypesKept == TypeInv /\ UNCHANGED vars => TypeInv'
  BY DEF TypeInv, CountInv, TypeOK, Busy, Requests, At, vars, near, listener, far, nearBus,
         farBus, link

LEMMA PairsKept == TypeInv /\ PairInv /\ UNCHANGED vars => PairInv'
<1> SUFFICES ASSUME TypeInv, PairInv, UNCHANGED vars PROVE PairInv'
  OBVIOUS
<1>1. UNCHANGED <<pc, sessionJoinedSignalReceived, remoteSessionId, pendingSessionJoiners, hosted,
                  joining, joined, nearSessions, nearLive, nearLost, farSessions, farLive,
                  farLost, toFar, toNear, relayed>>
  BY DEF vars, near, listener, far, nearBus, farBus, link
<1>2. /\ Requests' = Requests /\ Records' = Records /\ Losses' = Losses
      /\ Answers' = Answers /\ Endings' = Endings
  BY <1>1 DEF Requests, Records, Losses, Answers, Endings
<1>3. AskInv'
  BY <1>1, <1>2 DEF PairInv, AskInv, Unanswered, Waits
<1>4. FreshInv'
  <2>1. \A x, k, f : Carried(x, k, f)' <=> Carried(x, k, f)
    BY <1>1, <1>2 DEF Carried, Waits
  <2>2. /\ \A x, k, f : MadeFor(farSessions, x, k, f)' <=> MadeFor(farSessions, x, k, f)
        /\ \A l, x, k, f : BothMade(l, x, k, f)' <=> BothMade(l, x, k, f)
    BY <1>1 DEF BothMade, MadeFor
  <2>3. QED BY <1>1, <2>1, <2>2 DEF PairInv, FreshInv
<1>5. HostedInv' /\ EndingInv'
  BY <1>1, <1>2 DEF PairInv, HostedInv, EndingInv, Relayed, BothMade, MadeFor
<1>6. JoinedInv' /\ RecordInv'
  BY <1>1, <1>2 DEF PairInv, JoinedInv, RecordInv, Relayed, BothMade, MadeFor, Hosted, IsLoss
<1>7. OrderInv'
  BY <1>1, <1>2 DEF PairInv, OrderInv, IsLoss
<1>8. LiveInv'
  BY <1>1, <1>2 DEF PairInv, LiveInv, Carried, Waits
<1>9. QED BY <1>3, <1>4, <1>5, <1>6, <1>7, <1>8 DEF PairInv

(* Every step keeps the pairing.                                           *)
LEMMA StepPairs ==
    ASSUME TypeInv, PairInv, Next, ~Overlap, ~LateAnswers, ~Lossy
    PROVE  PairInv'
<1>1. ASSUME NEW e \in Joinees, NEW j \in Joiners,
             \/ AcceptSessionJoiner(e, j) \/ WakeSpuriously(e, j) \/ Wake(e, j)
             \/ TimeOut(e, j) \/ ListenerSessionJoined(e, j)
      PROVE  PairInv'
  BY <1>1, PairAccept, PairWait, PairListener
<1>2. ASSUME NEW id \in Ids,
             \/ JoinerLeaves(id) \/ NearSessionLost(id)
             \/ JoineeLeaves(id) \/ FarSessionLost(id)
      PROVE  PairInv'
  BY <1>2, PairLeave, PairNearLost, PairFarLost
<1>3. CASE ReceiveJoinResponse \/ NearReceiveSessionLost
  BY <1>3, PairResponse, PairEnding
<1>4. CASE ReceiveJoinRequest \/ AnswerJoin \/ ReceiveSessionJoined \/ FarReceiveSessionLost
  BY <1>4, PairRequest, PairAnswer, PairRecord, PairLoss
<1>5. ~LoseSessionLost
  BY DEF LoseSessionLost
<1>6. QED BY <1>1, <1>2, <1>3, <1>4, <1>5, StepCases

-----------------------------------------------------------------------------
(* Whatever the scheduling, the delays and the losses, every variable of   *)
(* the two connectors keeps its shape: in particular AcceptSessionJoiner   *)
(* has stored a remote id exactly when it has accepted the joiner, and the *)
(* daemons never number more sessions than joins were asked for.           *)
THEOREM TypeCorrect == Spec => []TypeOK
<1>1. TypeInv /\ [Next]_vars => TypeInv'
  BY StepTypes, TypesKept
<1>2. TypeInv => TypeOK
  BY DEF TypeInv
<1>3. QED BY <1>1, <1>2, StartsTyped, PTL DEF Spec

(* The inductive invariant.                                                *)
LEMMA PairsHold ==
    ASSUME ~Overlap, ~LateAnswers, ~Lossy
    PROVE  Spec => [](TypeInv /\ PairInv)
<1>1. TypeInv /\ PairInv /\ [Next]_vars => (TypeInv /\ PairInv)'
  BY StepTypes, TypesKept, StepPairs, PairsKept
<1>2. QED BY <1>1, StartsTyped, StartsPaired, PTL DEF Spec

(* When the joiners of an attachment are answered one at a time, within    *)
(* the ten seconds of AcceptSessionJoiner, and the link loses nothing, the *)
(* two connectors pair a session only with one made for the same two       *)
(* applications, whoever leaves and in whatever order the news arrives.    *)
THEOREM SessionsArePaired ==
    ASSUME ~Overlap, ~LateAnswers, ~Lossy
    PROVE  Spec => []SessionsPaired
<1>1. TypeInv /\ PairInv => SessionsPaired
  <2> SUFFICES ASSUME TypeInv, PairInv PROVE SessionsPaired
    OBVIOUS
  <2>1. \A e \in Joinees : \A s \in hosted[e] : MadeFor(farSessions, s.remoteId, s.peer, e)
    BY DEF PairInv, HostedInv, BothMade
  <2>2. \A j \in Joiners : \A s \in joined[j] : BothMade(s.remoteId, s.id, j, s.peer)
    BY DEF PairInv, JoinedInv
  <2>3. QED BY <2>1, <2>2 DEF SessionsPaired, BothMade
<1>2. QED BY <1>1, PairsHold, PTL

(* Under the same conditions ReceiveJoinRequest never answers with a       *)
(* session that has been paired before: no far session serves two near     *)
(* ones, also when a joiner leaves and joins again.                        *)
THEOREM SessionsAreFresh ==
    ASSUME ~Overlap, ~LateAnswers, ~Lossy
    PROVE  Spec => []EverySessionIsFresh
<1>1. PairInv => EverySessionIsFresh
  BY DEF PairInv, FreshInv, EverySessionIsFresh
<1>2. QED BY <1>1, PairsHold, PTL

(* Under the same conditions GetSessionIdByPeer has at most one candidate: *)
(* a joiner's attachment never records two sessions with one joinee, as    *)
(* the news of the end of one travels ahead of the record of the next.     *)
THEOREM PeersAreClear ==
    ASSUME ~Overlap, ~LateAnswers, ~Lossy
    PROVE  Spec => []PeersAreUnambiguous
<1>1. PairInv => PeersAreUnambiguous
  BY DEF PairInv, JoinedInv, PeersAreUnambiguous
<1>2. QED BY <1>1, PairsHold, PTL

=============================================================================
