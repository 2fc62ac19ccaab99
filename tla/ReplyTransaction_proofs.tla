----------------------- MODULE ReplyTransaction_proofs -----------------------
(* Theorems about ReplyTransaction, for any set of callers and any number  *)
(* of requests.                                                            *)
EXTENDS ReplyTransaction, SequenceTheorems, TLAPS

(* The actions of a caller, by name.                                       *)
LEMMA StepCases ==
    ASSUME Next
    PROVE  \/ \E c \in Callers : \/ BeginCall(c) \/ LockTransaction(c) \/ LockReply(c)
                                 \/ SendRequest(c) \/ SendOnly(c) \/ TestReply(c)
                                 \/ TimeOut(c) \/ WakeSpuriously(c) \/ Reacquire(c)
                                 \/ TakeReply(c) \/ Unlock(c)
           \/ RemoteHandles \/ SetReply \/ Lose
  BY DEF Next, Proceed

(* What the other connector sends back is a reply this one knows how to    *)
(* read.                                                                   *)
LEMMA RepliesAreBodies == \A k : RepliesTo(k) \subseteq Bodies
  BY DEF RepliesTo, GetReplies, SetReplies, GetAllReplies, MethodCallReplies, Bodies

LEMMA ResultsAreResults == \A k, b : ResultOf(k, b) \in Results
  BY DEF ResultOf, GetResult, SetResult, GetAllResult, MethodResult, Results

(* Every variable keeps its type: type correctness of the locks, the cell  *)
(* and the two channels.                                                   *)
THEOREM TypeCorrect == Spec => []TypeOK
<1> USE ConstantsAssumption
<1>1. Init => TypeOK
  <2> SUFFICES ASSUME Init PROVE TypeOK
    OBVIOUS
  <2>1. requests \in Seq(Request) /\ replies \in Seq(Reply)
    BY DEF Init
  <2>2. asked \in 0 .. MaxRequests /\ answers \subseteq Answer
    BY DEF Init
  <2>3. call \in [Callers -> Request \cup {NoRequest}] /\ pc \in [Callers -> PC]
    BY DEF Init, PC
  <2>4. \A c \in Callers : call[c] = NoRequest <=> pc[c] \in {"idle", "unlock"}
    BY DEF Init
  <2>5. QED BY <2>1, <2>2, <2>3, <2>4 DEF Init, TypeOK
<1>2. TypeOK /\ [Next]_vars => TypeOK'
  <2> SUFFICES ASSUME TypeOK, [Next]_vars PROVE TypeOK'
    OBVIOUS
  <2> USE DEF TypeOK, PC, Goto
  <2>0. NoRequest \notin Request
    BY DEF NoRequest, Request, Ids
  <2>1. ASSUME NEW c \in Callers, BeginCall(c) PROVE TypeOK'
    <3>1. asked' \in 0 .. MaxRequests /\ asked + 1 \in Ids
      BY <2>1 DEF BeginCall, Ids
    <3>2. PICK k \in Kinds :
             /\ call' = [call EXCEPT ![c] = [id |-> asked + 1, kind |-> k]]
             /\ pc' = [pc EXCEPT ![c] = IF k = "noreply" THEN "sendOnly"
                                                        ELSE "lockTransaction"]
      BY <2>1 DEF BeginCall
    <3>3. [id |-> asked + 1, kind |-> k] \in Request
      BY <3>1 DEF Request
    <3>4. call' \in [Callers -> Request \cup {NoRequest}]
      BY <3>2, <3>3
    <3>5. pc' \in [Callers -> PC]
      BY <3>2
    <3>6. \A d \in Callers : call'[d] = NoRequest <=> pc'[d] \in {"idle", "unlock"}
      BY <2>0, <3>2, <3>3
    <3>7. QED BY <2>1, <3>1, <3>4, <3>5, <3>6 DEF BeginCall, locks, cell, channels
  <2>2. ASSUME NEW c \in Callers, LockTransaction(c) PROVE TypeOK'
    BY <2>2 DEF LockTransaction, cell, channels
  <2>3. ASSUME NEW c \in Callers, LockReply(c) PROVE TypeOK'
    BY <2>3 DEF LockReply, cell, channels
  <2>4. ASSUME NEW c \in Callers, SendRequest(c) PROVE TypeOK'
    <3>1. call[c] \in Request
      BY <2>4 DEF SendRequest
    <3>2. requests' \in Seq(Request)
      BY <2>4, <3>1 DEF SendRequest
    <3>3. QED BY <2>4, <3>2 DEF SendRequest, locks, cell
  <2>5. ASSUME NEW c \in Callers, SendOnly(c) PROVE TypeOK'
    <3>1. call[c] \in Request
      BY <2>5 DEF SendOnly
    <3>2. requests' \in Seq(Request)
      BY <2>5, <3>1 DEF SendOnly
    <3>3. call' \in [Callers -> Request \cup {NoRequest}] /\ pc' \in [Callers -> PC]
      BY <2>5 DEF SendOnly
    <3>4. \A d \in Callers : call'[d] = NoRequest <=> pc'[d] \in {"idle", "unlock"}
      BY <2>5 DEF SendOnly
    <3>5. QED BY <2>5, <3>2, <3>3, <3>4 DEF SendOnly, locks, cell
  <2>6. ASSUME NEW c \in Callers, TestReply(c) PROVE TypeOK'
    BY <2>6 DEF TestReply, cell, channels
  <2>7. ASSUME NEW c \in Callers, TimeOut(c) PROVE TypeOK'
    BY <2>7 DEF TimeOut, locks, cell, channels
  <2>8. ASSUME NEW c \in Callers, WakeSpuriously(c) PROVE TypeOK'
    BY <2>8 DEF WakeSpuriously, locks, cell, channels
  <2>9. ASSUME NEW c \in Callers, Reacquire(c) PROVE TypeOK'
    BY <2>9 DEF Reacquire, cell, channels
  <2>10. ASSUME NEW c \in Callers, TakeReply(c) PROVE TypeOK'
    <3>1. call[c] \in Request
      BY <2>10 DEF TakeReply
    <3>2. answers' \subseteq Answer
      BY <2>10, <3>1, ResultsAreResults DEF TakeReply, Answer, Results
    <3>3. QED BY <2>10, <3>2 DEF TakeReply, locks, channels
  <2>11. ASSUME NEW c \in Callers, Unlock(c) PROVE TypeOK'
    BY <2>11 DEF Unlock, cell, channels
  <2>12. ASSUME RemoteHandles PROVE TypeOK'
    <3>1. Head(requests) \in Request /\ requests' \in Seq(Request)
      BY <2>12 DEF RemoteHandles
    <3>2. PICK b \in Bodies : replies' = Append(replies, [id |-> Head(requests).id, body |-> b])
      BY <2>12, RepliesAreBodies DEF RemoteHandles
    <3>3. [id |-> Head(requests).id, body |-> b] \in Reply
      BY <3>1, <3>2 DEF Request, Reply
    <3>4. replies' \in Seq(Reply)
      BY <3>2, <3>3
    <3>5. QED BY <2>12, <3>1, <3>4 DEF RemoteHandles, locks, cell
  <2>13. ASSUME SetReply PROVE TypeOK'
    <3>1. Head(replies) \in Reply /\ replies' \in Seq(Reply)
      BY <2>13 DEF SetReply
    <3>2. /\ pc' \in [Callers -> PC]
          /\ \A d \in Callers : call[d] = NoRequest <=> pc'[d] \in {"idle", "unlock"}
      BY <2>13 DEF SetReply
    <3>3. QED BY <2>13, <3>1, <3>2 DEF SetReply, locks
  <2>14. ASSUME Lose PROVE TypeOK'
    <3>1. requests' \in Seq(Request) /\ replies' \in Seq(Reply)
      <4>1. CASE requests # <<>> /\ requests' = Tail(requests) /\ UNCHANGED replies
        BY <4>1
      <4>2. CASE replies # <<>> /\ replies' = Tail(replies) /\ UNCHANGED requests
        BY <4>2
      <4>3. QED BY <2>14, <4>1, <4>2 DEF Lose
    <3>2. QED BY <2>14, <3>1 DEF Lose, locks, cell
  <2>15. CASE UNCHANGED vars
    BY <2>15 DEF vars, locks, cell, channels
  <2>16. QED
    <3>1. CASE Next
      BY <3>1, StepCases, <2>1, <2>2, <2>3, <2>4, <2>5, <2>6, <2>7, <2>8, <2>9, <2>10,
         <2>11, <2>12, <2>13, <2>14
    <3>2. QED BY <3>1, <2>15
<1>3. QED BY <1>1, <1>2, PTL DEF Spec

-----------------------------------------------------------------------------
HoldsReplyLock(c) == pc[c] \in {"send", "test", "take", "unlock"}

(* A lock is held by exactly the caller whose place in the code says so;   *)
(* and the store that could strand a waiter wakes the only one there is.   *)
LockInv ==
    /\ \A c \in Callers : InTransaction(c) <=> transactionMutex = c
    /\ \A c \in Callers : HoldsReplyLock(c) <=> replyReceivedMutex = c
    /\ NoLostWakeup

LEMMA LockInvInductive == Spec => []LockInv
<1> USE ConstantsAssumption
<1>1. Init => LockInv
  BY DEF Init, LockInv, InTransaction, HoldsReplyLock, NoLostWakeup
<1>2. TypeOK /\ LockInv /\ [Next]_vars => LockInv'
  <2> SUFFICES ASSUME TypeOK, LockInv, [Next]_vars PROVE LockInv'
    OBVIOUS
  <2> USE DEF LockInv, InTransaction, HoldsReplyLock, NoLostWakeup, Goto
  <2>0. pc \in [Callers -> PC]
    BY DEF TypeOK
  <2>1. ASSUME NEW c \in Callers, BeginCall(c) PROVE LockInv'
    BY <2>0, <2>1 DEF BeginCall, locks, cell
  <2>2. ASSUME NEW c \in Callers, LockTransaction(c) PROVE LockInv'
    BY <2>0, <2>2 DEF LockTransaction, cell
  <2>3. ASSUME NEW c \in Callers, LockReply(c) PROVE LockInv'
    BY <2>0, <2>3 DEF LockReply, cell
  <2>4. ASSUME NEW c \in Callers, SendRequest(c) PROVE LockInv'
    BY <2>0, <2>4 DEF SendRequest, locks, cell
  <2>5. ASSUME NEW c \in Callers, SendOnly(c) PROVE LockInv'
    BY <2>0, <2>5 DEF SendOnly, locks, cell
  <2>6. ASSUME NEW c \in Callers, TestReply(c) PROVE LockInv'
    BY <2>0, <2>6 DEF TestReply, cell
  <2>7. ASSUME NEW c \in Callers, TimeOut(c) PROVE LockInv'
    BY <2>0, <2>7 DEF TimeOut, locks, cell
  <2>8. ASSUME NEW c \in Callers, WakeSpuriously(c) PROVE LockInv'
    BY <2>0, <2>8 DEF WakeSpuriously, locks, cell
  <2>9. ASSUME NEW c \in Callers, Reacquire(c) PROVE LockInv'
    BY <2>0, <2>9 DEF Reacquire, cell
  <2>10. ASSUME NEW c \in Callers, TakeReply(c) PROVE LockInv'
    BY <2>0, <2>10 DEF TakeReply, locks
  <2>11. ASSUME NEW c \in Callers, Unlock(c) PROVE LockInv'
    BY <2>0, <2>11 DEF Unlock, cell
  <2>12. ASSUME RemoteHandles PROVE LockInv'
    BY <2>12 DEF RemoteHandles, locks, cell
  <2>13. ASSUME SetReply PROVE LockInv'
    <3>1. CASE \A c \in Callers : pc[c] # "blocked"
      BY <2>0, <2>13, <3>1 DEF SetReply, locks
    <3>2. ASSUME NEW c \in Callers, pc[c] = "blocked", pc' = [pc EXCEPT ![c] = "signalled"]
          PROVE  LockInv'
      <4>1. \A d \in Callers : pc[d] = "blocked" => d = c
        BY <3>2
      <4>2. QED BY <2>0, <2>13, <3>2, <4>1 DEF SetReply, locks
    <3>3. QED BY <2>13, <3>1, <3>2 DEF SetReply
  <2>14. ASSUME Lose PROVE LockInv'
    BY <2>14 DEF Lose, locks, cell
  <2>15. CASE UNCHANGED vars
    BY <2>15 DEF vars, locks, cell, channels
  <2>16. QED
    <3>1. CASE Next
      BY <3>1, StepCases, <2>1, <2>2, <2>3, <2>4, <2>5, <2>6, <2>7, <2>8, <2>9, <2>10,
         <2>11, <2>12, <2>13, <2>14
    <3>2. QED BY <3>1, <2>15
<1>3. QED BY <1>1, <1>2, TypeCorrect, PTL DEF Spec

(* At most one caller has a transaction open on the object, although the   *)
(* one that waits has released the reply lock.                             *)
THEOREM TransactionsExclusive == Spec => []OneTransaction
<1>1. LockInv => OneTransaction
  BY DEF LockInv, OneTransaction
<1>2. QED BY <1>1, LockInvInductive, PTL

(* No caller sleeps while the reply it waits for is in the cell.           *)
THEOREM WakeupsNotLost == Spec => []NoLostWakeup
<1>1. LockInv => NoLostWakeup
  BY DEF LockInv
<1>2. QED BY <1>1, LockInvInductive, PTL

-----------------------------------------------------------------------------
(* Whatever the link and the callers do, each request travels once: its id *)
(* is that of one message, or of the stored reply, or of an answer.        *)

IdsIn(s)    == {s[i].id : i \in DOMAIN s}
Distinct(s) == \A i, j \in DOMAIN s : s[i].id = s[j].id => i = j

LEMMA AppendIds ==
    ASSUME NEW S, NEW s \in Seq(S), NEW e \in S
    PROVE  /\ IdsIn(Append(s, e)) = IdsIn(s) \cup {e.id}
           /\ Distinct(s) /\ e.id \notin IdsIn(s) => Distinct(Append(s, e))
<1>1. /\ DOMAIN s = 1 .. Len(s) /\ Len(s) \in Nat
      /\ DOMAIN Append(s, e) = 1 .. Len(s) + 1
      /\ \A i \in 1 .. Len(s) : Append(s, e)[i] = s[i]
      /\ Append(s, e)[Len(s) + 1] = e
  OBVIOUS
<1>2. DOMAIN Append(s, e) = DOMAIN s \cup {Len(s) + 1}
  BY <1>1
<1>3. QED BY <1>1, <1>2 DEF IdsIn, Distinct

LEMMA TailIds ==
    ASSUME NEW S, NEW s \in Seq(S), s # <<>>
    PROVE  /\ Head(s).id \in IdsIn(s)
           /\ IdsIn(Tail(s)) \subseteq IdsIn(s)
           /\ Distinct(s) => Distinct(Tail(s)) /\ Head(s).id \notin IdsIn(Tail(s))
<1>1. /\ DOMAIN s = 1 .. Len(s) /\ Len(s) \in Nat \ {0} /\ Head(s) = s[1]
      /\ DOMAIN Tail(s) = 1 .. Len(s) - 1
      /\ \A i \in 1 .. Len(s) - 1 : Tail(s)[i] = s[i + 1]
  <2>1. Len(s) \in Nat \ {0}
    BY EmptySeq, Zenon
  <2>2. QED BY <2>1
<1>2. 1 \in DOMAIN s /\ \A i \in DOMAIN Tail(s) : i + 1 \in DOMAIN s /\ i + 1 # 1
  BY <1>1
<1>3. \A i, j \in DOMAIN Tail(s) : i + 1 = j + 1 => i = j
  BY <1>1
<1>4. QED BY <1>1, <1>2, <1>3 DEF IdsIn, Distinct

(* The callers whose request is on the way, or answered and not yet taken. *)
Sent(c) == pc[c] \in {"test", "blocked", "signalled", "timedOut", "take"}

InCell   == IF replyStr = NoReply THEN {} ELSE {replyStr.id}
Under    == IdsIn(requests) \cup IdsIn(replies) \cup InCell
Answered == {a.reply.id : a \in {b \in answers : b.reply # NoReply}}

(* What is under way was sent by a call that is over or waits for it; what *)
(* has been an answer is under way no more and belongs to no open call.    *)
IdInv ==
    /\ \A c \in Callers : call[c].id <= asked
    /\ \A c, d \in Callers : call[c] # NoRequest /\ call[c].id = call[d].id => c = d
    /\ \A i \in Under \cup Answered : i \in Ids /\ i <= asked
    /\ \A c \in Callers : call[c].id \in Under => Sent(c)
    /\ \A c \in Callers : call[c].id \notin Answered
    /\ Distinct(requests) /\ Distinct(replies)
    /\ IdsIn(requests) \cap IdsIn(replies) = {}
    /\ InCell \cap (IdsIn(requests) \cup IdsIn(replies)) = {}
    /\ Under \cap Answered = {}
    /\ ReplyUsedOnce

LEMMA IdInvInductive == Spec => []IdInv
<1> USE ConstantsAssumption
<1>1. Init => IdInv
  BY DEF Init, IdInv, Under, Answered, InCell, IdsIn, Distinct, ReplyUsedOnce, NoRequest
<1>2. TypeOK /\ TypeOK' /\ LockInv /\ IdInv /\ [Next]_vars => IdInv'
  <2> SUFFICES ASSUME TypeOK, TypeOK', LockInv, IdInv, [Next]_vars PROVE IdInv'
    OBVIOUS
  <2>a. /\ pc \in [Callers -> PC]
        /\ call \in [Callers -> Request \cup {NoRequest}]
        /\ \A c \in Callers : call[c] = NoRequest <=> pc[c] \in {"idle", "unlock"}
        /\ requests \in Seq(Request) /\ replies \in Seq(Reply)
        /\ replyStr \in Reply \cup {NoReply}
        /\ asked \in Nat /\ asked' \in Nat /\ asked' <= MaxRequests /\ answers \subseteq Answer
    BY DEF TypeOK
  <2>b. \A c, d \in Callers : InTransaction(c) /\ InTransaction(d) => c = d
    BY DEF LockInv
  <2>c. \A c \in Callers : call[c].id \in Nat /\ (call[c].id = 0 <=> call[c] = NoRequest)
    BY <2>a DEF Request, NoRequest, Ids
  <2>d. 0 \notin Under \cup Answered
    BY DEF IdInv, Ids
  <2> USE DEF IdInv, Goto
  <2>0. ASSUME UNCHANGED <<call, requests, replies, replyStr, asked, answers>>,
               \A c \in Callers : Sent(c) => Sent(c)'
        PROVE  IdInv'
    <3>1. Under' = Under /\ Answered' = Answered /\ InCell' = InCell
      BY <2>0 DEF Under, Answered, InCell, IdsIn
    <3>2. IdsIn(requests)' = IdsIn(requests) /\ IdsIn(replies)' = IdsIn(replies)
      BY <2>0 DEF IdsIn
    <3>3. (Distinct(requests) /\ Distinct(replies) /\ ReplyUsedOnce)'
      BY <2>0 DEF Distinct, ReplyUsedOnce
    <3>4. QED BY <2>0, <3>1, <3>2, <3>3
  <2>1. ASSUME NEW c \in Callers, BeginCall(c) PROVE IdInv'
    <3>1. UNCHANGED <<requests, replies, replyStr, answers>> /\ asked' = asked + 1
      BY <2>1 DEF BeginCall, channels, cell
    <3>2. Under' = Under /\ Answered' = Answered
      BY <3>1 DEF Under, Answered, IdsIn, InCell
    <3>3. PICK k \in Kinds : call' = [call EXCEPT ![c] = [id |-> asked + 1, kind |-> k]]
      BY <2>1 DEF BeginCall
    <3>4. call'[c].id = asked + 1 /\ \A d \in Callers : d # c => call'[d] = call[d]
      BY <2>a, <3>3
    <3>5. \A i \in Under \cup Answered : i # asked + 1
      BY <2>a DEF Ids
    <3>6. \A d \in Callers : Sent(d) => Sent(d)'
      BY <2>a, <2>1 DEF BeginCall, Sent
    <3>7. \A d \in Callers : /\ call'[d].id <= asked'
                             /\ call'[d].id \in Under => Sent(d)'
                             /\ call'[d].id \notin Answered
      BY <2>a, <2>c, <3>1, <3>4, <3>5, <3>6
    <3>8. \A d, e \in Callers : call'[d] # NoRequest /\ call'[d].id = call'[e].id => d = e
      BY <2>a, <2>c, <3>4
    <3>9. \A i \in Under \cup Answered : i \in Ids /\ i <= asked'
      BY <2>a, <3>1 DEF Ids
    <3>10. (Distinct(requests) /\ Distinct(replies) /\ ReplyUsedOnce)'
      BY <3>1 DEF Distinct, ReplyUsedOnce
    <3>11. (/\ IdsIn(requests) \cap IdsIn(replies) = {}
            /\ InCell \cap (IdsIn(requests) \cup IdsIn(replies)) = {})'
      BY <3>1 DEF IdsIn, InCell
    <3>12. QED BY <3>2, <3>7, <3>8, <3>9, <3>10, <3>11
  <2>2. ASSUME NEW c \in Callers, LockTransaction(c) PROVE IdInv'
    BY <2>0, <2>a, <2>2 DEF LockTransaction, cell, channels, Sent
  <2>3. ASSUME NEW c \in Callers, LockReply(c) PROVE IdInv'
    BY <2>0, <2>a, <2>3 DEF LockReply, cell, channels, Sent
  <2>4. ASSUME NEW c \in Callers, SendRequest(c) PROVE IdInv'
    <3>1. /\ call[c] \in Request /\ call[c].id \notin Under \cup Answered
           /\ call[c].id \in Ids /\ ~Sent(c)
      BY <2>a, <2>4 DEF SendRequest, Sent, Request
    <3>2. /\ IdsIn(requests)' = IdsIn(requests) \cup {call[c].id}
          /\ Distinct(requests)'
      <4>1. requests' = Append(requests, call[c])
        BY <2>4 DEF SendRequest
      <4>2. Distinct(requests) /\ call[c].id \notin IdsIn(requests)
        BY <3>1 DEF Under
      <4>3. QED BY <2>a, <3>1, <4>1, <4>2, AppendIds
    <3>3. UNCHANGED <<call, replies, replyStr, asked, answers>>
      BY <2>4 DEF SendRequest, cell
    <3>4. /\ IdsIn(replies)' = IdsIn(replies) /\ InCell' = InCell /\ Answered' = Answered
          /\ Distinct(replies)' /\ ReplyUsedOnce'
      BY <3>3 DEF IdsIn, InCell, Answered, Distinct, ReplyUsedOnce
    <3>5. Under' = Under \cup {call[c].id}
      BY <3>2, <3>4 DEF Under
    <3>6. \A d \in Callers : call[d].id \in Under' => Sent(d)'
      <4>1. Sent(c)' /\ \A d \in Callers : d # c => (Sent(d)' <=> Sent(d))
        BY <2>a, <2>4 DEF SendRequest, Sent
      <4>2. \A d \in Callers : call[d].id = call[c].id => d = c
        BY <2>c, <3>1 DEF Ids
      <4>3. QED BY <3>5, <4>1, <4>2
    <3>7. /\ (IdsIn(requests) \cap IdsIn(replies) = {})'
          /\ (InCell \cap (IdsIn(requests) \cup IdsIn(replies)) = {})'
      BY <3>1, <3>2, <3>4 DEF Under
    <3>8. \A i \in Under' \cup Answered' : i \in Ids /\ i <= asked'
      BY <3>1, <3>3, <3>4, <3>5
    <3>9. QED BY <3>1, <3>2, <3>3, <3>4, <3>5, <3>6, <3>7, <3>8
  <2>5. ASSUME NEW c \in Callers, SendOnly(c) PROVE IdInv'
    <3>1. call[c] \in Request /\ call[c].id \notin Under \cup Answered /\ call[c].id \in Ids
      BY <2>a, <2>5 DEF SendOnly, Sent, Request
    <3>2. /\ IdsIn(requests)' = IdsIn(requests) \cup {call[c].id}
          /\ Distinct(requests)'
      <4>1. requests' = Append(requests, call[c])
        BY <2>5 DEF SendOnly
      <4>2. Distinct(requests) /\ call[c].id \notin IdsIn(requests)
        BY <3>1 DEF Under
      <4>3. QED BY <2>a, <3>1, <4>1, <4>2, AppendIds
    <3>3. UNCHANGED <<replies, replyStr, asked, answers>>
      BY <2>5 DEF SendOnly, cell
    <3>4. /\ IdsIn(replies)' = IdsIn(replies) /\ InCell' = InCell /\ Answered' = Answered
          /\ Distinct(replies)' /\ ReplyUsedOnce'
      BY <3>3 DEF IdsIn, InCell, Answered, Distinct, ReplyUsedOnce
    <3>5. Under' = Under \cup {call[c].id}
      BY <3>2, <3>4 DEF Under
    <3>6. call'[c] = NoRequest /\ call'[c].id = 0 /\ \A d \in Callers : d # c => call'[d] = call[d]
      BY <2>a, <2>5 DEF SendOnly, NoRequest
    <3>7. \A d \in Callers : call'[d].id \in Under' => Sent(d)'
      <4>1. \A d \in Callers : d # c => (Sent(d)' <=> Sent(d))
        BY <2>a, <2>5 DEF SendOnly, Sent
      <4>2. \A d \in Callers : call[d].id = call[c].id => d = c
        BY <2>c, <3>1 DEF Ids
      <4>3. 0 \notin Under'
        BY <2>d, <3>1, <3>5 DEF Ids
      <4>4. QED BY <3>5, <3>6, <4>1, <4>2, <4>3
    <3>8. /\ (IdsIn(requests) \cap IdsIn(replies) = {})'
          /\ (InCell \cap (IdsIn(requests) \cup IdsIn(replies)) = {})'
      BY <3>1, <3>2, <3>4 DEF Under
    <3>9. \A i \in Under' \cup Answered' : i \in Ids /\ i <= asked'
      BY <3>1, <3>3, <3>4, <3>5
    <3>10. \A d \in Callers : call'[d].id <= asked' /\ call'[d].id \notin Answered'
      BY <2>d, <2>a, <3>3, <3>4, <3>6
    <3>11. \A d, e \in Callers : call'[d] # NoRequest /\ call'[d].id = call'[e].id => d = e
      BY <2>c, <3>6
    <3>12. Under' \cap Answered' = {}
      BY <3>1, <3>4, <3>5
    <3>13. QED BY <3>2, <3>4, <3>7, <3>8, <3>9, <3>10, <3>11, <3>12
  <2>6. ASSUME NEW c \in Callers, TestReply(c) PROVE IdInv'
    BY <2>0, <2>a, <2>6 DEF TestReply, cell, channels, Sent
  <2>7. ASSUME NEW c \in Callers, TimeOut(c) PROVE IdInv'
    BY <2>0, <2>a, <2>7 DEF TimeOut, cell, channels, Sent
  <2>8. ASSUME NEW c \in Callers, WakeSpuriously(c) PROVE IdInv'
    BY <2>0, <2>a, <2>8 DEF WakeSpuriously, cell, channels, Sent
  <2>9. ASSUME NEW c \in Callers, Reacquire(c) PROVE IdInv'
    BY <2>0, <2>a, <2>9 DEF Reacquire, cell, channels, Sent
  <2>10. ASSUME NEW c \in Callers, TakeReply(c) PROVE IdInv'
    <3>1. PICK a : /\ answers' = answers \cup {a}
                   /\ a.reply = replyStr /\ a.req = call[c]
      <4> DEFINE a == [req |-> call[c], reply |-> replyStr,
                       result |-> IF replyReceived
                                  THEN ResultOf(call[c].kind, replyStr.body) ELSE "fail"]
      <4>1. answers' = answers \cup {a} /\ a.reply = replyStr /\ a.req = call[c]
        BY <2>10 DEF TakeReply
      <4>2. QED BY <4>1
    <3>2. UNCHANGED <<requests, replies, asked>> /\ replyStr' = NoReply
      BY <2>10 DEF TakeReply, channels
    <3>3. /\ IdsIn(requests)' = IdsIn(requests) /\ IdsIn(replies)' = IdsIn(replies)
          /\ InCell' = {} /\ Distinct(requests)' /\ Distinct(replies)'
      BY <3>2 DEF IdsIn, InCell, Distinct
    <3>4. Answered' = Answered \cup InCell
      BY <3>1 DEF Answered, InCell
    <3>5. Under' \subseteq Under \ InCell
      BY <3>3 DEF Under
    <3>6. call'[c] = NoRequest /\ call'[c].id = 0 /\ \A d \in Callers : d # c => call'[d] = call[d]
      BY <2>a, <2>10 DEF TakeReply, NoRequest
    <3>7. InCell \subseteq Under
      BY DEF Under
    <3>8. \A d \in Callers : d # c => call[d].id \notin InCell
      <4>1. \A d \in Callers : Sent(d) => d = c
        BY <2>b, <2>10 DEF TakeReply, Sent, InTransaction
      <4>2. QED BY <3>7, <4>1
    <3>9. \A d \in Callers : /\ call'[d].id <= asked'
                             /\ call'[d].id \in Under' => Sent(d)'
                             /\ call'[d].id \notin Answered'
      <4>1. \A d \in Callers : d # c => (Sent(d)' <=> Sent(d))
        BY <2>a, <2>10 DEF TakeReply, Sent
      <4>2. 0 \notin Under' \cup Answered'
        BY <2>d, <3>4, <3>5, <3>7
      <4>3. QED BY <2>a, <3>2, <3>4, <3>5, <3>6, <3>8, <4>1, <4>2
    <3>10. \A d, e \in Callers : call'[d] # NoRequest /\ call'[d].id = call'[e].id => d = e
      BY <2>c, <3>6
    <3>11. ReplyUsedOnce'
      <4>1. \A b \in answers : a.reply # NoReply /\ b.reply # NoReply => a.reply.id # b.reply.id
        <5>1. a.reply # NoReply => a.reply.id \in Under
          BY <3>1, <3>7 DEF InCell
        <5>2. \A b \in answers : b.reply # NoReply => b.reply.id \in Answered
          BY DEF Answered
        <5>3. QED BY <5>1, <5>2
      <4>2. \A b \in answers \cup {a} : b.reply # NoReply <=> b.reply.id # NoReply.id
        <5>1. \A r \in Reply \cup {NoReply} : r # NoReply <=> r.id # NoReply.id
          BY DEF Reply, NoReply, Ids
        <5>2. \A b \in answers \cup {a} : b.reply \in Reply \cup {NoReply}
          BY <2>a, <3>1 DEF Answer
        <5>3. QED BY <5>1, <5>2
      <4>3. QED BY <3>1, <4>1, <4>2 DEF ReplyUsedOnce
    <3>12. QED BY <3>2, <3>3, <3>4, <3>5, <3>7, <3>9, <3>10, <3>11
  <2>11. ASSUME NEW c \in Callers, Unlock(c) PROVE IdInv'
    BY <2>0, <2>a, <2>11 DEF Unlock, cell, channels, Sent
  <2>12. ASSUME RemoteHandles PROVE IdInv'
    <3>1. requests # <<>> /\ requests' = Tail(requests)
      BY <2>12 DEF RemoteHandles
    <3>2. /\ Head(requests).id \in IdsIn(requests)
          /\ IdsIn(requests)' \subseteq IdsIn(requests) \ {Head(requests).id}
          /\ Distinct(requests)'
      BY <2>a, <3>1, TailIds
    <3>3. PICK e \in Reply : replies' = Append(replies, e) /\ e.id = Head(requests).id
      <4>1. PICK b \in Bodies : replies' = Append(replies, [id |-> Head(requests).id, body |-> b])
        BY <2>12, RepliesAreBodies DEF RemoteHandles
      <4>2. [id |-> Head(requests).id, body |-> b] \in Reply
        BY <3>2 DEF Under, Reply
      <4>3. QED BY <4>1, <4>2
    <3>4. /\ IdsIn(replies)' = IdsIn(replies) \cup {Head(requests).id}
          /\ Distinct(replies)'
      BY <2>a, <3>2, <3>3, AppendIds
    <3>5. UNCHANGED <<pc, call, replyStr, asked, answers>>
      BY <2>12 DEF RemoteHandles, cell
    <3>6. /\ InCell' = InCell /\ Answered' = Answered /\ ReplyUsedOnce'
          /\ \A c \in Callers : Sent(c)' = Sent(c)
      BY <3>5 DEF InCell, Answered, ReplyUsedOnce, Sent
    <3>7. Under' \subseteq Under
      BY <3>2, <3>4, <3>6 DEF Under
    <3>8. /\ (IdsIn(requests) \cap IdsIn(replies) = {})'
          /\ (InCell \cap (IdsIn(requests) \cup IdsIn(replies)) = {})'
      BY <3>2, <3>4, <3>6
    <3>9. QED BY <3>2, <3>4, <3>5, <3>6, <3>7, <3>8
  <2>13. ASSUME SetReply PROVE IdInv'
    <3>1. replies # <<>> /\ replies' = Tail(replies) /\ replyStr' = Head(replies)
      BY <2>13 DEF SetReply
    <3>2. /\ Head(replies).id \in IdsIn(replies)
          /\ IdsIn(replies)' \subseteq IdsIn(replies) \ {Head(replies).id}
          /\ Distinct(replies)'
      BY <2>a, <3>1, TailIds
    <3>3. InCell' \subseteq {Head(replies).id}
      BY <3>1 DEF InCell
    <3>4. UNCHANGED <<call, requests, asked, answers>>
      BY <2>13 DEF SetReply
    <3>5. /\ IdsIn(requests)' = IdsIn(requests) /\ Distinct(requests)'
          /\ Answered' = Answered /\ ReplyUsedOnce'
      BY <3>4 DEF IdsIn, Distinct, Answered, ReplyUsedOnce
    <3>6. \A c \in Callers : Sent(c) => Sent(c)'
      BY <2>a, <2>13 DEF SetReply, Sent
    <3>7. Under' \subseteq Under
      BY <3>2, <3>3, <3>5 DEF Under
    <3>8. /\ (IdsIn(requests) \cap IdsIn(replies) = {})'
          /\ (InCell \cap (IdsIn(requests) \cup IdsIn(replies)) = {})'
      BY <3>2, <3>3, <3>5
    <3>9. QED BY <3>2, <3>4, <3>5, <3>6, <3>7, <3>8
  <2>14. ASSUME Lose PROVE IdInv'
    <3>1. UNCHANGED <<pc, call, replyStr, asked, answers>>
      BY <2>14 DEF Lose, cell
    <3>2. /\ InCell' = InCell /\ Answered' = Answered /\ ReplyUsedOnce'
          /\ \A c \in Callers : Sent(c)' = Sent(c)
      BY <3>1 DEF InCell, Answered, ReplyUsedOnce, Sent
    <3>3. /\ IdsIn(requests)' \subseteq IdsIn(requests) /\ Distinct(requests)'
          /\ IdsIn(replies)' \subseteq IdsIn(replies) /\ Distinct(replies)'
      <4>1. CASE requests # <<>> /\ requests' = Tail(requests) /\ UNCHANGED replies
        BY <2>a, <4>1, TailIds DEF IdsIn, Distinct
      <4>2. CASE replies # <<>> /\ replies' = Tail(replies) /\ UNCHANGED requests
        BY <2>a, <4>2, TailIds DEF IdsIn, Distinct
      <4>3. QED BY <2>14, <4>1, <4>2 DEF Lose
    <3>4. Under' \subseteq Under
      BY <3>2, <3>3 DEF Under
    <3>5. QED BY <3>1, <3>2, <3>3, <3>4
  <2>15. CASE UNCHANGED vars
    BY <2>0, <2>15 DEF vars, cell, channels, Sent
  <2>16. QED
    <3>1. CASE Next
      BY <3>1, StepCases, <2>1, <2>2, <2>3, <2>4, <2>5, <2>6, <2>7, <2>8, <2>9, <2>10,
         <2>11, <2>12, <2>13, <2>14
    <3>2. QED BY <3>1, <2>15
<1>3. QED BY <1>1, <1>2, TypeCorrect, LockInvInductive, PTL DEF Spec

(* No reply answers two requests, however late or lost others are:         *)
(* ReceiveReply empties the cell it reads.                                 *)
THEOREM RepliesUsedOnce == Spec => []ReplyUsedOnce
BY IdInvInductive, PTL DEF IdInv

(* No call is answered with the reply to another call that is still open:  *)
(* requests are sent and replies taken inside the transaction only, and a  *)
(* NoReply method is over when it is sent.                                 *)
THEOREM RepliesNotStolen == Spec => []NoStolenReply
<1>1. IdInv => NoStolenReply
  BY DEF IdInv, NoStolenReply, Answered
<1>2. QED BY <1>1, IdInvInductive, PTL

-----------------------------------------------------------------------------
(* The connector behaves as a request-reply service when no answer comes   *)
(* late and every request is awaited.                                      *)
Prompt == ~LateReplies /\ "noreply" \notin Kinds

Waits(c) == pc[c] \in {"test", "blocked", "signalled"}
Quiet    == Len(requests) = 0 /\ Len(replies) = 0

IsReplyTo(request, reply) ==
    reply.id = request.id /\ reply.body \in RepliesTo(request.kind)

(* Then at most one message or stored reply exists at a time, and only     *)
(* while the caller whose request it belongs to is waiting for it.         *)
PromptInv ==
    /\ \A c \in Callers : pc[c] # "sendOnly"
    /\ Len(requests) + Len(replies) <= 1
    /\ (\E c \in Callers : Waits(c)) \/ Quiet
    /\ \A c \in Callers : Waits(c) =>
          /\ \A i \in DOMAIN requests : requests[i] = call[c]
          /\ \A i \in DOMAIN replies : IsReplyTo(call[c], replies[i])
    /\ replyReceived =>
          /\ Quiet
          /\ \E c \in Callers : /\ pc[c] \in {"test", "signalled", "take"}
                               /\ IsReplyTo(call[c], replyStr)
    /\ ~replyReceived => replyStr = NoReply
    /\ OwnReply

(* Channels of at most one message.                                        *)
LEMMA EmptyChannel ==
    ASSUME NEW S, NEW s \in Seq(S), Len(s) = 0
    PROVE  DOMAIN s = {}
  OBVIOUS

LEMMA AppendToEmpty ==
    ASSUME NEW S, NEW s \in Seq(S), NEW e \in S, Len(s) = 0
    PROVE  Len(Append(s, e)) = 1 /\ \A i \in DOMAIN Append(s, e) : Append(s, e)[i] = e
  OBVIOUS

LEMMA TakeFromOne ==
    ASSUME NEW S, NEW s \in Seq(S), s # <<>>, Len(s) <= 1
    PROVE  Len(s) = 1 /\ 1 \in DOMAIN s /\ Head(s) = s[1] /\ Len(Tail(s)) = 0
<1>1. Len(s) = 1
  <2>1. Len(s) \in Nat \ {0}
    BY EmptySeq, Zenon
  <2>2. QED BY <2>1
<1>2. 1 \in DOMAIN s /\ Head(s) = s[1]
  BY <1>1
<1>3. Len(Tail(s)) = 0
  BY <1>1
<1>4. QED BY <1>1, <1>2, <1>3

LEMMA PromptInvInductive ==
    ASSUME Prompt
    PROVE  Spec => []PromptInv
<1> USE ConstantsAssumption
<1>1. Init => PromptInv
  BY DEF Init, PromptInv, Waits, Quiet, OwnReply
<1>2. TypeOK /\ LockInv /\ PromptInv /\ [Next]_vars => PromptInv'
  <2> SUFFICES ASSUME TypeOK, LockInv, PromptInv, [Next]_vars PROVE PromptInv'
    OBVIOUS
  <2>a. /\ pc \in [Callers -> PC]
        /\ call \in [Callers -> Request \cup {NoRequest}]
        /\ \A c \in Callers : call[c] = NoRequest <=> pc[c] \in {"idle", "unlock"}
        /\ requests \in Seq(Request) /\ replies \in Seq(Reply)
        /\ Len(requests) \in Nat /\ Len(replies) \in Nat
        /\ replyReceived \in BOOLEAN
    BY DEF TypeOK
  <2>b. \A c, d \in Callers : InTransaction(c) /\ InTransaction(d) => c = d
    BY DEF LockInv
  <2>c. \A c \in Callers : pc[c] = "blocked" => ~replyReceived
    BY DEF LockInv, NoLostWakeup
  <2> USE DEF PromptInv, Waits, Quiet, Goto, OwnReply
  <2>1. ASSUME NEW c \in Callers, BeginCall(c) PROVE PromptInv'
    BY <2>a, <2>1 DEF BeginCall, locks, cell, channels, Prompt
  <2>2. ASSUME NEW c \in Callers, LockTransaction(c) PROVE PromptInv'
    BY <2>a, <2>2 DEF LockTransaction, cell, channels
  <2>3. ASSUME NEW c \in Callers, LockReply(c) PROVE PromptInv'
    BY <2>a, <2>3 DEF LockReply, cell, channels
  <2>4. ASSUME NEW c \in Callers, SendRequest(c) PROVE PromptInv'
    <3>1. /\ \A d \in Callers : ~Waits(d)
          /\ \A d \in Callers : pc[d] # "take"
      BY <2>b, <2>4 DEF SendRequest, InTransaction
    <3>2. Quiet /\ ~replyReceived
      BY <3>1
    <3>3. call[c] \in Request
      BY <2>a, <2>4 DEF SendRequest
    <3>4. /\ Len(requests') = 1
          /\ \A i \in DOMAIN requests' : requests'[i] = call[c]
      BY <2>a, <2>4, <3>2, <3>3, AppendToEmpty DEF SendRequest
    <3>5. DOMAIN replies = {} /\ replies' = replies /\ Len(replies') = 0
      BY <2>a, <2>4, <3>2, EmptyChannel DEF SendRequest
    <3>6. \A d \in Callers : Waits(d)' => d = c
      BY <2>a, <2>4, <3>1 DEF SendRequest
    <3>7. Waits(c)'
      BY <2>a, <2>4 DEF SendRequest
    <3>8. QED BY <2>a, <2>4, <3>2, <3>4, <3>5, <3>6, <3>7 DEF SendRequest, locks, cell
  <2>5. ASSUME NEW c \in Callers, SendOnly(c) PROVE PromptInv'
    BY <2>5 DEF SendOnly
  <2>6. ASSUME NEW c \in Callers, TestReply(c) PROVE PromptInv'
    <3>1. \A d \in Callers : InTransaction(d) => d = c
      BY <2>b, <2>6 DEF TestReply, InTransaction
    <3>2. CASE replyReceived
      BY <2>a, <2>6, <3>1, <3>2 DEF TestReply, cell, channels, InTransaction
    <3>3. CASE ~replyReceived
      BY <2>a, <2>6, <3>1, <3>3 DEF TestReply, cell, channels, InTransaction
    <3>4. QED BY <3>2, <3>3
  <2>7. ASSUME NEW c \in Callers, TimeOut(c) PROVE PromptInv'
    <3>1. ~InFlight(call[c].id)
      BY <2>7 DEF TimeOut, Prompt
    <3>2. DOMAIN requests = {} /\ DOMAIN replies = {}
      BY <2>7, <3>1 DEF TimeOut, InFlight, IsReplyTo
    <3>3. Quiet
      BY <2>a, <3>2
    <3>4. ~replyReceived
      BY <2>7, <2>c DEF TimeOut
    <3>5. QED BY <2>a, <2>7, <3>2, <3>3, <3>4 DEF TimeOut, locks, cell, channels
  <2>8. ASSUME NEW c \in Callers, WakeSpuriously(c) PROVE PromptInv'
    BY <2>a, <2>c, <2>8 DEF WakeSpuriously, locks, cell, channels
  <2>9. ASSUME NEW c \in Callers, Reacquire(c) PROVE PromptInv'
    <3>1. \A d \in Callers : InTransaction(d) => d = c
      BY <2>b, <2>9 DEF Reacquire, InTransaction
    <3>2. CASE pc[c] = "signalled"
      BY <2>a, <2>9, <3>1, <3>2 DEF Reacquire, cell, channels, InTransaction
    <3>3. CASE pc[c] = "timedOut"
      BY <2>a, <2>9, <3>1, <3>3 DEF Reacquire, cell, channels, InTransaction
    <3>4. QED BY <2>9, <3>2, <3>3 DEF Reacquire
  <2>10. ASSUME NEW c \in Callers, TakeReply(c) PROVE PromptInv'
    <3>1. \A d \in Callers : InTransaction(d) => d = c
      BY <2>b, <2>10 DEF TakeReply, InTransaction
    <3>2. Quiet /\ \A d \in Callers : ~Waits(d)
      BY <2>10, <3>1 DEF TakeReply, InTransaction
    <3>3. replyStr.id \in {0, call[c].id}
      BY <2>10, <3>1 DEF TakeReply, InTransaction, NoReply, IsReplyTo
    <3>4. OwnReply'
      BY <2>10, <3>3 DEF TakeReply
    <3>5. \A d \in Callers : ~Waits(d)' /\ pc'[d] # "sendOnly"
      BY <2>a, <2>10, <3>2 DEF TakeReply
    <3>6. QED BY <2>10, <3>2, <3>4, <3>5 DEF TakeReply, locks, channels
  <2>11. ASSUME NEW c \in Callers, Unlock(c) PROVE PromptInv'
    BY <2>a, <2>11 DEF Unlock, cell, channels
  <2>12. ASSUME RemoteHandles PROVE PromptInv'
    <3>1. /\ Len(requests) = 1 /\ 1 \in DOMAIN requests /\ Head(requests) = requests[1]
          /\ Len(requests') = 0
      BY <2>a, <2>12, TakeFromOne DEF RemoteHandles
    <3>2. requests' \in Seq(Request) /\ DOMAIN requests' = {}
      BY <2>a, <2>12, <3>1, EmptyChannel DEF RemoteHandles
    <3>3. PICK b \in RepliesTo(Head(requests).kind) :
             replies' = Append(replies, [id |-> Head(requests).id, body |-> b])
      BY <2>12 DEF RemoteHandles
    <3>4. [id |-> Head(requests).id, body |-> b] \in Reply
      BY <2>a, <3>1, <3>3, RepliesAreBodies DEF Request, Reply
    <3>5. Len(replies) = 0
      BY <2>a, <3>1
    <3>6. /\ Len(replies') = 1
          /\ \A i \in DOMAIN replies' : replies'[i] = [id |-> Head(requests).id, body |-> b]
      BY <2>a, <3>3, <3>4, <3>5, AppendToEmpty
    <3>7. \A c \in Callers : Waits(c) => Head(requests) = call[c]
      BY <3>1
    <3>8. \A c \in Callers : Waits(c) => \A i \in DOMAIN replies' : IsReplyTo(call[c], replies'[i])
      BY <3>6, <3>7 DEF IsReplyTo
    <3>9. QED BY <2>12, <3>1, <3>2, <3>6, <3>8 DEF RemoteHandles, locks, cell
  <2>13. ASSUME SetReply PROVE PromptInv'
    <3>1. /\ Len(replies) = 1 /\ 1 \in DOMAIN replies /\ Head(replies) = replies[1]
          /\ Len(replies') = 0
      BY <2>a, <2>13, TakeFromOne DEF SetReply
    <3>2. replies' \in Seq(Reply) /\ DOMAIN replies' = {}
      BY <2>a, <2>13, <3>1, EmptyChannel DEF SetReply
    <3>3. Len(requests') = 0 /\ DOMAIN requests' = {}
      BY <2>a, <2>13, <3>1, EmptyChannel DEF SetReply
    <3>4. PICK c \in Callers : Waits(c)
      BY <3>1
    <3>5. IsReplyTo(call[c], replyStr')
      BY <2>13, <3>1, <3>4 DEF SetReply
    <3>6. /\ Waits(c)' /\ pc'[c] # "blocked"
          /\ \A d \in Callers : pc'[d] # "sendOnly"
      <4>1. CASE \A d \in Callers : pc[d] # "blocked"
        BY <2>a, <2>13, <3>4, <4>1 DEF SetReply
      <4>2. ASSUME NEW d \in Callers, pc[d] = "blocked", pc' = [pc EXCEPT ![d] = "signalled"]
            PROVE  /\ Waits(c)' /\ pc'[c] # "blocked"
                   /\ \A e \in Callers : pc'[e] # "sendOnly"
        <5>1. c = d
          BY <2>b, <3>4, <4>2 DEF InTransaction
        <5>2. QED BY <2>a, <3>4, <4>2, <5>1
      <4>3. QED BY <2>13, <4>1, <4>2 DEF SetReply
    <3>7. UNCHANGED <<call, answers>> /\ replyReceived' /\ pc'[c] \in {"test", "signalled"}
      BY <2>13, <3>6 DEF SetReply
    <3>8. QED BY <3>1, <3>2, <3>3, <3>5, <3>6, <3>7
  <2>14. ASSUME Lose PROVE PromptInv'
    <3>1. CASE requests # <<>> /\ requests' = Tail(requests) /\ UNCHANGED replies
      <4>1. Len(requests) = 1 /\ Len(requests') = 0
        BY <2>a, <3>1, TakeFromOne
      <4>2. requests' \in Seq(Request) /\ DOMAIN requests' = {}
        BY <2>a, <3>1, <4>1, EmptyChannel
      <4>3. QED BY <2>a, <2>14, <3>1, <4>1, <4>2 DEF Lose, locks, cell
    <3>2. CASE replies # <<>> /\ replies' = Tail(replies) /\ UNCHANGED requests
      <4>1. Len(replies) = 1 /\ Len(replies') = 0
        BY <2>a, <3>2, TakeFromOne
      <4>2. replies' \in Seq(Reply) /\ DOMAIN replies' = {}
        BY <2>a, <3>2, <4>1, EmptyChannel
      <4>3. QED BY <2>a, <2>14, <3>2, <4>1, <4>2 DEF Lose, locks, cell
    <3>3. QED BY <2>14, <3>1, <3>2 DEF Lose
  <2>15. CASE UNCHANGED vars
    BY <2>15 DEF vars, locks, cell, channels
  <2>16. QED
    <3>1. CASE Next
      BY <3>1, StepCases, <2>1, <2>2, <2>3, <2>4, <2>5, <2>6, <2>7, <2>8, <2>9, <2>10,
         <2>11, <2>12, <2>13, <2>14
    <3>2. QED BY <3>1, <2>15
<1>3. QED BY <1>1, <1>2, TypeCorrect, LockInvInductive, PTL DEF Spec

(* When no answer comes late and NoReply methods are not used, every call  *)
(* is answered with the reply to its own request or with a failure, even   *)
(* though messages carry nothing that says which request they answer.      *)
THEOREM RepliesMatchRequests ==
    ASSUME Prompt
    PROVE  Spec => []OwnReply
<1>1. PromptInv => OwnReply
  BY DEF PromptInv
<1>2. QED BY <1>1, PromptInvInductive, PTL

(* The readings of a reply claim no more than it says, whichever of its    *)
(* possible replies a request gets.                                        *)
LEMMA ReadingsAreHonest ==
    ASSUME NEW k \in Kinds, Kinds \subseteq AllKinds, NEW b \in RepliesTo(k)
    PROVE  RR!Honest(k, b, ResultOf(k, b))
BY DEF AllKinds, RR!Honest, RepliesTo, GetReplies, SetReplies, GetAllReplies, MethodCallReplies,
       ResultOf, GetResult, SetResult, GetAllResult, MethodResult

(* Each step of the locks, the cell and the channels is a step of the      *)
(* request-reply service or none: a call is asked when the bus dispatches  *)
(* it and answered when ReceiveReply returns, with its own reply, honestly *)
(* read, or with a failure.                                                *)
THEOREM RequestsAreReplied ==
    ASSUME Prompt
    PROVE  Spec => RR!Init /\ [][RR!Next]_(RR!vars)
<1> USE ConstantsAssumption
<1>1. Init => RR!Init
  BY DEF Init, RR!Init, NoRequest, RR!NoRequest
<1>2. TypeOK /\ LockInv /\ PromptInv /\ [Next]_vars => [RR!Next]_(RR!vars)
  <2> SUFFICES ASSUME TypeOK, LockInv, PromptInv, [Next]_vars PROVE [RR!Next]_(RR!vars)
    OBVIOUS
  <2>a. /\ call \in [Callers -> Request \cup {NoRequest}]
        /\ \A c \in Callers : call[c] = NoRequest <=> pc[c] \in {"idle", "unlock"}
        /\ replyReceived \in BOOLEAN
    BY DEF TypeOK
  <2>b. \A c, d \in Callers : InTransaction(c) /\ InTransaction(d) => c = d
    BY DEF LockInv
  <2>0. ASSUME UNCHANGED <<call, asked, answers>> PROVE [RR!Next]_(RR!vars)
    BY <2>0 DEF RR!vars
  <2>1. ASSUME NEW c \in Callers, BeginCall(c) PROVE RR!Next
    <3>1. RR!Ask(c)
      BY <2>a, <2>1 DEF BeginCall, RR!Ask, NoRequest, RR!NoRequest
    <3>2. QED BY <3>1 DEF RR!Next
  <2>2. ASSUME NEW c \in Callers, TakeReply(c) PROVE RR!Next
    <3>1. call[c] \in Request /\ call[c] # RR!NoRequest /\ call[c].kind \in Kinds
      BY <2>a, <2>2 DEF TakeReply, RR!NoRequest, NoRequest, Request
    <3>2. call' = [call EXCEPT ![c] = RR!NoRequest] /\ UNCHANGED asked
      BY <2>2 DEF TakeReply, RR!NoRequest, NoRequest
    <3>3. CASE replyReceived
      <4>1. IsReplyTo(call[c], replyStr)
        BY <2>b, <2>2, <3>3 DEF TakeReply, PromptInv, InTransaction
      <4>2. replyStr = [id |-> call[c].id, body |-> replyStr.body]
        BY <4>1 DEF IsReplyTo, TypeOK, Reply, NoReply
      <4>3. /\ replyStr.body \in RR!Bodies
            /\ ResultOf(call[c].kind, replyStr.body) \in RR!Results
            /\ RR!Honest(call[c].kind, replyStr.body, ResultOf(call[c].kind, replyStr.body))
        BY <3>1, <4>1, ReadingsAreHonest, RepliesAreBodies, ResultsAreResults
           DEF IsReplyTo, Bodies, RR!Bodies, Results, RR!Results
      <4>4. answers' = answers \cup
              {[req |-> call[c], reply |-> [id |-> call[c].id, body |-> replyStr.body],
                result |-> ResultOf(call[c].kind, replyStr.body)]}
        BY <2>2, <3>3, <4>2 DEF TakeReply
      <4>5. RR!Reply(c)
        BY <3>1, <3>2, <4>3, <4>4 DEF RR!Reply
      <4>6. QED BY <4>5 DEF RR!Next
    <3>4. CASE ~replyReceived
      <4>1. replyStr = RR!NoReply
        BY <3>4 DEF PromptInv, NoReply, RR!NoReply
      <4>2. RR!Fail(c)
        BY <2>2, <3>1, <3>2, <3>4, <4>1 DEF TakeReply, RR!Fail
      <4>3. QED BY <4>2 DEF RR!Next
    <3>5. QED BY <3>3, <3>4
  <2>3. ASSUME NEW c \in Callers, SendOnly(c) PROVE FALSE
    BY <2>3 DEF SendOnly, PromptInv
  <2>4. ASSUME NEW c \in Callers,
               \/ LockTransaction(c) \/ LockReply(c) \/ SendRequest(c) \/ TestReply(c)
               \/ TimeOut(c) \/ WakeSpuriously(c) \/ Reacquire(c) \/ Unlock(c)
        PROVE  UNCHANGED <<call, asked, answers>>
    BY <2>4 DEF LockTransaction, LockReply, SendRequest, TestReply, TimeOut, WakeSpuriously,
                Reacquire, Unlock
  <2>5. ASSUME RemoteHandles \/ SetReply \/ Lose PROVE UNCHANGED <<call, asked, answers>>
    BY <2>5 DEF RemoteHandles, SetReply, Lose
  <2>6. CASE UNCHANGED vars
    BY <2>0, <2>6 DEF vars
  <2>7. QED
    <3>1. CASE Next
      BY <3>1, StepCases, <2>0, <2>1, <2>2, <2>3, <2>4, <2>5
    <3>2. QED BY <3>1, <2>6
<1>3. QED BY <1>1, <1>2, TypeCorrect, LockInvInductive, PromptInvInductive, PTL DEF Spec
=============================================================================
