-------------------------- MODULE ReplyTransaction --------------------------
(***************************************************************************)
(* One RemoteBusObject relaying bus requests over XMPP.  An AllJoyn thread *)
(* (a caller) that needs an answer takes the two locks of the object's     *)
(* Reply, sends its request and waits on the condition variable for at     *)
(* most ten seconds; the XMPP thread stores whatever reply arrives for     *)
(* this object and signals.  Nothing in a message says which request it    *)
(* answers: the field id of requests and replies is a ghost that no action *)
(* of the program reads, it lets the properties tell replies apart.        *)
(***************************************************************************)
EXTENDS Naturals, Sequences

CONSTANTS
    Callers,      \* the AllJoyn threads that call into the object
    NoCaller,     \* the value of a mutex nobody holds
    Kinds,        \* the kinds of request the callers make
    MaxRequests,  \* bound: requests made over the object's life
    Lossy,        \* TRUE: the XMPP link may lose a message
    LateReplies   \* TRUE: a round trip may take longer than the ten seconds

(* "method" has output arguments, "action" has none; "noreply" carries the *)
(* NoReply annotation.                                                     *)
AllKinds == {"method", "action", "noreply", "get", "set", "getall"}

ASSUME ConstantsAssumption ==
    /\ NoCaller \notin Callers
    /\ Kinds \subseteq AllKinds
    /\ MaxRequests \in Nat
    /\ Lossy \in BOOLEAN
    /\ LateReplies \in BOOLEAN

(* What a reply's text can be: MsgArg XML, the number of ER_OK, the number *)
(* of another status, or nothing (a reply with no arguments).              *)
Bodies  == {"xml", "ok", "error", "empty"}
Results == {"value", "ok", "fail"}
Ids     == 1 .. MaxRequests

Request   == [id : Ids, kind : Kinds]
Reply     == [id : Ids, body : Bodies]
NoRequest == [id |-> 0, kind |-> "none"]
NoReply   == [id |-> 0, body |-> "empty"]
Answer    == [req : Request, reply : Reply \cup {NoReply}, result : Results]

PC == {"idle", "lockTransaction", "lockReply", "send", "sendOnly", "test",
       "blocked", "signalled", "timedOut", "take", "unlock"}

VARIABLES
    pc,                  \* where each caller is
    call,                \* the request each caller is working on
    transactionMutex,    \* Reply::m_transactionMutex
    replyReceivedMutex,  \* Reply::m_replyReceivedMutex
    replyReceived,       \* Reply::m_replyReceived
    replyStr,            \* Reply::m_replyStr
    requests,            \* requests on their way to the other connector
    replies,             \* replies on their way back
    asked,               \* ghost: number of requests made so far
    answers              \* ghost: what the callers have been answered

locks    == <<transactionMutex, replyReceivedMutex>>
cell     == <<replyReceived, replyStr>>
channels == <<requests, replies>>
vars     == <<pc, call, locks, cell, channels, asked, answers>>

Init ==
    /\ pc = [c \in Callers |-> "idle"]
    /\ call = [c \in Callers |-> NoRequest]
    /\ transactionMutex = NoCaller
    /\ replyReceivedMutex = NoCaller
    /\ replyReceived = FALSE
    /\ replyStr = NoReply
    /\ requests = <<>>
    /\ replies = <<>>
    /\ asked = 0
    /\ answers = {}

Goto(c, label) == pc' = [pc EXCEPT ![c] = label]

-----------------------------------------------------------------------------
(* The caller: AllJoynMethodHandler, Get, Set and GetAllProps.             *)

(* The bus dispatches a request; only a NoReply method skips the locks.    *)
BeginCall(c) ==
    /\ pc[c] = "idle"
    /\ asked < MaxRequests
    /\ asked' = asked + 1
    /\ \E k \in Kinds :
          /\ call' = [call EXCEPT ![c] = [id |-> asked + 1, kind |-> k]]
          /\ Goto(c, IF k = "noreply" THEN "sendOnly" ELSE "lockTransaction")
    /\ UNCHANGED <<locks, cell, channels, answers>>

(* Mutant: the locker forgets the transaction lock.                        *)
LockTransactionOmitted(c) ==
    /\ pc[c] = "lockTransaction"
    /\ Goto(c, "lockReply")
    /\ UNCHANGED <<call, locks, cell, channels, asked, answers>>

(* ScopedTransactionLocker takes the transaction lock first ...            *)
LockTransaction(c) ==
    /\ pc[c] = "lockTransaction"
    /\ transactionMutex = NoCaller
    /\ transactionMutex' = c
    /\ Goto(c, "lockReply")
    /\ UNCHANGED <<call, replyReceivedMutex, cell, channels, asked, answers>>

(* ... then the lock the condition variable works with.                    *)
LockReply(c) ==
    /\ pc[c] = "lockReply"
    /\ replyReceivedMutex = NoCaller
    /\ replyReceivedMutex' = c
    /\ Goto(c, "send")
    /\ UNCHANGED <<call, transactionMutex, cell, channels, asked, answers>>

(* The request is sent with both locks held.                               *)
SendRequest(c) ==
    /\ pc[c] = "send"
    /\ requests' = Append(requests, call[c])
    /\ Goto(c, "test")
    /\ UNCHANGED <<call, locks, cell, replies, asked, answers>>

(* Mutant: the request is gone when it is sent.                            *)
SendOnlyLate(c) ==
    /\ pc[c] = "sendOnly"
    /\ call' = [call EXCEPT ![c] = NoRequest]
    /\ requests' = Append(requests, call'[c])
    /\ Goto(c, "idle")
    /\ UNCHANGED <<locks, cell, replies, asked, answers>>

(* A NoReply method is sent with no lock and returns at once.              *)
SendOnly(c) ==
    /\ pc[c] = "sendOnly"
    /\ requests' = Append(requests, call[c])
    /\ call' = [call EXCEPT ![c] = NoRequest]
    /\ Goto(c, "idle")
    /\ UNCHANGED <<locks, cell, replies, asked, answers>>

(* Mutant: waiting gives up the transaction lock as well.                  *)
TestReplyUnlocksAll(c) ==
    /\ pc[c] = "test"
    /\ IF replyReceived
       THEN Goto(c, "take") /\ UNCHANGED locks
       ELSE /\ Goto(c, "blocked")
            /\ replyReceivedMutex' = NoCaller
            /\ transactionMutex' = NoCaller
    /\ UNCHANGED <<call, cell, channels, asked, answers>>

(* The test of the wait loop; waiting gives up the reply lock.             *)
TestReply(c) ==
    /\ pc[c] = "test"
    /\ IF replyReceived
       THEN Goto(c, "take") /\ UNCHANGED replyReceivedMutex
       ELSE Goto(c, "blocked") /\ replyReceivedMutex' = NoCaller
    /\ UNCHANGED <<call, transactionMutex, cell, channels, asked, answers>>

InFlight(id) ==
    \/ \E i \in DOMAIN requests : requests[i].id = id
    \/ \E i \in DOMAIN replies : replies[i].id = id

(* Mutant: pthread_cond_wait, which has no deadline.                       *)
TimeOutNever(c) == FALSE

(* Ten seconds are over.  Without LateReplies that happens only when the   *)
(* request or its reply has been lost.                                     *)
TimeOut(c) ==
    /\ pc[c] = "blocked"
    /\ LateReplies \/ ~InFlight(call[c].id)
    /\ Goto(c, "timedOut")
    /\ UNCHANGED <<call, locks, cell, channels, asked, answers>>

(* pthread_cond_timedwait may return although nobody signalled.            *)
WakeSpuriously(c) ==
    /\ pc[c] = "blocked"
    /\ Goto(c, "signalled")
    /\ UNCHANGED <<call, locks, cell, channels, asked, answers>>

(* Mutant: an if in place of the while.                                    *)
ReacquireOnce(c) ==
    /\ pc[c] \in {"signalled", "timedOut"}
    /\ replyReceivedMutex = NoCaller
    /\ replyReceivedMutex' = c
    /\ Goto(c, "take")
    /\ UNCHANGED <<call, transactionMutex, cell, channels, asked, answers>>

(* The wait returns with the reply lock held; ETIMEDOUT leaves the loop.   *)
Reacquire(c) ==
    /\ pc[c] \in {"signalled", "timedOut"}
    /\ replyReceivedMutex = NoCaller
    /\ replyReceivedMutex' = c
    /\ Goto(c, IF pc[c] = "timedOut" THEN "take" ELSE "test")
    /\ UNCHANGED <<call, transactionMutex, cell, channels, asked, answers>>

(* How each handler reads a reply: XML is a value, else the text must be a *)
(* number, and ER_FAIL is reported when it is not.                         *)
MethodResult(body) ==
    CASE body = "xml" -> "value" [] body = "ok" -> "ok" [] OTHER -> "fail"
GetResult(body) ==
    CASE body = "xml" -> "value" [] body = "ok" -> "ok" [] OTHER -> "fail"
GetAllResult(body) ==
    CASE body = "xml" -> "value" [] body = "ok" -> "ok" [] OTHER -> "fail"
SetResultUnread(body) == "ok"  \* mutant: the status is not looked at
SetResult(body) == IF body = "ok" THEN "ok" ELSE "fail"

ResultOf(kind, body) ==
    CASE kind = "get"    -> GetResult(body)
      [] kind = "set"    -> SetResult(body)
      [] kind = "getall" -> GetAllResult(body)
      [] OTHER           -> MethodResult(body)

(* Mutant: the cell is not cleared.                                        *)
TakeReplyKeeps(c) ==
    /\ pc[c] = "take"
    /\ answers' = answers \cup
         {[req    |-> call[c],
           reply  |-> replyStr,
           result |-> IF replyReceived
                      THEN ResultOf(call[c].kind, replyStr.body) ELSE "fail"]}
    /\ call' = [call EXCEPT ![c] = NoRequest]
    /\ Goto(c, "unlock")
    /\ UNCHANGED <<locks, cell, channels, asked>>

(* ReceiveReply copies the cell and clears it; no reply is a failure.      *)
TakeReply(c) ==
    /\ pc[c] = "take"
    /\ answers' = answers \cup
         {[req    |-> call[c],
           reply  |-> replyStr,
           result |-> IF replyReceived
                      THEN ResultOf(call[c].kind, replyStr.body) ELSE "fail"]}
    /\ replyReceived' = FALSE
    /\ replyStr' = NoReply
    /\ call' = [call EXCEPT ![c] = NoRequest]
    /\ Goto(c, "unlock")
    /\ UNCHANGED <<locks, channels, asked>>

(* The locker's destructor, after which the caller answers the bus.        *)
Unlock(c) ==
    /\ pc[c] = "unlock"
    /\ replyReceivedMutex' = NoCaller
    /\ transactionMutex' = NoCaller
    /\ Goto(c, "idle")
    /\ UNCHANGED <<call, cell, channels, asked, answers>>

-----------------------------------------------------------------------------
(* The other connector answers requests in order, one reply for each.      *)

(* What it may answer: the outcome of the local call, or the status of the *)
(* step that failed (no attachment, introspection, the call itself).       *)
MethodCallReplies(kind) ==
    {"error"} \cup (IF kind = "method" THEN {"xml"} ELSE {"empty"})
GetReplies    == {"error", "xml"}
SetReplies    == {"error", "ok"}
GetAllReplies == {"error", "xml"}

RepliesTo(kind) ==
    CASE kind = "get"    -> GetReplies
      [] kind = "set"    -> SetReplies
      [] kind = "getall" -> GetAllReplies
      [] OTHER           -> MethodCallReplies(kind)

RemoteHandles ==
    /\ requests # <<>>
    /\ \E b \in RepliesTo(Head(requests).kind) :
          replies' = Append(replies, [id |-> Head(requests).id, body |-> b])
    /\ requests' = Tail(requests)
    /\ UNCHANGED <<pc, call, locks, cell, asked, answers>>

(* Mutant: the reply is stored and nobody is told.                         *)
SetReplySilently ==
    /\ replies # <<>>
    /\ replyReceivedMutex = NoCaller
    /\ replyReceived' = TRUE
    /\ replyStr' = Head(replies)
    /\ replies' = Tail(replies)
    /\ UNCHANGED <<pc, call, locks, requests, asked, answers>>

(* XMPP thread: a reply for this object goes to Reply::SetReply, which     *)
(* stores it over whatever is there and wakes a waiter if there is one.    *)
SetReply ==
    /\ replies # <<>>
    /\ replyReceivedMutex = NoCaller
    /\ replyReceived' = TRUE
    /\ replyStr' = Head(replies)
    /\ replies' = Tail(replies)
    /\ \/ \E c \in Callers : pc[c] = "blocked" /\ Goto(c, "signalled")
       \/ (\A c \in Callers : pc[c] # "blocked") /\ UNCHANGED pc
    /\ UNCHANGED <<call, locks, requests, asked, answers>>

(* The connection to the other connector drops a message.                  *)
Lose ==
    /\ Lossy
    /\ \/ requests # <<>> /\ requests' = Tail(requests) /\ UNCHANGED replies
       \/ replies # <<>> /\ replies' = Tail(replies) /\ UNCHANGED requests
    /\ UNCHANGED <<pc, call, locks, cell, asked, answers>>

-----------------------------------------------------------------------------
(* A caller's own steps, which its thread keeps taking once it is called.  *)
Proceed(c) ==
    \/ LockTransaction(c) \/ LockReply(c) \/ SendRequest(c) \/ SendOnly(c)
    \/ TestReply(c) \/ TimeOut(c) \/ Reacquire(c) \/ TakeReply(c) \/ Unlock(c)

Next ==
    \/ \E c \in Callers : BeginCall(c) \/ Proceed(c) \/ WakeSpuriously(c)
    \/ RemoteHandles
    \/ SetReply
    \/ Lose

Spec == Init /\ [][Next]_vars

(* Threads run and both XMPP threads drain their input.  Spurious wakeups  *)
(* need strong fairness in two places: the deadline of a wait is absolute, *)
(* so they do not postpone it for ever; and they do not keep the XMPP      *)
(* thread from the reply lock for ever, as each sleep releases it.  No     *)
(* other lock needs more than weak fairness: MaxRequests bounds contention.*)
Fairness ==
    /\ \A c \in Callers : WF_vars(Proceed(c)) /\ SF_vars(TimeOut(c))
    /\ WF_vars(RemoteHandles)
    /\ SF_vars(SetReply)

FairSpec == Spec /\ Fairness

-----------------------------------------------------------------------------
(* The values each variable may take.                                      *)
TypeOK ==
    /\ pc \in [Callers -> PC]
    /\ call \in [Callers -> Request \cup {NoRequest}]
    /\ \A c \in Callers : call[c] = NoRequest <=> pc[c] \in {"idle", "unlock"}
    /\ transactionMutex \in Callers \cup {NoCaller}
    /\ replyReceivedMutex \in Callers \cup {NoCaller}
    /\ replyReceived \in BOOLEAN
    /\ replyStr \in Reply \cup {NoReply}
    /\ requests \in Seq(Request)
    /\ replies \in Seq(Reply)
    /\ asked \in 0 .. MaxRequests
    /\ answers \subseteq Answer

(* The places between the locker's constructor and destructor.             *)
InTransaction(c) ==
    pc[c] \in {"lockReply", "send", "test", "blocked", "signalled",
               "timedOut", "take", "unlock"}

(* Two calls never have a transaction open on one object at a time, even   *)
(* while the first one waits with the reply lock released.                 *)
OneTransaction ==
    \A c, d \in Callers : InTransaction(c) /\ InTransaction(d) => c = d

(* No caller sleeps on a reply that is already in the cell: the test of    *)
(* the wait loop, the store and the signal are under one lock.             *)
NoLostWakeup ==
    \A c \in Callers : pc[c] = "blocked" => ~replyReceived

(* One reply answers at most one request: ReceiveReply empties the cell.   *)
ReplyUsedOnce ==
    \A a, b \in answers :
        a.reply # NoReply /\ a.reply.id = b.reply.id => a.req = b.req

(* However late replies are, and whatever NoReply methods put in the cell, *)
(* no call takes the reply of a call that is still being made: requests    *)
(* are sent, and replies taken, only inside the transaction.               *)
NoStolenReply ==
    \A a \in answers, c \in Callers :
        a.reply # NoReply => a.reply.id # call[c].id

(* A call is answered with the reply to its own request or with a failure. *)
OwnReply == \A a \in answers : a.reply.id \in {0, a.req.id}

(* Every bus request that enters the object returns to the bus.            *)
CallReturns == \A c \in Callers : pc[c] # "idle" ~> pc[c] = "idle"

(* What the object promises: an open request is one a caller works on.     *)
RR == INSTANCE RequestReply WITH open <- call
=============================================================================
