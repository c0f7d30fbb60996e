------------------------- MODULE SubscriptionManager ------------------------
(***************************************************************************)
(* SubscriptionManager (marketdata/streaming/subscription_manager.py):     *)
(* several tasks subscribe and unsubscribe symbols at a stream under one   *)
(* asyncio.Lock.  The stream (websocket.py) notes a symbol before it sends *)
(* the message; a send that raises ends the call with the symbols before   *)
(* it done and the ones after it untouched.                                *)
(***************************************************************************)
EXTENDS Naturals, Sequences

CONSTANTS Tasks, Symbols, None,
    MaxCalls,      \* bound: calls made in a run
    MaxList        \* bound: symbols in the list of a call

SubscriptionConstants == None \notin Tasks /\ MaxCalls \in Nat /\ MaxList \in Nat

VARIABLES
    recorded,      \* _subscriptions
    stream,        \* the stream's _subscribed_symbols
    venue,         \* external: what the far side has been asked for
    unsent,        \* auxiliary: symbols a message about which was not sent
    lock,          \* _lock: the task that holds it
    job,           \* what each task is doing
    calls          \* auxiliary: calls made

vars == <<recorded, stream, venue, unsent, lock, job, calls>>

Job == [at   : {"idle", "waiting", "looking", "sending", "answered"},
        kind : {"subscribe", "unsubscribe"},
        todo : Seq(Symbols)]

Idle == [at |-> "idle", kind |-> "subscribe", todo |-> <<>>]

TypeOK ==
    /\ recorded \subseteq Symbols
    /\ stream \subseteq Symbols
    /\ venue \subseteq Symbols
    /\ unsent \subseteq Symbols
    /\ lock \in Tasks \cup {None}
    /\ job \in [Tasks -> Job]
    /\ calls \in 0..MaxCalls

Init ==
    /\ recorded = {} /\ stream = {} /\ venue = {} /\ unsent = {} /\ lock = None /\ calls = 0
    /\ job = [t \in Tasks |-> Idle]

-----------------------------------------------------------------------------
(* subscribe, unsubscribe with one symbol, subscribe_many and              *)
(* unsubscribe_many with several: the call up to the lock                  *)
Call(t, kind, symbols) ==
    /\ job[t].at = "idle"
    /\ calls < MaxCalls
    /\ calls' = calls + 1
    /\ job' = [job EXCEPT ![t] = [at |-> "waiting", kind |-> kind, todo |-> symbols]]
    /\ UNCHANGED <<recorded, stream, venue, unsent, lock>>

(* Mutant: nobody waits for the lock. *)
EnterUnlocked(t) ==
    /\ job[t].at = "waiting"
    /\ lock' = t
    /\ job' = [job EXCEPT ![t].at = "looking"]
    /\ UNCHANGED <<recorded, stream, venue, unsent, calls>>

Acquire(t) ==
    /\ job[t].at = "waiting"
    /\ lock = None
    /\ lock' = t
    /\ job' = [job EXCEPT ![t].at = "looking"]
    /\ UNCHANGED <<recorded, stream, venue, unsent, calls>>

(* A symbol the record has as wanted is passed over, else the stream is    *)
(* asked: it changes its own list at once and sends, or does nothing if    *)
(* the list is as wanted already.                                          *)
With(set, t) == IF job[t].kind = "subscribe" THEN set \cup {Head(job[t].todo)}
                                             ELSE set \ {Head(job[t].todo)}

Look(t) ==
    /\ job[t].at = "looking"
    /\ job[t].todo # <<>>
    /\ IF With(recorded, t) = recorded
       THEN job' = [job EXCEPT ![t].todo = Tail(@)] /\ UNCHANGED stream
       ELSE /\ stream' = With(stream, t)
            /\ job' = [job EXCEPT ![t].at = IF stream' = stream THEN "answered" ELSE "sending"]
    /\ UNCHANGED <<recorded, venue, unsent, lock, calls>>

Sent(t) ==
    /\ job[t].at = "sending"
    /\ venue' = With(venue, t)
    /\ unsent' = unsent \ {Head(job[t].todo)}
    /\ job' = [job EXCEPT ![t].at = "answered"]
    /\ UNCHANGED <<recorded, stream, lock, calls>>

(* Mutant: the lock is taken for good by a call that failed. *)
SendFailsLocked(t) ==
    /\ job[t].at = "sending"
    /\ unsent' = unsent \cup {Head(job[t].todo)}
    /\ job' = [job EXCEPT ![t] = Idle]
    /\ UNCHANGED <<recorded, stream, venue, lock, calls>>

(* The send raises: the stream's list stays changed, the record does not   *)
(* change and the rest of the list is left.                                *)
SendFails(t) ==
    /\ job[t].at = "sending"
    /\ unsent' = unsent \cup {Head(job[t].todo)}
    /\ lock' = None
    /\ job' = [job EXCEPT ![t] = Idle]
    /\ UNCHANGED <<recorded, stream, venue, calls>>

(* Mutant: what was unsubscribed stays on record. *)
RecordOnlyAdds(t) ==
    /\ job[t].at = "answered"
    /\ recorded' = IF job[t].kind = "subscribe" THEN recorded \cup {Head(job[t].todo)} ELSE recorded
    /\ job' = [job EXCEPT ![t].at = "looking", ![t].todo = Tail(@)]
    /\ UNCHANGED <<stream, venue, unsent, lock, calls>>

Record(t) ==
    /\ job[t].at = "answered"
    /\ recorded' = With(recorded, t)
    /\ job' = [job EXCEPT ![t].at = "looking", ![t].todo = Tail(@)]
    /\ UNCHANGED <<stream, venue, unsent, lock, calls>>

Leave(t) ==
    /\ job[t].at = "looking"
    /\ job[t].todo = <<>>
    /\ lock' = None
    /\ job' = [job EXCEPT ![t] = Idle]
    /\ UNCHANGED <<recorded, stream, venue, unsent, calls>>

Go(t) ==
    \/ Acquire(t) \/ Look(t) \/ Record(t) \/ Leave(t)
    \/ Sent(t) \/ SendFails(t)

(* Any list, also one that names a symbol twice *)
Lists == UNION {[1..n -> Symbols] : n \in 0..MaxList}

Next ==
    \E t \in Tasks :
        \/ Go(t)
        \/ \E kind \in {"subscribe", "unsubscribe"}, list \in Lists : Call(t, kind, list)

(* asyncio.Lock is fair, and the stream answers. *)
Fairness == \A t \in Tasks : WF_vars(Go(t)) /\ SF_vars(Acquire(t))

Spec == Init /\ [][Next]_vars /\ Fairness

-----------------------------------------------------------------------------
(* However the tasks' calls interleave, the manager's record, the stream's *)
(* list and the far side agree on every symbol, but for the one the holder *)
(* of the lock is busy with and those a message about which was never      *)
(* sent: for them a retry finds the list as wanted and sends nothing.      *)
RecordIsTrue ==
    \A s \in Symbols :
        \/ (s \in recorded) = (s \in stream) /\ (s \in stream) = (s \in venue)
        \/ s \in unsent
        \/ \E t \in Tasks : lock = t /\ job[t].todo # <<>> /\ Head(job[t].todo) = s

(* Two messages about one symbol are never under way at once: the check    *)
(* and the call are one critical section.                                  *)
OneMessagePerSymbol ==
    \A t, u \in Tasks :
        t # u /\ job[t].at = "sending" /\ job[u].at = "sending"
            => Head(job[t].todo) # Head(job[u].todo)

(* A call ends, also one that waits behind a call that failed. *)
CallsEnd == \A t \in Tasks : job[t].at = "waiting" ~> job[t].at = "idle"
=============================================================================
