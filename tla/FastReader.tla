----------------------------- MODULE FastReader -----------------------------
(***************************************************************************)
(* The locks around the handlers that the background threads of the serial *)
(* queues call (chelper/serialqueue.c, fast readers) and their one user,   *)
(* trdispatch.c, whose handler sends through the other queues.  A thread   *)
(* is the list of the operations it still has to do; taking a lock blocks. *)
(***************************************************************************)
EXTENDS Naturals, Sequences, FiniteSets, SequencesExt

CONSTANTS Mcus, Main

Threads == Mcus \cup {Main}     \* the background thread of each queue, and the main one
Nobody == "nobody"
Sq(m) == <<"sq->lock", m>>
Dispatch(m) == <<"fast_reader_dispatch_lock", m>>
Td == <<"td->lock">>
Locks == {Sq(m) : m \in Mcus} \cup {Dispatch(m) : m \in Mcus} \cup {Td}

ASSUME FastReaderAssumption == IsFiniteSet(Mcus) /\ Main \notin Mcus /\ Nobody \notin Threads

VARIABLES todo, owner, fast_readers, is_active, can_trigger

frvars == <<todo, owner, fast_readers, is_active, can_trigger>>

Lock(l) == [op |-> "lock", on |-> l]
Unlock(l) == [op |-> "unlock", on |-> l]
Do(op, m) == [op |-> op, on |-> m]
EachMcu(P(_)) == FlattenSeq([i \in 1..Cardinality(Mcus) |-> P(SetToSeq(Mcus)[i])])

FRInit ==
    /\ todo = [t \in Threads |-> <<>>] /\ owner = [l \in Locks |-> Nobody]
    /\ fast_readers = {} /\ is_active = FALSE /\ can_trigger = FALSE

-----------------------------------------------------------------------------
(* What the functions do, in their order *)

\* serialqueue_send_one and serialqueue_get_clock_est
UseQueue(m) == <<Lock(Sq(m)), Unlock(Sq(m))>>

\* handle_message up to the check of the fast readers
HandleMessageFrom == [m \in Mcus |-> <<Lock(Sq(m)), Do("match", m)>>]
\* Mutants: the handler called with sq->lock held; removal that does not wait for the handler
CallFuncLocked(m) ==
    <<Lock(Dispatch(m)), Lock(Td), Do("handle_trsync_state", m), Unlock(Td),
      Unlock(Dispatch(m)), Unlock(Sq(m))>>
RmFastreaderAtOnce(m) == <<Lock(Sq(m)), Do("del", m), Unlock(Sq(m))>>

\* The rest of it: the handler runs without sq->lock.
CallFunc(m) ==
    <<Lock(Dispatch(m)), Unlock(Sq(m)), Lock(Td), Do("handle_trsync_state", m), Unlock(Td),
      Unlock(Dispatch(m))>>

AddFastreader(m) == <<Lock(Sq(m)), Do("add", m), Unlock(Sq(m))>>
RmFastreader(m) ==
    <<Lock(Sq(m)), Do("del", m), Unlock(Sq(m)), Lock(Dispatch(m)), Unlock(Dispatch(m))>>

McuSetup(m) == <<Lock(Td)>> \o UseQueue(m) \o <<Unlock(Td)>>
TrdispatchStart ==
    EachMcu(McuSetup) \o <<Lock(Td), Do("start", Main), Unlock(Td)>> \o EachMcu(AddFastreader)
TrdispatchStop == <<Lock(Td), Do("stop", Main), Unlock(Td)>> \o EachMcu(RmFastreader)

-----------------------------------------------------------------------------
(* Threads begin a function, and do its next operation *)

Begin(t, p) ==
    /\ todo[t] = <<>>
    /\ todo' = [todo EXCEPT ![t] = p]
    /\ UNCHANGED <<owner, fast_readers, is_active, can_trigger>>
Receive(m) == Begin(m, HandleMessageFrom[m])
MainSends(m) == Begin(Main, UseQueue(m))
MainStarts == ~is_active /\ Begin(Main, TrdispatchStart)
MainStops == is_active /\ Begin(Main, TrdispatchStop)

Op(t) == Head(todo[t])
Goes(t, op) == todo[t] # <<>> /\ Op(t).op = op
Next1(t) == todo' = [todo EXCEPT ![t] = Tail(@)]

Acquire(t) ==
    /\ Goes(t, "lock") /\ owner[Op(t).on] = Nobody
    /\ owner' = [owner EXCEPT ![Op(t).on] = t]
    /\ Next1(t) /\ UNCHANGED <<fast_readers, is_active, can_trigger>>
Release(t) ==
    /\ Goes(t, "unlock")
    /\ owner' = [owner EXCEPT ![Op(t).on] = Nobody]
    /\ Next1(t) /\ UNCHANGED <<fast_readers, is_active, can_trigger>>
Match(t) ==
    /\ Goes(t, "match")
    /\ \/ t \in fast_readers /\ todo' = [todo EXCEPT ![t] = CallFunc(t)]
       \/ todo' = [todo EXCEPT ![t] = <<Unlock(Sq(t))>>]    \* another message
    /\ UNCHANGED <<owner, fast_readers, is_active, can_trigger>>
Register(t) ==
    /\ Goes(t, "add") /\ fast_readers' = fast_readers \cup {Op(t).on}
    /\ Next1(t) /\ UNCHANGED <<owner, is_active, can_trigger>>
Unregister(t) ==
    /\ Goes(t, "del") /\ fast_readers' = fast_readers \ {Op(t).on}
    /\ Next1(t) /\ UNCHANGED <<owner, is_active, can_trigger>>
StartBody(t) ==
    /\ Goes(t, "start") /\ is_active' = TRUE /\ can_trigger' = TRUE
    /\ Next1(t) /\ UNCHANGED <<owner, fast_readers>>
StopBody(t) ==
    /\ Goes(t, "stop") /\ is_active' = FALSE
    /\ Next1(t) /\ UNCHANGED <<owner, fast_readers, can_trigger>>

\* The body of handle_trsync_state under td->lock: nothing more to relay, or a trigger that is
\* sent to all, or a status, after which some mcus are sent a new timeout.
HandleTrsyncState(t) ==
    /\ Goes(t, "handle_trsync_state")
    /\ \/ ~can_trigger /\ Next1(t) /\ UNCHANGED can_trigger
       \/ /\ can_trigger /\ can_trigger' = FALSE
          /\ todo' = [todo EXCEPT ![t] = EachMcu(UseQueue) \o Tail(@)]
       \/ /\ can_trigger /\ UNCHANGED can_trigger
          /\ \E K \in SUBSET Mcus :
                LET Extend(m) == IF m \in K THEN UseQueue(m) ELSE <<>> IN
                todo' = [todo EXCEPT ![t] = UseQueue(t) \o EachMcu(Extend) \o Tail(@)]
    /\ UNCHANGED <<owner, fast_readers, is_active>>

FRNext ==
    \/ \E m \in Mcus : Receive(m) \/ MainSends(m)
    \/ MainStarts \/ MainStops
    \/ \E t \in Threads :
          \/ Acquire(t) \/ Release(t) \/ Match(t) \/ Register(t) \/ Unregister(t)
          \/ StartBody(t) \/ StopBody(t) \/ HandleTrsyncState(t)

-----------------------------------------------------------------------------
(* Properties *)

\* serialqueue_rm_fastreader: once trdispatch_stop has returned, no background thread is in
\* handle_trsync_state or will still call it, so nothing is relayed and it may be freed.
ReadersGone ==
    todo[Main] = <<>> /\ ~is_active =>
        fast_readers = {} /\ \A m \in Mcus : owner[Dispatch(m)] = Nobody

\* handle_message, handle_trsync_state: no set of threads waits for locks of its own, though
\* the handler of one queue takes the locks of the others.
WaitsFor(t, u) == Goes(t, "lock") /\ owner[Op(t).on] = u
NoLockCycle ==
    \A T \in SUBSET Threads \ {{}} : \E t \in T : \A u \in T : ~WaitsFor(t, u)
=============================================================================
