------------------------------ MODULE Database ------------------------------
(***************************************************************************)
(* The hash table that stands for a database: class Database.              *)
(*                                                                         *)
(* Threads call it at the same time.  The operations that end in "safely"  *)
(* hold its mutex; get and batch_read do not, and yet they may change the  *)
(* table, because a lookup inserts an empty value for a key that is not    *)
(* there.                                                                  *)
(*                                                                         *)
(* A call works off a list of accesses to the table, one for each key, and *)
(* a thread is inside the table from Enter to Leave.                       *)
(***************************************************************************)
EXTENDS Integers, Sequences, FiniteSets

CONSTANTS
    Thread,         \* the callers
    Unlocked,       \* those that call get and batch_read, and nothing else
    NoThread,       \* who holds a free mutex
    Key, Value,     \* the strings
    Empty,          \* the empty string
    Absent,         \* no entry in the table
    Batches,        \* the batches of writes callers pass, made by Put and Delete
    KeyLists        \* the lists of keys callers pass

\* The entries of a Batch (its put and delete_), and a lookup.
Put(k, v) == [op |-> "put", key |-> k, value |-> v]
Delete(k) == [op |-> "delete", key |-> k, value |-> Empty]
Lookup(k) == [op |-> "get", key |-> k, value |-> Empty]
Access    == [op : {"put", "delete", "get"}, key : Key, value : Value]

ASSUME ThreadAssumption == Unlocked \subseteq Thread /\ NoThread \notin Thread
ASSUME ValueAssumption  == Empty \in Value /\ Absent \notin Value
ASSUME CallAssumption   == /\ Batches \subseteq Seq(Access)
                           /\ \A b \in Batches : \A i \in DOMAIN b : b[i].op # "get"
                           /\ KeyLists \subseteq Seq(Key)

VARIABLES
    store,      \* _store: key -> value or Absent
    mutex,      \* who holds _mutex, or NoThread
    calls,      \* thread -> the call it is in
    crashed,    \* a race ended the process
    settled,    \* history: the map as the last holder of the mutex left it
    done,       \* history: what the last locked call asked and read, until the next one
    races       \* history: the pairs of threads that raced

vars == <<store, mutex, calls, crashed, settled, done, races>>

Call == [stage : {"idle", "waiting", "ready", "inside"}, safe : BOOLEAN,
         asked : Seq(Access), at : Nat, reads : Seq(Value)]
Idle == [stage |-> "idle", safe |-> FALSE, asked |-> <<>>, at |-> 0, reads |-> <<>>]

Nothing == [asked |-> <<>>, reads |-> <<>>]

\* A call that begins, and one that has made a further access.
Begun(stage, safe, asked) ==
    [stage |-> stage, safe |-> safe, asked |-> asked, at |-> 0, reads |-> <<>>]
Accessed(call, reads) ==
    [stage |-> "ready", safe |-> call.safe, asked |-> call.asked, at |-> call.at + 1,
     reads |-> reads]

\* The access a call comes to next.
Current(t) == calls[t].asked[calls[t].at + 1]

\* What lookups in a table return, whether or not they insert.
View(s) == [k \in Key |-> IF s[k] = Absent THEN Empty ELSE s[k]]

----------------------------------------------------------------------------
(* The operations: what a caller asks for.  A safe one waits for the mutex *)
(* first.  (Bound: after a race, only the calls under way go on.)          *)

\* (Mutant: get, too, waits until the mutex is free.)
BeginWaiting(t, safe, asked) ==
    /\ races = {} /\ calls[t] = Idle
    /\ calls' = [calls EXCEPT ![t] = Begun("waiting", safe, asked)]
    /\ UNCHANGED <<store, mutex, crashed, settled, done, races>>
Begin(t, safe, asked) ==
    /\ races = {} /\ calls[t] = Idle
    /\ calls' = [calls EXCEPT ![t] = Begun(IF safe THEN "waiting" ELSE "ready", safe, asked)]
    /\ UNCHANGED <<store, mutex, crashed, settled, done, races>>

LookupsOf(keys) == [i \in DOMAIN keys |-> Lookup(keys[i])]

Get(t)       == \E k \in Key : Begin(t, FALSE, <<Lookup(k)>>)
BatchRead(t) == \E keys \in KeyLists : Begin(t, FALSE, LookupsOf(keys))

GetSafely(t)       == \E k \in Key : Begin(t, TRUE, <<Lookup(k)>>)
BatchReadSafely(t) == \E keys \in KeyLists : Begin(t, TRUE, LookupsOf(keys))
PutSafely(t)       == \E k \in Key, v \in Value : Begin(t, TRUE, <<Put(k, v)>>)
DeleteSafely(t)    == \E k \in Key : Begin(t, TRUE, <<Delete(k)>>)
\* (Mutant: the batch is written without the lock.)
BatchWriteUnlocked(t) == \E batch \in Batches : Begin(t, FALSE, batch)
BatchWriteSafely(t)   == \E batch \in Batches : Begin(t, TRUE, batch)

----------------------------------------------------------------------------
(* The steps of a call. *)

Lock(t) ==
    /\ ~crashed /\ calls[t].stage = "waiting" /\ mutex = NoThread
    /\ mutex' = t
    /\ calls' = [calls EXCEPT ![t].stage = "ready"]
    /\ done' = Nothing
    /\ UNCHANGED <<store, crashed, settled, races>>

\* An access that adds a node to the table or takes one out of it.
Restructures(a) == (store[a.key] = Absent) # (a.op = "delete")

\* Two accesses at the same time of which one may write what the other uses.
Conflict(a, b) == \/ Restructures(a) \/ Restructures(b)
                  \/ a.key = b.key /\ "put" \in {a.op, b.op}

Inside(t) == calls[t].stage = "inside"

Enter(t) ==
    /\ ~crashed /\ calls[t].stage = "ready" /\ calls[t].at < Len(calls[t].asked)
    /\ calls' = [calls EXCEPT ![t].stage = "inside"]
    /\ races' = races \cup { {t, u} : u \in { u \in Thread \ {t} :
                    Inside(u) /\ Conflict(Current(t), Current(u)) } }
    /\ UNCHANGED <<store, mutex, crashed, settled, done>>

\* What a lookup finds.  operator[] inserts an empty value.
\* (Mutant: it hands out what is there, be it nothing.)
TouchedNothing(a) == store[a.key]
Touched(a) == IF store[a.key] = Absent THEN Empty ELSE store[a.key]

\* The table after an access.
\* (Mutant: a put, like emplace, keeps the entry that is there.)
EntryEmplaced(a) == CASE a.op = "put" /\ store[a.key] = Absent -> a.value
                      [] a.op = "delete" -> Absent
                      [] OTHER           -> Touched(a)
EntryAfter(a) == CASE a.op = "put"    -> a.value
                   [] a.op = "delete" -> Absent
                   [] a.op = "get"    -> Touched(a)

\* What the access leaves in the table and what it reads: after a race on the
\* table, it may also have no effect and find nothing.
Entries(a) == {EntryAfter(a)} \cup (IF races = {} THEN {} ELSE {store[a.key]})
Found(a)   == {Touched(a)} \cup (IF races = {} THEN {} ELSE {Empty})

Leave(t) ==
    LET a == Current(t)
    IN  /\ ~crashed /\ Inside(t)
        /\ \E entry \in Entries(a), found \in Found(a) :
            /\ store' = [store EXCEPT ![a.key] = entry]
            /\ calls' = [calls EXCEPT ![t] =
                    Accessed(@, IF a.op = "get" THEN Append(@.reads, found) ELSE @.reads)]
        /\ UNCHANGED <<mutex, crashed, settled, done, races>>

\* (Mutant: the mutex stays locked.)
FreedNever(t) == mutex
Freed(t) == IF calls[t].safe THEN NoThread ELSE mutex

\* The end of a call, where lock_guard unlocks.
Return(t) ==
    /\ ~crashed /\ calls[t].stage = "ready" /\ calls[t].at = Len(calls[t].asked)
    /\ mutex' = Freed(t)
    /\ calls' = [calls EXCEPT ![t] = Idle]
    /\ IF calls[t].safe /\ races = {}
       THEN /\ settled' = View(store)
            /\ done'    = [asked |-> calls[t].asked, reads |-> calls[t].reads]
       ELSE UNCHANGED <<settled, done>>
    /\ UNCHANGED <<store, crashed, races>>

\* A corrupted table ends the process when it is used.
Crash(t) ==
    /\ ~crashed /\ races # {} /\ Inside(t)
    /\ crashed' = TRUE
    /\ UNCHANGED <<store, mutex, calls, settled, done, races>>

----------------------------------------------------------------------------

Init ==
    /\ store = [k \in Key |-> Absent]
    /\ mutex = NoThread
    /\ calls = [t \in Thread |-> Idle]
    /\ crashed = FALSE
    /\ settled = View(store)
    /\ done = Nothing
    /\ races = {}

\* What the locked operations ask for.
SafeWrites  == Batches \cup { <<Put(k, v)>> : k \in Key, v \in Value }
                       \cup { <<Delete(k)>> : k \in Key }
SafeLookups == { LookupsOf(keys) : keys \in KeyLists } \cup { <<Lookup(k)>> : k \in Key }

UnlockedOperation(t) == Get(t) \/ BatchRead(t)
SafeOperation(t)     == \/ GetSafely(t) \/ BatchReadSafely(t) \/ BatchWriteSafely(t)
                        \/ PutSafely(t) \/ DeleteSafely(t)
Step(t)      == Lock(t) \/ Enter(t) \/ Leave(t) \/ Return(t)

Next == \/ \E t \in Unlocked : UnlockedOperation(t)
        \/ \E t \in Thread \ Unlocked : SafeOperation(t)
        \/ \E t \in Thread : Step(t) \/ Crash(t)

\* Every thread keeps running; none has to make a call, and std::mutex gives
\* no waiting thread a turn.
Fairness == \A t \in Thread : WF_vars(Step(t))

Spec == Init /\ [][Next]_vars /\ Fairness

----------------------------------------------------------------------------
(* Properties. *)

\* Every variable stays in its domain.
TypeOK ==
    /\ store \in [Key -> Value \cup {Absent}]
    /\ mutex \in Thread \cup {NoThread}
    /\ calls \in [Thread -> Call]
    /\ crashed \in BOOLEAN
    /\ settled \in [Key -> Value]
    /\ done \in [asked : Seq(Access), reads : Seq(Value)]
    /\ races \subseteq { {t, u} : t, u \in Thread }

\* Two accesses overlap and conflict only if one of the two threads calls get
\* or batch_read: the operations that take the mutex never race (db.cpp:33).
RacesNeedUnlocked == \A pair \in races : pair \cap Unlocked # {}

\* As long as no unlocked lookup has raced with another access, the locked
\* operations, cut into their steps, are those of an atomic map: a batch is
\* seen whole or not at all and is not lost, lookups that insert are not seen,
\* and a locked read answers from one state (db.cpp:37, db.cpp:56).
Atomic == INSTANCE AtomicMap WITH
    map <- settled, Batches <- SafeWrites, Lookups <- SafeLookups
AtomicSpec == Atomic!Spec

\* Whoever holds the mutex lets go of it: no operation locks it twice, waits
\* for anything inside it or leaves without unlocking (db.cpp:57).
MutexReleased == \A t \in Thread : mutex = t ~> (mutex = NoThread \/ crashed)

\* A get or batch_read returns however long other threads hold the mutex, for
\* it never waits for it (db.cpp:28).
UnlockedReturn == \A t \in Unlocked :
    (calls[t] # Idle /\ ~calls[t].safe) ~> (calls[t] = Idle \/ crashed)
=============================================================================
