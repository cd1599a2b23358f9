--------------------------- MODULE DatabaseProofs ---------------------------
(***************************************************************************)
(* Proofs about Database, for any threads, keys, values and batches.       *)
(***************************************************************************)
EXTENDS Database, TLAPS

----------------------------------------------------------------------------
(* The inductive invariant. *)

\* A thread that holds the mutex, to judge by its call.
Locked(t) == calls[t].safe /\ calls[t].stage \in {"ready", "inside"}

\* How far a call has come, and how it began.
CallProgress(t) ==
    /\ calls[t].at <= Len(calls[t].asked)
    /\ Inside(t) => calls[t].at < Len(calls[t].asked)
    /\ calls[t].stage = "waiting" =>
           calls[t].safe /\ calls[t].at = 0 /\ calls[t].reads = <<>>
CallKind(t) ==
    /\ t \in Unlocked =>
           /\ ~calls[t].safe
           /\ \A i \in 1 .. Len(calls[t].asked) : calls[t].asked[i].op = "get"
    /\ t \notin Unlocked =>
           \/ calls[t].stage = "idle"
           \/ calls[t].safe /\ calls[t].asked \in SafeWrites \cup SafeLookups

\* The mutex is held by the thread inside a locked call, and there is one such
\* thread at most.
MutexHeld == \A t \in Thread : mutex = t <=> Locked(t)

\* The map after the first n writes of a batch.
LastOn(batch, on) == batch[CHOOSE i \in on : \A j \in on : j <= i]
WrittenOn(m, batch, k, on) ==
    IF on = {} THEN m[k]
    ELSE IF LastOn(batch, on).op = "delete" THEN Empty ELSE LastOn(batch, on).value
AfterFirst(m, batch, n) ==
    [k \in Key |-> WrittenOn(m, batch, k, { i \in 1 .. n : batch[i].key = k })]

\* What the holder of the mutex has done to the table, and read from it.
DoneSoFar(c) ==
    /\ c.asked \in SafeLookups =>
           /\ View(store) = settled
           /\ Len(c.reads) = c.at
           /\ \A i \in 1 .. c.at : c.reads[i] = settled[c.asked[i].key]
    /\ c.asked \in SafeWrites =>
           /\ View(store) = AfterFirst(settled, c.asked, c.at)
           /\ c.reads = <<>>

Settling ==
    /\ mutex = NoThread => View(store) = settled
    /\ \A t \in Thread : mutex = t => DoneSoFar(calls[t])

Inv ==
    /\ TypeOK
    /\ \A t \in Thread : CallProgress(t) /\ CallKind(t)
    /\ MutexHeld
    /\ RacesNeedUnlocked
    /\ races = {} => Settling

----------------------------------------------------------------------------
(* Lemmas on lists of accesses. *)

LEMMA AccessFacts ==
    /\ \A k \in Key : Lookup(k) \in Access /\ Lookup(k).op = "get" /\ Lookup(k).key = k
    /\ \A k \in Key : Delete(k) \in Access /\ Delete(k).op = "delete"
    /\ \A k \in Key, v \in Value : Put(k, v) \in Access /\ Put(k, v).op = "put"
  BY ValueAssumption DEF Lookup, Delete, Put, Access

\* Lists of lookups are lists of accesses, all of them "get".
LEMMA LookupFacts ==
    ASSUME NEW asked \in SafeLookups
    PROVE  /\ asked \in Seq(Access)
           /\ \A i \in 1 .. Len(asked) : asked[i].op = "get"
  <1>1. CASE \E k \in Key : asked = <<Lookup(k)>>
    BY <1>1, AccessFacts
  <1>2. ASSUME NEW keys \in KeyLists, asked = LookupsOf(keys)
        PROVE  /\ asked \in Seq(Access)
               /\ \A i \in 1 .. Len(asked) : asked[i].op = "get"
    <2>1. keys \in Seq(Key)
      BY CallAssumption
    <2>2. asked = [i \in 1 .. Len(keys) |-> Lookup(keys[i])]
      BY <1>2, <2>1 DEF LookupsOf
    <2>3. \A i \in 1 .. Len(keys) : Lookup(keys[i]) \in Access /\ Lookup(keys[i]).op = "get"
      BY <2>1, AccessFacts
    <2> QED
      BY <2>1, <2>2, <2>3
  <1> QED
    BY <1>1, <1>2 DEF SafeLookups

\* Batches are lists of accesses, none of them "get".
LEMMA WriteFacts ==
    ASSUME NEW asked \in SafeWrites
    PROVE  /\ asked \in Seq(Access)
           /\ \A i \in 1 .. Len(asked) : asked[i].op # "get"
  <1>1. CASE asked \in Batches
    BY <1>1, CallAssumption
  <1>2. CASE \E k \in Key, v \in Value : asked = <<Put(k, v)>>
    BY <1>2, AccessFacts
  <1>3. CASE \E k \in Key : asked = <<Delete(k)>>
    BY <1>3, AccessFacts
  <1> QED
    BY <1>1, <1>2, <1>3 DEF SafeWrites

\* A further write replaces the value of its key.
LEMMA AfterFirstStep ==
    ASSUME NEW m \in [Key -> Value], NEW batch \in Seq(Access), NEW n \in Nat, n < Len(batch)
    PROVE  AfterFirst(m, batch, n + 1) =
              [AfterFirst(m, batch, n) EXCEPT ![batch[n + 1].key] =
                  IF batch[n + 1].op = "delete" THEN Empty ELSE batch[n + 1].value]
  <1> DEFINE On(l, k) == { i \in 1 .. l : batch[i].key = k }
             new == IF batch[n + 1].op = "delete" THEN Empty ELSE batch[n + 1].value
  <1>1. ASSUME NEW k \in Key, k # batch[n + 1].key
        PROVE  On(n + 1, k) = On(n, k)
    BY <1>1
  <1>2. WrittenOn(m, batch, batch[n + 1].key, On(n + 1, batch[n + 1].key)) = new
    <2> DEFINE on == On(n + 1, batch[n + 1].key)
    <2>1. n + 1 \in on /\ \A j \in on : j \in Nat /\ j <= n + 1
      OBVIOUS
    <2> HIDE DEF on
    <2>2. (CHOOSE i \in on : \A j \in on : j <= i) = n + 1
      BY <2>1
    <2>3. WrittenOn(m, batch, batch[n + 1].key, on) = new
      BY <2>1, <2>2 DEF WrittenOn, LastOn
    <2> QED
      BY <2>3 DEF on
  <1>3. batch[n + 1].key \in Key
    <2>1. batch[n + 1] \in Access
      OBVIOUS
    <2> QED
      BY <2>1 DEF Access
  <1> QED
    BY <1>1, <1>2, <1>3 DEF AfterFirst

LEMMA AfterFirstNone ==
    ASSUME NEW m \in [Key -> Value], NEW batch
    PROVE  AfterFirst(m, batch, 0) = m
  BY DEF AfterFirst, WrittenOn

LEMMA AfterFirstAll ==
    ASSUME NEW m \in [Key -> Value], NEW batch \in Seq(Access)
    PROVE  AfterFirst(m, batch, Len(batch)) = Atomic!After(m, batch)
  <1>1. DOMAIN batch = 1 .. Len(batch)
    OBVIOUS
  <1>2. AfterFirst(m, batch, Len(batch)) =
            [k \in Key |-> WrittenOn(m, batch, k, { i \in DOMAIN batch : batch[i].key = k })]
    BY <1>1 DEF AfterFirst
  <1>3. Atomic!After(m, batch) =
            [k \in Key |-> WrittenOn(m, batch, k, { i \in DOMAIN batch : batch[i].key = k })]
    BY DEF WrittenOn, LastOn, Atomic!After
  <1> QED
    BY <1>2, <1>3

----------------------------------------------------------------------------
(* Lemmas on the table. *)

\* How the view of a table changes with one entry.
LEMMA ViewFacts ==
    ASSUME NEW s \in [Key -> Value \cup {Absent}]
    PROVE  /\ View(s) \in [Key -> Value]
           /\ \A k \in Key, e \in Value \cup {Absent} :
                  View([s EXCEPT ![k] = e]) =
                      [View(s) EXCEPT ![k] = IF e = Absent THEN Empty ELSE e]
  BY ValueAssumption DEF View

\* What an access leaves in the table and finds there.
LEMMA EntryFacts ==
    ASSUME TypeOK, NEW a \in Access
    PROVE  /\ Touched(a) \in Value
           /\ EntryAfter(a) \in Value \cup {Absent}
           /\ Entries(a) \subseteq Value \cup {Absent}
           /\ Found(a) \subseteq Value
  <1>1. a.op \in {"put", "delete", "get"} /\ a.key \in Key /\ a.value \in Value
    BY DEF Access
  <1>2. store[a.key] \in Value \cup {Absent}
    BY <1>1 DEF TypeOK
  <1>3. Touched(a) \in Value
    BY <1>2, ValueAssumption DEF Touched
  <1>4. EntryAfter(a) \in Value \cup {Absent}
    BY <1>1, <1>3 DEF EntryAfter
  <1> QED
    BY <1>2, <1>3, <1>4, ValueAssumption DEF Entries, Found

\* A lookup does not change what readers see, although it may insert; a write
\* changes the value of its key.
LEMMA AccessView ==
    ASSUME TypeOK, NEW a \in Access
    PROVE  LET after == [store EXCEPT ![a.key] = EntryAfter(a)]
           IN  /\ a.op = "get" => View(after) = View(store)
               /\ a.op = "get" => Touched(a) = View(store)[a.key]
               /\ a.op # "get" => View(after) =
                      [View(store) EXCEPT ![a.key] =
                          IF a.op = "delete" THEN Empty ELSE a.value]
  <1> DEFINE after == [store EXCEPT ![a.key] = EntryAfter(a)]
  <1>1. a.op \in {"put", "delete", "get"} /\ a.key \in Key /\ a.value \in Value
    BY DEF Access
  <1>2. store \in [Key -> Value \cup {Absent}]
    BY DEF TypeOK
  <1>3. View(after) = [View(store) EXCEPT ![a.key] =
                          IF EntryAfter(a) = Absent THEN Empty ELSE EntryAfter(a)]
    BY <1>1, <1>2, EntryFacts, ViewFacts
  <1>4. CASE a.op = "get"
    <2>1. EntryAfter(a) = Touched(a)
      BY <1>4 DEF EntryAfter
    <2>2. Touched(a) = View(store)[a.key]
      BY <1>1 DEF Touched, View
    <2>3. Touched(a) # Absent
      BY EntryFacts, ValueAssumption
    <2>4. View(after) = [View(store) EXCEPT ![a.key] = View(store)[a.key]]
      BY <1>3, <2>1, <2>2, <2>3
    <2> QED
      BY <1>2, <1>4, <2>2, <2>4, ViewFacts
  <1>5. CASE a.op = "delete"
    <2>1. EntryAfter(a) = Absent
      BY <1>5 DEF EntryAfter
    <2> QED
      BY <1>3, <1>5, <2>1
  <1>6. CASE a.op = "put"
    <2>1. EntryAfter(a) = a.value /\ a.value # Absent
      BY <1>1, <1>6, ValueAssumption DEF EntryAfter
    <2> QED
      BY <1>3, <1>6, <2>1
  <1> QED
    BY <1>1, <1>4, <1>5, <1>6

----------------------------------------------------------------------------
(* What the operations begin. *)

LEMMA UnlockedBegins ==
    ASSUME NEW t \in Unlocked, UnlockedOperation(t)
    PROVE  \E asked \in Seq(Access) :
               /\ Begin(t, FALSE, asked)
               /\ \A i \in 1 .. Len(asked) : asked[i].op = "get"
  <1>1. \E asked \in SafeLookups : Begin(t, FALSE, asked)
    BY DEF UnlockedOperation, Get, BatchRead, SafeLookups
  <1> QED
    BY <1>1, LookupFacts

LEMMA SafeBegins ==
    ASSUME NEW t \in Thread \ Unlocked, SafeOperation(t)
    PROVE  \E asked \in Seq(Access) :
               Begin(t, TRUE, asked) /\ asked \in SafeWrites \cup SafeLookups
  <1>1. CASE GetSafely(t) \/ BatchReadSafely(t)
    <2>1. \E asked \in SafeLookups : Begin(t, TRUE, asked)
      BY <1>1 DEF GetSafely, BatchReadSafely, SafeLookups
    <2> QED
      BY <2>1, LookupFacts
  <1>2. CASE PutSafely(t)
    <2>1. PICK k \in Key, v \in Value : Begin(t, TRUE, <<Put(k, v)>>)
      BY <1>2 DEF PutSafely
    <2>2. <<Put(k, v)>> \in SafeWrites
      BY DEF SafeWrites
    <2> QED
      BY <2>1, <2>2, WriteFacts
  <1>3. CASE DeleteSafely(t)
    <2>1. PICK k \in Key : Begin(t, TRUE, <<Delete(k)>>)
      BY <1>3 DEF DeleteSafely
    <2>2. <<Delete(k)>> \in SafeWrites
      BY DEF SafeWrites
    <2> QED
      BY <2>1, <2>2, WriteFacts
  <1>4. CASE BatchWriteSafely(t)
    <2>1. PICK batch \in Batches : Begin(t, TRUE, batch)
      BY <1>4 DEF BatchWriteSafely
    <2>2. batch \in SafeWrites
      BY DEF SafeWrites
    <2> QED
      BY <2>1, <2>2, WriteFacts
  <1> QED
    BY <1>1, <1>2, <1>3, <1>4 DEF SafeOperation

----------------------------------------------------------------------------
(* Types. *)

LEMMA IdleType == Idle \in Call /\ Nothing \in [asked : Seq(Access), reads : Seq(Value)]
  BY DEF Idle, Call, Nothing

LEMMA BegunFacts ==
    ASSUME NEW safe \in BOOLEAN, NEW asked \in Seq(Access), NEW stage \in {"waiting", "ready"}
    PROVE  /\ Begun(stage, safe, asked) \in Call
           /\ Begun(stage, safe, asked).stage = stage
           /\ Begun(stage, safe, asked).safe = safe
           /\ Begun(stage, safe, asked).asked = asked
           /\ Begun(stage, safe, asked).at = 0
           /\ Begun(stage, safe, asked).reads = <<>>
  BY DEF Begun, Call

LEMMA AccessedFacts ==
    ASSUME NEW c \in Call, NEW reads \in Seq(Value)
    PROVE  /\ Accessed(c, reads) \in Call
           /\ Accessed(c, reads).stage = "ready"
           /\ Accessed(c, reads).safe = c.safe
           /\ Accessed(c, reads).asked = c.asked
           /\ Accessed(c, reads).at = c.at + 1
           /\ Accessed(c, reads).reads = reads
  BY DEF Accessed, Call

LEMMA BeginType ==
    ASSUME TypeOK, NEW t \in Thread, NEW safe \in BOOLEAN, NEW asked \in Seq(Access),
           Begin(t, safe, asked)
    PROVE  TypeOK'
  <1> DEFINE stage == IF safe THEN "waiting" ELSE "ready"
  <1>1. Begun(stage, safe, asked) \in Call
    BY BegunFacts
  <1>2. calls' \in [Thread -> Call]
    BY <1>1 DEF TypeOK, Begin
  <1> QED
    BY <1>2 DEF TypeOK, Begin

\* The access a thread is at is one of those asked for.
LEMMA CurrentFacts ==
    ASSUME TypeOK, NEW t \in Thread, calls[t].at < Len(calls[t].asked)
    PROVE  /\ calls[t].at + 1 \in 1 .. Len(calls[t].asked)
           /\ Current(t) \in Access
  <1>1. calls[t] \in Call
    BY DEF TypeOK
  <1>2. calls[t].at \in Nat /\ calls[t].asked \in Seq(Access)
    BY <1>1 DEF Call
  <1>3. calls[t].at + 1 \in 1 .. Len(calls[t].asked)
    BY <1>2
  <1> QED
    BY <1>2, <1>3 DEF Current

LEMMA LeaveType ==
    ASSUME TypeOK, NEW t \in Thread, CallProgress(t), Leave(t)
    PROVE  TypeOK'
  <1> DEFINE a == Current(t)
  <1>1. a \in Access /\ a.key \in Key
    BY CurrentFacts DEF CallProgress, Leave, Access
  <1>2. PICK entry \in Entries(a), found \in Found(a) :
            /\ store' = [store EXCEPT ![a.key] = entry]
            /\ calls' = [calls EXCEPT ![t] =
                    Accessed(@, IF a.op = "get" THEN Append(@.reads, found) ELSE @.reads)]
    BY DEF Leave
  <1> HIDE DEF a
  <1>3. entry \in Value \cup {Absent} /\ found \in Value
    BY <1>1, EntryFacts
  <1>4. calls[t] \in Call /\ calls[t].reads \in Seq(Value)
    BY DEF TypeOK, Call
  <1>5. (IF a.op = "get" THEN Append(calls[t].reads, found) ELSE calls[t].reads) \in Seq(Value)
    BY <1>3, <1>4
  <1>6. Accessed(calls[t], IF a.op = "get" THEN Append(calls[t].reads, found)
                           ELSE calls[t].reads) \in Call
    BY <1>4, <1>5, AccessedFacts
  <1>7. calls' \in [Thread -> Call]
    BY <1>2, <1>6 DEF TypeOK
  <1>8. store' \in [Key -> Value \cup {Absent}]
    <2>1. store \in [Key -> Value \cup {Absent}]
      BY DEF TypeOK
    <2>2. ASSUME NEW k, NEW e \in Value \cup {Absent}
          PROVE  [store EXCEPT ![k] = e] \in [Key -> Value \cup {Absent}]
      BY <2>1
    <2> QED
      BY <1>2, <1>3, <2>2
  <1> QED
    BY <1>7, <1>8 DEF TypeOK, Leave
----------------------------------------------------------------------------
(* The steps of a call, one by one: types, progress, the mutex, and races. *)

Base ==
    /\ TypeOK
    /\ \A t \in Thread : CallProgress(t) /\ CallKind(t)
    /\ MutexHeld
    /\ RacesNeedUnlocked

\* A thread whose call stays as it was.
LEMMA Unmoved ==
    ASSUME NEW u, calls'[u] = calls[u]
    PROVE  /\ CallProgress(u) => CallProgress(u)'
           /\ CallKind(u) => CallKind(u)'
           /\ Locked(u)' <=> Locked(u)
  <1>1. Inside(u)' <=> Inside(u)
    BY DEF Inside
  <1> QED
    BY <1>1 DEF CallProgress, CallKind, Locked

LEMMA IdleFacts ==
    /\ Idle.stage = "idle" /\ ~Idle.safe /\ Idle.asked = <<>> /\ Idle.at = 0
    /\ \A t : calls[t] = Idle => ~Locked(t)
    /\ \A t : calls'[t] = Idle => ~Locked(t)' /\ CallProgress(t)' /\ CallKind(t)'
  BY DEF Idle, Locked, CallProgress, CallKind, Inside

LEMMA BeginBase ==
    ASSUME Base, NEW t \in Thread, NEW safe \in BOOLEAN, NEW asked \in Seq(Access),
           Begin(t, safe, asked),
           t \in Unlocked => ~safe /\ \A i \in 1 .. Len(asked) : asked[i].op = "get",
           t \notin Unlocked => safe /\ asked \in SafeWrites \cup SafeLookups
    PROVE  Base'
  <1> DEFINE stage == IF safe THEN "waiting" ELSE "ready"
             call  == Begun(stage, safe, asked)
  <1>1. TypeOK'
    BY BeginType DEF Base
  <1>2. /\ calls[t] = Idle /\ mutex' = mutex /\ races' = races
        /\ calls'[t] = call
        /\ \A u \in Thread \ {t} : calls'[u] = calls[u]
    BY DEF Begin, Base, TypeOK
  <1>3. /\ stage \in {"waiting", "ready"}
        /\ call.stage = stage /\ (call.safe <=> safe) /\ call.asked = asked
        /\ call.at = 0 /\ call.reads = <<>> /\ Len(asked) \in Nat
    BY BegunFacts
  <1> HIDE DEF call
  <1>4. CallProgress(t)'
    BY <1>2, <1>3 DEF CallProgress, Inside
  <1>5. CallKind(t)'
    BY <1>2, <1>3 DEF CallKind
  <1>6. ~Locked(t)' /\ ~Locked(t)
    BY <1>2, <1>3, IdleFacts DEF Locked
  <1>7. \A u \in Thread : CallProgress(u)' /\ CallKind(u)'
    BY <1>2, <1>4, <1>5, Unmoved DEF Base
  <1>8. MutexHeld'
    BY <1>2, <1>6, Unmoved DEF Base, MutexHeld
  <1>9. RacesNeedUnlocked'
    BY <1>2 DEF Base, RacesNeedUnlocked
  <1> QED
    BY <1>1, <1>7, <1>8, <1>9 DEF Base

\* A step that only moves a call on to another stage.
LEMMA StageFacts ==
    ASSUME TypeOK, NEW t \in Thread, NEW stage \in {"ready", "inside"},
           calls' = [calls EXCEPT ![t].stage = stage]
    PROVE  /\ calls' \in [Thread -> Call]
           /\ calls'[t].stage = stage
           /\ calls'[t].safe = calls[t].safe /\ calls'[t].asked = calls[t].asked
           /\ calls'[t].at = calls[t].at /\ calls'[t].reads = calls[t].reads
           /\ \A u \in Thread \ {t} : calls'[u] = calls[u]
  <1>1. calls \in [Thread -> Call] /\ calls[t] \in Call
    BY DEF TypeOK
  <1> DEFINE call == [calls[t] EXCEPT !.stage = stage]
  <1>2. /\ calls'[t] = call
        /\ \A u \in Thread \ {t} : calls'[u] = calls[u]
    BY <1>1
  <1>3. /\ call.stage = stage /\ call.asked = calls[t].asked
        /\ call.at = calls[t].at /\ call.reads = calls[t].reads
    BY <1>1 DEF Call
  <1>4. call.safe = calls[t].safe
    BY <1>1, Zenon DEF Call
  <1>5. call \in Call
    BY <1>1 DEF Call
  <1>6. calls' \in [Thread -> Call]
    BY <1>1, <1>5
  <1> QED
    BY <1>2, <1>3, <1>4, <1>6

LEMMA LockBase ==
    ASSUME Base, NEW t \in Thread, Lock(t)
    PROVE  Base'
  <1>1. /\ mutex = NoThread /\ mutex' = t /\ races' = races
        /\ calls[t].stage = "waiting"
        /\ calls' = [calls EXCEPT ![t].stage = "ready"]
    BY DEF Lock
  <1>2. /\ calls' \in [Thread -> Call]
        /\ calls'[t].stage = "ready"
        /\ calls'[t].safe = calls[t].safe /\ calls'[t].asked = calls[t].asked
        /\ calls'[t].at = calls[t].at
        /\ \A u \in Thread \ {t} : calls'[u] = calls[u]
    BY <1>1, StageFacts DEF Base
  <1>3. TypeOK'
    BY <1>1, <1>2, IdleType DEF Lock, Base, TypeOK
  <1>4. calls[t].safe /\ calls[t].at <= Len(calls[t].asked) /\ CallKind(t)
    BY <1>1 DEF Base, CallProgress
  <1>5. CallProgress(t)' /\ CallKind(t)' /\ Locked(t)'
    BY <1>1, <1>2, <1>4 DEF CallProgress, CallKind, Locked, Inside
  <1>6. \A u \in Thread : CallProgress(u)' /\ CallKind(u)'
    BY <1>2, <1>5, Unmoved DEF Base
  <1>7. \A u \in Thread : ~Locked(u)
    BY <1>1, ThreadAssumption DEF Base, MutexHeld
  <1>8. MutexHeld'
    BY <1>1, <1>2, <1>5, <1>7, Unmoved DEF MutexHeld
  <1>9. RacesNeedUnlocked'
    BY <1>1 DEF Base, RacesNeedUnlocked
  <1> QED
    BY <1>3, <1>6, <1>8, <1>9 DEF Base

\* Two threads inside the table are not both locked ones, for both would hold
\* the mutex: so a pair that races has an unlocked thread.
LEMMA EnterBase ==
    ASSUME Base, NEW t \in Thread, Enter(t)
    PROVE  Base'
  <1>1. /\ mutex' = mutex
        /\ calls[t].stage = "ready" /\ calls[t].at < Len(calls[t].asked)
        /\ calls' = [calls EXCEPT ![t].stage = "inside"]
    BY DEF Enter
  <1>2. /\ calls' \in [Thread -> Call]
        /\ calls'[t].stage = "inside"
        /\ calls'[t].safe = calls[t].safe /\ calls'[t].asked = calls[t].asked
        /\ calls'[t].at = calls[t].at
        /\ \A u \in Thread \ {t} : calls'[u] = calls[u]
    BY <1>1, StageFacts DEF Base
  <1> DEFINE with == { u \in Thread \ {t} : Inside(u) /\ Conflict(Current(t), Current(u)) }
  <1>3. races' = races \cup { {t, u} : u \in with }
    BY DEF Enter
  <1>4. with \subseteq Thread \ {t} /\ \A u \in with : Inside(u)
    OBVIOUS
  <1> HIDE DEF with
  <1>5. TypeOK'
    <2>1. races' \subseteq { {v, u} : v, u \in Thread }
      BY <1>3, <1>4 DEF Base, TypeOK
    <2> QED
      BY <1>2, <2>1 DEF Enter, Base, TypeOK
  <1>6. calls[t].at <= Len(calls[t].asked) /\ CallKind(t)
    BY DEF Base, CallProgress
  <1>7. CallProgress(t)' /\ CallKind(t)' /\ (Locked(t)' <=> Locked(t))
    BY <1>1, <1>2, <1>6 DEF CallProgress, CallKind, Locked, Inside
  <1>8. \A u \in Thread : CallProgress(u)' /\ CallKind(u)'
    BY <1>2, <1>7, Unmoved DEF Base
  <1>9. MutexHeld'
    BY <1>1, <1>2, <1>7, Unmoved DEF Base, MutexHeld
  <1>10. ASSUME NEW u \in with, t \notin Unlocked, u \notin Unlocked
        PROVE  FALSE
    <2>1. CallKind(t) /\ CallKind(u) /\ u \in Thread /\ u # t /\ calls[u].stage = "inside"
      BY <1>4, <1>10 DEF Base, Inside
    <2>2. Locked(t) /\ Locked(u)
      BY <1>1, <1>10, <2>1 DEF CallKind, Locked
    <2> QED
      BY <2>1, <2>2 DEF Base, MutexHeld
  <1>11. RacesNeedUnlocked'
    BY <1>3, <1>10 DEF Base, RacesNeedUnlocked
  <1> QED
    BY <1>5, <1>8, <1>9, <1>11 DEF Base

\* What Leave does to the call it ends an access of.
LEMMA LeaveFacts ==
    ASSUME TypeOK, NEW t \in Thread, Leave(t)
    PROVE  /\ mutex' = mutex /\ races' = races /\ settled' = settled /\ done' = done
           /\ calls[t].stage = "inside"
           /\ calls'[t].stage = "ready"
           /\ calls'[t].safe = calls[t].safe /\ calls'[t].asked = calls[t].asked
           /\ calls'[t].at = calls[t].at + 1
           /\ \A u \in Thread \ {t} : calls'[u] = calls[u]
  <1>1. PICK reads : calls' = [calls EXCEPT ![t] = Accessed(@, reads)]
    BY DEF Leave
  <1> QED
    BY <1>1 DEF Leave, Inside, TypeOK, Accessed

LEMMA LeaveBase ==
    ASSUME Base, NEW t \in Thread, Leave(t)
    PROVE  Base'
  <1>1. TypeOK'
    BY LeaveType DEF Base
  <1>2. /\ mutex' = mutex /\ races' = races
        /\ calls[t].stage = "inside" /\ calls'[t].stage = "ready"
        /\ calls'[t].safe = calls[t].safe /\ calls'[t].asked = calls[t].asked
        /\ calls'[t].at = calls[t].at + 1
        /\ \A u \in Thread \ {t} : calls'[u] = calls[u]
    BY LeaveFacts DEF Base
  <1>3. calls[t].at < Len(calls[t].asked) /\ CallKind(t)
    BY <1>2 DEF Base, CallProgress, Inside
  <1>4. calls[t].at \in Nat /\ Len(calls[t].asked) \in Nat
    BY DEF Base, TypeOK, Call
  <1>5. CallProgress(t)' /\ CallKind(t)' /\ (Locked(t)' <=> Locked(t))
    BY <1>2, <1>3, <1>4 DEF CallProgress, CallKind, Locked, Inside
  <1>6. \A u \in Thread : CallProgress(u)' /\ CallKind(u)'
    BY <1>2, <1>5, Unmoved DEF Base
  <1>7. MutexHeld'
    BY <1>2, <1>5, Unmoved DEF Base, MutexHeld
  <1>8. RacesNeedUnlocked'
    BY <1>2 DEF Base, RacesNeedUnlocked
  <1> QED
    BY <1>1, <1>6, <1>7, <1>8 DEF Base

LEMMA ReturnBase ==
    ASSUME Base, NEW t \in Thread, Return(t)
    PROVE  Base'
  <1>1. /\ calls[t].stage = "ready" /\ mutex' = Freed(t) /\ races' = races
        /\ calls'[t] = Idle /\ \A u \in Thread \ {t} : calls'[u] = calls[u]
    BY DEF Return, Base, TypeOK
  <1>2. View(store) \in [Key -> Value] /\ calls[t] \in Call
    BY ViewFacts DEF Base, TypeOK
  <1>3. TypeOK'
    <2>1. mutex' \in Thread \cup {NoThread}
      BY <1>1 DEF Freed, Base, TypeOK
    <2>2. calls' \in [Thread -> Call]
      BY IdleType DEF Return, Base, TypeOK
    <2>3. [asked |-> calls[t].asked, reads |-> calls[t].reads]
              \in [asked : Seq(Access), reads : Seq(Value)]
      BY <1>2 DEF Call
    <2> QED
      BY <1>2, <2>1, <2>2, <2>3 DEF Return, Base, TypeOK
  <1>4. \A u \in Thread : CallProgress(u)' /\ CallKind(u)'
    BY <1>1, IdleFacts, Unmoved DEF Base
  <1>5. MutexHeld'
    <2>1. ~Locked(t)'
      BY <1>1, IdleFacts
    <2>2. CASE calls[t].safe
      <3>1. mutex = t /\ mutex' = NoThread
        BY <1>1, <2>2 DEF Base, MutexHeld, Locked, Freed
      <3> QED
        BY <1>1, <2>1, <3>1, Unmoved, ThreadAssumption DEF Base, MutexHeld
    <2>3. CASE ~calls[t].safe
      <3>1. mutex # t /\ mutex' = mutex
        BY <1>1, <2>3 DEF Base, MutexHeld, Locked, Freed
      <3> QED
        BY <1>1, <2>1, <3>1, Unmoved DEF Base, MutexHeld
    <2> QED
      BY <2>2, <2>3
  <1>6. RacesNeedUnlocked'
    BY <1>1 DEF Base, RacesNeedUnlocked
  <1> QED
    BY <1>3, <1>4, <1>5, <1>6 DEF Base
LEMMA CrashBase ==
    ASSUME Base, NEW t \in Thread, Crash(t)
    PROVE  Base'
  <1>1. /\ calls' = calls /\ mutex' = mutex /\ races' = races
    BY DEF Crash
  <1>2. TypeOK'
    BY DEF Crash, Base, TypeOK
  <1>3. MutexHeld' /\ \A u \in Thread : CallProgress(u)' /\ CallKind(u)'
    BY <1>1, Unmoved DEF Base, MutexHeld
  <1> QED
    BY <1>1, <1>2, <1>3 DEF Base, RacesNeedUnlocked

----------------------------------------------------------------------------
(* The same steps, as long as there was no race: what readers see in the   *)
(* table is what the holder of the mutex has made of the settled map.      *)

\* What is said of a call is still said when what readers see and the settled
\* map stay, and the call keeps what it asked and how far it is.
LEMMA KeptDone ==
    ASSUME NEW u, DoneSoFar(calls[u]), View(store)' = View(store), settled' = settled,
           calls'[u].asked = calls[u].asked, calls'[u].at = calls[u].at,
           calls'[u].reads = calls[u].reads
    PROVE  DoneSoFar(calls[u])'
  <1>1. AfterFirst(settled, calls[u].asked, calls[u].at)' =
            AfterFirst(settled', calls'[u].asked, calls'[u].at)
    BY DEF AfterFirst, WrittenOn, LastOn
  <1> QED
    BY <1>1 DEF DoneSoFar

LEMMA BeginSettling ==
    ASSUME Base, Settling, NEW t \in Thread, NEW safe, NEW asked, Begin(t, safe, asked)
    PROVE  Settling'
  <1>1. /\ View(store)' = View(store) /\ settled' = settled /\ mutex' = mutex
        /\ \A u \in Thread \ {t} : calls'[u] = calls[u]
        /\ calls[t] = Idle
    BY DEF Begin, View, Base, TypeOK
  <1>2. mutex # t
    BY <1>1, IdleFacts DEF Base, MutexHeld
  <1> QED
    BY <1>1, <1>2, KeptDone DEF Settling

LEMMA LockSettling ==
    ASSUME Base, Settling, NEW t \in Thread, Lock(t)
    PROVE  Settling'
  <1>1. /\ View(store)' = View(store) /\ settled' = settled /\ mutex' = t /\ mutex = NoThread
        /\ calls[t].stage = "waiting"
    BY DEF Lock, View
  <1>2. calls'[t].at = 0 /\ calls'[t].reads = <<>>
    BY <1>1, StageFacts DEF Lock, Base, CallProgress
  <1>3. View(store) = settled /\ settled \in [Key -> Value]
    BY <1>1 DEF Settling, Base, TypeOK
  <1>4. AfterFirst(settled, calls'[t].asked, 0) = settled
    BY <1>3, AfterFirstNone
  <1>5. /\ View(store)' = settled'
        /\ View(store)' = AfterFirst(settled', calls'[t].asked, calls'[t].at)
        /\ Len(calls'[t].reads) = calls'[t].at
        /\ \A i \in 1 .. calls'[t].at : FALSE
    BY <1>1, <1>2, <1>3, <1>4
  <1>6. AfterFirst(settled, calls[t].asked, calls[t].at)' =
            AfterFirst(settled', calls'[t].asked, calls'[t].at)
    BY DEF AfterFirst, WrittenOn, LastOn
  <1>7. DoneSoFar(calls[t])'
    BY <1>2, <1>5, <1>6 DEF DoneSoFar
  <1> QED
    BY <1>1, <1>7, ThreadAssumption DEF Settling

LEMMA EnterSettling ==
    ASSUME Base, Settling, NEW t \in Thread, Enter(t)
    PROVE  Settling'
  <1>1. View(store)' = View(store) /\ settled' = settled /\ mutex' = mutex
    BY DEF Enter, View
  <1>2. /\ calls'[t].asked = calls[t].asked /\ calls'[t].at = calls[t].at
        /\ calls'[t].reads = calls[t].reads
        /\ \A u \in Thread \ {t} : calls'[u] = calls[u]
    BY StageFacts DEF Enter, Base
  <1> QED
    BY <1>1, <1>2, KeptDone DEF Settling

\* An access of the holder of the mutex is one more of those it asked for, and
\* an access of another thread is a lookup, which changes nothing readers see.
LEMMA LeaveSettling ==
    ASSUME Base, Settling, races = {}, NEW t \in Thread, Leave(t)
    PROVE  Settling'
  <1> DEFINE a     == Current(t)
             c     == calls[t]
             reads == IF a.op = "get" THEN Append(c.reads, Touched(a)) ELSE c.reads
  <1>1. /\ mutex' = mutex /\ settled' = settled /\ c.stage = "inside"
        /\ calls'[t].asked = c.asked /\ calls'[t].at = c.at + 1
        /\ \A u \in Thread \ {t} : calls'[u] = calls[u]
    BY LeaveFacts DEF Base
  <1>2. /\ c.at < Len(c.asked) /\ c.at \in Nat /\ c.asked \in Seq(Access)
        /\ c.reads \in Seq(Value)
    BY <1>1 DEF Base, CallProgress, Inside, TypeOK, Call
  <1>3. a \in Access /\ a = c.asked[c.at + 1] /\ c.at + 1 \in 1 .. Len(c.asked)
    BY <1>2, CurrentFacts DEF Base, Current
  <1>4. Touched(a) \in Value
    BY <1>3, EntryFacts DEF Base
  <1>5. store' = [store EXCEPT ![a.key] = EntryAfter(a)] /\ calls'[t].reads = reads
    <2>1. Entries(a) = {EntryAfter(a)} /\ Found(a) = {Touched(a)}
      BY DEF Entries, Found
    <2>2. /\ store' = [store EXCEPT ![a.key] = EntryAfter(a)]
          /\ calls' = [calls EXCEPT ![t] = Accessed(@, reads)]
      BY <2>1, Zenon DEF Leave
    <2> QED
      BY <2>2 DEF Accessed, Base, TypeOK
  <1>6. View(store)' = View([store EXCEPT ![a.key] = EntryAfter(a)])
    BY <1>5 DEF View
  <1>7. /\ a.op = "get" => View(store)' = View(store) /\ Touched(a) = View(store)[a.key]
        /\ a.op # "get" => View(store)' = [View(store) EXCEPT ![a.key] =
                                              IF a.op = "delete" THEN Empty ELSE a.value]
    BY <1>3, <1>6, AccessView DEF Base
  <1> HIDE DEF a
  <1>8. CASE mutex = t
    <2>1. DoneSoFar(c)
      BY <1>8 DEF Settling
    <2>2. ASSUME c.asked \in SafeLookups
          PROVE  /\ View(store)' = settled'
                 /\ Len(calls'[t].reads) = calls'[t].at
                 /\ \A i \in 1 .. calls'[t].at :
                        calls'[t].reads[i] = settled'[calls'[t].asked[i].key]
      <3>1. a.op = "get"
        BY <1>3, <2>2, LookupFacts
      <3>2. /\ View(store) = settled /\ Len(c.reads) = c.at
            /\ \A i \in 1 .. c.at : c.reads[i] = settled[c.asked[i].key]
        BY <2>1, <2>2 DEF DoneSoFar
      <3>3. reads = Append(c.reads, Touched(a)) /\ Touched(a) = settled[a.key]
        BY <1>7, <3>1, <3>2
      <3>4. /\ Len(reads) = c.at + 1 /\ reads[c.at + 1] = settled[a.key]
            /\ \A i \in 1 .. c.at : reads[i] = c.reads[i]
        BY <1>2, <1>4, <3>2, <3>3
      <3>5. \A i \in 1 .. c.at + 1 : reads[i] = settled[c.asked[i].key]
        BY <1>2, <1>3, <3>2, <3>4
      <3> QED
        BY <1>1, <1>5, <1>7, <3>1, <3>2, <3>4, <3>5
    <2>3. ASSUME c.asked \in SafeWrites
          PROVE  /\ View(store)' = AfterFirst(settled', calls'[t].asked, calls'[t].at)
                 /\ calls'[t].reads = <<>>
      <3>1. a.op # "get"
        BY <1>3, <2>3, WriteFacts
      <3>2. View(store) = AfterFirst(settled, c.asked, c.at) /\ c.reads = <<>>
        BY <2>1, <2>3 DEF DoneSoFar
      <3>3. settled \in [Key -> Value]
        BY DEF Base, TypeOK
      <3>4. View(store)' = AfterFirst(settled, c.asked, c.at + 1)
        BY <1>2, <1>3, <1>7, <3>1, <3>2, <3>3, AfterFirstStep
      <3> QED
        BY <1>1, <1>5, <3>1, <3>2, <3>4
    <2>4. AfterFirst(settled, calls[t].asked, calls[t].at)' =
              AfterFirst(settled', calls'[t].asked, calls'[t].at)
      BY DEF AfterFirst, WrittenOn, LastOn
    <2>5. DoneSoFar(calls[t])'
      BY <1>1, <2>2, <2>3, <2>4 DEF DoneSoFar
    <2> QED
      BY <1>1, <1>8, <2>5, ThreadAssumption DEF Settling
  <1>9. CASE mutex # t
    <2>1. ~c.safe /\ CallKind(t)
      BY <1>1, <1>9 DEF Base, MutexHeld, Locked
    <2>2. a.op = "get"
      BY <1>1, <1>3, <2>1 DEF CallKind
    <2>3. View(store)' = View(store)
      BY <1>7, <2>2
    <2> QED
      BY <1>1, <1>9, <2>3, KeptDone DEF Settling
  <1> QED
    BY <1>8, <1>9

LEMMA ReturnSettling ==
    ASSUME Base, Settling, races = {}, NEW t \in Thread, Return(t)
    PROVE  Settling'
  <1>1. /\ View(store)' = View(store) /\ calls[t].stage = "ready" /\ mutex' = Freed(t)
        /\ \A u \in Thread \ {t} : calls'[u] = calls[u]
    BY DEF Return, View, Base, TypeOK
  <1>2. CASE calls[t].safe
    <2>1. mutex' = NoThread /\ settled' = View(store)
      BY <1>2 DEF Return, Freed
    <2> QED
      BY <1>1, <2>1, ThreadAssumption DEF Settling
  <1>3. CASE ~calls[t].safe
    <2>1. mutex' = mutex /\ settled' = settled
      BY <1>1, <1>3 DEF Return, Freed
    <2>2. mutex # t
      BY <1>3 DEF Base, MutexHeld, Locked
    <2> QED
      BY <1>1, <2>1, <2>2, KeptDone DEF Settling
  <1> QED
    BY <1>2, <1>3
----------------------------------------------------------------------------
(* The invariant is inductive. *)

LEMMA Initially == Init => Inv
  <1> SUFFICES ASSUME Init PROVE Inv
    OBVIOUS
  <1>1. /\ store = [k \in Key |-> Absent] /\ mutex = NoThread
        /\ calls = [t \in Thread |-> Idle] /\ settled = View(store)
        /\ done = Nothing /\ races = {} /\ crashed = FALSE
    BY DEF Init
  <1>2. TypeOK
    <2>1. store \in [Key -> Value \cup {Absent}]
      BY <1>1
    <2>2. settled \in [Key -> Value]
      BY <1>1, <2>1, ViewFacts
    <2>3. calls \in [Thread -> Call]
      BY <1>1, IdleType
    <2>4. done \in [asked : Seq(Access), reads : Seq(Value)]
      BY <1>1, IdleType
    <2>5. mutex \in Thread \cup {NoThread} /\ crashed \in BOOLEAN
      BY <1>1
    <2>6. races \subseteq { {t, u} : t, u \in Thread }
      BY <1>1
    <2> QED
      BY <2>1, <2>2, <2>3, <2>4, <2>5, <2>6 DEF TypeOK
  <1>3. \A t \in Thread : CallProgress(t) /\ CallKind(t) /\ ~Locked(t)
    <2>1. \A t \in Thread : calls[t] = Idle
      BY <1>1
    <2> QED
      BY <2>1, IdleFacts DEF CallProgress, CallKind, Inside
  <1>4. MutexHeld
    BY <1>1, <1>3, ThreadAssumption DEF MutexHeld
  <1>5. Settling
    BY <1>1, ThreadAssumption DEF Settling
  <1> QED
    BY <1>1, <1>2, <1>3, <1>4, <1>5 DEF Inv, RacesNeedUnlocked

LEMMA BeginInv ==
    ASSUME Inv, NEW t \in Thread, NEW safe \in BOOLEAN, NEW asked \in Seq(Access),
           Begin(t, safe, asked),
           t \in Unlocked => ~safe /\ \A i \in 1 .. Len(asked) : asked[i].op = "get",
           t \notin Unlocked => safe /\ asked \in SafeWrites \cup SafeLookups
    PROVE  Inv'
  <1>1. Base /\ Settling
    BY DEF Inv, Base, Begin
  <1>2. Base'
    BY <1>1, BeginBase
  <1>3. Settling'
    BY <1>1, BeginSettling
  <1> QED
    BY <1>2, <1>3 DEF Inv, Base

LEMMA StepInv ==
    ASSUME Inv, NEW t \in Thread, Step(t) \/ Crash(t)
    PROVE  Inv'
  <1>1. Base /\ (races = {} => Settling)
    BY DEF Inv, Base
  <1>2. CASE Lock(t)
    <2>1. races' = races
      BY <1>2 DEF Lock
    <2> QED
      BY <1>1, <1>2, <2>1, LockBase, LockSettling DEF Inv, Base
  <1>3. CASE Enter(t)
    <2>1. races' = {} => races = {}
      BY <1>3 DEF Enter
    <2> QED
      BY <1>1, <1>3, <2>1, EnterBase, EnterSettling DEF Inv, Base
  <1>4. CASE Leave(t)
    <2>1. races' = races
      BY <1>4 DEF Leave
    <2> QED
      BY <1>1, <1>4, <2>1, LeaveBase, LeaveSettling DEF Inv, Base
  <1>5. CASE Return(t)
    <2>1. races' = races
      BY <1>5 DEF Return
    <2> QED
      BY <1>1, <1>5, <2>1, ReturnBase, ReturnSettling DEF Inv, Base
  <1>6. CASE Crash(t)
    <2>1. races' # {}
      BY <1>6 DEF Crash
    <2> QED
      BY <1>1, <1>6, <2>1, CrashBase DEF Inv, Base
  <1> QED
    BY <1>2, <1>3, <1>4, <1>5, <1>6 DEF Step

LEMMA Inductive == Inv /\ [Next]_vars => Inv'
  <1> SUFFICES ASSUME Inv, [Next]_vars PROVE Inv'
    OBVIOUS
  <1>1. ASSUME NEW t \in Unlocked, UnlockedOperation(t)
        PROVE  Inv'
    <2>1. PICK asked \in Seq(Access) :
              /\ Begin(t, FALSE, asked)
              /\ \A i \in 1 .. Len(asked) : asked[i].op = "get"
      BY <1>1, UnlockedBegins
    <2> QED
      BY <2>1, BeginInv, ThreadAssumption
  <1>2. ASSUME NEW t \in Thread \ Unlocked, SafeOperation(t)
        PROVE  Inv'
    <2>1. PICK asked \in Seq(Access) :
              Begin(t, TRUE, asked) /\ asked \in SafeWrites \cup SafeLookups
      BY <1>2, SafeBegins
    <2> QED
      BY <2>1, BeginInv
  <1>3. ASSUME NEW t \in Thread, Step(t) \/ Crash(t)
        PROVE  Inv'
    BY <1>3, StepInv
  <1>4. CASE UNCHANGED vars
    <2>1. View(store)' = View(store)
      BY <1>4 DEF vars, View
    <2>2. \A u \in Thread : DoneSoFar(calls[u]) => DoneSoFar(calls[u])'
      BY <1>4, <2>1, KeptDone DEF vars
    <2>3. Settling => Settling'
      BY <1>4, <2>1, <2>2 DEF vars, Settling
    <2>4. TypeOK'
      BY <1>4 DEF vars, Inv, TypeOK
    <2>5. MutexHeld' /\ \A u \in Thread : CallProgress(u)' /\ CallKind(u)'
      BY <1>4, Unmoved DEF vars, Inv, MutexHeld
    <2> QED
      BY <1>4, <2>3, <2>4, <2>5 DEF vars, Inv, RacesNeedUnlocked
  <1> QED
    BY <1>1, <1>2, <1>3, <1>4 DEF Next

\* The table, calls and histories keep their types in every execution, whatever
\* threads, keys and batches there are: what the table holds after lookups,
\* writes and races is a value or nothing.
THEOREM TypeCorrect == Spec => []TypeOK
  <1>1. Inv => TypeOK
    BY DEF Inv
  <1> QED
    BY <1>1, Initially, Inductive, PTL DEF Spec

\* Whoever is inside a locked call holds the mutex, alone, and until a race the
\* table differs from what the last holder left by what this one has done.
THEOREM Invariant == Spec => []Inv
  BY Initially, Inductive, PTL DEF Spec

\* The operations that take the mutex never race with each other, however many
\* threads call them: of any two threads that race, one called get or
\* batch_read, which do not take it.
THEOREM RacesCorrect == Spec => []RacesNeedUnlocked
  <1>1. Inv => RacesNeedUnlocked
    BY DEF Inv
  <1> QED
    BY <1>1, Invariant, PTL

----------------------------------------------------------------------------
(* Database implements AtomicMap. *)

LEMMA InitMaps == Init => Atomic!Init
  BY DEF Init, View, Nothing, Atomic!Init, Atomic!Empties, Atomic!Nothing

\* The end of a locked call is where the atomic map makes its step.
LEMMA ReturnMaps ==
    ASSUME Inv, NEW t \in Thread, Return(t), calls[t].safe, races = {}
    PROVE  Atomic!Write \/ Atomic!Read
  <1> DEFINE c == calls[t]
  <1>1. /\ settled' = View(store) /\ done' = [asked |-> c.asked, reads |-> c.reads]
        /\ c.stage = "ready" /\ c.at = Len(c.asked)
    BY DEF Return
  <1>2. DoneSoFar(c)
    <2>1. mutex = t
      BY <1>1 DEF Inv, MutexHeld, Locked
    <2> QED
      BY <2>1 DEF Inv, Settling
  <1>3. c.asked \in Seq(Access) /\ c.reads \in Seq(Value) /\ settled \in [Key -> Value]
    BY DEF Inv, TypeOK, Call
  <1>4. c.asked \in SafeWrites \cup SafeLookups
    <2>1. CallKind(t)
      BY DEF Inv
    <2> QED
      BY <1>1, <2>1 DEF CallKind
  <1> HIDE DEF c
  <1>5. CASE c.asked \in SafeWrites
    <2>1. settled' = Atomic!After(settled, c.asked) /\ c.reads = <<>>
      BY <1>1, <1>2, <1>3, <1>5, AfterFirstAll DEF DoneSoFar
    <2>2. Atomic!Write
      BY <1>1, <1>5, <2>1 DEF Atomic!Write
    <2> QED
      BY <2>2
  <1>6. CASE c.asked \in SafeLookups
    <2>1. /\ settled' = settled /\ Len(c.reads) = Len(c.asked)
          /\ \A i \in 1 .. Len(c.asked) : c.reads[i] = settled[c.asked[i].key]
      BY <1>1, <1>2, <1>6 DEF DoneSoFar
    <2>2. c.reads = [i \in DOMAIN c.asked |-> settled[c.asked[i].key]]
      BY <1>3, <2>1
    <2>3. Atomic!Read
      BY <1>1, <1>6, <2>1, <2>2 DEF Atomic!Read
    <2> QED
      BY <2>3
  <1> QED
    BY <1>4, <1>5, <1>6

LEMMA StepMaps ==
    ASSUME Inv, [Next]_vars
    PROVE  [Atomic!Write \/ Atomic!Read \/ Atomic!Forget]_<<settled, done>>
  <1>1. ASSUME NEW t \in Unlocked, UnlockedOperation(t)
        PROVE  UNCHANGED <<settled, done>>
    BY <1>1, UnlockedBegins DEF Begin
  <1>2. ASSUME NEW t \in Thread \ Unlocked, SafeOperation(t)
        PROVE  UNCHANGED <<settled, done>>
    BY <1>2, SafeBegins DEF Begin
  <1>3. ASSUME NEW t \in Thread, Lock(t)
        PROVE  Atomic!Forget
    BY <1>3 DEF Lock, Nothing, Atomic!Forget, Atomic!Nothing
  <1>4. ASSUME NEW t \in Thread, Enter(t) \/ Leave(t) \/ Crash(t)
        PROVE  UNCHANGED <<settled, done>>
    BY <1>4 DEF Enter, Leave, Crash
  <1>5. ASSUME NEW t \in Thread, Return(t)
        PROVE  Atomic!Write \/ Atomic!Read \/ UNCHANGED <<settled, done>>
    <2>1. CASE calls[t].safe /\ races = {}
      BY <1>5, <2>1, ReturnMaps
    <2>2. CASE ~(calls[t].safe /\ races = {})
      BY <1>5, <2>2 DEF Return
    <2> QED
      BY <2>1, <2>2
  <1>6. CASE UNCHANGED vars
    BY <1>6 DEF vars
  <1> QED
    BY <1>1, <1>2, <1>3, <1>4, <1>5, <1>6 DEF Next, Step

\* Until the first race, the locked operations of any number of threads are
\* those of an atomic map: every batch takes effect whole, at one moment between
\* its call and its return, and every locked read answers from one state.
THEOREM AtomicCorrect == Spec => AtomicSpec
  BY InitMaps, StepMaps, Invariant, PTL DEF Spec, AtomicSpec, Atomic!Spec
=============================================================================
