------------------------- MODULE SummaryCacheProofs -------------------------
(***************************************************************************)
(* The promise of the summary cache, for any number of requests and limits *)
(* and every TTL and Lag.  The inductive invariant CacheInv says how old a *)
(* count may be at each point of its way from the query to the answer, and *)
(* that nobody but the leader moves the entry of its key.                  *)
(***************************************************************************)
EXTENDS SummaryCache, TLAPS

(* A count on its way to the cache is newer than what is cached and no older *)
(* than Lag.                                                                 *)
StoreOK(call) ==
  /\ call.value = call.since
  /\ call.since <= now /\ now - call.since <= Lag
  /\ call.key \in DOMAIN entries => entries[call.key].value <= call.value

(* A result on its way to the callers is what is cached, or an error. *)
FinishOK(call) ==
  /\ call.since <= now /\ now - call.since <= Lag
  /\ \/ call.value = Error
     \/ /\ call.key \in DOMAIN entries
        /\ call.value = entries[call.key].value
        /\ call.since - call.value <= TTL + Lag

CallOK(c) ==
  /\ calls[c].pc = "idle" => calls[c].key = None
  /\ calls[c].pc = "store" => StoreOK(calls[c])
  /\ calls[c].pc = "finish" => FinishOK(calls[c])

EntryOK(k) ==
  /\ entries[k].value <= now
  /\ entries[k].expiresAt <= entries[k].value + Lag + TTL

CacheInv ==
  /\ SummaryTypeOK
  /\ \A c \in Caller : CallOK(c)
  /\ \A k \in DOMAIN entries : EntryOK(k)

-----------------------------------------------------------------------------
(* The types, action by action *)

(* Whatever limit is asked for, the cache is keyed by one of 1..maxRecentLimit *)
(* (handler.go:115-121).                                                     *)
LEMMA LimitIsKey ==
  ASSUME NEW asked \in Asked PROVE ParseRecentLimit(asked) \in Key
BY CacheAssumption DEF ParseRecentLimit, Key

LEMMA InitInv == Init => CacheInv
BY CacheAssumption DEF Init, CacheInv, SummaryTypeOK, CallOK, Idle, Call, Time, Leads, Busy

(* A step of one call that leaves the clock and the entries alone. *)
LEMMA OneCallMoves ==
  ASSUME CacheInv, NEW c \in Caller, NEW call \in Call,
         calls' = [calls EXCEPT ![c] = call],
         UNCHANGED <<now, entries>>,
         flight' \in [Key -> Caller \cup {None}],
         answer' \in [Caller -> Time \cup {None, Error}],
         \A d \in Caller \ {c} : calls[d].pc \in Leads => flight'[calls[d].key] = d,
         call.pc \in Busy => call.key \in Key,
         call.pc \in Leads => flight'[call.key] = c,
         call.pc = "idle" => call.key = None,
         call.pc = "store" => call.value \in Time /\ StoreOK(call),
         call.pc = "finish" => FinishOK(call)
  PROVE  CacheInv'
<1>1. calls' \in [Caller -> Call] /\ calls'[c] = call
  BY DEF CacheInv, SummaryTypeOK
<1>2. \A d \in Caller \ {c} : calls'[d] = calls[d]
  BY DEF CacheInv, SummaryTypeOK
<1>3. SummaryTypeOK'
  BY <1>1, <1>2 DEF CacheInv, SummaryTypeOK
<1>4. ASSUME NEW d \in Caller PROVE CallOK(d)'
  BY <1>1, <1>2 DEF CacheInv, CallOK, StoreOK, FinishOK
<1>5. \A k \in DOMAIN entries' : EntryOK(k)'
  BY DEF CacheInv, EntryOK
<1> QED
  BY <1>3, <1>4, <1>5 DEF CacheInv

LEMMA RequestInv ==
  ASSUME CacheInv, NEW c \in Caller, NEW asked \in Asked, Request(c, asked)
  PROVE  CacheInv'
<1> DEFINE k == ParseRecentLimit(asked)
           call == [pc |-> "enter", key |-> k, value |-> None, since |-> 0]
<1>1. k \in Key /\ call \in Call
  BY LimitIsKey, CacheAssumption DEF Call, Busy, Time
<1>2. CASE Live(k)
  BY <1>1, <1>2 DEF Request, Live, CacheInv, SummaryTypeOK, CallOK, StoreOK, FinishOK, EntryOK
<1>3. CASE ~Live(k)
  <2>1. calls' = [calls EXCEPT ![c] = call] /\ UNCHANGED <<now, entries, flight>>
    BY <1>3 DEF Request, Idle
  <2>2. answer' \in [Caller -> Time \cup {None, Error}]
    BY <1>3 DEF Request, CacheInv, SummaryTypeOK
  <2> QED
    BY <1>1, <2>1, <2>2, OneCallMoves DEF CacheInv, SummaryTypeOK, Busy, Leads
<1> QED
  BY <1>2, <1>3

LEMMA TickInv == CacheInv /\ Tick => CacheInv'
BY CacheAssumption
DEF Tick, CacheInv, SummaryTypeOK, CallOK, StoreOK, FinishOK, EntryOK, Call, Time, Leads, Busy

LEMMA EnterInv ==
  ASSUME CacheInv, NEW c \in Caller, Enter(c) PROVE CacheInv'
<1> DEFINE k == calls[c].key
           Moved(pc) == [calls[c] EXCEPT !.pc = pc]
<1>1. k \in Key /\ calls[c] \in Call /\ Moved("check") \in Call /\ Moved("wait") \in Call
  BY DEF Enter, CacheInv, SummaryTypeOK, Call, Busy
<1>2. CASE flight[k] = None
  <2>1. calls' = [calls EXCEPT ![c] = Moved("check")]
    BY <1>2 DEF Enter
  <2>2. flight' \in [Key -> Caller \cup {None}] /\ flight'[k] = c
    BY <1>1, <1>2 DEF Enter, CacheInv, SummaryTypeOK
  <2>3. \A d \in Caller \ {c} : calls[d].pc \in Leads => flight'[calls[d].key] = d
    BY <1>1, <1>2, CacheAssumption DEF Enter, CacheInv, SummaryTypeOK, Leads, Busy
  <2>4. Moved("check").pc = "check" /\ Moved("check").key = k
    BY <1>1 DEF Call
  <2> QED
    BY <1>1, <2>1, <2>2, <2>3, <2>4, OneCallMoves DEF Enter, CacheInv, SummaryTypeOK
<1>3. CASE flight[k] # None
  <2>1. calls' = [calls EXCEPT ![c] = Moved("wait")] /\ flight' = flight
    BY <1>3 DEF Enter
  <2>2. Moved("wait").pc = "wait" /\ Moved("wait").key = k
    BY <1>1 DEF Call
  <2> QED
    BY <1>1, <2>1, <2>2, OneCallMoves DEF Enter, CacheInv, SummaryTypeOK, Leads
<1> QED
  BY <1>2, <1>3

(* A step of the leader from one place to another, with a value. *)
LEMMA LeaderMoves ==
  ASSUME CacheInv, NEW c \in Caller, calls[c].pc \in Leads,
         NEW pc \in Leads, NEW value \in Time \cup {None, Error}, NEW since \in Time,
         calls' = [calls EXCEPT ![c] = [pc |-> pc, key |-> calls[c].key,
                                        value |-> value, since |-> since]],
         UNCHANGED <<now, entries, flight, answer>>,
         pc = "store" => value \in Time /\ StoreOK(calls'[c]),
         pc = "finish" => FinishOK(calls'[c])
  PROVE  CacheInv'
<1> DEFINE call == [pc |-> pc, key |-> calls[c].key, value |-> value, since |-> since]
<1>1. calls[c].key \in Key /\ flight[calls[c].key] = c
  BY DEF CacheInv, SummaryTypeOK, Leads, Busy
<1>2. call \in Call
  BY <1>1 DEF Call, Leads, Busy
<1>3. calls'[c] = call
  BY DEF CacheInv, SummaryTypeOK
<1>4. pc # "idle"
  BY DEF Leads
<1> QED
  BY <1>1, <1>2, <1>3, <1>4, OneCallMoves DEF CacheInv, SummaryTypeOK

(* A record of a call is its four fields. *)
LEMMA CallFields ==
  ASSUME NEW call \in Call
  PROVE  call = [pc |-> call.pc, key |-> call.key, value |-> call.value, since |-> call.since]
BY DEF Call

LEMMA CheckInv ==
  ASSUME CacheInv, NEW c \in Caller, Check(c) PROVE CacheInv'
<1> DEFINE k == calls[c].key
<1>1. calls[c].pc \in Leads /\ calls[c] \in Call /\ k \in Key /\ now \in Time
  BY DEF Check, Leader, Leads, Busy, CacheInv, SummaryTypeOK
<1>2. CASE Live(k)
  <2> DEFINE v == entries[k].value
             call == [pc |-> "finish", key |-> k, value |-> v, since |-> now]
  <2>1. v \in Time /\ now - v <= TTL + Lag
    BY <1>1, <1>2, CacheAssumption DEF CacheInv, SummaryTypeOK, Live, EntryOK, Time
  <2>2. calls' = [calls EXCEPT ![c] = call]
    BY <1>2 DEF Check, HasResult, Carry, Call
  <2>3. UNCHANGED <<now, entries, flight, answer>>
    BY DEF Check
  <2>4. FinishOK(call)
    BY <1>1, <1>2, <2>1, CacheAssumption DEF FinishOK, Live, Time
  <2>5. calls'[c] = call
    BY <2>2 DEF CacheInv, SummaryTypeOK
  <2> QED
    BY <1>1, <2>1, <2>2, <2>3, <2>4, <2>5, LeaderMoves DEF Leads, FinishOK
<1>3. CASE ~Live(k)
  <2>1. calls' = [calls EXCEPT ![c] = [pc |-> "query", key |-> k, value |-> calls[c].value,
                                       since |-> calls[c].since]]
    BY <1>1, <1>3, CallFields DEF Check, Call
  <2>2. calls[c].value \in Time \cup {None, Error} /\ calls[c].since \in Time
    BY <1>1 DEF Call
  <2> QED
    BY <1>1, <2>1, <2>2, LeaderMoves DEF Leads, Check
<1> QED
  BY <1>2, <1>3

LEMMA QueryInv ==
  ASSUME CacheInv, NEW c \in Caller, Query(c) \/ QueryFails(c) PROVE CacheInv'
<1> DEFINE k == calls[c].key
<1>1. /\ calls[c].pc = "query" /\ calls[c].pc \in Leads /\ calls[c] \in Call
      /\ k \in Key /\ now \in Time /\ UNCHANGED <<now, entries, flight, answer>>
  BY DEF Query, QueryFails, Leader, Leads, Busy, CacheInv, SummaryTypeOK
<1>2. CASE Query(c)
  <2> DEFINE call == [pc |-> "store", key |-> k, value |-> now, since |-> now]
  <2>1. calls' = [calls EXCEPT ![c] = call] /\ calls'[c] = call
    BY <1>2 DEF Query, Carry, CacheInv, SummaryTypeOK
  <2>2. StoreOK(call)
    BY <1>1, CacheAssumption DEF StoreOK, CacheInv, EntryOK, Time
  <2> QED
    BY <1>1, <2>1, <2>2, LeaderMoves DEF Leads, StoreOK
<1>3. CASE QueryFails(c)
  <2> DEFINE call == [pc |-> "finish", key |-> k, value |-> Error, since |-> now]
  <2>1. calls' = [calls EXCEPT ![c] = call] /\ calls'[c] = call
    BY <1>3 DEF QueryFails, HasResult, Carry, CacheInv, SummaryTypeOK
  <2>2. FinishOK(call)
    BY <1>1, CacheAssumption DEF FinishOK, Time
  <2> QED
    BY <1>1, <2>1, <2>2, LeaderMoves DEF Leads, FinishOK
<1> QED
  BY <1>2, <1>3

LEMMA StoreInv ==
  ASSUME CacheInv, NEW c \in Caller, Store(c) PROVE CacheInv'
<1> DEFINE k == calls[c].key
           v == calls[c].value
<1>1. k \in Key /\ v \in Time /\ StoreOK(calls[c])
  BY DEF CacheInv, SummaryTypeOK, CallOK, Store, Leader, Leads, Busy
<1>2. /\ DOMAIN entries' = DOMAIN entries \cup {k}
      /\ entries'[k] = [value |-> v, expiresAt |-> now + TTL]
      /\ \A j \in DOMAIN entries : j # k => entries'[j] = entries[j]
  BY DEF Store, SetEntry
<1>5. UNCHANGED <<now, flight, answer>> /\ now \in Time
  BY DEF Store, CacheInv, SummaryTypeOK
<1>3. /\ calls'[c] = [pc |-> "finish", key |-> k, value |-> v, since |-> now]
      /\ \A d \in Caller : d # c => calls'[d] = calls[d]
      /\ calls' \in [Caller -> Call]
  <2>1. [pc |-> "finish", key |-> k, value |-> v, since |-> now] \in Call
    BY <1>1, <1>5 DEF CacheInv, SummaryTypeOK, Call, Busy
  <2> QED
    BY <2>1 DEF Store, HasResult, Carry, CacheInv, SummaryTypeOK
<1>4. calls'[c].pc = "finish" /\ calls'[c].key = k /\ calls'[c].value = v /\ calls'[c].since = now
  BY <1>3, <1>1 DEF CacheInv, SummaryTypeOK, Call
<1>6. now + TTL \in 0..(MaxTime + TTL)
  BY <1>5, CacheAssumption DEF Time
<1>7. SummaryTypeOK'
  <2>1. DOMAIN entries' \subseteq Key
    BY <1>1, <1>2 DEF CacheInv, SummaryTypeOK
  <2>2. entries' \in [DOMAIN entries' -> [value : Time, expiresAt : 0..(MaxTime + TTL)]]
    BY <1>1, <1>2, <1>6 DEF Store, SetEntry, CacheInv, SummaryTypeOK
  <2>3. \A d \in Caller :
          /\ calls'[d].pc \in Busy => calls'[d].key \in Key
          /\ calls'[d].pc \in Leads => flight'[calls'[d].key] = d
          /\ calls'[d].pc = "store" => calls'[d].value \in Time
    BY <1>1, <1>3, <1>4, <1>5 DEF CacheInv, SummaryTypeOK, Store, Leader, Leads, Busy
  <2> QED
    BY <2>1, <2>2, <2>3, <1>3, <1>5 DEF CacheInv, SummaryTypeOK
<1>8. ASSUME NEW d \in Caller PROVE CallOK(d)'
  <2>1. CASE d = c
    BY <2>1, <1>1, <1>2, <1>4, <1>5, CacheAssumption DEF CallOK, StoreOK, FinishOK, Time
  <2>2. CASE d # c
    <3>1. calls'[d] = calls[d] /\ CallOK(d)
      BY <2>2, <1>3 DEF CacheInv
    <3>2. calls[d].pc \in {"store", "finish"} => calls[d].key # k
      BY <2>2, <1>1 DEF CacheInv, SummaryTypeOK, Store, Leader, Leads
    <3> QED
      BY <3>1, <3>2, <1>2, <1>5 DEF CallOK, StoreOK, FinishOK
  <2> QED
    BY <2>1, <2>2
<1>9. ASSUME NEW j \in DOMAIN entries' PROVE EntryOK(j)'
  <2>1. CASE j = k
    BY <2>1, <1>1, <1>2, <1>5, CacheAssumption DEF EntryOK, StoreOK, Time
  <2>2. CASE j # k
    BY <2>2, <1>2, <1>5 DEF EntryOK, CacheInv
  <2> QED
    BY <2>1, <2>2
<1> QED
  BY <1>7, <1>8, <1>9 DEF CacheInv

LEMMA FinishInv ==
  ASSUME CacheInv, NEW c \in Caller, Finish(c) PROVE CacheInv'
BY CacheAssumption
DEF Finish, Waiting, CacheInv, SummaryTypeOK, CallOK, StoreOK, FinishOK, EntryOK, Call, Time,
    Leads, Busy, Leader, Idle

LEMMA InvHolds == Spec => []CacheInv
<1>1. CacheInv /\ [Next]_vars => CacheInv'
  <2> SUFFICES ASSUME CacheInv, [Next]_vars PROVE CacheInv'
    OBVIOUS
  <2>1. CASE UNCHANGED vars
    BY <2>1 DEF vars, CacheInv, SummaryTypeOK, CallOK, StoreOK, FinishOK, EntryOK
  <2>2. CASE Tick
    BY <2>2, TickInv
  <2>3. ASSUME NEW c \in Caller, Step(c) PROVE CacheInv'
    BY <2>3, EnterInv, CheckInv, QueryInv, StoreInv, FinishInv DEF Step
  <2>4. ASSUME NEW c \in Caller, NEW asked \in Asked, Request(c, asked) PROVE CacheInv'
    BY <2>4, RequestInv
  <2> QED
    BY <2>1, <2>2, <2>3, <2>4 DEF Next
<1> QED
  BY <1>1, InitInv, PTL DEF Spec

(* Only Store changes an entry, and only that of its key. *)
LEMMA StoreChanges ==
  ASSUME CacheInv, NEW c \in Caller, Store(c)
  PROVE  /\ calls[c].key \in Key /\ calls[c].value \in 0..now /\ calls[c].value \in Nat
         /\ DOMAIN entries' = DOMAIN entries \cup {calls[c].key}
         /\ entries'[calls[c].key].value = calls[c].value
         /\ \A k \in DOMAIN entries : k # calls[c].key => entries'[k] = entries[k]
         /\ calls[c].key \in DOMAIN entries => entries[calls[c].key].value <= calls[c].value
BY DEF Store, SetEntry, Leader, CacheInv, SummaryTypeOK, CallOK, StoreOK, Time, Leads, Busy

-----------------------------------------------------------------------------
(* Theorems *)

(* The cache, its loads and the calls under way are well typed, and the load *)
(* of a key has one leader (ttlcache.go:42).                                 *)
THEOREM SummaryTypeCorrect == Spec => []SummaryTypeOK
<1>1. CacheInv => SummaryTypeOK
  BY DEF CacheInv
<1> QED
  BY <1>1, InvHolds, PTL

(* A summary is counted only when no live entry could have answered, however *)
(* the requests interleave (ttlcache.go:43).                                 *)
THEOREM NoLoadIsNeedless == Spec => []NoNeedlessLoad
<1>1. Init => NoNeedlessLoad
  BY DEF Init, NoNeedlessLoad, Idle
<1>2. CacheInv /\ NoNeedlessLoad /\ [Next]_vars => NoNeedlessLoad'
  <2> SUFFICES ASSUME CacheInv, NoNeedlessLoad, [Next]_vars,
                      NEW d \in Caller, calls'[d].pc \in {"query", "store"}
               PROVE  ~(Live(calls[d].key)')
    BY DEF NoNeedlessLoad
  <2> USE DEF CacheInv, SummaryTypeOK, NoNeedlessLoad, Live
  <2>1. CASE UNCHANGED vars
    BY <2>1 DEF vars
  <2>2. CASE Tick
    BY <2>2, CacheAssumption DEF Tick, Time
  <2>3. ASSUME NEW c \in Caller, Step(c) PROVE ~(Live(calls[d].key)')
    <3>1. CASE Enter(c)
      BY <3>1 DEF Enter, Call
    <3>2. CASE Check(c)
      BY <3>2 DEF Check, HasResult, Carry, Leader, Call
    <3>3. CASE Query(c) \/ QueryFails(c)
      BY <3>3 DEF Query, QueryFails, HasResult, Carry, Leader, Call
    <3>4. CASE Store(c)
      <4>1. d # c /\ calls'[d] = calls[d]
        BY <3>4 DEF Store, HasResult, Carry, Call
      <4>2. calls[d].key \in Key /\ calls[d].key # calls[c].key
        BY <4>1, <3>4 DEF Store, Leader, Leads, Busy
      <4>3. ~Live(calls[d].key) /\ now' = now
        BY <4>1, <3>4 DEF Store
      <4> QED
        BY <4>1, <4>2, <4>3, <3>4, StoreChanges, ZenonT(30)
    <3>5. CASE Finish(c)
      BY <3>5 DEF Finish, Idle
    <3> QED
      BY <2>3, <3>1, <3>2, <3>3, <3>4, <3>5 DEF Step
  <2>4. ASSUME NEW c \in Caller, NEW asked \in Asked, Request(c, asked)
        PROVE  ~(Live(calls[d].key)')
    <3>1. UNCHANGED <<now, entries>>
      BY <2>4 DEF Request
    <3>2. calls'[d] = calls[d]
      <4>1. calls'[c].pc \in {"idle", "enter"}
        <5>1. CASE calls' = calls
          BY <2>4, <5>1 DEF Request
        <5>2. CASE \E k : calls' = [calls EXCEPT ![c] = [Idle EXCEPT !.pc = "enter", !.key = k]]
          BY <5>2 DEF Idle
        <5> QED
          BY <2>4, <5>1, <5>2 DEF Request
      <4>2. d # c
        BY <4>1
      <4> QED
        BY <2>4, <4>2 DEF Request
    <3> QED
      BY <3>1, <3>2
  <2> QED
    BY <2>1, <2>2, <2>3, <2>4 DEF Next
<1> QED
  BY <1>1, <1>2, InvHolds, PTL DEF Spec

(* No load, however slow, overwrites the summary of a later one.             *)
THEOREM SummariesNeverGoBack == Spec => NeverGoesBack
<1>1. CacheInv /\ [Next]_vars =>
        [\A k \in DOMAIN entries :
           k \in DOMAIN entries' /\ entries'[k].value >= entries[k].value]_vars
  <2> SUFFICES ASSUME CacheInv, Next, NEW k \in DOMAIN entries
               PROVE  k \in DOMAIN entries' /\ entries'[k].value >= entries[k].value
    OBVIOUS
  <2>0. entries[k].value \in Nat
    BY DEF CacheInv, SummaryTypeOK, Time
  <2>1. CASE entries' = entries
    BY <2>0, <2>1
  <2>2. ASSUME NEW c \in Caller, Store(c)
        PROVE  k \in DOMAIN entries' /\ entries'[k].value >= entries[k].value
    <3> DEFINE key == calls[c].key
    <3>0. /\ DOMAIN entries' = DOMAIN entries \cup {key}
          /\ entries'[key].value = calls[c].value /\ calls[c].value \in Nat
          /\ \A j \in DOMAIN entries : j # key => entries'[j] = entries[j]
          /\ key \in DOMAIN entries => entries[key].value <= calls[c].value
      BY <2>2, StoreChanges
    <3> HIDE DEF key
    <3>1. CASE k = key
      BY <2>0, <3>0, <3>1
    <3>2. CASE k # key
      BY <2>0, <3>0, <3>2
    <3> QED
      BY <3>1, <3>2
  <2> QED
    BY <2>1, <2>2 DEF Next, Step, Tick, Enter, Check, Query, QueryFails, Finish, Request
<1> QED
  BY <1>1, InvHolds, PTL DEF Spec, NeverGoesBack

(* The cache implements the service: an answer is the summary published for  *)
(* the caller's limit at that moment and no older than TTL + 2 Lag, whoever  *)
(* loaded it, for any number of requests (ttlcache.go:38-60).                *)
THEOREM CacheServesPublished == Spec => ServesPublished
<1>1. Init => Service!Init
  BY DEF Init, Service!Init, Idle, Published, Asking
<1>2. CacheInv /\ [Next]_vars => [Service!Next]_(Service!vars)
  <2> SUFFICES ASSUME CacheInv, [Next]_vars
               PROVE  Service!Next \/ UNCHANGED <<now, Published, Asking, answer>>
    BY DEF Service!vars
  <2>0. /\ \A c \in Caller : calls[c] \in Call /\ CallOK(c)
        /\ \A c \in Caller : calls[c].pc \in Busy => calls[c].key \in Key
        /\ calls \in [Caller -> Call] /\ answer \in [Caller -> Time \cup {None, Error}]
        /\ DOMAIN entries \subseteq Key /\ now \in Nat
        /\ \A k \in DOMAIN entries : entries[k].value \in Time /\ EntryOK(k)
    BY DEF CacheInv, SummaryTypeOK, Time
  <2>1. CASE UNCHANGED vars
    BY <2>1 DEF vars, Published, Asking
  <2>2. CASE Tick
    <3>1. UNCHANGED <<Published, Asking, answer>>
      BY <2>2 DEF Tick, Published, Asking
    <3> QED
      BY <2>2, <3>1 DEF Tick, Service!Tick, Service!Next
  <2>3. ASSUME NEW c \in Caller, Enter(c) \/ Check(c) \/ Query(c) \/ QueryFails(c)
        PROVE  UNCHANGED <<now, Published, Asking, answer>>
    <3>1. \A d \in Caller : calls'[d].key = calls[d].key
      BY <2>0, <2>3 DEF Enter, Check, Query, QueryFails, HasResult, Carry, Call
    <3> QED
      BY <2>3, <3>1 DEF Enter, Check, Query, QueryFails, Published, Asking
  <2>4. ASSUME NEW c \in Caller, Store(c) PROVE Service!Next
    <3> DEFINE k == calls[c].key
               v == calls[c].value
    <3>1. k \in Key /\ v \in 0..now
      BY <2>4, StoreChanges
    <3>2. Published[k] = None \/ Published[k] <= v
      BY <2>4, <3>1, StoreChanges DEF Published
    <3>3. Published' = [Published EXCEPT ![k] = v]
      BY <2>0, <2>4, <3>1, StoreChanges DEF Published
    <3>4. Asking' = Asking
      BY <2>0, <2>4 DEF Store, HasResult, Carry, Call, Asking
    <3>5. UNCHANGED <<now, answer>>
      BY <2>4 DEF Store
    <3>6. Service!Publish(k, v)
      BY <3>1, <3>2, <3>3, <3>4, <3>5 DEF Service!Publish
    <3> HIDE DEF k, v
    <3>7. \E j \in Key : \E count \in 0..now : Service!Publish(j, count)
      BY <3>1, <3>6
    <3> QED
      BY <3>7 DEF Service!Next
  <2>5. ASSUME NEW c \in Caller, Finish(c) PROVE Service!Next
    <3> DEFINE k == calls[c].key
               v == calls[c].value
               W == Waiting(c)
    <3>1. W \subseteq Caller /\ k \in Key /\ \A d \in W : Asking[d] = k
      BY <2>0, <2>5 DEF Waiting, Finish, Leader, Busy, Asking
    <3>2. \/ v = Error
          \/ Published[k] = v /\ Published[k] # None /\ now - Published[k] <= TTL + 2 * Lag
      BY <2>0, <2>5, <3>1, CacheAssumption DEF Finish, Leader, CallOK, FinishOK, Call, Time, Published
    <3>3. Asking' = [d \in Caller |-> IF d \in W THEN None ELSE Asking[d]]
      BY <2>0, <2>5 DEF Finish, Idle, Asking
    <3>4. answer' = [d \in Caller |-> IF d \in W THEN v ELSE answer[d]]
      BY <2>5 DEF Finish
    <3>5. UNCHANGED <<now, Published>>
      BY <2>5 DEF Finish, Published
    <3>6. Service!Reply(W, k, Error) \/ Service!Reply(W, k, Published[k])
      BY <3>1, <3>2, <3>3, <3>4, <3>5 DEF Service!Reply, Service!Recent
    <3>7. \E j \in Key, called \in SUBSET Caller :
            Service!Reply(called, j, Error) \/ Service!Reply(called, j, Published[j])
      BY <3>1, <3>6
    <3> QED
      BY <3>7 DEF Service!Next
  <2>6. ASSUME NEW c \in Caller, NEW asked \in Asked, Request(c, asked) PROVE Service!Next
    <3> DEFINE k == ParseRecentLimit(asked)
    <3>1. k \in Key /\ Asking[c] = None
      BY <2>0, <2>6, LimitIsKey DEF Request, CallOK, Asking
    <3>2. CASE Live(k)
      <4>1. /\ Published[k] = entries[k].value /\ Published[k] # None
            /\ now - Published[k] <= TTL + 2 * Lag
        BY <2>0, <3>1, <3>2, CacheAssumption DEF Live, EntryOK, Time, CacheInv, SummaryTypeOK, Published
      <4>2. answer' = [answer EXCEPT ![c] = Published[k]] /\ UNCHANGED <<now, Published, Asking>>
        BY <2>6, <3>2, <4>1 DEF Request, Published, Asking
      <4>3. Service!AskAndReply(c, k)
        BY <3>1, <4>1, <4>2 DEF Service!AskAndReply, Service!Recent
      <4> QED
        BY <3>1, <4>3 DEF Service!Next
    <3>3. CASE ~Live(k)
      <4>0. /\ calls'[c].key = k
            /\ \A d \in Caller \ {c} : calls'[d] = calls[d]
        BY <2>0, <2>6, <3>3 DEF Request, Idle
      <4>1. Asking' = [Asking EXCEPT ![c] = k]
        BY <4>0 DEF Asking
      <4>2. answer' = [answer EXCEPT ![c] = None] /\ UNCHANGED <<now, Published>>
        BY <2>6, <3>3 DEF Request, Published
      <4>3. Service!Ask(c, k)
        BY <3>1, <4>1, <4>2 DEF Service!Ask
      <4> QED
        BY <3>1, <4>3 DEF Service!Next
    <3> QED
      BY <3>2, <3>3
  <2> QED
    BY <2>1, <2>2, <2>3, <2>4, <2>5, <2>6 DEF Next, Step
<1> QED
  BY <1>1, <1>2, InvHolds, PTL DEF Spec, Service!Spec, ServesPublished

=============================================================================
