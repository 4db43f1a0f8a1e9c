--------------------------- MODULE SummaryService ---------------------------
(***************************************************************************)
(* What GET /summary/recent promises, without a cache: for every limit one *)
(* published count, replaced only by later counts.  A call is answered     *)
(* with the count that is published at that moment, no older than          *)
(* Staleness, or with an error.                                            *)
(***************************************************************************)
EXTENDS Integers

CONSTANTS
  Caller,    \* HTTP requests that may be under way at once
  Key,       \* limits after parseRecentLimit
  Staleness, \* how old an answer may be
  None,      \* no count, no answer
  Error      \* the answer 500

VARIABLES
  now,       \* the clock
  published, \* key -> when the published count was taken, or None
  asking,    \* caller -> the key it waits for, or None
  answer     \* caller -> its last answer

vars == <<now, published, asking, answer>>

Init ==
  /\ now = 0
  /\ published = [k \in Key |-> None]
  /\ asking = [c \in Caller |-> None]
  /\ answer = [c \in Caller |-> None]

Tick ==
  /\ now' = now + 1
  /\ UNCHANGED <<published, asking, answer>>

(* A call comes in. *)
Ask(c, k) ==
  /\ asking[c] = None
  /\ asking' = [asking EXCEPT ![c] = k]
  /\ answer' = [answer EXCEPT ![c] = None]
  /\ UNCHANGED <<now, published>>

(* A count taken not later than now replaces an older one. *)
Publish(k, count) ==
  /\ count \in 0..now
  /\ published[k] = None \/ published[k] <= count
  /\ published' = [published EXCEPT ![k] = count]
  /\ UNCHANGED <<now, asking, answer>>

Recent(k) == published[k] # None /\ now - published[k] <= Staleness

(* The calls of a set are answered together, with one result. *)
Reply(calls, k, result) ==
  /\ \A c \in calls : asking[c] = k
  /\ result = Error \/ (Recent(k) /\ result = published[k])
  /\ asking' = [c \in Caller |-> IF c \in calls THEN None ELSE asking[c]]
  /\ answer' = [c \in Caller |-> IF c \in calls THEN result ELSE answer[c]]
  /\ UNCHANGED <<now, published>>

(* A call answered as soon as it comes in. *)
AskAndReply(c, k) ==
  /\ asking[c] = None
  /\ Recent(k)
  /\ answer' = [answer EXCEPT ![c] = published[k]]
  /\ UNCHANGED <<now, published, asking>>

Next ==
  \/ Tick
  \/ \E c \in Caller, k \in Key : Ask(c, k) \/ AskAndReply(c, k)
  \/ \E k \in Key : \E count \in 0..now : Publish(k, count)
  \/ \E k \in Key, calls \in SUBSET Caller :
        Reply(calls, k, Error) \/ Reply(calls, k, published[k])

Spec == Init /\ [][Next]_vars

=============================================================================
