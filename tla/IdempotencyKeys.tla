------------------------------ MODULE IdempotencyKeys ------------------------------
(***************************************************************************)
(* The idempotency middleware in front of a handler that does something    *)
(* once. No route mounts it yet; it is modelled as its file defines it,    *)
(* before a handler that answers, answers with a server error or rejects.  *)
(* An answer is the number of the execution that gave it.                  *)
(***************************************************************************)
EXTENDS HttpServer

CONSTANTS
  IdemKey,  \* Idempotency-Key headers
  KeepMs    \* the 24 hours an answer is kept

ASSUME IdempotencyAssumption == KeepMs \in Nat

VARIABLES
  stored,    \* the IdempotencyKey table
  storing,   \* inserts that nobody waits for
  executed,  \* history: when the handler ran for each key
  unsettled  \* history: keys whose requests overlapped, or one of whose requests failed

idemVars == <<stored, storing, executed, unsettled>>

StoredAnswer == [answer : Nat \ {0}, expires : 0..(MaxNow + KeepMs)]

NoAnswer == [answer |-> 0, expires |-> 0]

\* capture: whether res.json was replaced.
IdemCall ==
  [op : {"lookup", "drop"}, idem : IdemKey]
    \cup [op : {"work"}, idem : IdemKey, capture : BOOLEAN]

IdemTypeOK ==
  /\ stored \in [IdemKey -> StoredAnswer \cup {NoAnswer}]
  /\ storing \subseteq [idem : IdemKey, row : StoredAnswer]
  /\ executed \in [IdemKey -> Seq(0..MaxNow)]
  /\ unsettled \subseteq IdemKey

IdemInit ==
  /\ stored = [x \in IdemKey |-> NoAnswer]
  /\ storing = {}
  /\ executed = [x \in IdemKey |-> << >>]
  /\ unsettled = {}

ForKey(r, x) == call[r].op \in {"lookup", "drop", "work"} /\ call[r].idem = x

\* Something of key x is under way.
UnderWay(x) == (\E r \in Slot : ForKey(r, x)) \/ (\E s \in storing : s.idem = x)

IdemArrives(r, a, x) ==
  /\ Arrive(r, a, "repeat", [op |-> "lookup", idem |-> x])
  /\ unsettled' = IF UnderWay(x) THEN unsettled \cup {x} ELSE unsettled
  /\ UNCHANGED <<stored, storing, executed>>

Work(x, capture) == [op |-> "work", idem |-> x, capture |-> capture]

\* Mutant: an answer that is kept counts as expired.
Forgotten(x) == TRUE

Expired(x) == stored[x].expires <= now

\* The stored answer is replayed, or is to be removed, or there is none.
Lookup(r) ==
  LET x == call[r].idem IN
  /\ call[r].op = "lookup"
  /\ CASE stored[x] = NoAnswer -> GoOn(r, Work(x, TRUE))
       [] stored[x] # NoAnswer /\ Expired(x) -> GoOn(r, [op |-> "drop", idem |-> x])
       [] OTHER -> Respond(r)
  /\ UNCHANGED <<limitVars, idemVars>>

\* By the key, whatever row has it by now.
Drop(r) ==
  LET x == call[r].idem IN
  /\ call[r].op = "drop"
  /\ stored[x] # NoAnswer
  /\ stored' = [stored EXCEPT ![x] = NoAnswer]
  /\ GoOn(r, Work(x, TRUE))
  /\ UNCHANGED <<limitVars, storing, executed, unsettled>>

\* The catch: a query failed or there was nothing to delete; the answer will not be kept.
LookupFails(r) ==
  LET x == call[r].idem IN
  /\ call[r].op \in {"lookup", "drop"}
  /\ GoOn(r, Work(x, FALSE))
  /\ unsettled' = unsettled \cup {x}
  /\ UNCHANGED <<limitVars, stored, storing, executed>>

Ran(x) == executed' = [executed EXCEPT ![x] = Append(@, now)]

\* The handler does its work and answers; the answer is stored behind its back.
Execute(r) ==
  LET q == call[r] IN
  /\ q.op = "work"
  /\ Ran(q.idem)
  /\ storing' = IF q.capture
       THEN storing \cup { [ idem |-> q.idem,
              row |-> [answer |-> Len(executed[q.idem]) + 1, expires |-> now + KeepMs] ] }
       ELSE storing
  /\ Respond(r)
  /\ UNCHANGED <<limitVars, stored, unsettled>>

\* A server error is not stored.
ExecuteFails(r) ==
  LET q == call[r] IN
  /\ q.op = "work"
  /\ Ran(q.idem)
  /\ Respond(r)
  /\ unsettled' = unsettled \cup {q.idem}
  /\ UNCHANGED <<limitVars, stored, storing>>

Store(s) ==
  /\ Running
  /\ s \in storing
  /\ stored[s.idem] = NoAnswer
  /\ stored'  = [stored EXCEPT ![s.idem] = s.row]
  /\ storing' = storing \ {s}
  /\ UNCHANGED <<limitVars, serverVars, executed, unsettled>>

\* The key is taken or the insert fails: nobody is told.
StoreFails(s) ==
  /\ Running
  /\ s \in storing
  /\ storing' = storing \ {s}
  /\ unsettled' = unsettled \cup {s.idem}
  /\ UNCHANGED <<limitVars, serverVars, stored, executed>>

\* The process ends: what nobody waits for is lost as well.
IdemProcessEnds ==
  /\ storing' = {}
  /\ unsettled' = unsettled \cup { x \in IdemKey : UnderWay(x) }
  /\ UNCHANGED <<stored, executed>>

IdemNext ==
  \/ \E r \in Slot :
       \/ \E a \in Address, x \in IdemKey : IdemArrives(r, a, x)
       \/ Lookup(r)
       \/ Drop(r)
       \/ LookupFails(r)
       \/ Execute(r)
       \/ ExecuteFails(r)
  \/ \E s \in storing : Store(s) \/ StoreFails(s)
=============================================================================
