-------------------------------- MODULE QueryCache --------------------------------
(***************************************************************************)
(* The cache of queries behind the pages, as main.tsx configures it: rows  *)
(* are fresh for a stale time, a failed request is repeated once, nothing  *)
(* is fetched because the window gets the focus. The library itself is     *)
(* external. A version counts the changes of the rows behind a key.        *)
(***************************************************************************)
EXTENDS WebScreens

CONSTANTS
  MaxVersion, \* bound: changes counted per key
  Focus       \* bound: pages, keys, actions, people and events that meet in one behaviour

Event == {"signin", "reload", "time", "error", "refresh", "switch", "wizard-form"}

VARIABLES
  focus,   \* what meets in this behaviour
  version, \* at the server: the version of the rows behind each key
  cache,   \* in the tab: the entry of each key
  owed     \* history: the version that a page owes its user for each key

cacheVars == <<focus, version, cache, owed>>

Arguments(r) ==
  IF r \in OverBusiness THEN Business
  ELSE IF r \in UnderBusiness THEN Business \cup {"default"} ELSE {Null}

\* The keys a behaviour looks at; queries do not touch one another.
KeysOf(f) == UNION {{<<r, x>> : x \in Arguments(r)} : r \in f \cap Resource}

Rows  == [by : User \cup {Null}, version : 0..MaxVersion]
Fetch == [as : User \cup {Null}, got : {"sent", "rows", "refused", "silent"},
          version : 0..MaxVersion, again : BOOLEAN]

ASSUME CacheAssumption ==
  /\ MaxVersion \in Nat \ {0}
  /\ \A f \in Focus : f \cap User # {}
  /\ Null \notin Fetch

Entry == [rows : {Null} \cup Rows, stale : BOOLEAN, failed : BOOLEAN,
          fetch : {Null} \cup Fetch, kept : BOOLEAN]

NoEntry == [rows |-> Null, stale |-> FALSE, failed |-> FALSE, fetch |-> Null, kept |-> FALSE]

CacheTypeOK ==
  /\ focus \in Focus
  /\ version \in [KeysOf(focus) -> 0..MaxVersion]
  /\ cache \in [KeysOf(focus) -> Entry]
  /\ owed \in [KeysOf(focus) -> 0..MaxVersion]

CacheInit ==
  /\ focus \in Focus
  /\ version = [k \in KeysOf(focus) |-> 0]
  /\ owed = version

-----------------------------------------------------------------------------
(* What happens to one entry.                                              *)

Sent(u, again) == [as |-> u, got |-> "sent", version |-> 0, again |-> again]

\* A request is sent with the cookie of u.
Fetching(e, u) == [e EXCEPT !.fetch = Sent(u, FALSE), !.kept = FALSE]

\* Mutant: rows that have become stale are shown again without a request.
MountedLazily(e, u) ==
  IF e.fetch = Null /\ e.rows = Null THEN Fetching(e, u) ELSE [e EXCEPT !.kept = ~e.stale]

\* A page that shows the entry opens: it is fetched unless it is fresh or on its way.
Mounted(e, u) ==
  IF e.fetch = Null /\ (e.rows = Null \/ e.stale) THEN Fetching(e, u) ELSE [e EXCEPT !.kept = TRUE]

\* invalidateQueries: a request for rows the tab has is cancelled and sent again, one
\* for rows it does not have yet goes on; an entry no page shows only becomes stale.
Invalidated(e, shown, u) ==
  IF shown /\ (e.fetch = Null \/ e.rows # Null)
  THEN Fetching([e EXCEPT !.stale = TRUE], u) ELSE [e EXCEPT !.stale = TRUE]

\* Mutant: a failed request is repeated without end.
FailedForever(e, u) == [e EXCEPT !.fetch = Sent(u, TRUE)]

\* retry: 1.
Failed(e, u) ==
  IF e.fetch.again THEN [e EXCEPT !.fetch = Null, !.failed = TRUE]
  ELSE [e EXCEPT !.fetch = Sent(u, TRUE)]

Arrived(e, k) ==
  [e EXCEPT !.rows = [by |-> RowsBelongTo(k, e.fetch.as), version |-> e.fetch.version],
            !.stale = FALSE, !.failed = FALSE, !.fetch = Null]

\* The rows behind some keys change.
Changed(keys) ==
  [k \in DOMAIN version |-> IF k \in keys /\ version[k] < MaxVersion
                            THEN version[k] + 1 ELSE version[k]]

-----------------------------------------------------------------------------
(* The server.                                                             *)

\* The complaint of a case is read with a POST that prepares it anew.
Preparing(k) == IF k[1] = "case-complaint" THEN {<<r, Null>> : r \in CaseReads} \cup {k} ELSE {}

HandleRead(k) ==
  LET f == cache[k].fetch IN
  /\ f # Null /\ f.got = "sent"
  /\ \E outcome \in ReadOutcomes(k, f.as) :
       /\ version' = IF outcome = "rows" THEN Changed(Preparing(k)) ELSE version
       /\ cache' = [cache EXCEPT ![k].fetch.got = outcome,
                                 ![k].fetch.version = IF outcome = "rows" THEN version'[k] ELSE 0]
  /\ UNCHANGED <<focus, owed>>
=============================================================================
