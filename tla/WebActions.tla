-------------------------------- MODULE WebActions --------------------------------
(***************************************************************************)
(* The requests that the controls of the pages send, and what the pages do *)
(* with the answers: an accepted one refreshes (invalidates) the reads the *)
(* action names, under the business on the screen when the answer comes.   *)
(***************************************************************************)
EXTENDS WebSession

CONSTANT MaxActions \* bound: requests asked for

ASSUME ActionAssumption == MaxActions \in Nat

VARIABLES
  change, \* for each action, its request in flight; one of an action at a time
  asked

actionVars == <<change, asked>>

Idle == [by |-> Null, at |-> Null, arg |-> Null, choice |-> Null, got |-> "none", heard |-> FALSE]

ActionTypeOK ==
  /\ change \in [focus \cap ActName ->
                   [by : User \cup {Null}, at : Business \cup {Null}, arg : Business \cup {Null},
                    choice : OfferedTarget \cup User \cup {Null},
                    got : {"none", "sent", "stored", "refused", "silent"}, heard : BOOLEAN]]
  /\ asked \in 0..MaxActions

ActionInit ==
  /\ change = [a \in focus \cap ActName |-> Idle]
  /\ asked = 0

\* The tab of the complaint belongs to the page of the case, and its controls stay.
HasControl(a, p) == p = Mutation[a].on \/ (p = "complaint" /\ Mutation[a].on = "case")

\* A control is used.
Ask(a, choice) ==
  /\ HasControl(a, page) /\ Visible(page, user, biz, loading) /\ Drawn
  /\ Offered(a, user)
  /\ change[a].got = "none" \/ (change[a].got = "silent" /\ ~change[a].heard)
  /\ asked < MaxActions
  /\ asked' = asked + 1
  /\ change' = [change EXCEPT ![a] = [by |-> cookie, at |-> biz, arg |-> biz, choice |-> choice,
                                      got |-> "sent", heard |-> TRUE]]
  /\ UNCHANGED <<cacheVars, sessionVars>>

\* The server deals with it; the rows it changes are those of the business it was sent for.
HandleAction(a) ==
  LET c == change[a] IN
  /\ c.got = "sent"
  /\ \E outcome \in Outcomes(a, c.by, c.at, c.choice) :
       /\ change' = [change EXCEPT ![a].got = outcome]
       /\ version' = IF outcome = "stored"
                     THEN Changed({QueryKey(r, c.at) : r \in Mutation[a].writes}) ELSE version
  /\ UNCHANGED <<focus, cache, owed, sessionVars, asked>>

\* Whether invalidating an entry makes sure that what the page shows next is new: a first
\* load already under way goes on, and so does any request no page is waiting for.
Supersedes(e, shown) == e.fetch = Null \/ (shown /\ e.rows # Null)

\* The rows a page shows of what its action changes, except the deliveries that a test of
\* a webhook adds to its list: that button refreshes nothing.
Promised(a) ==
  IF a = "testWebhook" THEN {} ELSE Screen[Mutation[a].on].reads \cap Mutation[a].writes

\* onSuccess. After a switch of the business the other one's key is refreshed, and the page
\* owes nothing.
Acknowledged(a) ==
  LET c    == change[a]
      keys == {QueryKey(r, c.arg) : r \in Mutation[a].refreshes}
      owes == {QueryKey(r, c.at) : r \in IF c.arg = c.at THEN Promised(a) ELSE {}}
  IN /\ c.got = "stored"
     /\ change' = [change EXCEPT ![a] = Idle]
     /\ cache' = [k \in DOMAIN cache |-> IF k \in keys
                                         THEN Invalidated(cache[k], k \in Shown, cookie) ELSE cache[k]]
     /\ owed' = [k \in DOMAIN owed |-> IF k \in owes /\ Supersedes(cache[k], k \in Shown)
                                       THEN version[k] ELSE owed[k]]
     /\ UNCHANGED <<focus, version, sessionVars, asked>>

\* onError: the answer says no, or the connection fails, before or after the server acted.
Rejected(a) ==
  /\ \/ change[a].got = "refused"
     \/ change[a].got \in {"sent", "stored"} /\ "error" \in focus
  /\ change' = [change EXCEPT ![a] = Idle]
  /\ UNCHANGED <<cacheVars, sessionVars, asked>>

\* The page renders while requests are in flight: those it still waits for take the
\* business now on the screen along; those of a page that has gone keep what they had.
Followed(a) ==
  LET c == change[a] IN
  IF ~c.heard THEN c
  ELSE IF HasControl(a, page') /\ Visible(page', user', biz', loading')
       THEN [c EXCEPT !.arg = biz'] ELSE [c EXCEPT !.heard = FALSE]

ActionsFollow == change' = [a \in DOMAIN change |-> Followed(a)] /\ asked' = asked

\* Nothing that was sent waits for the server: a document is only replaced then.
ActionsServed == \A a \in DOMAIN change : change[a].got # "sent"

\* A new document knows nothing of the requests of the last one.
ActionsForgotten == change' = [a \in DOMAIN change |-> Idle] /\ asked' = asked
=============================================================================
