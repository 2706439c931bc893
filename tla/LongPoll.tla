------------------------------- MODULE LongPoll -------------------------------
(***************************************************************************)
(* GET /status?wait=N (http.py, AuthMiddleware._status): the server holds a *)
(* request until the role has something to act upon, its window ends, or    *)
(* its client hangs up.  Held requests are counted, in total and per token; *)
(* the counters are changed on the event loop, the database is read in a    *)
(* thread.  Every await is a point where other requests go on.              *)
(* A definition X_Fault is X with a plausible mistake; nothing uses it.     *)
(***************************************************************************)
EXTENDS Integers, FiniteSets

CONSTANTS
    Request,       \* requests that are being served at one time: a bound
    Token,         \* the bearer tokens in use
    Kind,          \* ACTIONABLE_COUNTS
    MaxWaiters,    \* STATUS_MAX_WAITERS
    MaxPerToken,   \* STATUS_MAX_WAITERS_PER_TOKEN
    Window,        \* how often a held request is polled before its deadline
    MaxCount       \* bound on the counts of the channel

ASSUME LongPollAssumption ==
    /\ IsFiniteSet(Request) /\ Token # {}
    /\ {MaxWaiters, MaxPerToken, Window, MaxCount} \subseteq Nat

VARIABLES
    count,     \* the counts of the role that channel_summary computes
    waiters,   \* _waiters
    byToken,   \* _waiters_by_token; 0: no entry
    req        \* the requests: where each is, whose, whether its client is gone

pollVars == <<count, waiters, byToken, req>>

Nothing == [k \in Kind |-> 0]
Counts  == [Kind -> 0..MaxCount]
AnyToken == CHOOSE t \in Token : TRUE
Free == [phase |-> "free", token |-> AnyToken, gone |-> FALSE, saw |-> Nothing, left |-> 0]

Holding  == {"reading", "deciding", "waiting"}   \* within try ... finally
Answered == {"answer", "refused", "broken"}      \* 200, 429, 500: nothing left but to send
Held == {q \in Request : req[q].phase \in Holding}
HeldBy(t) == {q \in Held : req[q].token = t}

-----------------------------------------------------------------------------
\* A request with a token comes in.  No await between the check and the increments.
Arrive(q, t) ==
    /\ req[q].phase = "free"
    /\ LET full == waiters >= MaxWaiters \/ byToken[t] >= MaxPerToken IN
       /\ req' = [req EXCEPT ![q] =
                    [phase |-> IF full THEN "refused" ELSE "reading", token |-> t,
                     gone |-> FALSE, saw |-> Nothing, left |-> Window]]
       /\ waiters' = IF full THEN waiters ELSE waiters + 1
       /\ byToken' = IF full THEN byToken ELSE [byToken EXCEPT ![t] = @ + 1]
    /\ UNCHANGED count

Release(q) ==   \* the finally block
    /\ waiters' = waiters - 1
    /\ byToken' = [byToken EXCEPT ![req[q].token] = IF @ > 1 THEN @ - 1 ELSE 0]
Keep == UNCHANGED <<waiters, byToken>>

Goes(q, phase) == req' = [req EXCEPT ![q].phase = phase]
Finishes(q, phase) ==   \* what is sent to a client that is gone is lost
    req' = IF req[q].gone THEN [req EXCEPT ![q] = Free]
           ELSE [req EXCEPT ![q].phase = phase, ![q].left = 0]

\* _read_status returns
Read(q) ==
    /\ req[q].phase = "reading"
    /\ req' = [req EXCEPT ![q].phase = "deciding", ![q].saw = count]
    /\ Keep /\ UNCHANGED count

\* the release is at the end of the try block only
Break_NoFinally(q) ==
    /\ req[q].phase \in {"reading", "waiting"}
    /\ Finishes(q, "broken")
    /\ Keep /\ UNCHANGED count
\* An exception inside the try block: the read fails, or the task is cancelled.
Break(q) ==
    /\ req[q].phase \in {"reading", "waiting"}
    /\ Finishes(q, "broken")
    /\ Release(q) /\ UNCHANGED count

Actionable(saw) == \E k \in Kind : saw[k] > 0

Decide(q) ==
    /\ req[q].phase = "deciding"
    /\ \/ /\ Actionable(req[q].saw) \/ req[q].left = 0
          /\ Finishes(q, "answer") /\ Release(q)
       \/ /\ ~Actionable(req[q].saw) /\ req[q].left > 0
          /\ Goes(q, "waiting") /\ Keep
    /\ UNCHANGED count

\* the deadline is computed anew for every poll
Wake_NewDeadline(q) ==
    /\ req[q].phase = "waiting"
    /\ \/ req[q].gone /\ req' = [req EXCEPT ![q] = Free] /\ Release(q)
       \/ /\ ~req[q].gone
          /\ req' = [req EXCEPT ![q].phase = "reading", ![q].left = Window]
          /\ Keep
    /\ UNCHANGED count
\* asyncio.wait({gone}, timeout) returns: nobody left to answer, or the next poll
Wake(q) ==
    /\ req[q].phase = "waiting"
    /\ \/ req[q].gone /\ req' = [req EXCEPT ![q] = Free] /\ Release(q)
       \/ /\ ~req[q].gone
          /\ req' = [req EXCEPT ![q].phase = "reading", ![q].left = @ - 1]
          /\ Keep
    /\ UNCHANGED count

\* The client closes the connection; the server notices in Wake, if ever.
HangUp(q) ==
    /\ req[q].phase # "free" /\ ~req[q].gone
    /\ req' = IF q \in Held THEN [req EXCEPT ![q].gone = TRUE] ELSE [req EXCEPT ![q] = Free]
    /\ Keep /\ UNCHANGED count

\* The response arrives.
Send(q) ==
    /\ req[q].phase \in Answered
    /\ req' = [req EXCEPT ![q] = Free]
    /\ Keep /\ UNCHANGED count

\* Other roles write to the channel, and the role itself deals with its mail.
ChannelMoves ==
    /\ \E k \in Kind, n \in 0..MaxCount :
          n \in {count[k] - 1, count[k] + 1} /\ count' = [count EXCEPT ![k] = n]
    /\ Keep /\ UNCHANGED req

Serve(q) == Read(q) \/ Break(q) \/ Decide(q) \/ Wake(q)

PollInit ==
    /\ count \in Counts
    /\ waiters = 0 /\ byToken = [t \in Token |-> 0]
    /\ req = [q \in Request |-> Free]

\* The server among any clients whatever.
PollNext ==
    \/ ChannelMoves
    \/ \E q \in Request : Serve(q) \/ HangUp(q) \/ Send(q) \/ \E t \in Token : Arrive(q, t)

PollSpec == PollInit /\ [][PollNext]_pollVars

-----------------------------------------------------------------------------
(* Properties.                                                              *)

PollTypeOK ==
    /\ count \in Counts
    /\ waiters \in Int
    /\ byToken \in [Token -> Nat]
    /\ req \in [Request -> [phase : {"free"} \cup Holding \cup Answered, token : Token,
                            gone : BOOLEAN, saw : Counts, left : 0..Window]]

\* The counters count the requests that are held, each under its token: a slot is taken
\* once and given back once, on every way out, so nobody is refused a slot that nobody has
\* and the limits are never passed (the counters of _status).
SlotsAreHeldRequests ==
    /\ waiters = Cardinality(Held)
    /\ \A t \in Token : byToken[t] = Cardinality(HeldBy(t))
    /\ waiters <= MaxWaiters
    /\ \A t \in Token : byToken[t] <= MaxPerToken
=============================================================================
