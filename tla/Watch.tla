-------------------------------- MODULE Watch --------------------------------
(***************************************************************************)
(* The watch command (cli.py) against the server of LongPoll: a process     *)
(* next to an agent's session that keeps a poll held, and prints a line     *)
(* when there is more than it saw before.  Reads fail, requests are         *)
(* refused, connections break, and the process is killed and started again. *)
(* A definition X_Fault is X with a plausible mistake; nothing uses it.     *)
(***************************************************************************)
EXTENDS LongPoll

CONSTANTS
    Watcher,   \* the processes that watch
    TokenOf    \* with whose token

ASSUME WatchAssumption == TokenOf \in [Watcher -> Token]

VARIABLES
    watch,   \* per watcher: what it is at, its request, seen, failures > 0
    told     \* history, per watcher: the counts and the outage its session knows of

watchVars == <<count, waiters, byToken, req, watch, told>>

Start == [at |-> "ask", q |-> {}, seen |-> Nothing, failing |-> FALSE]
Ignorant == [counts |-> Nothing, outage |-> FALSE]

At(w, place) == watch[w].at = place
\* the response of phase p to the request that w waits for
Gets(w, q, p) == At(w, "poll") /\ watch[w].q = {q} /\ req[q].phase \in p

\* the operands are swapped
Grown_Shrunk(seen, current) == {k \in Kind : current[k] < seen[k]}
Grown(seen, current) == {k \in Kind : current[k] > seen[k]}

-----------------------------------------------------------------------------
\* gather_status(wait_s=WATCH_LONGPOLL_S): the request goes out.
Asks(w) ==
    /\ At(w, "ask")
    /\ LET q == CHOOSE q \in Request : req[q].phase = "free" IN
          /\ \E free \in Request : req[free].phase = "free"
          /\ Arrive(q, TokenOf[w])
          /\ watch' = [watch EXCEPT ![w].at = "poll", ![w].q = {q}]
    /\ UNCHANGED told

\* The poll is answered.  What grew is printed, and the end of an outage; an empty poll
\* was held for its window and is asked again at once.
HearsCounts(w) ==
    \E q \in Request :
        LET current == req[q].saw  old == watch[w].seen IN
        /\ Gets(w, q, {"answer"})
        /\ Send(q)
        /\ watch' = [watch EXCEPT ![w] =
                [at |-> IF Actionable(current) THEN "pause" ELSE "ask", q |-> {},
                 seen |-> current, failing |-> FALSE]]
        /\ told' = [told EXCEPT ![w] =
                [counts |-> [k \in Kind |->
                    IF k \in Grown(old, current) \/ current[k] < @.counts[k]
                    THEN current[k] ELSE @.counts[k]],
                 outage |-> @.outage /\ ~watch[w].failing]]

\* the failure after a failure is counted from zero: failures is reset in each pass
Fails_Forgets(w) ==
    /\ watch' = [watch EXCEPT ![w].at = "pause", ![w].q = {}, ![w].failing = ~@]
    /\ told' = [told EXCEPT ![w].outage = @ \/ ~watch[w].failing]
\* ChannelUnavailable: reported when it is the first, then backed off from.
Fails(w) ==
    /\ watch' = [watch EXCEPT ![w].at = "pause", ![w].q = {}, ![w].failing = TRUE]
    /\ told' = [told EXCEPT ![w].outage = @ \/ ~watch[w].failing]

IsRefused(w) == \E q \in Request : Gets(w, q, {"refused", "broken"}) /\ Send(q) /\ Fails(w)
LosesServer(w) ==   \* the connection breaks, or the client's own timeout passes
    \E q \in Request : Gets(w, q, Holding \cup Answered) /\ HangUp(q) /\ Fails(w)
FindsNoServer(w) == At(w, "ask") /\ Fails(w) /\ UNCHANGED pollVars

Resumes(w) ==   \* from sleep
    /\ At(w, "pause")
    /\ watch' = [watch EXCEPT ![w].at = "ask"]
    /\ UNCHANGED <<pollVars, told>>

\* The process is killed, with the request it has; a new one is started in a new session.
Restarts(w) ==
    /\ IF At(w, "poll") THEN \E q \in watch[w].q : HangUp(q) ELSE UNCHANGED pollVars
    /\ watch' = [watch EXCEPT ![w] = Start]
    /\ told' = [told EXCEPT ![w] = Ignorant]

Serves(q) == Serve(q) /\ UNCHANGED <<watch, told>>

Init ==
    /\ PollInit
    /\ watch = [w \in Watcher |-> Start] /\ told = [w \in Watcher |-> Ignorant]

Hears(w) == Asks(w) \/ HearsCounts(w) \/ IsRefused(w) \/ Resumes(w)

Next ==
    \/ ChannelMoves /\ UNCHANGED <<watch, told>>
    \/ \E q \in Request : Serves(q)
    \/ \E w \in Watcher : Hears(w) \/ LosesServer(w) \/ FindsNoServer(w) \/ Restarts(w)

Spec == Init /\ [][Next]_watchVars

\* The event loop goes on with every request, a thread that reads the database returns
\* or raises, and the process that watches is scheduled.  That it finds no free request is
\* due to the bound on Request, so that it finds one now and then is enough for it to ask.
FairSpec ==
    /\ Spec
    /\ \A q \in Request : WF_watchVars(Serves(q))
    /\ \A w \in Watcher : WF_watchVars(Hears(w)) /\ SF_watchVars(Asks(w))

-----------------------------------------------------------------------------
(* Properties.                                                              *)

\* Every slot comes back, whatever the client does and whether or not the channel has
\* anything to say (the deadline, the watch for disconnects and the finally block).
SlotsComeBack ==
    \A q \in Request : q \in Held ~> q \notin Held

\* The session of a watcher has been told of all that its watcher has seen, which is what
\* the watcher will not print again; and of an outage from the first failure to the first
\* answer, and once (the edge-triggered lines of watch).
SessionKnowsWhatWasSeen ==
    \A w \in Watcher : /\ told[w].counts = watch[w].seen
                        /\ told[w].outage = watch[w].failing

\* What stays in the channel is reported to a session whose watcher gets its answers and
\* is no longer killed, however the count went up and down before (watch).
WhatStaysIsReported ==
    \A w \in Watcher, k \in Kind :
        /\ <>[](count[k] > 0 /\ ~watch[w].failing)
        /\ <>[][~Restarts(w)]_watchVars
        => []<>(told[w].counts[k] > 0)
=============================================================================
