------------------------------- MODULE Delivery -------------------------------
(***************************************************************************)
(* Answers to one message: they are sent, some by reference to an upload,   *)
(* to one role or to several; the roles wait for them (wait_for_reply),     *)
(* list them (read_inbox), mark them read, and parties delete them.  The    *)
(* tools that write are one transaction each; a send by reference reads the *)
(* upload before its transaction, and a wait reads again and again.         *)
(* A definition X_Fault is X with a plausible mistake; nothing uses it.     *)
(***************************************************************************)
EXTENDS Uploads, FiniteSetsExt

CONSTANTS
    Reader,      \* roles that are written to
    Audience,    \* the sets of them that an answer goes to: a bound
    Marking,     \* those that mark what they are handed before they wait again; the
                 \* others pass it as after_id
    Rereading,   \* those that wait with include_read
    Inline,      \* the senders that also send text that comes with the call: a bound
    Listing,     \* those that use read_inbox: a bound
    Limit,       \* of read_inbox
    Polls,       \* of one wait, before its deadline
    MaxReply     \* bound

ASSUME DeliveryAssumption ==
    /\ Audience \subseteq SUBSET Reader /\ Marking \cup Rereading \cup Listing \subseteq Reader
    /\ {Polls, MaxReply} \subseteq Nat /\ Limit \in Nat \ {0}

VARIABLES
    draft,     \* per uploader: the text that body_or_ref returned, not yet sent
    parent,    \* the message that is answered is not deleted
    reply,     \* the answers, in id order
    read,      \* per role: read_at in deliveries
    opened,    \* per role: opened_at in deliveries
    wait,      \* per role: the wait_for_reply it is in
    last,      \* per role: the answer handed to it by its last wait; 0: none
    handed     \* history, per role: answers that its waits returned

vars == <<blob, draft, parent, reply, read, opened, wait, last, handed>>

NoDraft == [ref |-> 0, text |-> 0]
Idle    == [on |-> FALSE, after |-> 0, left |-> 0]

Live(r) == {m \in DOMAIN reply : reply[m].live /\ r \in reply[m].to}

-----------------------------------------------------------------------------
(* Sending.                                                                 *)

\* any upload will do
BodyOrRef_Unsealed(a, u) ==
    /\ draft[a] = NoDraft
    /\ draft' = [draft EXCEPT ![a] = [ref |-> u, text |-> blob[u].text]]
    /\ UNCHANGED <<blob, parent, reply, read, opened, wait, last, handed>>
\* body_or_ref: the text of a sealed upload, read before the transaction of the send
BodyOrRef(a, u) ==
    /\ draft[a] = NoDraft
    /\ blob[u].sealed
    /\ draft' = [draft EXCEPT ![a] = [ref |-> u, text |-> blob[u].text]]
    /\ UNCHANGED <<blob, parent, reply, read, opened, wait, last, handed>>

\* send_message(reply_to): the text was read, or came with the call
Send(a) ==
    /\ parent /\ Len(reply) < MaxReply
    /\ draft[a] # NoDraft \/ a \in Inline
    /\ \E to \in Audience :
          reply' = Append(reply, [to |-> to, ref |-> draft[a].ref, text |-> draft[a].text,
                                  live |-> TRUE])
    /\ draft' = [draft EXCEPT ![a] = NoDraft]
    /\ UNCHANGED <<blob, parent, read, opened, wait, last, handed>>

Delete(m) ==   \* delete_message, by a party
    /\ reply[m].live
    /\ reply' = [reply EXCEPT ![m].live = FALSE]
    /\ UNCHANGED <<blob, draft, parent, read, opened, wait, last, handed>>
DeleteParent ==
    /\ parent /\ parent' = FALSE
    /\ UNCHANGED <<blob, draft, reply, read, opened, wait, last, handed>>

-----------------------------------------------------------------------------
(* Receiving.                                                               *)

MarkRead(r, m) ==   \* by any session of the role
    /\ m \in Live(r) \ read[r]
    /\ read' = [read EXCEPT ![r] = @ \cup {m}]
    /\ UNCHANGED <<blob, draft, parent, reply, opened, wait, last, handed>>

Newest(S, n) == {m \in S : Cardinality({k \in S : k > m}) < n}

\* the row that is fetched to notice truncation is marked as well
Delivered_All(listed) == listed
\* read_inbox shows the newest of what it fetched, and mark_delivered marks those
Delivered(listed) == Newest(listed, Limit)

ReadInbox(r) ==
    \E unreadOnly \in BOOLEAN :
        LET found  == Live(r) \ (IF unreadOnly THEN read[r] ELSE {})
            listed == Newest(found, Limit + 1) IN
        /\ opened' = [opened EXCEPT ![r] = @ \cup Delivered(listed)]
        /\ UNCHANGED <<blob, draft, parent, reply, read, wait, last, handed>>

\* What a role has dealt with when it waits again.
Settled(r) ==
    r \in Marking /\ last[r] # 0 => last[r] \in read[r] \/ ~reply[last[r]].live

\* wait_for_reply is called; a deleted message is refused
WaitStarts(r) ==
    /\ parent /\ ~wait[r].on /\ Settled(r)
    /\ wait' = [wait EXCEPT ![r] =
                  [on |-> TRUE, after |-> IF r \in Marking THEN 0 ELSE last[r], left |-> Polls]]
    /\ UNCHANGED <<blob, draft, parent, reply, read, opened, last, handed>>

Candidates(r) ==
    {m \in Live(r) : m > wait[r].after /\ (r \in Rereading \/ m \notin read[r])}

\* read by anybody is read: the read_at of the message row
FindReply_AnyRead(r) ==
    LET C == {m \in Candidates(r) : \A o \in Reader : m \notin read[o]} IN
    IF C = {} THEN 0 ELSE Min(C)
\* ORDER BY id DESC
FindReply_Newest(r) == IF Candidates(r) = {} THEN 0 ELSE Max(Candidates(r))
FindReply(r) == IF Candidates(r) = {} THEN 0 ELSE Min(Candidates(r))

\* One round of _poll_until: the answer is returned, or the time is up, or it sleeps.
Poll(r) ==
    /\ wait[r].on
    /\ LET m == FindReply(r) IN
       /\ wait' = [wait EXCEPT ![r] =
                     IF m # 0 \/ @.left = 0 THEN Idle
                     ELSE [on |-> TRUE, after |-> @.after, left |-> @.left - 1]]
       /\ last' = IF m = 0 THEN last ELSE [last EXCEPT ![r] = m]
       /\ handed' = IF m = 0 THEN handed ELSE [handed EXCEPT ![r] = @ \cup {m}]
    /\ UNCHANGED <<blob, draft, parent, reply, read, opened>>

-----------------------------------------------------------------------------
None == [r \in Reader |-> {}]
Init ==
    /\ blob = <<>> /\ draft = [a \in Uploader |-> NoDraft]
    /\ parent = TRUE /\ reply = <<>>
    /\ read = None /\ opened = None /\ handed = None
    /\ wait = [r \in Reader |-> Idle] /\ last = [r \in Reader |-> 0]

Next ==
    \/ \E a \in Uploader :
          \/ Uploads(a) /\ UNCHANGED <<draft, parent, reply, read, opened, wait, last,
                                       handed>>
          \/ \E u \in DOMAIN blob : BodyOrRef(a, u)
          \/ Send(a)
    \/ DeleteParent
    \/ \E m \in DOMAIN reply : Delete(m) \/ \E r \in Reader : MarkRead(r, m)
    \/ \E r \in Listing : ReadInbox(r)
    \/ \E r \in Reader : WaitStarts(r) \/ Poll(r)

Spec == Init /\ [][Next]_vars

\* A role that waits for answers goes on doing so, and marks what it was handed if that is
\* its way; a wait goes on until it returns.
FairSpec ==
    /\ Spec
    /\ \A r \in Reader : WF_vars(WaitStarts(r)) /\ WF_vars(Poll(r))
    /\ \A r \in Marking : WF_vars(last[r] # 0 /\ MarkRead(r, last[r]))

-----------------------------------------------------------------------------
(* Properties.                                                              *)

\* A hash that was published stays that of the text, and what was sent by reference is the
\* text with that hash, through retries and calls of several sessions in between (blob_seal,
\* body_or_ref).
SealedTextIsWhatWasSent ==
    /\ \A u \in DOMAIN blob : blob[u].sealed => blob[u].hash = blob[u].text
    /\ \A m \in DOMAIN reply : reply[m].ref # 0 =>
          blob[reply[m].ref].sealed /\ reply[m].text = blob[reply[m].ref].hash

\* Fresh mail is not hidden behind older mail: a listing counts a message as opened only
\* when fewer than Limit unread ones are newer, so neither the row fetched to notice a
\* truncation nor an older one is (read_inbox, fetch_inbox, mark_delivered).
OpenedAreTheNewest ==
    [][\A r \in Reader : \A m \in opened'[r] \ opened[r] :
          Cardinality({k \in Live(r) \ read[r] : k > m}) < Limit]_vars

\* A role that waits again and again is not led past an answer: whatever is older than the
\* last one it was handed was handed to it too, or is read, or gone (find_reply).
NoReplyIsSkipped ==
    \A r \in Reader : \A m \in Live(r) : m < last[r] => m \in handed[r] \cup read[r]

\* Every answer reaches each role that it was sent to and that goes on waiting, unless the
\* role reads it otherwise, or it, or what it answers, is deleted; timeouts lose nothing,
\* and what another recipient has read is still handed over (wait_for_reply).
EveryReplyArrives ==
    \A r \in Reader, m \in 1..MaxReply :
        m \in DOMAIN reply /\ m \in Live(r)
            ~> m \in handed[r] \cup read[r] \/ m \notin Live(r) \/ ~parent
=============================================================================
