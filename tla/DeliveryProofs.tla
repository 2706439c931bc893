---------------------------- MODULE DeliveryProofs ----------------------------
(***************************************************************************)
(* Proofs about modules Uploads and Delivery, for any uploads, readers and  *)
(* answers: what was sent by reference is the sealed text, nobody who waits *)
(* is led past an answer, and a listing opens only the newest.              *)
(***************************************************************************)
EXTENDS Delivery, FiniteSetTheorems, WellFoundedInduction, TLAPS

Upload  == [owner : Uploader, text : Nat, sealed : BOOLEAN, hash : Nat]
Draft   == [ref : Nat, text : Nat]
Waiting == [on : BOOLEAN, after : Nat, left : Nat]
Answer  == [to : Audience, ref : Nat, text : Nat, live : BOOLEAN]

DeliveryTypeOK ==
    /\ blob \in Seq(Upload)
    /\ draft \in [Uploader -> Draft]
    /\ reply \in Seq(Answer)
    /\ read \in [Reader -> SUBSET Nat]
    /\ opened \in [Reader -> SUBSET Nat]
    /\ handed \in [Reader -> SUBSET Nat]
    /\ wait \in [Reader -> Waiting]
    /\ last \in [Reader -> Nat]

HashesAreTrue == \A u \in DOMAIN blob : blob[u].sealed => blob[u].hash = blob[u].text

\* A text that was taken from an upload is that of a sealed one, and still its text.
IsSealed(x) == x.ref # 0 => /\ x.ref \in DOMAIN blob
                            /\ blob[x.ref].sealed
                            /\ x.text = blob[x.ref].text
DraftsAreSealed  == \A a \in Uploader : IsSealed(draft[a])
AnswersAreSealed == \A m \in DOMAIN reply : IsSealed(reply[m])

\* A wait begins at most where the last one of its role ended.
WaitsFollow ==
    \A r \in Reader :
        /\ last[r] <= Len(reply)
        /\ last[r] # 0 => last[r] \in handed[r]
        /\ wait[r].on => wait[r].after <= last[r]

IInv ==
    /\ DeliveryTypeOK
    /\ HashesAreTrue /\ DraftsAreSealed /\ AnswersAreSealed
    /\ WaitsFollow /\ NoReplyIsSkipped

-----------------------------------------------------------------------------
(* The operators of the model.                                              *)

\* A set of answers that is not empty has a least one.
LEMMA LeastAnswer ==
    ASSUME NEW S \in SUBSET Nat, S # {}
    PROVE  Min(S) \in S /\ \A k \in S : Min(S) <= k
  <1>1. \E x \in S : \A y \in S : <<y, x>> \notin OpToRel(<, Nat)
    BY NatLessThanWellFounded, WFMin
  <1>2. \A x, y \in Nat : y < x => <<y, x>> \in OpToRel(<, Nat)
    BY DEF OpToRel
  <1>3. PICK x \in S : \A y \in S : ~(y < x)
    BY <1>1, <1>2
  <1>4. \A y \in S : x <= y
    BY <1>3
  <1> QED
    BY <1>3, <1>4 DEF Min

\* The answers to a role that are not deleted are finitely many ids.
LEMMA LiveIsFinite ==
    ASSUME DeliveryTypeOK, NEW r, NEW S \in SUBSET Live(r)
    PROVE  IsFiniteSet(S) /\ Cardinality(S) \in Nat /\ S \subseteq Nat
  <1>1. S \in SUBSET (1..Len(reply)) /\ Len(reply) \in Nat
    BY DEF Live, DeliveryTypeOK
  <1>2. IsFiniteSet(1..Len(reply))
    BY <1>1, FS_Interval
  <1>3. IsFiniteSet(S)
    BY <1>1, <1>2, FS_Subset
  <1> QED
    BY <1>1, <1>3, FS_CardinalityType

\* An upload that is sealed stays as it is, and every hash is that of its text.
LEMMA UploadsKeepSealed ==
    ASSUME DeliveryTypeOK, HashesAreTrue, NEW a \in Uploader, Uploads(a)
    PROVE  /\ blob' \in Seq(Upload) /\ HashesAreTrue'
           /\ \A u \in DOMAIN blob : blob[u].sealed => u \in DOMAIN blob' /\ blob'[u] = blob[u]
  <1>0. blob \in Seq(Upload)
    BY DEF DeliveryTypeOK
  <1>1. CASE StartUpload(a)
    <2> DEFINE new == [owner |-> a, text |-> 1, sealed |-> FALSE, hash |-> NoHash]
    <2>1. new \in Upload /\ ~new.sealed /\ blob' = Append(blob, new)
      BY <1>1 DEF StartUpload, Upload, NoHash
    <2> HIDE DEF new
    <2>2. blob' \in Seq(Upload) /\ DOMAIN blob' = 1..Len(blob) + 1
          /\ (\A u \in DOMAIN blob : u \in DOMAIN blob' /\ blob'[u] = blob[u])
          /\ blob'[Len(blob) + 1] = new /\ DOMAIN blob = 1..Len(blob) /\ Len(blob) \in Nat
      BY <1>0, <2>1
    <2>3. HashesAreTrue'
      BY <2>1, <2>2 DEF HashesAreTrue
    <2> QED
      BY <2>2, <2>3
  <1>2. ASSUME NEW u \in DOMAIN blob, AppendTo(a, u)
        PROVE  /\ blob' \in Seq(Upload) /\ HashesAreTrue'
               /\ \A v \in DOMAIN blob : blob[v].sealed => v \in DOMAIN blob' /\ blob'[v] = blob[v]
    <2>1. blob' = [blob EXCEPT ![u].text = @ + 1] /\ ~blob[u].sealed /\ blob[u] \in Upload
      BY <1>0, <1>2 DEF AppendTo
    <2>2. [blob[u] EXCEPT !.text = @ + 1] \in Upload
          /\ [blob[u] EXCEPT !.text = @ + 1].sealed = blob[u].sealed
      BY <2>1 DEF Upload
    <2>3. blob' \in Seq(Upload) /\ DOMAIN blob' = DOMAIN blob
      BY <1>0, <2>1, <2>2
    <2>4. (\A v \in DOMAIN blob : v # u => blob'[v] = blob[v])
          /\ blob'[u] = [blob[u] EXCEPT !.text = @ + 1]
      BY <1>0, <2>1
    <2>5. HashesAreTrue'
      BY <2>1, <2>2, <2>3, <2>4 DEF HashesAreTrue
    <2> QED
      BY <2>1, <2>3, <2>4, <2>5
  <1>3. ASSUME NEW u \in DOMAIN blob, Seal(a, u)
        PROVE  /\ blob' \in Seq(Upload) /\ HashesAreTrue'
               /\ \A v \in DOMAIN blob : blob[v].sealed => v \in DOMAIN blob' /\ blob'[v] = blob[v]
    <2>1. CASE blob[u].sealed
      BY <1>0, <1>3, <2>1 DEF Seal, HashesAreTrue
    <2>2. CASE ~blob[u].sealed
      <3> DEFINE new == [blob[u] EXCEPT !.sealed = TRUE, !.hash = blob[u].text]
      <3>0. blob[u] \in Upload
            /\ blob' = [blob EXCEPT ![u].sealed = TRUE, ![u].hash = blob[u].text]
        BY <1>0, <1>3, <2>2 DEF Seal
      <3>1. blob[u] \in Upload /\ blob' = [blob EXCEPT ![u] = new]
        BY <1>0, <3>0, Zenon
      <3>2. new \in Upload /\ new.hash = new.text
        BY <3>1 DEF Upload
      <3> HIDE DEF new
      <3>3. blob' \in Seq(Upload) /\ DOMAIN blob' = DOMAIN blob /\ blob'[u] = new
            /\ \A v \in DOMAIN blob : v # u => blob'[v] = blob[v]
        BY <1>0, <3>1, <3>2
      <3>4. HashesAreTrue'
        BY <3>2, <3>3 DEF HashesAreTrue
      <3> QED
        BY <2>2, <3>3, <3>4
    <2> QED
      BY <2>1, <2>2
  <1> QED
    BY <1>1, <1>2, <1>3 DEF Uploads

-----------------------------------------------------------------------------
(* The invariant.                                                           *)

LEMMA InitHolds == Init => IInv
  <1> SUFFICES ASSUME Init PROVE IInv
    OBVIOUS
  <1>1. DeliveryTypeOK
    BY DEF Init, DeliveryTypeOK, None, NoDraft, Idle, Draft, Waiting
  <1>2. HashesAreTrue /\ DraftsAreSealed /\ AnswersAreSealed
    BY DEF Init, HashesAreTrue, DraftsAreSealed, AnswersAreSealed, IsSealed, NoDraft
  <1>3. WaitsFollow /\ NoReplyIsSkipped
    BY DEF Init, WaitsFollow, NoReplyIsSkipped, Live, Idle
  <1> QED
    BY <1>1, <1>2, <1>3 DEF IInv

LEMMA StepKeepsTypes == DeliveryTypeOK /\ HashesAreTrue /\ [Next]_vars => DeliveryTypeOK'
  <1> SUFFICES ASSUME DeliveryTypeOK, HashesAreTrue, [Next]_vars PROVE DeliveryTypeOK'
    OBVIOUS
  <1> USE DEF DeliveryTypeOK, Waiting
  <1>1. ASSUME NEW a \in Uploader, Uploads(a),
               UNCHANGED <<draft, parent, reply, read, opened, wait, last, handed>>
        PROVE  DeliveryTypeOK'
    BY <1>1, UploadsKeepSealed
  <1>2. ASSUME NEW a \in Uploader, NEW u \in DOMAIN blob, BodyOrRef(a, u)
        PROVE  DeliveryTypeOK'
    <2>1. blob[u] \in Upload /\ u \in Nat
      OBVIOUS
    <2>2. [ref |-> u, text |-> blob[u].text] \in Draft
      BY <2>1 DEF Upload, Draft
    <2> QED
      BY <1>2, <2>2 DEF BodyOrRef
  <1>3. ASSUME NEW a \in Uploader, Send(a) PROVE DeliveryTypeOK'
    <2>1. draft[a] \in Draft
      OBVIOUS
    <2>2. PICK to \in Audience :
              reply' = Append(reply, [to |-> to, ref |-> draft[a].ref,
                                      text |-> draft[a].text, live |-> TRUE])
      BY <1>3 DEF Send
    <2>3. [to |-> to, ref |-> draft[a].ref, text |-> draft[a].text, live |-> TRUE] \in Answer
      BY <2>1 DEF Draft, Answer
    <2>4. reply' \in Seq(Answer)
      BY <2>2, <2>3
    <2>5. NoDraft \in Draft
      BY DEF NoDraft, Draft
    <2> QED
      BY <1>3, <2>4, <2>5 DEF Send
  <1>4. ASSUME NEW m \in DOMAIN reply, Delete(m) PROVE DeliveryTypeOK'
    <2>1. reply[m] \in Answer
      OBVIOUS
    <2>2. [reply[m] EXCEPT !.live = FALSE] \in Answer
      BY <2>1 DEF Answer
    <2>3. reply' \in Seq(Answer)
      BY <1>4, <2>2 DEF Delete
    <2> QED
      BY <1>4, <2>3 DEF Delete
  <1>5. ASSUME NEW r \in Reader, NEW m \in DOMAIN reply, MarkRead(r, m) PROVE DeliveryTypeOK'
    BY <1>5 DEF MarkRead
  <1>6. ASSUME NEW r \in Reader, ReadInbox(r) PROVE DeliveryTypeOK'
    <2>1. PICK u \in BOOLEAN :
              LET found == Live(r) \ (IF u THEN read[r] ELSE {}) IN
              opened' = [opened EXCEPT ![r] = @ \cup Delivered(Newest(found, Limit + 1))]
      BY <1>6 DEF ReadInbox
    <2>2. Live(r) \subseteq Nat
      BY LiveIsFinite
    <2>3. \A S : Delivered(Newest(S, Limit + 1)) \subseteq S
      BY DEF Delivered, Newest
    <2>4. opened' \in [Reader -> SUBSET Nat]
      BY <2>1, <2>2, <2>3
    <2> QED
      BY <1>6, <2>4 DEF ReadInbox
  <1>7. ASSUME NEW r \in Reader, WaitStarts(r) PROVE DeliveryTypeOK'
    <2>1. (IF r \in Marking THEN 0 ELSE last[r]) \in Nat /\ Polls \in Nat
      BY DeliveryAssumption
    <2> QED
      BY <1>7, <2>1 DEF WaitStarts
  <1>8. ASSUME NEW r \in Reader, Poll(r) PROVE DeliveryTypeOK'
    <2>1. FindReply(r) \in Nat
      <3>1. Candidates(r) \subseteq Nat
        BY LiveIsFinite DEF Candidates
      <3> QED
        BY <3>1, LeastAnswer DEF FindReply
    <2>2. last' \in [Reader -> Nat] /\ handed' \in [Reader -> SUBSET Nat]
      BY <1>8, <2>1 DEF Poll
    <2>3. wait' \in [Reader -> Waiting]
      <3>1. CASE FindReply(r) # 0 \/ wait[r].left = 0
        BY <1>8, <3>1 DEF Poll, Idle
      <3>2. CASE ~(FindReply(r) # 0 \/ wait[r].left = 0)
        BY <1>8, <3>2 DEF Poll
      <3> QED
        BY <3>1, <3>2
    <2> QED
      BY <1>8, <2>2, <2>3 DEF Poll
  <1>9. CASE DeleteParent
    BY <1>9 DEF DeleteParent
  <1>10. CASE UNCHANGED vars
    BY <1>10 DEF vars
  <1> QED
    BY <1>1, <1>2, <1>3, <1>4, <1>5, <1>6, <1>7, <1>8, <1>9, <1>10, DeliveryAssumption DEF Next

\* Nothing but the calls of an uploader touches the uploads.
LEMMA StepKeepsHashes ==
    DeliveryTypeOK /\ HashesAreTrue /\ [Next]_vars =>
        /\ HashesAreTrue'
        /\ \A u \in DOMAIN blob : blob[u].sealed => u \in DOMAIN blob' /\ blob'[u] = blob[u]
  <1> SUFFICES ASSUME DeliveryTypeOK, HashesAreTrue, [Next]_vars
               PROVE  /\ HashesAreTrue'
                      /\ \A u \in DOMAIN blob :
                            blob[u].sealed => u \in DOMAIN blob' /\ blob'[u] = blob[u]
    OBVIOUS
  <1>1. ASSUME NEW a \in Uploader, Uploads(a)
        PROVE  /\ HashesAreTrue'
               /\ \A u \in DOMAIN blob :
                     blob[u].sealed => u \in DOMAIN blob' /\ blob'[u] = blob[u]
    BY <1>1, UploadsKeepSealed
  <1>2. (\E a \in Uploader : Uploads(a)) \/ blob' = blob
    BY DEF Next, vars, BodyOrRef, Send, DeleteParent, Delete, MarkRead, ReadInbox, WaitStarts,
           Poll
  <1> QED
    BY <1>1, <1>2 DEF HashesAreTrue

\* What was sealed when it was taken stays the text of the upload.
LEMMA SealedStaysSealed ==
    ASSUME DeliveryTypeOK, HashesAreTrue, [Next]_vars, NEW x, IsSealed(x)
    PROVE  x.ref # 0 => /\ x.ref \in DOMAIN blob'
                        /\ blob'[x.ref].sealed
                        /\ x.text = blob'[x.ref].text
  BY StepKeepsHashes DEF IsSealed

LEMMA StepKeepsSealed ==
    DeliveryTypeOK /\ HashesAreTrue /\ DraftsAreSealed /\ AnswersAreSealed /\ [Next]_vars
        => DraftsAreSealed' /\ AnswersAreSealed'
  <1> SUFFICES ASSUME DeliveryTypeOK, HashesAreTrue, DraftsAreSealed, AnswersAreSealed,
                      [Next]_vars
               PROVE  DraftsAreSealed' /\ AnswersAreSealed'
    OBVIOUS
  <1> DEFINE Still(x) == x.ref # 0 => /\ x.ref \in DOMAIN blob'
                                      /\ blob'[x.ref].sealed
                                      /\ x.text = blob'[x.ref].text
  <1>1. /\ \A a \in Uploader : Still(draft[a])
        /\ \A m \in DOMAIN reply : Still(reply[m])
    BY SealedStaysSealed DEF DraftsAreSealed, AnswersAreSealed
  <1>2. Still(NoDraft)
    BY DEF NoDraft
  <1>3. draft \in [Uploader -> Draft] /\ reply \in Seq(Answer)
    BY DEF DeliveryTypeOK
  <1>4. /\ (\A a \in Uploader : Still(draft'[a])) => DraftsAreSealed'
        /\ (\A m \in DOMAIN reply' : Still(reply'[m])) => AnswersAreSealed'
    BY DEF DraftsAreSealed, AnswersAreSealed, IsSealed
  <1>5. ASSUME NEW a \in Uploader, NEW u \in DOMAIN blob, BodyOrRef(a, u)
        PROVE  DraftsAreSealed' /\ AnswersAreSealed'
    <2>1. Still([ref |-> u, text |-> blob[u].text])
      BY <1>5 DEF BodyOrRef
    <2>2. reply' = reply /\ draft' = [draft EXCEPT ![a] = [ref |-> u, text |-> blob[u].text]]
      BY <1>5 DEF BodyOrRef
    <2> HIDE DEF Still
    <2>3. \A o \in Uploader : Still(draft'[o])
      BY <1>1, <1>3, <2>1, <2>2
    <2> QED
      BY <1>1, <1>4, <2>2, <2>3
  <1>6. ASSUME NEW a \in Uploader, Send(a) PROVE DraftsAreSealed' /\ AnswersAreSealed'
    <2>1. PICK to \in Audience :
              reply' = Append(reply, [to |-> to, ref |-> draft[a].ref,
                                      text |-> draft[a].text, live |-> TRUE])
      BY <1>6 DEF Send
    <2> DEFINE new == [to |-> to, ref |-> draft[a].ref, text |-> draft[a].text, live |-> TRUE]
    <2>2. Still(new)
      BY <1>1
    <2>3. draft' = [draft EXCEPT ![a] = NoDraft]
      BY <1>6 DEF Send
    <2> HIDE DEF Still, new
    <2>4. \A o \in Uploader : Still(draft'[o])
      BY <1>1, <1>2, <1>3, <2>3
    <2>5. reply' = Append(reply, new)
      BY <2>1 DEF new
    <2>6. \A m \in DOMAIN reply' : Still(reply'[m])
      <3>1. \A m \in DOMAIN reply' : \/ m \in DOMAIN reply /\ reply'[m] = reply[m]
                                   \/ reply'[m] = new
        BY <1>3, <2>5
      <3> QED
        BY <1>1, <2>2, <3>1
    <2> QED
      BY <1>4, <2>4, <2>6
  <1>7. ASSUME NEW m \in DOMAIN reply, Delete(m) PROVE DraftsAreSealed' /\ AnswersAreSealed'
    <2>1. draft' = draft /\ reply' = [reply EXCEPT ![m].live = FALSE] /\ reply[m] \in Answer
      BY <1>3, <1>7 DEF Delete
    <2>2. [reply[m] EXCEPT !.live = FALSE].ref = reply[m].ref
          /\ [reply[m] EXCEPT !.live = FALSE].text = reply[m].text
      BY <2>1 DEF Answer
    <2>3. \A k \in DOMAIN reply' : k \in DOMAIN reply /\ reply'[k].ref = reply[k].ref
                                   /\ reply'[k].text = reply[k].text
      BY <1>3, <2>1, <2>2
    <2> QED
      BY <1>1, <1>4, <2>1, <2>3
  <1>8. CASE UNCHANGED <<draft, reply>>
    BY <1>1, <1>4, <1>8
  <1>9. \/ \E a \in Uploader : Send(a) \/ \E u \in DOMAIN blob : BodyOrRef(a, u)
        \/ \E m \in DOMAIN reply : Delete(m)
        \/ UNCHANGED <<draft, reply>>
    BY DEF Next, vars, DeleteParent, MarkRead, ReadInbox, WaitStarts, Poll
  <1> QED
    BY <1>5, <1>6, <1>7, <1>8, <1>9

-----------------------------------------------------------------------------
(* Waiting.                                                                 *)

\* The answers of a role only become more, at the end, or fewer.
LEMMA AnswersOnlyGrow ==
    ASSUME DeliveryTypeOK, [Next]_vars
    PROVE  /\ Len(reply) <= Len(reply') /\ Len(reply) \in Nat /\ Len(reply') \in Nat
           /\ \A r : \A m \in Live(r)' : m \in Live(r) \/ m = Len(reply) + 1
  <1>1. reply \in Seq(Answer)
    BY DEF DeliveryTypeOK
  <1>2. ASSUME NEW a \in Uploader, Send(a)
        PROVE  /\ Len(reply) <= Len(reply') /\ Len(reply) \in Nat /\ Len(reply') \in Nat
               /\ \A r : \A m \in Live(r)' : m \in Live(r) \/ m = Len(reply) + 1
    <2>1. PICK new : reply' = Append(reply, new)
      BY <1>2 DEF Send
    <2>2. /\ Len(reply') = Len(reply) + 1 /\ Len(reply) \in Nat /\ DOMAIN reply = 1..Len(reply)
          /\ DOMAIN reply' = 1..Len(reply) + 1
          /\ \A m \in DOMAIN reply : reply'[m] = reply[m]
      BY <1>1, <2>1
    <2> QED
      BY <2>2 DEF Live
  <1>3. ASSUME NEW d \in DOMAIN reply, Delete(d)
        PROVE  /\ Len(reply) <= Len(reply') /\ Len(reply) \in Nat /\ Len(reply') \in Nat
               /\ \A r : \A m \in Live(r)' : m \in Live(r) \/ m = Len(reply) + 1
    <2>1. reply' = [reply EXCEPT ![d].live = FALSE] /\ reply[d] \in Answer /\ reply[d].live
      BY <1>1, <1>3 DEF Delete
    <2>2. [reply[d] EXCEPT !.live = FALSE].to = reply[d].to
      BY <2>1 DEF Answer
    <2>3. Len(reply') = Len(reply) /\ Len(reply) \in Nat /\ DOMAIN reply' = DOMAIN reply
          /\ \A m \in DOMAIN reply : m # d => reply'[m] = reply[m]
      BY <1>1, <2>1
    <2>4. reply'[d].to = reply[d].to
      BY <1>1, <2>1, <2>2
    <2> QED
      BY <2>1, <2>3, <2>4 DEF Live
  <1>4. \/ \E a \in Uploader : Send(a)
        \/ \E m \in DOMAIN reply : Delete(m)
        \/ reply' = reply
    BY DEF Next, vars, BodyOrRef, DeleteParent, MarkRead, ReadInbox, WaitStarts, Poll
  <1>5. CASE reply' = reply
    BY <1>1, <1>5 DEF Live
  <1> QED
    BY <1>2, <1>3, <1>4, <1>5

LEMMA StepKeepsWaits ==
    DeliveryTypeOK /\ WaitsFollow /\ NoReplyIsSkipped /\ [Next]_vars
        => WaitsFollow' /\ NoReplyIsSkipped'
  <1> SUFFICES ASSUME DeliveryTypeOK, WaitsFollow, NoReplyIsSkipped, [Next]_vars
               PROVE  WaitsFollow' /\ NoReplyIsSkipped'
    OBVIOUS
  <1>1. /\ last \in [Reader -> Nat] /\ handed \in [Reader -> SUBSET Nat]
        /\ read \in [Reader -> SUBSET Nat] /\ wait \in [Reader -> Waiting]
    BY DEF DeliveryTypeOK
  <1>2. CASE /\ UNCHANGED <<wait, last, handed>>
             /\ \A r \in Reader : read[r] \subseteq read'[r]
    BY <1>1, <1>2, AnswersOnlyGrow DEF WaitsFollow, NoReplyIsSkipped
  <1>3. ASSUME NEW r \in Reader, WaitStarts(r) PROVE WaitsFollow' /\ NoReplyIsSkipped'
    <2>1. /\ UNCHANGED <<reply, read, last, handed>>
          /\ wait' = [wait EXCEPT ![r] = [on |-> TRUE, left |-> Polls,
                                          after |-> IF r \in Marking THEN 0 ELSE last[r]]]
      BY <1>3 DEF WaitStarts
    <2>2. \A o \in Reader : wait'[o].on => wait'[o].after <= last[o]
      BY <1>1, <2>1 DEF WaitsFollow
    <2> QED
      BY <2>1, <2>2 DEF WaitsFollow, NoReplyIsSkipped, Live
  <1>4. ASSUME NEW r \in Reader, Poll(r) PROVE WaitsFollow' /\ NoReplyIsSkipped'
    <2> DEFINE m == FindReply(r)
    <2>1. /\ UNCHANGED <<reply, read>> /\ wait[r].on
          /\ last' = IF m = 0 THEN last ELSE [last EXCEPT ![r] = m]
          /\ handed' = IF m = 0 THEN handed ELSE [handed EXCEPT ![r] = @ \cup {m}]
      BY <1>4 DEF Poll
    <2>2. /\ \A o \in Reader \ {r} : wait'[o] = wait[o]
          /\ wait'[r].on => m = 0 /\ wait'[r].after = wait[r].after
      <3>1. CASE m # 0 \/ wait[r].left = 0
        BY <1>1, <1>4, <3>1 DEF Poll, Idle
      <3>2. CASE ~(m # 0 \/ wait[r].left = 0)
        BY <1>1, <1>4, <3>2 DEF Poll
      <3> QED
        BY <3>1, <3>2
    <2>3. CASE m = 0
      BY <2>1, <2>2, <2>3 DEF WaitsFollow, NoReplyIsSkipped, Live
    <2>4. CASE m # 0
      <3>1. Live(r) \subseteq Nat /\ Candidates(r) \subseteq Live(r)
        BY LiveIsFinite DEF Candidates
      <3>2. m \in Candidates(r) /\ \A k \in Candidates(r) : m <= k
        BY <2>4, <3>1, LeastAnswer DEF FindReply
      <3>3. m \in Nat /\ m <= Len(reply) /\ m > wait[r].after
        BY <3>1, <3>2 DEF Candidates, Live
      <3> HIDE DEF m
      <3>4. /\ last'[r] = m /\ handed'[r] = handed[r] \cup {m}
            /\ \A o \in Reader \ {r} : last'[o] = last[o] /\ handed'[o] = handed[o]
        BY <1>1, <2>1, <2>4
      <3>5. WaitsFollow'
        BY <2>1, <2>2, <2>4, <3>3, <3>4 DEF WaitsFollow
      <3>6. \A k \in Live(r) : k < m => k \in handed'[r] \cup read[r]
        <4> SUFFICES ASSUME NEW k \in Live(r), k < m PROVE k \in handed'[r] \cup read[r]
          OBVIOUS
        <4>1. k \in Nat /\ k > 0
          BY DEF Live, DeliveryTypeOK
        <4>2. k \notin Candidates(r)
          BY <3>2, <3>3, <4>1
        <4>3. CASE k \in read[r]
          BY <4>3
        <4>4. CASE k <= wait[r].after
          <5>1. k <= last[r] /\ last[r] \in Nat
            BY <1>1, <2>1, <4>1, <4>4 DEF WaitsFollow, Waiting
          <5> QED
            BY <3>4, <4>1, <5>1 DEF WaitsFollow, NoReplyIsSkipped
        <4>5. wait[r].after \in Nat
          BY <1>1 DEF Waiting
        <4> QED
          BY <4>1, <4>2, <4>3, <4>4, <4>5 DEF Candidates
      <3>7. NoReplyIsSkipped'
        <4>1. \A o : Live(o)' = Live(o)
          BY <2>1 DEF Live
        <4> QED
          BY <2>1, <3>4, <3>6, <4>1 DEF NoReplyIsSkipped
      <3> QED
        BY <3>5, <3>7
    <2> QED
      BY <2>3, <2>4
  <1>5. \A r \in Reader, m \in DOMAIN reply : MarkRead(r, m) =>
            /\ UNCHANGED <<wait, last, handed>>
            /\ \A o \in Reader : read[o] \subseteq read'[o]
    BY <1>1 DEF MarkRead
  <1>6. \/ \E r \in Reader : WaitStarts(r) \/ Poll(r)
        \/ \E r \in Reader, m \in DOMAIN reply : MarkRead(r, m)
        \/ UNCHANGED <<wait, last, handed, read>>
    BY DEF Next, vars, BodyOrRef, Send, Delete, DeleteParent, ReadInbox
  <1> QED
    BY <1>2, <1>3, <1>4, <1>5, <1>6

-----------------------------------------------------------------------------
(* Theorems.                                                                *)

LEMMA InvariantHolds == Spec => []IInv
  <1>1. IInv /\ [Next]_vars => IInv'
    BY StepKeepsTypes, StepKeepsHashes, StepKeepsSealed, StepKeepsWaits DEF IInv
  <1> QED
    BY <1>1, InitHolds, PTL DEF Spec

\* Whatever was typed, sealed, sent, read and waited for, the tables have their types
\* (content_blobs, deliveries).
THEOREM TypeCorrect == Spec => []DeliveryTypeOK
  <1>1. IInv => DeliveryTypeOK
    BY DEF IInv
  <1> QED
    BY <1>1, InvariantHolds, PTL

\* A published hash is that of the text, and what was sent by reference is the text with
\* that hash (blob_seal, body_or_ref).
THEOREM WhatWasSentIsSealed == Spec => []SealedTextIsWhatWasSent
  <1>1. IInv => SealedTextIsWhatWasSent
    BY DEF IInv, SealedTextIsWhatWasSent, HashesAreTrue, AnswersAreSealed, IsSealed
  <1> QED
    BY <1>1, InvariantHolds, PTL

\* However a role gets past what it was handed, its next wait passes over nothing that is
\* neither read nor handed to it (find_reply).
THEOREM WaitsSkipNothing == Spec => []NoReplyIsSkipped
  <1>1. IInv => NoReplyIsSkipped
    BY DEF IInv
  <1> QED
    BY <1>1, InvariantHolds, PTL

\* Of a listing, what it marks as opened is what it shows, the newest of what it found
\* (fetch_inbox, mark_delivered).
LEMMA ListingOpensTheNewest ==
    ASSUME DeliveryTypeOK, NEW r \in Reader, NEW found \in SUBSET Live(r),
           NEW m \in Delivered(Newest(found, Limit + 1))
    PROVE  Cardinality({k \in found : k > m}) < Limit
  <1> DEFINE listed == Newest(found, Limit + 1)
             Above(S, n) == {k \in S : k > n}
  <1>1. m \in listed /\ m \in found /\ Cardinality(Above(listed, m)) < Limit
    BY DEF Delivered, Newest
  <1>2. found \subseteq Nat /\ Limit \in Nat
    BY LiveIsFinite, DeliveryAssumption
  <1>3. \A n : IsFiniteSet(Above(found, n)) /\ Cardinality(Above(found, n)) \in Nat
    BY LiveIsFinite
  <1>4. Cardinality(Above(found, m)) < Limit + 1
    BY <1>1 DEF Newest
  <1>5. ASSUME NEW k \in Above(found, m) PROVE k \in listed
    <2>0. k \in Nat /\ m \in Nat /\ k > m /\ k \in found
      BY <1>1, <1>2, <1>5
    <2>1. Above(found, k) \subseteq Above(found, m)
      <3>1. ASSUME NEW x \in found, x > k PROVE x > m
        <4>1. x \in Nat
          BY <1>2
        <4> QED
          BY <2>0, <3>1, <4>1
      <3> QED
        BY <3>1
    <2>2. Cardinality(Above(found, k)) <= Cardinality(Above(found, m))
      BY <1>3, <2>1, FS_Subset
    <2>3. Cardinality(Above(found, k)) \in Nat /\ Cardinality(Above(found, m)) \in Nat
      BY <1>3
    <2> HIDE DEF Above
    <2>4. Cardinality(Above(found, k)) < Limit + 1
      BY <1>2, <1>4, <2>2, <2>3
    <2> QED
      BY <2>0, <2>4 DEF Newest, Above
  <1>6. Above(found, m) = Above(listed, m)
    BY <1>5 DEF Newest
  <1> QED
    BY <1>1, <1>6

\* Fresh mail is not hidden behind older mail: what becomes opened has fewer than Limit
\* unread answers above it (read_inbox).
THEOREM ListingsOpenTheNewest == Spec => OpenedAreTheNewest
  <1> DEFINE Opens == \A r \in Reader : \A m \in opened'[r] \ opened[r] :
                          Cardinality({k \in Live(r) \ read[r] : k > m}) < Limit
  <1>1. ASSUME IInv, [Next]_vars PROVE Opens
    <2>1. ASSUME NEW r \in Reader, ReadInbox(r) PROVE Opens
      <3>1. DeliveryTypeOK /\ opened \in [Reader -> SUBSET Nat]
        BY <1>1 DEF IInv, DeliveryTypeOK
      <3>2. PICK u \in BOOLEAN :
                LET found == Live(r) \ (IF u THEN read[r] ELSE {}) IN
                opened' = [opened EXCEPT ![r] = @ \cup Delivered(Newest(found, Limit + 1))]
        BY <2>1 DEF ReadInbox
      <3> DEFINE found == Live(r) \ (IF u THEN read[r] ELSE {})
                 Unread(m) == {k \in Live(r) \ read[r] : k > m}
      <3>3. ASSUME NEW m \in Delivered(Newest(found, Limit + 1))
            PROVE  Cardinality(Unread(m)) < Limit
        <4>1. Cardinality({k \in found : k > m}) < Limit
          BY <3>1, <3>3, ListingOpensTheNewest
        <4>2. Unread(m) \subseteq {k \in found : k > m}
          OBVIOUS
        <4>3. {k \in found : k > m} \subseteq Live(r) /\ Unread(m) \subseteq Live(r)
          OBVIOUS
        <4>4. Cardinality(Unread(m)) <= Cardinality({k \in found : k > m})
          BY <3>1, <4>2, <4>3, LiveIsFinite, FS_Subset
        <4>5. Cardinality(Unread(m)) \in Nat /\ Cardinality({k \in found : k > m}) \in Nat
          BY <3>1, <4>3, LiveIsFinite
        <4> QED
          BY <4>1, <4>4, <4>5, DeliveryAssumption
      <3> HIDE DEF Unread, found
      <3>4. \A o \in Reader : \A m \in opened'[o] \ opened[o] :
                o = r /\ m \in Delivered(Newest(found, Limit + 1))
        BY <3>1, <3>2 DEF found
      <3> QED
        BY <3>3, <3>4 DEF Unread
    <2>2. CASE opened' = opened
      BY <2>2
    <2>3. (\E r \in Reader : ReadInbox(r)) \/ opened' = opened
      BY <1>1, DeliveryAssumption DEF Next, vars, BodyOrRef, Send, Delete, DeleteParent, MarkRead,
                                      WaitStarts, Poll
    <2> QED
      BY <2>1, <2>2, <2>3
  <1> QED
    BY <1>1, InvariantHolds, PTL DEF Spec, OpenedAreTheNewest
=============================================================================
