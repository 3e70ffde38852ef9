------------------------------ MODULE Relay_proof ------------------------------
(***************************************************************************)
(* Proofs about Relay, for any sets of PCs and requests, any time limit,   *)
(* and any number of restarts and of times it is set up again.             *)
(***************************************************************************)
EXTENDS Relay, TLAPS

USE BoundAssumption, NoneAssumption

\* What TypeOK needs to be inductive: a Worker is deleted only if the bound lets
\* another be set up.
TypesInv ==
    /\ TypeOK
    /\ ~deployed => setUps < MaxSetUps
    /\ ~config \/ admin = "clear" => ~deployed

LEMMA TypesInvHolds == Spec => []TypesInv
<1> USE DEF TypesInv, TypeOK, Verdict, mailbox, server, collector, bounds, Unaffected
<1>1. ASSUME Init PROVE TypesInv
  <2>1. /\ sent \in [Request -> Nat \cup {None}]
        /\ reply \in [Request -> Verdict \cup {None}]
        /\ replyAge \in [Request -> Nat]
    BY <1>1 DEF Init
  <2>2. /\ handler \in [Request -> {"none", "verifying", "waiting"}]
        /\ pal \in [Request -> {"new", "asking", "again", "failed"} \cup Verdict]
    BY <1>1 DEF Init
  <2>3. /\ allowed \subseteq Pal /\ keys \subseteq Pal /\ read \subseteq Pal
        /\ queued \subseteq Request /\ ran \subseteq Request /\ batch \subseteq Request
        /\ answers \in SUBSET (Request \X Verdict)
    BY <1>1 DEF Init
  <2>4. /\ config = TRUE /\ deployed = TRUE /\ unlocked \in BOOLEAN /\ admin = "idle"
        /\ ghost \in BOOLEAN /\ wake \in BOOLEAN
        /\ alarm \in 0..Ttl \cup {None}
        /\ pushed \in (SUBSET Pal) \cup {None}
    BY <1>1 DEF Init
  <2>5. /\ at = "idle" /\ link = "none"
        /\ setUps \in 0..MaxSetUps /\ restarts \in 0..MaxRestarts
    BY <1>1 DEF Init
  <2> QED
    BY <2>1, <2>2, <2>3, <2>4, <2>5
<1>2. TypesInv /\ [Next]_vars => TypesInv'
  <2> SUFFICES ASSUME TypesInv, [Next]_vars
               PROVE  TypesInv'
    OBVIOUS
  <2>1. ASSUME NEW r \in Request, Send(r) PROVE TypesInv'
    BY <2>1 DEF Send
  <2>2. ASSUME NEW r \in Request, Store(r) PROVE TypesInv'
    BY <2>2 DEF Store, Answer, Tell
  <2>3. ASSUME NEW r \in Request, Take(r) PROVE TypesInv'
    BY <2>3 DEF Take, Answer, Tell
  <2>4. ASSUME NEW r \in Request, NotYet(r) PROVE TypesInv'
    BY <2>4 DEF NotYet, Answer, Tell
  <2>5. ASSUME NEW r \in Request, PickUp(r) PROVE TypesInv'
    BY <2>5 DEF PickUp
  <2>6. ASSUME NEW r \in Request, GiveUp(r) PROVE TypesInv'
    BY <2>6 DEF GiveUp
  <2>7. CASE Alarm
    BY <2>7 DEF Alarm, Entries
  <2>8. CASE Tick
    BY <2>8 DEF Tick
  <2>9. CASE GhostEnds
    <3>1. ghost' \in BOOLEAN /\ queued' \subseteq Request
      BY <2>9 DEF GhostEnds
    <3>2. UNCHANGED <<allowed, server, keys, sent, reply, replyAge,
                    alarm, handler, pal, ran, collector, wake, bounds>>
      BY <2>9 DEF GhostEnds
    <3> QED
      BY <3>1, <3>2
  <2>10. CASE GetLink
    BY <2>10 DEF GetLink
  <2>11. CASE ReadKeys
    BY <2>11 DEF ReadKeys
  <2>12. CASE PutKeys
    BY <2>12 DEF PutKeys, Error
  <2>13. CASE Pull
    BY <2>13 DEF Pull, Error
  <2>14. CASE CallFails
    BY <2>14 DEF CallFails, Error
  <2>15. ASSUME NEW r \in Request, Dispatch(r) PROVE TypesInv'
    BY <2>15 DEF Dispatch
  <2>16. CASE DispatchFails
    BY <2>16 DEF DispatchFails, Error
  <2>17. CASE WorkDone
    BY <2>17 DEF WorkDone
  <2>18. CASE Reply
    BY <2>18 DEF Reply, Error
  <2>19. CASE LoopEnd
    BY <2>19 DEF LoopEnd
  <2>20. CASE Retry
    BY <2>20 DEF Retry
  <2>21. ASSUME NEW S \in SUBSET Pal, Allow(S) PROVE TypesInv'
    BY <2>21 DEF Allow
  <2>22. CASE DeleteWorker
    BY <2>22 DEF DeleteWorker, Emptied
  <2>23. CASE SetUp
    BY <2>23 DEF SetUp
  <2>24. CASE Poke
    BY <2>24 DEF Poke
  <2>25. CASE Restart
    <3>1. restarts' \in 0..MaxRestarts
      BY <2>25 DEF Restart
    <3>2. ghost' \in BOOLEAN
      BY <2>25 DEF Restart
    <3> QED
      BY <2>25, <3>1, <3>2 DEF Restart
  <2>26. CASE ClearConfig
    BY <2>26 DEF ClearConfig
  <2>27. CASE Unlock
    BY <2>27 DEF Unlock
  <2>28. CASE UNCHANGED vars
    BY <2>28 DEF vars
  <2> QED
    BY <2>1, <2>2, <2>3, <2>4, <2>5, <2>6, <2>7, <2>8, <2>9, <2>10, <2>11,
       <2>12, <2>13, <2>14, <2>15, <2>16, <2>17, <2>18, <2>19, <2>20, <2>21,
       <2>22, <2>23, <2>24, <2>25, <2>26, <2>27, <2>28
    DEF Next, PalStep, CollectorStep
<1> QED
  BY <1>1, <1>2, PTL DEF Spec

\* The variables of the Mailbox, the collector and the PCs keep their types.
THEOREM RelayTypeCorrect == Spec => []TypeOK
<1>1. TypesInv => TypeOK
  BY DEF TypesInv
<1> QED
  BY <1>1, TypesInvHolds, PTL

\* Nothing stays in the Mailbox for longer than twice Ttl: whenever there is
\* anything, the alarm is set and comes in time.
THEOREM MailboxForgetsHolds == Spec => []MailboxForgets
<1> USE DEF MailboxForgets, TypeOK, mailbox, server, collector, bounds, Unaffected
<1>1. ASSUME Init PROVE MailboxForgets
  BY <1>1 DEF Init
<1>2. TypeOK /\ MailboxForgets /\ [Next]_vars => MailboxForgets'
  <2> SUFFICES ASSUME TypeOK, MailboxForgets, [Next]_vars
               PROVE  MailboxForgets'
    OBVIOUS
  <2>1. ASSUME NEW r \in Request, Send(r) PROVE MailboxForgets'
    BY <2>1 DEF Send
  <2>2. ASSUME NEW r \in Request, Store(r) PROVE MailboxForgets'
    BY <2>2 DEF Store, Answer, Tell
  <2>3. ASSUME NEW r \in Request, Take(r) PROVE MailboxForgets'
    BY <2>3 DEF Take, Answer, Tell
  <2>4. ASSUME NEW r \in Request, NotYet(r) PROVE MailboxForgets'
    BY <2>4 DEF NotYet, Answer, Tell
  <2>5. ASSUME NEW r \in Request, PickUp(r) PROVE MailboxForgets'
    BY <2>5 DEF PickUp
  <2>6. ASSUME NEW r \in Request, GiveUp(r) PROVE MailboxForgets'
    BY <2>6 DEF GiveUp
  <2>7. CASE Alarm
    BY <2>7 DEF Alarm, Entries
  <2>8. CASE Tick
    BY <2>8 DEF Tick
  <2>9. CASE GhostEnds
    BY <2>9 DEF GhostEnds
  <2>10. CASE GetLink
    BY <2>10 DEF GetLink
  <2>11. CASE ReadKeys
    BY <2>11 DEF ReadKeys
  <2>12. CASE PutKeys
    BY <2>12 DEF PutKeys, Error
  <2>13. CASE Pull
    BY <2>13 DEF Pull, Error
  <2>14. CASE CallFails
    BY <2>14 DEF CallFails, Error
  <2>15. ASSUME NEW r \in Request, Dispatch(r) PROVE MailboxForgets'
    BY <2>15 DEF Dispatch
  <2>16. CASE DispatchFails
    BY <2>16 DEF DispatchFails, Error
  <2>17. CASE WorkDone
    BY <2>17 DEF WorkDone
  <2>18. CASE Reply
    <3>1. /\ UNCHANGED <<sent, queued, alarm>>
          /\ \A r \in Request :
                 \/ reply'[r] = reply[r] /\ replyAge'[r] = replyAge[r]
                 \/ sent[r] # None /\ replyAge'[r] = 0
      BY <2>18 DEF Reply
    <3> QED
      BY <3>1
  <2>19. CASE LoopEnd
    BY <2>19 DEF LoopEnd
  <2>20. CASE Retry
    BY <2>20 DEF Retry
  <2>21. ASSUME NEW S \in SUBSET Pal, Allow(S) PROVE MailboxForgets'
    BY <2>21 DEF Allow
  <2>22. CASE DeleteWorker
    BY <2>22 DEF DeleteWorker, Emptied
  <2>23. CASE SetUp
    BY <2>23 DEF SetUp
  <2>24. CASE Poke
    BY <2>24 DEF Poke
  <2>25. CASE Restart
    BY <2>25 DEF Restart
  <2>26. CASE ClearConfig
    BY <2>26 DEF ClearConfig
  <2>27. CASE Unlock
    BY <2>27 DEF Unlock
  <2>28. CASE UNCHANGED vars
    BY <2>28 DEF vars
  <2> QED
    BY <2>1, <2>2, <2>3, <2>4, <2>5, <2>6, <2>7, <2>8, <2>9, <2>10, <2>11,
       <2>12, <2>13, <2>14, <2>15, <2>16, <2>17, <2>18, <2>19, <2>20, <2>21,
       <2>22, <2>23, <2>24, <2>25, <2>26, <2>27, <2>28
    DEF Next, PalStep, CollectorStep
<1> QED
  BY <1>1, <1>2, RelayTypeCorrect, PTL DEF Spec

\* An error makes the collector forget what it pushed.
KeysInv == KeysKnown /\ (at = "error" => pushed = None)

LEMMA KeysInvHolds == Spec => []KeysInv
<1> USE DEF KeysInv, KeysKnown, mailbox, server, collector, bounds, Unaffected
<1>1. ASSUME Init PROVE KeysInv
  BY <1>1 DEF Init
<1>2. KeysInv /\ [Next]_vars => KeysInv'
  <2> SUFFICES ASSUME KeysInv, [Next]_vars
               PROVE  KeysInv'
    OBVIOUS
  <2>1. ASSUME NEW r \in Request, Send(r) PROVE KeysInv'
    BY <2>1 DEF Send
  <2>2. ASSUME NEW r \in Request, Store(r) PROVE KeysInv'
    BY <2>2 DEF Store, Answer, Tell
  <2>3. ASSUME NEW r \in Request, Take(r) PROVE KeysInv'
    BY <2>3 DEF Take, Answer, Tell
  <2>4. ASSUME NEW r \in Request, NotYet(r) PROVE KeysInv'
    BY <2>4 DEF NotYet, Answer, Tell
  <2>5. ASSUME NEW r \in Request, PickUp(r) PROVE KeysInv'
    BY <2>5 DEF PickUp
  <2>6. ASSUME NEW r \in Request, GiveUp(r) PROVE KeysInv'
    BY <2>6 DEF GiveUp
  <2>7. CASE Alarm
    BY <2>7 DEF Alarm, Entries
  <2>8. CASE Tick
    BY <2>8 DEF Tick
  <2>9. CASE GhostEnds
    BY <2>9 DEF GhostEnds
  <2>10. CASE GetLink
    BY <2>10 DEF GetLink
  <2>11. CASE ReadKeys
    BY <2>11 DEF ReadKeys
  <2>12. CASE PutKeys
    BY <2>12 DEF PutKeys, Error
  <2>13. CASE Pull
    BY <2>13 DEF Pull, Error
  <2>14. CASE CallFails
    BY <2>14 DEF CallFails, Error
  <2>15. ASSUME NEW r \in Request, Dispatch(r) PROVE KeysInv'
    BY <2>15 DEF Dispatch
  <2>16. CASE DispatchFails
    BY <2>16 DEF DispatchFails, Error
  <2>17. CASE WorkDone
    BY <2>17 DEF WorkDone
  <2>18. CASE Reply
    BY <2>18 DEF Reply, Error
  <2>19. CASE LoopEnd
    BY <2>19 DEF LoopEnd
  <2>20. CASE Retry
    BY <2>20 DEF Retry
  <2>21. ASSUME NEW S \in SUBSET Pal, Allow(S) PROVE KeysInv'
    BY <2>21 DEF Allow
  <2>22. CASE DeleteWorker
    BY <2>22 DEF DeleteWorker, Emptied
  <2>23. CASE SetUp
    BY <2>23 DEF SetUp
  <2>24. CASE Poke
    BY <2>24 DEF Poke
  <2>25. CASE Restart
    BY <2>25 DEF Restart
  <2>26. CASE ClearConfig
    BY <2>26 DEF ClearConfig
  <2>27. CASE Unlock
    BY <2>27 DEF Unlock
  <2>28. CASE UNCHANGED vars
    BY <2>28 DEF vars
  <2> QED
    BY <2>1, <2>2, <2>3, <2>4, <2>5, <2>6, <2>7, <2>8, <2>9, <2>10, <2>11,
       <2>12, <2>13, <2>14, <2>15, <2>16, <2>17, <2>18, <2>19, <2>20, <2>21,
       <2>22, <2>23, <2>24, <2>25, <2>26, <2>27, <2>28
    DEF Next, PalStep, CollectorStep
<1> QED
  BY <1>1, <1>2, PTL DEF Spec

\* What the collector does not push again is on the Worker, or it is about to
\* be woken, or the Worker is gone and its next call fails.
THEOREM KeysKnownHolds == Spec => []KeysKnown
<1>1. KeysInv => KeysKnown
  BY DEF KeysInv
<1> QED
  BY <1>1, KeysInvHolds, PTL

\* Each request is handed on from the PC to the Mailbox, the queue and one
\* batch, and answered after that.
LEMMA AnswersInvHolds == Spec => []AnswersInv
<1> USE DEF TypeOK, AnswersInv, Early, InHand, Told, Verdict, mailbox, server, collector, bounds, Unaffected
<1>1. ASSUME Init PROVE AnswersInv
  BY <1>1 DEF Init
<1>2. TypeOK /\ AnswersInv /\ [Next]_vars => AnswersInv'
  <2> SUFFICES ASSUME TypeOK, AnswersInv, [Next]_vars
               PROVE  AnswersInv'
    OBVIOUS
  <2>1. ASSUME NEW r \in Request, Send(r) PROVE AnswersInv'
    BY <2>1 DEF Send
  <2>2. ASSUME NEW r \in Request, Store(r) PROVE AnswersInv'
    <3>1. CASE Answer(r, "failed") /\ UNCHANGED <<sent, queued, alarm>>
      BY <2>2, <3>1 DEF Store, Answer, Tell
    <3>2. CASE queued' = queued \cup {r} /\ UNCHANGED pal
      <4>1. handler' = [handler EXCEPT ![r] = "waiting"]
        BY <2>2, <3>2 DEF Store, Answer, Tell
      <4> QED
        BY <2>2, <3>2, <4>1 DEF Store
    <3> QED
      BY <2>2, <3>1, <3>2 DEF Store
  <2>3. ASSUME NEW r \in Request, Take(r) PROVE AnswersInv'
    BY <2>3 DEF Take, Answer, Tell
  <2>4. ASSUME NEW r \in Request, NotYet(r) PROVE AnswersInv'
    BY <2>4 DEF NotYet, Answer, Tell
  <2>5. ASSUME NEW r \in Request, PickUp(r) PROVE AnswersInv'
    BY <2>5 DEF PickUp
  <2>6. ASSUME NEW r \in Request, GiveUp(r) PROVE AnswersInv'
    BY <2>6 DEF GiveUp
  <2>7. CASE Alarm
    BY <2>7 DEF Alarm, Entries
  <2>8. CASE Tick
    BY <2>8 DEF Tick
  <2>9. CASE GhostEnds
    BY <2>9 DEF GhostEnds
  <2>10. CASE GetLink
    BY <2>10 DEF GetLink
  <2>11. CASE ReadKeys
    BY <2>11 DEF ReadKeys
  <2>12. CASE PutKeys
    BY <2>12 DEF PutKeys, Error
  <2>13. CASE Pull
    BY <2>13 DEF Pull, Error
  <2>14. CASE CallFails
    BY <2>14 DEF CallFails, Error
  <2>15. ASSUME NEW r \in Request, Dispatch(r) PROVE AnswersInv'
    <3>1. /\ r \in batch /\ batch' = batch \ {r}
          /\ UNCHANGED <<pal, handler, queued, reply>>
      BY <2>15 DEF Dispatch
    <3>2. CASE UNCHANGED <<ran, answers>>
      BY <3>1, <3>2
    <3>3. CASE answers' = answers \cup {<<r, "refused">>} /\ UNCHANGED ran
      BY <3>1, <3>3
    <3>4. CASE ran' = ran \cup {r} /\ answers' = answers \cup {<<r, "ok">>}
      BY <3>1, <3>4
    <3> QED
      BY <2>15, <3>2, <3>3, <3>4 DEF Dispatch
  <2>16. CASE DispatchFails
    BY <2>16 DEF DispatchFails, Error
  <2>17. CASE WorkDone
    BY <2>17 DEF WorkDone
  <2>18. CASE Reply
    BY <2>18 DEF Reply, Error
  <2>19. CASE LoopEnd
    BY <2>19 DEF LoopEnd
  <2>20. CASE Retry
    BY <2>20 DEF Retry
  <2>21. ASSUME NEW S \in SUBSET Pal, Allow(S) PROVE AnswersInv'
    BY <2>21 DEF Allow
  <2>22. CASE DeleteWorker
    BY <2>22 DEF DeleteWorker, Emptied
  <2>23. CASE SetUp
    BY <2>23 DEF SetUp
  <2>24. CASE Poke
    BY <2>24 DEF Poke
  <2>25. CASE Restart
    BY <2>25 DEF Restart
  <2>26. CASE ClearConfig
    BY <2>26 DEF ClearConfig
  <2>27. CASE Unlock
    BY <2>27 DEF Unlock
  <2>28. CASE UNCHANGED vars
    BY <2>28 DEF vars
  <2> QED
    BY <2>1, <2>2, <2>3, <2>4, <2>5, <2>6, <2>7, <2>8, <2>9, <2>10, <2>11,
       <2>12, <2>13, <2>14, <2>15, <2>16, <2>17, <2>18, <2>19, <2>20, <2>21,
       <2>22, <2>23, <2>24, <2>25, <2>26, <2>27, <2>28
    DEF Next, PalStep, CollectorStep
<1> QED
  BY <1>1, <1>2, RelayTypeCorrect, PTL DEF Spec

\* A PC is told the truth: done, or not done.
THEOREM AnswersTrueHolds == Spec => []AnswersTrue
<1>1. AnswersInv => AnswersTrue
  BY DEF AnswersInv, Told, AnswersTrue
<1> QED
  BY <1>1, AnswersInvHolds, PTL
===============================================================================
