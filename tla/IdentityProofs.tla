--------------------------- MODULE IdentityProofs ---------------------------
(***************************************************************************)
(* What the auth server's tables promise under concurrent handlers, for    *)
(* any number of them and any number of rows.                              *)
(***************************************************************************)
EXTENDS MCIdentity, FiniteSetTheorems, SequenceTheorems, NaturalsInduction, WellFoundedInduction,
        TLAPS

-----------------------------------------------------------------------------
(* Passkeys.  A ceremony in the hands of a finish call, or completed, has  *)
(* its challenge gone; a counter value that has passed the UPDATE is not   *)
(* above the one on file, so the next one to pass it is new.               *)

FinishRecord ==
  [at : {"find", "counter", "session"}, cred : Credentials, says : 0 .. MaxCount,
   challenge : Challenges]
SessionRecord ==
  [by : Finishes, cred : Credentials, says : 0 .. MaxCount, challenge : Challenges]
ChallengeRecord ==
  [state : {"open", "gone"}, kind : {"auth", "discover", "register"},
   allowed : SUBSET Credentials, user : PasskeyOwners]

PasskeyShape ==
  /\ challenge \in [Challenges -> {NoChallenge} \cup ChallengeRecord]
  /\ stored \in [Credentials -> {Never, Deleted} \cup (0 .. MaxCount)]
  /\ counter \in [Credentials -> [Copies -> 0 .. MaxCount]]
  /\ finish \in [Finishes -> {Idle, FinishOver} \cup FinishRecord]
  /\ opened \subseteq SessionRecord

(* The finish call f is in the middle of a ceremony. *)
UnderWay(f) == finish[f].at \in {"find", "counter", "session"}

(* A challenge is in one pair of hands and is gone from the table. *)
ChallengeHeldOnce ==
  /\ \A f \in Finishes : UnderWay(f) => challenge[finish[f].challenge].state = "gone"
  /\ \A a \in opened : challenge[a.challenge].state = "gone"
  /\ \A f, g \in Finishes :
       UnderWay(f) /\ UnderWay(g) /\ finish[f].challenge = finish[g].challenge => f = g
  /\ \A f \in Finishes, a \in opened : UnderWay(f) => finish[f].challenge # a.challenge
  /\ ChallengeOpensOneSession

(* f has raised the counter on file and has not created its session yet. *)
Raised(f) == UnderWay(f) /\ finish[f].at = "session" /\ finish[f].says > 0

CounterHeldOnce ==
  /\ \A f \in Finishes : Raised(f) =>
       stored[finish[f].cred] = Deleted \/ finish[f].says <= stored[finish[f].cred]
  /\ \A a \in opened : a.says > 0 => stored[a.cred] = Deleted \/ a.says <= stored[a.cred]
  /\ \A f, g \in Finishes :
       Raised(f) /\ Raised(g) /\ finish[f].cred = finish[g].cred
         /\ finish[f].says = finish[g].says => f = g
  /\ \A f \in Finishes, a \in opened :
       Raised(f) /\ finish[f].cred = a.cred => finish[f].says # a.says
  /\ CounterUsedOnce

PasskeyInv == PasskeyShape /\ ChallengeHeldOnce /\ CounterHeldOnce

(* No ceremony is under way initially. *)
LEMMA PasskeyInitInv == PasskeyInit => PasskeyInv
  <1> SUFFICES ASSUME PasskeyInit PROVE PasskeyInv
    OBVIOUS
  <1>1. PasskeyShape
    BY PasskeyAssumption DEF PasskeyInit, PasskeyShape
  <1>2. \A f \in Finishes : ~UnderWay(f)
    BY DEF PasskeyInit, UnderWay, Idle
  <1>3. ChallengeHeldOnce /\ CounterHeldOnce
    BY <1>2 DEF PasskeyInit, ChallengeHeldOnce, CounterHeldOnce, ChallengeOpensOneSession,
       CounterUsedOnce, Raised
  <1> QED
    BY <1>1, <1>3 DEF PasskeyInv

(* The session that a finish call creates is its own ceremony's. *)
LEMMA SessionOfCeremony ==
  ASSUME NEW f \in Finishes, FinishSession(f)
  PROVE  \A a \in opened' :
           \/ a \in opened
           \/ /\ a.by = f /\ a.cred = finish[f].cred /\ a.says = finish[f].says
              /\ a.challenge = finish[f].challenge
  <1> DEFINE new == [by |-> f, cred |-> finish[f].cred, says |-> finish[f].says,
                     challenge |-> finish[f].challenge]
  <1>1. \A a \in opened' : a \in opened \/ a = new
    BY DEF FinishSession
  <1>2. /\ new.by = f /\ new.cred = finish[f].cred /\ new.says = finish[f].says
        /\ new.challenge = finish[f].challenge
    OBVIOUS
  <1> QED
    BY <1>1, <1>2

(* A challenge that is taken from the table is gone, and no other changes. *)
LEMMA ChallengeTaken ==
  ASSUME PasskeyShape, NEW ch \in Challenges, ConsumeChallenge(ch)
  PROVE  /\ challenge' \in [Challenges -> {NoChallenge} \cup ChallengeRecord]
         /\ challenge[ch].state = "open" /\ challenge'[ch].state = "gone"
         /\ \A c \in Challenges : c # ch => challenge'[c] = challenge[c]
  <1> USE DEF NoChallenge
  <1>1. challenge[ch] \in ChallengeRecord /\ challenge[ch].state = "open"
    BY DEF ConsumeChallenge, PasskeyShape
  <1>2. challenge' = [challenge EXCEPT ![ch] = [challenge[ch] EXCEPT !.state = "gone"]]
    BY DEF ConsumeChallenge
  <1>3. /\ [challenge[ch] EXCEPT !.state = "gone"] \in ChallengeRecord
        /\ [challenge[ch] EXCEPT !.state = "gone"].state = "gone"
    BY <1>1 DEF ChallengeRecord
  <1> QED
    BY <1>1, <1>2, <1>3 DEF PasskeyShape

(* Shapes: every step keeps the fields of rows and calls in their sets. *)
LEMMA PasskeyStepShape == PasskeyShape /\ [PasskeyNext]_passkeyVars => PasskeyShape'
  <1> SUFFICES ASSUME PasskeyShape, [PasskeyNext]_passkeyVars PROVE PasskeyShape'
    OBVIOUS
  <1> USE PasskeyAssumption DEF PasskeyShape, ChallengeRecord, FinishRecord, SessionRecord,
        NoChallenge, Never, Deleted, Idle, FinishOver
  <1>1. ASSUME NEW ch \in Challenges, NEW u \in PasskeyOwners,
               AuthStart(ch, u) \/ DiscoverStart(ch, u) \/ RegisterStart(ch, u)
        PROVE  PasskeyShape'
    BY SMTT(30), <1>1 DEF AuthStart, DiscoverStart, RegisterStart, PersistChallenge, OnFile
  <1>2. ASSUME NEW ch \in Challenges, NEW k \in Credentials, NEW u \in PasskeyOwners,
               RegisterFinish(ch, k, u)
        PROVE  PasskeyShape'
    <2>1. challenge' \in [Challenges -> {NoChallenge} \cup ChallengeRecord]
      BY <1>2, ChallengeTaken DEF RegisterFinish
    <2> QED
      BY SMTT(30), <1>2, <2>1 DEF RegisterFinish
  <1>3. ASSUME NEW ch \in Challenges, ChallengeExpires(ch)
        PROVE  PasskeyShape'
    <2>1. challenge' \in [Challenges -> {NoChallenge} \cup ChallengeRecord]
      BY <1>3, ChallengeTaken DEF ChallengeExpires, ConsumeChallenge
    <2> QED
      BY <1>3, <2>1 DEF ChallengeExpires
  <1>4. ASSUME NEW f \in Finishes, NEW ch \in Challenges, NEW k \in Credentials,
               NEW i \in Copies, NEW kind \in {"auth", "discover"},
               FinishConsume(f, ch, k, i, kind)
        PROVE  PasskeyShape'
    <2>1. challenge' \in [Challenges -> {NoChallenge} \cup ChallengeRecord]
      BY <1>4, ChallengeTaken DEF FinishConsume
    <2>2. Says(k, i) \in 0 .. MaxCount
      BY <1>4 DEF FinishConsume, PresentAssertion, Says
    <2>3. finish' \in [Finishes -> {Idle, FinishOver} \cup FinishRecord]
      BY <1>4, <2>2 DEF FinishConsume
    <2>4. counter' \in [Credentials -> [Copies -> 0 .. MaxCount]]
      <3>1. CASE k \in Counting
        <4>1. counter' = [counter EXCEPT ![k] = [counter[k] EXCEPT ![i] = counter[k][i] + 1]]
          BY <1>4, <3>1 DEF FinishConsume, PresentAssertion
        <4>2. counter[k][i] + 1 \in 0 .. MaxCount
          BY <2>2, <3>1 DEF Says
        <4> QED
          BY <4>1, <4>2
      <3>2. CASE k \notin Counting
        BY <1>4, <3>2 DEF FinishConsume, PresentAssertion
      <3> QED
        BY <3>1, <3>2
    <2> QED
      BY <1>4, <2>1, <2>3, <2>4 DEF FinishConsume
  <1>5. ASSUME NEW f \in Finishes, FinishFind(f)
        PROVE  PasskeyShape'
    <2>1. finish[f] \in FinishRecord
      BY <1>5 DEF FinishFind
    <2>2. \A a \in {"counter", "session"} : [finish[f] EXCEPT !.at = a] \in FinishRecord
      BY <2>1
    <2> QED
      BY <1>5, <2>2 DEF FinishFind
  <1>6. ASSUME NEW f \in Finishes, FinishCounter(f)
        PROVE  PasskeyShape'
    <2>1. finish[f] \in FinishRecord
      BY <1>6 DEF FinishCounter
    <2>2. [finish[f] EXCEPT !.at = "session"] \in FinishRecord
      BY <2>1
    <2>3. finish' \in [Finishes -> {Idle, FinishOver} \cup FinishRecord]
      BY <1>6, <2>2 DEF FinishCounter
    <2>4. stored' \in [Credentials -> {Never, Deleted} \cup (0 .. MaxCount)]
      BY <1>6, <2>1 DEF FinishCounter
    <2> QED
      BY <1>6, <2>3, <2>4 DEF FinishCounter
  <1>7. ASSUME NEW f \in Finishes, FinishSession(f)
        PROVE  PasskeyShape'
    BY <1>7 DEF FinishSession
  <1>8. ASSUME NEW k \in Credentials, DeletePasskey(k)
        PROVE  PasskeyShape'
    BY <1>8 DEF DeletePasskey
  <1>9. CASE UNCHANGED passkeyVars
    BY <1>9 DEF passkeyVars
  <1> QED
    BY <1>1, <1>2, <1>3, <1>4, <1>5, <1>6, <1>7, <1>8, <1>9 DEF PasskeyNext

(* What the fields of a ceremony in hand, and of a completed one, can be. *)
LEMMA PasskeyFields ==
  ASSUME PasskeyShape
  PROVE  /\ \A f \in Finishes : UnderWay(f) =>
              /\ finish[f].challenge \in Challenges /\ finish[f].cred \in Credentials
              /\ finish[f].says \in 0 .. MaxCount
         /\ \A a \in opened :
              /\ a.challenge \in Challenges /\ a.cred \in Credentials
              /\ a.says \in 0 .. MaxCount
  BY DEF PasskeyShape, UnderWay, FinishRecord, SessionRecord, Idle, FinishOver

(* A ceremony in hand, or completed, keeps its challenge out of the table. *)
LEMMA PasskeyStepChallenge ==
  PasskeyShape /\ ChallengeHeldOnce /\ [PasskeyNext]_passkeyVars => ChallengeHeldOnce'
  <1> SUFFICES ASSUME PasskeyShape, ChallengeHeldOnce, [PasskeyNext]_passkeyVars
               PROVE  ChallengeHeldOnce'
    OBVIOUS
  <1> USE DEF ChallengeHeldOnce, ChallengeOpensOneSession
  <1>1. ASSUME UNCHANGED <<finish, opened>>,
               \A c \in Challenges : challenge[c].state = "gone" => challenge'[c].state = "gone"
        PROVE  ChallengeHeldOnce'
    BY <1>1, PasskeyFields DEF UnderWay
  <1>2. ASSUME NEW ch \in Challenges, ConsumeChallenge(ch)
        PROVE  \A c \in Challenges : challenge[c].state = "gone" => challenge'[c].state = "gone"
    BY <1>2, ChallengeTaken
  <1>3. ASSUME NEW ch \in Challenges, NEW u \in PasskeyOwners,
               AuthStart(ch, u) \/ DiscoverStart(ch, u) \/ RegisterStart(ch, u)
        PROVE  ChallengeHeldOnce'
    BY <1>1, <1>3 DEF AuthStart, DiscoverStart, RegisterStart, PersistChallenge, NoChallenge,
       PasskeyShape
  <1>4. ASSUME NEW ch \in Challenges, NEW k \in Credentials, NEW u \in PasskeyOwners,
               RegisterFinish(ch, k, u)
        PROVE  ChallengeHeldOnce'
    BY <1>1, <1>2, <1>4 DEF RegisterFinish
  <1>5. ASSUME NEW ch \in Challenges, ChallengeExpires(ch)
        PROVE  ChallengeHeldOnce'
    BY <1>1, <1>2, <1>5 DEF ChallengeExpires, ConsumeChallenge
  <1>6. ASSUME NEW f \in Finishes, NEW ch \in Challenges, NEW k \in Credentials,
               NEW i \in Copies, NEW kind \in {"auth", "discover"},
               FinishConsume(f, ch, k, i, kind)
        PROVE  ChallengeHeldOnce'
    <2>1. /\ challenge[ch].state = "open" /\ challenge'[ch].state = "gone"
          /\ \A c \in Challenges : challenge[c].state = "gone" => challenge'[c].state = "gone"
      BY <1>2, <1>6, ChallengeTaken DEF FinishConsume
    <2>2. /\ opened' = opened
          /\ \A g \in Finishes : g # f =>
               UnderWay(g)' = UnderWay(g) /\ finish'[g].challenge = finish[g].challenge
          /\ UnderWay(f)' => finish'[f].challenge = ch
      BY <1>6 DEF FinishConsume, PasskeyShape, UnderWay, FinishOver
    <2> QED
      BY <2>1, <2>2, PasskeyFields
  <1>7. ASSUME NEW f \in Finishes, FinishFind(f) \/ FinishCounter(f)
        PROVE  ChallengeHeldOnce'
    <2>1. /\ opened' = opened /\ challenge' = challenge
          /\ UnderWay(f)
      BY <1>7 DEF FinishFind, FinishCounter, UnderWay
    <2>2. \A g \in Finishes : UnderWay(g)' => UnderWay(g) /\ finish'[g].challenge = finish[g].challenge
      <3>1. \A g \in Finishes : g # f => finish'[g] = finish[g]
        BY <1>7 DEF FinishFind, FinishCounter, PasskeyShape
      <3>2. finish'[f] = FinishOver
            \/ \E at1 \in {"counter", "session"} : finish'[f] = [finish[f] EXCEPT !.at = at1]
        BY <1>7 DEF FinishFind, FinishCounter, PasskeyShape
      <3>3. finish[f] \in FinishRecord
        BY <2>1 DEF PasskeyShape, UnderWay, Idle, FinishOver
      <3>4. UnderWay(f)' => finish'[f].challenge = finish[f].challenge
        BY <3>2, <3>3 DEF FinishRecord, UnderWay, FinishOver
      <3> QED
        BY <2>1, <3>1, <3>4 DEF UnderWay
    <2> QED
      BY <2>1, <2>2
  <1>8. ASSUME NEW f \in Finishes, FinishSession(f)
        PROVE  ChallengeHeldOnce'
    <2>1. /\ challenge' = challenge /\ UnderWay(f) /\ ~UnderWay(f)'
          /\ \A g \in Finishes : g # f =>
               UnderWay(g)' = UnderWay(g) /\ finish'[g].challenge = finish[g].challenge
      BY <1>8 DEF FinishSession, PasskeyShape, UnderWay, FinishOver
    <2>2. \A a \in opened' : a \in opened \/ (a.challenge = finish[f].challenge /\ a.by = f)
      BY <1>8, SessionOfCeremony
    <2> QED
      BY <2>1, <2>2
  <1>9. ASSUME NEW k \in Credentials, DeletePasskey(k)
        PROVE  ChallengeHeldOnce'
    BY <1>1, <1>9 DEF DeletePasskey
  <1>10. CASE UNCHANGED passkeyVars
    BY <1>1, <1>10 DEF passkeyVars
  <1> QED
    BY <1>3, <1>4, <1>5, <1>6, <1>7, <1>8, <1>9, <1>10 DEF PasskeyNext

(* The counter on file never goes down while the credential is there, and  *)
(* is at least every value that was let through.                           *)
LEMMA PasskeyStepCounter ==
  PasskeyShape /\ CounterHeldOnce /\ [PasskeyNext]_passkeyVars => CounterHeldOnce'
  <1> SUFFICES ASSUME PasskeyShape, CounterHeldOnce, [PasskeyNext]_passkeyVars
               PROVE  CounterHeldOnce'
    OBVIOUS
  <1> USE DEF CounterHeldOnce, CounterUsedOnce
  <1>1. ASSUME UNCHANGED <<opened, stored>>,
               \A g \in Finishes : Raised(g)' =>
                 Raised(g) /\ finish'[g].cred = finish[g].cred /\ finish'[g].says = finish[g].says
        PROVE  CounterHeldOnce'
    BY <1>1
  <1>2. ASSUME UNCHANGED <<finish, opened>>,
               \A k \in Credentials : stored'[k] \in {stored[k], Deleted} \/ stored[k] = Never
        PROVE  CounterHeldOnce'
    <2>1. \A g \in Finishes : Raised(g)' = Raised(g)
      BY <1>2 DEF Raised, UnderWay
    <2>2. \A g \in Finishes : Raised(g) => UnderWay(g) /\ finish[g].says > 0
      BY DEF Raised
    <2>3. \A k \in Credentials, n \in 0 .. MaxCount :
            n > 0 /\ (stored[k] = Deleted \/ n <= stored[k])
              => stored'[k] = Deleted \/ n <= stored'[k]
      BY <1>2, PasskeyAssumption DEF Never, Deleted
    <2> QED
      BY <1>2, <2>1, <2>2, <2>3, PasskeyFields
  <1>3. ASSUME NEW ch \in Challenges, NEW u \in PasskeyOwners,
               AuthStart(ch, u) \/ DiscoverStart(ch, u) \/ RegisterStart(ch, u)
        PROVE  CounterHeldOnce'
    BY <1>2, <1>3 DEF AuthStart, DiscoverStart, RegisterStart, PersistChallenge
  <1>4. ASSUME NEW ch \in Challenges, NEW k \in Credentials, NEW u \in PasskeyOwners,
               RegisterFinish(ch, k, u)
        PROVE  CounterHeldOnce'
    BY <1>2, <1>4 DEF RegisterFinish, PasskeyShape
  <1>5. ASSUME NEW ch \in Challenges, ChallengeExpires(ch)
        PROVE  CounterHeldOnce'
    BY <1>2, <1>5 DEF ChallengeExpires
  <1>6. ASSUME NEW f \in Finishes, NEW ch \in Challenges, NEW k \in Credentials,
               NEW i \in Copies, NEW kind \in {"auth", "discover"},
               FinishConsume(f, ch, k, i, kind)
        PROVE  CounterHeldOnce'
    <2>1. UNCHANGED <<opened, stored>> /\ ~Raised(f)'
          /\ \A g \in Finishes : g # f => finish'[g] = finish[g]
      BY <1>6 DEF FinishConsume, PasskeyShape, Raised, FinishOver
    <2> QED
      BY <1>1, <2>1 DEF Raised, UnderWay
  <1>7. ASSUME NEW f \in Finishes, FinishFind(f)
        PROVE  CounterHeldOnce'
    <2>1. UNCHANGED <<opened, stored>> /\ \A g \in Finishes : g # f => finish'[g] = finish[g]
      BY <1>7 DEF FinishFind, PasskeyShape
    <2>2. ~Raised(f)'
      <3>1. finish[f] \in FinishRecord
        BY <1>7 DEF FinishFind, PasskeyShape, Idle, FinishOver
      <3>2. finish'[f] = FinishOver
            \/ finish'[f] = [finish[f] EXCEPT !.at = IF finish[f].says > 0 THEN "counter" ELSE "session"]
        BY <1>7 DEF FinishFind, PasskeyShape
      <3> QED
        BY <3>1, <3>2 DEF FinishRecord, Raised, FinishOver
    <2> QED
      BY <1>1, <2>1, <2>2 DEF Raised, UnderWay
  <1>8. ASSUME NEW f \in Finishes, FinishCounter(f)
        PROVE  CounterHeldOnce'
    <2>0. /\ finish[f] \in FinishRecord /\ UnderWay(f) /\ ~Raised(f) /\ opened' = opened
          /\ \A g \in Finishes : g # f => finish'[g] = finish[g]
      BY <1>8 DEF FinishCounter, PasskeyShape, Idle, FinishOver, UnderWay, Raised
    <2>1. \A g \in Finishes : g # f => Raised(g)' = Raised(g)
      BY <2>0 DEF Raised, UnderWay
    <2>2. CASE Raises(finish[f].cred, finish[f].says)
      <3>1. finish'[f] = [finish[f] EXCEPT !.at = "session"]
        BY <1>8, <2>2 DEF FinishCounter, PasskeyShape
      <3>2. finish'[f].cred = finish[f].cred /\ finish'[f].says = finish[f].says
        BY <2>0, <3>1 DEF FinishRecord
      <3>3. /\ stored[finish[f].cred] >= 0 /\ stored[finish[f].cred] < finish[f].says
            /\ stored'[finish[f].cred] = finish[f].says
            /\ \A k \in Credentials : k # finish[f].cred => stored'[k] = stored[k]
        BY <1>8, <2>0, <2>2 DEF FinishCounter, Raises, Stored, PasskeyShape, FinishRecord
      <3>4. stored[finish[f].cred] # Deleted /\ stored[finish[f].cred] \in Nat
        BY <2>0, <3>3, PasskeyAssumption DEF PasskeyShape, FinishRecord, Deleted, Never
      <3>5. \A g \in Finishes : Raised(g) => UnderWay(g) /\ finish[g].says > 0
        BY DEF Raised
      <3>6. \A g \in Finishes : Raised(g) => finish[g].says \in Nat /\ finish[g].cred \in Credentials
        BY <3>5, PasskeyFields, PasskeyAssumption
      <3>7. \A a \in opened : a.says \in Nat /\ a.cred \in Credentials
        BY PasskeyFields, PasskeyAssumption
      <3>8. finish[f].says \in Nat /\ finish[f].cred \in Credentials
        BY <2>0, PasskeyFields, PasskeyAssumption
      <3>9. \A g \in Finishes : Raised(g) /\ finish[g].cred = finish[f].cred
                => finish[g].says < finish[f].says
        BY <3>3, <3>4, <3>6, <3>8
      <3>10. \A a \in opened : a.says > 0 /\ a.cred = finish[f].cred => a.says < finish[f].says
        BY <3>3, <3>4, <3>7, <3>8
      <3>11. \A a \in opened : a.cred = finish[f].cred => a.says # finish[f].says
        BY <3>3, <3>4, <3>7, <3>8, <3>10
      <3>12. /\ \A g \in Finishes : Raised(g)' =>
                  stored'[finish'[g].cred] = Deleted \/ finish'[g].says <= stored'[finish'[g].cred]
             /\ \A a \in opened : a.says > 0 => stored'[a.cred] = Deleted \/ a.says <= stored'[a.cred]
        BY <2>0, <2>1, <3>2, <3>3, <3>6, <3>7, <3>8, <3>9, <3>10
      <3> QED
        BY <2>0, <2>1, <3>2, <3>6, <3>7, <3>8, <3>9, <3>11, <3>12
    <2>3. CASE ~Raises(finish[f].cred, finish[f].says)
      <3>1. UNCHANGED stored /\ ~Raised(f)'
        BY <1>8, <2>3 DEF FinishCounter, PasskeyShape, Raised, FinishOver
      <3> QED
        BY <1>1, <2>0, <2>1, <3>1
    <2> QED
      BY <2>2, <2>3
  <1>9. ASSUME NEW f \in Finishes, FinishSession(f)
        PROVE  CounterHeldOnce'
    <2>1. /\ stored' = stored /\ ~Raised(f)'
          /\ \A g \in Finishes : g # f => finish'[g] = finish[g]
      BY <1>9 DEF FinishSession, PasskeyShape, Raised, UnderWay, FinishOver
    <2>2. UnderWay(f) /\ (finish[f].says > 0 => Raised(f))
      BY <1>9 DEF FinishSession, Raised, UnderWay
    <2>3. \A g \in Finishes : g # f => Raised(g)' = Raised(g)
      BY <2>1 DEF Raised, UnderWay
    <2>4. \A a \in opened' : a \in opened
               \/ (a.cred = finish[f].cred /\ a.says = finish[f].says /\ a.by = f)
      BY <1>9, SessionOfCeremony
    <2>5. \A g \in Finishes : Raised(g) => finish[g].says > 0
      BY DEF Raised
    <2> QED
      BY <2>1, <2>2, <2>3, <2>4, <2>5
  <1>10. ASSUME NEW k \in Credentials, DeletePasskey(k)
        PROVE  CounterHeldOnce'
    BY <1>2, <1>10 DEF DeletePasskey, PasskeyShape
  <1>11. CASE UNCHANGED passkeyVars
    BY <1>2, <1>11 DEF passkeyVars
  <1> QED
    BY <1>3, <1>4, <1>5, <1>6, <1>7, <1>8, <1>9, <1>10, <1>11 DEF PasskeyNext

(* Every statement of the two ceremonies keeps their invariant. *)
LEMMA PasskeyStepInv == PasskeyInv /\ [PasskeyNext]_passkeyVars => PasskeyInv'
  BY PasskeyStepShape, PasskeyStepChallenge, PasskeyStepCounter DEF PasskeyInv

-----------------------------------------------------------------------------
(* Device grants.  A token request in progress holds the user of the first *)
(* decision, whether the row is still there or not.                        *)

PollRecord == [at : {"issue", "consume"}, of : Grants, user : SUBSET Approvers]
WordRecord == [approved : BOOLEAN, by : SUBSET Approvers]

DeviceShape ==
  /\ grant \in [Grants -> GrantRecord \cup {NoGrant}]
  /\ polling \in [Polls -> {Resting} \cup PollRecord]
  /\ time \in 0 .. MaxTime /\ lost \in Nat
  /\ tokensFor \in [Grants -> [Approvers -> Nat]]
  /\ firstWord \in [Grants -> WordRecord]

(* The token request p has read the grant g. *)
Holds(p, g) == polling[p].at \in {"issue", "consume"} /\ polling[p].of = g

(* us is the one user who approved g first. *)
ApprovedBy(g, us) == firstWord[g].approved /\ firstWord[g].by = us /\ \E u \in Approvers : us = {u}

DecisionKept ==
  /\ \A g \in Grants :
       /\ grant[g].status = "pending" => firstWord[g] = Undecided
       /\ grant[g].status = "approved" => ApprovedBy(g, grant[g].user)
  /\ \A g \in Grants, p \in Polls : Holds(p, g) => ApprovedBy(g, polling[p].user)
  /\ FirstDecisionStands

DeviceInv == DeviceShape /\ DecisionKept

(* There are no grants and no polls initially. *)
LEMMA DeviceInitInv == DeviceInit => DeviceInv
  <1> SUFFICES ASSUME DeviceInit PROVE DeviceInv
    OBVIOUS
  <1> USE DeviceAssumption DEF DeviceInit
  <1>1. DeviceShape
    BY DEF DeviceShape, WordRecord, Undecided
  <1>2. \A g \in Grants : TokensOf(g) = {}
    BY DEF TokensOf
  <1>3. DecisionKept
    BY <1>2 DEF DecisionKept, FirstDecisionStands, NoGrant, Resting, Holds
  <1> QED
    BY <1>1, <1>3 DEF DeviceInv

(* Every step of the device grant keeps the shape of its tables. *)
LEMMA DeviceStepShape == DeviceShape /\ [DeviceNext]_deviceVars => DeviceShape'
  <1> SUFFICES ASSUME DeviceShape, [DeviceNext]_deviceVars PROVE DeviceShape'
    OBVIOUS
  <1> USE DeviceAssumption DEF DeviceShape, GrantRecord, PollRecord, WordRecord, NoGrant, Resting,
        Undecided
  <1>1. ASSUME NEW g \in Grants, DeviceAuthorization(g)
        PROVE  DeviceShape'
    BY <1>1 DEF DeviceAuthorization
  <1>2. ASSUME NEW u \in Approvers, NEW g \in Grants, NEW approve \in BOOLEAN,
               Decide(u, g, approve)
        PROVE  DeviceShape'
    <2>1. grant[g] \in GrantRecord
      BY <1>2 DEF Decide
    <2>2. grant' = [grant EXCEPT ![g] =
            [[grant[g] EXCEPT !.status = IF approve THEN "approved" ELSE "denied"] EXCEPT !.user = {u}]]
      BY <1>2 DEF Decide
    <2>3. [[grant[g] EXCEPT !.status = IF approve THEN "approved" ELSE "denied"] EXCEPT !.user = {u}]
            \in GrantRecord
      BY <2>1
    <2> QED
      BY <1>2, <2>2, <2>3 DEF Decide
  <1>3. ASSUME NEW p \in Polls, NEW g \in Grants, Poll(p, g)
        PROVE  DeviceShape'
    <2>1. grant[g] \in GrantRecord
      BY <1>3 DEF Poll
    <2>2. [[grant[g] EXCEPT !.polled = time] EXCEPT !.everPolled = TRUE] \in GrantRecord
      BY <2>1
    <2>3. CASE PollPending(g)
      <3>1. grant' = [grant EXCEPT ![g] = [[grant[g] EXCEPT !.polled = time] EXCEPT !.everPolled = TRUE]]
        BY <2>3 DEF PollPending
      <3> QED
        BY <1>3, <2>2, <2>3, <3>1 DEF Poll, PollPending
    <2>4. CASE PollApproved(p, g)
      BY <1>3, <2>1, <2>4 DEF Poll, PollApproved
    <2> QED
      BY <1>3, <2>3, <2>4 DEF Poll
  <1>4. ASSUME NEW p \in Polls, IssueDeviceToken(p)
        PROVE  DeviceShape'
    <2>1. polling[p] \in PollRecord
      BY <1>4 DEF IssueDeviceToken
    <2>2. [polling[p] EXCEPT !.at = "consume"] \in PollRecord
      BY <2>1
    <2>3. PICK u \in polling[p].user :
            tokensFor' = [tokensFor EXCEPT ![polling[p].of][u] = @ + 1]
      BY <1>4 DEF IssueDeviceToken
    <2>4. tokensFor' \in [Grants -> [Approvers -> Nat]]
      BY <2>1, <2>3
    <2> QED
      BY <1>4, <2>2, <2>4 DEF IssueDeviceToken
  <1>5. ASSUME NEW p \in Polls, ConsumeGrant(p) \/ ConsumeLost(p)
        PROVE  DeviceShape'
    <2>1. CASE ConsumeGrant(p)
      BY <2>1 DEF ConsumeGrant
    <2>2. CASE ConsumeLost(p)
      BY <2>2 DEF ConsumeLost
    <2> QED
      BY <1>5, <2>1, <2>2
  <1>6. CASE DeleteExpiredGrants
    BY <1>6 DEF DeleteExpiredGrants
  <1>7. CASE DeviceTick
    BY <1>7 DEF DeviceTick
  <1>8. CASE UNCHANGED deviceVars
    BY <1>8 DEF deviceVars
  <1> QED
    BY <1>1, <1>2, <1>3, <1>4, <1>5, <1>6, <1>7, <1>8 DEF DeviceNext, DeviceTokenGrant

(* What the rows and the requests in progress know of the decision stays   *)
(* true when they only lose knowledge.                                     *)
LEMMA DecisionFrame ==
  ASSUME DecisionKept, UNCHANGED <<firstWord, tokensFor>>,
         \A g \in Grants : grant'[g].status = "pending" => firstWord[g] = Undecided,
         \A g \in Grants : grant'[g].status = "approved" => ApprovedBy(g, grant'[g].user),
         \A g \in Grants, p \in Polls : Holds(p, g)' => ApprovedBy(g, polling'[p].user)
  PROVE  DecisionKept'
  <1>2. FirstDecisionStands'
    BY DEF DecisionKept, FirstDecisionStands, TokensOf
  <1>3. \A g \in Grants : ApprovedBy(g, grant[g].user)' <=> ApprovedBy(g, grant'[g].user)
    BY DEF ApprovedBy
  <1>4. \A g \in Grants, p \in Polls :
          ApprovedBy(g, polling[p].user)' <=> ApprovedBy(g, polling'[p].user)
    BY DEF ApprovedBy
  <1> QED
    BY <1>2, <1>3, <1>4 DEF DecisionKept, Undecided

(* A grant keeps its first decision: the statement that decides asks for   *)
(* an undecided one.                                                       *)
LEMMA DeviceStepDecision ==
  DeviceShape /\ DecisionKept /\ [DeviceNext]_deviceVars => DecisionKept'
  <1> SUFFICES ASSUME DeviceShape, DecisionKept, [DeviceNext]_deviceVars
               PROVE  DecisionKept'
    OBVIOUS
  <1>0. /\ \A g \in Grants :
             /\ grant[g].status = "pending" => firstWord[g] = Undecided
             /\ grant[g].status = "approved" => ApprovedBy(g, grant[g].user)
        /\ \A g \in Grants, p \in Polls : Holds(p, g) => ApprovedBy(g, polling[p].user)
    BY DEF DecisionKept
  <1>1. ASSUME NEW g \in Grants, DeviceAuthorization(g)
        PROVE  DecisionKept'
    <2>1. /\ UNCHANGED <<polling, firstWord, tokensFor>>
          /\ grant'[g].status = "pending" /\ firstWord[g] = Undecided
          /\ \A h \in Grants : h # g => grant'[h] = grant[h]
      BY <1>1 DEF DeviceAuthorization, DeviceShape
    <2> QED
      BY <1>0, <2>1, DecisionFrame DEF Holds
  <1>2. ASSUME NEW u \in Approvers, NEW g \in Grants, NEW approve \in BOOLEAN,
               Decide(u, g, approve)
        PROVE  DecisionKept'
    <2>1. /\ UNCHANGED <<polling, tokensFor>>
          /\ grant[g].status = "pending" /\ grant[g] \in GrantRecord
          /\ \A h \in Grants : h # g => grant'[h] = grant[h] /\ firstWord'[h] = firstWord[h]
      BY <1>2 DEF Decide, DeviceShape
    <2>2. firstWord[g] = Undecided
      BY <1>0, <2>1
    <2>3. firstWord'[g] = [approved |-> approve, by |-> {u}]
      BY <1>2, <2>2 DEF Decide, DeviceShape
    <2>4. grant'[g] =
            [[grant[g] EXCEPT !.status = IF approve THEN "approved" ELSE "denied"] EXCEPT !.user = {u}]
      BY <1>2 DEF Decide, DeviceShape
    <2>5. /\ grant'[g].status = IF approve THEN "approved" ELSE "denied"
          /\ grant'[g].user = {u}
      BY <2>1, <2>4 DEF GrantRecord
    <2>6. \A p \in Polls : ~Holds(p, g) /\ ~Holds(p, g)'
      BY <1>0, <2>1, <2>2 DEF ApprovedBy, Undecided, Holds
    <2>7. TokensOf(g) = {}
      BY <2>2 DEF DecisionKept, FirstDecisionStands, Undecided
    <2>8. \A h \in Grants : TokensOf(h)' = TokensOf(h)
      BY <2>1 DEF TokensOf
    <2>9. FirstDecisionStands'
      BY <2>1, <2>7, <2>8 DEF DecisionKept, FirstDecisionStands
    <2>10. \A h \in Grants :
             /\ (grant[h].status = "pending" => firstWord[h] = Undecided)'
             /\ (grant[h].status = "approved" => ApprovedBy(h, grant[h].user))'
      <3> SUFFICES ASSUME NEW h \in Grants
                   PROVE  /\ (grant[h].status = "pending" => firstWord[h] = Undecided)'
                          /\ (grant[h].status = "approved" => ApprovedBy(h, grant[h].user))'
        OBVIOUS
      <3>1. CASE h = g
        BY <2>3, <2>5, <3>1 DEF ApprovedBy
      <3>2. CASE h # g
        BY <1>0, <2>1, <3>2 DEF ApprovedBy, Undecided
      <3> QED
        BY <3>1, <3>2
    <2>11. \A h \in Grants, p \in Polls : (Holds(p, h) => ApprovedBy(h, polling[p].user))'
      BY <1>0, <2>1, <2>6 DEF Holds, ApprovedBy
    <2> QED
      BY <2>9, <2>10, <2>11 DEF DecisionKept
  <1>3. ASSUME NEW p \in Polls, NEW g \in Grants, Poll(p, g)
        PROVE  DecisionKept'
    <2>1. UNCHANGED <<firstWord, tokensFor>> /\ grant[g] \in GrantRecord
      BY <1>3 DEF Poll, DeviceShape
    <2>2. CASE PollPending(g)
      <3>1. grant'[g] = [[grant[g] EXCEPT !.polled = time] EXCEPT !.everPolled = TRUE]
        BY <2>2 DEF PollPending, DeviceShape
      <3>2. grant'[g].status = grant[g].status /\ grant'[g].user = grant[g].user
        BY <2>1, <3>1 DEF GrantRecord
      <3>3. UNCHANGED polling /\ \A h \in Grants : h # g => grant'[h] = grant[h]
        BY <2>2 DEF PollPending, DeviceShape
      <3> QED
        BY <1>0, <2>1, <3>2, <3>3, DecisionFrame DEF Holds
    <2>3. CASE PollApproved(p, g)
      <3>1. /\ UNCHANGED grant /\ grant[g].status = "approved"
            /\ polling'[p] = [at |-> "issue", of |-> g, user |-> grant[g].user]
            /\ \A q \in Polls : q # p => polling'[q] = polling[q]
        BY <2>3 DEF PollApproved, DeviceShape
      <3>2. polling'[p].of = g /\ polling'[p].user = grant[g].user
        BY <3>1
      <3> QED
        BY <1>0, <2>1, <3>1, <3>2, DecisionFrame DEF Holds
    <2> QED
      BY <1>3, <2>2, <2>3 DEF Poll
  <1>4. ASSUME NEW p \in Polls, IssueDeviceToken(p)
        PROVE  DecisionKept'
    <2>1. /\ UNCHANGED <<grant, firstWord>> /\ polling[p] \in PollRecord /\ polling[p].at = "issue"
          /\ polling'[p] = [polling[p] EXCEPT !.at = "consume"]
          /\ \A q \in Polls : q # p => polling'[q] = polling[q]
      BY <1>4 DEF IssueDeviceToken, DeviceShape, Resting
    <2>2. PICK g \in Grants :
            /\ polling[p].of = g /\ Holds(p, g)
            /\ polling'[p].of = g /\ polling'[p].user = polling[p].user
      BY <2>1 DEF PollRecord, Holds
    <2>3. PICK u \in polling[p].user : tokensFor' = [tokensFor EXCEPT ![g][u] = @ + 1]
      BY <1>4, <2>2 DEF IssueDeviceToken
    <2>4. firstWord[g].approved /\ firstWord[g].by = {u} /\ u \in Approvers
      BY <1>0, <2>2, <2>3 DEF ApprovedBy
    <2>5. \A h \in Grants : h # g => TokensOf(h)' = TokensOf(h)
      BY <2>2, <2>3 DEF TokensOf, DeviceShape
    <2>6. TokensOf(g)' = TokensOf(g) \cup {u}
      <3>1. tokensFor'[g][u] = tokensFor[g][u] + 1 /\ tokensFor[g][u] \in Nat
        BY <2>2, <2>3, <2>4 DEF DeviceShape
      <3>2. \A v \in Approvers : v # u => tokensFor'[g][v] = tokensFor[g][v]
        BY <2>2, <2>3, <2>4 DEF DeviceShape
      <3> QED
        BY <2>4, <3>1, <3>2 DEF TokensOf
    <2>7. TokensOf(g) = {} \/ TokensOf(g) = {u}
      BY <2>2, <2>4 DEF DecisionKept, FirstDecisionStands
    <2>8. FirstDecisionStands'
      BY <2>1, <2>2, <2>4, <2>5, <2>6, <2>7 DEF DecisionKept, FirstDecisionStands
    <2>9. \A h \in Grants, q \in Polls : (Holds(q, h) => ApprovedBy(h, polling[q].user))'
      <3>1. \A h \in Grants : Holds(p, h)' => h = g
        BY <2>2 DEF Holds
      <3>2. ApprovedBy(g, polling[p].user)'
        BY <1>0, <2>1, <2>2 DEF ApprovedBy
      <3>3. \A h \in Grants, q \in Polls : q # p => (Holds(q, h) => ApprovedBy(h, polling[q].user))'
        BY <1>0, <2>1 DEF Holds, ApprovedBy
      <3> QED
        BY <3>1, <3>2, <3>3
    <2>10. \A h \in Grants :
             /\ (grant[h].status = "pending" => firstWord[h] = Undecided)'
             /\ (grant[h].status = "approved" => ApprovedBy(h, grant[h].user))'
      BY <1>0, <2>1 DEF ApprovedBy, Undecided
    <2> QED
      BY <2>8, <2>9, <2>10 DEF DecisionKept
  <1>5. ASSUME NEW p \in Polls, ConsumeGrant(p) \/ ConsumeLost(p)
        PROVE  DecisionKept'
    <2>1. /\ UNCHANGED <<firstWord, tokensFor>>
          /\ \A h \in Grants : grant'[h] \in {grant[h], NoGrant}
          /\ \A q \in Polls : polling'[q] \in {polling[q], Resting}
      BY <1>5 DEF ConsumeGrant, ConsumeLost, DeviceShape
    <2> QED
      BY <1>0, <2>1, DecisionFrame DEF Holds, NoGrant, Resting
  <1>6. CASE DeleteExpiredGrants
    <2>1. /\ UNCHANGED <<firstWord, tokensFor, polling>>
          /\ \A h \in Grants : grant'[h] \in {grant[h], NoGrant}
      BY <1>6 DEF DeleteExpiredGrants
    <2> QED
      BY <1>0, <2>1, DecisionFrame DEF Holds, NoGrant
  <1>7. CASE UNCHANGED <<grant, polling, tokensFor, firstWord>>
    BY <1>0, <1>7, DecisionFrame DEF Holds
  <1> QED
    BY <1>1, <1>2, <1>3, <1>4, <1>5, <1>6, <1>7
       DEF DeviceNext, DeviceTokenGrant, DeviceTick, deviceVars

(* Every step of the device grant keeps its invariant. *)
LEMMA DeviceStepInv == DeviceInv /\ [DeviceNext]_deviceVars => DeviceInv'
  BY DeviceStepShape, DeviceStepDecision DEF DeviceInv

-----------------------------------------------------------------------------
(* Logins.  A call that holds a ticket has consumed it.  As long as the    *)
(* logins of a subject do not overlap, at most one call is about it, and   *)
(* the identity is written before a session is created.                    *)

Placed == {"link", "tenants", "create tenant", "role", "risk", "session", "member", "unlink"}
Stages == Placed \cup {"subject", "email", "upsert"}
Tickets == Flows \cup Links \cup {NoOne}

CallRecord ==
  [at : Stages, ticket : Tickets, subject : Subjects \cup {NoOne}, email : Emails,
   verified : BOOLEAN, user : Emails \cup {NoOne}]
TenantRecord ==
  [owner : Emails, slug : {LocalPart[e] : e \in Emails}, role : {"OWNER", "MEMBER", "GUEST"}]
SignedRecord ==
  [by : Calls, user : Emails, ticket : Tickets, subject : Subjects \cup {NoOne}]

LoginShape ==
  /\ identity \in [Subjects -> Emails \cup {NoOne}]
  /\ tenant \in [Calls -> {NoTenant} \cup TenantRecord]
  /\ ticket \in [Flows \cup Links -> {"none", "open", "consumed"}]
  /\ call \in [Calls -> {Unused, Done} \cup CallRecord]
  /\ signedIn \subseteq SignedRecord

(* What a call knows at its stage: who it is about, whose login it is, and *)
(* the tenant it has created.                                              *)
StagesKnown ==
  \A c \in Calls :
    /\ call[c].at \in Placed => call[c].user \in Emails
    /\ call[c].at \in {"subject", "link"} => call[c].subject \in Subjects
    /\ call[c].at = "role" => tenant[c] \in TenantRecord

(* The call c moves to another stage, perhaps with another user, and       *)
(* nothing else of it changes; the other calls stay where they are.        *)
MovesTo(c, a, u) ==
  /\ call[c] \in CallRecord /\ call'[c] \in CallRecord
  /\ call'[c].at = a /\ call'[c].user = u
  /\ call'[c].ticket = call[c].ticket /\ call'[c].subject = call[c].subject
  /\ call'[c].email = call[c].email
  /\ \A d \in Calls : d # c => call'[d] = call[d]
  /\ call' \in [Calls -> {Unused, Done} \cup CallRecord]

(* A call at a stage holds a record. *)
LEMMA AtStage ==
  ASSUME LoginShape, NEW c \in Calls
  PROVE  /\ call[c].at \in Stages => call[c] \in CallRecord
         /\ c \in Busy => call[c] \in CallRecord
         /\ call[c] \in CallRecord => c \in Busy /\ call[c].at \in Stages
  <1>1. call[c] = Unused \/ call[c] = Done \/ call[c] \in CallRecord
    BY DEF LoginShape
  <1>2. Unused.at \notin Stages /\ Done.at \notin Stages
    BY DEF Unused, Done, Stages, Placed
  <1>3. call[c] \in CallRecord => call[c].at \in Stages
    BY DEF CallRecord
  <1> QED
    BY <1>1, <1>2, <1>3 DEF Busy

(* Go moves one call to the next stage and leaves its user. *)
LEMMA GoMoves ==
  ASSUME LoginShape, NEW c \in Calls, NEW a \in Stages, call[c] \in CallRecord, Go(c, a)
  PROVE  MovesTo(c, a, call[c].user)
  <1>1. call' = [call EXCEPT ![c] = [call[c] EXCEPT !.at = a]]
    BY DEF Go
  <1> DEFINE r == [call[c] EXCEPT !.at = a]
  <1>2. /\ r \in CallRecord /\ r.at = a /\ r.user = call[c].user /\ r.ticket = call[c].ticket
        /\ r.subject = call[c].subject /\ r.email = call[c].email
    BY DEF CallRecord
  <1> HIDE DEF r
  <1>3. call'[c] = r /\ (\A d \in Calls : d # c => call'[d] = call[d])
        /\ call' \in [Calls -> {Unused, Done} \cup CallRecord]
    BY <1>1, <1>2 DEF LoginShape, r
  <1> QED
    BY <1>2, <1>3 DEF MovesTo

(* As moves one call to the next stage with the user it found. *)
LEMMA AsMoves ==
  ASSUME LoginShape, NEW c \in Calls, NEW a \in Stages, NEW e \in Emails, call[c] \in CallRecord,
         As(c, e, a)
  PROVE  MovesTo(c, a, e)
  <1>1. call' = [call EXCEPT ![c] = [[call[c] EXCEPT !.user = e] EXCEPT !.at = a]]
    BY DEF As
  <1> DEFINE r == [[call[c] EXCEPT !.user = e] EXCEPT !.at = a]
  <1>2. /\ r \in CallRecord /\ r.at = a /\ r.user = e /\ r.ticket = call[c].ticket
        /\ r.subject = call[c].subject /\ r.email = call[c].email
    BY DEF CallRecord
  <1> HIDE DEF r
  <1>3. call'[c] = r /\ (\A d \in Calls : d # c => call'[d] = call[d])
        /\ call' \in [Calls -> {Unused, Done} \cup CallRecord]
    BY <1>1, <1>2 DEF LoginShape, r
  <1> QED
    BY <1>2, <1>3 DEF MovesTo

(* The call c is over. *)
EndsCall(c) ==
  /\ call'[c] = Done /\ \A d \in Calls : d # c => call'[d] = call[d]
  /\ call' \in [Calls -> {Unused, Done} \cup CallRecord]

(* A failed call is over. *)
LEMMA FailEnds ==
  ASSUME LoginShape, NEW c \in Calls, Fail(c)
  PROVE  EndsCall(c)
  BY DEF LoginShape, Fail, EndsCall

(* The call c begins. *)
Begins(c, a, t, s, u) ==
  /\ call[c] = Unused /\ call'[c] \in CallRecord
  /\ call'[c].at = a /\ call'[c].ticket = t /\ call'[c].subject = s /\ call'[c].user = u
  /\ \A d \in Calls : d # c => call'[d] = call[d]
  /\ call' \in [Calls -> {Unused, Done} \cup CallRecord]

(* A new call begins with what its ticket and the identity provider gave   *)
(* it.                                                                     *)
LEMMA NewCallBegins ==
  ASSUME LoginShape, NEW c \in Calls, NEW a \in Stages, NEW t \in Tickets,
         NEW s \in Subjects \cup {NoOne}, NEW e \in Emails, NEW v \in BOOLEAN,
         NEW u \in Emails \cup {NoOne}, call[c] = Unused,
         call' = [call EXCEPT ![c] =
           [at |-> a, ticket |-> t, subject |-> s, email |-> e, verified |-> v, user |-> u]]
  PROVE  Begins(c, a, t, s, u)
  <1> DEFINE r == [at |-> a, ticket |-> t, subject |-> s, email |-> e, verified |-> v, user |-> u]
  <1>1. r \in CallRecord /\ r.at = a /\ r.ticket = t /\ r.subject = s /\ r.user = u
    BY DEF CallRecord
  <1> HIDE DEF r
  <1>2. call'[c] = r /\ (\A d \in Calls : d # c => call'[d] = call[d])
        /\ call' \in [Calls -> {Unused, Done} \cup CallRecord]
    BY <1>1 DEF LoginShape, r
  <1> QED
    BY <1>1, <1>2 DEF Begins

(* What the calls know stays true when one of them begins, moves on or     *)
(* ends with what its new stage asks for.                                  *)
TablesKept ==
  /\ identity' \in [Subjects -> Emails \cup {NoOne}]
  /\ tenant' \in [Calls -> {NoTenant} \cup TenantRecord]
  /\ ticket' \in [Flows \cup Links -> {"none", "open", "consumed"}]
  /\ signedIn' \subseteq SignedRecord
  /\ \A d \in Calls : tenant[d] \in TenantRecord => tenant'[d] \in TenantRecord

Fits(c, a, s, u) ==
  /\ a \in Stages
  /\ a \in Placed => u \in Emails
  /\ a \in {"subject", "link"} => s \in Subjects
  /\ a = "role" => tenant'[c] \in TenantRecord

(* Steps that move no call keep what is known at the stages. *)
LEMMA LoginFrameStill ==
  ASSUME LoginShape, StagesKnown, TablesKept, UNCHANGED call
  PROVE  LoginShape' /\ StagesKnown'
  <1>1. LoginShape'
    BY DEF LoginShape, TablesKept, NoTenant, TenantRecord, SignedRecord, CallRecord, Tickets,
       Unused, Done, Stages, Placed
  <1>2. StagesKnown'
    BY DEF StagesKnown, TablesKept, Placed, TenantRecord
  <1> QED
    BY <1>1, <1>2

(* Moving, beginning or ending one call keeps what is known at the stages  *)
(* of the others.                                                          *)
LEMMA LoginFrame ==
  ASSUME LoginShape, StagesKnown, TablesKept, NEW c \in Calls,
         \/ EndsCall(c)
         \/ \E a, u : MovesTo(c, a, u) /\ Fits(c, a, call[c].subject, u)
         \/ \E a, t, s, u : Begins(c, a, t, s, u) /\ Fits(c, a, s, u)
  PROVE  LoginShape' /\ StagesKnown'
  <1>1. call' \in [Calls -> {Unused, Done} \cup CallRecord]
    BY DEF LoginShape, EndsCall, MovesTo, Begins
  <1>2. LoginShape'
    BY <1>1 DEF LoginShape, TablesKept, NoTenant, TenantRecord, SignedRecord, CallRecord, Tickets,
       Unused, Done, Stages, Placed
  <1>3. \A d \in Calls \ {c} : call'[d] = call[d]
    BY DEF EndsCall, MovesTo, Begins
  <1> DEFINE Knows(d) == /\ call'[d].at \in Placed => call'[d].user \in Emails
                         /\ call'[d].at \in {"subject", "link"} => call'[d].subject \in Subjects
                         /\ call'[d].at = "role" => tenant'[d] \in TenantRecord
  <1>4. \A d \in Calls : call'[d] = call[d] => Knows(d)
    BY DEF StagesKnown, TablesKept
  <1>5. Knows(c)
    <2>2. CASE EndsCall(c)
      BY <2>2 DEF EndsCall, Done, Placed
    <2>3. CASE \E a, u : MovesTo(c, a, u) /\ Fits(c, a, call[c].subject, u)
      BY <2>3 DEF MovesTo, Fits
    <2>4. CASE \E a, t, s, u : Begins(c, a, t, s, u) /\ Fits(c, a, s, u)
      BY <2>4 DEF Begins, Fits
    <2> QED
      BY <2>2, <2>3, <2>4
  <1>6. \A d \in Calls : Knows(d)
    BY <1>3, <1>4, <1>5
  <1>7. StagesKnown'
    BY <1>6 DEF StagesKnown, Placed, TenantRecord
  <1> QED
    BY <1>2, <1>7

(* The statements in the middle of a login: the call goes on, or ends      *)
(* without a session.                                                      *)
Advances(c) ==
  \/ FindBySubject(c) \/ FindByEmail(c) \/ OidcUpsert(c) \/ MagicUpsert(c)
  \/ LinkIdentity(c) \/ LinkLost(c) \/ FindTenants(c) \/ CreatePersonal(c) \/ SetFirstRole(c)
  \/ SamlMember(c) \/ LoginAborted(c)
  \/ \E d \in Devices, changed \in BOOLEAN : Risk(c, d, changed)

AdvancesTo(c) == EndsCall(c) \/ \E a, u : MovesTo(c, a, u) /\ Fits(c, a, call[c].subject, u)

(* What each statement of a call does to it. *)
LEMMA LoginEffects ==
  ASSUME LoginShape, StagesKnown, NEW c \in Calls
  PROVE  /\ Advances(c) => TablesKept /\ AdvancesTo(c)
         /\ CreateSession(c) => TablesKept /\ EndsCall(c)
         /\ \A s \in Subjects : Unlink(c, s) => TablesKept /\ EndsCall(c)
         /\ \A f \in Flows, s \in Subjects, e \in Emails, v \in BOOLEAN : Callback(c, f, s, e, v) =>
              TablesKept /\ Begins(c, "subject", f, s, NoOne) /\ Fits(c, "subject", s, NoOne)
         /\ \A l \in Links, e \in Emails : MagicVerify(c, l, e) =>
              TablesKept /\ Begins(c, "email", l, NoOne, NoOne) /\ Fits(c, "email", NoOne, NoOne)
         /\ \A e \in Emails : SamlCallback(c, e) =>
              TablesKept /\ Begins(c, "member", NoOne, NoOne, e) /\ Fits(c, "member", NoOne, e)
         /\ \A e \in Emails : UnlinkCount(c, e) =>
              TablesKept /\ Begins(c, "unlink", NoOne, NoOne, e) /\ Fits(c, "unlink", NoOne, e)
  <1>0. ASSUME UNCHANGED <<identity, tenant, signedIn>>,
               ticket' \in [Flows \cup Links -> {"none", "open", "consumed"}]
        PROVE  TablesKept
    BY <1>0 DEF TablesKept, LoginShape
  <1>2. ASSUME NEW t \in Flows \cup Links, ConsumeTicket(t)
        PROVE  ticket' \in [Flows \cup Links -> {"none", "open", "consumed"}]
    BY <1>2 DEF ConsumeTicket, LoginShape
  <1>3. ASSUME NEW f \in Flows, NEW s \in Subjects, NEW e \in Emails,
               NEW v \in BOOLEAN, Callback(c, f, s, e, v)
        PROVE  TablesKept /\ Begins(c, "subject", f, s, NoOne) /\ Fits(c, "subject", s, NoOne)
    <2>1. TablesKept
      BY <1>0, <1>2, <1>3 DEF Callback
    <2>2. Begins(c, "subject", f, s, NoOne)
      BY <1>3, NewCallBegins DEF Callback, Stages, Tickets
    <2> QED
      BY <2>1, <2>2 DEF Fits, Stages, Placed
  <1>4. ASSUME NEW l \in Links, NEW e \in Emails, MagicVerify(c, l, e)
        PROVE  TablesKept /\ Begins(c, "email", l, NoOne, NoOne) /\ Fits(c, "email", NoOne, NoOne)
    <2>1. TablesKept
      BY <1>0, <1>2, <1>4 DEF MagicVerify
    <2>2. Begins(c, "email", l, NoOne, NoOne)
      BY <1>4, NewCallBegins DEF MagicVerify, Stages, Tickets
    <2> QED
      BY <2>1, <2>2 DEF Fits, Stages, Placed
  <1>5. ASSUME NEW e \in Emails, SamlCallback(c, e)
        PROVE  TablesKept /\ Begins(c, "member", NoOne, NoOne, e) /\ Fits(c, "member", NoOne, e)
    <2>1. TablesKept
      BY <1>0, <1>5 DEF SamlCallback, LoginShape
    <2>2. Begins(c, "member", NoOne, NoOne, e)
      BY <1>5, NewCallBegins DEF SamlCallback, Stages, Placed, Tickets
    <2> QED
      BY <2>1, <2>2 DEF Fits, Stages, Placed
  <1>6. ASSUME NEW e \in Emails, UnlinkCount(c, e)
        PROVE  TablesKept /\ Begins(c, "unlink", NoOne, NoOne, e) /\ Fits(c, "unlink", NoOne, e)
    <2>1. TablesKept
      BY <1>0, <1>6 DEF UnlinkCount, LoginShape
    <2>2. Begins(c, "unlink", NoOne, NoOne, e)
      BY <1>6, NewCallBegins DEF UnlinkCount, Stages, Placed, Tickets
    <2> QED
      BY <2>1, <2>2 DEF Fits, Stages, Placed
  <1>7. ASSUME FindBySubject(c)
        PROVE  TablesKept /\ \E a, u : MovesTo(c, a, u) /\ Fits(c, a, call[c].subject, u)
    <2>0. TablesKept /\ call[c].at = "subject"
      BY <1>0, <1>7 DEF FindBySubject, LoginShape
    <2>1. call[c] \in CallRecord /\ call[c].subject \in Subjects
      BY <2>0, AtStage DEF Stages, StagesKnown
    <2>2. CASE identity[call[c].subject] # NoOne
      <3>1. identity[call[c].subject] \in Emails
        BY <2>1, <2>2 DEF LoginShape
      <3>2. MovesTo(c, "tenants", identity[call[c].subject])
        BY <1>7, <2>1, <2>2, <3>1, AsMoves DEF FindBySubject, Stages, Placed
      <3>3. Fits(c, "tenants", call[c].subject, identity[call[c].subject])
        BY <3>1 DEF Fits, Stages, Placed
      <3> QED
        BY <2>0, <3>2, <3>3
    <2>3. CASE identity[call[c].subject] = NoOne
      <3>1. PICK a \in {"email", "upsert"} : Go(c, a)
        BY <1>7, <2>3 DEF FindBySubject
      <3>2. MovesTo(c, a, call[c].user)
        BY <2>1, <3>1, GoMoves DEF Stages
      <3> QED
        BY <2>0, <3>1, <3>2 DEF Fits, Stages, Placed
    <2> QED
      BY <2>2, <2>3
  <1>8. ASSUME FindByEmail(c)
        PROVE  TablesKept /\ \E a, u : MovesTo(c, a, u) /\ Fits(c, a, call[c].subject, u)
    <2>0. TablesKept /\ call[c].at = "email"
      BY <1>0, <1>8 DEF FindByEmail, LoginShape
    <2>1. /\ call[c] \in CallRecord
          /\ call[c].subject \in Subjects \cup {NoOne} /\ call[c].email \in Emails
      BY <2>0, AtStage DEF Stages, CallRecord
    <2>2. CASE user[call[c].email] # NoRow
      <3>1. PICK a \in {"tenants", "link"} :
              As(c, call[c].email, a) /\ (a = "link" => call[c].subject # NoOne)
        BY <1>8, <2>2 DEF FindByEmail
      <3>2. MovesTo(c, a, call[c].email)
        BY <2>1, <3>1, AsMoves DEF Stages, Placed
      <3> QED
        BY <2>0, <2>1, <3>1, <3>2 DEF Fits, Stages, Placed
    <2>3. CASE user[call[c].email] = NoRow
      <3>1. Go(c, "upsert")
        BY <1>8, <2>3 DEF FindByEmail
      <3>2. MovesTo(c, "upsert", call[c].user)
        BY <2>1, <3>1, GoMoves DEF Stages
      <3>3. Fits(c, "upsert", call[c].subject, call[c].user)
        BY DEF Fits, Stages, Placed
      <3> QED
        BY <2>0, <3>2, <3>3
    <2> QED
      BY <2>2, <2>3
  <1>9. ASSUME OidcUpsert(c) \/ MagicUpsert(c)
        PROVE  /\ TablesKept
               /\ \/ EndsCall(c)
                  \/ \E a, u : MovesTo(c, a, u) /\ Fits(c, a, call[c].subject, u)
    <2>0. TablesKept /\ call[c].at = "upsert"
      BY <1>0, <1>9 DEF OidcUpsert, MagicUpsert, UpsertUser, LoginShape
    <2>1. /\ call[c] \in CallRecord
          /\ call[c].subject \in Subjects \cup {NoOne} /\ call[c].email \in Emails
      BY <2>0, AtStage DEF Stages, CallRecord
    <2>2. \/ Fail(c)
          \/ As(c, call[c].email, "link") /\ call[c].subject # NoOne
          \/ As(c, call[c].email, "tenants")
      BY <1>9 DEF OidcUpsert, MagicUpsert, UpsertUser
    <2>3. CASE Fail(c)
      BY <2>0, <2>3, FailEnds
    <2>4. CASE As(c, call[c].email, "link") /\ call[c].subject # NoOne
      <3>1. MovesTo(c, "link", call[c].email)
        BY <2>1, <2>4, AsMoves DEF Stages, Placed
      <3>2. Fits(c, "link", call[c].subject, call[c].email)
        BY <2>1, <2>4 DEF Fits, Stages, Placed
      <3> QED
        BY <2>0, <3>1, <3>2
    <2>5. CASE As(c, call[c].email, "tenants")
      <3>1. MovesTo(c, "tenants", call[c].email)
        BY <2>1, <2>5, AsMoves DEF Stages, Placed
      <3>2. Fits(c, "tenants", call[c].subject, call[c].email)
        BY <2>1 DEF Fits, Stages, Placed
      <3> QED
        BY <2>0, <3>1, <3>2
    <2> QED
      BY <2>2, <2>3, <2>4, <2>5
  <1>10. ASSUME LinkIdentity(c) \/ LinkLost(c)
        PROVE  TablesKept /\ \E a, u : MovesTo(c, a, u) /\ Fits(c, a, call[c].subject, u)
    <2>0. call[c].at = "link" /\ Go(c, "tenants") /\ UNCHANGED <<tenant, ticket, signedIn>>
      BY <1>10 DEF LinkIdentity, LinkLost
    <2>1. call[c] \in CallRecord /\ call[c].user \in Emails
      BY <2>0, AtStage DEF Stages, Placed, StagesKnown
    <2>2. identity' \in [Subjects -> Emails \cup {NoOne}]
      BY <1>10, <2>1 DEF LinkIdentity, LinkLost, LoginShape
    <2>3. MovesTo(c, "tenants", call[c].user)
      BY <2>0, <2>1, GoMoves DEF Stages, Placed
    <2>4. Fits(c, "tenants", call[c].subject, call[c].user)
      BY <2>1 DEF Fits, Stages, Placed
    <2>5. TablesKept
      BY <2>0, <2>2 DEF TablesKept, LoginShape
    <2> QED
      BY <2>3, <2>4, <2>5
  <1>11. ASSUME FindTenants(c)
        PROVE  TablesKept /\ \E a, u : MovesTo(c, a, u) /\ Fits(c, a, call[c].subject, u)
    <2>0. TablesKept /\ call[c].at = "tenants"
      BY <1>0, <1>11 DEF FindTenants, LoginShape
    <2>1. call[c] \in CallRecord /\ call[c].user \in Emails
      BY <2>0, AtStage DEF Stages, Placed, StagesKnown
    <2>2. PICK a \in {"session", "risk", "create tenant"} : Go(c, a)
      BY <1>11 DEF FindTenants, AfterTenant
    <2>3. MovesTo(c, a, call[c].user)
      BY <2>1, <2>2, GoMoves DEF Stages, Placed
    <2> QED
      BY <2>0, <2>1, <2>2, <2>3 DEF Fits, Stages, Placed
  <1>12. ASSUME CreatePersonal(c)
        PROVE  /\ TablesKept
               /\ \/ EndsCall(c)
                  \/ \E a, u : MovesTo(c, a, u) /\ Fits(c, a, call[c].subject, u)
    <2>0. call[c].at = "create tenant" /\ UNCHANGED <<identity, ticket, signedIn>>
      BY <1>12 DEF CreatePersonal
    <2>1. call[c] \in CallRecord /\ call[c].user \in Emails /\ call[c].email \in Emails
      BY <2>0, AtStage DEF Stages, Placed, StagesKnown, CallRecord
    <2>2. CASE Fail(c) /\ UNCHANGED tenant
      BY <1>0, <2>0, <2>2, FailEnds DEF LoginShape
    <2>3. CASE tenant' = [tenant EXCEPT ![c] = NewTenant(c)] /\ Go(c, AfterCreate(c))
      <3>1. NewTenant(c) \in TenantRecord
        BY <2>1 DEF NewTenant, TenantRecord
      <3>2. /\ tenant' \in [Calls -> {NoTenant} \cup TenantRecord] /\ tenant'[c] \in TenantRecord
            /\ \A d \in Calls : tenant[d] \in TenantRecord => tenant'[d] \in TenantRecord
        BY <2>3, <3>1 DEF LoginShape
      <3>3. PICK a \in {"role", "session", "risk"} : Go(c, a)
        BY <2>3 DEF AfterCreate, AfterTenant
      <3>4. MovesTo(c, a, call[c].user)
        BY <2>1, <3>3, GoMoves DEF Stages, Placed
      <3> QED
        BY <2>0, <2>1, <3>2, <3>3, <3>4 DEF TablesKept, LoginShape, Fits, Stages, Placed
    <2> QED
      BY <1>12, <2>2, <2>3 DEF CreatePersonal
  <1>13. ASSUME SetFirstRole(c)
        PROVE  TablesKept /\ \E a, u : MovesTo(c, a, u) /\ Fits(c, a, call[c].subject, u)
    <2>0. call[c].at = "role" /\ UNCHANGED <<identity, ticket, signedIn>> /\ Go(c, "risk")
      BY <1>13 DEF SetFirstRole
    <2>1. /\ call[c] \in CallRecord /\ call[c].user \in Emails /\ call[c].email \in Emails
          /\ tenant[c] \in TenantRecord
      BY <2>0, AtStage DEF Stages, Placed, StagesKnown, CallRecord
    <2>2. [tenant[c] EXCEPT !.role = FirstRole[call[c].email]] \in TenantRecord
      BY <2>1, LoginAssumption DEF TenantRecord
    <2>3. \/ UNCHANGED tenant
          \/ tenant' = [tenant EXCEPT ![c] = [tenant[c] EXCEPT !.role = FirstRole[call[c].email]]]
      BY <1>13 DEF SetFirstRole
    <2>4. /\ tenant' \in [Calls -> {NoTenant} \cup TenantRecord]
          /\ \A d \in Calls : tenant[d] \in TenantRecord => tenant'[d] \in TenantRecord
      BY <2>2, <2>3 DEF LoginShape
    <2>5. MovesTo(c, "risk", call[c].user)
      BY <2>0, <2>1, GoMoves DEF Stages, Placed
    <2> QED
      BY <2>0, <2>1, <2>4, <2>5 DEF TablesKept, LoginShape, Fits, Stages, Placed
  <1>14. ASSUME SamlMember(c) \/ \E d \in Devices, b \in BOOLEAN : Risk(c, d, b)
        PROVE  /\ TablesKept
               /\ \/ EndsCall(c)
                  \/ \E a, u : MovesTo(c, a, u) /\ Fits(c, a, call[c].subject, u)
    <2>0. TablesKept /\ call[c].at \in {"member", "risk"} /\ (Fail(c) \/ Go(c, "session"))
      BY <1>0, <1>14 DEF SamlMember, Risk, LoginShape
    <2>1. call[c] \in CallRecord /\ call[c].user \in Emails
      BY <2>0, AtStage DEF Stages, Placed, StagesKnown
    <2>2. EndsCall(c) \/ MovesTo(c, "session", call[c].user)
      BY <2>0, <2>1, GoMoves, FailEnds DEF Stages, Placed
    <2>3. Fits(c, "session", call[c].subject, call[c].user)
      BY <2>1 DEF Fits, Stages, Placed
    <2> QED
      BY <2>0, <2>2, <2>3
  <1>15. ASSUME CreateSession(c)
        PROVE  TablesKept /\ EndsCall(c)
    <2>0. call[c].at = "session" /\ UNCHANGED <<identity, tenant, ticket>> /\ Fail(c)
      BY <1>15 DEF CreateSession
    <2>1. /\ call[c].user \in Emails /\ call[c].ticket \in Tickets
          /\ call[c].subject \in Subjects \cup {NoOne}
      BY <2>0, AtStage DEF Stages, Placed, StagesKnown, CallRecord
    <2>2. signedIn' \subseteq SignedRecord
      BY <1>15, <2>1 DEF CreateSession, SignedRecord, LoginShape
    <2> QED
      BY <2>0, <2>2, FailEnds DEF TablesKept, LoginShape
  <1>16. ASSUME LoginAborted(c)
        PROVE  TablesKept /\ EndsCall(c)
    BY <1>0, <1>16, FailEnds DEF LoginAborted, LoginShape
  <1>17. ASSUME NEW s \in Subjects, Unlink(c, s)
        PROVE  TablesKept /\ EndsCall(c)
    <2>1. identity' \in [Subjects -> Emails \cup {NoOne}]
      BY <1>17 DEF Unlink, LoginShape
    <2> QED
      BY <1>17, <2>1, FailEnds DEF Unlink, TablesKept, LoginShape
  <1>18. Advances(c) => TablesKept /\ AdvancesTo(c)
    BY <1>7, <1>8, <1>9, <1>10, <1>11, <1>12, <1>13, <1>14, <1>16 DEF Advances, AdvancesTo
  <1> QED
    BY <1>3, <1>4, <1>5, <1>6, <1>15, <1>17, <1>18

(* A step of LoginNext is about a ticket or about one call. *)
TicketStep(t) == BeginOidcFlow(t) \/ SendMagicLink(t) \/ TicketExpires(t)

(* The steps of the logins, sorted by what they are a step of. *)
LEMMA LoginCases ==
  ASSUME [LoginNext]_loginVars
  PROVE  \/ UNCHANGED loginVars
         \/ \E t \in Flows \cup Links : TicketStep(t)
         \/ \E c \in Calls :
              \/ Advances(c) \/ CreateSession(c)
              \/ \E s \in Subjects : Unlink(c, s)
              \/ \E f \in Flows, s \in Subjects, e \in Emails, v \in BOOLEAN : Callback(c, f, s, e, v)
              \/ \E l \in Links, e \in Emails : MagicVerify(c, l, e)
              \/ \E e \in Emails : SamlCallback(c, e)
              \/ \E e \in Emails : UnlinkCount(c, e)
  <1>1. ASSUME NEW c \in Calls, OidcStep(c)
        PROVE  \/ Advances(c) \/ CreateSession(c)
               \/ \E f \in Flows, s \in Subjects, e \in Emails, v \in BOOLEAN : Callback(c, f, s, e, v)
    BY <1>1 DEF OidcStep, Advances
  <1>2. ASSUME NEW c \in Calls, MagicUpsert(c) \/ SamlMember(c) \/ LoginAborted(c)
        PROVE  Advances(c)
    BY <1>2 DEF Advances
  <1> QED
    BY <1>1, <1>2 DEF LoginNext, TicketStep

(* Every step of the logins keeps the shape, and what a call knows at its  *)
(* stage.                                                                  *)
LEMMA LoginStepShape ==
  LoginShape /\ StagesKnown /\ [LoginNext]_loginVars => LoginShape' /\ StagesKnown'
  <1> SUFFICES ASSUME LoginShape, StagesKnown, [LoginNext]_loginVars
               PROVE  LoginShape' /\ StagesKnown'
    OBVIOUS
  <1>1. ASSUME UNCHANGED loginVars \/ \E t \in Flows \cup Links : TicketStep(t)
        PROVE  LoginShape' /\ StagesKnown'
    <2>1. /\ UNCHANGED <<identity, tenant, signedIn, call>>
          /\ ticket' \in [Flows \cup Links -> {"none", "open", "consumed"}]
      BY <1>1 DEF loginVars, TicketStep, BeginOidcFlow, SendMagicLink, TicketExpires, LoginShape
    <2>2. TablesKept
      BY <2>1 DEF TablesKept, LoginShape
    <2> QED
      BY <2>1, <2>2, LoginFrameStill
  <1>2. ASSUME NEW c \in Calls, TablesKept, AdvancesTo(c)
        PROVE  LoginShape' /\ StagesKnown'
    BY <1>2, LoginFrame DEF AdvancesTo
  <1>3. ASSUME NEW c \in Calls, TablesKept, EndsCall(c)
        PROVE  LoginShape' /\ StagesKnown'
    BY <1>3, LoginFrame
  <1>4. ASSUME NEW c \in Calls, TablesKept, NEW a, NEW t, NEW s, NEW u,
               Begins(c, a, t, s, u), Fits(c, a, s, u)
        PROVE  LoginShape' /\ StagesKnown'
    BY <1>4, LoginFrame
  <1>5. CASE \E c \in Calls : Advances(c) \/ CreateSession(c) \/ \E s \in Subjects : Unlink(c, s)
    BY <1>2, <1>3, <1>5, LoginEffects
  <1>6. CASE \E c \in Calls :
              \/ \E f \in Flows, s \in Subjects, e \in Emails, v \in BOOLEAN : Callback(c, f, s, e, v)
              \/ \E l \in Links, e \in Emails : MagicVerify(c, l, e)
    BY <1>4, <1>6, LoginEffects
  <1>7. CASE \E c \in Calls, e \in Emails : SamlCallback(c, e) \/ UnlinkCount(c, e)
    BY <1>4, <1>7, LoginEffects
  <1> QED
    BY <1>1, <1>5, <1>6, <1>7, LoginCases

(* A call is in progress. *)
InCall(c) == call[c].at \notin {"unused", "done"}

(* A call is under way exactly while it holds a record. *)
LEMMA InCallRecord ==
  ASSUME LoginShape, NEW c \in Calls
  PROVE  /\ InCall(c) <=> call[c] \in CallRecord
         /\ InCall(c) <=> c \in Busy
  <1>1. call[c] = Unused \/ call[c] = Done \/ call[c] \in CallRecord
    BY DEF LoginShape
  <1>2. call[c] \in CallRecord => call[c].at \in Stages
    BY DEF CallRecord
  <1>3. call[c] \in CallRecord => InCall(c) /\ call[c] # Unused /\ call[c] # Done
    <2>1. call[c] \in CallRecord => call[c].at \notin {"unused", "done"}
      BY <1>2 DEF Stages, Placed
    <2>2. Unused.at = "unused" /\ Done.at = "done"
      BY DEF Unused, Done
    <2> QED
      BY <2>1, <2>2 DEF InCall
  <1>4. ~InCall(c) <=> call[c] \in {Unused, Done}
    BY <1>1, <1>3 DEF InCall, Unused, Done
  <1> QED
    BY <1>1, <1>3, <1>4 DEF Busy

(* The calls in progress after a step, in terms of the ones before. *)
LEMMA InCallAfter ==
  ASSUME LoginShape, NEW c \in Calls
  PROVE  /\ EndsCall(c) => ~InCall(c)' /\ \A d \in Calls : d # c => call'[d] = call[d]
         /\ \A a, u : MovesTo(c, a, u) => InCall(c) /\ InCall(c)'
         /\ \A a, t, s, u : Begins(c, a, t, s, u) => ~InCall(c) /\ InCall(c)'
  <1>1. EndsCall(c) => ~InCall(c)' /\ \A d \in Calls : d # c => call'[d] = call[d]
    BY DEF EndsCall, InCall, Done
  <1>2. \A r \in CallRecord : r.at \notin {"unused", "done"}
    BY DEF CallRecord, Stages, Placed
  <1>3. \A a, u : MovesTo(c, a, u) => InCall(c) /\ InCall(c)'
    BY <1>2 DEF MovesTo, InCall
  <1>4. \A a, t, s, u : Begins(c, a, t, s, u) => ~InCall(c) /\ InCall(c)'
    BY <1>2 DEF Begins, InCall, Unused
  <1> QED
    BY <1>1, <1>3, <1>4

HoldsTicket(c) == InCall(c) /\ call[c].ticket # NoOne

(* A ticket is in one pair of hands, and no longer open. *)
TicketHeldOnce ==
  /\ \A c \in Calls : HoldsTicket(c) => ticket[call[c].ticket] = "consumed"
  /\ \A a \in signedIn : a.ticket # NoOne => ticket[a.ticket] = "consumed"
  /\ \A c, d \in Calls :
       HoldsTicket(c) /\ HoldsTicket(d) /\ call[c].ticket = call[d].ticket => c = d
  /\ \A c \in Calls, a \in signedIn : HoldsTicket(c) => call[c].ticket # a.ticket
  /\ TicketOpensOneSession

(* The session a login creates is the one its call has worked for. *)
LEMMA SessionOfCall ==
  ASSUME NEW c \in Calls, CreateSession(c)
  PROVE  \A a \in signedIn' :
           \/ a \in signedIn
           \/ /\ a.by = c /\ a.user = call[c].user /\ a.ticket = call[c].ticket
              /\ a.subject = call[c].subject
  <1> DEFINE new == [by |-> c, user |-> call[c].user, ticket |-> call[c].ticket,
                     subject |-> call[c].subject]
  <1>1. \A a \in signedIn' : a \in signedIn \/ a = new
    BY DEF CreateSession
  <1>2. /\ new.by = c /\ new.user = call[c].user /\ new.ticket = call[c].ticket
        /\ new.subject = call[c].subject
    OBVIOUS
  <1> QED
    BY <1>1, <1>2

(* A ticket that a call holds is held by no other and cannot be consumed   *)
(* again.                                                                  *)
LEMMA LoginStepTicket ==
  LoginShape /\ StagesKnown /\ TicketHeldOnce /\ [LoginNext]_loginVars => TicketHeldOnce'
  <1> SUFFICES ASSUME LoginShape, StagesKnown, TicketHeldOnce, [LoginNext]_loginVars
               PROVE  TicketHeldOnce'
    OBVIOUS
  <1> USE DEF TicketHeldOnce, TicketOpensOneSession
  <1>0. /\ \A c \in Calls : HoldsTicket(c) => call[c].ticket \in Flows \cup Links
        /\ \A a \in signedIn : a.ticket # NoOne => a.ticket \in Flows \cup Links
    BY InCallRecord DEF HoldsTicket, CallRecord, LoginShape, SignedRecord, Tickets
  <1>1. ASSUME UNCHANGED signedIn,
               \A c \in Calls : HoldsTicket(c)' => HoldsTicket(c) /\ call'[c].ticket = call[c].ticket,
               \A t \in Flows \cup Links : ticket[t] = "consumed" => ticket'[t] = "consumed"
        PROVE  TicketHeldOnce'
    BY <1>0, <1>1
  <1>2. ASSUME NEW t \in Flows \cup Links, TicketStep(t)
        PROVE  TicketHeldOnce'
    <2>1. UNCHANGED <<signedIn, call>>
          /\ \A r \in Flows \cup Links : ticket[r] = "consumed" => ticket'[r] = "consumed"
      BY <1>2 DEF TicketStep, BeginOidcFlow, SendMagicLink, TicketExpires, LoginShape
    <2> QED
      BY <1>1, <2>1 DEF HoldsTicket, InCall
  <1>3. ASSUME NEW c \in Calls, EndsCall(c) \/ \E a, u : MovesTo(c, a, u)
        PROVE  \A d \in Calls : HoldsTicket(d)' => HoldsTicket(d) /\ call'[d].ticket = call[d].ticket
    <2>1. \A d \in Calls : d # c => call'[d] = call[d]
      BY <1>3 DEF EndsCall, MovesTo
    <2>2. HoldsTicket(c)' => HoldsTicket(c) /\ call'[c].ticket = call[c].ticket
      BY <1>3, InCallAfter DEF MovesTo, HoldsTicket
    <2> QED
      BY <2>1, <2>2 DEF HoldsTicket, InCall
  <1>4. ASSUME NEW c \in Calls, Advances(c)
        PROVE  TicketHeldOnce'
    <2>1. UNCHANGED <<signedIn, ticket>>
      BY <1>4 DEF Advances, FindBySubject, FindByEmail, OidcUpsert, MagicUpsert, UpsertUser,
         LinkIdentity, LinkLost, FindTenants, CreatePersonal, SetFirstRole, SamlMember, LoginAborted, Risk
    <2>2. EndsCall(c) \/ \E a, u : MovesTo(c, a, u)
      BY <1>4, LoginEffects DEF AdvancesTo
    <2> QED
      BY <1>1, <1>3, <2>1, <2>2
  <1>5. ASSUME NEW c \in Calls, NEW s \in Subjects, Unlink(c, s)
        PROVE  TicketHeldOnce'
    BY <1>1, <1>3, <1>5, LoginEffects DEF Unlink
  <1>6. ASSUME NEW c \in Calls, CreateSession(c)
        PROVE  TicketHeldOnce'
    <2>1. /\ UNCHANGED ticket /\ call[c].at = "session"
          /\ ~InCall(c)' /\ \A d \in Calls : d # c => call'[d] = call[d]
      BY <1>6, LoginEffects, InCallAfter DEF CreateSession
    <2>2. InCall(c)
      BY <2>1 DEF InCall
    <2>3. \A d \in Calls : HoldsTicket(d)' => d # c /\ HoldsTicket(d) /\ call'[d].ticket = call[d].ticket
      BY <2>1 DEF HoldsTicket, InCall
    <2>4. \A a \in signedIn' : a \in signedIn \/ (a.by = c /\ a.ticket = call[c].ticket)
      BY <1>6, SessionOfCall
    <2>5. call[c].ticket # NoOne => HoldsTicket(c)
      BY <2>2 DEF HoldsTicket
    <2>6. \A a \in signedIn' : a.ticket # NoOne => ticket'[a.ticket] = "consumed"
      BY <2>1, <2>4, <2>5
    <2>7. \A d \in Calls, a \in signedIn' : HoldsTicket(d)' => call'[d].ticket # a.ticket
      BY <2>3, <2>4, <2>5 DEF HoldsTicket
    <2>8. TicketOpensOneSession'
      BY <2>4, <2>5
    <2> QED
      BY <2>1, <2>3, <2>6, <2>7, <2>8
  <1>7. ASSUME NEW c \in Calls, NEW t \in Flows \cup Links, NEW a, NEW s, NEW u,
               Begins(c, a, t, s, u), ConsumeTicket(t), UNCHANGED signedIn
        PROVE  TicketHeldOnce'
    <2>1. /\ ticket[t] = "open" /\ ticket'[t] = "consumed"
          /\ \A r \in Flows \cup Links : ticket[r] = "consumed" => ticket'[r] = "consumed"
      BY <1>7 DEF ConsumeTicket, LoginShape
    <2>2. /\ call'[c].ticket = t
          /\ \A d \in Calls : d # c => call'[d] = call[d]
      BY <1>7 DEF Begins
    <2>3. \A d \in Calls : d # c =>
            (HoldsTicket(d)' <=> HoldsTicket(d)) /\ call'[d].ticket = call[d].ticket
      BY <2>2 DEF HoldsTicket, InCall
    <2>4. \A d \in Calls : d # c /\ HoldsTicket(d)' =>
            call'[d].ticket # t /\ ticket'[call'[d].ticket] = "consumed"
      BY <1>0, <2>1, <2>3
    <2>5. \A b \in signedIn : b.ticket # NoOne => b.ticket # t /\ ticket'[b.ticket] = "consumed"
      BY <1>0, <2>1
    <2>6. \A d, e \in Calls :
            HoldsTicket(d)' /\ HoldsTicket(e)' /\ call'[d].ticket = call'[e].ticket => d = e
      BY <2>2, <2>3, <2>4
    <2>7. \A d \in Calls, b \in signedIn : HoldsTicket(d)' => call'[d].ticket # b.ticket
      BY <2>2, <2>3, <2>5 DEF HoldsTicket
    <2> QED
      BY <1>7, <2>1, <2>2, <2>4, <2>5, <2>6, <2>7
  <1>8. ASSUME NEW c \in Calls, NEW a, NEW s, NEW u,
               Begins(c, a, NoOne, s, u), UNCHANGED <<signedIn, ticket>>
        PROVE  TicketHeldOnce'
    <2>1. /\ ~HoldsTicket(c)'
          /\ \A d \in Calls : d # c => call'[d] = call[d]
      BY <1>8 DEF Begins, HoldsTicket
    <2> QED
      BY <1>1, <1>8, <2>1 DEF HoldsTicket, InCall
  <1>9. ASSUME NEW c \in Calls, NEW f \in Flows, NEW s \in Subjects, NEW e \in Emails,
               NEW v \in BOOLEAN, Callback(c, f, s, e, v)
        PROVE  TicketHeldOnce'
    BY <1>7, <1>9, LoginEffects DEF Callback
  <1>10. ASSUME NEW c \in Calls, NEW l \in Links, NEW e \in Emails, MagicVerify(c, l, e)
        PROVE  TicketHeldOnce'
    BY <1>7, <1>10, LoginEffects DEF MagicVerify
  <1>11. ASSUME NEW c \in Calls, NEW e \in Emails, SamlCallback(c, e) \/ UnlinkCount(c, e)
        PROVE  TicketHeldOnce'
    <2>1. UNCHANGED <<signedIn, ticket>> /\ \E a : Begins(c, a, NoOne, NoOne, e)
      BY <1>11, LoginEffects DEF SamlCallback, UnlinkCount
    <2> QED
      BY <1>8, <2>1
  <1>12. CASE UNCHANGED loginVars
    BY <1>1, <1>12 DEF loginVars, HoldsTicket, InCall
  <1> QED
    BY <1>2, <1>4, <1>5, <1>6, <1>9, <1>10, <1>11, <1>12, LoginCases

Unlinked == {"email", "upsert", "link"}
Linked == {"tenants", "create tenant", "role", "risk", "session"}

(* A login of subject s that does not overlap another: its call is alone,  *)
(* and what the identity table says is what the call and the earlier       *)
(* sessions say.                                                           *)
SubjectAlone(s) ==
  /\ \A c, d \in Calls : InCall(c) /\ InCall(d) /\ call[c].subject = s /\ call[d].subject = s => c = d
  /\ \A a \in signedIn : a.subject = s => identity[s] = a.user
  /\ \A c \in Calls : call[c].at \in Unlinked /\ call[c].subject = s => identity[s] = NoOne
  /\ \A c \in Calls : call[c].at \in Linked /\ call[c].subject = s => identity[s] = call[c].user

SubjectsKept ==
  /\ \A s \in Subjects : s # NoOne /\ <<"subject", s>> \notin raced => SubjectAlone(s)
  /\ \A c \in Calls : call[c].at = "member" => call[c].subject = NoOne

(* SubjectAlone with the values after a step. *)
LEMMA SubjectAloneAfter ==
  ASSUME NEW s \in Subjects,
         \A c, d \in Calls : InCall(c)' /\ InCall(d)' /\ call'[c].subject = s /\ call'[d].subject = s => c = d,
         \A a \in signedIn' : a.subject = s => identity'[s] = a.user,
         \A c \in Calls : call'[c].at \in Unlinked /\ call'[c].subject = s => identity'[s] = NoOne,
         \A c \in Calls : call'[c].at \in Linked /\ call'[c].subject = s => identity'[s] = call'[c].user
  PROVE  SubjectAlone(s)'
  BY DEF SubjectAlone, Unlinked, Linked

(* A call that moves on keeps its subject's login alone when its new stage *)
(* agrees with the identity table.                                         *)
LEMMA SubjectFrame ==
  ASSUME LoginShape, SubjectsKept, NEW c \in Calls, raced \subseteq raced',
         UNCHANGED <<identity, signedIn>>,
         \/ EndsCall(c)
         \/ \E a, u : /\ MovesTo(c, a, u) /\ a # "member"
                      /\ call[c].subject # NoOne /\ <<"subject", call[c].subject>> \notin raced' =>
                           /\ a \in Unlinked => identity[call[c].subject] = NoOne
                           /\ a \in Linked => identity[call[c].subject] = u
  PROVE  SubjectsKept'
  <1>1. /\ \A d \in Calls : d # c => call'[d] = call[d]
        /\ InCall(c)' => InCall(c) /\ call'[c].subject = call[c].subject
    BY InCallAfter DEF EndsCall, MovesTo
  <1>2. ASSUME NEW s \in Subjects, s # NoOne, <<"subject", s>> \notin raced'
        PROVE  SubjectAlone(s)'
    <2>1. SubjectAlone(s)
      BY <1>2 DEF SubjectsKept
    <2>2. \A d, e \in Calls : InCall(d)' /\ InCall(e)' /\ call'[d].subject = s /\ call'[e].subject = s => d = e
      BY <1>1, <2>1 DEF SubjectAlone, InCall
    <2>3. \A a \in signedIn' : a.subject = s => identity'[s] = a.user
      BY <2>1 DEF SubjectAlone
    <2>4. /\ call'[c].at \in Unlinked /\ call'[c].subject = s => identity'[s] = NoOne
          /\ call'[c].at \in Linked /\ call'[c].subject = s => identity'[s] = call'[c].user
      <3>1. CASE EndsCall(c)
        <4>1. call'[c].at = "done"
          BY <3>1 DEF EndsCall, Done
        <4>2. "done" \notin Unlinked /\ "done" \notin Linked
          BY DEF Unlinked, Linked
        <4> QED
          BY <4>1, <4>2
      <3>2. CASE \E a, u : /\ MovesTo(c, a, u) /\ a # "member"
                           /\ call[c].subject # NoOne /\ <<"subject", call[c].subject>> \notin raced' =>
                                /\ a \in Unlinked => identity[call[c].subject] = NoOne
                                /\ a \in Linked => identity[call[c].subject] = u
        BY <1>2, <3>2 DEF MovesTo
      <3> QED
        BY <3>1, <3>2
    <2>5. \A d \in Calls : call'[d].at \in Unlinked /\ call'[d].subject = s => identity'[s] = NoOne
      BY <1>1, <2>1, <2>4 DEF SubjectAlone
    <2>6. \A d \in Calls : call'[d].at \in Linked /\ call'[d].subject = s => identity'[s] = call'[d].user
      BY <1>1, <2>1, <2>4 DEF SubjectAlone
    <2> QED
      BY <2>2, <2>3, <2>5, <2>6, SubjectAloneAfter
  <1>3. \A d \in Calls : call'[d].at = "member" => call'[d].subject = NoOne
    <2>1. call'[c].at # "member"
      BY DEF EndsCall, MovesTo, Done
    <2> QED
      BY <1>1, <2>1 DEF SubjectsKept
  <1> QED
    BY <1>2, <1>3 DEF SubjectsKept

(* Unless two calls race for a subject, calls and links agree on its user. *)
LEMMA LoginStepSubject ==
  LoginShape /\ StagesKnown /\ SubjectsKept /\ [LoginNext]_loginVars => SubjectsKept'
  <1> SUFFICES ASSUME LoginShape, StagesKnown, SubjectsKept, [LoginNext]_loginVars
               PROVE  SubjectsKept'
    OBVIOUS
  <1>0. ASSUME UNCHANGED <<call, identity, signedIn, raced>>
        PROVE  SubjectsKept'
    BY <1>0 DEF SubjectsKept, SubjectAlone, InCall, Unlinked, Linked
  <1>1. CASE UNCHANGED loginVars \/ \E t \in Flows \cup Links : TicketStep(t)
    BY <1>0, <1>1 DEF loginVars, TicketStep, BeginOidcFlow, SendMagicLink, TicketExpires
  <1>2. ASSUME NEW c \in Calls, FindBySubject(c)
        PROVE  SubjectsKept'
    <2>0. /\ call[c].at = "subject" /\ call[c] \in CallRecord /\ call[c].subject \in Subjects
          /\ UNCHANGED <<identity, signedIn, raced>>
      BY <1>2, AtStage DEF FindBySubject, Stages, StagesKnown
    <2>1. CASE identity[call[c].subject] # NoOne
      <3>1. identity[call[c].subject] \in Emails
        BY <2>0, <2>1 DEF LoginShape
      <3>2. MovesTo(c, "tenants", identity[call[c].subject])
        BY <1>2, <2>0, <2>1, <3>1, AsMoves DEF FindBySubject, Stages, Placed
      <3>3. "tenants" \notin Unlinked /\ "tenants" # "member"
        BY DEF Unlinked
      <3> QED
        BY <2>0, <3>2, <3>3, SubjectFrame
    <2>2. CASE identity[call[c].subject] = NoOne
      <3>1. PICK a \in {"email", "upsert"} : Go(c, a)
        BY <1>2, <2>2 DEF FindBySubject
      <3>2. MovesTo(c, a, call[c].user)
        BY <2>0, <3>1, GoMoves DEF Stages
      <3>3. a \notin Linked /\ a # "member"
        BY DEF Linked
      <3> QED
        BY <2>0, <2>2, <3>2, <3>3, SubjectFrame
    <2> QED
      BY <2>1, <2>2
  <1>3. ASSUME NEW c \in Calls, NEW a \in Stages, NEW u,
               MovesTo(c, a, u), UNCHANGED <<identity, signedIn, raced>>, a # "member",
               call[c].subject # NoOne =>
                 \/ a \in Unlinked /\ call[c].at \in Unlinked
                 \/ a \in Linked /\ call[c].at \in Linked /\ u = call[c].user
        PROVE  SubjectsKept'
    <2>1. call[c].subject \in Subjects \cup {NoOne}
      BY <1>3 DEF MovesTo, CallRecord
    <2>2. call[c].subject # NoOne /\ <<"subject", call[c].subject>> \notin raced =>
            /\ a \in Unlinked => identity[call[c].subject] = NoOne
            /\ a \in Linked => identity[call[c].subject] = u
      <3>1. Unlinked \cap Linked = {}
        BY DEF Unlinked, Linked
      <3> QED
        BY <1>3, <2>1, <3>1 DEF SubjectsKept, SubjectAlone
    <2> QED
      BY <1>3, <2>2, SubjectFrame
  <1>4. ASSUME NEW c \in Calls, EndsCall(c), raced \subseteq raced', UNCHANGED <<identity, signedIn>>
        PROVE  SubjectsKept'
    BY <1>4, SubjectFrame
  <1>5. ASSUME NEW c \in Calls, FindByEmail(c)
        PROVE  SubjectsKept'
    <2>0. /\ call[c].at = "email" /\ call[c] \in CallRecord /\ call[c].email \in Emails
          /\ UNCHANGED <<identity, signedIn, raced>>
      BY <1>5, AtStage DEF FindByEmail, Stages, CallRecord
    <2>1. CASE user[call[c].email] # NoRow
      <3>1. PICK a \in {"tenants", "link"} :
              As(c, call[c].email, a) /\ (call[c].subject # NoOne => a = "link")
        BY <1>5, <2>1 DEF FindByEmail
      <3>2. MovesTo(c, a, call[c].email)
        BY <2>0, <3>1, AsMoves DEF Stages, Placed
      <3> QED
        BY <1>3, <2>0, <3>1, <3>2 DEF Unlinked, Stages, Placed
    <2>2. CASE user[call[c].email] = NoRow
      <3>1. MovesTo(c, "upsert", call[c].user)
        BY <1>5, <2>0, <2>2, GoMoves DEF FindByEmail, Stages
      <3> QED
        BY <1>3, <2>0, <3>1 DEF Unlinked, Stages, Placed
    <2> QED
      BY <2>1, <2>2
  <1>6. ASSUME NEW c \in Calls, OidcUpsert(c) \/ MagicUpsert(c)
        PROVE  SubjectsKept'
    <2>0. /\ call[c].at = "upsert" /\ call[c] \in CallRecord /\ call[c].email \in Emails
          /\ UNCHANGED <<identity, signedIn, raced>>
      BY <1>6, AtStage DEF OidcUpsert, MagicUpsert, UpsertUser, Stages, CallRecord
    <2>1. \/ Fail(c)
          \/ As(c, call[c].email, "link")
          \/ As(c, call[c].email, "tenants") /\ call[c].subject = NoOne
      BY <1>6 DEF OidcUpsert, MagicUpsert, UpsertUser
    <2>2. CASE Fail(c)
      BY <1>4, <2>0, <2>2, FailEnds
    <2>3. CASE As(c, call[c].email, "link")
      <3>1. MovesTo(c, "link", call[c].email)
        BY <2>0, <2>3, AsMoves DEF Stages, Placed
      <3> QED
        BY <1>3, <2>0, <3>1 DEF Unlinked, Stages, Placed
    <2>4. CASE As(c, call[c].email, "tenants") /\ call[c].subject = NoOne
      <3>1. MovesTo(c, "tenants", call[c].email)
        BY <2>0, <2>4, AsMoves DEF Stages, Placed
      <3> QED
        BY <1>3, <2>0, <2>4, <3>1 DEF Stages, Placed
    <2> QED
      BY <2>1, <2>2, <2>3, <2>4
  <1>7. ASSUME NEW c \in Calls, FindTenants(c)
        PROVE  SubjectsKept'
    <2>0. /\ call[c].at = "tenants" /\ call[c] \in CallRecord
          /\ UNCHANGED <<identity, signedIn, raced>>
      BY <1>7, AtStage DEF FindTenants, Stages, Placed
    <2>1. PICK a \in {"session", "risk", "create tenant"} : Go(c, a)
      BY <1>7 DEF FindTenants, AfterTenant
    <2>2. MovesTo(c, a, call[c].user)
      BY <2>0, <2>1, GoMoves DEF Stages, Placed
    <2> QED
      BY <1>3, <2>0, <2>1, <2>2 DEF Linked, Stages, Placed
  <1>8. ASSUME NEW c \in Calls, CreatePersonal(c)
        PROVE  SubjectsKept'
    <2>0. /\ call[c].at = "create tenant" /\ call[c] \in CallRecord
          /\ UNCHANGED <<identity, signedIn, raced>>
      BY <1>8, AtStage DEF CreatePersonal, Stages, Placed
    <2>1. CASE Fail(c)
      BY <1>4, <2>0, <2>1, FailEnds
    <2>2. CASE Go(c, AfterCreate(c))
      <3>1. PICK a \in {"role", "session", "risk"} : Go(c, a)
        BY <2>2 DEF AfterCreate, AfterTenant
      <3>2. MovesTo(c, a, call[c].user)
        BY <2>0, <3>1, GoMoves DEF Stages, Placed
      <3> QED
        BY <1>3, <2>0, <3>1, <3>2 DEF Linked, Stages, Placed
    <2> QED
      BY <1>8, <2>1, <2>2 DEF CreatePersonal
  <1>9. ASSUME NEW c \in Calls, SetFirstRole(c)
        PROVE  SubjectsKept'
    <2>0. /\ call[c].at = "role" /\ call[c] \in CallRecord /\ Go(c, "risk")
          /\ UNCHANGED <<identity, signedIn, raced>>
      BY <1>9, AtStage DEF SetFirstRole, Stages, Placed
    <2>1. MovesTo(c, "risk", call[c].user)
      BY <2>0, GoMoves DEF Stages, Placed
    <2> QED
      BY <1>3, <2>0, <2>1 DEF Linked, Stages, Placed
  <1>10. ASSUME NEW c \in Calls, SamlMember(c) \/ \E d \in Devices, b \in BOOLEAN : Risk(c, d, b)
        PROVE  SubjectsKept'
    <2>0. /\ call[c].at \in {"risk", "member"} /\ call[c] \in CallRecord
          /\ UNCHANGED <<identity, signedIn, raced>> /\ (Fail(c) \/ Go(c, "session"))
      BY <1>10, AtStage DEF SamlMember, Risk, Stages, Placed
    <2>1. CASE Fail(c)
      BY <1>4, <2>0, <2>1, FailEnds
    <2>2. CASE Go(c, "session")
      <3>1. MovesTo(c, "session", call[c].user)
        BY <2>0, <2>2, GoMoves DEF Stages, Placed
      <3>2. call[c].at = "member" => call[c].subject = NoOne
        BY DEF SubjectsKept
      <3> QED
        BY <1>3, <2>0, <3>1, <3>2 DEF Linked, Stages, Placed
    <2> QED
      BY <2>0, <2>1, <2>2
  <1>11. ASSUME NEW c \in Calls, LoginAborted(c)
        PROVE  SubjectsKept'
    BY <1>4, <1>11, FailEnds DEF LoginAborted
  <1>12. ASSUME NEW c \in Calls, LinkIdentity(c)
        PROVE  SubjectsKept'
    <2>0. /\ call[c].at = "link" /\ call[c] \in CallRecord /\ Go(c, "tenants")
          /\ UNCHANGED <<signedIn, raced>>
      BY <1>12, AtStage DEF LinkIdentity, Stages, Placed
    <2>1. call[c].user \in Emails /\ call[c].subject \in Subjects
      BY <2>0 DEF StagesKnown, Placed
    <2>2. MovesTo(c, "tenants", call[c].user)
      BY <2>0, GoMoves DEF Stages, Placed
    <2>3. /\ \A d \in Calls : d # c => call'[d] = call[d]
          /\ InCall(c) /\ call'[c].subject = call[c].subject
          /\ call'[c].at = "tenants" /\ call'[c].user = call[c].user
      BY <2>2, InCallAfter DEF MovesTo
    <2>4. /\ \A s \in Subjects : s # call[c].subject => identity'[s] = identity[s]
          /\ identity[call[c].subject] = NoOne => identity'[call[c].subject] = call[c].user
      BY <1>12, <2>1 DEF LinkIdentity, LoginShape
    <2>5. ASSUME NEW s \in Subjects, s # NoOne, <<"subject", s>> \notin raced
          PROVE  SubjectAlone(s)'
      <3>1. SubjectAlone(s)
        BY <2>5 DEF SubjectsKept
      <3>2. \A d, e \in Calls : InCall(d)' /\ InCall(e)' /\ call'[d].subject = s /\ call'[e].subject = s => d = e
        BY <2>3, <3>1 DEF SubjectAlone, InCall
      <3>3. CASE s # call[c].subject
        <4>1. identity'[s] = identity[s] /\ UNCHANGED signedIn
          BY <2>0, <2>4, <3>3
        <4>2. \A d \in Calls : call'[d].subject = s => call'[d] = call[d]
          BY <2>3, <3>3
        <4> QED
          BY <3>1, <3>2, <4>1, <4>2, SubjectAloneAfter DEF SubjectAlone
      <3>4. CASE s = call[c].subject
        <4>1. identity[s] = NoOne /\ identity'[s] = call[c].user
          BY <2>0, <2>4, <3>1, <3>4 DEF SubjectAlone, Unlinked
        <4>2. \A a \in signedIn' : a.subject = s => identity'[s] = a.user
          <5>1. \A a \in signedIn : a.subject # s
            BY <3>1, <4>1, LoginAssumption DEF SubjectAlone, LoginShape, SignedRecord
          <5> QED
            BY <2>0, <5>1
        <4>3. \A d \in Calls : call'[d].at \in Linked \cup Unlinked /\ call'[d].subject = s => d = c
          <5>1. \A d \in Calls : d # c /\ call'[d].at \in Linked \cup Unlinked => InCall(d)
            BY <2>3 DEF InCall, Linked, Unlinked
          <5> QED
            BY <2>3, <3>1, <3>4, <5>1 DEF SubjectAlone
        <4>4. call'[c].at \notin Unlinked
          BY <2>3 DEF Unlinked
        <4> QED
          BY <2>3, <3>2, <4>1, <4>2, <4>3, <4>4, SubjectAloneAfter
      <3> QED
        BY <3>3, <3>4
    <2>6. \A d \in Calls : call'[d].at = "member" => call'[d].subject = NoOne
      BY <2>3 DEF SubjectsKept
    <2> QED
      BY <2>0, <2>5, <2>6 DEF SubjectsKept
  <1>13. ASSUME NEW c \in Calls, LinkLost(c)
        PROVE  SubjectsKept'
    <2>0. /\ call[c].at = "link" /\ call[c] \in CallRecord /\ Go(c, "tenants")
          /\ UNCHANGED <<identity, signedIn>> /\ raced' = raced \cup {<<"subject", call[c].subject>>}
      BY <1>13, AtStage DEF LinkLost, Stages, Placed
    <2>1. MovesTo(c, "tenants", call[c].user)
      BY <2>0, GoMoves DEF Stages, Placed
    <2> QED
      BY <2>0, <2>1, SubjectFrame
  <1>14. ASSUME NEW c \in Calls, CreateSession(c)
        PROVE  SubjectsKept'
    <2>0. /\ call[c].at = "session" /\ UNCHANGED <<identity, raced>>
          /\ ~InCall(c)' /\ \A d \in Calls : d # c => call'[d] = call[d]
      BY <1>14, LoginEffects, InCallAfter DEF CreateSession
    <2>1. \A a \in signedIn' : a \in signedIn \/ (a.user = call[c].user /\ a.subject = call[c].subject)
      BY <1>14, SessionOfCall
    <2>2. call'[c].at \notin Unlinked \cup Linked \cup {"member"}
      BY <2>0 DEF InCall, Unlinked, Linked
    <2>3. ASSUME NEW s \in Subjects, s # NoOne, <<"subject", s>> \notin raced
          PROVE  SubjectAlone(s)'
      <3>1. SubjectAlone(s)
        BY <2>3 DEF SubjectsKept
      <3>2. \A d, e \in Calls : InCall(d)' /\ InCall(e)' /\ call'[d].subject = s /\ call'[e].subject = s => d = e
        BY <2>0, <3>1 DEF SubjectAlone, InCall
      <3>3. \A a \in signedIn' : a.subject = s => identity'[s] = a.user
        BY <2>0, <2>1, <3>1 DEF SubjectAlone, Linked
      <3> QED
        BY <2>0, <2>2, <3>1, <3>2, <3>3, SubjectAloneAfter DEF SubjectAlone
    <2> QED
      BY <2>0, <2>2, <2>3 DEF SubjectsKept
  <1>15. ASSUME NEW c \in Calls, NEW s0 \in Subjects, Unlink(c, s0)
        PROVE  SubjectsKept'
    <2>0. /\ UNCHANGED signedIn /\ raced' = raced \cup {<<"subject", s0>>}
          /\ ~InCall(c)' /\ \A d \in Calls : d # c => call'[d] = call[d]
      BY <1>15, LoginEffects, InCallAfter DEF Unlink
    <2>1. \A s \in Subjects : s # s0 => identity'[s] = identity[s]
      BY <1>15 DEF Unlink, LoginShape
    <2>2. call'[c].at \notin Unlinked \cup Linked \cup {"member"}
      BY <2>0 DEF InCall, Unlinked, Linked
    <2>3. ASSUME NEW s \in Subjects, s # NoOne, <<"subject", s>> \notin raced'
          PROVE  SubjectAlone(s)'
      <3>1. SubjectAlone(s) /\ s # s0
        BY <2>0, <2>3 DEF SubjectsKept
      <3>2. \A d, e \in Calls : InCall(d)' /\ InCall(e)' /\ call'[d].subject = s /\ call'[e].subject = s => d = e
        BY <2>0, <3>1 DEF SubjectAlone, InCall
      <3>3. \A a \in signedIn' : a.subject = s => identity'[s] = a.user
        BY <2>0, <2>1, <3>1 DEF SubjectAlone
      <3> QED
        BY <2>0, <2>1, <2>2, <3>1, <3>2, <3>3, SubjectAloneAfter DEF SubjectAlone
    <2> QED
      BY <2>0, <2>2, <2>3 DEF SubjectsKept
  <1>16. ASSUME NEW c \in Calls, NEW a, NEW t, NEW s0, NEW u,
               Begins(c, a, t, s0, u), UNCHANGED <<identity, signedIn>>, raced \subseteq raced',
               a = "member" => s0 = NoOne,
               \/ s0 = NoOne
               \/ a = "subject" /\ (<<"subject", s0>> \notin raced' =>
                                      \A d \in Busy : call[d].subject # s0)
        PROVE  SubjectsKept'
    <2>0. /\ call'[c].at = a /\ call'[c].subject = s0
          /\ \A d \in Calls : d # c => call'[d] = call[d]
      BY <1>16 DEF Begins
    <2>1. ASSUME NEW s \in Subjects, s # NoOne, <<"subject", s>> \notin raced'
          PROVE  SubjectAlone(s)'
      <3>1. SubjectAlone(s)
        BY <1>16, <2>1 DEF SubjectsKept
      <3>2. s0 = s => a = "subject" /\ \A d \in Calls : InCall(d) => call[d].subject # s
        BY <1>16, <2>1, InCallRecord
      <3>3. \A d, e \in Calls : InCall(d)' /\ InCall(e)' /\ call'[d].subject = s /\ call'[e].subject = s => d = e
        BY <2>0, <3>1, <3>2 DEF SubjectAlone, InCall
      <3>4. "subject" \notin Unlinked \cup Linked
        BY DEF Unlinked, Linked
      <3>5. \A d \in Calls : call'[d].subject = s /\ call'[d].at \in Unlinked \cup Linked => d # c
        BY <2>0, <3>2, <3>4
      <3>6. \A d \in Calls : call'[d].at \in Unlinked /\ call'[d].subject = s => identity'[s] = NoOne
        BY <1>16, <2>0, <3>1, <3>5 DEF SubjectAlone
      <3>7. \A d \in Calls : call'[d].at \in Linked /\ call'[d].subject = s => identity'[s] = call'[d].user
        BY <1>16, <2>0, <3>1, <3>5 DEF SubjectAlone
      <3>8. \A b \in signedIn' : b.subject = s => identity'[s] = b.user
        BY <1>16, <3>1 DEF SubjectAlone
      <3> QED
        BY <3>3, <3>6, <3>7, <3>8, SubjectAloneAfter
    <2>2. \A d \in Calls : call'[d].at = "member" => call'[d].subject = NoOne
      BY <1>16, <2>0 DEF SubjectsKept
    <2> QED
      BY <2>1, <2>2 DEF SubjectsKept
  <1>17. ASSUME NEW c \in Calls, NEW f \in Flows, NEW s \in Subjects, NEW e \in Emails,
               NEW v \in BOOLEAN, Callback(c, f, s, e, v)
        PROVE  SubjectsKept'
    <2>1. Begins(c, "subject", f, s, NoOne)
      BY <1>17, LoginEffects
    <2>2. /\ UNCHANGED <<identity, signedIn>> /\ raced \subseteq raced'
          /\ <<"subject", s>> \notin raced' => \A d \in Busy : call[d].subject # s
      BY <1>17 DEF Callback
    <2> QED
      BY <1>16, <2>1, <2>2
  <1>18. ASSUME NEW c \in Calls, NEW l \in Links, NEW e \in Emails, MagicVerify(c, l, e)
        PROVE  SubjectsKept'
    <2>1. Begins(c, "email", l, NoOne, NoOne) /\ UNCHANGED <<identity, signedIn, raced>>
      BY <1>18, LoginEffects DEF MagicVerify
    <2> QED
      BY <1>16, <2>1
  <1>19. ASSUME NEW c \in Calls, NEW e \in Emails, SamlCallback(c, e) \/ UnlinkCount(c, e)
        PROVE  SubjectsKept'
    <2>1. /\ \E a : Begins(c, a, NoOne, NoOne, e)
          /\ UNCHANGED <<identity, signedIn>> /\ raced \subseteq raced'
      BY <1>19, LoginEffects DEF SamlCallback, UnlinkCount
    <2> QED
      BY <1>16, <2>1
  <1>20. ASSUME NEW c \in Calls, Advances(c)
        PROVE  SubjectsKept'
    BY <1>2, <1>5, <1>6, <1>7, <1>8, <1>9, <1>10, <1>11, <1>12, <1>13, <1>20 DEF Advances
  <1> QED
    BY <1>1, <1>14, <1>15, <1>17, <1>18, <1>19, <1>20, LoginCases

(* Two personal tenants never have one slug. *)
SlugsApart ==
  \A t, v \in Calls :
    tenant[t] # NoTenant /\ tenant[v] # NoTenant /\ tenant[t].slug = tenant[v].slug => t = v

(* A user whose unlinks do not overlap: one of them at most is on its way, *)
(* and it has counted two identities that are still there.                 *)
UnlinkAlone(e) ==
  /\ \A c, d \in Calls :
       (call[c].at = "unlink" /\ call[c].user = e /\ call[d].at = "unlink" /\ call[d].user = e) => c = d
  /\ \A c \in Calls : call[c].at = "unlink" /\ call[c].user = e =>
       \E s, r \in Subjects : s # r /\ identity[s] = e /\ identity[r] = e
UnlinksKept == \A e \in Emails : <<"unlink", e>> \notin raced => UnlinkAlone(e)

(* The slug of a tenant never changes, and a new one takes a free slug. *)
LEMMA LoginStepSlugs ==
  LoginShape /\ StagesKnown /\ SlugsApart /\ [LoginNext]_loginVars => SlugsApart'
  <1> SUFFICES ASSUME LoginShape, StagesKnown, SlugsApart, [LoginNext]_loginVars
               PROVE  SlugsApart'
    OBVIOUS
  <1>1. ASSUME UNCHANGED tenant
        PROVE  SlugsApart'
    BY <1>1 DEF SlugsApart, NoTenant
  <1>2. ASSUME NEW c \in Calls, CreatePersonal(c)
        PROVE  SlugsApart'
    <2>1. CASE \E t \in Calls : tenant[t] # NoTenant /\ tenant[t].slug = LocalPart[call[c].email]
      BY <1>1, <1>2, <2>1 DEF CreatePersonal
    <2>2. CASE ~\E t \in Calls : tenant[t] # NoTenant /\ tenant[t].slug = LocalPart[call[c].email]
      <3>1. tenant' = [tenant EXCEPT ![c] = NewTenant(c)]
        BY <1>2, <2>2 DEF CreatePersonal
      <3>2. NewTenant(c).slug = LocalPart[call[c].email]
        BY DEF NewTenant
      <3>3. tenant'[c] = NewTenant(c) /\ \A t \in Calls : t # c => tenant'[t] = tenant[t]
        BY <3>1 DEF LoginShape
      <3>4. \A t, v \in Calls : tenant'[t] # NoTenant /\ tenant'[v] # NoTenant
                                /\ tenant'[t].slug = tenant'[v].slug => t = v
        BY <2>2, <3>2, <3>3 DEF SlugsApart
      <3> QED
        BY <3>4 DEF SlugsApart, NoTenant
    <2> QED
      BY <2>1, <2>2
  <1>3. ASSUME NEW c \in Calls, SetFirstRole(c)
        PROVE  SlugsApart'
    <2>1. CASE UNCHANGED tenant
      BY <1>1, <2>1
    <2>2. CASE tenant' = [tenant EXCEPT ![c].role = FirstRole[call[c].email]]
      <3>0. call[c].at = "role" /\ tenant[c] \in TenantRecord
        BY <1>3 DEF SetFirstRole, StagesKnown
      <3>1. tenant[c] # NoTenant
        BY <3>0, LoginAssumption DEF TenantRecord, NoTenant
      <3> DEFINE r == [tenant[c] EXCEPT !.role = FirstRole[call[c].email]]
      <3>2. r.slug = tenant[c].slug
        BY <3>0 DEF TenantRecord
      <3> HIDE DEF r
      <3>3. tenant'[c] = r /\ \A t \in Calls : t # c => tenant'[t] = tenant[t]
        BY <2>2 DEF LoginShape, r
      <3>4. \A t, v \in Calls : tenant'[t] # NoTenant /\ tenant'[v] # NoTenant
                                /\ tenant'[t].slug = tenant'[v].slug => t = v
        BY <3>1, <3>2, <3>3 DEF SlugsApart
      <3> QED
        BY <3>4 DEF SlugsApart, NoTenant
    <2> QED
      BY <1>3, <2>1, <2>2 DEF SetFirstRole
  <1>4. ASSUME NEW c \in Calls, Advances(c)
        PROVE  SlugsApart'
    BY <1>1, <1>2, <1>3, <1>4 DEF Advances, FindBySubject, FindByEmail, OidcUpsert, MagicUpsert,
       UpsertUser, LinkIdentity, LinkLost, FindTenants, SamlMember, LoginAborted, Risk
  <1>5. ASSUME NEW c \in Calls,
               \/ CreateSession(c) \/ \E s \in Subjects : Unlink(c, s)
               \/ \E f \in Flows, s \in Subjects, e \in Emails, v \in BOOLEAN : Callback(c, f, s, e, v)
               \/ \E l \in Links, e \in Emails : MagicVerify(c, l, e)
               \/ \E e \in Emails : SamlCallback(c, e)
               \/ \E e \in Emails : UnlinkCount(c, e)
        PROVE  SlugsApart'
    BY <1>1, <1>5 DEF CreateSession, Unlink, Callback, MagicVerify, SamlCallback, UnlinkCount
  <1>6. CASE UNCHANGED loginVars \/ \E t \in Flows \cup Links : TicketStep(t)
    BY <1>1, <1>6 DEF loginVars, TicketStep, BeginOidcFlow, SendMagicLink, TicketExpires
  <1> QED
    BY <1>4, <1>5, <1>6, LoginCases

(* A user has at most one personal tenant under its own slug. *)
LEMMA SlugsApartGive == LoginShape /\ SlugsApart => OnePersonalTenant
  <1> SUFFICES ASSUME LoginShape, SlugsApart, NEW e \in Emails,
                      \A t \in {v \in Calls : tenant[v].owner = e} : tenant[t].slug = LocalPart[e]
               PROVE  Cardinality({v \in Calls : tenant[v].owner = e}) <= 1
    BY DEF OnePersonalTenant
  <1> DEFINE own == {v \in Calls : tenant[v].owner = e}
  <1>1. \A t \in own : tenant[t] # NoTenant
    BY LoginAssumption DEF NoTenant
  <1>2. \A t, v \in own : t = v
    BY <1>1 DEF SlugsApart
  <1>3. CASE own = {}
    BY <1>3, FS_EmptySet
  <1>4. CASE own # {}
    <2>1. PICK t \in own : own = {t}
      BY <1>2, <1>4
    <2>2. Cardinality(own) = 1
      BY <2>1, FS_Singleton
    <2> QED
      BY <2>2
  <1> QED
    BY <1>3, <1>4

(* A statement of a login never starts an unlink, and a linked subject     *)
(* keeps its user.                                                         *)
LEMMA AdvancesQuietly ==
  ASSUME LoginShape, StagesKnown, NEW c \in Calls, Advances(c)
  PROVE  /\ call'[c].at # "unlink" /\ \A d \in Calls : d # c => call'[d] = call[d]
         /\ raced \subseteq raced'
         /\ \A s \in Subjects : identity[s] # NoOne => identity'[s] = identity[s]
  <1>1. \A d \in Calls : d # c => call'[d] = call[d]
    BY LoginEffects DEF AdvancesTo, EndsCall, MovesTo
  <1>2. raced \subseteq raced' /\ \A s \in Subjects : identity[s] # NoOne => identity'[s] = identity[s]
    <2>1. CASE LinkIdentity(c)
      BY <2>1 DEF LinkIdentity, LoginShape
    <2>2. CASE ~LinkIdentity(c)
      BY <2>2 DEF Advances, FindBySubject, FindByEmail, OidcUpsert, MagicUpsert,
         UpsertUser, LinkLost, FindTenants, SamlMember, LoginAborted, Risk, CreatePersonal, SetFirstRole
    <2> QED
      BY <2>1, <2>2
  <1>3. call'[c].at # "unlink"
    <2>1. ASSUME NEW a \in Stages, call[c].at \in Stages, Go(c, a), a # "unlink"
          PROVE  call'[c].at # "unlink"
      BY <2>1, AtStage, GoMoves DEF MovesTo
    <2>2. ASSUME NEW a \in Stages, NEW e \in Emails, call[c].at \in Stages, As(c, e, a), a # "unlink"
          PROVE  call'[c].at # "unlink"
      BY <2>2, AtStage, AsMoves DEF MovesTo
    <2>3. ASSUME Fail(c)
          PROVE  call'[c].at # "unlink"
      BY <2>3, FailEnds DEF EndsCall, Done
    <2>4. CASE FindBySubject(c)
      <3>1. call[c].at \in Stages /\ call[c].subject \in Subjects
        BY <2>4, AtStage DEF FindBySubject, Stages, StagesKnown
      <3>2. identity[call[c].subject] # NoOne => identity[call[c].subject] \in Emails
        BY <3>1 DEF LoginShape
      <3> QED
        BY <2>1, <2>2, <2>4, <3>1, <3>2 DEF FindBySubject, Stages, Placed
    <2>5. CASE FindByEmail(c) \/ OidcUpsert(c) \/ MagicUpsert(c)
      <3>1. call[c].at \in {"email", "upsert"}
        BY <2>5 DEF FindByEmail, OidcUpsert, MagicUpsert
      <3>2. call[c].at \in Stages /\ call[c].email \in Emails
        BY <3>1, AtStage DEF Stages, CallRecord
      <3>3. \/ Fail(c) \/ Go(c, "upsert") \/ As(c, call[c].email, "tenants")
            \/ As(c, call[c].email, "link")
        BY <2>5 DEF FindByEmail, OidcUpsert, MagicUpsert, UpsertUser
      <3> QED
        BY <2>1, <2>2, <2>3, <3>2, <3>3 DEF Stages, Placed
    <2>6. CASE LinkIdentity(c) \/ LinkLost(c) \/ SetFirstRole(c) \/ SamlMember(c)
               \/ \E d \in Devices, changed \in BOOLEAN : Risk(c, d, changed)
      <3>1. call[c].at \in Stages /\ (Fail(c) \/ Go(c, "tenants") \/ Go(c, "risk") \/ Go(c, "session"))
        BY <2>6 DEF LinkIdentity, LinkLost, SetFirstRole, SamlMember, Risk, Stages, Placed
      <3> QED
        BY <2>1, <2>3, <3>1 DEF Stages, Placed
    <2>7. CASE FindTenants(c) \/ CreatePersonal(c)
      <3>1. \/ Fail(c) \/ Go(c, "create tenant") \/ Go(c, "risk") \/ Go(c, "session") \/ Go(c, "role")
        BY <2>7 DEF FindTenants, CreatePersonal, AfterTenant, AfterCreate
      <3>2. call[c].at \in Stages
        BY <2>7 DEF FindTenants, CreatePersonal, Stages, Placed
      <3> QED
        BY <2>1, <2>3, <3>1, <3>2 DEF Stages, Placed
    <2>8. CASE LoginAborted(c)
      BY <2>3, <2>8 DEF LoginAborted
    <2> QED
      BY <2>4, <2>5, <2>6, <2>7, <2>8 DEF Advances
  <1> QED
    BY <1>1, <1>2, <1>3

(* A step that starts no unlink and frees no identity. *)
LEMMA UnlinkFrame ==
  ASSUME UnlinksKept, raced \subseteq raced',
         \A d \in Calls : call'[d].at = "unlink" => call'[d] = call[d],
         \A s \in Subjects : identity[s] # NoOne => identity'[s] = identity[s]
  PROVE  UnlinksKept'
  <1> SUFFICES ASSUME NEW e \in Emails, <<"unlink", e>> \notin raced'
               PROVE  UnlinkAlone(e)'
    BY DEF UnlinksKept
  <1>1. UnlinkAlone(e)
    BY DEF UnlinksKept
  <1>2. \A s \in Subjects : identity[s] = e => identity'[s] = e
    BY LoginAssumption
  <1>3. ASSUME NEW c \in Calls, call'[c].at = "unlink", call'[c].user = e
        PROVE  \E s, r \in Subjects : s # r /\ identity'[s] = e /\ identity'[r] = e
    <2>1. call[c].at = "unlink" /\ call[c].user = e
      BY <1>3
    <2>2. PICK s, r \in Subjects : s # r /\ identity[s] = e /\ identity[r] = e
      BY <1>1, <2>1 DEF UnlinkAlone
    <2> QED
      BY <1>2, <2>2
  <1>4. \A c, d \in Calls : call'[c].at = "unlink" /\ call'[c].user = e /\ call'[d].at = "unlink"
                          /\ call'[d].user = e => c = d
    BY <1>1 DEF UnlinkAlone
  <1> QED
    BY <1>3, <1>4 DEF UnlinkAlone

(* Two of the counted identities. *)
LEMMA TwoLinked ==
  ASSUME NEW e, Cardinality(LinkedTo(e)) > 1
  PROVE  \E s, r \in Subjects : s # r /\ identity[s] = e /\ identity[r] = e
  <1>1. IsFiniteSet(LinkedTo(e))
    <2>1. LinkedTo(e) \subseteq Subjects
      BY DEF LinkedTo
    <2> QED
      BY <2>1, FS_Subset, LoginAssumption
  <1>2. LinkedTo(e) # {}
    BY FS_EmptySet
  <1>3. PICK s \in LinkedTo(e) : TRUE
    BY <1>2
  <1>4. LinkedTo(e) # {s}
    <2>1. Cardinality({s}) = 1
      BY FS_Singleton
    <2> QED
      BY <2>1
  <1>5. PICK r \in LinkedTo(e) : r # s
    BY <1>3, <1>4
  <1> QED
    BY <1>3, <1>5 DEF LinkedTo

(* An unlink that overlaps no other leaves an identity. *)
LEMMA LoginStepUnlink ==
  LoginShape /\ StagesKnown /\ UnlinksKept /\ [LoginNext]_loginVars => UnlinksKept'
  <1> SUFFICES ASSUME LoginShape, StagesKnown, UnlinksKept, [LoginNext]_loginVars
               PROVE  UnlinksKept'
    OBVIOUS
  <1>1. CASE UNCHANGED loginVars \/ \E t \in Flows \cup Links : TicketStep(t)
    <2>1. UNCHANGED <<call, identity, raced>>
      BY <1>1 DEF loginVars, TicketStep, BeginOidcFlow, SendMagicLink, TicketExpires
    <2> QED
      BY <2>1, UnlinkFrame
  <1>2. ASSUME NEW c \in Calls, Advances(c)
        PROVE  UnlinksKept'
    BY <1>2, AdvancesQuietly, UnlinkFrame
  <1>3. ASSUME NEW c \in Calls, CreateSession(c)
        PROVE  UnlinksKept'
    <2>1. EndsCall(c) /\ UNCHANGED <<identity, raced>>
      BY <1>3, LoginEffects DEF CreateSession
    <2>2. \A d \in Calls : call'[d].at = "unlink" => call'[d] = call[d]
      BY <2>1 DEF EndsCall, Done
    <2> QED
      BY <2>1, <2>2, UnlinkFrame
  <1>4. ASSUME NEW c \in Calls, NEW a, NEW t, NEW s, NEW u, a # "unlink", Begins(c, a, t, s, u),
               UNCHANGED identity, raced \subseteq raced'
        PROVE  UnlinksKept'
    <2>2. \A d \in Calls : call'[d].at = "unlink" => call'[d] = call[d]
      BY <1>4 DEF Begins
    <2> QED
      BY <1>4, <2>2, UnlinkFrame
  <1>5. ASSUME NEW c \in Calls,
               \/ \E f \in Flows, s \in Subjects, e \in Emails, v \in BOOLEAN : Callback(c, f, s, e, v)
               \/ \E l \in Links, e \in Emails : MagicVerify(c, l, e)
               \/ \E e \in Emails : SamlCallback(c, e)
        PROVE  UnlinksKept'
    <2>1. UNCHANGED identity /\ raced \subseteq raced'
      BY <1>5 DEF Callback, MagicVerify, SamlCallback
    <2> QED
      BY <1>4, <1>5, <2>1, LoginEffects
  <1>6. ASSUME NEW c \in Calls, NEW s0 \in Subjects, Unlink(c, s0)
        PROVE  UnlinksKept'
    <2>0. /\ EndsCall(c) /\ identity' = [identity EXCEPT ![s0] = NoOne] /\ raced \subseteq raced'
          /\ call[c].at = "unlink" /\ identity[s0] = call[c].user
      BY <1>6, LoginEffects DEF Unlink
    <2>1. ASSUME NEW e \in Emails, <<"unlink", e>> \notin raced'
          PROVE  UnlinkAlone(e)'
      <3>1. UnlinkAlone(e)
        BY <2>0, <2>1 DEF UnlinksKept
      <3>2. \A d \in Calls : call'[d].at = "unlink" => d # c /\ call'[d] = call[d]
        BY <2>0 DEF EndsCall, Done
      <3>3. ASSUME NEW d \in Calls, call'[d].at = "unlink", call'[d].user = e
            PROVE  \E s, r \in Subjects : s # r /\ identity'[s] = e /\ identity'[r] = e
        <4>1. d # c /\ call[d].at = "unlink" /\ call[d].user = e
          BY <3>2, <3>3
        <4>2. call[c].user # e
          BY <2>0, <3>1, <4>1 DEF UnlinkAlone
        <4>3. PICK s, r \in Subjects : s # r /\ identity[s] = e /\ identity[r] = e
          BY <3>1, <4>1 DEF UnlinkAlone
        <4>4. s # s0 /\ r # s0
          BY <2>0, <4>2, <4>3
        <4>5. identity'[s] = e /\ identity'[r] = e
          BY <2>0, <4>3, <4>4 DEF LoginShape
        <4> QED
          BY <4>3, <4>5
      <3>4. \A b, d \in Calls : call'[b].at = "unlink" /\ call'[b].user = e /\ call'[d].at = "unlink"
                              /\ call'[d].user = e => b = d
        BY <3>1, <3>2 DEF UnlinkAlone
      <3> QED
        BY <3>3, <3>4 DEF UnlinkAlone
    <2> QED
      BY <2>1 DEF UnlinksKept
  <1>7. ASSUME NEW c \in Calls, NEW e0 \in Emails, UnlinkCount(c, e0)
        PROVE  UnlinksKept'
    <2>0. /\ Begins(c, "unlink", NoOne, NoOne, e0) /\ UNCHANGED identity /\ raced \subseteq raced'
          /\ <<"unlink", e0>> \notin raced' => \A d \in Busy : call[d].at # "unlink"
      BY <1>7, LoginEffects DEF UnlinkCount
    <2>1. \E s, r \in Subjects : s # r /\ identity[s] = e0 /\ identity[r] = e0
      BY <1>7, TwoLinked DEF UnlinkCount
    <2>2. \A d \in Calls : d # c => call'[d] = call[d]
      BY <2>0 DEF Begins
    <2>3. call'[c].user = e0
      BY <2>0 DEF Begins
    <2>4. ASSUME NEW e \in Emails, <<"unlink", e>> \notin raced'
          PROVE  UnlinkAlone(e)'
      <3>1. UnlinkAlone(e)
        BY <2>0, <2>4 DEF UnlinksKept
      <3>2. e = e0 => \A d \in Calls : call[d].at # "unlink"
        <4>1. \A d \in Calls : call[d].at = "unlink" => d \in Busy
          BY AtStage DEF Stages, Placed
        <4> QED
          BY <2>0, <2>4, <4>1
      <3>3. \A b, d \in Calls : call'[b].at = "unlink" /\ call'[b].user = e /\ call'[d].at = "unlink"
                              /\ call'[d].user = e => b = d
        BY <2>2, <2>3, <3>1, <3>2 DEF UnlinkAlone
      <3>4. \A d \in Calls : call'[d].at = "unlink" /\ call'[d].user = e =>
              \E s, r \in Subjects : s # r /\ identity[s] = e /\ identity[r] = e
        BY <2>1, <2>2, <2>3, <3>1 DEF UnlinkAlone
      <3> QED
        BY <2>0, <3>3, <3>4 DEF UnlinkAlone
    <2> QED
      BY <2>4 DEF UnlinksKept
  <1> QED
    BY <1>1, <1>2, <1>3, <1>5, <1>6, <1>7, LoginCases

(* The inductive invariant of the logins. *)
LoginInv ==
  LoginShape /\ StagesKnown /\ TicketHeldOnce /\ SubjectsKept /\ SlugsApart /\ UnlinksKept

(* No ticket is out and no identity linked initially. *)
LEMMA LoginInitInv == LoginInit => LoginInv
  <1> SUFFICES ASSUME LoginInit PROVE LoginInv
    OBVIOUS
  <1>1. LoginShape
    BY LoginAssumption DEF LoginInit, LoginShape
  <1>2. \A c \in Calls : call[c] = Unused /\ call[c].at = "unused" /\ tenant[c] = NoTenant
    BY DEF LoginInit, Unused
  <1>3. signedIn = {}
    BY DEF LoginInit
  <1>4. StagesKnown
    BY <1>2 DEF StagesKnown, Placed
  <1>5. \A c \in Calls : ~InCall(c)
    BY <1>2 DEF InCall
  <1>6. SubjectsKept
    BY <1>2, <1>3, <1>5 DEF SubjectsKept, SubjectAlone, Unlinked, Linked
  <1>7. SlugsApart /\ UnlinksKept
    BY <1>2 DEF SlugsApart, UnlinksKept, UnlinkAlone
  <1>8. TicketHeldOnce
    BY <1>3, <1>5 DEF TicketHeldOnce, HoldsTicket, TicketOpensOneSession
  <1> QED
    BY <1>1, <1>4, <1>6, <1>7, <1>8 DEF LoginInv

(* Every step of the logins keeps their invariant. *)
LEMMA LoginStepInv == LoginInv /\ [LoginNext]_loginVars => LoginInv'
  BY LoginStepShape, LoginStepTicket, LoginStepSubject, LoginStepSlugs, LoginStepUnlink DEF LoginInv

(* The inductive invariant of the logins contains the parts the run        *)
(* checks.                                                                 *)
LEMMA LoginInvGives ==
  LoginInv => TicketOpensOneSession /\ OneUserPerSubject /\ OnePersonalTenant
  <1> SUFFICES ASSUME LoginInv PROVE TicketOpensOneSession /\ OneUserPerSubject /\ OnePersonalTenant
    OBVIOUS
  <1>1. OnePersonalTenant
    BY SlugsApartGive DEF LoginInv
  <1>2. TicketOpensOneSession
    BY DEF LoginInv, TicketHeldOnce, TicketOpensOneSession
  <1>3. ASSUME NEW a \in signedIn, NEW b \in signedIn, a.subject = b.subject, a.subject # NoOne,
               <<"subject", a.subject>> \notin raced
        PROVE  a.user = b.user
    <2>1. a.subject \in Subjects
      BY <1>3 DEF LoginInv, LoginShape, SignedRecord
    <2> QED
      BY <1>3, <2>1 DEF LoginInv, SubjectsKept, SubjectAlone
  <1> QED
    BY <1>1, <1>2, <1>3 DEF OneUserPerSubject

(* What a step may do to an identity. *)
KeepsItsUser == \A s \in Subjects : identity[s] # NoOne => identity'[s] \in {identity[s], NoOne}
KeepsTheLast ==
  \A e \in Emails :
    <<"unlink", e>> \notin raced' /\ LinkedTo(e) # {} => \E s \in Subjects : identity'[s] = e

(* No step moves an identity to another user or takes the last one of a    *)
(* user.                                                                   *)
LEMMA LoginStepIdentity == LoginInv /\ [LoginNext]_loginVars => KeepsItsUser /\ KeepsTheLast
  <1> SUFFICES ASSUME LoginInv, [LoginNext]_loginVars
               PROVE  KeepsItsUser /\ KeepsTheLast
    OBVIOUS
  <1> USE DEF LoginInv
  <1>1. ASSUME \A s \in Subjects : identity[s] # NoOne => identity'[s] = identity[s]
        PROVE  KeepsItsUser /\ KeepsTheLast
    BY <1>1, LoginAssumption DEF KeepsItsUser, KeepsTheLast, LinkedTo
  <1>2. CASE UNCHANGED loginVars \/ \E t \in Flows \cup Links : TicketStep(t)
    BY <1>1, <1>2 DEF loginVars, TicketStep, BeginOidcFlow, SendMagicLink, TicketExpires
  <1>3. ASSUME NEW c \in Calls, Advances(c)
        PROVE  KeepsItsUser /\ KeepsTheLast
    BY <1>1, <1>3, AdvancesQuietly
  <1>4. ASSUME NEW c \in Calls,
               \/ CreateSession(c)
               \/ \E f \in Flows, s \in Subjects, e \in Emails, v \in BOOLEAN : Callback(c, f, s, e, v)
               \/ \E l \in Links, e \in Emails : MagicVerify(c, l, e)
               \/ \E e \in Emails : SamlCallback(c, e)
               \/ \E e \in Emails : UnlinkCount(c, e)
        PROVE  KeepsItsUser /\ KeepsTheLast
    BY <1>1, <1>4 DEF CreateSession, Callback, MagicVerify, SamlCallback, UnlinkCount
  <1>5. ASSUME NEW c \in Calls, NEW s0 \in Subjects, Unlink(c, s0)
        PROVE  KeepsItsUser /\ KeepsTheLast
    <2>0. /\ call[c].at = "unlink" /\ identity[s0] = call[c].user /\ raced \subseteq raced'
          /\ identity'[s0] = NoOne /\ \A s \in Subjects : s # s0 => identity'[s] = identity[s]
      BY <1>5 DEF Unlink, LoginShape
    <2>1. KeepsItsUser
      BY <2>0 DEF KeepsItsUser
    <2>2. ASSUME NEW e \in Emails, <<"unlink", e>> \notin raced', NEW s \in Subjects, identity[s] = e
          PROVE  \E r \in Subjects : identity'[r] = e
      <3>1. CASE s # s0
        BY <2>0, <2>2, <3>1
      <3>2. CASE s = s0
        <4>1. \E p, r \in Subjects : p # r /\ identity[p] = e /\ identity[r] = e
          BY <2>0, <2>2, <3>2 DEF UnlinksKept, UnlinkAlone
        <4> QED
          BY <2>0, <4>1
      <3> QED
        BY <3>1, <3>2
    <2>3. KeepsTheLast
      BY <2>2 DEF KeepsTheLast, LinkedTo
    <2> QED
      BY <2>1, <2>3
  <1> QED
    BY <1>2, <1>3, <1>4, <1>5, LoginCases

-----------------------------------------------------------------------------
(* Memberships.  A request that is alone acts on what it has read: the     *)
(* role of its target, and the number of owners.                           *)

Roles == KnownRoles \cup {"none"}
TargetRecord ==
  [at : {"target"}, callerRole : Roles, target : Members, new : NewRoles \cup {Removal}]
WriteRecord ==
  [at : {"count", "write"}, callerRole : Roles, target : Members, new : NewRoles \cup {Removal},
   targetRole : Roles, owners : Nat]
PromoteRecord == [at : {"promote"}, to : Members]
RequestValues == {Ready, Over} \cup TargetRecord \cup WriteRecord \cup PromoteRecord
MemberRecord == [role : Roles, active : BOOLEAN]
InviteRecord == [role : KnownRoles, used : 0 .. 1, max : 0 .. 1]

MembershipShape ==
  /\ member \in [Members -> MemberRecord]
  /\ request \in [Requests -> RequestValues]
  /\ invitation \in [Invites -> {NoInvite} \cup InviteRecord]
  /\ accepted \in [Invites -> SUBSET Members]
  /\ cancelled \in [Invites -> SUBSET SUBSET Members]

(* What a request that is alone has read is still so when it writes. *)
ReadStands(k) ==
  /\ request[k].at = "count" => request[k].targetRole = "OWNER"
  /\ request[k].at = "write" =>
       /\ request[k].targetRole = "OWNER" => request[k].owners = Cardinality(Owners)
       /\ request[k].targetRole # "OWNER" => member[request[k].target].role # "OWNER"

Undisturbed ==
  /\ \A k \in Requests : request[k].at # "promote"
  /\ \A j, k \in Requests : InProgress(j) /\ InProgress(k) => j = k
  /\ \A k \in Requests : ReadStands(k)
  /\ Owners # {}
OwnersKept == ~bypassed /\ ~overlapped => Undisturbed

(* The uses of an invitation are counted, and a cancelled one has none left. *)
InvitesCounted ==
  \A i \in Invites :
    /\ Cardinality(accepted[i]) <= invitation[i].used
    /\ cancelled[i] # {} =>
         invitation[i] # NoInvite /\ invitation[i].max = 0 /\ cancelled[i] = {accepted[i]}

MembershipInv == MembershipShape /\ OwnersKept /\ InvitesCounted

(* The role of nobody is not a role. *)
LEMMA NoneIsNoRole == "none" \notin KnownRoles
  BY DEF KnownRoles, Hierarchy

(* What a request holds at each of its places. *)
LEMMA InProgressRecord ==
  ASSUME MembershipShape, NEW k \in Requests
  PROVE  /\ request[k].at = "target" => request[k] \in TargetRecord
         /\ request[k].at \in {"count", "write"} => request[k] \in WriteRecord
         /\ request[k].at = "promote" => request[k] \in PromoteRecord
  <1>1. request[k] \in RequestValues
    BY DEF MembershipShape
  <1>2. Ready.at = "ready" /\ Over.at = "over"
    BY DEF Ready, Over
  <1>3. /\ \A r \in TargetRecord : r.at = "target"
        /\ \A r \in WriteRecord : r.at \in {"count", "write"}
        /\ \A r \in PromoteRecord : r.at = "promote"
    BY DEF TargetRecord, WriteRecord, PromoteRecord
  <1> QED
    BY <1>1, <1>2, <1>3 DEF RequestValues

(* The owners of the tenant are finitely many. *)
LEMMA OwnersCounted ==
  ASSUME MembershipShape
  PROVE  IsFiniteSet(Owners) /\ Cardinality(Owners) \in Nat
  <1>1. Owners \subseteq Members
    BY DEF Owners
  <1> QED
    BY <1>1, FS_Subset, FS_CardinalityType, MembershipAssumption

(* The tenant starts with an owner and without invitations. *)
LEMMA MembershipInitInv == MembershipInit => MembershipInv
  <1> SUFFICES ASSUME MembershipInit PROVE MembershipInv
    OBVIOUS
  <1>1. member \in [Members -> MemberRecord]
    <2>1. NotMember \in MemberRecord /\ [role : NewRoles, active : {TRUE}] \subseteq MemberRecord
      BY MembershipAssumption DEF NotMember, MemberRecord, Roles
    <2> QED
      BY <2>1 DEF MembershipInit
  <1>2. MembershipShape
    BY <1>1 DEF MembershipInit, MembershipShape, RequestValues
  <1>3. \A k \in Requests : request[k].at = "ready"
    BY DEF MembershipInit, Ready
  <1>4. Founder \in Owners
    <2>1. /\ member[Founder].role = "OWNER"
          /\ member[Founder] \in {NotMember} \cup [role : NewRoles, active : {TRUE}]
      BY MembershipAssumption DEF MembershipInit
    <2>2. NotMember.role = "none"
      BY DEF NotMember
    <2>3. member[Founder] \in [role : NewRoles, active : {TRUE}]
      BY <2>1, <2>2
    <2>4. member[Founder].active
      BY <2>3
    <2> QED
      BY <2>1, <2>4, MembershipAssumption DEF Owners, Active
  <1>5. OwnersKept
    BY <1>3, <1>4 DEF OwnersKept, Undisturbed, InProgress, ReadStands
  <1>6. InvitesCounted
    BY FS_EmptySet DEF MembershipInit, InvitesCounted, NoInvite
  <1> QED
    BY <1>2, <1>5, <1>6 DEF MembershipInv

(* The shapes of the tables and of the requests. *)
LEMMA MembershipStepShape == MembershipShape /\ [MembershipNext]_membershipVars => MembershipShape'
  <1> SUFFICES ASSUME MembershipShape, [MembershipNext]_membershipVars PROVE MembershipShape'
    OBVIOUS
  <1> USE DEF NoInvite, InviteRecord
  <1>0. ASSUME member' \in [Members -> MemberRecord], request' \in [Requests -> RequestValues],
               invitation' \in [Invites -> {NoInvite} \cup InviteRecord],
               accepted' \in [Invites -> SUBSET Members],
               cancelled' \in [Invites -> SUBSET SUBSET Members]
        PROVE  MembershipShape'
    BY <1>0 DEF MembershipShape, RequestValues, TargetRecord, WriteRecord, PromoteRecord, Ready, Over,
       MemberRecord, Roles
  <1>1. ASSUME NEW k \in Requests, NEW caller \in Members, NEW target \in Members,
               NEW new \in NewRoles \cup {Removal}, RequirePermission(k, caller, target, new)
        PROVE  MembershipShape'
    <2>1. member[caller].role \in Roles
      BY DEF MembershipShape, MemberRecord
    <2>2. [at |-> "target", callerRole |-> member[caller].role, target |-> target, new |-> new]
            \in RequestValues
      BY <2>1 DEF TargetRecord, RequestValues
    <2>3. request' \in [Requests -> RequestValues]
      BY <1>1, <2>2 DEF RequirePermission, MembershipShape
    <2> QED
      BY <1>0, <1>1, <2>3 DEF RequirePermission, MembershipShape
  <1>2. ASSUME NEW k \in Requests, MemberInTenant(k)
        PROVE  MembershipShape'
    <2>0. request[k] \in TargetRecord
      BY <1>2, InProgressRecord DEF MemberInTenant
    <2>1. PICK r \in WriteRecord : request' = [request EXCEPT ![k] = r]
      <3>1. /\ request[k].callerRole \in Roles /\ request[k].target \in Members
            /\ request[k].new \in NewRoles \cup {Removal}
        BY <2>0 DEF TargetRecord
      <3>2. member[request[k].target].role \in Roles /\ Cardinality(Members) + 1 \in Nat
        BY <3>1, MembershipAssumption, FS_CardinalityType DEF MembershipShape, MemberRecord
      <3> DEFINE r == [at |-> IF member[request[k].target].role = "OWNER" THEN "count" ELSE "write",
                       callerRole |-> request[k].callerRole, target |-> request[k].target,
                       new |-> request[k].new, targetRole |-> member[request[k].target].role,
                       owners |-> Cardinality(Members) + 1]
      <3>3. r \in WriteRecord
        BY <3>1, <3>2 DEF WriteRecord
      <3>4. request' = [request EXCEPT ![k] = r]
        BY <1>2 DEF MemberInTenant
      <3> HIDE DEF r
      <3> QED
        BY <3>3, <3>4
    <2>2. request' \in [Requests -> RequestValues]
      BY <2>1 DEF RequestValues, MembershipShape
    <2> QED
      BY <1>0, <1>2, <2>2 DEF MemberInTenant, MembershipShape
  <1>3. ASSUME NEW k \in Requests, CountActiveOwners(k)
        PROVE  MembershipShape'
    <2>0. request[k] \in WriteRecord
      BY <1>3, InProgressRecord DEF CountActiveOwners
    <2>1. request' = [request EXCEPT ![k] =
            [[request[k] EXCEPT !.at = "write"] EXCEPT !.owners = Cardinality(Owners)]]
      BY <1>3 DEF CountActiveOwners
    <2>2. [[request[k] EXCEPT !.at = "write"] EXCEPT !.owners = Cardinality(Owners)] \in WriteRecord
      BY <2>0, OwnersCounted DEF WriteRecord
    <2>3. request' \in [Requests -> RequestValues]
      BY <2>1, <2>2 DEF RequestValues, MembershipShape
    <2> QED
      BY <1>0, <1>3, <2>3 DEF CountActiveOwners, MembershipShape
  <1>4. ASSUME NEW u \in Members, NEW role \in Roles, member' = [member EXCEPT ![u].role = role]
        PROVE  member' \in [Members -> MemberRecord]
    <2>1. member' = [member EXCEPT ![u] = [member[u] EXCEPT !.role = role]]
      BY <1>4
    <2>2. [member[u] EXCEPT !.role = role] \in MemberRecord
      BY DEF MembershipShape, MemberRecord
    <2> QED
      BY <2>1, <2>2 DEF MembershipShape
  <1>5. ASSUME NEW k \in Requests, request' = [request EXCEPT ![k] = Over]
        PROVE  request' \in [Requests -> RequestValues]
    BY <1>5 DEF MembershipShape, RequestValues
  <1>6. ASSUME NEW k \in Requests, PatchMember(k)
        PROVE  MembershipShape'
    <2>0. request[k] \in WriteRecord
      BY <1>6, InProgressRecord DEF PatchMember
    <2>1. request[k].target \in Members /\ request[k].new \in Roles
      BY <1>6, <2>0, MembershipAssumption DEF PatchMember, WriteRecord, Roles
    <2>2. member' \in [Members -> MemberRecord]
      BY <1>4, <1>6, <2>1 DEF PatchMember
    <2> QED
      BY <1>0, <1>5, <1>6, <2>2 DEF PatchMember, MembershipShape
  <1>7. ASSUME NEW k \in Requests, DeleteMember(k)
        PROVE  MembershipShape'
    <2>0. request[k] \in WriteRecord
      BY <1>7, InProgressRecord DEF DeleteMember
    <2>1. request[k].target \in Members
      BY <2>0 DEF WriteRecord
    <2>2. member' = [member EXCEPT ![request[k].target] =
            [member[request[k].target] EXCEPT !.active = FALSE]]
      BY <1>7 DEF DeleteMember
    <2>3. [member[request[k].target] EXCEPT !.active = FALSE] \in MemberRecord
      <3>1. member[request[k].target] \in MemberRecord
        BY <2>1 DEF MembershipShape
      <3> QED
        BY <3>1 DEF MemberRecord
    <2>4. member' \in [Members -> MemberRecord]
      BY <2>2, <2>3 DEF MembershipShape
    <2> QED
      BY <1>0, <1>5, <1>7, <2>4 DEF DeleteMember, MembershipShape
  <1>8. ASSUME NEW k \in Requests, NEW from \in Members, NEW to \in Members, TransferDemote(k, from, to)
        PROVE  MembershipShape'
    <2>1. "ADMIN" \in Roles
      BY DEF Roles, KnownRoles, Hierarchy
    <2>2. member' \in [Members -> MemberRecord]
      BY <1>4, <1>8, <2>1 DEF TransferDemote
    <2>3. [at |-> "promote", to |-> to] \in RequestValues
      BY DEF RequestValues, PromoteRecord
    <2>4. request' \in [Requests -> RequestValues]
      BY <1>8, <2>3 DEF TransferDemote, MembershipShape
    <2> QED
      BY <1>0, <1>8, <2>2, <2>4 DEF TransferDemote, MembershipShape
  <1>9. ASSUME NEW k \in Requests, TransferPromote(k)
        PROVE  MembershipShape'
    <2>0. request[k] \in PromoteRecord
      BY <1>9, InProgressRecord DEF TransferPromote
    <2>1. request[k].to \in Members /\ "OWNER" \in Roles
      BY <2>0 DEF PromoteRecord, Roles, KnownRoles, Hierarchy
    <2>2. member' \in [Members -> MemberRecord]
      <3>1. member' = member \/ member' = [member EXCEPT ![request[k].to].role = "OWNER"]
        BY <1>9 DEF TransferPromote
      <3> QED
        BY <1>4, <2>1, <3>1 DEF MembershipShape
    <2> QED
      BY <1>0, <1>5, <1>9, <2>2 DEF TransferPromote, MembershipShape
  <1>10. ASSUME NEW u \in Members, NEW role \in KnownRoles,
                member' = [member EXCEPT ![u] = [role |-> role, active |-> TRUE]]
        PROVE  member' \in [Members -> MemberRecord]
    BY <1>10 DEF MembershipShape, MemberRecord, Roles
  <1>11. ASSUME NEW k \in Requests, NEW u \in Members, NEW role \in NewRoles, AdminCreateUser(k, u, role)
        PROVE  MembershipShape'
    <2>1. member' \in [Members -> MemberRecord]
      BY <1>10, <1>11, MembershipAssumption DEF AdminCreateUser
    <2> QED
      BY <1>0, <1>5, <1>11, <2>1 DEF AdminCreateUser, MembershipShape
  <1>12. ASSUME NEW k \in Requests, Abandon(k)
        PROVE  MembershipShape'
    BY <1>0, <1>5, <1>12 DEF Abandon, MembershipShape
  <1>13. ASSUME NEW i \in Invites, NEW role \in NewRoles, CreateInvitation(i, role)
        PROVE  MembershipShape'
    <2>1. [role |-> role, used |-> 0, max |-> 1] \in InviteRecord
      BY MembershipAssumption
    <2>2. invitation' \in [Invites -> {NoInvite} \cup InviteRecord]
      BY <1>13, <2>1 DEF CreateInvitation, MembershipShape
    <2> QED
      BY <1>0, <1>13, <2>2 DEF CreateInvitation, MembershipShape
  <1>14. ASSUME NEW i \in Invites, CancelInvitation(i)
        PROVE  MembershipShape'
    <2>0. invitation[i] \in InviteRecord
      BY <1>14 DEF CancelInvitation, MembershipShape
    <2>1. invitation' = [invitation EXCEPT ![i] = [invitation[i] EXCEPT !.max = 0]]
      BY <1>14 DEF CancelInvitation
    <2>2. [invitation[i] EXCEPT !.max = 0] \in InviteRecord
      BY <2>0
    <2>3. invitation' \in [Invites -> {NoInvite} \cup InviteRecord]
      BY <2>1, <2>2 DEF MembershipShape
    <2>4. cancelled' \in [Invites -> SUBSET SUBSET Members]
      BY <1>14 DEF CancelInvitation, MembershipShape
    <2> QED
      BY <1>0, <1>14, <2>3, <2>4 DEF CancelInvitation, MembershipShape
  <1>15. ASSUME NEW i \in Invites, NEW u \in Members, AcceptInvite(i, u)
        PROVE  MembershipShape'
    <2>0. invitation[i] \in InviteRecord /\ invitation[i].used = 0
      BY <1>15 DEF AcceptInvite, Usable, MembershipShape
    <2>1. invitation' = [invitation EXCEPT ![i] = [invitation[i] EXCEPT !.used = 1]]
      BY <1>15, <2>0 DEF AcceptInvite
    <2>2. [invitation[i] EXCEPT !.used = 1] \in InviteRecord
      BY <2>0
    <2>3. invitation' \in [Invites -> {NoInvite} \cup InviteRecord]
      BY <2>1, <2>2 DEF MembershipShape
    <2>4. accepted' \in [Invites -> SUBSET Members]
      BY <1>15 DEF AcceptInvite, MembershipShape
    <2>5. member' \in [Members -> MemberRecord]
      <3>1. invitation[i].role \in KnownRoles
        BY <2>0
      <3> QED
        BY <1>10, <1>15, <3>1 DEF AcceptInvite
    <2> QED
      BY <1>0, <1>15, <2>3, <2>4, <2>5 DEF AcceptInvite, MembershipShape
  <1>16. CASE UNCHANGED membershipVars
    BY <1>0, <1>16 DEF membershipVars, MembershipShape
  <1> QED
    BY <1>1, <1>2, <1>3, <1>6, <1>7, <1>8, <1>9, <1>11, <1>12, <1>13, <1>14, <1>15, <1>16
    DEF MembershipNext

(* The membership a role change or a removal leaves. *)
LEMMA OwnersAfterPatch ==
  ASSUME MembershipShape, NEW u \in Members, NEW role, Owners # {},
         member' = [member EXCEPT ![u].role = role],
         role = "OWNER" \/ u \notin Owners \/ Cardinality(Owners) > 1
  PROVE  Owners' # {}
  <1>1. /\ \A v \in Members : v # u => member'[v] = member[v]
        /\ member'[u].role = role /\ member'[u].active = member[u].active
    BY DEF MembershipShape, MemberRecord
  <1>2. \A v \in Owners : v # u => v \in Owners'
    BY <1>1 DEF Owners, Active
  <1>3. PICK v \in Owners : TRUE
    OBVIOUS
  <1>4. CASE role = "OWNER"
    <2>1. u \in Owners => u \in Owners'
      BY <1>1, <1>4 DEF Owners, Active
    <2> QED
      BY <1>2, <1>3, <2>1
  <1>5. CASE u \notin Owners
    BY <1>2, <1>3, <1>5
  <1>6. CASE Cardinality(Owners) > 1
    <2>1. Cardinality({u}) = 1
      BY FS_Singleton
    <2>2. PICK w \in Owners : w # u
      BY <1>3, <1>6, <2>1
    <2> QED
      BY <1>2, <2>2
  <1> QED
    BY <1>4, <1>5, <1>6

(* Removing one of two owners leaves one. *)
LEMMA OwnersAfterRemoval ==
  ASSUME MembershipShape, NEW u \in Members, Owners # {},
         member' = [member EXCEPT ![u].active = FALSE],
         u \notin Owners \/ Cardinality(Owners) > 1
  PROVE  Owners' # {}
  <1>1. \A v \in Members : v # u => member'[v] = member[v]
    BY DEF MembershipShape
  <1>2. \A v \in Owners : v # u => v \in Owners'
    BY <1>1 DEF Owners, Active
  <1>3. PICK v \in Owners : TRUE
    OBVIOUS
  <1>4. CASE u \notin Owners
    BY <1>2, <1>3, <1>4
  <1>5. CASE Cardinality(Owners) > 1
    <2>1. Cardinality({u}) = 1
      BY FS_Singleton
    <2>2. PICK w \in Owners : w # u
      BY <1>3, <1>5, <2>1
    <2> QED
      BY <1>2, <2>2
  <1> QED
    BY <1>4, <1>5

(* A step of one request that leaves the members alone. *)
LEMMA OwnersFrame ==
  ASSUME OwnersKept, UNCHANGED <<member, bypassed>>, overlapped => overlapped', NEW k \in Requests,
         \A j \in Requests : j # k => request'[j] = request[j],
         request'[k].at # "promote",
         ~overlapped' /\ InProgress(k)' => InProgress(k) \/ \A j \in Requests : ~InProgress(j),
         ~bypassed /\ ~overlapped => ReadStands(k)'
  PROVE  OwnersKept'
  <1> SUFFICES ASSUME ~bypassed, ~overlapped'
               PROVE  Undisturbed'
    BY DEF OwnersKept
  <1>1. Undisturbed
    BY DEF OwnersKept
  <1>2. Owners' = Owners
    BY DEF Owners, Active
  <1>3. \A j \in Requests : request'[j].at # "promote"
    BY <1>1 DEF Undisturbed
  <1>4. \A i, j \in Requests : InProgress(i)' /\ InProgress(j)' => i = j
    BY <1>1 DEF Undisturbed, InProgress
  <1>5. \A j \in Requests : j # k => ReadStands(j)'
    BY <1>1, <1>2 DEF Undisturbed, ReadStands
  <1>6. \A j \in Requests : ReadStands(j)'
    BY <1>5
  <1> QED
    BY <1>1, <1>2, <1>3, <1>4, <1>6 DEF Undisturbed

(* A request that was alone has written and is over. *)
LEMMA OwnersWritten ==
  ASSUME OwnersKept, UNCHANGED <<bypassed, overlapped>>, NEW k \in Requests, InProgress(k),
         \A j \in Requests : j # k => request'[j] = request[j], request'[k] = Over,
         Undisturbed => Owners' # {}
  PROVE  OwnersKept'
  <1> SUFFICES ASSUME ~bypassed, ~overlapped
               PROVE  Undisturbed'
    BY DEF OwnersKept
  <1>1. Undisturbed
    BY DEF OwnersKept
  <1>2. Over.at = "over"
    BY DEF Over
  <1>3. \A j \in Requests : ~InProgress(j)' /\ request'[j].at # "promote"
    BY <1>1, <1>2 DEF Undisturbed, InProgress
  <1>4. \A j \in Requests : ReadStands(j)'
    BY <1>3 DEF ReadStands, InProgress
  <1> QED
    BY <1>1, <1>3, <1>4 DEF Undisturbed

(* The tenant keeps an owner unless two changes overlap. *)
LEMMA MembershipStepOwners ==
  MembershipShape /\ OwnersKept /\ [MembershipNext]_membershipVars => OwnersKept'
  <1> SUFFICES ASSUME MembershipShape, OwnersKept, [MembershipNext]_membershipVars PROVE OwnersKept'
    OBVIOUS
  <1>1. ASSUME NEW k \in Requests, NEW caller \in Members, NEW target \in Members,
               NEW new \in NewRoles \cup {Removal}, RequirePermission(k, caller, target, new)
        PROVE  OwnersKept'
    <2>1. /\ request'[k].at = "target" /\ \A j \in Requests : j # k => request'[j] = request[j]
          /\ overlapped => overlapped'
          /\ ~overlapped' => \A j \in Requests : ~InProgress(j)
      BY <1>1 DEF RequirePermission, MembershipShape
    <2>2. ReadStands(k)'
      BY <2>1 DEF ReadStands
    <2> QED
      BY <1>1, <2>1, <2>2, OwnersFrame DEF RequirePermission
  <1>2. ASSUME NEW k \in Requests, MemberInTenant(k)
        PROVE  OwnersKept'
    <2>0. request[k] \in TargetRecord
      BY <1>2, InProgressRecord DEF MemberInTenant
    <2>1. request[k].target \in Members
      BY <2>0 DEF TargetRecord
    <2>2. /\ \A j \in Requests : j # k => request'[j] = request[j]
          /\ request'[k].at \in {"count", "write"} /\ request'[k].target = request[k].target
          /\ request'[k].targetRole = member[request[k].target].role
          /\ (request'[k].at = "count") <=> (member[request[k].target].role = "OWNER")
      BY <1>2 DEF MemberInTenant, MembershipShape
    <2>3. ReadStands(k)'
      BY <1>2, <2>1, <2>2 DEF ReadStands, MemberInTenant
    <2> QED
      BY <1>2, <2>2, <2>3, OwnersFrame DEF MemberInTenant, InProgress
  <1>3. ASSUME NEW k \in Requests, CountActiveOwners(k)
        PROVE  OwnersKept'
    <2>0. request[k] \in WriteRecord
      BY <1>3, InProgressRecord DEF CountActiveOwners
    <2>1. request' = [request EXCEPT ![k] =
            [[request[k] EXCEPT !.at = "write"] EXCEPT !.owners = Cardinality(Owners)]]
      BY <1>3 DEF CountActiveOwners
    <2>2. /\ \A j \in Requests : j # k => request'[j] = request[j]
          /\ request'[k].at = "write" /\ request'[k].owners = Cardinality(Owners)
          /\ request'[k].targetRole = request[k].targetRole
      BY <2>0, <2>1 DEF WriteRecord, MembershipShape
    <2>3. UNCHANGED <<member, bypassed, overlapped>> /\ request[k].at = "count"
      BY <1>3 DEF CountActiveOwners
    <2>4. Owners' = Owners
      BY <2>3 DEF Owners, Active
    <2>5. ~bypassed /\ ~overlapped => ReadStands(k)'
      BY <2>2, <2>3, <2>4 DEF OwnersKept, Undisturbed, ReadStands
    <2> QED
      BY <2>2, <2>3, <2>5, OwnersFrame DEF InProgress
  <1>4. ASSUME NEW k \in Requests, PatchMember(k)
        PROVE  OwnersKept'
    <2>0. request[k] \in WriteRecord /\ request[k].at = "write"
      BY <1>4, InProgressRecord DEF PatchMember
    <2>1. request[k].target \in Members /\ request[k].owners \in Nat
      BY <2>0 DEF WriteRecord
    <2>2. /\ \A j \in Requests : j # k => request'[j] = request[j]
          /\ request'[k] = Over /\ UNCHANGED <<bypassed, overlapped>>
      BY <1>4 DEF PatchMember, MembershipShape
    <2>3. Undisturbed => Owners' # {}
      <3> SUFFICES ASSUME Undisturbed PROVE Owners' # {}
        OBVIOUS
      <3>1. /\ member' = [member EXCEPT ![request[k].target].role = request[k].new]
            /\ ~(request[k].targetRole = "OWNER" /\ request[k].new # "OWNER" /\ request[k].owners <= 1)
        BY <1>4 DEF PatchMember, AuthorizeRoleChange
      <3>2. \/ request[k].new = "OWNER" \/ request[k].target \notin Owners \/ Cardinality(Owners) > 1
        BY <2>0, <2>1, <3>1 DEF Undisturbed, ReadStands, Owners
      <3> QED
        BY <2>1, <3>1, <3>2, OwnersAfterPatch DEF Undisturbed
    <2> QED
      BY <2>0, <2>2, <2>3, OwnersWritten DEF InProgress
  <1>5. ASSUME NEW k \in Requests, DeleteMember(k)
        PROVE  OwnersKept'
    <2>0. request[k] \in WriteRecord /\ request[k].at = "write"
      BY <1>5, InProgressRecord DEF DeleteMember
    <2>1. request[k].target \in Members /\ request[k].owners \in Nat
      BY <2>0 DEF WriteRecord
    <2>2. /\ \A j \in Requests : j # k => request'[j] = request[j]
          /\ request'[k] = Over /\ UNCHANGED <<bypassed, overlapped>>
      BY <1>5 DEF DeleteMember, MembershipShape
    <2>3. Undisturbed => Owners' # {}
      <3> SUFFICES ASSUME Undisturbed PROVE Owners' # {}
        OBVIOUS
      <3>1. /\ member' = [member EXCEPT ![request[k].target].active = FALSE]
            /\ ~(request[k].targetRole = "OWNER" /\ request[k].owners <= 1)
        BY <1>5 DEF DeleteMember, AuthorizeMemberRemoval
      <3>2. request[k].target \notin Owners \/ Cardinality(Owners) > 1
        BY <2>0, <2>1, <3>1 DEF Undisturbed, ReadStands, Owners
      <3> QED
        BY <2>1, <3>1, <3>2, OwnersAfterRemoval DEF Undisturbed
    <2> QED
      BY <2>0, <2>2, <2>3, OwnersWritten DEF InProgress
  <1>6. ASSUME bypassed' = TRUE
        PROVE  OwnersKept'
    BY <1>6 DEF OwnersKept
  <1>7. ASSUME NEW k \in Requests, TransferPromote(k)
        PROVE  OwnersKept'
    <2>1. ~bypassed /\ ~overlapped => FALSE
      BY <1>7 DEF TransferPromote, OwnersKept, Undisturbed
    <2> QED
      BY <1>7, <2>1 DEF TransferPromote, OwnersKept
  <1>8. ASSUME NEW k \in Requests, Abandon(k)
        PROVE  OwnersKept'
    <2>1. /\ \A j \in Requests : j # k => request'[j] = request[j]
          /\ request'[k] = Over /\ UNCHANGED <<member, bypassed, overlapped>>
      BY <1>8 DEF Abandon, MembershipShape
    <2>2. request'[k].at = "over"
      BY <2>1 DEF Over
    <2>3. ReadStands(k)' /\ ~InProgress(k)'
      BY <2>2 DEF ReadStands, InProgress
    <2> QED
      BY <2>1, <2>2, <2>3, OwnersFrame
  <1>9. ASSUME UNCHANGED <<member, request, bypassed, overlapped>>
        PROVE  OwnersKept'
    <2>1. Owners' = Owners
      BY <1>9 DEF Owners, Active
    <2> QED
      BY <1>9, <2>1 DEF OwnersKept, Undisturbed, ReadStands, InProgress
  <1>10. ASSUME NEW k \in Requests,
                \/ \E from, to \in Members : TransferDemote(k, from, to)
                \/ \E u \in Members, role \in NewRoles : AdminCreateUser(k, u, role)
        PROVE  OwnersKept'
    BY <1>6, <1>10 DEF TransferDemote, AdminCreateUser
  <1>11. ASSUME NEW i \in Invites,
                \/ \E role \in NewRoles : CreateInvitation(i, role)
                \/ CancelInvitation(i)
                \/ \E u \in Members : AcceptInvite(i, u)
        PROVE  OwnersKept'
    BY <1>6, <1>9, <1>11 DEF CreateInvitation, CancelInvitation, AcceptInvite
  <1>12. CASE UNCHANGED membershipVars
    BY <1>9, <1>12 DEF membershipVars
  <1> QED
    BY <1>1, <1>2, <1>3, <1>4, <1>5, <1>7, <1>8, <1>10, <1>11, <1>12 DEF MembershipNext

(* Every acceptance of an invitation is counted in its row. *)
LEMMA MembershipStepInvites ==
  MembershipShape /\ InvitesCounted /\ [MembershipNext]_membershipVars => InvitesCounted'
  <1> SUFFICES ASSUME MembershipShape, InvitesCounted, [MembershipNext]_membershipVars
               PROVE  InvitesCounted'
    OBVIOUS
  <1>1. CASE UNCHANGED <<invitation, accepted, cancelled>>
    BY <1>1 DEF InvitesCounted, NoInvite
  <1>2. ASSUME NEW i \in Invites,
               \A j \in Invites : j # i => /\ invitation'[j] = invitation[j] /\ accepted'[j] = accepted[j]
                                           /\ cancelled'[j] = cancelled[j],
               Cardinality(accepted'[i]) <= invitation'[i].used,
               cancelled'[i] # {} => /\ invitation'[i] # NoInvite /\ invitation'[i].max = 0
                                     /\ cancelled'[i] = {accepted'[i]}
        PROVE  InvitesCounted'
    BY <1>2 DEF InvitesCounted, NoInvite
  <1>3. ASSUME NEW i \in Invites, NEW role \in NewRoles, CreateInvitation(i, role)
        PROVE  InvitesCounted'
    <2>1. /\ invitation[i] = NoInvite /\ UNCHANGED <<accepted, cancelled>>
          /\ invitation'[i] = [role |-> role, used |-> 0, max |-> 1]
          /\ \A j \in Invites : j # i => invitation'[j] = invitation[j]
      BY <1>3 DEF CreateInvitation, MembershipShape
    <2>2. invitation'[i].used = invitation[i].used /\ cancelled[i] = {}
      BY <2>1 DEF NoInvite, InvitesCounted
    <2> QED
      BY <1>2, <2>1, <2>2 DEF InvitesCounted
  <1>4. ASSUME NEW i \in Invites, CancelInvitation(i)
        PROVE  InvitesCounted'
    <2>0. invitation[i] \in InviteRecord
      BY <1>4 DEF CancelInvitation, MembershipShape
    <2>1. /\ UNCHANGED accepted /\ cancelled'[i] = {accepted[i]}
          /\ invitation'[i] = [invitation[i] EXCEPT !.max = 0]
          /\ \A j \in Invites : j # i => invitation'[j] = invitation[j] /\ cancelled'[j] = cancelled[j]
      BY <1>4 DEF CancelInvitation, MembershipShape
    <2>2. /\ invitation'[i].used = invitation[i].used /\ invitation'[i].max = 0
          /\ invitation'[i].role \in KnownRoles
      BY <2>0, <2>1 DEF InviteRecord
    <2>3. invitation'[i] # NoInvite
      BY <2>2, NoneIsNoRole DEF NoInvite
    <2> QED
      BY ZenonT(40), <1>2, <2>1, <2>2, <2>3 DEF InvitesCounted
  <1>5. ASSUME NEW i \in Invites, NEW u \in Members, AcceptInvite(i, u)
        PROVE  InvitesCounted'
    <2>0. invitation[i] \in InviteRecord /\ invitation[i].used = 0 /\ invitation[i].max = 1
      BY <1>5 DEF AcceptInvite, Usable, MembershipShape, NoInvite, InviteRecord
    <2>1. /\ UNCHANGED cancelled /\ accepted'[i] = accepted[i] \cup {u}
          /\ invitation'[i] = [invitation[i] EXCEPT !.used = invitation[i].used + 1]
          /\ \A j \in Invites : j # i => invitation'[j] = invitation[j] /\ accepted'[j] = accepted[j]
      BY <1>5 DEF AcceptInvite, MembershipShape
    <2>2. invitation'[i].used = 1
      BY <2>0, <2>1 DEF InviteRecord
    <2>3. cancelled[i] = {}
      BY <2>0 DEF InvitesCounted
    <2>4. Cardinality(accepted'[i]) <= 1
      <3>1. accepted[i] \subseteq Members
        BY DEF MembershipShape
      <3>2. IsFiniteSet(accepted[i])
        BY <3>1, FS_Subset, MembershipAssumption
      <3>3. accepted[i] = {}
        <4>1. Cardinality(accepted[i]) = 0
          BY <2>0, <3>2, FS_CardinalityType DEF InvitesCounted
        <4> QED
          BY <3>2, <4>1, FS_EmptySet
      <3>4. accepted'[i] = {u}
        BY <2>1, <3>3
      <3> QED
        BY <3>4, FS_Singleton
    <2> QED
      BY ZenonT(40), <1>2, <2>1, <2>2, <2>3, <2>4 DEF InvitesCounted
  <1>6. ASSUME NEW k \in Requests,
               \/ \E caller, target \in Members, new \in NewRoles \cup {Removal} :
                    RequirePermission(k, caller, target, new)
               \/ MemberInTenant(k) \/ CountActiveOwners(k) \/ PatchMember(k) \/ DeleteMember(k)
               \/ \E from, to \in Members : TransferDemote(k, from, to)
               \/ TransferPromote(k)
               \/ \E u \in Members, role \in NewRoles : AdminCreateUser(k, u, role)
               \/ Abandon(k)
        PROVE  InvitesCounted'
    BY <1>1, <1>6 DEF RequirePermission, MemberInTenant, CountActiveOwners, PatchMember, DeleteMember,
       TransferDemote, TransferPromote, AdminCreateUser, Abandon
  <1>7. CASE UNCHANGED membershipVars
    BY <1>1, <1>7 DEF membershipVars
  <1> QED
    BY <1>3, <1>4, <1>5, <1>6, <1>7 DEF MembershipNext

(* Every step of the membership handlers keeps their invariant. *)
LEMMA MembershipStepInv == MembershipInv /\ [MembershipNext]_membershipVars => MembershipInv'
  BY MembershipStepShape, MembershipStepOwners, MembershipStepInvites DEF MembershipInv

(* The inductive invariant of the memberships contains the parts the run   *)
(* checks.                                                                 *)
LEMMA MembershipInvGives == MembershipInv => OwnerKeptSerially /\ InvitationHonoured
  <1> SUFFICES ASSUME MembershipInv PROVE OwnerKeptSerially /\ InvitationHonoured
    OBVIOUS
  <1>1. OwnerKeptSerially
    BY DEF MembershipInv, OwnersKept, Undisturbed, OwnerKeptSerially
  <1>2. ASSUME NEW i \in Invites
        PROVE  Cardinality(accepted[i]) <= 1
    <2>1. invitation[i].used \in {0, 1}
      BY DEF MembershipInv, MembershipShape, NoInvite, InviteRecord
    <2>2. accepted[i] \subseteq Members
      BY DEF MembershipInv, MembershipShape
    <2>3. Cardinality(accepted[i]) \in Nat
      BY <2>2, FS_Subset, FS_CardinalityType, MembershipAssumption
    <2> QED
      BY <2>1, <2>3 DEF MembershipInv, InvitesCounted
  <1> QED
    BY <1>1, <1>2 DEF MembershipInv, InvitesCounted, InvitationHonoured

-----------------------------------------------------------------------------
(* The account chooser.  Every valid session of the browser is active,     *)
(* remembered or let go, and the one a login is about to replace is        *)
(* remembered before.                                                      *)

ChooserShape ==
  /\ active \in Sids \cup {NoAccount}
  /\ accounts \in Seq(Sids) /\ Len(accounts) <= MaxAccounts
ChooserInv ==
  /\ ChooserShape
  /\ AccountsRemembered
  /\ adding => alive \cap ActiveAccount \subseteq Ids(accounts) \cup letGo

(* The lists the handlers build. *)
LEMMA BoundedSeqs ==
  ASSUME NEW n \in Nat, NEW q \in Lists(n)
  PROVE  q \in Seq(Sids) /\ Len(q) <= n
  <1>1. PICK m \in 0 .. n : q \in [1 .. m -> Sids]
    BY DEF Lists
  <1> QED
    BY <1>1

(* dedup_cap_accounts caps a list of distinct accounts, and leaves one     *)
(* that fits.                                                              *)
LEMMA DedupCaps ==
  ASSUME NEW q \in Seq(Sids)
  PROVE  /\ DedupCapAccounts(q) \in Seq(Sids) /\ Len(DedupCapAccounts(q)) <= MaxAccounts
         /\ Len(q) <= MaxAccounts => DedupCapAccounts(q) = q
  <1>1. CASE Len(q) > MaxAccounts
    BY <1>1, ChooserAssumption DEF DedupCapAccounts
  <1>2. CASE Len(q) <= MaxAccounts
    <2>1. DedupCapAccounts(q) = SubSeq(q, 1, Len(q))
      BY <1>2, ChooserAssumption DEF DedupCapAccounts
    <2>2. SubSeq(q, 1, Len(q)) = q
      OBVIOUS
    <2> QED
      BY <1>2, <2>1, <2>2
  <1> QED
    BY <1>1, <1>2, ChooserAssumption

(* The list with the active account in front has the same accounts. *)
LEMMA ActiveFirst ==
  ASSUME ChooserShape
  PROVE  /\ WithActiveFirst(accounts) \in Seq(Sids)
         /\ Ids(WithActiveFirst(accounts)) = Known
  <1>1. CASE active = NoAccount
    BY <1>1 DEF WithActiveFirst, ChooserShape, Known, ActiveAccount
  <1>2. CASE active # NoAccount /\ active \in Ids(accounts)
    BY <1>2 DEF WithActiveFirst, ChooserShape, Known, ActiveAccount, Ids
  <1>3. CASE active # NoAccount /\ active \notin Ids(accounts)
    <2> DEFINE q == <<active>> \o accounts
    <2>1. WithActiveFirst(accounts) = q /\ active \in Sids /\ accounts \in Seq(Sids)
      BY <1>3 DEF WithActiveFirst, ChooserShape
    <2>2. /\ q \in Seq(Sids) /\ Len(q) = Len(accounts) + 1 /\ q[1] = active
          /\ \A i \in 1 .. Len(accounts) : q[i + 1] = accounts[i]
          /\ \A i \in 2 .. Len(q) : q[i] = accounts[i - 1]
      BY <2>1
    <2> HIDE DEF q
    <2>3. Ids(q) \subseteq Known
      <3>1. ASSUME NEW i \in DOMAIN q
            PROVE  q[i] \in Ids(accounts) \cup {active}
        <4>1. i = 1 \/ (i \in 2 .. Len(q) /\ i - 1 \in 1 .. Len(accounts))
          BY <2>1, <2>2
        <4> QED
          BY <2>1, <2>2, <4>1 DEF Ids
      <3> QED
        BY <1>3, <3>1 DEF Ids, Known, ActiveAccount
    <2>4. Known \subseteq Ids(q)
      <3>1. active \in Ids(q)
        <4>1. 1 \in DOMAIN q
          BY <2>1, <2>2
        <4> QED
          BY <2>2, <4>1 DEF Ids
      <3>2. ASSUME NEW i \in DOMAIN accounts
            PROVE  accounts[i] \in Ids(q)
        <4>1. i \in 1 .. Len(accounts) /\ i + 1 \in DOMAIN q
          BY <2>1, <2>2
        <4> QED
          BY <2>2, <4>1 DEF Ids
      <3> QED
        BY <3>1, <3>2 DEF Ids, Known, ActiveAccount
    <2> QED
      BY <2>1, <2>2, <2>3, <2>4
  <1> QED
    BY <1>1, <1>2, <1>3

(* The browser starts without accounts. *)
LEMMA ChooserInitInv == ChooserInit => ChooserInv
  BY ChooserAssumption DEF ChooserInit, ChooserInv, ChooserShape, AccountsRemembered, Known, ActiveAccount, Ids

(* What a step may do to the active account. *)
PromotesLiveStep == active' # active /\ active' # NoAccount => active' \in alive'

(* Every step of the chooser keeps its invariant, and promotes only live   *)
(* accounts.                                                               *)
LEMMA ChooserStepInv == ChooserInv /\ [ChooserNext]_chooserVars => ChooserInv' /\ PromotesLiveStep
  <1> SUFFICES ASSUME ChooserInv, [ChooserNext]_chooserVars PROVE ChooserInv' /\ PromotesLiveStep
    OBVIOUS
  <1>0. ChooserShape /\ Known = Ids(accounts) \cup ActiveAccount /\ alive \subseteq Known \cup letGo
    BY DEF ChooserInv, Known, AccountsRemembered
  <1>a. ASSUME active' \in Sids \cup {NoAccount}, accounts' \in Seq(Sids), Len(accounts') <= MaxAccounts,
               alive' \subseteq Ids(accounts') \cup ({active'} \ {NoAccount}) \cup letGo',
               adding' => alive' \cap ({active'} \ {NoAccount}) \subseteq Ids(accounts') \cup letGo',
               PromotesLiveStep
        PROVE  ChooserInv' /\ PromotesLiveStep
    <2>1. ChooserShape'
      BY <1>a DEF ChooserShape, NoAccount
    <2>2. AccountsRemembered'
      BY <1>a DEF AccountsRemembered, Known, ActiveAccount, NoAccount, Ids
    <2>3. adding' => (alive \cap ActiveAccount \subseteq Ids(accounts) \cup letGo)'
      BY <1>a DEF ActiveAccount, NoAccount, Ids
    <2> QED
      BY <1>a, <2>1, <2>2, <2>3 DEF ChooserInv
  <1>1. CASE LoginAdd
    <2> DEFINE q == WithActiveFirst(accounts)
    <2>1. /\ accounts' = DedupCapAccounts(q) /\ letGo' = letGo \cup (Ids(q) \ Ids(accounts'))
          /\ UNCHANGED <<active, alive>>
      BY <1>1 DEF LoginAdd, SetAccountsCookie
    <2>2. q \in Seq(Sids) /\ Ids(q) = Known
      BY <1>0, ActiveFirst
    <2> HIDE DEF q
    <2>3. accounts' \in Seq(Sids) /\ Len(accounts') <= MaxAccounts
      BY <2>1, <2>2, DedupCaps
    <2>4. Known \subseteq Ids(accounts') \cup letGo'
      BY <2>1, <2>2
    <2>5. alive' \subseteq Ids(accounts') \cup letGo'
      BY <1>0, <2>1, <2>4
    <2> QED
      BY <1>0, <1>a, <2>1, <2>3, <2>5 DEF ChooserShape, PromotesLiveStep
  <1>2. ASSUME NEW failed \in SUBSET Sids, SignoutAll(failed)
        PROVE  ChooserInv' /\ PromotesLiveStep
    <2>1. /\ alive' = alive \ (Known \ failed) /\ letGo' = letGo \cup failed
          /\ active' = NoAccount /\ accounts' = << >>
      BY <1>2 DEF SignoutAll
    <2>2. << >> \in Seq(Sids) /\ Len(<< >>) <= MaxAccounts
      BY ChooserAssumption
    <2> QED
      BY <1>0, <1>a, <2>1, <2>2 DEF PromotesLiveStep
  <1>3. ASSUME NEW sid \in Sids, LoginCompletes(sid)
        PROVE  ChooserInv' /\ PromotesLiveStep
    <2>1. /\ alive' = alive \cup {sid} /\ active' = sid /\ ~adding' /\ UNCHANGED accounts
          /\ letGo' = IF adding THEN letGo ELSE letGo \cup (ActiveAccount \ Ids(accounts))
      BY <1>3 DEF LoginCompletes
    <2>2. alive \subseteq Ids(accounts) \cup letGo'
      BY <1>0, <2>1 DEF ChooserInv
    <2>3. sid # NoAccount => sid \in {active'} \ {NoAccount}
      BY <2>1
    <2>4. sid # NoAccount
      BY ChooserAssumption
    <2> QED
      BY <1>0, <1>a, <2>1, <2>2, <2>3, <2>4 DEF ChooserShape, PromotesLiveStep
  <1>4. ASSUME NEW sid \in Sids, UseAccount(sid)
        PROVE  ChooserInv' /\ PromotesLiveStep
    <2>1. /\ sid \in Known /\ sid \in alive /\ active' = sid /\ UNCHANGED <<accounts, alive, adding>>
          /\ letGo' = letGo \cup (ActiveAccount \ (Ids(accounts) \cup {sid}))
      BY <1>4 DEF UseAccount
    <2>2. sid # NoAccount
      BY ChooserAssumption
    <2>3. alive \subseteq Ids(accounts) \cup {sid} \cup letGo'
      BY <1>0, <2>1
    <2>4. adding => sid \in Ids(accounts) \cup letGo
      BY <1>0, <2>1 DEF ChooserInv
    <2> QED
      BY <1>0, <1>a, <2>1, <2>2, <2>3, <2>4 DEF ChooserShape, PromotesLiveStep
  <1>5. ASSUME NEW failed \in SUBSET Sids, NEW sid \in Sids, SignoutAccount(sid, failed)
        PROVE  ChooserInv' /\ PromotesLiveStep
    <2>1. PICK left \in Lists(MaxAccounts) :
            /\ Ids(left) = Ids(accounts) \cap (alive \ (failed \cup {sid}))
            /\ accounts' = DedupCapAccounts(left)
            /\ active' = IF active # sid THEN active
                         ELSE IF left = << >> THEN NoAccount ELSE Head(left)
      BY <1>5 DEF SignoutAccount, Remaining, LeftOf
    <2>2. alive' = alive \ ({sid} \ failed) /\ letGo' = letGo \cup failed /\ UNCHANGED adding
      BY <1>5 DEF SignoutAccount
    <2>3. left \in Seq(Sids) /\ Len(left) <= MaxAccounts
      BY BoundedSeqs, ChooserAssumption
    <2>4. accounts' = left
      BY <2>1, <2>3, DedupCaps
    <2>5. left # << >> => Head(left) \in Sids /\ Head(left) \in Ids(left)
      <3>1. left # << >> => Len(left) >= 1 /\ Head(left) = left[1] /\ 1 \in DOMAIN left
        BY <2>3
      <3> QED
        BY <2>3, <3>1 DEF Ids
    <2>6. active' \in Sids \cup {NoAccount}
      BY <1>0, <2>1, <2>5 DEF ChooserShape
    <2>7. alive' \subseteq Ids(accounts') \cup ({active'} \ {NoAccount}) \cup letGo'
      <3>1. \A x \in alive' : x \in Ids(accounts) => x \in Ids(accounts') \cup letGo'
        BY <2>1, <2>2, <2>4
      <3>2. \A x \in alive' : x \in ActiveAccount => x \in ({active'} \ {NoAccount}) \cup letGo'
        BY <2>1, <2>2 DEF ActiveAccount
      <3> QED
        BY <1>0, <2>2, <3>1, <3>2
    <2>8. adding' => alive' \cap ({active'} \ {NoAccount}) \subseteq Ids(accounts') \cup letGo'
      <3>1. active' = active \/ active' = NoAccount \/ active' \in Ids(accounts')
        BY <2>1, <2>4, <2>5
      <3>2. \A x \in alive' : x \in Ids(accounts) => x \in Ids(accounts') \cup letGo'
        BY <2>1, <2>2, <2>4
      <3> QED
        BY <2>2, <3>1, <3>2 DEF ChooserInv, ActiveAccount
    <2>9. PromotesLiveStep
      BY <2>1, <2>2, <2>5 DEF PromotesLiveStep
    <2> QED
      BY <1>a, <2>3, <2>4, <2>6, <2>7, <2>8, <2>9
  <1>6. ASSUME NEW sid \in Sids, EndsElsewhere(sid)
        PROVE  ChooserInv' /\ PromotesLiveStep
    <2>1. alive' \subseteq alive /\ UNCHANGED <<active, accounts, adding, letGo>>
      BY <1>6 DEF EndsElsewhere
    <2> QED
      BY <1>0, <1>a, <2>1 DEF ChooserInv, ChooserShape, ActiveAccount, PromotesLiveStep
  <1>7. ASSUME NEW unread \in SUBSET Sids, AccountsPage(unread)
        PROVE  ChooserInv' /\ PromotesLiveStep
    <2>1. PICK valid \in Lists(MaxAccounts + 1) :
            /\ Ids(valid) = Ids(WithActiveFirst(accounts)) \cap (alive \ unread)
            /\ IF valid = << >> THEN UNCHANGED <<accounts, letGo>>
               ELSE /\ accounts' = DedupCapAccounts(valid)
                    /\ letGo' = letGo \cup unread \cup (Ids(valid) \ Ids(DedupCapAccounts(valid)))
      BY <1>7 DEF AccountsPage, LeftOf
    <2>2. UNCHANGED <<active, alive, adding>>
      BY <1>7 DEF AccountsPage
    <2>3. valid \in Seq(Sids)
      BY BoundedSeqs, ChooserAssumption
    <2>4. CASE valid = << >>
      BY <1>0, <1>a, <2>1, <2>2, <2>4 DEF ChooserInv, ChooserShape, ActiveAccount, PromotesLiveStep
    <2>5. CASE valid # << >>
      <3>1. accounts' \in Seq(Sids) /\ Len(accounts') <= MaxAccounts
        BY <2>1, <2>3, <2>5, DedupCaps
      <3>2. Known \cap alive \subseteq Ids(accounts') \cup letGo'
        BY <1>0, <2>1, <2>5, ActiveFirst
      <3>3. alive \subseteq Ids(accounts') \cup letGo'
        BY <1>0, <2>1, <2>5, <3>2
      <3> QED
        BY <1>0, <1>a, <2>2, <3>1, <3>3 DEF ChooserShape, PromotesLiveStep
    <2> QED
      BY <2>4, <2>5
  <1>8. CASE UNCHANGED chooserVars
    BY <1>0, <1>8, <1>a DEF chooserVars, ChooserInv, ChooserShape, ActiveAccount, PromotesLiveStep
  <1> QED
    BY <1>1, <1>2, <1>3, <1>4, <1>5, <1>6, <1>7, <1>8 DEF ChooserNext

-----------------------------------------------------------------------------
(* Sessions.  A mark stands on a session that was challenged; a verify     *)
(* that owes a second factor is on its way to a refusal; a switch that is  *)
(* alone has revoked the only session of its login before it creates one.  *)

SessionRow == [state : {"live", "expired", "revoked"}, tenant : Tenants, mfa : BOOLEAN]
VerifyStages == {"tenant", "totp", "step-up", "admitted"}
VerifyRecord == [at : VerifyStages, of : SessionIds, mfa : BOOLEAN, owing : BOOLEAN, exempt : BOOLEAN]
OfStages == {"flag", "code", "mark"}
OfRecord == [at : OfStages, of : SessionIds]
SwitchStages == {"switch", "create"}
SwitchRecord == [at : SwitchStages, of : SessionIds, to : Tenants]
HandlerValues == {Waiting, Ended} \cup VerifyRecord \cup OfRecord \cup SwitchRecord
CallStages == VerifyStages \cup OfStages \cup SwitchStages

Exists(s) == session[s] # NoSession

SessionShape ==
  /\ session \in [SessionIds -> {NoSession} \cup SessionRow]
  /\ handler \in [Handlers -> HandlerValues]
  /\ root \in [SessionIds -> SessionIds]
  /\ lostWrites \in Nat
  /\ \A s \in given : s \in SessionIds /\ Exists(s)
  /\ \A h \in Handlers : handler[h].at \in CallStages => Exists(handler[h].of)

(* The stage of a call tells what it knows. *)
LEMMA HandlerRecord ==
  ASSUME SessionShape, NEW h \in Handlers
  PROVE  /\ handler[h].at \in VerifyStages => handler[h] \in VerifyRecord
         /\ handler[h].at \in OfStages => handler[h] \in OfRecord
         /\ handler[h].at \in SwitchStages => handler[h] \in SwitchRecord
         /\ handler[h] \notin {Waiting, Ended} => handler[h].at \in CallStages
         /\ handler[h].at \in CallStages => handler[h].of \in SessionIds
  <1>1. handler[h] \in HandlerValues
    BY DEF SessionShape
  <1>2. Waiting.at = "waiting" /\ Ended.at = "ended"
    BY DEF Waiting, Ended
  <1>3. /\ \A r \in VerifyRecord : r.at \in VerifyStages /\ r.of \in SessionIds
        /\ \A r \in OfRecord : r.at \in OfStages /\ r.of \in SessionIds
        /\ \A r \in SwitchRecord : r.at \in SwitchStages /\ r.of \in SessionIds
    BY DEF VerifyRecord, OfRecord, SwitchRecord
  <1>4. /\ VerifyStages \cap OfStages = {} /\ VerifyStages \cap SwitchStages = {}
        /\ SwitchStages \cap OfStages = {} /\ "waiting" \notin CallStages /\ "ended" \notin CallStages
    BY DEF VerifyStages, OfStages, SwitchStages, CallStages
  <1> QED
    BY <1>1, <1>2, <1>3, <1>4 DEF HandlerValues, CallStages

(* A verify that is let through knows what it knew, and that it was. *)
LEMMA ExemptKeeps ==
  ASSUME SessionShape, NEW h \in Handlers, NEW a \in VerifyStages, handler[h].at \in VerifyStages, Exempt(h, a)
  PROVE  /\ \A g \in Handlers : g # h => handler'[g] = handler[g]
         /\ handler'[h].at = a /\ handler'[h].of = handler[h].of /\ handler'[h].mfa = handler[h].mfa
         /\ handler'[h].owing = handler[h].owing /\ handler'[h].exempt
         /\ handler' \in [Handlers -> HandlerValues]
  <1> DEFINE r == [handler[h] EXCEPT !.at = a, !.exempt = TRUE]
  <1>1. handler[h] \in VerifyRecord
    BY HandlerRecord
  <1>2. /\ r \in VerifyRecord /\ r.at = a /\ r.of = handler[h].of /\ r.mfa = handler[h].mfa
        /\ r.owing = handler[h].owing /\ r.exempt = TRUE
    BY <1>1 DEF VerifyRecord
  <1>3. handler' = [handler EXCEPT ![h] = r]
    BY DEF Exempt, SessionShape
  <1> HIDE DEF r
  <1> QED
    BY <1>2, <1>3 DEF SessionShape, HandlerValues

(* A call that goes on to another stage keeps what it knows. *)
LEMMA StepKeeps ==
  ASSUME SessionShape, NEW h \in Handlers, NEW a, Step(h, a)
  PROVE  /\ \A g \in Handlers : g # h => handler'[g] = handler[g]
         /\ handler[h].at \in VerifyStages /\ a \in VerifyStages =>
              /\ handler'[h] \in VerifyRecord /\ handler'[h].at = a /\ handler'[h].of = handler[h].of
              /\ handler'[h].mfa = handler[h].mfa /\ handler'[h].owing = handler[h].owing
              /\ handler'[h].exempt = handler[h].exempt
              /\ handler' \in [Handlers -> HandlerValues]
         /\ handler[h].at \in OfStages /\ a \in OfStages =>
              /\ handler'[h] \in OfRecord /\ handler'[h].at = a /\ handler'[h].of = handler[h].of
              /\ handler' \in [Handlers -> HandlerValues]
         /\ handler[h].at \in SwitchStages /\ a \in SwitchStages =>
              /\ handler'[h] \in SwitchRecord /\ handler'[h].at = a /\ handler'[h].of = handler[h].of
              /\ handler' \in [Handlers -> HandlerValues]
  <1>1. handler' = [handler EXCEPT ![h] = [handler[h] EXCEPT !.at = a]]
    BY DEF Step
  <1> DEFINE r == [handler[h] EXCEPT !.at = a]
  <1>2. handler'[h] = r /\ \A g \in Handlers : g # h => handler'[g] = handler[g]
    BY <1>1 DEF SessionShape
  <1>3. ASSUME r \in HandlerValues
        PROVE  handler' \in [Handlers -> HandlerValues]
    BY <1>1, <1>3 DEF SessionShape
  <1>4. ASSUME handler[h].at \in VerifyStages, a \in VerifyStages
        PROVE  /\ r \in VerifyRecord /\ r.at = a /\ r.of = handler[h].of
               /\ r.mfa = handler[h].mfa /\ r.owing = handler[h].owing /\ r.exempt = handler[h].exempt
    <2>1. handler[h] \in VerifyRecord
      BY <1>4, HandlerRecord
    <2> QED
      BY <1>4, <2>1 DEF VerifyRecord
  <1>5. ASSUME handler[h].at \in OfStages, a \in OfStages
        PROVE  r \in OfRecord /\ r.at = a /\ r.of = handler[h].of
    <2>1. handler[h] \in OfRecord
      BY <1>5, HandlerRecord
    <2> QED
      BY <1>5, <2>1 DEF OfRecord
  <1>6. ASSUME handler[h].at \in SwitchStages, a \in SwitchStages
        PROVE  r \in SwitchRecord /\ r.at = a /\ r.of = handler[h].of
    <2>1. handler[h] \in SwitchRecord
      BY <1>6, HandlerRecord
    <2> QED
      BY <1>6, <2>1 DEF SwitchRecord
  <1> HIDE DEF r
  <1> QED
    BY <1>2, <1>3, <1>4, <1>5, <1>6 DEF HandlerValues

(* A handler that finishes is over and the others stay where they are. *)
LEMMA FinishEnds ==
  ASSUME SessionShape, NEW h \in Handlers, Finish(h)
  PROVE  /\ \A g \in Handlers : g # h => handler'[g] = handler[g]
         /\ handler'[h] = Ended /\ handler'[h].at = "ended"
         /\ handler' \in [Handlers -> HandlerValues]
  BY DEF SessionShape, Finish, Ended, HandlerValues

(* A new session. *)
LEMMA InsertAdds ==
  ASSUME SessionShape, NEW s \in SessionIds, NEW t \in Tenants, NEW m \in BOOLEAN, Insert(s, t, m)
  PROVE  /\ ~Exists(s) /\ session'[s] \in SessionRow /\ (session'[s].mfa <=> m)
         /\ session'[s] # NoSession
         /\ \A r \in SessionIds : r # s => session'[r] = session[r]
         /\ session' \in [SessionIds -> {NoSession} \cup SessionRow]
  <1> DEFINE new == [state |-> "live", tenant |-> t, mfa |-> m]
  <1>1. new \in SessionRow /\ new.mfa = m /\ new.state = "live"
    BY DEF SessionRow
  <1>2. new # NoSession
    BY DEF NoSession
  <1>3. session' = [session EXCEPT ![s] = new] /\ session[s] = NoSession
    BY DEF Insert
  <1> HIDE DEF new
  <1> QED
    BY <1>1, <1>2, <1>3 DEF SessionShape, Exists

(* Sessions that change without a new one, and without one that comes to   *)
(* life.                                                                   *)
Dims ==
  /\ session' \in [SessionIds -> {NoSession} \cup SessionRow]
  /\ \A s \in SessionIds :
       /\ session'[s] = NoSession <=> session[s] = NoSession
       /\ session'[s].state = "live" => session[s].state = "live"
       /\ session[s] # NoSession => session'[s] # NoSession /\ (session'[s].mfa <=> session[s].mfa)

(* A row whose state alone changes, and not from dead to live, dims. *)
LEMMA StateChanges ==
  ASSUME SessionShape, NEW s \in SessionIds, Exists(s), NEW st \in {"live", "expired", "revoked"},
         st = "live" => Live(s), session' = [session EXCEPT ![s].state = st]
  PROVE  Dims
  <1>1. session[s] \in SessionRow
    BY DEF SessionShape, Exists
  <1> DEFINE r == [session[s] EXCEPT !.state = st]
  <1>2. session' = [session EXCEPT ![s] = r]
    OBVIOUS
  <1>3. r \in SessionRow /\ r.state = st /\ r.mfa = session[s].mfa
    BY <1>1 DEF SessionRow
  <1>4. NoSession \notin SessionRow
    BY DEF NoSession, SessionRow
  <1> HIDE DEF r
  <1>5. session'[s] = r /\ \A q \in SessionIds : q # s => session'[q] = session[q]
    BY <1>2 DEF SessionShape
  <1>6. session' \in [SessionIds -> {NoSession} \cup SessionRow]
    BY <1>2, <1>3 DEF SessionShape
  <1> QED
    BY <1>1, <1>3, <1>4, <1>5, <1>6 DEF Dims, Live

(* Revoking all sessions of the user dims them. *)
LEMMA AllRevoked ==
  ASSUME SessionShape, RevokeAllForUser
  PROVE  Dims
  <1>1. NoSession \notin SessionRow /\ NoSession.state # "live"
    BY DEF NoSession, SessionRow
  <1>2. ASSUME NEW s \in SessionIds
        PROVE  /\ session'[s] \in {NoSession} \cup SessionRow
               /\ session'[s] = NoSession <=> session[s] = NoSession
               /\ session'[s].state = "live" => session[s].state = "live"
               /\ session[s] # NoSession => session'[s] # NoSession /\ (session'[s].mfa <=> session[s].mfa)
    <2>1. CASE session[s] = NoSession
      BY <1>1, <2>1 DEF RevokeAllForUser
    <2>2. CASE session[s] # NoSession
      <3>1. session[s] \in SessionRow
        BY <2>2 DEF SessionShape
      <3> DEFINE r == [session[s] EXCEPT !.state = "revoked"]
      <3>2. r \in SessionRow /\ r.state = "revoked" /\ r.mfa = session[s].mfa
        BY <3>1 DEF SessionRow
      <3>3. session'[s] = r
        BY <2>2 DEF RevokeAllForUser
      <3> HIDE DEF r
      <3> QED
        BY <1>1, <2>2, <3>2, <3>3
    <2> QED
      BY <2>1, <2>2
  <1>3. session' \in [SessionIds -> {NoSession} \cup SessionRow]
    BY <1>2 DEF RevokeAllForUser
  <1> QED
    BY <1>2, <1>3 DEF Dims

(* The steps that only change the state of sessions. *)
Wanes ==
  \/ \E s \in SessionIds : \/ RenewSession(s) \/ Expire(s)
                           \/ LogoutGet(s) \/ LogoutPost(s) \/ SwitchAccount(s)
                           \/ RevokeSession(s) \/ AdminRevokeSession(s)
  \/ RevokeAllSessions

(* Every step that only ends sessions dims them. *)
LEMMA WanesDims ==
  ASSUME SessionShape, Wanes
  PROVE  Dims /\ UNCHANGED <<flagged, handler, given, lostWrites, challenged, root, overlap>>
  <1>1. ASSUME NEW s \in SessionIds, RenewSession(s)
        PROVE  Dims
    BY <1>1, StateChanges DEF RenewSession, Touch, Live, SessionShape
  <1>2. ASSUME NEW s \in SessionIds, Expire(s)
        PROVE  Dims
    <2>1. Exists(s)
      BY <1>2 DEF Expire, Live, Exists, NoSession
    <2> QED
      BY <1>2, <2>1, StateChanges DEF Expire
  <1>3. ASSUME NEW s \in SessionIds, Revoke(s), s \in given \/ s \in Rows
        PROVE  Dims
    <2>1. Exists(s)
      BY <1>3 DEF SessionShape, Rows, Exists
    <2> QED
      BY <1>3, <2>1, StateChanges DEF Revoke
  <1>4. Dims
    BY <1>1, <1>2, <1>3, AllRevoked DEF Wanes, LogoutGet, LogoutPost, SwitchAccount, RevokeSession,
       AdminRevokeSession, RevokeAllSessions
  <1>5. UNCHANGED <<flagged, handler, given, lostWrites, challenged, root, overlap>>
    BY DEF Wanes, RenewSession, Expire, LogoutGet, LogoutPost, SwitchAccount, RevokeSession,
       AdminRevokeSession, RevokeAllSessions, Revoke, RevokeAllForUser
  <1> QED
    BY <1>4, <1>5

(* The mark of a challenge that was passed. *)
LEMMA MarkSets ==
  ASSUME SessionShape, NEW h \in Handlers, MarkMfaVerified(h)
  PROVE  /\ session' \in [SessionIds -> {NoSession} \cup SessionRow]
         /\ \A s \in SessionIds :
              /\ session'[s] = NoSession <=> session[s] = NoSession
              /\ session'[s].state = session[s].state
              /\ s # handler[h].of => session'[s] = session[s]
  <1>0. handler[h].at = "mark" /\ "mark" \in OfStages /\ "mark" \in CallStages
    BY DEF MarkMfaVerified, OfStages, CallStages
  <1>1. handler[h].of \in SessionIds /\ Exists(handler[h].of)
    BY <1>0, HandlerRecord DEF SessionShape
  <1>2. session[handler[h].of] \in SessionRow
    BY <1>1 DEF SessionShape, Exists
  <1> DEFINE r == [session[handler[h].of] EXCEPT !.mfa = TRUE]
  <1>3. session' = [session EXCEPT ![handler[h].of] = r]
    BY DEF MarkMfaVerified
  <1>4. r \in SessionRow /\ r.state = session[handler[h].of].state
    BY <1>2 DEF SessionRow
  <1>5. NoSession \notin SessionRow
    BY DEF NoSession, SessionRow
  <1> HIDE DEF r
  <1>6. /\ session'[handler[h].of] = r
        /\ \A q \in SessionIds : q # handler[h].of => session'[q] = session[q]
    BY <1>1, <1>3 DEF SessionShape
  <1>7. session' \in [SessionIds -> {NoSession} \cup SessionRow]
    BY <1>3, <1>4 DEF SessionShape
  <1> QED
    BY <1>1, <1>2, <1>4, <1>5, <1>6, <1>7 DEF Exists

(* The calls of a verify are told when the factor they owe is gone. *)
LEMMA FactorTells ==
  ASSUME SessionShape, FactorStep
  PROVE  /\ handler' \in [Handlers -> HandlerValues]
         /\ UNCHANGED <<session, given, lostWrites, challenged, root, overlap>>
         /\ \A h \in Handlers :
              /\ handler'[h].at = handler[h].at
              /\ handler[h].at \notin VerifyStages => handler'[h] = handler[h]
              /\ handler[h].at \in VerifyStages =>
                   /\ handler'[h].of = handler[h].of /\ handler'[h].mfa = handler[h].mfa
                   /\ handler'[h].exempt = handler[h].exempt
                   /\ handler'[h].owing <=> (handler[h].owing /\ totp' = "active")
  <1> DEFINE told(h) == IF "owing" \in DOMAIN handler[h]
                        THEN [handler[h] EXCEPT !.owing = @ /\ totp' = "active"] ELSE handler[h]
  <1>1. handler' = [h \in Handlers |-> told(h)]
    BY DEF FactorStep
  <1>2. UNCHANGED <<session, given, lostWrites, challenged, root, overlap>>
    BY DEF FactorStep
  <1>3. ASSUME NEW h \in Handlers, handler[h].at \in VerifyStages
        PROVE  /\ told(h) \in VerifyRecord /\ told(h).at = handler[h].at
               /\ told(h).of = handler[h].of /\ told(h).mfa = handler[h].mfa /\ told(h).exempt = handler[h].exempt
               /\ told(h).owing <=> (handler[h].owing /\ totp' = "active")
    <2>1. handler[h] \in VerifyRecord
      BY <1>3, HandlerRecord
    <2>2. "owing" \in DOMAIN handler[h]
      BY <2>1 DEF VerifyRecord
    <2>3. told(h) = [handler[h] EXCEPT !.owing = (handler[h].owing /\ totp' = "active")]
      BY <2>2
    <2>4. (handler[h].owing /\ totp' = "active") \in BOOLEAN
      OBVIOUS
    <2> HIDE DEF told
    <2> QED
      BY <2>1, <2>3, <2>4 DEF VerifyRecord
  <1>4. ASSUME NEW h \in Handlers, handler[h].at \notin VerifyStages
        PROVE  told(h) = handler[h]
    <2>1. handler[h] \in {Waiting, Ended} \cup OfRecord \cup SwitchRecord
      <3>1. handler[h] \in HandlerValues
        BY DEF SessionShape
      <3>2. handler[h] \notin VerifyRecord
        BY <1>4 DEF VerifyRecord
      <3> QED
        BY <3>1, <3>2 DEF HandlerValues
    <2>2. "owing" \notin DOMAIN handler[h]
      BY <2>1 DEF Waiting, Ended, OfRecord, SwitchRecord
    <2> QED
      BY <2>2
  <1>5. \A h \in Handlers : told(h) \in HandlerValues
    BY <1>3, <1>4 DEF SessionShape, HandlerValues
  <1> HIDE DEF told
  <1>6. handler' \in [Handlers -> HandlerValues] /\ \A h \in Handlers : handler'[h] = told(h)
    BY <1>1, <1>5
  <1> QED
    BY <1>2, <1>3, <1>4, <1>6

(* The steps of sessions, by what they do. *)
Settles(h) ==   \* a call ends, and may hand its session to the browser
  MarkStepUp(h) \/ MarkStepUpLost(h) \/ HandlerDropped(h)
Verifies(h) ==
  \/ \E required \in Required, suspended \in BOOLEAN, uri \in Uris :
       VerifyTenant(h, required, suspended, uri)
  \/ VerifyTotp(h) \/ VerifyStepUp(h) \/ VerifyReadFails(h)
Passes(h) == ChallengeTotp(h) \/ \E c \in Codes : ChallengeRecovery(h, c)

(* The steps of the sessions, sorted by what they are a step of. *)
LEMMA SessionCases ==
  ASSUME [SessionNext]_allSessionVars
  PROVE  \/ UNCHANGED allSessionVars \/ FactorStep
         \/ Wanes /\ UNCHANGED totp
         \/ \E h \in Handlers :
              /\ UNCHANGED totp
              /\ \/ Settles(h) \/ Verifies(h) \/ Passes(h) \/ MarkMfaVerified(h)
                 \/ SwitchRevoke(h) \/ SwitchRevokeLost(h)
                 \/ \E s \in SessionIds : \/ VerifyFind(h, s) \/ ChallengeFind(h, s) \/ SwitchCreate(h, s)
                                          \/ \E t \in Tenants : \/ SwitchFind(h, s, t) \/ PasskeyLogin(h, s, t)
                                                                \/ \E b \in BOOLEAN : LoginCreate(h, s, t, b)
  <1>1. ASSUME NEW h \in Handlers, MfaVerifyLogin(h)
        PROVE  /\ UNCHANGED totp
               /\ Passes(h) \/ MarkMfaVerified(h) \/ \E s \in SessionIds : ChallengeFind(h, s)
    BY <1>1 DEF MfaVerifyLogin, Passes, ChallengeTotp, ChallengeRecovery, MarkMfaVerified, ChallengeFind,
       factorVars
  <1>2. ASSUME NEW h \in Handlers, Verify(h) \/ SwitchTenant(h) \/ Login(h) \/ HandlerDropped(h)
        PROVE  \/ Settles(h) \/ Verifies(h) \/ SwitchRevoke(h) \/ SwitchRevokeLost(h)
               \/ \E s \in SessionIds : \/ VerifyFind(h, s) \/ SwitchCreate(h, s)
                                        \/ \E t \in Tenants : \/ SwitchFind(h, s, t) \/ PasskeyLogin(h, s, t)
                                                              \/ \E b \in BOOLEAN : LoginCreate(h, s, t, b)
    BY <1>2 DEF Verify, SwitchTenant, Login, Settles, Verifies
  <1>3. CASE FactorStep \/ UNCHANGED allSessionVars
    BY <1>3
  <1>4. CASE (\E h \in Handlers : MfaVerifyLogin(h))
    BY <1>1, <1>4
  <1>5. CASE /\ \/ \E h \in Handlers : Verify(h) \/ SwitchTenant(h) \/ Login(h) \/ HandlerDropped(h)
                \/ Wanes
             /\ UNCHANGED factorVars
    BY <1>2, <1>5 DEF factorVars
  <1> QED
    BY <1>3, <1>4, <1>5 DEF SessionNext, Wanes

(* What the steps of one call leave. *)
LEMMA SettlesEnds ==
  ASSUME SessionShape, NEW h \in Handlers, Settles(h)
  PROVE  /\ UNCHANGED <<session, challenged, root, overlap>> /\ Finish(h)
         /\ lostWrites' \in Nat /\ lostWrites' >= lostWrites
         /\ \A s \in given' : s \in SessionIds /\ Exists(s)
  <1>1. UNCHANGED <<session, challenged, root, overlap>> /\ Finish(h)
    BY DEF Settles, MarkStepUp, MarkStepUpLost, HandlerDropped
  <1>2. lostWrites' \in Nat /\ lostWrites' >= lostWrites
    BY DEF Settles, MarkStepUp, MarkStepUpLost, HandlerDropped, SessionShape
  <1>3. CASE HandlerDropped(h)
    BY <1>1, <1>2, <1>3 DEF HandlerDropped, SessionShape
  <1>4. CASE MarkStepUp(h) \/ MarkStepUpLost(h)
    <2>1. handler[h].at = "flag" /\ given' = given \cup {handler[h].of}
      BY <1>4 DEF MarkStepUp, MarkStepUpLost
    <2>2. handler[h].of \in SessionIds /\ Exists(handler[h].of)
      BY <2>1, HandlerRecord DEF SessionShape, CallStages, OfStages
    <2> QED
      BY <1>1, <1>2, <2>1, <2>2 DEF SessionShape
  <1> QED
    BY <1>3, <1>4 DEF Settles

(* Every step of the sessions keeps the shape of their tables. *)
LEMMA SessionStepShape == SessionShape /\ [SessionNext]_allSessionVars => SessionShape'
  <1> SUFFICES ASSUME SessionShape, [SessionNext]_allSessionVars PROVE SessionShape'
    OBVIOUS
  <1>0. ASSUME session' \in [SessionIds -> {NoSession} \cup SessionRow],
               handler' \in [Handlers -> HandlerValues],
               root' \in [SessionIds -> SessionIds], lostWrites' \in Nat,
               \A s \in given' : s \in SessionIds /\ session'[s] # NoSession,
               \A h \in Handlers : handler'[h].at \in CallStages => session'[handler'[h].of] # NoSession
        PROVE  SessionShape'
    BY <1>0 DEF SessionShape, Exists, SessionRow, NoSession, HandlerValues, Waiting, Ended,
       VerifyRecord, OfRecord, SwitchRecord, VerifyStages, OfStages, SwitchStages, CallStages
  <1>1. /\ session \in [SessionIds -> {NoSession} \cup SessionRow]
        /\ handler \in [Handlers -> HandlerValues]
        /\ root \in [SessionIds -> SessionIds] /\ lostWrites \in Nat
        /\ \A s \in given : s \in SessionIds /\ session[s] # NoSession
        /\ \A h \in Handlers : handler[h].at \in CallStages =>
             handler[h].of \in SessionIds /\ session[handler[h].of] # NoSession
    BY HandlerRecord DEF SessionShape, Exists
  <1>2. "ended" \notin CallStages
    BY DEF CallStages, VerifyStages, OfStages, SwitchStages
  \* One call goes on, ends or begins; sessions stay.
  <1>3. ASSUME NEW h \in Handlers, handler' \in [Handlers -> HandlerValues],
               \A g \in Handlers : g # h => handler'[g] = handler[g],
               \/ handler'[h].at = "ended"
               \/ handler[h].at \in CallStages /\ handler'[h].of = handler[h].of
               \/ handler'[h].of \in given,
               \A s \in SessionIds : session[s] # NoSession => session'[s] # NoSession,
               session' \in [SessionIds -> {NoSession} \cup SessionRow],
               root' \in [SessionIds -> SessionIds], lostWrites' \in Nat,
               \A s \in given' : s \in SessionIds /\ session'[s] # NoSession
        PROVE  SessionShape'
    BY <1>0, <1>1, <1>2, <1>3
  <1>4. CASE UNCHANGED allSessionVars
    BY <1>0, <1>1, <1>4 DEF allSessionVars, sessionVars
  <1>5. CASE FactorStep
    <2>1. \A h \in Handlers : handler'[h].at = handler[h].at /\
                              (handler[h].at \in CallStages => handler'[h].of = handler[h].of)
      BY <1>5, FactorTells
    <2> QED
      BY <1>0, <1>1, <1>5, <2>1, FactorTells
  <1>6. CASE Wanes
    BY <1>0, <1>1, <1>6, WanesDims DEF Dims
  <1>7. ASSUME NEW h \in Handlers, Settles(h)
        PROVE  SessionShape'
    <2>1. UNCHANGED session /\ \A s \in given' : s \in SessionIds /\ session'[s] # NoSession
      BY <1>7, SettlesEnds DEF Exists
    <2> QED
      BY <1>1, <1>3, <1>7, <2>1, SettlesEnds, FinishEnds
  <1>8. ASSUME NEW h \in Handlers, Verifies(h)
        PROVE  SessionShape'
    <2>1. /\ handler[h].at \in VerifyStages /\ UNCHANGED <<session, given, lostWrites, root>>
          /\ Finish(h) \/ \E a \in VerifyStages : Step(h, a) \/ Exempt(h, a)
      BY <1>8 DEF Verifies, VerifyTenant, VerifyTotp, VerifyStepUp, VerifyReadFails, VerifyStages
    <2>2. CASE Finish(h)
      BY <1>1, <1>3, <2>1, <2>2, FinishEnds
    <2>3. CASE \E a \in VerifyStages : Step(h, a)
      BY <1>1, <1>3, <2>1, <2>3, StepKeeps DEF CallStages
    <2>4. CASE \E a \in VerifyStages : Exempt(h, a)
      BY <1>1, <1>3, <2>1, <2>4, ExemptKeeps DEF CallStages
    <2> QED
      BY <2>1, <2>2, <2>3, <2>4
  <1>9. ASSUME NEW h \in Handlers, Passes(h)
        PROVE  SessionShape'
    <2>1. /\ handler[h].at \in OfStages /\ UNCHANGED <<session, given, lostWrites, root>>
          /\ Step(h, "mark") /\ "mark" \in OfStages
      BY <1>9 DEF Passes, ChallengeTotp, ChallengeRecovery, OfStages
    <2> QED
      BY <1>1, <1>3, <2>1, StepKeeps DEF CallStages
  <1>10. ASSUME NEW h \in Handlers, MarkMfaVerified(h)
        PROVE  SessionShape'
    <2>1. UNCHANGED <<given, lostWrites, root>> /\ Finish(h)
      BY <1>10 DEF MarkMfaVerified
    <2> QED
      BY <1>1, <1>3, <1>10, <2>1, FinishEnds, MarkSets
  <1>11. ASSUME NEW h \in Handlers, SwitchRevoke(h) \/ SwitchRevokeLost(h)
        PROVE  SessionShape'
    <2>1. /\ handler[h].at = "switch" /\ UNCHANGED <<given, root>> /\ lostWrites' \in Nat
          /\ Step(h, "create")
      BY <1>1, <1>11 DEF SwitchRevoke, SwitchRevokeLost
    <2>2. "switch" \in SwitchStages /\ "create" \in SwitchStages
      BY DEF SwitchStages
    <2>3. handler[h].of \in SessionIds /\ Exists(handler[h].of)
      BY <1>1, <2>1, <2>2 DEF CallStages, Exists
    <2>4. /\ session' \in [SessionIds -> {NoSession} \cup SessionRow]
          /\ \A s \in SessionIds : session[s] # NoSession => session'[s] # NoSession
      <3>1. CASE SwitchRevoke(h)
        <4>1. Dims
          BY <2>3, <3>1, StateChanges DEF SwitchRevoke
        <4> QED
          BY <4>1 DEF Dims
      <3>2. CASE SwitchRevokeLost(h)
        BY <1>1, <3>2 DEF SwitchRevokeLost
      <3> QED
        BY <1>11, <3>1, <3>2
    <2> QED
      BY <1>1, <1>3, <2>1, <2>2, <2>4, StepKeeps DEF CallStages
  <1>12. ASSUME NEW h \in Handlers, NEW s \in SessionIds, NEW r \in HandlerValues, r.of = s, s \in given,
                handler' = [handler EXCEPT ![h] = r], UNCHANGED <<session, given, lostWrites, root>>
        PROVE  SessionShape'
    BY <1>1, <1>3, <1>12
  <1>13. ASSUME NEW h \in Handlers, NEW s \in SessionIds, VerifyFind(h, s)
        PROVE  SessionShape'
    <2> DEFINE r == [at |-> "tenant", of |-> s, mfa |-> session[s].mfa, owing |-> totp = "active",
                    exempt |-> FALSE]
    <2>1. session[s] \in SessionRow
      BY <1>1, <1>13 DEF VerifyFind
    <2>2. r \in VerifyRecord /\ r.of = s
      BY <2>1 DEF VerifyRecord, VerifyStages, SessionRow
    <2>3. handler' = [handler EXCEPT ![h] = r] /\ UNCHANGED <<session, given, lostWrites, root>> /\ s \in given
      BY <1>13 DEF VerifyFind
    <2> HIDE DEF r
    <2> QED
      BY <1>12, <2>2, <2>3 DEF HandlerValues
  <1>14. ASSUME NEW h \in Handlers, NEW s \in SessionIds, ChallengeFind(h, s)
        PROVE  SessionShape'
    <2> DEFINE r == [at |-> "code", of |-> s]
    <2>1. r \in OfRecord /\ r.of = s
      BY DEF OfRecord, OfStages
    <2>2. handler' = [handler EXCEPT ![h] = r] /\ UNCHANGED <<session, given, lostWrites, root>> /\ s \in given
      BY <1>14 DEF ChallengeFind
    <2> HIDE DEF r
    <2> QED
      BY <1>12, <2>1, <2>2 DEF HandlerValues
  <1>15. ASSUME NEW h \in Handlers, NEW s \in SessionIds, NEW t \in Tenants, SwitchFind(h, s, t)
        PROVE  SessionShape'
    <2> DEFINE r == [at |-> "switch", of |-> s, to |-> t]
    <2>1. r \in SwitchRecord /\ r.of = s
      BY DEF SwitchRecord, SwitchStages
    <2>2. handler' = [handler EXCEPT ![h] = r] /\ UNCHANGED <<session, given, lostWrites, root>> /\ s \in given
      BY <1>15 DEF SwitchFind
    <2> HIDE DEF r
    <2> QED
      BY <1>12, <2>1, <2>2 DEF HandlerValues
  <1>16. ASSUME NEW h \in Handlers, NEW s \in SessionIds, NEW t \in Tenants, NEW m \in BOOLEAN,
                Insert(s, t, m), Finish(h), given' = given \cup {s}, lostWrites' = lostWrites,
                root' \in [SessionIds -> SessionIds]
        PROVE  SessionShape'
    <2>1. \A q \in SessionIds : session[q] # NoSession => session'[q] # NoSession
      BY <1>16, InsertAdds DEF Exists
    <2>2. \A q \in given' : q \in SessionIds /\ session'[q] # NoSession
      BY <1>1, <1>16, <2>1, InsertAdds
    <2> QED
      BY <1>3, <1>16, <2>1, <2>2, <1>1, InsertAdds, FinishEnds
  <1>17. ASSUME NEW h \in Handlers, NEW s \in SessionIds, NEW t \in Tenants, PasskeyLogin(h, s, t)
        PROVE  SessionShape'
    BY <1>1, <1>16, <1>17 DEF PasskeyLogin
  <1>18. ASSUME NEW h \in Handlers, NEW s \in SessionIds, NEW t \in Tenants, NEW b \in BOOLEAN,
                LoginCreate(h, s, t, b)
        PROVE  SessionShape'
    <2>1. CASE ~b
      BY <1>1, <1>16, <1>18, <2>1 DEF LoginCreate
    <2>2. CASE b
      <3> DEFINE r == [at |-> "flag", of |-> s]
      <3>1. r \in OfRecord /\ r.of = s
        BY DEF OfRecord, OfStages
      <3>2. handler' = [handler EXCEPT ![h] = r] /\ UNCHANGED <<given, lostWrites, root>> /\ Insert(s, t, FALSE)
        BY <1>18, <2>2 DEF LoginCreate
      <3> HIDE DEF r
      <3>3. /\ handler' \in [Handlers -> HandlerValues] /\ handler'[h].of = s
            /\ \A g \in Handlers : g # h => handler'[g] = handler[g]
        BY <1>1, <3>1, <3>2 DEF HandlerValues
      <3>4. /\ session' \in [SessionIds -> {NoSession} \cup SessionRow] /\ session'[s] # NoSession
            /\ \A q \in SessionIds : session[q] # NoSession => session'[q] # NoSession
        BY <3>2, InsertAdds DEF Exists
      <3>5. \A g \in Handlers : handler'[g].at \in CallStages => session'[handler'[g].of] # NoSession
        BY <1>1, <3>3, <3>4
      <3> QED
        BY <1>0, <1>1, <3>2, <3>3, <3>4, <3>5
    <2> QED
      BY <2>1, <2>2
  <1>19. ASSUME NEW h \in Handlers, NEW s \in SessionIds, SwitchCreate(h, s)
        PROVE  SessionShape'
    <2>1. handler[h].at = "create" /\ root' = [root EXCEPT ![s] = root[handler[h].of]]
      BY <1>19 DEF SwitchCreate
    <2>2. handler[h] \in SwitchRecord /\ handler[h].at \in CallStages
      BY <2>1, HandlerRecord DEF SwitchStages, CallStages
    <2>3. handler[h].to \in Tenants /\ handler[h].of \in SessionIds
      BY <2>2 DEF SwitchRecord
    <2>4. root' \in [SessionIds -> SessionIds]
      BY <1>1, <2>1, <2>3
    <2> QED
      BY <1>16, <1>19, <2>3, <2>4 DEF SwitchCreate
  <1> QED
    BY <1>4, <1>5, <1>6, <1>7, <1>8, <1>9, <1>10, <1>11, <1>13, <1>14, <1>15, <1>17, <1>18, <1>19,
       SessionCases

(* What a call has paid for. *)
HandlerPaid(h) ==
  /\ handler[h].at = "mark" => handler[h].of \in challenged
  /\ handler[h].at \in VerifyStages =>
       /\ handler[h].mfa => handler[h].of \in challenged
       /\ handler[h].owing => totp = "active"
  /\ handler[h].at = "step-up" => ~handler[h].owing \/ handler[h].exempt
  /\ handler[h].at = "admitted" /\ handler[h].owing /\ ~handler[h].exempt => handler[h].of \in challenged
Paid == MfaEarned /\ \A h \in Handlers : HandlerPaid(h)

(* HandlerPaid with the values after a step, for a call by its stage. *)
LEMMA PaidAfter ==
  ASSUME NEW h \in Handlers,
         \/ handler'[h].at \in {"ended", "flag", "code", "switch", "create"}
         \/ handler'[h].at = "mark" /\ handler'[h].of \in challenged'
         \/ /\ handler'[h].at \in {"tenant", "totp"}
            /\ handler'[h].mfa => handler'[h].of \in challenged'
            /\ handler'[h].owing => totp' = "active"
         \/ /\ handler'[h].at = "step-up" /\ (~handler'[h].owing \/ handler'[h].exempt)
            /\ handler'[h].mfa => handler'[h].of \in challenged'
            /\ handler'[h].owing => totp' = "active"
         \/ /\ handler'[h].at = "admitted"
            /\ handler'[h].mfa => handler'[h].of \in challenged'
            /\ handler'[h].owing => totp' = "active"
            /\ handler'[h].owing => handler'[h].exempt \/ handler'[h].of \in challenged'
  PROVE  HandlerPaid(h)'
  BY DEF HandlerPaid, VerifyStages

(* What is paid stays paid when no row gains a mark and one handler        *)
(* moves.                                                                  *)
LEMMA PaidFrame ==
  ASSUME Paid, challenged \subseteq challenged', UNCHANGED totp, NEW h \in Handlers,
         \A g \in Handlers : g # h => handler'[g] = handler[g], HandlerPaid(h)',
         \A s \in SessionIds : \/ session'[s] = NoSession
                               \/ session[s] # NoSession /\ (session'[s].mfa => session[s].mfa)
                               \/ ~session'[s].mfa \/ s \in challenged'
  PROVE  Paid'
  <1>1. MfaEarned'
    <2>1. \A s \in SessionIds : session'[s] # NoSession /\ session'[s].mfa => s \in challenged'
      BY DEF Paid, MfaEarned
    <2> QED
      BY <2>1 DEF MfaEarned, NoSession
  <1>2. \A g \in Handlers : g # h => HandlerPaid(g)'
    BY DEF Paid, HandlerPaid, VerifyStages
  <1> QED
    BY <1>1, <1>2 DEF Paid

(* Marks of a second factor are only on sessions that were challenged. *)
LEMMA SessionStepPaid == SessionShape /\ Paid /\ [SessionNext]_allSessionVars => Paid'
  <1> SUFFICES ASSUME SessionShape, Paid, [SessionNext]_allSessionVars PROVE Paid'
    OBVIOUS
  <1>1. CASE UNCHANGED allSessionVars
    BY <1>1 DEF allSessionVars, sessionVars, factorVars, Paid, MfaEarned, HandlerPaid, VerifyStages, NoSession
  <1>2. CASE FactorStep
    <2>1. \A h \in Handlers : HandlerPaid(h)'
      <3> SUFFICES ASSUME NEW h \in Handlers PROVE HandlerPaid(h)'
        OBVIOUS
      <3>1. /\ handler'[h].at = handler[h].at /\ challenged' = challenged
            /\ handler[h].at \notin VerifyStages => handler'[h] = handler[h]
            /\ handler[h].at \in VerifyStages =>
                 /\ handler'[h].of = handler[h].of /\ handler'[h].mfa = handler[h].mfa
                   /\ handler'[h].exempt = handler[h].exempt
                 /\ handler'[h].owing <=> (handler[h].owing /\ totp' = "active")
        BY <1>2, FactorTells
      <3> QED
        BY <3>1 DEF Paid, HandlerPaid, VerifyStages
    <2>2. MfaEarned'
      BY <1>2, FactorTells DEF Paid, MfaEarned, NoSession
    <2> QED
      BY <2>1, <2>2 DEF Paid
  <1>3. CASE Wanes /\ UNCHANGED totp
    <2>1. MfaEarned'
      <3>1. \A s \in SessionIds : session'[s] # NoSession /\ session'[s].mfa => s \in challenged'
        BY <1>3, WanesDims DEF Paid, MfaEarned, Dims
      <3> QED
        BY <3>1 DEF MfaEarned, NoSession
    <2>2. \A h \in Handlers : HandlerPaid(h)'
      BY <1>3, WanesDims DEF Paid, HandlerPaid, VerifyStages
    <2> QED
      BY <2>1, <2>2 DEF Paid
  <1>4. ASSUME NEW h \in Handlers, UNCHANGED <<totp, session>>, challenged \subseteq challenged',
               \A g \in Handlers : g # h => handler'[g] = handler[g], HandlerPaid(h)'
        PROVE  Paid'
    BY <1>4, PaidFrame
  <1>5. ASSUME NEW h \in Handlers, UNCHANGED <<totp, session, challenged>>, Finish(h)
        PROVE  Paid'
    <2>1. HandlerPaid(h)' /\ \A g \in Handlers : g # h => handler'[g] = handler[g]
      BY <1>5, FinishEnds, PaidAfter
    <2> QED
      BY <1>4, <1>5, <2>1
  <1>6. ASSUME NEW h \in Handlers, UNCHANGED totp, Settles(h)
        PROVE  Paid'
    BY <1>5, <1>6, SettlesEnds
  <1>7. ASSUME NEW h \in Handlers, UNCHANGED totp, Verifies(h)
        PROVE  Paid'
    <2>0. UNCHANGED <<session, challenged>> /\ handler[h].at \in VerifyStages
      BY <1>7 DEF Verifies, VerifyTenant, VerifyTotp, VerifyStepUp, VerifyReadFails, VerifyStages
    <2>1. HandlerPaid(h)
      BY DEF Paid
    <2>2. ASSUME NEW a \in VerifyStages, Step(h, a),
                 a = "step-up" => ~handler[h].owing \/ handler[h].exempt,
                 a = "admitted" => handler[h].mfa \/ ~handler[h].owing \/ handler[h].exempt
          PROVE  Paid'
      <3>1. /\ handler'[h].at = a /\ handler'[h].of = handler[h].of
            /\ handler'[h].mfa = handler[h].mfa /\ handler'[h].owing = handler[h].owing
              /\ handler'[h].exempt = handler[h].exempt
            /\ \A g \in Handlers : g # h => handler'[g] = handler[g]
        BY <2>0, <2>2, StepKeeps
      <3>2. HandlerPaid(h)'
        BY <1>7, <2>0, <2>1, <2>2, <3>1, PaidAfter DEF HandlerPaid, VerifyStages
      <3> QED
        BY <1>4, <1>7, <2>0, <3>1, <3>2
    <2>3. CASE Finish(h)
      BY <1>5, <1>7, <2>0, <2>3
    <2>e. ASSUME NEW a \in {"step-up", "admitted"}, Exempt(h, a)
          PROVE  Paid'
      <3>0. a \in VerifyStages
        BY DEF VerifyStages
      <3>1. /\ handler'[h].at = a /\ handler'[h].of = handler[h].of /\ handler'[h].exempt
            /\ handler'[h].mfa = handler[h].mfa /\ handler'[h].owing = handler[h].owing
            /\ \A g \in Handlers : g # h => handler'[g] = handler[g]
        BY <2>0, <2>e, <3>0, ExemptKeeps
      <3>2. HandlerPaid(h)'
        BY <1>7, <2>0, <2>1, <3>1, PaidAfter DEF HandlerPaid
      <3> QED
        BY <1>4, <1>7, <2>0, <3>1, <3>2
    <2>4. CASE \E required \in Required, suspended \in BOOLEAN, uri \in Uris :
                 VerifyTenant(h, required, suspended, uri)
      <3>1. \/ Finish(h) \/ Step(h, "totp") \/ (Step(h, "admitted") /\ handler[h].mfa) \/ Exempt(h, "admitted")
        BY <2>4 DEF VerifyTenant
      <3> QED
        BY <2>2, <2>3, <2>e, <3>1 DEF VerifyStages
    <2>7. CASE VerifyReadFails(h)
      <3>1. Exempt(h, "step-up") \/ Exempt(h, "admitted")
        BY <2>7 DEF VerifyReadFails
      <3> QED
        BY <2>e, <3>1
    <2>5. CASE VerifyTotp(h)
      <3>1. Finish(h) \/ (Step(h, "step-up") /\ totp # "active")
        BY <2>5 DEF VerifyTotp
      <3>2. totp # "active" => ~handler[h].owing
        BY <2>0, <2>1 DEF HandlerPaid
      <3> QED
        BY <2>2, <2>3, <3>1, <3>2 DEF VerifyStages
    <2>6. CASE VerifyStepUp(h)
      <3>1. Finish(h) \/ Step(h, "admitted")
        BY <2>6 DEF VerifyStepUp
      <3>2. ~handler[h].owing \/ handler[h].exempt
        BY <2>1, <2>6 DEF HandlerPaid, VerifyStepUp
      <3> QED
        BY <2>2, <2>3, <3>1, <3>2 DEF VerifyStages
    <2> QED
      BY <1>7, <2>4, <2>5, <2>6, <2>7 DEF Verifies
  <1>8. ASSUME NEW h \in Handlers, UNCHANGED totp, Passes(h)
        PROVE  Paid'
    <2>1. /\ handler[h].at \in OfStages /\ "mark" \in OfStages /\ UNCHANGED session /\ Step(h, "mark")
          /\ challenged' = challenged \cup {handler[h].of}
      BY <1>8 DEF Passes, ChallengeTotp, ChallengeRecovery, OfStages
    <2>2. /\ handler'[h].at = "mark" /\ handler'[h].of = handler[h].of
          /\ \A g \in Handlers : g # h => handler'[g] = handler[g]
      BY <2>1, StepKeeps
    <2>3. HandlerPaid(h)'
      BY <2>1, <2>2, PaidAfter
    <2> QED
      BY <1>4, <1>8, <2>1, <2>2, <2>3
  <1>9. ASSUME NEW h \in Handlers, UNCHANGED totp, MarkMfaVerified(h)
        PROVE  Paid'
    <2>1. UNCHANGED challenged /\ Finish(h) /\ handler[h].at = "mark"
      BY <1>9 DEF MarkMfaVerified
    <2>2. handler[h].of \in challenged
      BY <2>1 DEF Paid, HandlerPaid
    <2>3. HandlerPaid(h)' /\ \A g \in Handlers : g # h => handler'[g] = handler[g]
      BY <2>1, FinishEnds, PaidAfter
    <2>4. \A s \in SessionIds : \/ session'[s] = NoSession
                                \/ session[s] # NoSession /\ (session'[s].mfa => session[s].mfa)
                                \/ ~session'[s].mfa \/ s \in challenged'
      BY <1>9, <2>1, <2>2, MarkSets
    <2> QED
      BY <1>9, <2>1, <2>3, <2>4, PaidFrame
  <1>10. ASSUME NEW h \in Handlers, UNCHANGED totp, SwitchRevoke(h) \/ SwitchRevokeLost(h)
        PROVE  Paid'
    <2>1. handler[h].at = "switch" /\ Step(h, "create") /\ UNCHANGED challenged
      BY <1>10 DEF SwitchRevoke, SwitchRevokeLost
    <2>2. "switch" \in SwitchStages /\ "create" \in SwitchStages /\ "switch" \in CallStages
      BY DEF SwitchStages, CallStages
    <2>3. handler'[h].at = "create" /\ \A g \in Handlers : g # h => handler'[g] = handler[g]
      BY <2>1, <2>2, StepKeeps
    <2>4. HandlerPaid(h)'
      BY <2>3, PaidAfter
    <2>5. handler[h].of \in SessionIds /\ Exists(handler[h].of)
      BY <2>1, <2>2, HandlerRecord DEF SessionShape
    <2>6. \A s \in SessionIds : \/ session'[s] = NoSession
                                \/ session[s] # NoSession /\ (session'[s].mfa => session[s].mfa)
      <3>1. CASE SwitchRevoke(h)
        <4>1. Dims
          BY <2>5, <3>1, StateChanges DEF SwitchRevoke
        <4> QED
          BY <4>1 DEF Dims
      <3>2. CASE SwitchRevokeLost(h)
        BY <3>2 DEF SwitchRevokeLost
      <3> QED
        BY <1>10, <3>1, <3>2
    <2> QED
      BY <1>10, <2>1, <2>3, <2>4, <2>6, PaidFrame
  <1>11. ASSUME NEW h \in Handlers, UNCHANGED totp, NEW s \in SessionIds, VerifyFind(h, s)
        PROVE  Paid'
    <2>1. /\ handler'[h].at = "tenant" /\ handler'[h].of = s /\ (handler'[h].mfa <=> session[s].mfa)
          /\ (handler'[h].owing <=> totp = "active") /\ \A g \in Handlers : g # h => handler'[g] = handler[g]
          /\ UNCHANGED <<session, challenged>>
      BY <1>11 DEF VerifyFind, SessionShape
    <2>2. session[s].mfa => s \in challenged
      BY <1>11 DEF VerifyFind, SessionShape, Exists, Paid, MfaEarned
    <2>3. HandlerPaid(h)'
      BY <1>11, <2>1, <2>2, PaidAfter
    <2> QED
      BY <1>4, <1>11, <2>1, <2>3
  <1>12. ASSUME NEW h \in Handlers, UNCHANGED totp, NEW s \in SessionIds, NEW t \in Tenants,
                SwitchFind(h, s, t)
        PROVE  Paid'
    <2>1. /\ handler'[h].at = "switch" /\ \A g \in Handlers : g # h => handler'[g] = handler[g]
          /\ UNCHANGED <<session, challenged>>
      BY <1>12 DEF SwitchFind, SessionShape
    <2>2. HandlerPaid(h)'
      BY <2>1, PaidAfter
    <2> QED
      BY <1>4, <1>12, <2>1, <2>2
  <1>13. ASSUME NEW h \in Handlers, UNCHANGED totp, NEW s \in SessionIds, ChallengeFind(h, s)
        PROVE  Paid'
    <2>1. /\ handler'[h].at = "code" /\ \A g \in Handlers : g # h => handler'[g] = handler[g]
          /\ UNCHANGED <<session, challenged>>
      BY <1>13 DEF ChallengeFind, SessionShape
    <2>2. HandlerPaid(h)'
      BY <2>1, PaidAfter
    <2> QED
      BY <1>4, <1>13, <2>1, <2>2
  <1>14. ASSUME NEW h \in Handlers, UNCHANGED totp, NEW s \in SessionIds, NEW t \in Tenants, NEW m \in BOOLEAN,
                Insert(s, t, m), m => s \in challenged', challenged \subseteq challenged',
                \A g \in Handlers : g # h => handler'[g] = handler[g],
                handler'[h].at \in {"ended", "flag"}
        PROVE  Paid'
    <2>1. HandlerPaid(h)'
      BY <1>14, PaidAfter
    <2>2. \A q \in SessionIds : \/ session'[q] = NoSession
                                \/ session[q] # NoSession /\ (session'[q].mfa => session[q].mfa)
                                \/ ~session'[q].mfa \/ q \in challenged'
      BY <1>14, InsertAdds
    <2> QED
      BY <1>14, <2>1, <2>2, PaidFrame
  <1>15. ASSUME NEW h \in Handlers, UNCHANGED totp, NEW s \in SessionIds, NEW t \in Tenants, PasskeyLogin(h, s, t)
        PROVE  Paid'
    <2>1. Insert(s, t, TRUE) /\ challenged' = challenged \cup {s} /\ Finish(h)
      BY <1>15 DEF PasskeyLogin
    <2> QED
      BY <1>14, <1>15, <2>1, FinishEnds
  <1>16. ASSUME NEW h \in Handlers, UNCHANGED totp, NEW s \in SessionIds, NEW t \in Tenants, NEW b \in BOOLEAN,
                LoginCreate(h, s, t, b)
        PROVE  Paid'
    <2>1. Insert(s, t, FALSE) /\ UNCHANGED challenged
      BY <1>16 DEF LoginCreate
    <2>2. handler'[h].at \in {"ended", "flag"} /\ \A g \in Handlers : g # h => handler'[g] = handler[g]
      BY <1>16, FinishEnds DEF LoginCreate, SessionShape
    <2> QED
      BY <1>14, <1>16, <2>1, <2>2
  <1>17. ASSUME NEW h \in Handlers, UNCHANGED totp, NEW s \in SessionIds, SwitchCreate(h, s)
        PROVE  Paid'
    <2>1. Insert(s, handler[h].to, FALSE) /\ UNCHANGED challenged /\ Finish(h) /\ handler[h].at = "create"
      BY <1>17 DEF SwitchCreate
    <2>2. handler[h] \in SwitchRecord
      BY <2>1, HandlerRecord DEF SwitchStages
    <2>3. handler[h].to \in Tenants
      BY <2>2 DEF SwitchRecord
    <2> QED
      BY <1>14, <1>17, <2>1, <2>3, FinishEnds
  <1> QED
    BY <1>1, <1>2, <1>3, <1>6, <1>7, <1>8, <1>9, <1>10, <1>11, <1>12, <1>13, <1>15, <1>16, <1>17, SessionCases

(* A session that does not exist is its own login and nobody else's. *)
Rooted ==
  \A s, t \in SessionIds : session[s] = NoSession => root[s] = s /\ (root[t] = s => t = s)

(* A switch that is alone. *)
SwitchAlone ==
  /\ \A g, h \in Handlers : Switching(g) /\ Switching(h) => g = h
  /\ \A h \in Handlers, s \in SessionIds :
       handler[h].at = "switch" /\ Live(s) /\ root[s] = root[handler[h].of] => s = handler[h].of
  /\ \A h \in Handlers, s \in SessionIds :
       handler[h].at = "create" /\ Live(s) => root[s] # root[handler[h].of]
  /\ \A s, t \in SessionIds : Live(s) /\ Live(t) /\ root[s] = root[t] => s = t
Replaced == Rooted /\ (~overlap /\ lostWrites = 0 => SwitchAlone)

(* A step that creates no session and starts no switch. *)
LEMMA ReplacedFrame ==
  ASSUME Replaced, UNCHANGED root, overlap => overlap', lostWrites' = 0 => lostWrites = 0,
         \A s \in SessionIds : /\ session'[s] = NoSession => session[s] = NoSession
                               /\ session'[s].state = "live" => session[s].state = "live",
         \A h \in Handlers : Switching(h)' => handler'[h].at = handler[h].at /\ handler'[h].of = handler[h].of
  PROVE  Replaced'
  <1>1. Rooted'
    BY DEF Replaced, Rooted, NoSession
  <1>2. ASSUME ~overlap', lostWrites' = 0
        PROVE  SwitchAlone'
    <2>1. SwitchAlone
      BY <1>2 DEF Replaced
    <2>2. \A h \in Handlers : Switching(h)' => Switching(h)
      BY DEF Switching
    <2>3. \A g, h \in Handlers : Switching(g)' /\ Switching(h)' => g = h
      BY <2>1, <2>2 DEF SwitchAlone
    <2>4. \A h \in Handlers, s \in SessionIds :
            handler'[h].at = "switch" /\ session'[s].state = "live" /\ root'[s] = root'[handler'[h].of]
              => s = handler'[h].of
      BY <2>1 DEF SwitchAlone, Live, Switching
    <2>5. \A h \in Handlers, s \in SessionIds :
            handler'[h].at = "create" /\ session'[s].state = "live" => root'[s] # root'[handler'[h].of]
      BY <2>1 DEF SwitchAlone, Live, Switching
    <2>6. \A s, t \in SessionIds :
            session'[s].state = "live" /\ session'[t].state = "live" /\ root'[s] = root'[t] => s = t
      BY <2>1 DEF SwitchAlone, Live
    <2> QED
      BY <2>3, <2>4, <2>5, <2>6 DEF SwitchAlone, Live
  <1> QED
    BY <1>1, <1>2 DEF Replaced

(* A tenant switch has revoked the session it replaces before it creates   *)
(* the next.                                                               *)
LEMMA SessionStepReplaced == SessionShape /\ Replaced /\ [SessionNext]_allSessionVars => Replaced'
  <1> SUFFICES ASSUME SessionShape, Replaced, [SessionNext]_allSessionVars PROVE Replaced'
    OBVIOUS
  <1>0. /\ "switch" \in CallStages /\ "create" \in CallStages /\ "switch" \in SwitchStages
        /\ "create" \in SwitchStages /\ "switch" \notin VerifyStages /\ "create" \notin VerifyStages
        /\ "switch" \notin OfStages /\ "create" \notin OfStages
    BY DEF CallStages, SwitchStages, VerifyStages, OfStages
  <1>1. CASE UNCHANGED allSessionVars
    BY <1>1, ReplacedFrame DEF allSessionVars, sessionVars
  <1>2. CASE FactorStep
    <2>1. \A h \in Handlers : Switching(h)' => handler'[h].at = handler[h].at /\ handler'[h].of = handler[h].of
      BY <1>0, <1>2, FactorTells DEF Switching
    <2> QED
      BY <1>2, <2>1, FactorTells, ReplacedFrame
  <1>3. CASE Wanes
    BY <1>3, WanesDims, ReplacedFrame DEF Dims
  <1>4. ASSUME NEW h \in Handlers, UNCHANGED <<root, overlap>>, lostWrites' = 0 => lostWrites = 0,
               \A s \in SessionIds : /\ session'[s] = NoSession => session[s] = NoSession
                                     /\ session'[s].state = "live" => session[s].state = "live",
               \A g \in Handlers : g # h => handler'[g] = handler[g],
               handler'[h].at \notin {"switch", "create"}
        PROVE  Replaced'
    <2>1. \A g \in Handlers : Switching(g)' => handler'[g].at = handler[g].at /\ handler'[g].of = handler[g].of
      BY <1>4 DEF Switching
    <2> QED
      BY <1>4, <2>1, ReplacedFrame
  <1>5. ASSUME NEW h \in Handlers, Settles(h)
        PROVE  Replaced'
    <2>1. lostWrites' = 0 => lostWrites = 0
      BY <1>5, SettlesEnds DEF SessionShape
    <2> QED
      BY <1>4, <1>5, <2>1, SettlesEnds, FinishEnds
  <1>6. ASSUME NEW h \in Handlers, Verifies(h)
        PROVE  Replaced'
    <2>1. /\ handler[h].at \in VerifyStages /\ UNCHANGED <<session, lostWrites, root, overlap>>
          /\ Finish(h) \/ \E a \in VerifyStages : Step(h, a) \/ Exempt(h, a)
      BY <1>6 DEF Verifies, VerifyTenant, VerifyTotp, VerifyStepUp, VerifyReadFails, VerifyStages
    <2>2. CASE Finish(h)
      BY <1>4, <2>1, <2>2, FinishEnds
    <2>3. CASE \E a \in VerifyStages : Step(h, a)
      BY <1>0, <1>4, <2>1, <2>3, StepKeeps
    <2>4. ASSUME NEW a \in VerifyStages, Exempt(h, a)
          PROVE  Replaced'
      <3>1. handler'[h].at = a /\ \A g \in Handlers : g # h => handler'[g] = handler[g]
        BY <1>0, <2>1, <2>4, ExemptKeeps
      <3>2. a \notin {"switch", "create"}
        BY DEF VerifyStages
      <3> QED
        BY <1>4, <2>1, <3>1, <3>2
    <2> QED
      BY <2>1, <2>2, <2>3, <2>4
  <1>7. ASSUME NEW h \in Handlers, Passes(h)
        PROVE  Replaced'
    <2>1. /\ handler[h].at \in OfStages /\ UNCHANGED <<session, lostWrites, root, overlap>>
          /\ Step(h, "mark") /\ "mark" \in OfStages
      BY <1>7 DEF Passes, ChallengeTotp, ChallengeRecovery, OfStages
    <2> QED
      BY <1>4, <2>1, StepKeeps
  <1>8. ASSUME NEW h \in Handlers, MarkMfaVerified(h)
        PROVE  Replaced'
    <2>1. UNCHANGED <<lostWrites, root, overlap>> /\ Finish(h)
      BY <1>8 DEF MarkMfaVerified
    <2> QED
      BY <1>4, <1>8, <2>1, FinishEnds, MarkSets
  <1>9. ASSUME NEW h \in Handlers, SwitchRevokeLost(h)
        PROVE  Replaced'
    <2>1. lostWrites' # 0 /\ UNCHANGED <<session, root>>
      BY <1>9 DEF SwitchRevokeLost, SessionShape
    <2>2. Rooted'
      BY <2>1 DEF Replaced, Rooted, NoSession
    <2> QED
      BY <2>1, <2>2 DEF Replaced
  <1>10. ASSUME NEW h \in Handlers, SwitchRevoke(h)
        PROVE  Replaced'
    <2>1. handler[h].at = "switch" /\ Step(h, "create") /\ UNCHANGED <<lostWrites, root, overlap>>
      BY <1>10 DEF SwitchRevoke
    <2>2. handler[h].of \in SessionIds /\ Exists(handler[h].of)
      BY <1>0, <2>1, HandlerRecord DEF SessionShape
    <2>3. Dims
      BY <1>10, <2>2, StateChanges DEF SwitchRevoke
    <2>4. session'[handler[h].of].state = "revoked"
      BY <1>10, <2>2 DEF SwitchRevoke, SessionShape, Exists, SessionRow
    <2>5. /\ \A g \in Handlers : g # h => handler'[g] = handler[g]
          /\ handler'[h].at = "create" /\ handler'[h].of = handler[h].of
      BY <1>0, <2>1, StepKeeps
    <2>6. Rooted'
      BY <2>1, <2>3 DEF Replaced, Rooted, NoSession, Dims
    <2>7. ASSUME ~overlap, lostWrites = 0
          PROVE  SwitchAlone'
      <3>1. SwitchAlone
        BY <2>7 DEF Replaced
      <3>2. \A g, k \in Handlers : Switching(g)' /\ Switching(k)' => g = k
        BY <2>1, <2>5, <3>1 DEF SwitchAlone, Switching
      <3>3. \A g \in Handlers : Switching(g)' => g = h
        BY <2>5, <3>2 DEF Switching
      <3>4. \A s \in SessionIds : session'[s].state = "live" => root'[s] # root'[handler[h].of]
        BY <2>1, <2>3, <2>4, <3>1 DEF SwitchAlone, Live, Dims
      <3>5. \A g \in Handlers, s \in SessionIds :
              handler'[g].at = "switch" /\ session'[s].state = "live" /\ root'[s] = root'[handler'[g].of]
                => s = handler'[g].of
        BY <2>5, <3>3 DEF Switching
      <3>6. \A g \in Handlers, s \in SessionIds :
              handler'[g].at = "create" /\ session'[s].state = "live" => root'[s] # root'[handler'[g].of]
        BY <2>5, <3>3, <3>4 DEF Switching
      <3>7. \A s, t \in SessionIds :
              session'[s].state = "live" /\ session'[t].state = "live" /\ root'[s] = root'[t] => s = t
        BY <2>1, <2>3, <3>1 DEF SwitchAlone, Live, Dims
      <3> QED
        BY <3>2, <3>5, <3>6, <3>7 DEF SwitchAlone, Live
    <2> QED
      BY <2>1, <2>6, <2>7 DEF Replaced
  <1>11. ASSUME NEW h \in Handlers, NEW s \in SessionIds, VerifyFind(h, s) \/ ChallengeFind(h, s)
        PROVE  Replaced'
    <2>1. /\ handler'[h].at \in {"tenant", "code"} /\ \A g \in Handlers : g # h => handler'[g] = handler[g]
          /\ UNCHANGED <<session, lostWrites, root, overlap>>
      BY <1>11 DEF VerifyFind, ChallengeFind, SessionShape
    <2> QED
      BY <1>4, <2>1
  <1>12. ASSUME NEW h \in Handlers, NEW s \in SessionIds, NEW t \in Tenants, SwitchFind(h, s, t)
        PROVE  Replaced'
    <2>1. /\ handler'[h].at = "switch" /\ handler'[h].of = s /\ Live(s)
          /\ \A g \in Handlers : g # h => handler'[g] = handler[g]
          /\ UNCHANGED <<session, lostWrites, root>>
          /\ overlap => overlap'
          /\ ~overlap' => \A g \in Handlers : ~Switching(g)
      BY <1>12 DEF SwitchFind, SessionShape
    <2>2. Rooted'
      BY <2>1 DEF Replaced, Rooted, NoSession
    <2>3. ASSUME ~overlap', lostWrites = 0
          PROVE  SwitchAlone'
      <3>1. SwitchAlone
        BY <2>1, <2>3 DEF Replaced
      <3>2. \A g \in Handlers : Switching(g)' => g = h
        BY <2>1, <2>3 DEF Switching
      <3>3. \A g, k \in Handlers : Switching(g)' /\ Switching(k)' => g = k
        BY <3>2
      <3>4. \A q \in SessionIds : Live(q) /\ root[q] = root[s] => q = s
        BY <2>1, <3>1 DEF SwitchAlone
      <3>5. \A g \in Handlers, q \in SessionIds :
              handler'[g].at = "switch" /\ session'[q].state = "live" /\ root'[q] = root'[handler'[g].of]
                => q = handler'[g].of
        BY <2>1, <3>2, <3>4 DEF Switching, Live
      <3>6. \A g \in Handlers : handler'[g].at # "create"
        BY <2>1, <3>2 DEF Switching
      <3> QED
        BY <2>1, <3>1, <3>3, <3>5, <3>6 DEF SwitchAlone, Live
    <2> QED
      BY <2>1, <2>2, <2>3 DEF Replaced
  \* A session is created: of its own login, or of the login of the session it replaces.
  <1>13. ASSUME NEW h \in Handlers, NEW s \in SessionIds, NEW l \in SessionIds, ~Exists(s), session'[s] # NoSession,
                \A q \in SessionIds : q # s => session'[q] = session[q],
                \A g \in Handlers : g # h => handler'[g] = handler[g], ~Switching(h)',
                UNCHANGED <<lostWrites, overlap>>, root' = [root EXCEPT ![s] = root[l]],
                l = s \/ (Exists(l) /\ handler[h].at = "create" /\ l = handler[h].of)
        PROVE  Replaced'
    <2>1. /\ root'[s] = root[l] /\ \A q \in SessionIds : q # s => root'[q] = root[q]
          /\ \A g \in Handlers : Switching(g)' => g # h /\ handler'[g] = handler[g] /\ Switching(g)
      BY <1>13 DEF SessionShape, Switching
    <2>2. root[s] = s /\ \A q \in SessionIds : root[q] = s => q = s
      BY <1>13 DEF Replaced, Rooted, Exists
    <2>3. \A q, p \in SessionIds : session'[q] = NoSession => root'[q] = q /\ (root'[p] = q => p = q)
      <3> SUFFICES ASSUME NEW q \in SessionIds, session'[q] = NoSession
                   PROVE  root'[q] = q /\ \A p \in SessionIds : root'[p] = q => p = q
        OBVIOUS
      <3>1. q # s /\ session[q] = NoSession
        BY <1>13
      <3>2. root[q] = q /\ \A p \in SessionIds : root[p] = q => p = q
        BY <3>1 DEF Replaced, Rooted
      <3>3. root'[s] # q
        BY <1>13, <2>1, <3>1, <3>2 DEF Exists
      <3> QED
        BY <2>1, <3>1, <3>2, <3>3
    <2>4. Rooted'
      BY <2>3 DEF Rooted, NoSession
    <2>5. ASSUME ~overlap, lostWrites = 0
          PROVE  SwitchAlone'
      <3>1. SwitchAlone
        BY <2>5 DEF Replaced
      <3>2. \A g, k \in Handlers : Switching(g)' /\ Switching(k)' => g = k
        BY <2>1, <3>1 DEF SwitchAlone
      <3>3. \A q \in SessionIds : q # s /\ session[q].state = "live" => root[q] # root[l]
        BY <1>13, <2>2, <3>1 DEF SwitchAlone, Live
      <3>4. \A q, p \in SessionIds :
              session'[q].state = "live" /\ session'[p].state = "live" /\ root'[q] = root'[p] => q = p
        BY <1>13, <2>1, <3>1, <3>3 DEF SwitchAlone, Live
      <3>5. ASSUME NEW g \in Handlers, Switching(g)'
            PROVE  /\ handler'[g].of \in SessionIds /\ handler'[g].of # s /\ handler'[g] = handler[g]
                   /\ root'[handler'[g].of] = root[handler[g].of] /\ root'[s] # root[handler[g].of]
        <4>1. Switching(g) /\ g # h /\ handler'[g] = handler[g]
          BY <2>1, <3>5
        <4>2. handler[g].of \in SessionIds /\ Exists(handler[g].of)
          BY <1>0, <4>1, HandlerRecord DEF Switching, SessionShape
        <4>3. handler[g].of # s
          BY <1>13, <4>2
        <4>4. l = s
          BY <1>13, <3>1, <4>1 DEF SwitchAlone, Switching
        <4> QED
          BY <2>1, <2>2, <4>1, <4>2, <4>3, <4>4
      <3>6. \A g \in Handlers, q \in SessionIds :
              handler'[g].at = "switch" /\ session'[q].state = "live" /\ root'[q] = root'[handler'[g].of]
                => q = handler'[g].of
        BY <1>13, <2>1, <3>1, <3>5 DEF SwitchAlone, Live, Switching
      <3>7. \A g \in Handlers, q \in SessionIds :
              handler'[g].at = "create" /\ session'[q].state = "live" => root'[q] # root'[handler'[g].of]
        BY <1>13, <2>1, <3>1, <3>5 DEF SwitchAlone, Live, Switching
      <3> QED
        BY <3>2, <3>4, <3>6, <3>7 DEF SwitchAlone, Live
    <2> QED
      BY <1>13, <2>4, <2>5 DEF Replaced
  <1>14. ASSUME NEW h \in Handlers, NEW s \in SessionIds, NEW t \in Tenants,
                PasskeyLogin(h, s, t) \/ \E b \in BOOLEAN : LoginCreate(h, s, t, b)
        PROVE  Replaced'
    <2>1. \E m \in BOOLEAN : Insert(s, t, m)
      BY <1>14 DEF PasskeyLogin, LoginCreate
    <2>2. ~Exists(s) /\ session'[s] # NoSession /\ \A q \in SessionIds : q # s => session'[q] = session[q]
      BY <2>1, InsertAdds
    <2>3. UNCHANGED <<lostWrites, overlap, root>>
      BY <1>14 DEF PasskeyLogin, LoginCreate
    <2>4. (\A g \in Handlers : g # h => handler'[g] = handler[g]) /\ handler'[h].at \in {"ended", "flag"}
      <3>1. CASE PasskeyLogin(h, s, t)
        <4>1. Finish(h)
          BY <3>1 DEF PasskeyLogin
        <4> QED
          BY <4>1, FinishEnds
      <3>2. ASSUME NEW b \in BOOLEAN, LoginCreate(h, s, t, b)
            PROVE  (\A g \in Handlers : g # h => handler'[g] = handler[g]) /\ handler'[h].at \in {"ended", "flag"}
        BY <3>2, FinishEnds DEF LoginCreate, SessionShape
      <3> QED
        BY <1>14, <3>1, <3>2
    <2>5. root' = [root EXCEPT ![s] = root[s]]
      BY <2>3 DEF SessionShape
    <2> QED
      BY <1>13, <2>2, <2>3, <2>4, <2>5 DEF Switching
  <1>15. ASSUME NEW h \in Handlers, NEW s \in SessionIds, SwitchCreate(h, s)
        PROVE  Replaced'
    <2>1. /\ handler[h].at = "create" /\ root' = [root EXCEPT ![s] = root[handler[h].of]] /\ Finish(h)
          /\ Insert(s, handler[h].to, FALSE) /\ UNCHANGED <<lostWrites, overlap>>
      BY <1>15 DEF SwitchCreate
    <2>2. handler[h] \in SwitchRecord /\ handler[h].of \in SessionIds /\ Exists(handler[h].of)
      BY <1>0, <2>1, HandlerRecord DEF SessionShape
    <2>3. handler[h].to \in Tenants
      BY <2>2 DEF SwitchRecord
    <2>4. ~Exists(s) /\ session'[s] # NoSession /\ \A q \in SessionIds : q # s => session'[q] = session[q]
      BY <2>1, <2>3, InsertAdds
    <2>5. (\A g \in Handlers : g # h => handler'[g] = handler[g]) /\ ~Switching(h)'
      BY <2>1, FinishEnds DEF Switching
    <2> QED
      BY <1>13, <2>1, <2>2, <2>4, <2>5
  <1> QED
    BY <1>1, <1>2, <1>3, <1>5, <1>6, <1>7, <1>8, <1>9, <1>10, <1>11, <1>12, <1>14, <1>15, SessionCases

(* A session comes to life once. *)
StaysDead ==
  \A s \in SessionIds : session[s].state \in {"expired", "revoked"} => session'[s].state # "live"

(* No step brings a dead session back to life. *)
LEMMA SessionStepDead == SessionShape /\ [SessionNext]_allSessionVars => StaysDead
  <1> SUFFICES ASSUME SessionShape, [SessionNext]_allSessionVars PROVE StaysDead
    OBVIOUS
  <1>1. ASSUME \A s \in SessionIds : session'[s].state = "live" =>
                 session[s].state = "live" \/ session[s] = NoSession
        PROVE  StaysDead
    BY <1>1 DEF StaysDead, NoSession
  <1>2. ASSUME Dims
        PROVE  StaysDead
    BY <1>1, <1>2 DEF Dims
  <1>3. ASSUME NEW s \in SessionIds, NEW t, NEW m, Insert(s, t, m)
        PROVE  StaysDead
    BY <1>1, <1>3 DEF Insert, SessionShape
  <1>4. ASSUME NEW h \in Handlers, SwitchRevoke(h)
        PROVE  StaysDead
    <2>1. handler[h].of \in SessionIds /\ Exists(handler[h].of)
      BY <1>4, HandlerRecord DEF SwitchRevoke, SessionShape, CallStages, SwitchStages
    <2>2. Dims
      BY <1>4, <2>1, StateChanges DEF SwitchRevoke
    <2> QED
      BY <1>2, <2>2
  <1>5. ASSUME UNCHANGED session
        PROVE  StaysDead
    BY <1>1, <1>5
  <1>6. ASSUME NEW h \in Handlers, MarkMfaVerified(h)
        PROVE  StaysDead
    BY <1>1, <1>6, MarkSets
  <1>7. ASSUME NEW h \in Handlers,
               \/ Settles(h) \/ Verifies(h) \/ Passes(h) \/ SwitchRevokeLost(h)
               \/ \E s \in SessionIds : \/ VerifyFind(h, s) \/ ChallengeFind(h, s)
                                        \/ \E t \in Tenants : SwitchFind(h, s, t)
        PROVE  StaysDead
    BY <1>5, <1>7 DEF Settles, MarkStepUp, MarkStepUpLost, HandlerDropped, Verifies, VerifyTenant,
       VerifyTotp, VerifyStepUp, VerifyReadFails, Passes, ChallengeTotp, ChallengeRecovery, SwitchRevokeLost, VerifyFind,
       ChallengeFind, SwitchFind
  <1>8. ASSUME NEW h \in Handlers, NEW s \in SessionIds,
               \/ SwitchCreate(h, s)
               \/ \E t \in Tenants : PasskeyLogin(h, s, t) \/ \E b \in BOOLEAN : LoginCreate(h, s, t, b)
        PROVE  StaysDead
    BY <1>3, <1>8 DEF SwitchCreate, PasskeyLogin, LoginCreate
  <1>9. CASE UNCHANGED allSessionVars \/ FactorStep
    BY <1>5, <1>9 DEF allSessionVars, sessionVars, FactorStep
  <1>10. CASE Wanes
    BY <1>2, <1>10, WanesDims
  <1> QED
    BY <1>4, <1>6, <1>7, <1>8, <1>9, <1>10, SessionCases

(* The inductive invariant of the sessions. *)
SessionInv == SessionShape /\ Paid /\ Replaced

(* The first session satisfies the invariant. *)
LEMMA SessionInitInv == SessionInit => SessionInv
  <1> SUFFICES ASSUME SessionInit PROVE SessionInv
    OBVIOUS
  <1>1. PICK first \in SessionIds, tn \in Tenants :
          /\ session = [s \in SessionIds |-> IF s # first THEN NoSession
                          ELSE [state |-> "live", tenant |-> tn, mfa |-> FALSE]]
          /\ given = {first}
    BY DEF SessionInit
  <1> DEFINE new == [state |-> "live", tenant |-> tn, mfa |-> FALSE]
  <1>2. new \in SessionRow /\ new # NoSession /\ new.mfa = FALSE
    BY DEF SessionRow, NoSession
  <1>3. session[first] = new /\ \A s \in SessionIds : s # first => session[s] = NoSession
    BY <1>1
  <1>4. session \in [SessionIds -> {NoSession} \cup SessionRow]
    BY <1>1, <1>2
  <1> HIDE DEF new
  <1>5. /\ \A h \in Handlers : handler[h] = Waiting /\ handler[h].at = "waiting"
        /\ handler \in [Handlers -> HandlerValues]
        /\ root \in [SessionIds -> SessionIds] /\ (\A s \in SessionIds : root[s] = s)
        /\ lostWrites = 0
    BY DEF SessionInit, Waiting, HandlerValues
  <1>6. "waiting" \notin CallStages
    BY DEF CallStages, VerifyStages, OfStages, SwitchStages
  <1>7. SessionShape
    BY <1>1, <1>2, <1>3, <1>4, <1>5, <1>6 DEF SessionShape, Exists
  <1>8. Paid
    <2>1. MfaEarned
      BY <1>2, <1>3 DEF MfaEarned
    <2>2. \A h \in Handlers : HandlerPaid(h)
      BY <1>5 DEF HandlerPaid, VerifyStages
    <2> QED
      BY <2>1, <2>2 DEF Paid
  <1>9. Replaced
    <2>1. Rooted
      BY <1>5 DEF Rooted
    <2>2. SwitchAlone
      BY <1>5 DEF SwitchAlone, Switching, Live
    <2> QED
      BY <2>1, <2>2 DEF Replaced
  <1> QED
    BY <1>7, <1>8, <1>9 DEF SessionInv

(* Every step of the sessions keeps their invariant. *)
LEMMA SessionStepInv == SessionInv /\ [SessionNext]_allSessionVars => SessionInv'
  BY SessionStepShape, SessionStepPaid, SessionStepReplaced DEF SessionInv

(* The inductive invariant of the sessions contains what the run checks. *)
LEMMA SessionInvGives == SessionInv => SessionsSound
  <1> SUFFICES ASSUME SessionInv PROVE SessionsSound
    OBVIOUS
  <1>1. MfaEarned /\ AdmittedPaid
    BY DEF SessionInv, Paid, HandlerPaid, AdmittedPaid
  <1>2. ASSUME ~overlap, lostWrites = 0, NEW l \in SessionIds
        PROVE  Cardinality({s \in SessionIds : Live(s) /\ root[s] = l}) <= 1
    <2> DEFINE mine == {s \in SessionIds : Live(s) /\ root[s] = l}
    <2>1. \A s, t \in mine : s = t
      BY <1>2 DEF SessionInv, Replaced, SwitchAlone
    <2>2. CASE mine = {}
      BY <2>2, FS_EmptySet
    <2>3. CASE mine # {}
      <3>1. PICK s \in mine : mine = {s}
        BY <2>1, <2>3
      <3>2. Cardinality(mine) = 1
        BY <3>1, FS_Singleton
      <3> QED
        BY <3>2
    <2> QED
      BY <2>2, <2>3
  <1>3. SwitchReplaces
    BY <1>2 DEF SwitchReplaces
  <1> QED
    BY <1>1, <1>3 DEF SessionsSound

-----------------------------------------------------------------------------
(* Signing keys. *)

(* A finite set of numbers that is not empty has a largest element. *)
LEMMA LargestOf ==
  ASSUME NEW S \in SUBSET Nat, IsFiniteSet(S), S # {}
  PROVE  \E m \in S : \A j \in S : j <= m
  <1> DEFINE Above(i) == {j \in S : j > i}
             T == {Above(i) : i \in S}
  <1>1. T \subseteq FiniteSubsetsOf(S) /\ T # {}
    <2>1. \A i \in S : Above(i) \in SUBSET S
      OBVIOUS
    <2>2. \A U \in SUBSET S : IsFiniteSet(U)
      BY FS_Subset
    <2> QED
      BY <2>1, <2>2 DEF FiniteSubsetsOf
  <1>2. PICK U \in T : \A V \in T : <<V, U>> \notin StrictSubsetOrdering(S)
    <2> HIDE DEF T
    <2>1. IsWellFoundedOn(StrictSubsetOrdering(S), FiniteSubsetsOf(S))
      BY FS_StrictSubsetOrderingWellFounded
    <2> QED
      BY <1>1, <2>1, WFMin
  <1>3. PICK i \in S : U = Above(i)
    BY <1>2
  <1>4. \A j \in S : ~(j > i)
    <2> SUFFICES ASSUME NEW j \in S, j > i PROVE FALSE
      OBVIOUS
    <2>1. j \in Nat /\ i \in Nat
      OBVIOUS
    <2>2. Above(j) \subseteq Above(i)
      <3> SUFFICES ASSUME NEW x \in S, x > j PROVE x > i
        OBVIOUS
      <3> QED
        BY <2>1
    <2>3. j \in Above(i) /\ j \notin Above(j)
      BY <2>1
    <2>4. <<Above(j), U>> \in StrictSubsetOrdering(S)
      BY <1>3, <2>2, <2>3 DEF StrictSubsetOrdering
    <2> QED
      BY <1>2, <2>4
  <1> QED
    BY <1>4

RotationRecord == [at : {"idle", "write", "done"}, old : Keys \cup {NoKey}]

(* The inductive invariant.  A key in use or about to be retired has a     *)
(* row; a row is revoked only by a revocation; a revoked row is written    *)
(* again only by a rotation that had read it before; and the newest key is *)
(* active until it is itself revoked.                                      *)
KeysHaveRows ==
  /\ \A k \in signed \cup gone : status[k] # "none"
  /\ \A s \in Servers, k \in Keys : issuer[s] = {k} => status[k] # "none"
  /\ \A r \in Rotations : rotation[r].old \in Keys => status[rotation[r].old] # "none"
RevocationsKnown ==
  /\ \A k \in Keys : status[k] = "revoked" => k \in gone
  /\ \A k \in gone : status[k] # "active"
  /\ \A k \in gone : k \notin overtaken => status[k] = "revoked"
  /\ \A r \in Rotations : rotation[r].at = "write" /\ rotation[r].old \in gone =>
       rotation[r].old \in overtaken
NewestActive == created # <<>> /\ Newest \notin gone => status[Newest] = "active"
KeyInv ==
  /\ KeyTypeOK /\ rotation \in [Rotations -> RotationRecord]
  /\ KeysHaveRows /\ RevocationsKnown /\ NewestActive

(* load_active returns an active key whenever there is one, and the newest *)
(* key when that is active.                                                *)
LEMMA LoadActiveIs ==
  ASSUME KeyTypeOK
  PROVE  /\ \/ LoadActive = NoKey /\ \A k \in Keys : status[k] # "active"
            \/ LoadActive \in Keys /\ status[LoadActive] = "active"
         /\ created # <<>> /\ status[Newest] = "active" => LoadActive = Newest
  <1> DEFINE rows == {i \in DOMAIN created : status[created[i]] = "active"}
  <1>1. CASE rows = {}
    <2>1. LoadActive = NoKey
      BY <1>1 DEF LoadActive
    <2>2. ASSUME NEW k \in Keys, status[k] = "active" PROVE FALSE
      <3>1. PICK i \in DOMAIN created : created[i] = k
        BY <2>2 DEF KeyTypeOK
      <3> QED
        BY <1>1, <2>2, <3>1
    <2>3. created # <<>> => Newest \in Keys
      <3>1. created \in Seq(Keys)
        BY DEF KeyTypeOK
      <3> QED
        BY <3>1 DEF Newest
    <2> QED
      BY <2>1, <2>2, <2>3
  <1>2. CASE rows # {}
    <2>1. DOMAIN created = 1 .. Len(created) /\ Len(created) \in Nat
      BY DEF KeyTypeOK
    <2>2. rows \in SUBSET Nat /\ IsFiniteSet(rows)
      <3>1. IsFiniteSet(1 .. Len(created))
        BY <2>1, FS_Interval
      <3>2. rows \subseteq 1 .. Len(created)
        BY <2>1
      <3> QED
        BY <3>1, <3>2, FS_Subset
    <2>3. \E i \in rows : \A j \in rows : j <= i
      <3> HIDE DEF rows
      <3> QED
        BY <1>2, <2>2, LargestOf
    <2> DEFINE m == CHOOSE i \in rows : \A j \in rows : j <= i
    <2>4. m \in rows /\ \A j \in rows : j <= m
      <3> HIDE DEF rows
      <3> QED
        BY <2>3
    <2>5. LoadActive = created[m]
      BY <1>2 DEF LoadActive
    <2> HIDE DEF m
    <2>6. created # <<>> /\ status[Newest] = "active" => m = Len(created)
      <3> SUFFICES ASSUME created # <<>>, status[Newest] = "active" PROVE m = Len(created)
        OBVIOUS
      <3>1. created \in Seq(Keys)
        BY DEF KeyTypeOK
      <3>2. Len(created) \in DOMAIN created
        BY <2>1, <3>1
      <3>3. Len(created) \in rows
        BY <3>2 DEF Newest
      <3>4. m \in 1 .. Len(created) /\ Len(created) <= m
        BY <2>1, <2>4, <3>3
      <3>5. \A n \in Nat : \A i \in 1 .. n : n <= i => i = n
        OBVIOUS
      <3> QED
        BY <2>1, <3>4, <3>5
    <2>7. LoadActive \in Keys /\ status[LoadActive] = "active"
      BY <2>4, <2>5 DEF KeyTypeOK
    <2> QED
      BY <2>5, <2>6, <2>7 DEF Newest
  <1> QED
    BY <1>1, <1>2

(* There are no keys initially. *)
LEMMA KeyInitInv == KeyInit => KeyInv
  <1> SUFFICES ASSUME KeyInit PROVE KeyInv
    OBVIOUS
  <1>1. created = <<>> /\ DOMAIN created = {} /\ created \in Seq(Keys)
    BY DEF KeyInit
  <1> QED
    BY <1>1, KeyAssumption
    DEF KeyInit, KeyInv, KeyTypeOK, RotationRecord, KeysHaveRows, RevocationsKnown, NewestActive

(* A new row, with whatever happens to the row of another key. *)
LEMMA RowAdded ==
  ASSUME KeyTypeOK, NEW k \in Keys, status[k] = "none", created' = Append(created, k),
         status' \in [Keys -> {"none", "active", "retired", "revoked"}],
         \A q \in Keys : q # k => (status'[q] = "none" <=> status[q] = "none"),
         status'[k] = "active"
  PROVE  /\ created' \in Seq(Keys) /\ created' # <<>> /\ Newest' = k
         /\ \A i, j \in DOMAIN created' : created'[i] = created'[j] => i = j
         /\ \A q \in Keys : (status'[q] = "none") <=> q \notin {created'[i] : i \in DOMAIN created'}
  <1>1. /\ created \in Seq(Keys) /\ DOMAIN created = 1 .. Len(created) /\ Len(created) \in Nat
        /\ \A i \in DOMAIN created : created[i] # k
    BY DEF KeyTypeOK
  <1>2. /\ created' \in Seq(Keys) /\ DOMAIN created' = 1 .. (Len(created) + 1)
        /\ created'[Len(created) + 1] = k
        /\ \A i \in 1 .. Len(created) : created'[i] = created[i]
    BY <1>1
  <1>3. \A i, j \in DOMAIN created' : created'[i] = created'[j] => i = j
    BY <1>1, <1>2 DEF KeyTypeOK
  <1>4. ASSUME NEW q \in Keys
        PROVE  (status'[q] = "none") <=> q \notin {created'[i] : i \in DOMAIN created'}
    <2>1. (status[q] = "none") <=> ~\E i \in DOMAIN created : created[i] = q
      BY DEF KeyTypeOK
    <2>2. CASE q = k
      BY <1>1, <1>2, <2>2
    <2>3. CASE q # k
      BY <1>1, <1>2, <2>1, <2>3
    <2> QED
      BY <2>2, <2>3
  <1>5. created' # <<>> /\ Newest' = k
    BY <1>1, <1>2 DEF Newest
  <1> QED
    BY <1>2, <1>3, <1>4, <1>5

(* A step that writes no row keeps the shape of the table. *)
LEMMA KeyFrame ==
  ASSUME KeyTypeOK, UNCHANGED <<status, created>>,
         issuer' \in [Servers -> {{}} \cup {{k} : k \in Keys \cup {NoKey}}],
         signed' \subseteq Keys, gone' \subseteq Keys, overtaken' \subseteq Keys
  PROVE  KeyTypeOK'
  BY DEF KeyTypeOK

(* A key that is inserted gets a row of its own. *)
LEMMA KeyRowsFrame ==
  ASSUME KeyTypeOK, NEW k \in Keys, status[k] = "none", created' = Append(created, k),
         status' \in [Keys -> {"none", "active", "retired", "revoked"}],
         \A q \in Keys : q # k => (status'[q] = "none" <=> status[q] = "none"),
         status'[k] = "active",
         issuer' \in [Servers -> {{}} \cup {{q} : q \in Keys \cup {NoKey}}],
         UNCHANGED <<signed, gone, overtaken>>
  PROVE  KeyTypeOK' /\ created' # <<>> /\ Newest' = k
  BY RowAdded DEF KeyTypeOK

(* Start-ups, rotations, revocations and signatures keep the invariant of  *)
(* the keys.                                                               *)
LEMMA KeyStepInv == KeyInv /\ [KeyNext]_keyVars => KeyInv'
  <1> SUFFICES ASSUME KeyInv, [KeyNext]_keyVars PROVE KeyInv'
    OBVIOUS
  <1> USE DEF KeyInv
  <1>0. KeyTypeOK /\ rotation \in [Rotations -> RotationRecord]
    OBVIOUS
  <1>a. /\ status \in [Keys -> {"none", "active", "retired", "revoked"}]
        /\ issuer \in [Servers -> {{}} \cup {{k} : k \in Keys \cup {NoKey}}]
        /\ signed \subseteq Keys /\ gone \subseteq Keys /\ overtaken \subseteq Keys
        /\ NoKey \notin Keys
    BY <1>0, KeyAssumption DEF KeyTypeOK
  <1>b. ASSUME rotation' \in [Rotations -> RotationRecord] PROVE (rotation \in [Rotations -> RotationRecord])'
    BY <1>b DEF RotationRecord
  <1>1. CASE UNCHANGED keyVars
    BY <1>1, KeyFrame, <1>a, <1>b DEF keyVars, KeysHaveRows, RevocationsKnown, NewestActive, Newest
  (* A row is saved for server s or a rotation, or a rotation writes two. *)
  <1>2. ASSUME NEW k \in Keys, status[k] = "none", created' = Append(created, k),
               NEW old \in Keys \cup {NoKey}, old \in Keys => status[old] # "none",
               old \in gone => old \in overtaken,
               status' = [status EXCEPT ![old] = IF old = NoKey THEN @ ELSE "retired", ![k] = "active"],
               issuer' \in [Servers -> {{}} \cup {{q} : q \in Keys \cup {NoKey}}],
               \A s \in Servers : issuer'[s] = issuer[s] \/ issuer'[s] = {k},
               rotation' \in [Rotations -> RotationRecord],
               \A r \in Rotations : rotation'[r].old = rotation[r].old
                                    /\ (rotation'[r].at = "write" => rotation[r].at = "write"),
               UNCHANGED <<signed, gone, overtaken>>
        PROVE  KeyInv'
    <2>1. /\ status' \in [Keys -> {"none", "active", "retired", "revoked"}]
          /\ status'[k] = "active" /\ k # old
          /\ \A q \in Keys : q # k /\ q # old => status'[q] = status[q]
          /\ old \in Keys => status'[old] = "retired"
      BY <1>a, <1>2
    <2>2. \A q \in Keys : q # k => (status'[q] = "none" <=> status[q] = "none")
      BY <1>2, <2>1
    <2>3. KeyTypeOK' /\ created' # <<>> /\ Newest' = k
      BY <1>2, <2>1, <2>2, KeyRowsFrame
    <2>4. k \notin gone /\ k \notin signed
      BY <1>2 DEF KeysHaveRows
    <2>5. \A q \in Keys : status[q] # "none" => status'[q] # "none"
      BY <2>1, <2>2
    <2>6. KeysHaveRows'
      <3>1. \A q \in signed \cup gone : status'[q] # "none"
        BY <1>a, <2>5 DEF KeysHaveRows
      <3>2. \A s \in Servers, q \in Keys : issuer'[s] = {q} => status'[q] # "none"
        <4> SUFFICES ASSUME NEW s \in Servers, NEW q \in Keys, issuer'[s] = {q} PROVE status'[q] # "none"
          OBVIOUS
        <4>1. CASE issuer'[s] = issuer[s]
          BY <4>1, <2>5 DEF KeysHaveRows
        <4>2. CASE issuer'[s] = {k}
          <5>1. q = k
            BY <4>2
          <5> QED
            BY <5>1, <2>1
        <4> QED
          BY <1>2, <4>1, <4>2
      <3>3. \A r \in Rotations : rotation'[r].old \in Keys => status'[rotation'[r].old] # "none"
        BY <1>2, <2>5 DEF KeysHaveRows
      <3> QED
        BY <1>2, <3>1, <3>2, <3>3 DEF KeysHaveRows
    <2>7. RevocationsKnown'
      <3>1. \A q \in Keys : status'[q] = "revoked" => q \in gone
        BY <2>1 DEF RevocationsKnown
      <3>2. \A q \in gone : status'[q] # "active" /\ (q \notin overtaken => status'[q] = "revoked")
        BY <1>2, <1>a, <2>1, <2>4 DEF RevocationsKnown
      <3>3. \A r \in Rotations : rotation'[r].at = "write" /\ rotation'[r].old \in gone =>
              rotation'[r].old \in overtaken
        BY <1>2 DEF RevocationsKnown
      <3> QED
        BY <1>2, <3>1, <3>2, <3>3 DEF RevocationsKnown
    <2>8. NewestActive'
      BY <2>1, <2>3 DEF NewestActive
    <2> QED
      BY <1>2, <1>b, <2>3, <2>6, <2>7, <2>8
  (* Nothing but the issuers changes. *)
  <1>3. ASSUME UNCHANGED <<status, created, rotation, signed, gone, overtaken>>,
               issuer' \in [Servers -> {{}} \cup {{k} : k \in Keys \cup {NoKey}}],
               \A s \in Servers, k \in Keys : issuer'[s] = {k} => issuer[s] = {k} \/ status[k] # "none"
        PROVE  KeyInv'
    <2>1. KeyTypeOK'
      BY <1>0, <1>3, <1>a, KeyFrame
    <2> QED
      BY <1>3, <1>b, <2>1 DEF KeysHaveRows, RevocationsKnown, NewestActive, Newest
  <1>4. ASSUME NEW s \in Servers, Bootstrap(s)
        PROVE  KeyInv'
    <2>1. CASE LoadActive # NoKey /\ issuer' = [issuer EXCEPT ![s] = {LoadActive}] /\ UNCHANGED <<status, created>>
      <3>1. LoadActive \in Keys /\ status[LoadActive] = "active"
        BY <1>0, <2>1, LoadActiveIs
      <3>2. PICK k \in Keys : k = LoadActive
        BY <3>1
      <3>3. issuer' = [issuer EXCEPT ![s] = {k}] /\ status[k] = "active"
        BY <2>1, <3>1, <3>2
      <3>4. issuer' \in [Servers -> {{}} \cup {{q} : q \in Keys \cup {NoKey}}]
        BY <1>a, <3>3
      <3>5. \A t \in Servers, q \in Keys : issuer'[t] = {q} => issuer[t] = {q} \/ status[q] # "none"
        BY <1>a, <3>3
      <3> QED
        BY <1>3, <1>4, <2>1, <3>4, <3>5 DEF Bootstrap
    <2>2. ASSUME NEW k \in Keys, Save(k), issuer' = [issuer EXCEPT ![s] = {k}]
          PROVE  KeyInv'
      <3>1. /\ status' = [status EXCEPT ![NoKey] = IF NoKey = NoKey THEN @ ELSE "retired", ![k] = "active"]
            /\ status[k] = "none" /\ created' = Append(created, k)
        BY <1>a, <2>2 DEF Save
      <3>2. issuer' \in [Servers -> {{}} \cup {{q} : q \in Keys \cup {NoKey}}]
        BY <1>a, <2>2
      <3>3. \A t \in Servers : issuer'[t] = issuer[t] \/ issuer'[t] = {k}
        BY <1>a, <2>2
      <3>4. UNCHANGED <<rotation, signed, gone, overtaken>>
        BY <1>4 DEF Bootstrap
      <3>5. NoKey \notin Keys /\ NoKey \notin gone
        BY <1>a
      <3> QED
        BY <1>0, <1>2, <3>1, <3>2, <3>3, <3>4, <3>5
    <2>3. CASE issuer' = [issuer EXCEPT ![s] = {NoKey}] /\ UNCHANGED <<status, created>>
      <3>1. issuer' \in [Servers -> {{}} \cup {{q} : q \in Keys \cup {NoKey}}]
        BY <1>a, <2>3
      <3>2. \A t \in Servers, q \in Keys : issuer'[t] = {q} => issuer[t] = {q} \/ status[q] # "none"
        BY <1>a, <2>3
      <3> QED
        BY <1>3, <1>4, <2>3, <3>1, <3>2 DEF Bootstrap
    <2> QED
      BY <1>4, <2>1, <2>2, <2>3 DEF Bootstrap
  <1>5. ASSUME NEW s \in Servers, StopServer(s)
        PROVE  KeyInv'
    <2>1. issuer' = [issuer EXCEPT ![s] = {}]
      BY <1>5 DEF StopServer
    <2>2. issuer' \in [Servers -> {{}} \cup {{q} : q \in Keys \cup {NoKey}}]
      BY <1>a, <2>1
    <2>3. \A t \in Servers, q \in Keys : issuer'[t] = {q} => issuer[t] = {q} \/ status[q] # "none"
      BY <1>a, <2>1
    <2> QED
      BY <1>3, <1>5, <2>2, <2>3 DEF StopServer
  <1>6. ASSUME NEW s \in Servers, NEW k \in Keys, Sign(s, k)
        PROVE  KeyInv'
    <2>1. /\ issuer[s] = {k} /\ signed' = signed \cup {k}
          /\ UNCHANGED <<status, created, issuer, rotation, gone, overtaken>>
      BY <1>6 DEF Sign
    <2>2. KeyTypeOK'
      BY <1>0, <1>a, <2>1, KeyFrame
    <2>3. status[k] # "none"
      BY <2>1 DEF KeysHaveRows
    <2>4. KeysHaveRows'
      BY <2>1, <2>3 DEF KeysHaveRows
    <2> QED
      BY <1>b, <2>1, <2>2, <2>4 DEF RevocationsKnown, NewestActive, Newest
  <1>7. ASSUME NEW r \in Rotations, RotateRead(r)
        PROVE  KeyInv'
    <2>1. PICK old \in Keys \cup {NoKey} : old = LoadActive
      BY <1>0, LoadActiveIs
    <2>2. old \in Keys => status[old] = "active"
      BY <1>0, <1>a, <2>1, LoadActiveIs
    <2>3. /\ rotation' = [rotation EXCEPT ![r] = [at |-> "write", old |-> old]]
          /\ UNCHANGED <<status, created, issuer, signed, gone, overtaken>>
      BY <1>7, <2>1 DEF RotateRead
    <2>4. rotation' \in [Rotations -> RotationRecord]
      BY <1>0, <2>3 DEF RotationRecord
    <2>5. KeyTypeOK'
      BY <1>0, <1>a, <2>3, KeyFrame
    <2>6. old \notin gone
      BY <1>a, <2>2 DEF RevocationsKnown
    <2>7. rotation'[r].at = "write" /\ rotation'[r].old = old
      BY <1>0, <2>3
    <2>8. \A x \in Rotations : x # r => rotation'[x] = rotation[x]
      BY <1>0, <2>3
    <2>9. KeysHaveRows'
      BY <2>2, <2>3, <2>7, <2>8 DEF KeysHaveRows
    <2>10. RevocationsKnown'
      BY <2>3, <2>6, <2>7, <2>8 DEF RevocationsKnown
    <2> QED
      BY <1>b, <2>3, <2>4, <2>5, <2>9, <2>10 DEF NewestActive, Newest
  <1>8. ASSUME NEW r \in Rotations, rotation[r].at = "write", rotation' = [rotation EXCEPT ![r].at = "done"]
        PROVE  /\ rotation' \in [Rotations -> RotationRecord]
               /\ \A x \in Rotations : rotation'[x].old = rotation[x].old
                                       /\ (rotation'[x].at = "write" => rotation[x].at = "write")
    <2> DEFINE d == [rotation[r] EXCEPT !.at = "done"]
    <2>1. rotation[r] \in RotationRecord
      BY <1>0
    <2>2. d \in RotationRecord /\ d.old = rotation[r].old /\ d.at = "done"
      BY <2>1 DEF RotationRecord
    <2>3. rotation' = [rotation EXCEPT ![r] = d]
      BY <1>0, <1>8
    <2> HIDE DEF d
    <2> QED
      BY <1>0, <2>2, <2>3
  <1>9. ASSUME NEW r \in Rotations, RotateWrite(r)
        PROVE  KeyInv'
    <2>1. rotation[r].at = "write" /\ rotation' = [rotation EXCEPT ![r].at = "done"]
          /\ UNCHANGED <<issuer, signed, gone, overtaken>>
      BY <1>9 DEF RotateWrite
    <2>2. PICK new \in Keys : IF rotation[r].old = NoKey THEN Save(new) ELSE Rotate(rotation[r].old, new)
      BY <1>9 DEF RotateWrite
    <2>3. PICK old \in Keys \cup {NoKey} : old = rotation[r].old
      BY <1>0 DEF RotationRecord
    <2>4. (old \in Keys => status[old] # "none") /\ (old \in gone => old \in overtaken)
      BY <2>1, <2>3 DEF KeysHaveRows, RevocationsKnown
    <2>5. /\ status[new] = "none" /\ created' = Append(created, new)
          /\ status' = [status EXCEPT ![old] = IF old = NoKey THEN @ ELSE "retired", ![new] = "active"]
      BY <1>a, <2>2, <2>3 DEF Save, Rotate
    <2>6. issuer' \in [Servers -> {{}} \cup {{q} : q \in Keys \cup {NoKey}}]
      BY <1>a, <2>1
    <2>7. \A s \in Servers : issuer'[s] = issuer[s] \/ issuer'[s] = {new}
      BY <2>1
    <2>8. /\ rotation' \in [Rotations -> RotationRecord]
          /\ \A x \in Rotations : rotation'[x].old = rotation[x].old
                                  /\ (rotation'[x].at = "write" => rotation[x].at = "write")
      BY <1>8, <2>1
    <2> QED
      BY <1>2, <2>1, <2>4, <2>5, <2>6, <2>7, <2>8
  <1>10. ASSUME NEW r \in Rotations, RotateFails(r)
         PROVE  KeyInv'
    <2>1. /\ rotation[r].at = "write" /\ rotation' = [rotation EXCEPT ![r].at = "done"]
          /\ UNCHANGED <<status, created, issuer, signed, gone, overtaken>>
      BY <1>10 DEF RotateFails
    <2>2. KeyTypeOK'
      BY <1>0, <1>a, <2>1, KeyFrame
    <2>3. /\ rotation' \in [Rotations -> RotationRecord]
          /\ \A x \in Rotations : rotation'[x].old = rotation[x].old
                                  /\ (rotation'[x].at = "write" => rotation[x].at = "write")
      BY <1>8, <2>1
    <2> QED
      BY <1>b, <2>1, <2>2, <2>3 DEF KeysHaveRows, RevocationsKnown, NewestActive, Newest
  <1>11. ASSUME NEW k \in Keys, RevokeKey(k)
         PROVE  KeyInv'
    <2>1. /\ status[k] # "none" /\ status' = [status EXCEPT ![k] = "revoked"]
          /\ gone' = gone \cup {k}
          /\ overtaken' = (IF \E r \in Rotations : rotation[r] = [at |-> "write", old |-> k]
                           THEN overtaken \cup {k} ELSE overtaken)
          /\ UNCHANGED <<created, issuer, rotation, signed>>
      BY <1>11 DEF RevokeKey, RevokeRow
    <2>2. /\ status' \in [Keys -> {"none", "active", "retired", "revoked"}]
          /\ status'[k] = "revoked" /\ \A q \in Keys : q # k => status'[q] = status[q]
      BY <1>a, <2>1
    <2>3. \A q \in Keys : status'[q] = "none" <=> status[q] = "none"
      BY <2>1, <2>2
    <2>4. overtaken \subseteq overtaken' /\ overtaken' \subseteq overtaken \cup {k}
      BY <2>1
    <2>5. KeyTypeOK'
      <3>1. \A q \in Keys : (status'[q] = "none") <=> q \notin {created'[i] : i \in DOMAIN created'}
        BY <1>0, <2>1, <2>3 DEF KeyTypeOK
      <3> QED
        BY <1>0, <1>a, <2>1, <2>2, <2>4, <3>1 DEF KeyTypeOK
    <2>6. KeysHaveRows'
      BY <1>a, <2>1, <2>3 DEF KeysHaveRows
    <2>7. \A r \in Rotations : rotation[r].at = "write" /\ rotation[r].old = k => k \in overtaken'
      <3> SUFFICES ASSUME NEW r \in Rotations, rotation[r].at = "write", rotation[r].old = k
                   PROVE  k \in overtaken'
        OBVIOUS
      <3>1. rotation[r] = [at |-> "write", old |-> k]
        BY <1>0 DEF RotationRecord
      <3> QED
        BY <2>1, <3>1
    <2>8. RevocationsKnown'
      BY <1>a, <2>1, <2>2, <2>4, <2>7 DEF RevocationsKnown
    <2>9. NewestActive'
      <3>1. created # <<>> => Newest \in Keys
        <4>1. created \in Seq(Keys)
          BY <1>0 DEF KeyTypeOK
        <4> QED
          BY <4>1 DEF Newest
      <3>2. Newest' = Newest
        BY <2>1 DEF Newest
      <3> QED
        BY <2>1, <2>2, <3>1, <3>2 DEF NewestActive
    <2> QED
      BY <1>0, <1>b, <2>1, <2>5, <2>6, <2>8, <2>9
  <1> QED
    BY <1>1, <1>4, <1>5, <1>6, <1>7, <1>9, <1>10, <1>11 DEF KeyNext

(* The inductive invariant of the keys contains what the run checks. *)
LEMMA KeyInvGives == KeyInv => KeysSound
  <1> SUFFICES ASSUME KeyInv PROVE KeysSound
    OBVIOUS
  <1>1. KeyTypeOK /\ KeysHaveRows /\ RevocationsKnown /\ NewestActive
    BY DEF KeyInv
  <1>2. /\ status \in [Keys -> {"none", "active", "retired", "revoked"}]
        /\ signed \subseteq Keys /\ gone \subseteq Keys /\ NoKey \notin Keys
    BY <1>1, KeyAssumption DEF KeyTypeOK
  <1>3. SignedKeysPublished
    BY <1>1, <1>2 DEF SignedKeysPublished, Published, KeysHaveRows, RevocationsKnown
  <1>4. RevokedStaysOut
    BY <1>1, <1>2 DEF RevokedStaysOut, Published, RevocationsKnown
  <1>5. RotationKeepsActive
    BY <1>1, <1>2, LoadActiveIs DEF RotationKeepsActive, NewestActive
  <1> QED
    BY <1>3, <1>4, <1>5 DEF KeysSound

-----------------------------------------------------------------------------
(* Credentials. *)

AccessRow ==
  [domains : SUBSET HostPatterns, blocked : SUBSET HostPatterns, starts : Nat, expires : Nat,
   revoked : BOOLEAN]
ReadRecord == [reading : {TRUE}, q : Requested, cookie : Nat, row : AccessRow]

CredentialShape ==
  /\ clock \in Nat /\ tempCookie \in Nat /\ access \in AccessRow
  /\ verifying \in {NoVerify} \cup ReadRecord
  /\ access = NoAccess \/ access.domains # {}
  /\ activating => access # NoAccess

(* The inductive invariant: a verify remembers whether the row it read was *)
(* revoked, a row that was not keeps its domains, and an answer is that of *)
(* VerifyAnswer at some time.                                              *)
ReadsKept ==
  verifying # NoVerify =>
    /\ revokedFirst = verifying.row.revoked
    /\ ~verifying.row.revoked => access # NoAccess /\ access.blocked = verifying.row.blocked
AnswerFromReads ==
  verified # "none" =>
    /\ verifying # NoVerify
    /\ \E t \in Nat : verified = VerifyAnswer(verifying.q, verifying.cookie, verifying.row, t)
CredentialInv == CredentialShape /\ ReadsKept /\ AnswerFromReads /\ CookieWithinWindow

(* There is no grant and no cookie initially. *)
LEMMA CredentialInitInv == CredentialInit => CredentialInv
  BY DEF CredentialInit, CredentialInv, CredentialShape, ReadsKept, AnswerFromReads, CookieWithinWindow,
         NoAccess, AccessRow

(* Every step of the temporary access and of verify keeps the invariant. *)
LEMMA CredentialStepInv == CredentialInv /\ [CredentialNext]_credentialVars => CredentialInv'
  <1> SUFFICES ASSUME CredentialInv, [CredentialNext]_credentialVars PROVE CredentialInv'
    OBVIOUS
  <1>0. CredentialShape /\ ReadsKept /\ AnswerFromReads /\ CookieWithinWindow
    BY DEF CredentialInv
  <1>a. ASSUME clock' \in Nat, tempCookie' \in Nat, access' \in AccessRow,
               verifying' \in {NoVerify} \cup ReadRecord,
               access' = NoAccess \/ access'.domains # {},
               activating' => access' # NoAccess
        PROVE  CredentialShape'
    BY <1>a DEF CredentialShape, AccessRow, ReadRecord, NoAccess, NoVerify
  <1>b. /\ clock \in Nat /\ tempCookie \in Nat /\ access \in AccessRow
        /\ verifying \in {NoVerify} \cup ReadRecord
        /\ access = NoAccess \/ access.domains # {}
        /\ activating => access # NoAccess
    BY <1>0 DEF CredentialShape
  <1>c. NoAccess.domains = {} /\ NoAccess.expires = 0 /\ NoAccess.revoked
    BY DEF NoAccess
  (* The verify in progress is left alone. *)
  <1>d. ASSUME UNCHANGED <<verifying, verified, revokedFirst>>,
               (access' # NoAccess /\ access'.blocked = access.blocked) \/ access = NoAccess
        PROVE  ReadsKept' /\ AnswerFromReads'
    <2>1. AnswerFromReads'
      BY <1>0, <1>d DEF AnswerFromReads, NoVerify
    <2>2. ReadsKept'
      BY <1>0, <1>d DEF ReadsKept, NoVerify, NoAccess
    <2> QED
      BY <2>1, <2>2
  <1>1. CASE UNCHANGED credentialVars
    BY <1>0, <1>1, <1>b, <1>a
    DEF credentialVars, CredentialInv, ReadsKept, AnswerFromReads, CookieWithinWindow, NoVerify, NoAccess
  <1>2. ASSUME NEW d \in SUBSET HostPatterns, NEW b \in SUBSET HostPatterns, NEW from \in 1 .. Horizon,
               NEW to \in 1 .. Horizon, CreateTemporaryAccess(d, b, from, to)
        PROVE  CredentialInv'
    <2> DEFINE row == [domains |-> d, blocked |-> b, starts |-> from, expires |-> to, revoked |-> FALSE]
    <2>a. Horizon \in Nat
      BY CredentialsAssumption
    <2>0. from \in Nat /\ to \in Nat
      BY <2>a
    <2>1. row \in AccessRow /\ row.domains = d
      BY <2>0 DEF AccessRow
    <2>2. access' = row /\ d # {} /\ access = NoAccess /\ UNCHANGED <<clock, activating, tempCookie, verifying, verified, revokedFirst>>
      BY <1>2 DEF CreateTemporaryAccess
    <2> HIDE DEF row
    <2>3. CredentialShape'
      BY <1>a, <1>b, <1>c, <2>1, <2>2
    <2>4. CookieWithinWindow'
      BY <1>0, <1>b, <1>c, <2>2 DEF CookieWithinWindow
    <2> QED
      BY <1>d, <2>2, <2>3, <2>4 DEF CredentialInv
  <1>3. CASE RevokeTemporaryAccess
    <2> DEFINE row == [access EXCEPT !.revoked = TRUE]
    <2>1. row \in AccessRow /\ row.domains = access.domains /\ row.blocked = access.blocked /\ row.expires = access.expires
      BY <1>b DEF AccessRow
    <2>2. access' = row /\ access # NoAccess /\ UNCHANGED <<clock, activating, tempCookie, verifying, verified, revokedFirst>>
      BY <1>3 DEF RevokeTemporaryAccess
    <2> HIDE DEF row
    <2>3. access'.domains # {} /\ access' # NoAccess
      BY <1>b, <1>c, <2>1, <2>2
    <2>4. CredentialShape'
      BY <1>a, <1>b, <2>1, <2>2, <2>3
    <2>5. CookieWithinWindow'
      BY <1>0, <2>1, <2>2 DEF CookieWithinWindow
    <2> QED
      BY <1>d, <2>1, <2>2, <2>3, <2>4, <2>5 DEF CredentialInv
  <1>4. ASSUME NEW h \in AskedHosts, ActivateTemporaryAccess(h)
        PROVE  CredentialInv'
    <2>1. /\ IsActiveFor(access, h, clock)
          /\ UNCHANGED <<clock, access, tempCookie, verifying, verified, revokedFirst>>
      BY <1>4 DEF ActivateTemporaryAccess
    <2>2. clock < access.expires /\ access.expires \in Nat
      BY <1>b, <2>1 DEF IsActiveFor, IsActiveUnrevoked, AccessRow
    <2>3. access # NoAccess
      BY <1>c, <2>2, <1>b
    <2>4. CredentialShape'
      BY <1>a, <1>b, <2>1, <2>3
    <2>5. CookieWithinWindow'
      BY <1>0, <2>1 DEF CookieWithinWindow
    <2> QED
      BY <1>d, <2>1, <2>3, <2>4, <2>5 DEF CredentialInv
  <1>9. CASE SetTemporaryCookie
    <2>1. /\ activating /\ ~activating' /\ tempCookie' = clock + CookieLife(access, clock)
          /\ UNCHANGED <<clock, access, verifying, verified, revokedFirst>>
      BY <1>9 DEF SetTemporaryCookie
    <2>0. Second \in Nat \ {0}
      BY CredentialsAssumption
    <2>2. /\ access # NoAccess /\ access.expires \in Nat /\ clock \in Nat
          /\ Second \in Nat /\ Second > 0
      BY <1>b, <2>0, <2>1 DEF AccessRow
    <2>3. CASE access.expires >= clock + Second
      <3>1. PICK n \in Nat : n = access.expires - clock
        BY <2>2, <2>3
      <3>2. n % Second \in 0 .. (Second - 1) /\ n >= Second
        BY <2>2, <2>3, <3>1
      <3>3. tempCookie' = clock + (n - (n % Second))
        BY <2>1, <2>3, <3>1 DEF CookieLife
      <3> QED
        BY <1>b, <2>1, <2>2, <3>1, <3>2, <3>3, <1>a, <1>d DEF CredentialInv, CookieWithinWindow
    <2>4. CASE ~(access.expires >= clock + Second)
      <3>1. tempCookie' = clock + Second
        BY <2>1, <2>4 DEF CookieLife
      <3> QED
        BY <1>b, <2>1, <2>2, <3>1, <1>a, <1>d DEF CredentialInv, CookieWithinWindow
    <2> QED
      BY <2>3, <2>4
  <1>5. CASE ClockAdvances
    <2>1. /\ clock' = clock + 1 /\ tempCookie' \in {tempCookie, 0}
          /\ UNCHANGED <<access, activating, verifying, verified, revokedFirst>>
      BY <1>5 DEF ClockAdvances
    <2>2. CredentialShape'
      BY <1>a, <1>b, <2>1
    <2>0. Second \in Nat \ {0}
      BY CredentialsAssumption
    <2>3. CookieWithinWindow'
      BY <1>0, <1>b, <2>0, <2>1 DEF CookieWithinWindow, AccessRow
    <2>4. (access' # NoAccess /\ access'.blocked = access.blocked) \/ access = NoAccess
      BY <2>1
    <2> QED
      BY <1>d, <2>1, <2>2, <2>3, <2>4 DEF CredentialInv
  <1>6. ASSUME NEW q \in Requested, VerifyReads(q)
        PROVE  CredentialInv'
    <2> DEFINE v == [reading |-> TRUE, q |-> q, cookie |-> tempCookie, row |-> access]
    <2>1. v \in ReadRecord /\ v.row = access
      BY <1>b DEF ReadRecord
    <2>2. /\ verifying' = v /\ verified' = "none" /\ revokedFirst' = access.revoked
          /\ UNCHANGED <<clock, access, activating, tempCookie>>
      BY <1>6 DEF VerifyReads
    <2> HIDE DEF v
    <2>3. CredentialShape'
      BY <1>a, <1>b, <2>1, <2>2
    <2>4. ReadsKept'
      BY <1>c, <2>1, <2>2 DEF ReadsKept, NoAccess
    <2>5. AnswerFromReads' /\ CookieWithinWindow'
      BY <1>0, <2>2 DEF AnswerFromReads, CookieWithinWindow
    <2> QED
      BY <2>3, <2>4, <2>5 DEF CredentialInv
  <1>7. CASE VerifyAnswers
    <2>1. /\ verifying # NoVerify
          /\ verified' = VerifyAnswer(verifying.q, verifying.cookie, verifying.row, clock)
          /\ UNCHANGED <<clock, access, activating, tempCookie, verifying, revokedFirst>>
      BY <1>7 DEF VerifyAnswers
    <2>2. CredentialShape'
      BY <1>a, <1>b, <2>1
    <2>3. ReadsKept'
      BY <1>0, <2>1 DEF ReadsKept, NoVerify, NoAccess
    <2>4. AnswerFromReads'
      <3>1. verifying' # NoVerify /\ verified' = VerifyAnswer(verifying'.q, verifying'.cookie, verifying'.row, clock)
        BY <2>1
      <3> QED
        BY <1>b, <2>1, <3>1 DEF AnswerFromReads, NoVerify
    <2>5. CookieWithinWindow'
      BY <1>0, <2>1 DEF CookieWithinWindow
    <2> QED
      BY <2>2, <2>3, <2>4, <2>5 DEF CredentialInv
  <1>8. CASE VerifyDone
    <2>1. verifying' = NoVerify /\ verified' = "none" /\ UNCHANGED <<clock, access, activating, tempCookie>>
      BY <1>8 DEF VerifyDone
    <2>2. CredentialShape'
      BY <1>a, <1>b, <2>1
    <2> QED
      BY <1>0, <2>1, <2>2 DEF CredentialInv, ReadsKept, AnswerFromReads, CookieWithinWindow, NoVerify
  <1> QED
    BY <1>1, <1>2, <1>3, <1>4, <1>5, <1>6, <1>7, <1>8, <1>9 DEF CredentialNext

(* The inductive invariant of the credentials contains what the run        *)
(* checks.                                                                 *)
LEMMA CredentialInvGives == CredentialInv => CredentialsSound
  <1> SUFFICES ASSUME CredentialInv PROVE CredentialsSound
    OBVIOUS
  <1>0. CredentialShape /\ ReadsKept /\ AnswerFromReads /\ CookieWithinWindow
    BY DEF CredentialInv
  <1>1. CASE verified = "none"
    BY <1>0, <1>1 DEF CredentialsSound, RevocationImmediate, ForeignTokenHarmless, ClaimsIgnored
  <1>2. CASE verified # "none"
    <2>1. PICK t \in Nat : verified = VerifyAnswer(verifying.q, verifying.cookie, verifying.row, t)
      BY <1>0, <1>2 DEF AnswerFromReads
    <2>2. verifying \in ReadRecord /\ verifying # NoVerify
      BY <1>0, <1>2 DEF AnswerFromReads, CredentialShape
    <2> DEFINE q == verifying.q
               row == verifying.row
    <2>3. /\ q.token \in Tokens /\ q.session \in {"none", "live", "dead"}
          /\ q \in [host : AskedHosts, token : Tokens, session : {"none", "live", "dead"},
                    peer : {"lan", "wan", "trusted proxy"}, claims : {"none", "lan"}]
      BY <2>2, CredentialsAssumption DEF ReadRecord
    <2>4. SessionAnswer(q) \in {"session", "login", "local"}
          /\ (SessionAnswer(q) = "local" => LocalBypass(q) = "local")
      BY <2>3 DEF SessionAnswer, LocalBypass
    <2>5. \/ verified = SessionAnswer(q)
          \/ verified = "temporary" /\ IsActiveFor(row, q.host, t)
          \/ verified \in {"denied", "bearer"}
      BY <2>1 DEF VerifyAnswer, BearerFallsThrough
    <2>6. RevocationImmediate
      <3> SUFFICES ASSUME verified = "temporary"
                   PROVE  ~revokedFirst /\ ~\E d \in access.blocked : DomainMatches(d, verifying.q.host)
        BY DEF RevocationImmediate
      <3>1. IsActiveFor(row, q.host, t)
        BY <2>4, <2>5
      <3>2. ~row.revoked /\ ~\E d \in row.blocked : DomainMatches(d, q.host)
        BY <3>1 DEF IsActiveFor, IsActiveUnrevoked
      <3>3. revokedFirst = row.revoked /\ access.blocked = row.blocked
        BY <1>0, <2>2, <3>2 DEF ReadsKept
      <3> QED
        BY <3>2, <3>3
    <2>7. ClaimsIgnored
      <3> SUFFICES ASSUME verified = "local", q.peer # "trusted proxy" PROVE q.peer = "lan"
        BY DEF ClaimsIgnored
      <3>1. LocalBypass(q) = "local"
        BY <2>4, <2>5
      <3> QED
        BY <3>1 DEF LocalBypass, ClientIp
    <2>8. ForeignTokenHarmless
      <3> SUFFICES ASSUME q.token = "foreign", verifying.cookie = 0
                   PROVE  verified = VerifyAnswer([q EXCEPT !.token = "none"], 0, row, clock)
        BY DEF ForeignTokenHarmless
      <3> DEFINE p == [q EXCEPT !.token = "none"]
      <3>1. p.token = "none" /\ p.session = q.session /\ p.peer = q.peer /\ p.claims = q.claims
        BY <2>3
      <3>2. verified = SessionAnswer(q)
        BY <2>1 DEF VerifyAnswer, BearerFallsThrough, PresentedToken
      <3> HIDE DEF p
      <3>3. VerifyAnswer(p, 0, row, clock) = SessionAnswer(p)
        BY <3>1 DEF VerifyAnswer, BearerFallsThrough, PresentedToken
      <3>4. SessionAnswer(p) = SessionAnswer(q)
        BY <3>1 DEF SessionAnswer, LocalBypass
      <3> QED
        BY <3>2, <3>3, <3>4 DEF p
    <2> QED
      BY <1>0, <2>6, <2>7, <2>8 DEF CredentialsSound
  <1> QED
    BY <1>1, <1>2

-----------------------------------------------------------------------------
(* Auth events and erasure. *)

Among(e, q) == \E n \in DOMAIN q : q[n] = e
Distinct(q) == \A m, n \in DOMAIN q : q[m] = q[n] => m = n

(* What a queue holds after an event was added to it, or taken from it. *)
LEMMA AppendAmong ==
  ASSUME NEW E, NEW q \in Seq(E), NEW e \in E
  PROVE  /\ Append(q, e) \in Seq(E)
         /\ \A x : Among(x, Append(q, e)) <=> Among(x, q) \/ x = e
         /\ Distinct(q) /\ ~Among(e, q) => Distinct(Append(q, e))
  <1>1. /\ Append(q, e) \in Seq(E) /\ DOMAIN q = 1 .. Len(q) /\ Len(q) \in Nat
        /\ DOMAIN Append(q, e) = 1 .. (Len(q) + 1)
        /\ Append(q, e)[Len(q) + 1] = e
        /\ \A n \in 1 .. Len(q) : Append(q, e)[n] = q[n]
    OBVIOUS
  <1>2. \A n \in 1 .. (Len(q) + 1) : n \in 1 .. Len(q) \/ n = Len(q) + 1
    BY <1>1
  <1>3. ASSUME NEW x PROVE Among(x, Append(q, e)) <=> Among(x, q) \/ x = e
    <2>1. ASSUME Among(x, Append(q, e)) PROVE Among(x, q) \/ x = e
      BY <1>1, <1>2, <2>1 DEF Among
    <2>2. ASSUME Among(x, q) \/ x = e PROVE Among(x, Append(q, e))
      BY <1>1, <2>2 DEF Among
    <2> QED
      BY <2>1, <2>2
  <1>4. ASSUME Distinct(q), ~Among(e, q) PROVE Distinct(Append(q, e))
    BY <1>1, <1>2, <1>4 DEF Distinct, Among
  <1> QED
    BY <1>1, <1>3, <1>4

(* The tail of a list without repetitions has lost exactly its head. *)
LEMMA TailAmong ==
  ASSUME NEW E, NEW q \in Seq(E), q # <<>>, Distinct(q)
  PROVE  /\ Tail(q) \in Seq(E) /\ Head(q) \in E
         /\ Distinct(Tail(q))
         /\ \A x : Among(x, Tail(q)) <=> Among(x, q) /\ x # Head(q)
         /\ Among(Head(q), q)
  <1>1. /\ Tail(q) \in Seq(E) /\ Head(q) = q[1] /\ Head(q) \in E
        /\ DOMAIN q = 1 .. Len(q) /\ Len(q) \in Nat \ {0}
        /\ DOMAIN Tail(q) = 1 .. (Len(q) - 1)
        /\ \A n \in 1 .. (Len(q) - 1) : Tail(q)[n] = q[n + 1]
    OBVIOUS
  <1>2. Distinct(Tail(q))
    <2> SUFFICES ASSUME NEW m \in 1 .. (Len(q) - 1), NEW n \in 1 .. (Len(q) - 1), q[m + 1] = q[n + 1]
                 PROVE  m = n
      BY <1>1 DEF Distinct
    <2>1. m + 1 \in DOMAIN q /\ n + 1 \in DOMAIN q
      BY <1>1
    <2>2. m + 1 = n + 1
      BY <2>1 DEF Distinct
    <2> QED
      BY <1>1, <2>2
  <1>3. Among(Head(q), q)
    <2>1. 1 \in DOMAIN q
      BY <1>1
    <2> QED
      BY <1>1, <2>1 DEF Among
  <1>4. ASSUME NEW x PROVE Among(x, Tail(q)) <=> Among(x, q) /\ x # Head(q)
    <2>1. ASSUME Among(x, Tail(q)) PROVE Among(x, q) /\ x # Head(q)
      <3>1. PICK n \in 1 .. (Len(q) - 1) : q[n + 1] = x
        BY <1>1, <2>1 DEF Among
      <3>2. n + 1 \in DOMAIN q /\ 1 \in DOMAIN q /\ n + 1 # 1
        BY <1>1
      <3> QED
        BY <1>1, <3>1, <3>2 DEF Among, Distinct
    <2>2. ASSUME Among(x, q), x # Head(q) PROVE Among(x, Tail(q))
      <3>1. PICK n \in DOMAIN q : q[n] = x
        BY <2>2 DEF Among
      <3>2. n - 1 \in 1 .. (Len(q) - 1) /\ (n - 1) + 1 = n
        BY <1>1, <2>2, <3>1
      <3> QED
        BY <1>1, <3>1, <3>2 DEF Among
    <2> QED
      BY <2>1, <2>2
  <1> QED
    BY <1>1, <1>2, <1>3, <1>4

(* The inductive invariant.  An event is in the channel of its origin or   *)
(* on its way from Redis, at most once, and only after its handler is      *)
(* done; an instance that has streamed it will not meet it again.          *)
OnTheWayOnce ==
  /\ \A i \in Instances : Distinct(pubQueue[i]) /\ Distinct(subQueue[i])
  /\ \A i \in Instances : \A e \in AuthEvs :
       /\ Among(e, pubQueue[i]) => evAt[e] = i /\ evStep[e] = "done"
       /\ Among(e, subQueue[i]) => ~Among(e, pubQueue[evAt[e]]) /\ evStep[e] = "done"
StreamedTells ==
  \A i \in Instances : \A e \in AuthEvs :
    /\ evAt[e] = i => streamed[i][e] = IF evStep[e] = "done" THEN 1 ELSE 0
    /\ evAt[e] # i => \/ streamed[i][e] = 0
                      \/ /\ streamed[i][e] = 1 /\ evStep[e] = "done"
                         /\ ~Among(e, subQueue[i]) /\ ~Among(e, pubQueue[evAt[e]])
TracesGone ==
  \A x \in Erasures :
    /\ \A e \in oldTraces[x] : evStep[e] \in {"publish", "done"}
    /\ erasing[x] \in {"outbox", "flows", "user", "ok"} => oldTraces[x] \cap auditActors = {}
    /\ erasing[x] = "ok" => userDeleted
EventInv == AuthEventTypeOK /\ OnTheWayOnce /\ StreamedTells /\ TracesGone

(* Nothing is raised, streamed or erased initially. *)
LEMMA EventInitInv == AuthEventInit => EventInv
  <1> SUFFICES ASSUME AuthEventInit PROVE EventInv
    OBVIOUS
  <1>1. <<>> \in Seq(AuthEvs) /\ DOMAIN <<>> = {}
    OBVIOUS
  <1>2. AuthEventTypeOK
    BY <1>1 DEF AuthEventInit, AuthEventTypeOK
  <1>3. \A i \in Instances : pubQueue[i] = <<>> /\ subQueue[i] = <<>>
    BY DEF AuthEventInit
  <1>4. \A e \in AuthEvs : ~Among(e, <<>>)
    BY <1>1 DEF Among
  <1>5. OnTheWayOnce
    BY <1>1, <1>3, <1>4 DEF OnTheWayOnce, Distinct
  <1> QED
    BY <1>2, <1>5 DEF AuthEventInit, EventInv, StreamedTells, TracesGone

(* Every step of the events keeps the shape of their tables. *)
LEMMA EventStepShape == AuthEventTypeOK /\ [AuthEventNext]_authEventVars => AuthEventTypeOK'
  <1> SUFFICES ASSUME AuthEventTypeOK, [AuthEventNext]_authEventVars PROVE AuthEventTypeOK'
    OBVIOUS
  <1> USE DEF AuthEventTypeOK
  <1>1. CASE UNCHANGED authEventVars
    BY <1>1 DEF authEventVars
  <1>2. ASSUME NEW e \in AuthEvs, RaiseEvent(e) PROVE AuthEventTypeOK'
    BY <1>2 DEF RaiseEvent, busVars, eraseVars
  <1>3. ASSUME NEW e \in AuthEvs, NEW ok \in BOOLEAN, WriteAudit(e, ok) PROVE AuthEventTypeOK'
    BY <1>3, EventsAssumption DEF WriteAudit, AuditInsert, busVars, eraseVars
  <1>5. ASSUME NEW i \in Instances, NEW e \in AuthEvs, PublishLocal(i, e)
        PROVE  streamed' \in [Instances -> [AuthEvs -> Nat]]
    <2> DEFINE g == [streamed[i] EXCEPT ![e] = streamed[i][e] + 1]
    <2>1. streamed[i][e] \in Nat
      OBVIOUS
    <2>2. g \in [AuthEvs -> Nat]
      BY <2>1
    <2>3. streamed' = [streamed EXCEPT ![i] = g]
      BY <1>5 DEF PublishLocal
    <2> HIDE DEF g
    <2> QED
      BY <2>2, <2>3
  <1>6. ASSUME NEW e \in AuthEvs, PublishEvent(e) PROVE AuthEventTypeOK'
    <2>1. evAt[e] \in Instances
      OBVIOUS
    <2>2. streamed' \in [Instances -> [AuthEvs -> Nat]]
      BY <1>5, <1>6, <2>1 DEF PublishEvent
    <2>3. Append(pubQueue[evAt[e]], e) \in Seq(AuthEvs)
      BY <2>1
    <2>4. pubQueue' \in [Instances -> Seq(AuthEvs)]
      BY <1>6, <2>1, <2>3 DEF PublishEvent
    <2> QED
      BY <1>6, <2>2, <2>4 DEF PublishEvent, eraseVars
  <1>7. ASSUME NEW i \in Instances, NEW ok \in BOOLEAN, RedisPublish(i, ok) PROVE AuthEventTypeOK'
    <2>1. Tail(pubQueue[i]) \in Seq(AuthEvs) /\ Head(pubQueue[i]) \in AuthEvs
      BY <1>7 DEF RedisPublish
    <2>2. \A j \in Instances : Append(subQueue[j], Head(pubQueue[i])) \in Seq(AuthEvs)
      BY <2>1
    <2>3. pubQueue' \in [Instances -> Seq(AuthEvs)] /\ subQueue' \in [Instances -> Seq(AuthEvs)]
      BY <1>7, <2>1, <2>2 DEF RedisPublish
    <2> QED
      BY <1>7, <2>3 DEF RedisPublish, trailVars, eraseVars
  <1>8. ASSUME NEW i \in Instances, RedisReceive(i) PROVE AuthEventTypeOK'
    <2>1. Tail(subQueue[i]) \in Seq(AuthEvs) /\ Head(subQueue[i]) \in AuthEvs
      BY <1>8 DEF RedisReceive
    <2>2. subQueue' \in [Instances -> Seq(AuthEvs)]
      BY <1>8, <2>1 DEF RedisReceive
    <2>3. UNCHANGED pubQueue /\ (UNCHANGED streamed \/ PublishLocal(i, Head(subQueue[i])))
      BY <1>8 DEF RedisReceive, Relay
    <2>4. streamed' \in [Instances -> [AuthEvs -> Nat]]
      BY <1>5, <2>1, <2>3
    <2> QED
      BY <1>8, <2>2, <2>3, <2>4 DEF RedisReceive, trailVars, eraseVars
  <1>9. ASSUME NEW x \in Erasures, HardDeleteUser(x) PROVE AuthEventTypeOK'
    <2>1. CASE EraseBegin(x)
      BY <2>1 DEF EraseBegin, trailVars, busVars
    <2>2. CASE AnonymizeAudit(x)
      BY <2>2 DEF AnonymizeAudit, EraseStatement, busVars
    <2>3. CASE DeleteOutboxByUser(x)
      BY <2>3 DEF DeleteOutboxByUser, EraseStatement, busVars
    <2>4. CASE SoftDeleteUser(x)
      BY <2>4 DEF SoftDeleteUser, EraseStatement, busVars
    <2>6. CASE DeleteFlowTransitions(x)
      BY <2>6 DEF DeleteFlowTransitions, EraseStatement, busVars
    <2>5. CASE EraseFails(x)
      BY <2>5 DEF EraseFails, EraseStatement, busVars
    <2> QED
      BY <1>9, <2>1, <2>2, <2>3, <2>4, <2>5, <2>6 DEF HardDeleteUser
  <1> QED
    BY <1>1, <1>2, <1>3, <1>6, <1>7, <1>8, <1>9 DEF AuthEventNext

(* Steps that leave the queues and the streams alone, and whose events do  *)
(* not become done.                                                        *)
LEMMA EventBusFrame ==
  ASSUME AuthEventTypeOK, OnTheWayOnce, StreamedTells, UNCHANGED <<busVars, evAt>>,
         \A e \in AuthEvs : evStep'[e] = "done" <=> evStep[e] = "done"
  PROVE  OnTheWayOnce' /\ StreamedTells'
  <1>1. UNCHANGED <<pubQueue, subQueue, streamed, evAt>>
    BY DEF busVars
  <1>2. OnTheWayOnce'
    BY <1>1 DEF OnTheWayOnce
  <1>3. StreamedTells'
    BY <1>1 DEF StreamedTells
  <1> QED
    BY <1>2, <1>3

(* A local publication counts one event in one stream. *)
LEMMA StreamCounts ==
  ASSUME AuthEventTypeOK, NEW i \in Instances, NEW e \in AuthEvs, PublishLocal(i, e)
  PROVE  /\ streamed'[i][e] = streamed[i][e] + 1
         /\ \A j \in Instances : \A d \in AuthEvs : ~(j = i /\ d = e) => streamed'[j][d] = streamed[j][d]
  <1> DEFINE g == [streamed[i] EXCEPT ![e] = streamed[i][e] + 1]
  <1>1. streamed[i] \in [AuthEvs -> Nat] /\ streamed \in [Instances -> [AuthEvs -> Nat]]
    BY DEF AuthEventTypeOK
  <1>2. g[e] = streamed[i][e] + 1 /\ \A d \in AuthEvs : d # e => g[d] = streamed[i][d]
    BY <1>1
  <1>3. streamed' = [streamed EXCEPT ![i] = g]
    BY <1>1 DEF PublishLocal
  <1> HIDE DEF g
  <1>4. streamed'[i] = g /\ \A j \in Instances : j # i => streamed'[j] = streamed[j]
    BY <1>1, <1>3
  <1> QED
    BY <1>2, <1>4

(* An event that an instance has streamed is not on the way to it any      *)
(* more.                                                                   *)
LEMMA EventStepStreams ==
  AuthEventTypeOK /\ OnTheWayOnce /\ StreamedTells /\ [AuthEventNext]_authEventVars
    => OnTheWayOnce' /\ StreamedTells'
  <1> SUFFICES ASSUME AuthEventTypeOK, OnTheWayOnce, StreamedTells, [AuthEventNext]_authEventVars
               PROVE  OnTheWayOnce' /\ StreamedTells'
    OBVIOUS
  <1>0. /\ evStep \in [AuthEvs -> {"new", "audit", "publish", "done"}]
        /\ evAt \in [AuthEvs -> Instances]
        /\ pubQueue \in [Instances -> Seq(AuthEvs)] /\ subQueue \in [Instances -> Seq(AuthEvs)]
        /\ streamed \in [Instances -> [AuthEvs -> Nat]]
    BY DEF AuthEventTypeOK
  <1>1. CASE UNCHANGED authEventVars
    BY <1>1, EventBusFrame DEF authEventVars, busVars
  <1>2. ASSUME NEW e \in AuthEvs, RaiseEvent(e) PROVE OnTheWayOnce' /\ StreamedTells'
    <2>1. UNCHANGED <<busVars, evAt>>
      BY <1>2 DEF RaiseEvent
    <2>2. \A d \in AuthEvs : evStep'[d] = "done" <=> evStep[d] = "done"
      BY <1>0, <1>2 DEF RaiseEvent
    <2> QED
      BY <2>1, <2>2, EventBusFrame
  <1>3. ASSUME NEW e \in AuthEvs, NEW ok \in BOOLEAN, WriteAudit(e, ok) PROVE OnTheWayOnce' /\ StreamedTells'
    <2>1. UNCHANGED <<busVars, evAt>>
      BY <1>3 DEF WriteAudit
    <2>2. \A d \in AuthEvs : evStep'[d] = "done" <=> evStep[d] = "done"
      BY <1>0, <1>3 DEF WriteAudit
    <2> QED
      BY <2>1, <2>2, EventBusFrame
  <1>5. ASSUME NEW x \in Erasures, HardDeleteUser(x) PROVE OnTheWayOnce' /\ StreamedTells'
    <2>1. UNCHANGED <<busVars, evStep, evAt>>
      BY <1>5 DEF HardDeleteUser, EraseBegin, AnonymizeAudit, DeleteOutboxByUser, DeleteFlowTransitions, SoftDeleteUser, EraseFails,
                  EraseStatement, trailVars
    <2> QED
      BY <2>1, EventBusFrame
  <1>6. ASSUME NEW e \in AuthEvs, PublishEvent(e) PROVE OnTheWayOnce' /\ StreamedTells'
    <2>1. PICK o \in Instances : o = evAt[e]
      BY <1>0
    <2>2. /\ evStep[e] = "publish" /\ evStep' = [evStep EXCEPT ![e] = "done"]
          /\ pubQueue' = [pubQueue EXCEPT ![o] = Append(pubQueue[o], e)]
          /\ PublishLocal(o, e) /\ UNCHANGED <<evAt, subQueue>>
      BY <1>0, <1>6, <2>1 DEF PublishEvent
    <2>3. \A j \in Instances : ~Among(e, pubQueue[j]) /\ ~Among(e, subQueue[j])
      BY <2>2 DEF OnTheWayOnce
    <2>4. /\ evStep'[e] = "done" /\ \A d \in AuthEvs : d # e => evStep'[d] = evStep[d]
          /\ \A j \in Instances : j # o => pubQueue'[j] = pubQueue[j]
          /\ pubQueue'[o] = Append(pubQueue[o], e)
      BY <1>0, <2>2
    <2>5. /\ \A d \in AuthEvs : Among(d, pubQueue'[o]) <=> Among(d, pubQueue[o]) \/ d = e
          /\ Distinct(pubQueue'[o])
      <3>1. pubQueue[o] \in Seq(AuthEvs) /\ Distinct(pubQueue[o])
        BY <1>0 DEF OnTheWayOnce
      <3> QED
        BY <2>3, <2>4, <3>1, AppendAmong
    <2>6. OnTheWayOnce'
      <3>1. \A i \in Instances : Distinct(pubQueue'[i]) /\ Distinct(subQueue'[i])
        BY <2>2, <2>4, <2>5 DEF OnTheWayOnce
      <3>2. ASSUME NEW i \in Instances, NEW d \in AuthEvs
            PROVE  /\ Among(d, pubQueue'[i]) => evAt[d] = i /\ evStep'[d] = "done"
                   /\ Among(d, subQueue[i]) => ~Among(d, pubQueue'[evAt[d]]) /\ evStep'[d] = "done"
        <4>1. evAt[d] \in Instances
          BY <1>0
        <4>2. CASE d = e
          BY <2>1, <2>3, <2>4, <2>5, <4>2
        <4>3. CASE d # e
          <5>1. Among(d, pubQueue'[i]) <=> Among(d, pubQueue[i])
            BY <2>4, <2>5, <4>3
          <5>2. Among(d, pubQueue'[evAt[d]]) <=> Among(d, pubQueue[evAt[d]])
            BY <2>4, <2>5, <4>1, <4>3
          <5> QED
            BY <2>4, <4>3, <5>1, <5>2 DEF OnTheWayOnce
        <4> QED
          BY <4>2, <4>3
      <3> QED
        BY <2>2, <3>1, <3>2 DEF OnTheWayOnce
    <2>7. /\ streamed'[o][e] = streamed[o][e] + 1
          /\ \A j \in Instances : \A d \in AuthEvs : ~(j = o /\ d = e) => streamed'[j][d] = streamed[j][d]
      BY <2>2, StreamCounts
    <2>8. streamed[o][e] = 0
      BY <2>1, <2>2 DEF StreamedTells
    <2>9. ASSUME NEW i \in Instances, NEW d \in AuthEvs
          PROVE  /\ evAt[d] = i => streamed'[i][d] = IF evStep'[d] = "done" THEN 1 ELSE 0
                 /\ evAt[d] # i => \/ streamed'[i][d] = 0
                                   \/ /\ streamed'[i][d] = 1 /\ evStep'[d] = "done"
                                      /\ ~Among(d, subQueue[i]) /\ ~Among(d, pubQueue'[evAt[d]])
      <3>1. CASE d = e
        <4>1. CASE i = o
          BY <2>1, <2>4, <2>7, <2>8, <3>1, <4>1
        <4>2. CASE i # o
          BY <2>1, <2>2, <2>7, <3>1, <4>2 DEF StreamedTells
        <4> QED
          BY <4>1, <4>2
      <3>2. CASE d # e
        <4>1. evAt[d] \in Instances
          BY <1>0
        <4>2. Among(d, pubQueue'[evAt[d]]) <=> Among(d, pubQueue[evAt[d]])
          BY <2>4, <2>5, <3>2, <4>1
        <4>3. streamed'[i][d] = streamed[i][d] /\ evStep'[d] = evStep[d]
          BY <2>4, <2>7, <3>2
        <4> QED
          BY <4>2, <4>3 DEF StreamedTells
      <3> QED
        BY <3>1, <3>2
    <2>10. StreamedTells'
      BY <2>2, <2>9 DEF StreamedTells
    <2> QED
      BY <2>6, <2>10
  <1>7. ASSUME NEW i \in Instances, NEW ok \in BOOLEAN, RedisPublish(i, ok) PROVE OnTheWayOnce' /\ StreamedTells'
    <2>1. pubQueue[i] # <<>> /\ pubQueue[i] \in Seq(AuthEvs) /\ Distinct(pubQueue[i])
      BY <1>0, <1>7 DEF RedisPublish, OnTheWayOnce
    <2>2. PICK e \in AuthEvs : e = Head(pubQueue[i])
      BY <2>1, TailAmong
    <2>3. /\ pubQueue' = [pubQueue EXCEPT ![i] = Tail(pubQueue[i])]
          /\ subQueue' = (IF ok THEN [j \in Instances |-> Append(subQueue[j], e)] ELSE subQueue)
          /\ UNCHANGED <<evStep, evAt, streamed>>
      BY <1>0, <1>7, <2>2 DEF RedisPublish, trailVars
    <2>4. /\ Among(e, pubQueue[i]) /\ Distinct(pubQueue'[i])
          /\ \A d \in AuthEvs : Among(d, pubQueue'[i]) <=> Among(d, pubQueue[i]) /\ d # e
          /\ \A j \in Instances : j # i => pubQueue'[j] = pubQueue[j]
      <3>1. pubQueue'[i] = Tail(pubQueue[i]) /\ \A j \in Instances : j # i => pubQueue'[j] = pubQueue[j]
        BY <1>0, <2>3
      <3> QED
        BY <2>1, <2>2, <3>1, TailAmong
    <2>5. evAt[e] = i /\ evStep[e] = "done"
      BY <2>4 DEF OnTheWayOnce
    <2>6. \A j \in Instances : ~Among(e, subQueue[j])
      BY <2>4, <2>5 DEF OnTheWayOnce
    <2>7. ASSUME NEW j \in Instances
          PROVE  Distinct(subQueue'[j])
                 /\ \A d \in AuthEvs : Among(d, subQueue'[j]) => Among(d, subQueue[j]) \/ d = e
      <3>1. subQueue[j] \in Seq(AuthEvs) /\ Distinct(subQueue[j])
        BY <1>0 DEF OnTheWayOnce
      <3>2. CASE ok
        <4>1. subQueue'[j] = Append(subQueue[j], e)
          BY <2>3, <3>2
        <4> QED
          BY <2>6, <3>1, <4>1, AppendAmong
      <3>3. CASE ~ok
        BY <2>3, <3>1, <3>3
      <3> QED
        BY <3>2, <3>3
    <2>8. \A d \in AuthEvs : Among(d, pubQueue'[evAt[d]]) => Among(d, pubQueue[evAt[d]]) /\ d # e
      <3> SUFFICES ASSUME NEW d \in AuthEvs, Among(d, pubQueue'[evAt[d]])
                   PROVE  Among(d, pubQueue[evAt[d]]) /\ d # e
        OBVIOUS
      <3>1. evAt[d] \in Instances
        BY <1>0
      <3> QED
        BY <2>4, <2>5, <3>1
    <2>9. OnTheWayOnce'
      <3>1. \A j \in Instances : Distinct(pubQueue'[j]) /\ Distinct(subQueue'[j])
        BY <2>4, <2>7 DEF OnTheWayOnce
      <3>2. ASSUME NEW j \in Instances, NEW d \in AuthEvs
            PROVE  /\ Among(d, pubQueue'[j]) => evAt[d] = j /\ evStep[d] = "done"
                   /\ Among(d, subQueue'[j]) => ~Among(d, pubQueue'[evAt[d]]) /\ evStep[d] = "done"
        <4>1. Among(d, pubQueue'[j]) => Among(d, pubQueue[j])
          BY <2>4
        <4>2. CASE d = e
          BY <2>5, <2>8, <4>1, <4>2 DEF OnTheWayOnce
        <4>3. CASE d # e
          BY <2>7, <2>8, <4>1, <4>3 DEF OnTheWayOnce
        <4> QED
          BY <4>2, <4>3
      <3> QED
        BY <2>3, <3>1, <3>2 DEF OnTheWayOnce
    <2>10. StreamedTells'
      <3> SUFFICES ASSUME NEW j \in Instances, NEW d \in AuthEvs
          PROVE  /\ evAt[d] = j => streamed[j][d] = IF evStep[d] = "done" THEN 1 ELSE 0
                 /\ evAt[d] # j => \/ streamed[j][d] = 0
                                   \/ /\ streamed[j][d] = 1 /\ evStep[d] = "done"
                                      /\ ~Among(d, subQueue'[j]) /\ ~Among(d, pubQueue'[evAt[d]])
        BY <2>3 DEF StreamedTells
      <3>1. CASE d = e
        <4>1. evAt[d] # j => streamed[j][d] = 0
          BY <2>4, <2>5, <3>1 DEF StreamedTells
        <4> QED
          BY <4>1 DEF StreamedTells
      <3>2. CASE d # e
        BY <2>7, <2>8, <3>2 DEF StreamedTells
      <3> QED
        BY <3>1, <3>2
    <2> QED
      BY <2>9, <2>10
  <1>8. ASSUME NEW i \in Instances, RedisReceive(i) PROVE OnTheWayOnce' /\ StreamedTells'
    <2>1. subQueue[i] # <<>> /\ subQueue[i] \in Seq(AuthEvs) /\ Distinct(subQueue[i])
      BY <1>0, <1>8 DEF RedisReceive, OnTheWayOnce
    <2>2. PICK e \in AuthEvs : e = Head(subQueue[i])
      BY <2>1, TailAmong
    <2>3. /\ subQueue' = [subQueue EXCEPT ![i] = Tail(subQueue[i])]
          /\ IF evAt[e] = i THEN UNCHANGED streamed ELSE PublishLocal(i, e)
          /\ UNCHANGED <<evStep, evAt, pubQueue>>
      BY <1>0, <1>8, <2>2 DEF RedisReceive, Relay, trailVars
    <2>4. /\ Among(e, subQueue[i]) /\ Distinct(subQueue'[i])
          /\ \A d \in AuthEvs : Among(d, subQueue'[i]) <=> Among(d, subQueue[i]) /\ d # e
          /\ \A j \in Instances : j # i => subQueue'[j] = subQueue[j]
      <3>1. subQueue'[i] = Tail(subQueue[i]) /\ \A j \in Instances : j # i => subQueue'[j] = subQueue[j]
        BY <1>0, <2>3
      <3> QED
        BY <2>1, <2>2, <3>1, TailAmong
    <2>5. evStep[e] = "done" /\ ~Among(e, pubQueue[evAt[e]])
      BY <2>4 DEF OnTheWayOnce
    <2>6. OnTheWayOnce'
      <3>1. \A j \in Instances : Distinct(pubQueue'[j]) /\ Distinct(subQueue'[j])
        BY <2>3, <2>4 DEF OnTheWayOnce
      <3>2. \A j \in Instances : \A d \in AuthEvs : Among(d, subQueue'[j]) => Among(d, subQueue[j])
        BY <2>4
      <3> QED
        BY <2>3, <3>1, <3>2 DEF OnTheWayOnce
    <2>7. \A j \in Instances : \A d \in AuthEvs : Among(d, subQueue'[j]) => Among(d, subQueue[j])
      BY <2>4
    <2>8. CASE evAt[e] = i
      BY <2>3, <2>6, <2>7, <2>8 DEF StreamedTells
    <2>9. CASE evAt[e] # i
      <3>1. /\ streamed'[i][e] = streamed[i][e] + 1
            /\ \A j \in Instances : \A d \in AuthEvs : ~(j = i /\ d = e) => streamed'[j][d] = streamed[j][d]
        BY <2>3, <2>9, StreamCounts
      <3>2. streamed[i][e] = 0
        BY <2>4, <2>9 DEF StreamedTells
      <3> SUFFICES ASSUME NEW j \in Instances, NEW d \in AuthEvs
          PROVE  /\ evAt[d] = j => streamed'[j][d] = IF evStep[d] = "done" THEN 1 ELSE 0
                 /\ evAt[d] # j => \/ streamed'[j][d] = 0
                                   \/ /\ streamed'[j][d] = 1 /\ evStep[d] = "done"
                                      /\ ~Among(d, subQueue'[j]) /\ ~Among(d, pubQueue[evAt[d]])
        BY <2>3, <2>6 DEF StreamedTells
      <3>3. CASE j = i /\ d = e
        BY <2>4, <2>5, <2>9, <3>1, <3>2, <3>3
      <3>4. CASE ~(j = i /\ d = e)
        BY <2>7, <3>1, <3>4 DEF StreamedTells
      <3> QED
        BY <3>3, <3>4
    <2> QED
      BY <2>6, <2>8, <2>9
  <1> QED
    BY <1>1, <1>2, <1>3, <1>5, <1>6, <1>7, <1>8 DEF AuthEventNext

(* A completed erasure has left no trace that is older than it. *)
LEMMA EventStepTraces ==
  AuthEventTypeOK /\ TracesGone /\ [AuthEventNext]_authEventVars => TracesGone'
  <1> SUFFICES ASSUME AuthEventTypeOK, TracesGone, [AuthEventNext]_authEventVars PROVE TracesGone'
    OBVIOUS
  <1>0. /\ evStep \in [AuthEvs -> {"new", "audit", "publish", "done"}]
        /\ auditActors \subseteq AuthEvs
        /\ erasing \in [Erasures -> {"idle", "audit", "outbox", "flows", "user", "ok", "failed"}]
        /\ oldTraces \in [Erasures -> SUBSET AuthEvs]
    BY DEF AuthEventTypeOK
  (* Events go on, and write only what no erasure has looked at. *)
  <1>1. ASSUME UNCHANGED eraseVars,
               \A e \in AuthEvs : evStep[e] \in {"publish", "done"} => evStep'[e] \in {"publish", "done"},
               \A e \in auditActors' :
                 e \in AuthEvs /\ (evStep[e] \in {"publish", "done"} => e \in auditActors)
        PROVE  TracesGone'
    <2>1. UNCHANGED <<erasing, oldTraces, userDeleted>>
      BY <1>1 DEF eraseVars
    <2> SUFFICES ASSUME NEW x \in Erasures
        PROVE  /\ \A e \in oldTraces[x] : evStep'[e] \in {"publish", "done"}
               /\ erasing[x] \in {"outbox", "flows", "user", "ok"} => oldTraces[x] \cap auditActors' = {}
               /\ erasing[x] = "ok" => userDeleted
      BY <2>1 DEF TracesGone
    <2>2. oldTraces[x] \subseteq AuthEvs /\ \A e \in oldTraces[x] : evStep[e] \in {"publish", "done"}
      BY <1>0 DEF TracesGone
    <2>3. oldTraces[x] \cap auditActors' \subseteq auditActors
      BY <1>1, <2>2
    <2> QED
      BY <1>1, <2>2, <2>3 DEF TracesGone
  <1>2. CASE UNCHANGED authEventVars
    BY <1>2 DEF authEventVars, TracesGone
  <1>3. ASSUME NEW e \in AuthEvs, RaiseEvent(e) \/ PublishEvent(e) PROVE TracesGone'
    <2>1. UNCHANGED <<eraseVars, auditActors>>
      BY <1>3 DEF RaiseEvent, PublishEvent
    <2>2. \A d \in AuthEvs : evStep[d] \in {"publish", "done"} => evStep'[d] \in {"publish", "done"}
      BY <1>0, <1>3 DEF RaiseEvent, PublishEvent
    <2> QED
      BY <1>0, <1>1, <2>1, <2>2
  <1>4. ASSUME NEW e \in AuthEvs, NEW ok \in BOOLEAN, WriteAudit(e, ok) PROVE TracesGone'
    <2>1. UNCHANGED eraseVars /\ evStep[e] = "audit" /\ auditActors' \subseteq auditActors \cup {e}
      BY <1>4 DEF WriteAudit, AuditInsert
    <2>2. \A d \in AuthEvs : evStep[d] \in {"publish", "done"} => evStep'[d] \in {"publish", "done"}
      BY <1>0, <1>4 DEF WriteAudit
    <2>3. \A d \in auditActors' :
            d \in AuthEvs /\ (evStep[d] \in {"publish", "done"} => d \in auditActors)
      BY <1>0, <2>1
    <2> QED
      BY <1>1, <2>1, <2>2, <2>3
  <1>6. ASSUME NEW i \in Instances, RedisReceive(i) \/ \E ok \in BOOLEAN : RedisPublish(i, ok) PROVE TracesGone'
    <2>1. UNCHANGED <<erasing, oldTraces, userDeleted, evStep, auditActors>>
      BY <1>6 DEF RedisReceive, RedisPublish, trailVars, eraseVars
    <2> QED
      BY <2>1 DEF TracesGone
  <1>7. ASSUME NEW x \in Erasures, EraseBegin(x) PROVE TracesGone'
    <2>1. /\ erasing' = [erasing EXCEPT ![x] = "audit"]
          /\ oldTraces' = [oldTraces EXCEPT ![x] = {e \in AuthEvs : evStep[e] \in {"publish", "done"}}]
          /\ UNCHANGED <<evStep, auditActors, userDeleted>>
      BY <1>7 DEF EraseBegin, trailVars
    <2>2. erasing'[x] = "audit" /\ \A e \in oldTraces'[x] : evStep[e] \in {"publish", "done"}
      BY <1>0, <2>1
    <2>3. \A y \in Erasures : y # x => erasing'[y] = erasing[y] /\ oldTraces'[y] = oldTraces[y]
      BY <1>0, <2>1
    <2> QED
      BY <2>1, <2>2, <2>3 DEF TracesGone
  <1>8. ASSUME NEW x \in Erasures, NEW stmt, NEW next, EraseStatement(x, stmt, next),
               auditActors' \subseteq auditActors, userDeleted => userDeleted',
               \/ next = "failed"
               \/ stmt = "audit" /\ next = "outbox" /\ auditActors' = {}
               \/ stmt = "outbox" /\ next = "flows"
               \/ stmt = "flows" /\ next = "user"
               \/ stmt = "user" /\ next = "ok" /\ userDeleted'
        PROVE  TracesGone'
    <2>1. erasing[x] = stmt /\ erasing' = [erasing EXCEPT ![x] = next] /\ UNCHANGED <<evStep, oldTraces>>
      BY <1>8 DEF EraseStatement
    <2>2. erasing'[x] = next /\ \A y \in Erasures : y # x => erasing'[y] = erasing[y]
      BY <1>0, <2>1
    <2> SUFFICES ASSUME NEW y \in Erasures
        PROVE  /\ \A e \in oldTraces[y] : evStep[e] \in {"publish", "done"}
               /\ erasing'[y] \in {"outbox", "flows", "user", "ok"} => oldTraces[y] \cap auditActors' = {}
               /\ erasing'[y] = "ok" => userDeleted'
      BY <2>1 DEF TracesGone
    <2>3. CASE y = x
      BY <1>8, <2>1, <2>2, <2>3 DEF TracesGone
    <2>4. CASE y # x
      BY <1>8, <2>2, <2>4 DEF TracesGone
    <2> QED
      BY <2>3, <2>4
  <1>9. ASSUME NEW x \in Erasures, HardDeleteUser(x) PROVE TracesGone'
    <2>1. CASE AnonymizeAudit(x)
      BY <1>8, <2>1 DEF AnonymizeAudit
    <2>2. CASE DeleteOutboxByUser(x)
      BY <1>8, <2>2 DEF DeleteOutboxByUser
    <2>3. CASE SoftDeleteUser(x)
      <3>1. userDeleted' = TRUE /\ EraseStatement(x, "user", "ok") /\ auditActors' \subseteq auditActors
        BY <2>3 DEF SoftDeleteUser
      <3>2. userDeleted'
        BY <3>1
      <3> QED
        BY <1>8, <3>1, <3>2
    <2>5. CASE DeleteFlowTransitions(x)
      BY <1>8, <2>5 DEF DeleteFlowTransitions
    <2>4. CASE EraseFails(x)
      <3>1. PICK stmt \in {"audit", "outbox", "flows", "user"} : EraseStatement(x, stmt, "failed")
        BY <2>4 DEF EraseFails
      <3> QED
        BY <1>8, <2>4, <3>1 DEF EraseFails
    <2> QED
      BY <1>7, <1>9, <2>1, <2>2, <2>3, <2>4, <2>5 DEF HardDeleteUser
  <1> QED
    BY <1>2, <1>3, <1>4, <1>6, <1>9 DEF AuthEventNext

(* Every step of the events keeps their invariant. *)
LEMMA EventStepInv == EventInv /\ [AuthEventNext]_authEventVars => EventInv'
  BY EventStepShape, EventStepStreams, EventStepTraces DEF EventInv

(* The inductive invariant of the events contains what the run checks. *)
LEMMA EventInvGives == EventInv => EventsSound
  <1> SUFFICES ASSUME EventInv PROVE EventsSound
    OBVIOUS
  <1>1. StreamedOnce
    <2> SUFFICES ASSUME NEW i \in Instances, NEW e \in AuthEvs
        PROVE  streamed[i][e] <= 1 /\ (evAt[e] = i /\ evStep[e] = "done" => streamed[i][e] = 1)
      BY DEF StreamedOnce
    <2>1. streamed[i][e] \in {0, 1}
      BY DEF EventInv, StreamedTells
    <2>2. evAt[e] = i /\ evStep[e] = "done" => streamed[i][e] = 1
      BY DEF EventInv, StreamedTells
    <2> QED
      BY <2>1, <2>2
  <1>2. ErasureReachesOldTraces
    BY DEF EventInv, TracesGone, ErasureReachesOldTraces
  <1> QED
    BY <1>1, <1>2 DEF EventsSound

-----------------------------------------------------------------------------
(* The limiters of the endpoints. *)

BucketRecord == [start : Nat, count : Nat]

LimitShape ==
  /\ limiter \in Nat /\ limitTime \in Nat /\ refused \subseteq Addresses
  /\ passed \subseteq Addresses \X Nat \X Nat /\ IsFiniteSet(passed)
  /\ buckets \in [Addresses -> SUBSET BucketRecord]
  /\ \A a \in Addresses : \A b, c \in buckets[a] : b = c

SinceStart(a, b) == {p \in Recent(a) : p[2] >= b.start}
BeforeStart(a, b) == {p \in Recent(a) : p[2] < b.start}

(* The inductive invariant: a bucket counts the requests let through since *)
(* it was started, as long as it is in its window, those of the window     *)
(* before it are within the limit, and a client without a bucket has had   *)
(* nothing let through lately.                                             *)
PassedLately ==
  \A p \in passed : /\ p[2] <= limitTime /\ limitTime < p[2] + LimitWindow
                    /\ p[2] = limitTime => p[3] <= Cardinality(Recent(p[1]))
BucketsCount ==
  \A a \in Addresses : \A b \in buckets[a] :
    /\ b.start <= limitTime /\ b.count <= limiter
    /\ Cardinality(SinceStart(a, b)) <= b.count
    /\ InWindow(b) => Cardinality(SinceStart(a, b)) = b.count
    /\ Cardinality(BeforeStart(a, b)) <= limiter
    /\ \A p \in Recent(a) : p[2] < b.start + LimitWindow
NoBucketNoRequest == \A a \in Addresses : buckets[a] = {} => Recent(a) = {}
LimitInv == LimitShape /\ PassedLately /\ BucketsCount /\ NoBucketNoRequest /\ RefusedOnlyWhenSpent

(* A limit from the environment is a natural number. *)
LEMMA FromEnvType == \A named \in EnvLimits : \A sixths \in EnvMultipliers : FromEnv(named, sixths) \in Nat
  <1> SUFFICES ASSUME NEW named \in EnvLimits, NEW sixths \in EnvMultipliers PROVE FromEnv(named, sixths) \in Nat
    OBVIOUS
  <1>1. CASE named # {}
    <2>1. named = {0} \/ named = {1}
      BY <1>1 DEF EnvLimits
    <2>2. (CHOOSE n \in named : TRUE) \in named
      BY <1>1
    <2> QED
      BY <1>1, <2>1, <2>2 DEF FromEnv
  <1>2. CASE named = {} /\ sixths \in {{}, {0}}
    BY <1>2, EndpointLimitsAssumption DEF FromEnv
  <1>3. CASE named = {} /\ sixths \notin {{}, {0}}
    <2>1. PICK m \in {1, 9} : sixths = {m}
      BY <1>3 DEF EnvMultipliers
    <2>2. (CHOOSE q \in sixths : TRUE) = m
      BY <2>1
    <2>3. Scaled(m) \in Nat
      <3>1. 2 * DefaultLimit * m + 6 \in Nat
        BY <2>1, EndpointLimitsAssumption
      <3> QED
        BY <3>1 DEF Scaled
    <2> QED
      BY <1>3, <2>2, <2>3 DEF FromEnv
  <1> QED
    BY <1>1, <1>2, <1>3

(* The endpoint limits start without buckets. *)
LEMMA LimitInitInv == LimitsInit => LimitInv
  <1> SUFFICES ASSUME LimitsInit PROVE LimitInv
    OBVIOUS
  <1>1. limiter \in Nat
    BY FromEnvType DEF LimitsInit
  <1>2. passed = {} /\ refused = {} /\ limitTime = 0 /\ buckets = [a \in Addresses |-> {}]
    BY DEF LimitsInit
  <1>3. IsFiniteSet(passed)
    BY <1>2, FS_EmptySet
  <1>4. LimitShape
    BY <1>1, <1>2, <1>3 DEF LimitShape
  <1> QED
    BY <1>2, <1>4 DEF LimitInv, PassedLately, BucketsCount, NoBucketNoRequest, RefusedOnlyWhenSpent, Recent

(* The requests of the current length of a window are finitely many. *)
LEMMA RecentFinite ==
  ASSUME LimitShape, NEW a
  PROVE  /\ IsFiniteSet(Recent(a)) /\ Cardinality(Recent(a)) \in Nat
         /\ \A S \in SUBSET Recent(a) : IsFiniteSet(S) /\ Cardinality(S) \in Nat
                                        /\ Cardinality(S) <= Cardinality(Recent(a))
  <1>1. Recent(a) \subseteq passed /\ IsFiniteSet(passed)
    BY DEF Recent, LimitShape
  <1>2. IsFiniteSet(Recent(a))
    BY <1>1, FS_Subset
  <1> QED
    BY <1>2, FS_Subset, FS_CardinalityType

(* What Check writes for a request that is let through. *)
LEMMA CheckPasses ==
  ASSUME LimitInv, NEW a \in Addresses, limiter # 0,
         NEW nb \in BucketRecord,
         buckets' = [buckets EXCEPT ![a] = {nb}],
         passed' = passed \cup {<<a, limitTime, Cardinality(Recent(a)) + 1>>},
         refused' = {}, UNCHANGED <<limiter, limitTime>>,
         nb.start <= limitTime, limitTime < nb.start + LimitWindow, nb.count <= limiter,
         {p \in Recent(a) : p[2] >= nb.start} \in SUBSET Recent(a),
         Cardinality({p \in Recent(a) : p[2] >= nb.start}) + 1 = nb.count,
         Cardinality({p \in Recent(a) : p[2] < nb.start}) <= limiter
  PROVE  LimitInv'
  <1> DEFINE C == Cardinality(Recent(a))
             new == <<a, limitTime, C + 1>>
  <1>0. LimitShape /\ PassedLately /\ BucketsCount /\ NoBucketNoRequest
    BY DEF LimitInv
  <1>1. C \in Nat /\ IsFiniteSet(Recent(a)) /\ limitTime \in Nat /\ LimitWindow \in Nat \ {0}
    BY <1>0, RecentFinite, EndpointLimitsAssumption DEF LimitShape
  <1>2. new \in Addresses \X Nat \X Nat /\ new[1] = a /\ new[2] = limitTime /\ new[3] = C + 1
    BY <1>1
  <1>3. new \notin passed
    <2> SUFFICES ASSUME new \in passed PROVE FALSE
      OBVIOUS
    <2>1. new[3] <= Cardinality(Recent(new[1]))
      BY <1>0, <1>2 DEF PassedLately
    <2> HIDE DEF C
    <2> QED
      BY <1>1, <1>2, <2>1 DEF C
  <1>4. passed' = passed \cup {new}
    OBVIOUS
  <1> HIDE DEF new, C
  <1>5. Recent(a)' = Recent(a) \cup {new} /\ \A x \in Addresses : x # a => Recent(x)' = Recent(x)
    BY <1>2, <1>4 DEF Recent
  <1>6. new \notin Recent(a)
    BY <1>3 DEF Recent
  <1>7. Cardinality(Recent(a)') = C + 1
    <2>1. Cardinality(Recent(a) \cup {new}) = Cardinality(Recent(a)) + 1
      BY <1>1, <1>6, FS_AddElement
    <2> QED
      BY <1>5, <2>1 DEF C
  <1>8. LimitShape'
    <2>1. IsFiniteSet(passed')
      BY <1>0, <1>4, FS_AddElement DEF LimitShape
    <2>2. passed' \subseteq Addresses \X Nat \X Nat
      BY <1>0, <1>2, <1>4 DEF LimitShape
    <2>3. /\ buckets' \in [Addresses -> SUBSET BucketRecord]
          /\ \A x \in Addresses : \A b, c \in buckets'[x] : b = c
      BY <1>0 DEF LimitShape
    <2> QED
      BY <1>0, <2>1, <2>2, <2>3 DEF LimitShape, BucketRecord
  <1>9. PassedLately'
    <2> SUFFICES ASSUME NEW p \in passed'
                 PROVE  /\ p[2] <= limitTime /\ limitTime < p[2] + LimitWindow
                        /\ p[2] = limitTime => p[3] <= Cardinality(Recent(p[1])')
      BY DEF PassedLately, Recent
    <2>1. CASE p = new
      BY <1>1, <1>2, <1>7, <2>1
    <2>2. CASE p \in passed
      <3>1. /\ p[2] <= limitTime /\ limitTime < p[2] + LimitWindow
            /\ p[2] = limitTime => p[3] <= Cardinality(Recent(p[1]))
        BY <1>0, <2>2 DEF PassedLately
      <3>2. p[1] \in Addresses /\ p[3] \in Nat
        BY <1>0, <2>2 DEF LimitShape
      <3>3. CASE p[1] # a
        BY <1>5, <3>1, <3>2, <3>3
      <3>4. CASE p[1] = a
        <4>1. Cardinality(Recent(p[1])) = C /\ Cardinality(Recent(p[1])') = C + 1
          BY <1>7, <3>4 DEF C
        <4> QED
          BY <1>1, <3>1, <3>2, <4>1
      <3> QED
        BY <3>3, <3>4
    <2> QED
      BY <1>4, <2>1, <2>2
  <1>10. NoBucketNoRequest'
    <2> SUFFICES ASSUME NEW x \in Addresses, buckets'[x] = {} PROVE Recent(x)' = {}
      BY DEF NoBucketNoRequest
    <2>1. x # a /\ buckets'[x] = buckets[x]
      BY <1>0 DEF LimitShape
    <2> QED
      BY <1>0, <1>5, <2>1 DEF NoBucketNoRequest
  <1>11. BucketsCount'
    <2>1. ASSUME NEW x \in Addresses, x # a, NEW b \in buckets'[x]
          PROVE  /\ b.start <= limitTime /\ b.count <= limiter
                 /\ Cardinality({p \in Recent(x)' : p[2] >= b.start}) <= b.count
                 /\ limitTime - b.start < LimitWindow => Cardinality({p \in Recent(x)' : p[2] >= b.start}) = b.count
                 /\ Cardinality({p \in Recent(x)' : p[2] < b.start}) <= limiter
                 /\ \A p \in Recent(x)' : p[2] < b.start + LimitWindow
      <3>1. b \in buckets[x] /\ Recent(x)' = Recent(x)
        BY <1>0, <1>5, <2>1 DEF LimitShape
      <3> QED
        BY <1>0, <3>1 DEF BucketsCount, SinceStart, BeforeStart, InWindow
    <2>2. ASSUME NEW b \in buckets'[a]
          PROVE  /\ b.start <= limitTime /\ b.count <= limiter
                 /\ Cardinality({p \in Recent(a)' : p[2] >= b.start}) <= b.count
                 /\ limitTime - b.start < LimitWindow => Cardinality({p \in Recent(a)' : p[2] >= b.start}) = b.count
                 /\ Cardinality({p \in Recent(a)' : p[2] < b.start}) <= limiter
                 /\ \A p \in Recent(a)' : p[2] < b.start + LimitWindow
      <3>1. b = nb /\ nb.start \in Nat /\ nb.count \in Nat
        BY <1>0, <2>2 DEF LimitShape, BucketRecord
      <3> DEFINE S == {p \in Recent(a) : p[2] >= nb.start}
      <3>2. {p \in Recent(a)' : p[2] >= nb.start} = S \cup {new}
        BY <1>1, <1>2, <1>5
      <3>3. {p \in Recent(a)' : p[2] < nb.start} = {p \in Recent(a) : p[2] < nb.start}
        BY <1>1, <1>2, <1>5, <3>1
      <3>4. IsFiniteSet(S) /\ new \notin S /\ Cardinality(S) \in Nat
        BY <1>0, <1>6, RecentFinite
      <3>5. Cardinality(S \cup {new}) = Cardinality(S) + 1
        <4> HIDE DEF S
        <4> QED
          BY <3>4, FS_AddElement
      <3>6. Cardinality({p \in Recent(a)' : p[2] >= nb.start}) = nb.count
        BY <3>2, <3>5
      <3>7. ASSUME NEW p \in Recent(a)' PROVE p[2] < nb.start + LimitWindow
        <4>1. CASE p = new
          BY <1>2, <4>1
        <4>2. CASE p \in Recent(a)
          <5>1. p \in passed /\ p[2] \in Nat
            BY <1>0, <4>2 DEF Recent, LimitShape
          <5>2. p[2] <= limitTime
            BY <1>0, <5>1 DEF PassedLately
          <5> QED
            BY <1>1, <3>1, <5>1, <5>2
        <4> QED
          BY <1>5, <3>7, <4>1, <4>2
      <3>8. nb.start <= limitTime /\ nb.count <= limiter /\ nb.count <= nb.count
        BY <3>1
      <3>9. Cardinality({p \in Recent(a)' : p[2] < nb.start}) <= limiter
        BY <3>3
      <3> HIDE DEF S
      <3> QED
        BY <3>1, <3>6, <3>7, <3>8, <3>9
    <2>3. ASSUME NEW x \in Addresses, NEW b \in buckets'[x]
          PROVE  /\ b.start <= limitTime /\ b.count <= limiter
                 /\ Cardinality({p \in Recent(x)' : p[2] >= b.start}) <= b.count
                 /\ limitTime - b.start < LimitWindow => Cardinality({p \in Recent(x)' : p[2] >= b.start}) = b.count
                 /\ Cardinality({p \in Recent(x)' : p[2] < b.start}) <= limiter
                 /\ \A p \in Recent(x)' : p[2] < b.start + LimitWindow
      BY <2>1, <2>2, <2>3
    <2> QED
      BY <2>3 DEF BucketsCount, SinceStart, BeforeStart, InWindow
  <1> QED
    BY <1>8, <1>9, <1>10, <1>11 DEF LimitInv, RefusedOnlyWhenSpent

(* Steps that change neither buckets, requests nor time. *)
LEMMA LimitFrame ==
  ASSUME LimitInv, UNCHANGED <<limiter, limitTime, passed, buckets>>, refused' \subseteq Addresses
  PROVE  LimitShape' /\ PassedLately' /\ BucketsCount' /\ NoBucketNoRequest'
  <1>1. LimitShape /\ PassedLately /\ BucketsCount /\ NoBucketNoRequest
    BY DEF LimitInv
  <1>2. \A a : Recent(a)' = Recent(a)
    BY DEF Recent
  <1>3. LimitShape'
    BY <1>1 DEF LimitShape, BucketRecord
  <1>4. PassedLately'
    BY <1>1, <1>2 DEF PassedLately
  <1>5. BucketsCount'
    <2>1. \A a, b : SinceStart(a, b)' = SinceStart(a, b) /\ BeforeStart(a, b)' = BeforeStart(a, b)
      BY <1>2 DEF SinceStart, BeforeStart
    <2> QED
      BY <1>1, <1>2, <2>1 DEF BucketsCount, InWindow
  <1>6. NoBucketNoRequest'
    BY <1>1, <1>2 DEF NoBucketNoRequest
  <1> QED
    BY <1>3, <1>4, <1>5, <1>6

(* Check, with the bucket made or rolled over. *)
LEMMA CheckKeeps ==
  ASSUME LimitInv, NEW a \in Addresses, Check(a), UNCHANGED <<limiter, limitTime>>
  PROVE  LimitInv'
  <1>0. LimitShape /\ PassedLately /\ BucketsCount /\ NoBucketNoRequest /\ RefusedOnlyWhenSpent
    BY DEF LimitInv
  <1>1. limitTime \in Nat /\ limiter \in Nat /\ LimitWindow \in Nat \ {0}
        /\ buckets \in [Addresses -> SUBSET BucketRecord]
    BY <1>0, EndpointLimitsAssumption DEF LimitShape
  <1>2. CASE UNCHANGED <<buckets, passed, refused>>
    <2>1. refused' \subseteq Addresses
      BY <1>0, <1>2 DEF LimitShape
    <2> QED
      BY <1>0, <1>2, <2>1, LimitFrame DEF LimitInv, RefusedOnlyWhenSpent, Recent
  <1> DEFINE old == {b \in buckets[a] : InWindow(b)}
             bucket == IF old = {} THEN [start |-> limitTime, count |-> 0] ELSE CHOOSE b \in old : TRUE
             nb == [bucket EXCEPT !.count = @ + 1]
  <1>3. CASE limiter # 0 /\ HasRoom(bucket.count)
    <2>1. /\ buckets' = [buckets EXCEPT ![a] = {nb}]
          /\ passed' = passed \cup {<<a, limitTime, Cardinality(Recent(a)) + 1>>}
          /\ refused' = {}
      BY <1>3 DEF Check
    <2>2. ASSUME bucket \in BucketRecord, bucket.start <= limitTime, limitTime < bucket.start + LimitWindow,
                 Cardinality({p \in Recent(a) : p[2] >= bucket.start}) = bucket.count,
                 Cardinality({p \in Recent(a) : p[2] < bucket.start}) <= limiter
          PROVE  LimitInv'
      <3>1. nb \in BucketRecord /\ nb.start = bucket.start /\ nb.count = bucket.count + 1
        <4> HIDE DEF bucket
        <4> QED
          BY <2>2 DEF BucketRecord
      <3>2. nb.count <= limiter
        BY <1>1, <1>3, <2>2, <3>1 DEF HasRoom, BucketRecord
      <3> HIDE DEF nb, bucket
      <3> QED
        BY <1>3, <2>1, <2>2, <3>1, <3>2, CheckPasses
    <2>3. CASE old # {}
      <3>1. PICK b \in old : bucket = b
        BY <2>3
      <3>2. b \in buckets[a] /\ InWindow(b) /\ b \in BucketRecord
        BY <1>1, <3>1
      <3>3. /\ b.start <= limitTime /\ Cardinality(SinceStart(a, b)) = b.count
            /\ Cardinality(BeforeStart(a, b)) <= limiter
        BY <1>0, <3>2 DEF BucketsCount
      <3>4. limitTime < b.start + LimitWindow
        BY <1>1, <3>2, <3>3 DEF InWindow, BucketRecord
      <3>5. /\ bucket \in BucketRecord /\ bucket.start <= limitTime /\ limitTime < bucket.start + LimitWindow
            /\ Cardinality({p \in Recent(a) : p[2] >= bucket.start}) = bucket.count
            /\ Cardinality({p \in Recent(a) : p[2] < bucket.start}) <= limiter
        <4> HIDE DEF bucket
        <4> QED
          BY <3>1, <3>2, <3>3, <3>4 DEF SinceStart, BeforeStart
      <3> QED
        BY <2>2, <3>5
    <2>4. CASE old = {}
      <3>1. bucket = [start |-> limitTime, count |-> 0]
        BY <2>4
      <3>2. bucket \in BucketRecord /\ bucket.start = limitTime /\ bucket.count = 0
        <4> HIDE DEF bucket
        <4> QED
          BY <1>1, <3>1 DEF BucketRecord
      <3>3. ASSUME NEW p \in Recent(a)
            PROVE  /\ p[2] \in Nat /\ p[2] < limitTime
                   /\ \A b \in buckets[a] : p[2] >= b.start
        <4>1. p \in passed /\ p[2] \in Nat /\ limitTime < p[2] + LimitWindow
          BY <1>0, <3>3 DEF Recent, LimitShape, PassedLately
        <4>2. buckets[a] # {}
          BY <1>0, <3>3 DEF NoBucketNoRequest
        <4>3. ASSUME NEW b \in buckets[a] PROVE p[2] < limitTime /\ p[2] >= b.start
          <5>1. b.start \in Nat /\ ~InWindow(b)
            BY <1>1, <2>4 DEF BucketRecord
          <5>2. p[2] < b.start + LimitWindow
            BY <1>0, <3>3 DEF BucketsCount
          <5> QED
            BY <1>1, <4>1, <5>1, <5>2 DEF InWindow
        <4> QED
          BY <4>1, <4>2, <4>3
      <3>4. {p \in Recent(a) : p[2] >= limitTime} = {}
        BY <1>1, <3>3
      <3>5. {p \in Recent(a) : p[2] < limitTime} = Recent(a)
        BY <3>3
      <3>6. Cardinality(Recent(a)) <= limiter
        <4>1. CASE buckets[a] = {}
          BY <1>0, <1>1, <4>1, FS_EmptySet DEF NoBucketNoRequest
        <4>2. ASSUME NEW b \in buckets[a] PROVE Cardinality(Recent(a)) <= limiter
          <5>1. SinceStart(a, b) = Recent(a)
            BY <3>3 DEF SinceStart
          <5>2. Cardinality(SinceStart(a, b)) <= b.count /\ b.count <= limiter /\ b.count \in Nat
            BY <1>0, <1>1 DEF BucketsCount, BucketRecord
          <5>3. Cardinality(Recent(a)) \in Nat
            BY <1>0, RecentFinite
          <5> QED
            BY <1>1, <5>1, <5>2, <5>3
        <4> QED
          BY <4>1, <4>2
      <3>7. /\ Cardinality({p \in Recent(a) : p[2] >= bucket.start}) = bucket.count
            /\ Cardinality({p \in Recent(a) : p[2] < bucket.start}) <= limiter
        <4> HIDE DEF bucket
        <4> QED
          BY <3>2, <3>4, <3>5, <3>6, FS_EmptySet
      <3>8. bucket.start <= limitTime /\ limitTime < bucket.start + LimitWindow
        <4> HIDE DEF bucket
        <4> QED
          BY <1>1, <3>2
      <3> QED
        BY <2>2, <3>2, <3>7, <3>8
    <2> QED
      BY <2>3, <2>4
  <1>4. CASE limiter # 0 /\ ~HasRoom(bucket.count)
    <2>1. buckets' = [buckets EXCEPT ![a] = {bucket}] /\ refused' = {a} /\ UNCHANGED passed
      BY <1>4 DEF Check
    <2>2. old # {}
      BY <1>1, <1>4 DEF HasRoom
    <2>3. PICK b \in old : bucket = b
      BY <2>2
    <2>4. b \in buckets[a] /\ InWindow(b) /\ b \in BucketRecord
      BY <1>1, <2>3
    <2>5. buckets[a] = {b}
      BY <1>0, <2>4 DEF LimitShape
    <2>6. b.count >= limiter /\ Cardinality(SinceStart(a, b)) = b.count
      <3>1. Cardinality(SinceStart(a, b)) = b.count
        BY <1>0, <2>4 DEF BucketsCount
      <3>2. b.count \in Nat /\ ~HasRoom(b.count)
        <4> HIDE DEF bucket
        <4> QED
          BY <1>4, <2>3, <2>4 DEF BucketRecord
      <3> QED
        BY <1>1, <3>1, <3>2 DEF HasRoom
    <2> HIDE DEF bucket, old
    <2>7. UNCHANGED buckets
      BY <1>1, <2>1, <2>3, <2>5
    <2>8. Cardinality(Recent(a)) >= limiter
      <3>1. SinceStart(a, b) \in SUBSET Recent(a)
        BY DEF SinceStart
      <3>2. Cardinality(SinceStart(a, b)) <= Cardinality(Recent(a)) /\ Cardinality(Recent(a)) \in Nat
        BY <1>0, <3>1, RecentFinite
      <3> QED
        BY <1>1, <2>4, <2>6, <3>2 DEF BucketRecord
    <2>9. RefusedOnlyWhenSpent'
      BY <2>1, <2>8 DEF RefusedOnlyWhenSpent, Recent
    <2>10. LimitShape' /\ PassedLately' /\ BucketsCount' /\ NoBucketNoRequest'
      BY <2>1, <2>7, LimitFrame
    <2> QED
      BY <2>9, <2>10 DEF LimitInv
  <1> QED
    BY <1>2, <1>3, <1>4 DEF Check

(* Ticks and collections lose only requests and buckets that are old. *)
LEMMA GcKeeps == ASSUME LimitInv, Gc PROVE LimitInv'
  <1>0. LimitShape /\ PassedLately /\ BucketsCount /\ NoBucketNoRequest /\ RefusedOnlyWhenSpent
    BY DEF LimitInv
  <1>1. /\ buckets' = [a \in Addresses |-> {b \in buckets[a] : Retains(b)}]
        /\ UNCHANGED <<limiter, limitTime, passed, refused>>
    BY DEF Gc
  <1>2. \A a \in Addresses : buckets'[a] \subseteq buckets[a]
    BY <1>1
  <1>3. LimitShape'
    <2>1. buckets' \in [Addresses -> SUBSET BucketRecord]
      BY <1>0, <1>1 DEF LimitShape
    <2> QED
      BY <1>0, <1>1, <1>2, <2>1 DEF LimitShape, BucketRecord
  <1>4. PassedLately' /\ BucketsCount' /\ RefusedOnlyWhenSpent'
    BY <1>0, <1>1, <1>2 DEF PassedLately, BucketsCount, RefusedOnlyWhenSpent, Recent, SinceStart, BeforeStart,
                            InWindow
  <1>5. NoBucketNoRequest'
    <2> SUFFICES ASSUME NEW a \in Addresses, buckets'[a] = {}, NEW p \in Recent(a) PROVE FALSE
      BY <1>1 DEF NoBucketNoRequest, Recent
    <2>1. PICK b \in buckets[a] : ~Retains(b)
      BY <1>0, <1>1 DEF NoBucketNoRequest
    <2>2. p[2] \in Nat /\ limitTime < p[2] + LimitWindow /\ p[2] < b.start + LimitWindow
      BY <1>0 DEF Recent, LimitShape, PassedLately, BucketsCount
    <2>3. b.start \in Nat /\ limitTime \in Nat /\ LimitWindow \in Nat
      BY <1>0, EndpointLimitsAssumption DEF LimitShape, BucketRecord
    <2> QED
      BY <2>1, <2>2, <2>3 DEF Retains
  <1> QED
    BY <1>3, <1>4, <1>5 DEF LimitInv

(* The clock moves requests out of the last window length and keeps the    *)
(* invariant.                                                              *)
LEMMA TickKeeps == ASSUME LimitInv, LimitTick PROVE LimitInv'
  <1>0. LimitShape /\ PassedLately /\ BucketsCount /\ NoBucketNoRequest
    BY DEF LimitInv
  <1>1. /\ limitTime' = limitTime + 1
        /\ passed' = {p \in passed : p[2] + LimitWindow > limitTime + 1}
        /\ refused' = {} /\ UNCHANGED <<limiter, buckets>>
    BY DEF LimitTick
  <1>2. limitTime \in Nat /\ LimitWindow \in Nat \ {0}
    BY <1>0, EndpointLimitsAssumption DEF LimitShape
  <1>3. \A a : Recent(a)' = {p \in Recent(a) : p[2] + LimitWindow > limitTime + 1}
    BY <1>1 DEF Recent
  <1>4. LimitShape'
    <2>1. passed' \subseteq passed
      BY <1>1
    <2>2. IsFiniteSet(passed')
      BY <1>0, <2>1, FS_Subset DEF LimitShape
    <2> QED
      BY <1>0, <1>1, <2>1, <2>2 DEF LimitShape, BucketRecord
  <1>5. PassedLately'
    <2> SUFFICES ASSUME NEW p \in passed'
                 PROVE  p[2] <= limitTime + 1 /\ limitTime + 1 < p[2] + LimitWindow /\ p[2] # limitTime + 1
      BY <1>1 DEF PassedLately
    <2>1. p \in passed /\ p[2] \in Nat /\ p[2] + LimitWindow > limitTime + 1
      BY <1>0, <1>1 DEF LimitShape
    <2>2. p[2] <= limitTime
      BY <1>0, <2>1 DEF PassedLately
    <2> QED
      BY <1>2, <2>1, <2>2
  <1>6. NoBucketNoRequest'
    BY <1>0, <1>1, <1>3 DEF NoBucketNoRequest
  <1>7. ASSUME NEW a \in Addresses, NEW b \in buckets[a]
        PROVE  /\ b.start <= limitTime + 1 /\ b.count <= limiter
               /\ Cardinality({p \in Recent(a)' : p[2] >= b.start}) <= b.count
               /\ (limitTime + 1) - b.start < LimitWindow => Cardinality({p \in Recent(a)' : p[2] >= b.start}) = b.count
               /\ Cardinality({p \in Recent(a)' : p[2] < b.start}) <= limiter
               /\ \A p \in Recent(a)' : p[2] < b.start + LimitWindow
    <2>1. /\ b.start <= limitTime /\ b.count <= limiter
          /\ Cardinality(SinceStart(a, b)) <= b.count
          /\ InWindow(b) => Cardinality(SinceStart(a, b)) = b.count
          /\ Cardinality(BeforeStart(a, b)) <= limiter
          /\ \A p \in Recent(a) : p[2] < b.start + LimitWindow
      BY <1>0 DEF BucketsCount
    <2>2. b.start \in Nat /\ b.count \in Nat /\ limiter \in Nat
      BY <1>0 DEF LimitShape, BucketRecord
    <2> DEFINE S == {p \in Recent(a)' : p[2] >= b.start}
               B == {p \in Recent(a)' : p[2] < b.start}
    <2>3. S \subseteq SinceStart(a, b) /\ B \subseteq BeforeStart(a, b)
      BY <1>3 DEF SinceStart, BeforeStart
    <2>4. IsFiniteSet(SinceStart(a, b)) /\ IsFiniteSet(BeforeStart(a, b))
      BY <1>0, RecentFinite DEF SinceStart, BeforeStart
    <2>5. /\ Cardinality(S) <= Cardinality(SinceStart(a, b)) /\ Cardinality(B) <= Cardinality(BeforeStart(a, b))
          /\ Cardinality(S) \in Nat /\ Cardinality(B) \in Nat
          /\ Cardinality(SinceStart(a, b)) \in Nat /\ Cardinality(BeforeStart(a, b)) \in Nat
      <3> HIDE DEF S, B
      <3> QED
        BY <2>3, <2>4, FS_Subset, FS_CardinalityType
    <2>6. (limitTime + 1) - b.start < LimitWindow => InWindow(b) /\ S = SinceStart(a, b)
      <3> SUFFICES ASSUME (limitTime + 1) - b.start < LimitWindow PROVE InWindow(b) /\ S = SinceStart(a, b)
        OBVIOUS
      <3>1. InWindow(b)
        BY <1>2, <2>2 DEF InWindow
      <3>2. ASSUME NEW p \in SinceStart(a, b) PROVE p \in S
        <4>1. p \in Recent(a) /\ p[2] >= b.start /\ p[2] \in Nat
          BY <1>0, <3>2 DEF SinceStart, Recent, LimitShape
        <4>2. p[2] + LimitWindow > limitTime + 1
          BY <1>2, <2>2, <4>1
        <4> QED
          BY <1>3, <4>1, <4>2
      <3> QED
        BY <2>3, <3>1, <3>2
    <2>7. \A p \in Recent(a)' : p[2] < b.start + LimitWindow
      BY <1>3, <2>1
    <2>8. Cardinality(S) <= b.count /\ Cardinality(B) <= limiter /\ b.start <= limitTime + 1
      <3> HIDE DEF S, B
      <3> QED
        BY <1>2, <2>1, <2>2, <2>5
    <2>9. (limitTime + 1) - b.start < LimitWindow => Cardinality(S) = b.count
      <3> HIDE DEF S, B
      <3> QED
        BY <2>1, <2>6
    <2> QED
      BY <2>1, <2>7, <2>8, <2>9
  <1>8. BucketsCount'
    BY <1>1, <1>7 DEF BucketsCount, SinceStart, BeforeStart, InWindow
  <1> QED
    BY <1>1, <1>4, <1>5, <1>6, <1>8 DEF LimitInv, RefusedOnlyWhenSpent

(* Every step of the endpoint limits keeps their invariant. *)
LEMMA LimitStepInv == LimitInv /\ [LimitsNext]_limitVars => LimitInv'
  <1> SUFFICES ASSUME LimitInv, [LimitsNext]_limitVars PROVE LimitInv'
    OBVIOUS
  <1>1. CASE UNCHANGED limitVars
    <2>1. UNCHANGED <<limiter, limitTime, passed, buckets, refused>>
      BY <1>1 DEF limitVars
    <2>2. refused' \subseteq Addresses
      BY <2>1 DEF LimitInv, LimitShape
    <2> QED
      BY <2>1, <2>2, LimitFrame DEF LimitInv, RefusedOnlyWhenSpent, Recent
  <1>2. ASSUME NEW real, NEW forwarded, NEW peer \in Addresses, LimitByIp(real, forwarded, peer)
        PROVE  LimitInv'
    <2>1. PICK a \in Addresses : a = ClientIpKey(real, forwarded, peer)
      BY DEF ClientIpKey
    <2> QED
      BY <1>2, <2>1, CheckKeeps DEF LimitByIp
  <1> QED
    BY <1>1, <1>2, GcKeeps, TickKeeps DEF LimitsNext

(* The inductive invariant of the endpoint limits contains what the run    *)
(* checks.                                                                 *)
LEMMA LimitInvGives == LimitInv => EndpointLimitsSound
  <1> SUFFICES ASSUME LimitInv PROVE EndpointLimitsSound
    OBVIOUS
  <1>0. LimitShape /\ BucketsCount /\ NoBucketNoRequest /\ RefusedOnlyWhenSpent
    BY DEF LimitInv
  <1>1. ASSUME NEW a \in Addresses PROVE Cardinality(Recent(a)) <= 2 * limiter
    <2>0. limiter \in Nat
      BY <1>0 DEF LimitShape
    <2>1. CASE buckets[a] = {}
      BY <1>0, <2>0, <2>1, FS_EmptySet DEF NoBucketNoRequest
    <2>2. ASSUME NEW b \in buckets[a] PROVE Cardinality(Recent(a)) <= 2 * limiter
      <3>1. /\ Cardinality(SinceStart(a, b)) <= b.count /\ b.count <= limiter
            /\ Cardinality(BeforeStart(a, b)) <= limiter
        BY <1>0 DEF BucketsCount
      <3>2. Recent(a) = SinceStart(a, b) \cup BeforeStart(a, b)
        <4>1. b.start \in Nat /\ \A p \in Recent(a) : p[2] \in Nat
          BY <1>0 DEF LimitShape, BucketRecord, Recent
        <4> QED
          BY <4>1 DEF SinceStart, BeforeStart
      <3>3. /\ IsFiniteSet(SinceStart(a, b)) /\ IsFiniteSet(BeforeStart(a, b))
            /\ Cardinality(SinceStart(a, b)) \in Nat /\ Cardinality(BeforeStart(a, b)) \in Nat
        BY <1>0, RecentFinite DEF SinceStart, BeforeStart
      <3>4. SinceStart(a, b) \cap BeforeStart(a, b) \in SUBSET SinceStart(a, b)
        OBVIOUS
      <3>5. /\ Cardinality(Recent(a)) = Cardinality(SinceStart(a, b)) + Cardinality(BeforeStart(a, b))
                 - Cardinality(SinceStart(a, b) \cap BeforeStart(a, b))
        BY <3>2, <3>3, FS_Union
      <3>6. Cardinality(SinceStart(a, b) \cap BeforeStart(a, b)) \in Nat
        BY <3>3, <3>4, FS_Subset, FS_CardinalityType
      <3>7. b.count \in Nat
        BY <1>0 DEF LimitShape, BucketRecord
      <3> QED
        BY <2>0, <3>1, <3>3, <3>5, <3>6, <3>7
    <2> QED
      BY <2>1, <2>2
  <1> QED
    BY <1>0, <1>1 DEF EndpointLimitsSound, TwiceTheLimitAtMost

-----------------------------------------------------------------------------
(* The auth server: every part begins in its initial states and takes its  *)
(* own steps.                                                              *)

PartsInit ==
  /\ SessionInit /\ MembershipInit /\ LoginInit /\ PasskeyInit /\ ChooserInit /\ DeviceInit /\ KeyInit
  /\ AuthEventInit /\ CredentialInit /\ LimitsInit
(* Every part starts in an initial state of its own. *)
LEMMA IdentityInitParts == IdentityInit => PartsInit
  BY DEF IdentityInit, PartsInit, Begin, StillSessions, StillMembers, StillLogins, StillEvents, StillLimits

PartsNext ==
  /\ [SessionNext]_allSessionVars /\ [MembershipNext]_membershipVars /\ [LoginNext]_loginVars
  /\ [PasskeyNext]_passkeyVars /\ [ChooserNext]_chooserVars /\ [DeviceNext]_deviceVars
  /\ [KeyNext]_keyVars /\ [AuthEventNext]_authEventVars /\ [CredentialNext]_credentialVars
  /\ [LimitsNext]_limitVars
(* A step of the composition is a step or a stutter of every part. *)
LEMMA IdentityNextParts == [IdentityNext]_identityVars => PartsNext
  <1>1. CASE UNCHANGED identityVars
    BY <1>1 DEF identityVars, PartsNext
  <1>2. CASE IdentityNext
    <2>1. AreaStep /\ Keep("sessions", allSessionVars) /\ Keep("members", membershipVars)
          /\ Keep("logins", loginVars) /\ Keep("passkeys", passkeyVars)
          /\ Keep("chooser", chooserVars) /\ Keep("devices", deviceVars) /\ Keep("keys", keyVars)
          /\ Keep("events", authEventVars) /\ Keep("credentials", credentialVars)
          /\ Keep("limits", limitVars)
      BY <1>2 DEF IdentityNext
    <2>2. [SessionNext]_allSessionVars
      BY <2>1 DEF AreaStep, Keep
    <2>3. [MembershipNext]_membershipVars
      BY <2>1 DEF AreaStep, Keep
    <2>4. [LoginNext]_loginVars
      BY <2>1 DEF AreaStep, Keep
    <2>5. [PasskeyNext]_passkeyVars
      BY <2>1 DEF AreaStep, Keep
    <2>6. [ChooserNext]_chooserVars
      BY <2>1 DEF AreaStep, Keep
    <2>7. [DeviceNext]_deviceVars
      BY <2>1 DEF AreaStep, Keep
    <2>8. [KeyNext]_keyVars
      BY <2>1 DEF AreaStep, Keep
    <2>9. [AuthEventNext]_authEventVars
      BY <2>1 DEF AreaStep, Keep
    <2>10. [CredentialNext]_credentialVars
      BY <2>1 DEF AreaStep, Keep
    <2>11. [LimitsNext]_limitVars
      BY <2>1 DEF AreaStep, Keep
    <2> QED
      BY <2>2, <2>3, <2>4, <2>5, <2>6, <2>7, <2>8, <2>9, <2>10, <2>11 DEF PartsNext
  <1> QED
    BY <1>1, <1>2

(* The inductive invariant of the auth server. *)
IdentityInv ==
  /\ SessionInv /\ MembershipInv /\ LoginInv /\ PasskeyInv /\ ChooserInv /\ DeviceInv
  /\ KeyInv /\ EventInv /\ CredentialInv /\ LimitInv

(* Every step of the auth server keeps the invariants of its parts, and    *)
(* does none of what NeverUndone forbids.                                  *)
LEMMA IdentityInvKept == IdentitySpec => [](IdentityInv)
  <1>1. IdentityInit => IdentityInv
    BY IdentityInitParts, SessionInitInv, MembershipInitInv, LoginInitInv, PasskeyInitInv, ChooserInitInv,
       DeviceInitInv, KeyInitInv, EventInitInv, CredentialInitInv, LimitInitInv DEF PartsInit, IdentityInv
  <1>2. IdentityInv /\ [IdentityNext]_identityVars => IdentityInv'
    BY IdentityNextParts, SessionStepInv, MembershipStepInv, LoginStepInv, PasskeyStepInv, ChooserStepInv,
       DeviceStepInv, KeyStepInv, EventStepInv, CredentialStepInv, LimitStepInv DEF PartsNext, IdentityInv
  <1> QED
    BY <1>1, <1>2, PTL DEF IdentitySpec

(***************************************************************************)
(* However calls interleave, a login ticket, a passkey challenge and a     *)
(* counter value open one session, and the first decision on a device      *)
(* request stands.                                                         *)
(***************************************************************************)
THEOREM SingleUseKept == IdentitySpec => []SingleUse
  <1>1. IdentityInv => SingleUse
    BY LoginInvGives DEF IdentityInv, SingleUse, DeviceInv, DecisionKept, PasskeyInv, ChallengeHeldOnce, CounterHeldOnce
  <1> QED
    BY <1>1, IdentityInvKept, PTL

(***************************************************************************)
(* One account for a subject, one personal tenant, an owner in every       *)
(* tenant unless removals overlap, the invited role, and the accounts a    *)
(* browser has signed in to, for any number of calls and people.           *)
(***************************************************************************)
THEOREM AccountsKept == IdentitySpec => []AccountsSound
  <1>1. IdentityInv => AccountsSound
    BY LoginInvGives, MembershipInvGives DEF IdentityInv, AccountsSound, ChooserInv
  <1> QED
    BY <1>1, IdentityInvKept, PTL

(***************************************************************************)
(* Nobody is let in on a second factor that was not shown, the mark of one *)
(* never reaches another session, and a switch of tenant leaves no second  *)
(* session behind.                                                         *)
(***************************************************************************)
THEOREM SessionsKept == IdentitySpec => []SessionsSound
  <1>1. IdentityInv => SessionsSound
    BY SessionInvGives DEF IdentityInv
  <1> QED
    BY <1>1, IdentityInvKept, PTL

(***************************************************************************)
(* Keys in use are published, revoked keys stay out of the key set and     *)
(* rotations that overlap leave an active key, for any number of servers.  *)
(***************************************************************************)
THEOREM KeysKept == IdentitySpec => []KeysSound
  <1>1. IdentityInv => KeysSound
    BY KeyInvGives DEF IdentityInv
  <1> QED
    BY <1>1, IdentityInvKept, PTL

(***************************************************************************)
(* The right credential decides /auth/verify: a revoked temporary access   *)
(* admits nobody, its cookie ends with it, and neither a foreign token nor *)
(* a forged forwarding header changes the answer.                          *)
(***************************************************************************)
THEOREM CredentialsKept == IdentitySpec => []CredentialsSound
  <1>1. IdentityInv => CredentialsSound
    BY CredentialInvGives DEF IdentityInv
  <1> QED
    BY <1>1, IdentityInvKept, PTL

(***************************************************************************)
(* No stream carries an event twice, whatever the instances publish, echo  *)
(* and relay, and a hard_delete_user that answers ok leaves no trace that  *)
(* was complete when it began.                                             *)
(***************************************************************************)
THEOREM EventsKept == IdentitySpec => []EventsSound
  <1>1. IdentityInv => EventsSound
    BY EventInvGives DEF IdentityInv
  <1> QED
    BY <1>1, IdentityInvKept, PTL

(***************************************************************************)
(* A client is refused only when its limit is spent within a window, and   *)
(* never gets more than twice the limit in one, for any limit and width.   *)
(***************************************************************************)
THEOREM EndpointLimitsKept == IdentitySpec => []EndpointLimitsSound
  <1>1. IdentityInv => EndpointLimitsSound
    BY LimitInvGives DEF IdentityInv
  <1> QED
    BY <1>1, IdentityInvKept, PTL

(***************************************************************************)
(* No step revives a dead session, makes a dead one the active account,    *)
(* moves an identity to another user or takes a user's last identity       *)
(* unless two unlinks raced.                                               *)
(***************************************************************************)
THEOREM NeverUndoneKept == IdentitySpec => NeverUndone
  <1>1. IdentityInv /\ [IdentityNext]_identityVars =>
          /\ StaysDead /\ PromotesLiveStep /\ KeepsItsUser /\ KeepsTheLast
    BY IdentityNextParts, SessionStepDead, ChooserStepInv, LoginStepIdentity
    DEF PartsNext, IdentityInv, SessionInv
  <1>2. StaysDead => [\A s \in SessionIds :
          session[s].state \in {"expired", "revoked"} => session'[s].state # "live"]_sessionVars
    BY DEF StaysDead
  <1>3. PromotesLiveStep => [active' # active /\ active' # NoAccount => active' \in alive']_chooserVars
    BY DEF PromotesLiveStep
  <1>4. KeepsItsUser =>
          [\A s \in Subjects : identity[s] # NoOne => identity'[s] \in {identity[s], NoOne}]_loginVars
    BY DEF KeepsItsUser
  <1>5. KeepsTheLast =>
          [\A e \in Emails : <<"unlink", e>> \notin raced' /\ LinkedTo(e) # {} =>
             \E s \in Subjects : identity'[s] = e]_loginVars
    BY DEF KeepsTheLast
  <1> QED
    BY <1>1, <1>2, <1>3, <1>4, <1>5, IdentityInvKept, PTL
    DEF IdentitySpec, NeverUndone, DeadStaysDead, PromotesLive, IdentityKeepsItsUser, LastIdentityKept
=============================================================================
