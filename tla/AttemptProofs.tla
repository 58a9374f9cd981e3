---------------------------- MODULE AttemptProofs ---------------------------
(***************************************************************************)
(* Theorems about the attempts of a run: of RunLease, for every set of     *)
(* runs and attempts and any number of messages, the properties of the     *)
(* lease and the implementation of Ownership; of RunRecord, for every      *)
(* number of generations and every budget, that what an attempt makes      *)
(* durable and what it answers are true.                                   *)
(***************************************************************************)
EXTENDS RunLease, RunRecord, SequenceTheorems, TLAPS

-----------------------------------------------------------------------------
(* The inductive invariant.  What makes the lease work is that a           *)
(* generation belongs to one attempt for ever, and that whoever speaks of  *)
(* a generation (an answer, the caller, a request) speaks of the one its   *)
(* own attempt earned.                                                     *)

EarnedOnce == \A a, b \in Attempt : a # b /\ earned[a] # 0 => earned[a] # earned[b]

KnownMatchesEarned == \A a \in Attempt :
  /\ known[a] = "unknown" => earned[a] = 0
  /\ known[a] = "granted" => earned[a] # 0

AnswersAreEarned == \A a \in Attempt : \A g \in 0 .. generation :
  <<a, g>> \in answers /\ g # 0 => g = earned[a]

CallerIsEarned == \A a \in Attempt :
  /\ caller[a] \in {"idle", "claiming", "refused", "not_started"} => mine[a] = 0
  /\ caller[a] \in {"owner", "concluded"} => mine[a] # 0 /\ mine[a] = earned[a]

RequestsMatchCaller == \A a \in Attempt :
  /\ <<"abandon", a>> \in wire => caller[a] = "not_started"
  /\ <<"release", a>> \in wire => caller[a] = "concluded"

IInv == /\ TypeOK
        /\ EarnedOnce
        /\ KnownMatchesEarned
        /\ AnswersAreEarned
        /\ CallerIsEarned
        /\ RequestsMatchCaller
        /\ NoOrphanedGrant

LEMMA InitIInv == Init => IInv
BY RunLeaseAssumption DEF Init, IInv, TypeOK, EarnedOnce, KnownMatchesEarned, AnswersAreEarned,
   CallerIsEarned, RequestsMatchCaller, NoOrphanedGrant, Current

-----------------------------------------------------------------------------
(* One lemma per action: the invariant is kept.                            *)

LEMMA ClaimIInv == ASSUME IInv, NEW a \in Attempt, Claim(a) PROVE IInv'
<1> USE RunLeaseAssumption DEF IInv, Claim, leaseVars
<1>1. TypeOK' BY DEF TypeOK
<1>2. EarnedOnce' /\ KnownMatchesEarned' /\ AnswersAreEarned' BY DEF EarnedOnce, KnownMatchesEarned, AnswersAreEarned
<1>3. CallerIsEarned' BY DEF CallerIsEarned, TypeOK
<1>4. RequestsMatchCaller' BY DEF RequestsMatchCaller, TypeOK
<1>5. NoOrphanedGrant' BY DEF NoOrphanedGrant, Current, Holds
<1> QED BY <1>1, <1>2, <1>3, <1>4, <1>5

LEMMA RaiseIInv == ASSUME IInv, NEW a \in Attempt, Raise(a) PROVE IInv'
BY DEF IInv, Raise, leaseVars, TypeOK, EarnedOnce, KnownMatchesEarned, AnswersAreEarned,
   CallerIsEarned, RequestsMatchCaller, NoOrphanedGrant, Current, Holds

LEMMA GiveUpIInv == ASSUME IInv, NEW a \in Attempt, GiveUp(a) PROVE IInv'
<1> USE RunLeaseAssumption DEF IInv, GiveUp, AbandonClaim, leaseVars
<1>1. TypeOK' BY DEF TypeOK
<1>2. EarnedOnce' /\ KnownMatchesEarned' /\ AnswersAreEarned' BY DEF EarnedOnce, KnownMatchesEarned, AnswersAreEarned
<1>3. CallerIsEarned' BY DEF CallerIsEarned, TypeOK
<1>4. RequestsMatchCaller' BY DEF RequestsMatchCaller, TypeOK
<1>5. NoOrphanedGrant' BY DEF NoOrphanedGrant, Current, Holds
<1> QED BY <1>1, <1>2, <1>3, <1>4, <1>5

LEMMA AnsweredIInv ==
  ASSUME IInv, NEW a \in Attempt, NEW g \in 0 .. generation, Answered(a, g) PROVE IInv'
<1> USE RunLeaseAssumption DEF IInv, Answered, leaseVars
<1>1. TypeOK' BY DEF TypeOK
<1>2. EarnedOnce' /\ KnownMatchesEarned' /\ AnswersAreEarned' BY DEF EarnedOnce, KnownMatchesEarned, AnswersAreEarned
<1>3. CallerIsEarned'
  <2>1. g # 0 => g = earned[a] BY DEF AnswersAreEarned
  <2> QED BY <2>1 DEF CallerIsEarned, TypeOK
<1>4. RequestsMatchCaller' BY DEF RequestsMatchCaller, TypeOK
<1>5. NoOrphanedGrant' BY DEF NoOrphanedGrant, Current, Holds
<1> QED BY <1>1, <1>2, <1>3, <1>4, <1>5

LEMMA ConcludeIInv == ASSUME IInv, NEW a \in Attempt, Conclude(a) PROVE IInv'
<1> USE RunLeaseAssumption DEF IInv, Conclude, leaseVars
<1>1. TypeOK' BY DEF TypeOK
<1>2. EarnedOnce' /\ KnownMatchesEarned' /\ AnswersAreEarned' BY DEF EarnedOnce, KnownMatchesEarned, AnswersAreEarned
<1>3. CallerIsEarned' BY DEF CallerIsEarned, TypeOK
<1>4. RequestsMatchCaller' BY DEF RequestsMatchCaller, TypeOK
<1>5. NoOrphanedGrant' BY DEF NoOrphanedGrant, Current, Holds
<1> QED BY <1>1, <1>2, <1>3, <1>4, <1>5

LEMMA HandleClaimIInv == ASSUME IInv, NEW a \in Attempt, HandleClaim(a) PROVE IInv'
<1> USE RunLeaseAssumption DEF IInv, callerVars
<1> DEFINE Grant == /\ Grantable(a)
                    /\ generation' = generation + 1
                    /\ held' = [held EXCEPT ![RunOf[a]] = generation + 1]
                    /\ known' = [known EXCEPT ![a] = "granted"]
                    /\ earned' = [earned EXCEPT ![a] = generation + 1]
                    /\ answers' = answers \union {<<a, generation + 1>>}
                    /\ UNCHANGED <<callerVars, wire>>
           Reply == /\ answers' = answers \union {<<a, IF known[a] = "granted" /\ Current(a)
                                                       THEN earned[a] ELSE 0>>}
                    /\ UNCHANGED <<leaseVars, callerVars, wire>>
<1>a. Grant \/ Reply BY DEF HandleClaim, Mint, Answer
<1>1. CASE Grant
  <2>1. TypeOK' BY <1>1 DEF TypeOK
  <2>2. earned[a] = 0 BY <1>1 DEF Grantable, KnownMatchesEarned
  <2>3. EarnedOnce' BY <1>1 DEF TypeOK, EarnedOnce
  <2>4. KnownMatchesEarned' BY <1>1 DEF TypeOK, KnownMatchesEarned
  <2>5. AnswersAreEarned'
    <3> SUFFICES ASSUME NEW b \in Attempt, NEW g \in (0 .. generation)', (<<b, g>> \in answers)', g # 0
                 PROVE  g = earned'[b]
      BY DEF AnswersAreEarned
    <3>1. CASE <<b, g>> = <<a, generation + 1>> BY <1>1, <3>1 DEF TypeOK
    <3>2. CASE <<b, g>> \in answers
      <4>1. g \in 0 .. generation BY <3>2 DEF TypeOK
      <4>2. g = earned[b] BY <3>2, <4>1 DEF AnswersAreEarned
      <4> QED BY <1>1, <2>2, <4>2 DEF TypeOK
    <3> QED BY <1>1, <3>1, <3>2
  <2>6. CallerIsEarned' BY <1>1, <2>2 DEF TypeOK, CallerIsEarned
  <2>7. RequestsMatchCaller' BY <1>1 DEF RequestsMatchCaller
  <2>8. NoOrphanedGrant'
    <3> SUFFICES ASSUME NEW b \in Attempt, known'[b] = "abandoned" PROVE ~Current(b)'
      BY DEF NoOrphanedGrant
    <3>1. b # a /\ known[b] = "abandoned" /\ earned'[b] = earned[b] BY <1>1 DEF TypeOK
    <3>2. ~Current(b) BY <3>1 DEF NoOrphanedGrant
    <3>3. earned[b] # generation + 1 BY DEF TypeOK
    <3> QED BY <1>1, <3>1, <3>2, <3>3 DEF Current, Holds, TypeOK
  <2> QED BY <2>1, <2>3, <2>4, <2>5, <2>6, <2>7, <2>8
<1>2. CASE Reply
  <2>1. TypeOK' BY <1>2 DEF TypeOK, leaseVars
  <2>2. EarnedOnce' /\ KnownMatchesEarned' /\ CallerIsEarned' /\ RequestsMatchCaller'
    BY <1>2 DEF EarnedOnce, KnownMatchesEarned, CallerIsEarned, RequestsMatchCaller, leaseVars
  <2>3. AnswersAreEarned' BY <1>2 DEF AnswersAreEarned, leaseVars
  <2>4. NoOrphanedGrant' BY <1>2 DEF NoOrphanedGrant, Current, Holds, leaseVars
  <2> QED BY <2>1, <2>2, <2>3, <2>4
<1> QED BY <1>a, <1>1, <1>2

LEMMA HandleAbandonIInv == ASSUME IInv, NEW a \in Attempt, HandleAbandon(a) PROVE IInv'
<1> USE RunLeaseAssumption DEF IInv, HandleAbandon, callerVars
<1>1. TypeOK'
  <2>1. held' \in [Run -> 0 .. generation]
    <3>1. CASE held' = held BY <3>1 DEF TypeOK
    <3>2. CASE held' = [held EXCEPT ![RunOf[a]] = 0]
      <4>1. 0 \in 0 .. generation BY DEF TypeOK
      <4> QED BY <3>2, <4>1 DEF TypeOK
    <3> QED BY <3>1, <3>2
  <2>2. known' \in [Attempt -> {"unknown", "granted", "abandoned"}] BY DEF TypeOK
  <2> QED BY <2>1, <2>2 DEF TypeOK
<1>2. EarnedOnce' /\ AnswersAreEarned' /\ CallerIsEarned' /\ RequestsMatchCaller'
  BY DEF EarnedOnce, AnswersAreEarned, CallerIsEarned, RequestsMatchCaller
<1>3. KnownMatchesEarned' BY DEF KnownMatchesEarned, TypeOK
<1>4. NoOrphanedGrant'
  <2> SUFFICES ASSUME NEW b \in Attempt, known'[b] = "abandoned" PROVE ~Current(b)'
    BY DEF NoOrphanedGrant
  <2>1. CASE b = a
    BY <2>1 DEF NoOrphanedGrant, KnownMatchesEarned, Current, Holds, TypeOK
  <2>2. CASE b # a
    BY <2>2 DEF NoOrphanedGrant, Current, Holds, TypeOK
  <2> QED BY <2>1, <2>2
<1> QED BY <1>1, <1>2, <1>3, <1>4

LEMMA HandleReleaseIInv == ASSUME IInv, NEW a \in Attempt, HandleRelease(a) PROVE IInv'
<1> USE RunLeaseAssumption DEF IInv, HandleRelease, callerVars
<1>1. TypeOK' BY DEF TypeOK
<1>2. EarnedOnce' /\ KnownMatchesEarned' /\ AnswersAreEarned' /\ CallerIsEarned' /\ RequestsMatchCaller'
  BY DEF EarnedOnce, KnownMatchesEarned, AnswersAreEarned, CallerIsEarned, RequestsMatchCaller
<1>3. NoOrphanedGrant' BY DEF NoOrphanedGrant, Current, Holds, TypeOK
<1> QED BY <1>1, <1>2, <1>3

LEMMA SeizeIInv == ASSUME IInv, NEW r \in Run, Seize(r) PROVE IInv'
<1> USE RunLeaseAssumption DEF IInv, Seize, Mint, callerVars
<1>1. TypeOK' BY DEF TypeOK
<1>2. EarnedOnce' /\ KnownMatchesEarned' /\ CallerIsEarned' /\ RequestsMatchCaller'
  BY DEF EarnedOnce, KnownMatchesEarned, CallerIsEarned, RequestsMatchCaller
<1>3. AnswersAreEarned' BY DEF AnswersAreEarned, TypeOK
<1>4. NoOrphanedGrant' BY DEF NoOrphanedGrant, Current, Holds, TypeOK
<1> QED BY <1>1, <1>2, <1>3, <1>4

LEMMA NextIInv == IInv /\ [Next]_vars => IInv'
<1> SUFFICES ASSUME IInv, [Next]_vars PROVE IInv' OBVIOUS
<1>1. ASSUME NEW a \in Attempt, Claim(a) PROVE IInv' BY <1>1, ClaimIInv
<1>2. ASSUME NEW a \in Attempt, Raise(a) PROVE IInv' BY <1>2, RaiseIInv
<1>3. ASSUME NEW a \in Attempt, GiveUp(a) PROVE IInv' BY <1>3, GiveUpIInv
<1>4. ASSUME NEW a \in Attempt, Conclude(a) PROVE IInv' BY <1>4, ConcludeIInv
<1>5. ASSUME NEW a \in Attempt, HandleClaim(a) PROVE IInv' BY <1>5, HandleClaimIInv
<1>6. ASSUME NEW a \in Attempt, HandleAbandon(a) PROVE IInv' BY <1>6, HandleAbandonIInv
<1>7. ASSUME NEW a \in Attempt, HandleRelease(a) PROVE IInv' BY <1>7, HandleReleaseIInv
<1>8. ASSUME NEW a \in Attempt, NEW g \in 0 .. generation, Answered(a, g) PROVE IInv'
  BY <1>8, AnsweredIInv
<1>9. ASSUME NEW r \in Run, Seize(r) PROVE IInv' BY <1>9, SeizeIInv
<1>10. CASE UNCHANGED vars
  BY <1>10 DEF vars, IInv, TypeOK, EarnedOnce, KnownMatchesEarned, AnswersAreEarned,
     CallerIsEarned, RequestsMatchCaller, NoOrphanedGrant, Current, Holds
<1> QED BY <1>1, <1>2, <1>3, <1>4, <1>5, <1>6, <1>7, <1>8, <1>9, <1>10 DEF Next

\* The invariant holds in every reachable state of the lease.
THEOREM Invariance == Spec => []IInv
BY InitIInv, NextIInv, PTL DEF Spec

\* The lease and its callers keep their types, and no answer names a
\* generation that was never minted (claim's answers).
THEOREM TypeCorrect == Spec => []TypeOK
<1>1. IInv => TypeOK BY DEF IInv
<1> QED BY Invariance, <1>1, PTL

\* An abandoned attempt never holds its run (abandon, claim).
THEOREM NoOrphan == Spec => []NoOrphanedGrant
<1>1. IInv => NoOrphanedGrant BY DEF IInv
<1> QED BY Invariance, <1>1, PTL

-----------------------------------------------------------------------------
(* Action properties.                                                      *)

\* Every taker of a run presents a generation above all those granted before
\* (the counter of claim and SEIZE).
THEOREM Fenced == Spec => FencedGenerations
<1> DEFINE Above == \A r \in Run : held'[r] \notin {0, held[r]}
                      => /\ held'[r] > held[r]
                         /\ \A a \in Attempt : earned[a] < held'[r]
<1>1. IInv /\ [Next]_vars => [Above]_vars
  <2> SUFFICES ASSUME IInv, Next, NEW r \in Run, held'[r] \notin {0, held[r]}
               PROVE  held'[r] > held[r] /\ \A a \in Attempt : earned[a] < held'[r]
    OBVIOUS
  <2>1. held'[r] = generation + 1
    <3> USE DEF IInv, TypeOK
    <3>1. ASSUME NEW a \in Attempt, HandleClaim(a) PROVE held'[r] = generation + 1
      BY <3>1, RunLeaseAssumption DEF HandleClaim, Mint, leaseVars
    <3>2. ASSUME NEW s \in Run, Seize(s) PROVE held'[r] = generation + 1
      BY <3>2 DEF Seize, Mint
    <3>3. ASSUME NEW a \in Attempt, HandleAbandon(a) \/ HandleRelease(a) PROVE FALSE
      <4>1. held' \in {held, [held EXCEPT ![RunOf[a]] = 0]}
        BY <3>3 DEF HandleAbandon, HandleRelease
      <4> QED BY <4>1, RunLeaseAssumption
    <3>4. ASSUME NEW a \in Attempt, Claim(a) \/ Raise(a) \/ GiveUp(a) \/ Conclude(a) PROVE FALSE
      BY <3>4 DEF Claim, Raise, GiveUp, AbandonClaim, Conclude, leaseVars
    <3>5. ASSUME NEW a \in Attempt, NEW g \in 0 .. generation, Answered(a, g) PROVE FALSE
      BY <3>5 DEF Answered, leaseVars
    <3> QED BY <3>1, <3>2, <3>3, <3>4, <3>5 DEF Next
  <2> QED BY <2>1 DEF IInv, TypeOK
<1> QED BY <1>1, Invariance, PTL DEF Spec, FencedGenerations

\* A working owner that holds its run keeps it, unless a newer generation
\* takes it: nobody else's release or abandon frees it.
THEOREM Displaced == Spec => DisplacedOnlyByNewer
<1> DEFINE Kept == \A a \in Attempt :
       caller[a] = "owner" /\ caller'[a] = "owner" /\ held[RunOf[a]] = mine[a]
         => held'[RunOf[a]] >= mine[a]
<1>1. IInv /\ [Next]_vars => [Kept]_vars
  <2> SUFFICES ASSUME IInv, Next, NEW a \in Attempt, caller[a] = "owner",
                      caller'[a] = "owner", held[RunOf[a]] = mine[a]
               PROVE  held'[RunOf[a]] >= mine[a]
    OBVIOUS
  <2> USE RunLeaseAssumption DEF IInv, TypeOK
  <2>0. mine[a] # 0 /\ mine[a] = earned[a] /\ RunOf[a] \in Run BY DEF CallerIsEarned
  <2>1. ASSUME NEW b \in Attempt, HandleClaim(b) PROVE held'[RunOf[a]] >= mine[a]
    BY <2>0, <2>1 DEF HandleClaim, Grantable, Mint, leaseVars
  <2>2. ASSUME NEW b \in Attempt, HandleAbandon(b) PROVE held'[RunOf[a]] >= mine[a]
    <3>1. b # a BY <2>2 DEF HandleAbandon, RequestsMatchCaller
    <3>2. CASE Current(b)
      <4>1. RunOf[b] # RunOf[a] BY <2>0, <3>1, <3>2 DEF Current, Holds, EarnedOnce
      <4>2. held' \in {held, [held EXCEPT ![RunOf[b]] = 0]} BY <2>2 DEF HandleAbandon
      <4> QED BY <2>0, <4>1, <4>2
    <3>3. CASE ~Current(b)
      <4>1. held' = held BY <2>2, <3>3 DEF HandleAbandon
      <4> QED BY <2>0, <4>1
    <3> QED BY <3>2, <3>3
  <2>3. ASSUME NEW b \in Attempt, HandleRelease(b) PROVE held'[RunOf[a]] >= mine[a]
    <3>1. caller[b] = "concluded" /\ b # a BY <2>3 DEF HandleRelease, RequestsMatchCaller
    <3>2. mine[b] # mine[a] BY <2>0, <3>1 DEF CallerIsEarned, EarnedOnce
    <3>3. CASE RunOf[b] = RunOf[a]
      BY <2>0, <2>3, <3>2, <3>3 DEF HandleRelease, Holds
    <3>4. CASE RunOf[b] # RunOf[a]
      <4>1. held' \in {held, [held EXCEPT ![RunOf[b]] = 0]} BY <2>3 DEF HandleRelease
      <4> QED BY <2>0, <3>4, <4>1
    <3> QED BY <3>3, <3>4
  <2>4. ASSUME NEW r \in Run, Seize(r) PROVE held'[RunOf[a]] >= mine[a]
    BY <2>0, <2>4 DEF Seize, Mint
  <2>5. ASSUME NEW b \in Attempt, Claim(b) \/ Raise(b) \/ GiveUp(b) \/ Conclude(b)
        PROVE held'[RunOf[a]] >= mine[a]
    BY <2>0, <2>5 DEF Claim, Raise, GiveUp, AbandonClaim, Conclude, leaseVars
  <2>6. ASSUME NEW b \in Attempt, NEW g \in 0 .. generation, Answered(b, g)
        PROVE held'[RunOf[a]] >= mine[a]
    BY <2>0, <2>6 DEF Answered, leaseVars
  <2> QED BY <2>1, <2>2, <2>3, <2>4, <2>5, <2>6 DEF Next
<1> QED BY <1>1, Invariance, PTL DEF Spec, DisplacedOnlyByNewer

-----------------------------------------------------------------------------
(* The lease implements Ownership.  An attempt is the owner while the      *)
(* generation it earned holds its run; a grant is Acquire, a release or an *)
(* abandon that frees the run is Retire, a seizure is Usurp.               *)

phase == [a \in Attempt |->
            IF Current(a) THEN "owner"
            ELSE IF earned[a] # 0 \/ known[a] = "abandoned" THEN "spent" ELSE "fresh"]

rival == {r \in Run : held[r] # 0 /\ \A a \in Attempt : RunOf[a] = r => ~Current(a)}

LEMMA GrantIsAcquire ==
  ASSUME IInv, NEW a \in Attempt, HandleClaim(a), Grantable(a)
  PROVE  /\ phase[a] = "fresh"
         /\ RunOf[a] \notin rival
         /\ \A b \in Attempt : RunOf[b] = RunOf[a] => phase[b] # "owner"
         /\ phase' = [phase EXCEPT ![a] = "owner"]
         /\ rival' = rival
<1> USE RunLeaseAssumption DEF IInv, TypeOK
<1>1. /\ generation' = generation + 1
      /\ held' = [held EXCEPT ![RunOf[a]] = generation + 1]
      /\ known' = [known EXCEPT ![a] = "granted"]
      /\ earned' = [earned EXCEPT ![a] = generation + 1]
  BY DEF HandleClaim, Mint, leaseVars
<1>2. held[RunOf[a]] = 0 /\ known[a] = "unknown" /\ earned[a] = 0
  BY DEF Grantable, KnownMatchesEarned
<1>3. \A b \in Attempt : RunOf[b] = RunOf[a] => ~Current(b) BY <1>2 DEF Current, Holds
<1>4. Current(a)' BY <1>1 DEF Current, Holds
<1>5. \A b \in Attempt \ {a} : Current(b)' <=> Current(b)
  <2> SUFFICES ASSUME NEW b \in Attempt \ {a} PROVE Current(b)' <=> Current(b) OBVIOUS
  <2>1. earned'[b] = earned[b] /\ earned[b] # generation + 1 BY <1>1
  <2>2. CASE RunOf[b] = RunOf[a] BY <1>1, <1>3, <2>1, <2>2 DEF Current, Holds
  <2>3. CASE RunOf[b] # RunOf[a] BY <1>1, <2>1, <2>3 DEF Current, Holds
  <2> QED BY <2>2, <2>3
<1>6. phase[a] = "fresh" BY <1>2, <1>3 DEF phase
<1>7. RunOf[a] \notin rival BY <1>2 DEF rival
<1>8. \A b \in Attempt : RunOf[b] = RunOf[a] => phase[b] # "owner" BY <1>3 DEF phase
<1>9. phase' = [phase EXCEPT ![a] = "owner"]
  <2>1. \A b \in Attempt \ {a} : phase'[b] = phase[b] BY <1>1, <1>5 DEF phase
  <2>2. phase'[a] = "owner" BY <1>4 DEF phase
  <2> QED BY <2>1, <2>2 DEF phase
<1>10. rival' = rival
  <2> SUFFICES ASSUME NEW r \in Run PROVE r \in rival' <=> r \in rival BY DEF rival
  <2>1. CASE r = RunOf[a] BY <1>4, <1>7, <2>1 DEF rival
  <2>2. CASE r # RunOf[a]
    <3>1. held'[r] = held[r] BY <1>1, <2>2
    <3>2. \A b \in Attempt : RunOf[b] = r => (Current(b)' <=> Current(b)) BY <1>5, <2>2
    <3> QED BY <3>1, <3>2 DEF rival
  <2> QED BY <2>1, <2>2
<1> QED BY <1>6, <1>7, <1>8, <1>9, <1>10

\* Freeing a run that an attempt holds spends exactly that attempt.
LEMMA FreeingIsRetire ==
  ASSUME IInv, NEW a \in Attempt, Current(a), known' \in {known, [known EXCEPT ![a] = "abandoned"]},
         held' = [held EXCEPT ![RunOf[a]] = 0], UNCHANGED earned
  PROVE  /\ phase[a] # "spent"
         /\ phase' = [phase EXCEPT ![a] = "spent"]
         /\ rival' = rival
<1> USE RunLeaseAssumption DEF IInv, TypeOK
<1>1. ~Current(a)' BY DEF Current, Holds
<1>2. \A b \in Attempt \ {a} : Current(b)' <=> Current(b)
  <2> SUFFICES ASSUME NEW b \in Attempt \ {a} PROVE Current(b)' <=> Current(b) OBVIOUS
  <2>1. CASE RunOf[b] = RunOf[a] BY <2>1 DEF Current, Holds, EarnedOnce
  <2>2. CASE RunOf[b] # RunOf[a] BY <2>2 DEF Current, Holds
  <2> QED BY <2>1, <2>2
<1>3. phase' = [phase EXCEPT ![a] = "spent"]
  <2>1. \A b \in Attempt \ {a} : phase'[b] = phase[b]
    <3> SUFFICES ASSUME NEW b \in Attempt \ {a} PROVE phase'[b] = phase[b] OBVIOUS
    <3>1. known'[b] = known[b] OBVIOUS
    <3> QED BY <1>2, <3>1 DEF phase
  <2>2. phase'[a] = "spent" BY <1>1 DEF phase, Current
  <2> QED BY <2>1, <2>2 DEF phase
<1>4. rival' = rival
  <2> SUFFICES ASSUME NEW r \in Run PROVE r \in rival' <=> r \in rival BY DEF rival
  <2>1. CASE r = RunOf[a] BY <2>1 DEF rival
  <2>2. CASE r # RunOf[a]
    <3>1. held'[r] = held[r] BY <2>2
    <3>2. \A b \in Attempt : RunOf[b] = r => (Current(b)' <=> Current(b)) BY <1>2, <2>2
    <3> QED BY <3>1, <3>2 DEF rival
  <2> QED BY <2>1, <2>2
<1> QED BY <1>3, <1>4 DEF phase

LEMMA SeizureIsUsurp ==
  ASSUME IInv, NEW r \in Run, Seize(r)
  PROVE  /\ rival' = rival \union {r}
         /\ phase' = [a \in Attempt |-> IF RunOf[a] = r /\ phase[a] = "owner"
                                        THEN "spent" ELSE phase[a]]
<1> USE RunLeaseAssumption DEF IInv, TypeOK
<1>1. held' = [held EXCEPT ![r] = generation + 1] /\ earned' = earned /\ known' = known
  BY DEF Seize, Mint
<1>2. \A a \in Attempt : RunOf[a] = r => ~Current(a)' BY <1>1 DEF Current, Holds
<1>3. \A a \in Attempt : RunOf[a] # r => (Current(a)' <=> Current(a)) BY <1>1 DEF Current, Holds
<1>4. rival' = rival \union {r}
  <2> SUFFICES ASSUME NEW s \in Run PROVE s \in rival' <=> s \in rival \/ s = r BY DEF rival
  <2>1. CASE s = r BY <1>1, <1>2, <2>1 DEF rival
  <2>2. CASE s # r BY <1>1, <1>3, <2>2 DEF rival
  <2> QED BY <2>1, <2>2
<1>5. ASSUME NEW a \in Attempt
      PROVE phase'[a] = IF RunOf[a] = r /\ phase[a] = "owner" THEN "spent" ELSE phase[a]
  <2>1. CASE RunOf[a] = r
    <3>1. phase'[a] = IF earned[a] # 0 \/ known[a] = "abandoned" THEN "spent" ELSE "fresh"
      BY <1>1, <1>2, <2>1 DEF phase
    <3>2. CASE Current(a) BY <2>1, <3>1, <3>2 DEF phase, Current
    <3>3. CASE ~Current(a) BY <2>1, <3>1, <3>3 DEF phase
    <3> QED BY <3>2, <3>3
  <2>2. CASE RunOf[a] # r BY <1>1, <1>3, <2>2 DEF phase
  <2> QED BY <2>1, <2>2
<1> QED BY <1>4, <1>5 DEF phase

LEMMA StepImplements == IInv /\ [Next]_vars => [Promise!Next]_<<phase, rival>>
<1> SUFFICES ASSUME IInv, [Next]_vars
             PROVE  Promise!Next \/ UNCHANGED <<phase, rival>>
  OBVIOUS
<1>0. ASSUME UNCHANGED <<held, known, earned>> PROVE UNCHANGED <<phase, rival>>
  BY <1>0 DEF phase, rival, Current, Holds
<1>1. ASSUME NEW a \in Attempt, HandleClaim(a) PROVE Promise!Next \/ UNCHANGED <<phase, rival>>
  <2>1. CASE Grantable(a)
    <3>1. Promise!Acquire(a)
      BY <1>1, <2>1, GrantIsAcquire DEF Promise!Acquire, Promise!Owners, phase, rival
    <3> QED BY <3>1 DEF Promise!Next
  <2>2. CASE ~Grantable(a) BY <1>0, <1>1, <2>2 DEF HandleClaim, leaseVars
  <2> QED BY <2>1, <2>2
<1>2. ASSUME NEW a \in Attempt, HandleAbandon(a) PROVE Promise!Next \/ UNCHANGED <<phase, rival>>
  <2> USE DEF HandleAbandon
  <2>1. CASE Current(a) /\ known[a] = "granted"
    <3>1. Promise!Retire(a)
      BY <1>2, <2>1, FreeingIsRetire DEF Promise!Retire, phase, rival
    <3> QED BY <3>1 DEF Promise!Next
  <2>2. CASE ~(Current(a) /\ known[a] = "granted")
    <3>1. ~Current(a)
      BY <2>2 DEF IInv, TypeOK, KnownMatchesEarned, NoOrphanedGrant, Current
    <3>2. held' = held /\ earned' = earned /\ known' = [known EXCEPT ![a] = "abandoned"]
      BY <1>2, <2>2
    <3>3. \A b \in Attempt : Current(b)' <=> Current(b) BY <3>2 DEF Current, Holds
    <3>4. rival' = rival BY <3>2, <3>3 DEF rival
    <3>5. phase' = [phase EXCEPT ![a] = "spent"]
      <4>1. phase'[a] = "spent" BY <3>1, <3>2, <3>3 DEF phase, IInv, TypeOK
      <4>2. \A b \in Attempt \ {a} : phase'[b] = phase[b]
        BY <3>2, <3>3 DEF phase, IInv, TypeOK
      <4> QED BY <4>1, <4>2 DEF phase
    <3>6. CASE phase[a] = "spent"
      <4>1. phase' = phase BY <3>5, <3>6 DEF phase
      <4> QED BY <3>4, <4>1
    <3>7. CASE phase[a] # "spent"
      <4>1. Promise!Retire(a) BY <3>4, <3>5, <3>7 DEF Promise!Retire, phase, rival
      <4> QED BY <4>1 DEF Promise!Next
    <3> QED BY <3>6, <3>7
  <2> QED BY <2>1, <2>2
<1>3. ASSUME NEW a \in Attempt, HandleRelease(a) PROVE Promise!Next \/ UNCHANGED <<phase, rival>>
  <2>1. mine[a] # 0 /\ mine[a] = earned[a]
    BY <1>3 DEF HandleRelease, IInv, RequestsMatchCaller, CallerIsEarned
  <2>2. CASE Current(a)
    <3>1. Promise!Retire(a)
      BY <1>3, <2>1, <2>2, FreeingIsRetire DEF HandleRelease, Current, Promise!Retire, phase, rival
    <3> QED BY <3>1 DEF Promise!Next
  <2>3. CASE ~Current(a) BY <1>0, <1>3, <2>1, <2>3 DEF HandleRelease, Current
  <2> QED BY <2>2, <2>3
<1>4. ASSUME NEW r \in Run, Seize(r) PROVE Promise!Next \/ UNCHANGED <<phase, rival>>
  <2>1. Promise!Usurp(r)
    BY <1>4, SeizureIsUsurp DEF Promise!Usurp, Promise!Owners, phase, rival
  <2> QED BY <2>1 DEF Promise!Next
<1>5. ASSUME NEW a \in Attempt, Claim(a) \/ Raise(a) \/ GiveUp(a) \/ Conclude(a)
      PROVE UNCHANGED <<phase, rival>>
  BY <1>0, <1>5 DEF Claim, Raise, GiveUp, AbandonClaim, Conclude, leaseVars
<1>6. ASSUME NEW a \in Attempt, NEW g \in 0 .. generation, Answered(a, g)
      PROVE UNCHANGED <<phase, rival>>
  BY <1>0, <1>6 DEF Answered, leaseVars
<1>7. CASE UNCHANGED vars BY <1>0, <1>7 DEF vars
<1> QED BY <1>1, <1>2, <1>3, <1>4, <1>5, <1>6, <1>7 DEF Next

\* The lease of in-memory.ts, with every caller and message interleaving,
\* implements exclusive ownership during one interval per attempt.
THEOREM ImplementsOwnership == Spec => OwnershipSpec
<1>1. Init => Promise!Init
  BY RunLeaseAssumption DEF Init, Promise!Init, Current
<1>2. IInv /\ [Next]_vars => [Promise!Next]_<<phase, rival>> BY StepImplements
<1> QED BY <1>1, <1>2, Invariance, PTL DEF Spec, OwnershipSpec, Promise!Spec, phase, rival

-----------------------------------------------------------------------------
(* What the outbox of an attempt owes to what the attempt did.             *)

\* m is what attempt g did: its facts, numbered in order of occurrence.
Chronicle(g, m) ==
  /\ m \in Seq(Facts)
  /\ \A i \in 1 .. Len(m) : m[i].gen = g /\ m[i].n = i

EntryOf(g, m, k) == [gen |-> g, id |-> k, fact |-> m[k]]

\* Of the first `given` facts, the last Len(q) are pending, in order.
Pending(g, m, given, q) ==
  /\ given \in Nat /\ given <= Len(m)
  /\ q \in Seq(JournalEntry) /\ Len(q) <= given
  /\ \A i \in 1 .. Len(q) : q[i] = EntryOf(g, m, given - Len(q) + i)

\* What follows them is what the machine keeps undrained, transitions first.
Outstanding(m, given, t, j) ==
  /\ t \in Seq(Facts) /\ j \in Seq(Facts)
  /\ given + Len(t) + Len(j) = Len(m)
  /\ \A i \in 1 .. Len(t) : t[i] = m[given + i]
  /\ \A i \in 1 .. Len(j) : j[i] = m[given + Len(t) + i]

\* Every entry ever sent is the one pending first, or an earlier one.
SentBy(g, m, given, first, entries) ==
  \A e \in entries : e.gen = g =>
    /\ e.id \in 1 .. given /\ e.id <= first
    /\ e = EntryOf(g, m, e.id)

\* The rows of g are the first r things it did, in order; those that went
\* through the outbox carry their identity.
Prefix(g, m, given, journal, r) ==
  /\ \A i \in 1 .. Len(journal) : journal[i].gen = g =>
       /\ journal[i].fact.n \in 1 .. r
       /\ journal[i].fact = m[journal[i].fact.n]
       /\ journal[i].fact.n <= given => journal[i].id = journal[i].fact.n
       /\ journal[i].fact.n > given => journal[i].id = 0
  /\ \A i, j \in 1 .. Len(journal) :
       i < j /\ journal[i].gen = g /\ journal[j].gen = g => journal[i].fact.n < journal[j].fact.n
  /\ \A k \in 1 .. r : \E i \in 1 .. Len(journal) : journal[i].gen = g /\ journal[i].fact.n = k

SameUpTo(n, m, m2) == \A k \in 1 .. n : m2[k] = m[k]

\* The rows y of g are for the facts from r + 1 on.
Following(g, m, given, r, y) ==
  /\ y \in Seq(JournalEntry)
  /\ \A i \in 1 .. Len(y) :
       /\ y[i].gen = g /\ y[i].fact = m[r + i] /\ y[i].fact.n = r + i
       /\ r + i <= given => y[i].id = r + i
       /\ r + i > given => y[i].id = 0

\* The numbers of its facts that a new stretch of facts continues.
Continues(g, m, x) ==
  /\ x \in Seq(Facts)
  /\ \A i \in 1 .. Len(x) : x[i].gen = g /\ x[i].n = Len(m) + i

LEMMA FactFields ==
  ASSUME NEW f \in Facts
  PROVE  f.gen \in Gen /\ f.n \in Nat \ {0}
BY DEF Facts

LEMMA ChronicleGrows ==
  ASSUME NEW g \in Gen, NEW m, NEW x, Chronicle(g, m), Continues(g, m, x)
  PROVE  /\ Chronicle(g, m \o x)
         /\ Len(m \o x) = Len(m) + Len(x)
         /\ \A i \in 1 .. Len(m) : (m \o x)[i] = m[i]
         /\ \A i \in 1 .. Len(x) : (m \o x)[Len(m) + i] = x[i]
<1>1. m \in Seq(Facts) /\ x \in Seq(Facts) BY DEF Chronicle, Continues
<1>2. /\ m \o x \in Seq(Facts) /\ Len(m \o x) = Len(m) + Len(x)
      /\ \A i \in 1 .. Len(m) + Len(x) : (m \o x)[i] = IF i <= Len(m) THEN m[i] ELSE x[i - Len(m)]
  BY <1>1, ConcatProperties
<1>3. Len(m) \in Nat /\ Len(x) \in Nat BY <1>1, LenProperties
<1>4. \A i \in 1 .. Len(m) : (m \o x)[i] = m[i] BY <1>2, <1>3
<1>5. \A i \in 1 .. Len(x) : (m \o x)[Len(m) + i] = x[i] BY <1>2, <1>3
<1>6. ASSUME NEW i \in 1 .. Len(m \o x) PROVE (m \o x)[i].gen = g /\ (m \o x)[i].n = i
  <2>1. CASE i <= Len(m) BY <2>1, <1>2, <1>3 DEF Chronicle
  <2>2. CASE i > Len(m)
    <3>1. i - Len(m) \in 1 .. Len(x) BY <2>2, <1>2, <1>3
    <3>2. (m \o x)[i] = x[i - Len(m)] BY <2>2, <1>2, <1>3
    <3> QED BY <3>1, <3>2, <1>3 DEF Continues
  <2> QED BY <2>1, <2>2, <1>2, <1>3
<1> QED BY <1>2, <1>4, <1>5, <1>6 DEF Chronicle

\* A longer chronicle does not change what is pending.
LEMMA PendingGrows ==
  ASSUME NEW g \in Gen, NEW m, NEW x, NEW given, NEW q,
         Chronicle(g, m), Continues(g, m, x), Pending(g, m, given, q)
  PROVE  Pending(g, m \o x, given, q)
<1>1. /\ Len(m \o x) = Len(m) + Len(x)
      /\ \A i \in 1 .. Len(m) : (m \o x)[i] = m[i]
  BY ChronicleGrows
<1>2. Len(m) \in Nat /\ Len(x) \in Nat /\ Len(q) \in Nat
  BY LenProperties DEF Chronicle, Continues, Pending
<1> QED BY <1>1, <1>2 DEF Pending, EntryOf

\* The machine recorded transitions x, and no rejection precedes them.
LEMMA TransitionsGrow ==
  ASSUME NEW g \in Gen, NEW m, NEW x, NEW given, NEW t,
         Chronicle(g, m), Continues(g, m, x), given \in Nat, Outstanding(m, given, t, <<>>)
  PROVE  Outstanding(m \o x, given, t \o x, <<>>)
<1>1. /\ Len(m \o x) = Len(m) + Len(x)
      /\ \A i \in 1 .. Len(m) : (m \o x)[i] = m[i]
      /\ \A i \in 1 .. Len(x) : (m \o x)[Len(m) + i] = x[i]
  BY ChronicleGrows
<1>2. t \in Seq(Facts) /\ x \in Seq(Facts) BY DEF Outstanding, Continues
<1>3. Len(m) \in Nat /\ Len(x) \in Nat /\ Len(t) \in Nat
  BY <1>2, LenProperties DEF Chronicle
<1>4. given + Len(t) = Len(m) BY <1>3 DEF Outstanding
<1>5. \A i \in 1 .. Len(t) : (m \o x)[given + i] = t[i]
  BY <1>1, <1>3, <1>4 DEF Outstanding
<1>6. /\ t \o x \in Seq(Facts) /\ Len(t \o x) = Len(t) + Len(x)
      /\ \A i \in 1 .. Len(t) + Len(x) : (t \o x)[i] = IF i <= Len(t) THEN t[i] ELSE x[i - Len(t)]
  BY <1>2, ConcatProperties
<1>7. ASSUME NEW i \in 1 .. Len(t \o x) PROVE (t \o x)[i] = (m \o x)[given + i]
  <2>0. i \in 1 .. Len(t) + Len(x) BY <1>6
  <2>1. CASE i <= Len(t)
    <3>1. i \in 1 .. Len(t) BY <2>0, <2>1, <1>3
    <3>2. (t \o x)[i] = t[i] BY <2>0, <2>1, <1>6
    <3> QED BY <3>1, <3>2, <1>5
  <2>2. CASE ~(i <= Len(t))
    <3>1. i - Len(t) \in 1 .. Len(x) BY <2>0, <2>2, <1>3
    <3>2. Len(m) + (i - Len(t)) = given + i BY <1>4, <1>3, <2>0
    <3>3. (t \o x)[i] = x[i - Len(t)] BY <2>0, <2>2, <1>6
    <3> QED BY <3>1, <3>2, <3>3, <1>1
  <2> QED BY <2>1, <2>2
<1>8. given + Len(t \o x) + Len(<<>>) = Len(m \o x)
  <2>1. Len(m \o x) = Len(m) + Len(x) /\ Len(t \o x) = Len(t) + Len(x) BY <1>1, <1>6
  <2> QED BY <2>1, <1>3, <1>4
<1> QED BY <1>6, <1>7, <1>8 DEF Outstanding

\* The machine recorded rejections x.
LEMMA RejectionsGrow ==
  ASSUME NEW g \in Gen, NEW m, NEW x, NEW given, NEW t, NEW j,
         Chronicle(g, m), Continues(g, m, x), given \in Nat, Outstanding(m, given, t, j)
  PROVE  Outstanding(m \o x, given, t, j \o x)
<1>1. /\ Len(m \o x) = Len(m) + Len(x)
      /\ \A i \in 1 .. Len(m) : (m \o x)[i] = m[i]
      /\ \A i \in 1 .. Len(x) : (m \o x)[Len(m) + i] = x[i]
  BY ChronicleGrows
<1>2. t \in Seq(Facts) /\ j \in Seq(Facts) /\ x \in Seq(Facts) BY DEF Outstanding, Continues
<1>3. Len(m) \in Nat /\ Len(x) \in Nat /\ Len(t) \in Nat /\ Len(j) \in Nat
  BY <1>2, LenProperties DEF Chronicle
<1>4. given + Len(t) + Len(j) = Len(m) BY DEF Outstanding
<1>5. /\ \A i \in 1 .. Len(t) : (m \o x)[given + i] = t[i]
      /\ \A i \in 1 .. Len(j) : (m \o x)[given + Len(t) + i] = j[i]
  BY <1>1, <1>3, <1>4 DEF Outstanding
<1>6. /\ j \o x \in Seq(Facts) /\ Len(j \o x) = Len(j) + Len(x)
      /\ \A i \in 1 .. Len(j) + Len(x) : (j \o x)[i] = IF i <= Len(j) THEN j[i] ELSE x[i - Len(j)]
  BY <1>2, ConcatProperties
<1>7. ASSUME NEW i \in 1 .. Len(j \o x) PROVE (j \o x)[i] = (m \o x)[given + Len(t) + i]
  <2>0. i \in 1 .. Len(j) + Len(x) BY <1>6
  <2>1. CASE i <= Len(j)
    <3>1. i \in 1 .. Len(j) BY <2>0, <2>1, <1>3
    <3>2. (j \o x)[i] = j[i] BY <2>0, <2>1, <1>6
    <3> QED BY <3>1, <3>2, <1>5
  <2>2. CASE ~(i <= Len(j))
    <3>1. i - Len(j) \in 1 .. Len(x) BY <2>0, <2>2, <1>3
    <3>2. Len(m) + (i - Len(j)) = given + Len(t) + i BY <1>4, <1>3, <2>0
    <3>3. (j \o x)[i] = x[i - Len(j)] BY <2>0, <2>2, <1>6
    <3> QED BY <3>1, <3>2, <3>3, <1>1
  <2> QED BY <2>1, <2>2
<1>8. given + Len(t) + Len(j \o x) = Len(m \o x)
  <2>1. Len(m \o x) = Len(m) + Len(x) /\ Len(j \o x) = Len(j) + Len(x) BY <1>1, <1>6
  <2> QED BY <2>1, <1>3, <1>4
<1> QED BY <1>2, <1>5, <1>6, <1>7, <1>8 DEF Outstanding

-----------------------------------------------------------------------------
(* Draining.                                                               *)

\* The entries that draining a stretch f mints.
Minted(g, given, f) == [i \in 1 .. Len(f) |-> [gen |-> g, id |-> given + i, fact |-> f[i]]]

\* The entries for the stretch f of the chronicle that follows what was given.
LEMMA PendingExtends ==
  ASSUME NEW g \in Gen, NEW m, NEW given, NEW q, NEW f, NEW new,
         Chronicle(g, m), Pending(g, m, given, q),
         f \in Seq(Facts), given + Len(f) <= Len(m),
         \A i \in 1 .. Len(f) : f[i] = m[given + i],
         new = Minted(g, given, f)
  PROVE  /\ Pending(g, m, given + Len(new), q \o new)
         /\ Len(new) = Len(f)
         /\ (given + Len(new)) - Len(q \o new) = given - Len(q)
         /\ q \o new = <<>> => q = <<>> /\ f = <<>>
<1>1. Len(f) \in Nat BY LenProperties
<1>2. given \in Nat /\ q \in Seq(JournalEntry) /\ Len(q) \in Nat /\ Len(q) <= given
  BY LenProperties DEF Pending
<1>3. Len(m) \in Nat BY LenProperties DEF Chronicle
<1>4. \A i \in 1 .. Len(f) : [gen |-> g, id |-> given + i, fact |-> f[i]] \in JournalEntry
  BY <1>1, <1>2, ElementOfSeq DEF JournalEntry
<1>5. new \in Seq(JournalEntry) /\ Len(new) = Len(f)
  <2>1. new \in [1 .. Len(f) -> JournalEntry] BY <1>4 DEF Minted
  <2>2. new \in Seq(JournalEntry) BY <2>1, <1>1, SeqDef
  <2>3. DOMAIN new = 1 .. Len(f) BY <2>1
  <2>4. DOMAIN new = 1 .. Len(new) /\ Len(new) \in Nat BY <2>2, LenProperties
  <2>5. 1 .. Len(f) = 1 .. Len(new) BY <2>3, <2>4
  <2>6. Len(new) <= Len(f) BY <2>4, <2>5, <1>1
  <2>7. Len(f) <= Len(new) BY <2>4, <2>5, <1>1
  <2>8. Len(new) = Len(f) BY <2>4, <2>6, <2>7, <1>1
  <2> QED BY <2>2, <2>8
<1>6. /\ q \o new \in Seq(JournalEntry) /\ Len(q \o new) = Len(q) + Len(new)
      /\ \A i \in 1 .. Len(q) + Len(new) : (q \o new)[i] = IF i <= Len(q) THEN q[i] ELSE new[i - Len(q)]
  <2>1. q \in Seq(JournalEntry) /\ new \in Seq(JournalEntry) BY <1>2, <1>5
  <2> QED BY <2>1, ConcatProperties
<1>7. ASSUME NEW i \in 1 .. Len(q \o new)
      PROVE  (q \o new)[i] = EntryOf(g, m, (given + Len(new)) - Len(q \o new) + i)
  <2>0. i \in 1 .. Len(q) + Len(new) BY <1>6
  <2>a. (given + Len(new)) - Len(q \o new) + i = given - Len(q) + i BY <2>0, <1>2, <1>5, <1>6, <1>1
  <2>1. CASE i <= Len(q)
    <3>1. i \in 1 .. Len(q) BY <2>0, <2>1, <1>2
    <3>2. (q \o new)[i] = q[i] BY <2>0, <2>1, <1>6
    <3> QED BY <3>1, <3>2, <2>a DEF Pending
  <2>2. CASE ~(i <= Len(q))
    <3>1. i - Len(q) \in 1 .. Len(f) BY <2>0, <2>2, <1>2, <1>5, <1>1
    <3>2. given + (i - Len(q)) = given - Len(q) + i BY <2>0, <1>2
    <3>3. (q \o new)[i] = new[i - Len(q)] BY <2>0, <2>2, <1>6
    <3>4. new[i - Len(q)] = [gen |-> g, id |-> given + (i - Len(q)), fact |-> m[given + (i - Len(q))]]
      BY <3>1 DEF Minted
    <3> QED BY <3>2, <3>3, <3>4, <2>a DEF EntryOf
  <2> QED BY <2>1, <2>2
<1>8. given + Len(new) \in Nat /\ given + Len(new) <= Len(m) /\ Len(q \o new) <= given + Len(new)
  BY <1>1, <1>2, <1>3, <1>5, <1>6
<1>9. (given + Len(new)) - Len(q \o new) = given - Len(q) BY <1>1, <1>2, <1>5, <1>6
<1>10. ASSUME q \o new = <<>> PROVE q = <<>> /\ f = <<>>
  <2>1. Len(q) = 0 /\ Len(f) = 0 BY <1>10, <1>6, <1>5, <1>2, <1>1
  <2> QED BY <2>1, <1>2, EmptySeq
<1> QED BY <1>5, <1>6, <1>7, <1>8, <1>9, <1>10 DEF Pending

\* The stretch that is outstanding.
LEMMA OutstandingStretch ==
  ASSUME NEW m, NEW given \in Nat, NEW t, NEW j, Outstanding(m, given, t, j)
  PROVE  /\ t \o j \in Seq(Facts)
         /\ given + Len(t \o j) = Len(m)
         /\ \A i \in 1 .. Len(t \o j) : (t \o j)[i] = m[given + i]
<1>1. t \in Seq(Facts) /\ j \in Seq(Facts) BY DEF Outstanding
<1>2. Len(t) \in Nat /\ Len(j) \in Nat BY <1>1, LenProperties
<1>3. /\ t \o j \in Seq(Facts) /\ Len(t \o j) = Len(t) + Len(j)
      /\ \A i \in 1 .. Len(t) + Len(j) : (t \o j)[i] = IF i <= Len(t) THEN t[i] ELSE j[i - Len(t)]
  BY <1>1, ConcatProperties
<1>4. given + Len(t \o j) = Len(m) BY <1>2, <1>3 DEF Outstanding
<1>5. ASSUME NEW i \in 1 .. Len(t \o j) PROVE (t \o j)[i] = m[given + i]
  <2>0. i \in 1 .. Len(t) + Len(j) BY <1>3
  <2>1. CASE i <= Len(t)
    <3>1. i \in 1 .. Len(t) BY <2>0, <2>1, <1>2
    <3> QED BY <2>0, <2>1, <3>1, <1>3 DEF Outstanding
  <2>2. CASE ~(i <= Len(t))
    <3>1. i - Len(t) \in 1 .. Len(j) BY <2>0, <2>2, <1>2
    <3>2. given + Len(t) + (i - Len(t)) = given + i BY <2>0, <1>2
    <3>3. (t \o j)[i] = j[i - Len(t)] BY <2>0, <2>2, <1>3
    <3> QED BY <3>1, <3>2, <3>3 DEF Outstanding
  <2> QED BY <2>1, <2>2
<1> QED BY <1>3, <1>4, <1>5

-----------------------------------------------------------------------------
(* What was sent and what landed, as the chronicle and the outbox grow.    *)

LEMMA SentGrows ==
  ASSUME NEW g, NEW m, NEW m2, NEW given \in Nat, NEW given2 \in Nat,
         NEW first \in Nat, NEW first2 \in Nat, NEW entries,
         SentBy(g, m, given, first, entries), given <= given2, first <= first2,
         SameUpTo(given, m, m2),
         entries \subseteq JournalEntry
  PROVE  SentBy(g, m2, given2, first2, entries)
<1> SUFFICES ASSUME NEW e \in entries, e.gen = g
             PROVE  /\ e.id \in 1 .. given2 /\ e.id <= first2
                    /\ e = EntryOf(g, m2, e.id)
  BY DEF SentBy
<1>1. e.id \in 1 .. given /\ e.id <= first /\ e = EntryOf(g, m, e.id) BY DEF SentBy
<1>2. e.id \in 1 .. given2 /\ e.id <= first2 BY <1>1
<1>3. EntryOf(g, m2, e.id) = EntryOf(g, m, e.id) BY <1>1 DEF EntryOf, SameUpTo
<1> QED BY <1>1, <1>2, <1>3

\* Appends that reached the journal go on belonging to the chronicle.
LEMMA PrefixGrows ==
  ASSUME NEW g, NEW m, NEW m2, NEW given \in Nat, NEW given2 \in Nat,
         NEW journal, NEW r \in Nat,
         Prefix(g, m, given, journal, r), r <= given, given <= given2,
         SameUpTo(r, m, m2)
  PROVE  Prefix(g, m2, given2, journal, r)
<1>1. ASSUME NEW i \in 1 .. Len(journal), journal[i].gen = g
      PROVE  /\ journal[i].fact.n \in 1 .. r
             /\ journal[i].fact = m2[journal[i].fact.n]
             /\ journal[i].fact.n <= given2 => journal[i].id = journal[i].fact.n
             /\ journal[i].fact.n > given2 => journal[i].id = 0
  <2>1. /\ journal[i].fact.n \in 1 .. r
        /\ journal[i].fact = m[journal[i].fact.n]
        /\ journal[i].fact.n <= given => journal[i].id = journal[i].fact.n
    BY <1>1 DEF Prefix
  <2>2. m2[journal[i].fact.n] = m[journal[i].fact.n] BY <2>1 DEF SameUpTo
  <2> QED BY <2>1, <2>2
<1>2. /\ \A i, j \in 1 .. Len(journal) :
           i < j /\ journal[i].gen = g /\ journal[j].gen = g => journal[i].fact.n < journal[j].fact.n
      /\ \A k \in 1 .. r : \E i \in 1 .. Len(journal) : journal[i].gen = g /\ journal[i].fact.n = k
  BY DEF Prefix
<1> QED BY <1>1, <1>2 DEF Prefix

\* The journal gained the rows y of other attempts.
LEMMA PrefixOfOthers ==
  ASSUME NEW h, NEW m, NEW given, NEW journal \in Seq(JournalEntry), NEW y \in Seq(JournalEntry),
         NEW r, Prefix(h, m, given, journal, r), \A i \in 1 .. Len(y) : y[i].gen # h
  PROVE  Prefix(h, m, given, journal \o y, r)
<1>1. Len(journal) \in Nat /\ Len(y) \in Nat BY LenProperties
<1>2. /\ Len(journal \o y) = Len(journal) + Len(y)
      /\ \A i \in 1 .. Len(journal) + Len(y) :
           (journal \o y)[i] = IF i <= Len(journal) THEN journal[i] ELSE y[i - Len(journal)]
  BY ConcatProperties
<1>3. \A i \in 1 .. Len(journal) : (journal \o y)[i] = journal[i] BY <1>1, <1>2
<1>4. ASSUME NEW i \in 1 .. Len(journal \o y), (journal \o y)[i].gen = h PROVE i \in 1 .. Len(journal)
  <2>1. i \in 1 .. Len(journal) + Len(y) BY <1>2
  <2>2. CASE ~(i <= Len(journal))
    <3>1. i - Len(journal) \in 1 .. Len(y) BY <2>1, <2>2, <1>1
    <3> QED BY <3>1, <2>1, <2>2, <1>2, <1>4
  <2> QED BY <2>1, <2>2, <1>1
<1>5. 1 .. Len(journal) \subseteq 1 .. Len(journal \o y) BY <1>1, <1>2
<1>6. \A i \in 1 .. Len(journal \o y) : (journal \o y)[i].gen = h =>
         /\ (journal \o y)[i].fact.n \in 1 .. r
         /\ (journal \o y)[i].fact = m[(journal \o y)[i].fact.n]
         /\ (journal \o y)[i].fact.n <= given => (journal \o y)[i].id = (journal \o y)[i].fact.n
         /\ (journal \o y)[i].fact.n > given => (journal \o y)[i].id = 0
  BY <1>3, <1>4 DEF Prefix
<1>7. \A i, j \in 1 .. Len(journal \o y) :
         i < j /\ (journal \o y)[i].gen = h /\ (journal \o y)[j].gen = h
           => (journal \o y)[i].fact.n < (journal \o y)[j].fact.n
  BY <1>3, <1>4 DEF Prefix
<1>8. \A k \in 1 .. r : \E i \in 1 .. Len(journal \o y) :
         (journal \o y)[i].gen = h /\ (journal \o y)[i].fact.n = k
  <2> SUFFICES ASSUME NEW k \in 1 .. r
               PROVE  \E i \in 1 .. Len(journal \o y) :
                        (journal \o y)[i].gen = h /\ (journal \o y)[i].fact.n = k
    OBVIOUS
  <2>1. PICK i \in 1 .. Len(journal) : journal[i].gen = h /\ journal[i].fact.n = k BY DEF Prefix
  <2> QED BY <2>1, <1>3, <1>5
<1> QED BY <1>6, <1>7, <1>8 DEF Prefix

\* The journal gained the rows y of g, for the facts that follow.
LEMMA PrefixExtends ==
  ASSUME NEW g, NEW m, NEW m2, NEW given \in Nat, NEW r \in Nat,
         NEW journal \in Seq(JournalEntry), NEW y,
         Prefix(g, m, given, journal, r), SameUpTo(r, m, m2), Following(g, m2, given, r, y)
  PROVE  Prefix(g, m2, given, journal \o y, r + Len(y))
<1>0. y \in Seq(JournalEntry) BY DEF Following
<1>1. Len(journal) \in Nat /\ Len(y) \in Nat BY <1>0, LenProperties
<1>2. /\ Len(journal \o y) = Len(journal) + Len(y)
      /\ \A i \in 1 .. Len(journal) + Len(y) :
           (journal \o y)[i] = IF i <= Len(journal) THEN journal[i] ELSE y[i - Len(journal)]
  BY <1>0, ConcatProperties
<1>3. \A i \in 1 .. Len(journal) : (journal \o y)[i] = journal[i] BY <1>1, <1>2
<1>4. ASSUME NEW i \in 1 .. Len(journal \o y), ~(i <= Len(journal))
      PROVE  /\ i - Len(journal) \in 1 .. Len(y)
             /\ (journal \o y)[i] = y[i - Len(journal)]
  BY <1>1, <1>2, <1>4
<1>5. ASSUME NEW i \in 1 .. Len(journal \o y), i <= Len(journal)
      PROVE  i \in 1 .. Len(journal) /\ (journal \o y)[i] = journal[i]
  BY <1>1, <1>2, <1>5
<1>6. ASSUME NEW i \in 1 .. Len(journal \o y), (journal \o y)[i].gen = g
      PROVE  /\ (journal \o y)[i].fact.n \in 1 .. r + Len(y)
             /\ (journal \o y)[i].fact = m2[(journal \o y)[i].fact.n]
             /\ (journal \o y)[i].fact.n <= given => (journal \o y)[i].id = (journal \o y)[i].fact.n
             /\ (journal \o y)[i].fact.n > given => (journal \o y)[i].id = 0
  <2>1. CASE i <= Len(journal)
    <3>1. i \in 1 .. Len(journal) /\ (journal \o y)[i] = journal[i] BY <2>1, <1>5
    <3>2. /\ journal[i].fact.n \in 1 .. r
          /\ journal[i].fact = m[journal[i].fact.n]
          /\ journal[i].fact.n <= given => journal[i].id = journal[i].fact.n
          /\ journal[i].fact.n > given => journal[i].id = 0
      BY <3>1, <1>6 DEF Prefix
    <3>3. m2[journal[i].fact.n] = m[journal[i].fact.n] BY <3>2 DEF SameUpTo
    <3> QED BY <3>1, <3>2, <3>3, <1>1
  <2>2. CASE ~(i <= Len(journal))
    <3> DEFINE l == i - Len(journal)
    <3>1. l \in 1 .. Len(y) /\ (journal \o y)[i] = y[l] BY <2>2, <1>4
    <3>2. /\ y[l].fact = m2[r + l] /\ y[l].fact.n = r + l
          /\ r + l <= given => y[l].id = r + l
          /\ r + l > given => y[l].id = 0
      BY <3>1 DEF Following
    <3>3. r + l \in 1 .. r + Len(y) BY <3>1, <1>1
    <3> HIDE DEF l
    <3> QED BY <3>1, <3>2, <3>3
  <2> QED BY <2>1, <2>2
<1>7. ASSUME NEW i \in 1 .. Len(journal \o y), NEW j \in 1 .. Len(journal \o y),
             i < j, (journal \o y)[i].gen = g, (journal \o y)[j].gen = g
      PROVE  (journal \o y)[i].fact.n < (journal \o y)[j].fact.n
  <2>1. CASE j <= Len(journal)
    <3>1. i <= Len(journal) BY <2>1, <1>7, <1>1, <1>2
    <3> QED BY <2>1, <3>1, <1>5, <1>7 DEF Prefix
  <2>2. CASE ~(j <= Len(journal)) /\ i <= Len(journal)
    <3>1. (journal \o y)[i].fact.n \in 1 .. r BY <2>2, <1>5, <1>7 DEF Prefix
    <3>2. j - Len(journal) \in 1 .. Len(y) /\ (journal \o y)[j] = y[j - Len(journal)]
      BY <2>2, <1>4
    <3>3. y[j - Len(journal)].fact.n = r + (j - Len(journal)) BY <3>2 DEF Following
    <3>4. (journal \o y)[j].fact.n = r + (j - Len(journal)) BY <3>2, <3>3
    <3>5. r < r + (j - Len(journal)) /\ r + (j - Len(journal)) \in Nat BY <3>2
    <3> QED BY <3>1, <3>4, <3>5
  <2>3. CASE ~(i <= Len(journal)) /\ ~(j <= Len(journal))
    <3>1. i - Len(journal) \in 1 .. Len(y) /\ (journal \o y)[i] = y[i - Len(journal)]
      BY <2>3, <1>4
    <3>2. j - Len(journal) \in 1 .. Len(y) /\ (journal \o y)[j] = y[j - Len(journal)]
      BY <2>3, <1>4
    <3>3. /\ (journal \o y)[i].fact.n = r + (i - Len(journal))
          /\ (journal \o y)[j].fact.n = r + (j - Len(journal))
      BY <3>1, <3>2 DEF Following
    <3>4. r + (i - Len(journal)) < r + (j - Len(journal)) BY <1>7, <1>1
    <3> QED BY <3>3, <3>4
  <2> QED BY <2>1, <2>2, <2>3
<1>8. ASSUME NEW k \in 1 .. r + Len(y)
      PROVE  \E i \in 1 .. Len(journal \o y) : (journal \o y)[i].gen = g /\ (journal \o y)[i].fact.n = k
  <2>1. CASE k <= r
    <3>1. PICK i \in 1 .. Len(journal) : journal[i].gen = g /\ journal[i].fact.n = k
      BY <2>1 DEF Prefix
    <3>2. i \in 1 .. Len(journal \o y) /\ (journal \o y)[i] = journal[i] BY <1>1, <1>2, <1>3
    <3> QED BY <3>1, <3>2
  <2>2. CASE ~(k <= r)
    <3> DEFINE l == k - r
    <3>1. l \in 1 .. Len(y) /\ r + l = k BY <2>2, <1>1
    <3>2. y[l].gen = g /\ y[l].fact.n = k BY <3>1 DEF Following
    <3>3. Len(journal) + l \in 1 .. Len(journal \o y) /\ ~(Len(journal) + l <= Len(journal))
      BY <3>1, <1>1, <1>2
    <3>4. (Len(journal) + l) - Len(journal) = l BY <3>1, <1>1
    <3>5. (journal \o y)[Len(journal) + l] = y[l] BY <3>3, <3>4, <1>4
    <3> QED BY <3>2, <3>3, <3>5
  <2> QED BY <2>1, <2>2
<1> QED BY <1>6, <1>7, <1>8 DEF Prefix

-----------------------------------------------------------------------------
(* The books of an attempt: what it did, what its outbox was given and     *)
(* still holds, what was ever sent and what landed.                        *)

Ledger(g, m, given, q, entries, journal) ==
  /\ Chronicle(g, m)
  /\ Pending(g, m, given, q)
  /\ SentBy(g, m, given, given - Len(q) + 1, entries)
  /\ \E r \in Nat : /\ Prefix(g, m, given, journal, r)
                    /\ given - Len(q) <= r /\ r <= given - Len(q) + 1 /\ r <= given

\* No terminal was published: all it did was given to the outbox, or is outstanding.
Open(g, m, given, q, t, j, entries, journal) ==
  Ledger(g, m, given, q, entries, journal) /\ Outstanding(m, given, t, j)

\* The terminal was published with the rows of its own: the journal is complete.
Sealed(g, m, given, entries, journal) ==
  /\ Chronicle(g, m) /\ Ended(m)
  /\ given \in Nat /\ given <= Len(m)
  /\ SentBy(g, m, given, given + 1, entries)
  /\ Prefix(g, m, given, journal, Len(m))

LEMMA OpenNumbers ==
  ASSUME NEW g, NEW m, NEW given, NEW q, NEW entries, NEW journal,
         Ledger(g, m, given, q, entries, journal)
  PROVE  /\ Len(m) \in Nat /\ given \in Nat /\ given <= Len(m)
         /\ Len(q) \in Nat /\ Len(q) <= given
         /\ given - Len(q) \in Nat /\ given - Len(q) + 1 \in Nat
<1>1. Len(m) \in Nat /\ given \in Nat /\ given <= Len(m) /\ Len(q) \in Nat /\ Len(q) <= given
  BY LenProperties DEF Ledger, Chronicle, Pending
<1> QED BY <1>1

LEMMA EndedGrows ==
  ASSUME NEW g \in Gen, NEW m, NEW x, Chronicle(g, m), Continues(g, m, x), Ended(m)
  PROVE  Ended(m \o x)
<1>1. /\ Len(m \o x) = Len(m) + Len(x)
      /\ \A i \in 1 .. Len(m) : (m \o x)[i] = m[i]
  BY ChronicleGrows
<1>2. Len(m) \in Nat /\ Len(x) \in Nat BY LenProperties DEF Chronicle, Continues
<1> QED BY <1>1, <1>2 DEF Ended, Steps

\* The attempt did more, which nothing has seen yet.
LEMMA LedgerGrows ==
  ASSUME NEW g \in Gen, NEW m, NEW x, NEW given, NEW q, NEW entries, NEW journal,
         Ledger(g, m, given, q, entries, journal), Continues(g, m, x),
         entries \subseteq JournalEntry
  PROVE  Ledger(g, m \o x, given, q, entries, journal)
<1> DEFINE n == m \o x
           first == given - Len(q) + 1
<1>1. Chronicle(g, m) /\ Pending(g, m, given, q) /\ SentBy(g, m, given, first, entries)
  BY DEF Ledger
<1>2. Len(m) \in Nat /\ given \in Nat /\ given <= Len(m) /\ first \in Nat BY OpenNumbers
<1>3. Chronicle(g, n) /\ \A i \in 1 .. Len(m) : n[i] = m[i] BY <1>1, ChronicleGrows
<1>4. Pending(g, n, given, q) BY <1>1, PendingGrows
<1>5. PICK r \in Nat : /\ Prefix(g, m, given, journal, r)
                       /\ given - Len(q) <= r /\ r <= first /\ r <= given
  BY DEF Ledger
<1> HIDE DEF n, first
<1>6. SentBy(g, n, given, first, entries)
  <2>1. SameUpTo(given, m, n) BY <1>2, <1>3 DEF SameUpTo
  <2> QED BY <2>1, <1>1, <1>2, SentGrows
<1>7. Prefix(g, n, given, journal, r)
  <2>1. SameUpTo(r, m, n) BY <1>2, <1>3, <1>5 DEF SameUpTo
  <2> QED BY <2>1, <1>2, <1>5, PrefixGrows
<1> QED BY <1>3, <1>4, <1>5, <1>6, <1>7 DEF Ledger, n, first

LEMMA DrainKeepsOpen ==
  ASSUME NEW g \in Gen, NEW m, NEW given, NEW q, NEW t, NEW j, NEW entries, NEW journal,
         Open(g, m, given, q, t, j, entries, journal), entries \subseteq JournalEntry,
         NEW new, new = Minted(g, given, t \o j)
  PROVE  /\ Open(g, m, given + Len(new), q \o new, <<>>, <<>>, entries, journal)
         /\ q \o new = <<>> => q = <<>> /\ t = <<>> /\ j = <<>>
<1> DEFINE f == t \o j
           given2 == given + Len(new)
           q2 == q \o new
           first == given - Len(q) + 1
           first2 == given2 - Len(q2) + 1
<1>1. Chronicle(g, m) /\ Pending(g, m, given, q) /\ SentBy(g, m, given, first, entries)
  BY DEF Ledger, Open
<1>2. Len(m) \in Nat /\ given \in Nat /\ given <= Len(m) /\ Len(q) \in Nat /\ first \in Nat
  BY OpenNumbers DEF Open
<1>3. Outstanding(m, given, t, j) BY DEF Open
<1>4. /\ f \in Seq(Facts) /\ given + Len(f) = Len(m)
      /\ \A i \in 1 .. Len(f) : f[i] = m[given + i]
  BY <1>2, <1>3, OutstandingStretch
<1>5. new = Minted(g, given, f) OBVIOUS
<1>6. PICK r \in Nat : /\ Prefix(g, m, given, journal, r)
                       /\ given - Len(q) <= r /\ r <= first /\ r <= given
  BY DEF Ledger, Open
<1>7. t \in Seq(Facts) /\ j \in Seq(Facts) BY <1>3 DEF Outstanding
<1>8. f = <<>> => t = <<>> /\ j = <<>> BY <1>7, ConcatEqualIffEmpty
<1> HIDE DEF f
<1>9. Len(f) \in Nat /\ given + Len(f) <= Len(m) BY <1>4, LenProperties
<1>10. /\ Pending(g, m, given2, q2)
       /\ Len(new) = Len(f)
       /\ given2 - Len(q2) = given - Len(q)
       /\ q2 = <<>> => q = <<>> /\ f = <<>>
  BY <1>1, <1>4, <1>5, <1>9, PendingExtends
<1>11. given2 = Len(m) /\ given2 \in Nat /\ given <= given2 BY <1>2, <1>4, <1>9, <1>10
<1>12. first2 = first BY <1>10
<1> HIDE DEF given2, q2, first, first2
<1>a. SameUpTo(given, m, m) /\ SameUpTo(r, m, m) BY DEF SameUpTo
<1>13. SentBy(g, m, given2, first2, entries) BY <1>1, <1>2, <1>11, <1>12, <1>a, SentGrows
<1>14. Prefix(g, m, given2, journal, r) BY <1>2, <1>6, <1>11, <1>a, PrefixGrows
<1>15. r <= given2 BY <1>6, <1>11, <1>2
<1>16. Outstanding(m, given2, <<>>, <<>>)
  <2>1. <<>> \in Seq(Facts) /\ Len(<<>>) = 0 BY EmptySeq
  <2> QED BY <2>1, <1>11 DEF Outstanding
<1>17. Ledger(g, m, given2, q2, entries, journal)
  BY <1>1, <1>6, <1>10, <1>12, <1>13, <1>14, <1>15 DEF Ledger, first, first2
<1> QED BY <1>8, <1>10, <1>16, <1>17 DEF Open, given2, q2

\* The attempt puts a fact of its own in the outbox.
LEMMA OwnKeepsOpen ==
  ASSUME NEW g \in Gen, NEW m, NEW given, NEW q, NEW x, NEW entries, NEW journal,
         Open(g, m, given, q, <<>>, <<>>, entries, journal), Continues(g, m, x),
         entries \subseteq JournalEntry,
         NEW new, new = Minted(g, given, x)
  PROVE  Open(g, m \o x, given + Len(new), q \o new, <<>>, <<>>, entries, journal)
<1>1. x \in Seq(Facts) BY DEF Continues
<1>2. Chronicle(g, m) /\ given \in Nat BY DEF Open, Ledger, Pending
<1>3. <<>> \o x = x /\ x \o <<>> = x BY <1>1, ConcatEmptySeq
<1>4. Outstanding(m \o x, given, x, <<>>) BY <1>2, <1>3, TransitionsGrow DEF Open
<1>5. Ledger(g, m \o x, given, q, entries, journal) BY LedgerGrows DEF Open
<1>6. Open(g, m \o x, given, q, x, <<>>, entries, journal) BY <1>4, <1>5 DEF Open
<1> QED BY <1>3, <1>6, DrainKeepsOpen

\* The head of the outbox is sent.
LEMMA SendKeepsOpen ==
  ASSUME NEW g \in Gen, NEW m, NEW given, NEW q, NEW t, NEW j, NEW entries, NEW journal,
         Open(g, m, given, q, t, j, entries, journal), q # <<>>
  PROVE  /\ Open(g, m, given, q, t, j, entries \union {Head(q)}, journal)
         /\ Head(q) = EntryOf(g, m, given - Len(q) + 1)
         /\ Head(q) \in JournalEntry
<1>1. /\ Len(m) \in Nat /\ given \in Nat /\ given <= Len(m)
      /\ Len(q) \in Nat /\ Len(q) <= given
  BY OpenNumbers DEF Open
<1>2. q \in Seq(JournalEntry) BY DEF Open, Ledger, Pending
<1>3. Len(q) >= 1 BY <1>1, <1>2, EmptySeq
<1>4. Head(q) = q[1] BY <1>2
<1>5. 1 \in 1 .. Len(q) BY <1>1, <1>3
<1>6. Head(q) = EntryOf(g, m, given - Len(q) + 1) BY <1>4, <1>5 DEF Open, Ledger, Pending
<1>7. Head(q) \in JournalEntry BY <1>2, <1>4, <1>5, ElementOfSeq
<1>8. given - Len(q) + 1 \in 1 .. given BY <1>1, <1>3
<1>9. Head(q).id = given - Len(q) + 1 BY <1>6 DEF EntryOf
<1>10. SentBy(g, m, given, given - Len(q) + 1, entries \union {Head(q)})
  <2> SUFFICES ASSUME NEW e \in entries \union {Head(q)}, e.gen = g
               PROVE  /\ e.id \in 1 .. given /\ e.id <= given - Len(q) + 1
                      /\ e = EntryOf(g, m, e.id)
    BY DEF SentBy
  <2>1. CASE e \in entries BY <2>1 DEF Open, Ledger, SentBy
  <2>2. CASE e = Head(q)
    <3>1. e.id = given - Len(q) + 1 /\ e = EntryOf(g, m, given - Len(q) + 1) BY <2>2, <1>6, <1>9
    <3> QED BY <3>1, <1>8, <1>1
  <2> QED BY <2>1, <2>2
<1> QED BY <1>6, <1>7, <1>10 DEF Open, Ledger

\* The head of the outbox is a row of the journal.
LEMMA AckKeepsOpen ==
  ASSUME NEW g \in Gen, NEW m, NEW given, NEW q, NEW t, NEW j, NEW entries, NEW journal,
         Open(g, m, given, q, t, j, entries, journal), q # <<>>,
         entries \subseteq JournalEntry,
         NEW k \in 1 .. Len(journal), journal[k] = Head(q)
  PROVE  Open(g, m, given, Tail(q), t, j, entries, journal)
<1>1. /\ Len(m) \in Nat /\ given \in Nat /\ given <= Len(m)
      /\ Len(q) \in Nat /\ Len(q) <= given
  BY OpenNumbers DEF Open
<1>2. q \in Seq(JournalEntry) /\ Chronicle(g, m) BY DEF Open, Ledger, Pending
<1>3. /\ Tail(q) \in Seq(JournalEntry) /\ Len(Tail(q)) = Len(q) - 1
      /\ \A i \in 1 .. Len(Tail(q)) : Tail(q)[i] = q[i + 1]
  BY <1>2, HeadTailProperties
<1>4. Len(q) >= 1 BY <1>1, <1>2, EmptySeq
<1>5. Head(q) = EntryOf(g, m, given - Len(q) + 1) BY SendKeepsOpen
<1>6. Pending(g, m, given, Tail(q))
  <2>1. ASSUME NEW i \in 1 .. Len(Tail(q))
        PROVE  Tail(q)[i] = EntryOf(g, m, given - Len(Tail(q)) + i)
    <3>1. i + 1 \in 1 .. Len(q) BY <1>1, <1>3
    <3>2. Tail(q)[i] = q[i + 1] BY <1>3
    <3>3. q[i + 1] = EntryOf(g, m, given - Len(q) + (i + 1)) BY <3>1 DEF Open, Ledger, Pending
    <3>4. given - Len(q) + (i + 1) = given - Len(Tail(q)) + i BY <1>1, <1>3
    <3> QED BY <3>2, <3>3, <3>4
  <2>2. Len(Tail(q)) <= given BY <1>1, <1>3
  <2> QED BY <2>1, <2>2, <1>1, <1>3 DEF Pending
<1>7. /\ given - Len(q) + 1 \in Nat /\ given - Len(Tail(q)) + 1 \in Nat
      /\ given - Len(q) + 1 <= given - Len(Tail(q)) + 1
  BY <1>1, <1>3
<1>8. SentBy(g, m, given, given - Len(Tail(q)) + 1, entries)
  <2>1. SentBy(g, m, given, given - Len(q) + 1, entries) BY DEF Open, Ledger
  <2>2. SameUpTo(given, m, m) BY DEF SameUpTo
  <2> QED BY <2>1, <2>2, <1>1, <1>7, SentGrows
<1>9. PICK r \in Nat : /\ Prefix(g, m, given, journal, r)
                       /\ given - Len(q) <= r /\ r <= given - Len(q) + 1 /\ r <= given
  BY DEF Open, Ledger
<1>10. given - Len(q) + 1 <= r
  <2>1. journal[k].gen = g /\ journal[k].fact = m[given - Len(q) + 1] BY <1>5 DEF EntryOf
  <2>2. given - Len(q) + 1 \in 1 .. Len(m) BY <1>1, <1>4
  <2>3. journal[k].fact.n = given - Len(q) + 1 BY <2>1, <2>2, <1>2 DEF Chronicle
  <2>4. journal[k].fact.n \in 1 .. r BY <2>1, <1>9 DEF Prefix
  <2> QED BY <2>3, <2>4, <1>1
<1>11. given - Len(Tail(q)) <= r /\ r <= given - Len(Tail(q)) + 1
  BY <1>1, <1>3, <1>9, <1>10
<1>12. Ledger(g, m, given, Tail(q), entries, journal)
  BY <1>2, <1>6, <1>8, <1>9, <1>11 DEF Ledger
<1> QED BY <1>12 DEF Open

\* An append sent earlier lands, unless its identity is in the journal.
LEMMA LandKeepsOpen ==
  ASSUME NEW g \in Gen, NEW m, NEW given, NEW q, NEW t, NEW j, NEW entries,
         NEW journal \in Seq(JournalEntry),
         Open(g, m, given, q, t, j, entries, journal),
         NEW e \in entries, e.gen = g, e \in JournalEntry,
         \A i \in 1 .. Len(journal) : ~(journal[i].gen = e.gen /\ journal[i].id = e.id)
  PROVE  Open(g, m, given, q, t, j, entries, Append(journal, e))
<1>1. /\ Len(m) \in Nat /\ given \in Nat /\ given <= Len(m)
      /\ Len(q) \in Nat /\ Len(q) <= given
  BY OpenNumbers DEF Open
<1>2. /\ e.id \in 1 .. given /\ e.id <= given - Len(q) + 1
      /\ e = EntryOf(g, m, e.id)
  BY DEF Open, Ledger, SentBy
<1>3. PICK r \in Nat : /\ Prefix(g, m, given, journal, r)
                       /\ given - Len(q) <= r /\ r <= given - Len(q) + 1 /\ r <= given
  BY DEF Open, Ledger
<1>4. e.id > r
  <2> SUFFICES ASSUME e.id \in 1 .. r PROVE FALSE BY <1>2, <1>3
  <2>1. PICK i \in 1 .. Len(journal) : journal[i].gen = g /\ journal[i].fact.n = e.id
    BY <1>3 DEF Prefix
  <2>2. journal[i].id = e.id BY <2>1, <1>2, <1>3 DEF Prefix
  <2> QED BY <2>1, <2>2
<1>5. e.id = r + 1 /\ given - Len(q) <= r + 1 /\ r + 1 <= given - Len(q) + 1 /\ r + 1 <= given
  BY <1>1, <1>2, <1>3, <1>4
<1>6. Append(journal, e) = journal \o <<e>> BY AppendIsConcat
<1>7. Prefix(g, m, given, journal \o <<e>>, r + 1)
  <2>1. <<e>> \in Seq(JournalEntry) /\ Len(<<e>>) = 1 /\ <<e>>[1] = e OBVIOUS
  <2>2. e.fact = m[r + 1] BY <1>2, <1>5 DEF EntryOf
  <2>3. m[r + 1].n = r + 1
    <3>1. r + 1 \in 1 .. Len(m) BY <1>1, <1>5
    <3> QED BY <3>1 DEF Open, Ledger, Chronicle
  <2>4. Following(g, m, given, r, <<e>>)
    <3>1. \A i \in 1 .. Len(<<e>>) : i = 1 BY <2>1
    <3>2. e.gen = g /\ e.fact = m[r + 1] /\ e.fact.n = r + 1 /\ e.id = r + 1 /\ r + 1 <= given
      BY <2>2, <2>3, <1>5
    <3> QED BY <2>1, <3>1, <3>2, <1>1 DEF Following
  <2>5. Prefix(g, m, given, journal \o <<e>>, r + Len(<<e>>))
    <3>1. SameUpTo(r, m, m) BY DEF SameUpTo
    <3> QED BY <2>4, <3>1, <1>1, <1>3, PrefixExtends
  <2> QED BY <2>1, <2>5
<1>8. Ledger(g, m, given, q, entries, Append(journal, e))
  <2>1. r + 1 \in Nat OBVIOUS
  <2> QED BY <2>1, <1>5, <1>6, <1>7 DEF Ledger, Open
<1> QED BY <1>8 DEF Open

\* The journal is complete when the outbox is empty and nothing is outstanding.
LEMMA DrainedIsComplete ==
  ASSUME NEW g \in Gen, NEW m, NEW given, NEW entries, NEW journal,
         Open(g, m, given, <<>>, <<>>, <<>>, entries, journal)
  PROVE  given = Len(m) /\ Prefix(g, m, given, journal, Len(m))
<1>1. Len(m) \in Nat /\ given \in Nat BY OpenNumbers DEF Open
<1>2. Len(<<>>) = 0 OBVIOUS
<1>3. given = Len(m) BY <1>1, <1>2 DEF Open, Outstanding
<1>4. PICK r \in Nat : Prefix(g, m, given, journal, r) /\ given - Len(<<>>) <= r /\ r <= given
  BY DEF Open, Ledger
<1>5. r = given BY <1>1, <1>2, <1>4
<1> QED BY <1>3, <1>4, <1>5

LEMMA CommitSeals ==
  ASSUME NEW g \in Gen, NEW m, NEW given, NEW x, NEW entries, NEW journal \in Seq(JournalEntry),
         Open(g, m, given, <<>>, <<>>, <<>>, entries, journal), entries \subseteq JournalEntry,
         Continues(g, m, x), Ended(m \o x),
         NEW y, y = [i \in 1 .. Len(x) |-> [gen |-> g, id |-> 0, fact |-> x[i]]]
  PROVE  Sealed(g, m \o x, given, entries, journal \o y) /\ y \in Seq(JournalEntry) /\ Len(y) = Len(x)
<1> DEFINE n == m \o x
<1>1. given = Len(m) /\ Prefix(g, m, given, journal, Len(m)) BY DrainedIsComplete
<1>2. Chronicle(g, m) /\ x \in Seq(Facts) BY DEF Open, Ledger, Continues
<1>3. /\ Chronicle(g, n) /\ Len(n) = Len(m) + Len(x)
      /\ \A i \in 1 .. Len(m) : n[i] = m[i]
      /\ \A i \in 1 .. Len(x) : n[Len(m) + i] = x[i]
  BY <1>2, ChronicleGrows
<1>4. Len(m) \in Nat /\ Len(x) \in Nat BY <1>2, LenProperties DEF Chronicle
<1>5. y \in Seq(JournalEntry) /\ Len(y) = Len(x)
  <2>1. \A i \in 1 .. Len(x) : [gen |-> g, id |-> 0, fact |-> x[i]] \in JournalEntry
    BY <1>2, ElementOfSeq DEF JournalEntry
  <2>2. y \in [1 .. Len(x) -> JournalEntry] BY <2>1
  <2>3. y \in Seq(JournalEntry) BY <2>2, <1>4, SeqDef
  <2>4. DOMAIN y = 1 .. Len(x) BY <2>2
  <2>5. DOMAIN y = 1 .. Len(y) /\ Len(y) \in Nat BY <2>3, LenProperties
  <2>6. 1 .. Len(x) = 1 .. Len(y) BY <2>4, <2>5
  <2>7. Len(y) <= Len(x) BY <2>5, <2>6, <1>4
  <2>8. Len(x) <= Len(y) BY <2>5, <2>6, <1>4
  <2>9. Len(y) = Len(x) BY <2>5, <2>7, <2>8, <1>4
  <2> QED BY <2>3, <2>9
<1> HIDE DEF n
<1>6. Prefix(g, n, given, journal \o y, Len(m) + Len(y))
  <2>1. ASSUME NEW i \in 1 .. Len(y)
        PROVE  /\ y[i].gen = g /\ y[i].fact = n[Len(m) + i] /\ y[i].fact.n = Len(m) + i
               /\ Len(m) + i <= given => y[i].id = Len(m) + i
               /\ Len(m) + i > given => y[i].id = 0
    <3>1. i \in 1 .. Len(x) BY <1>5
    <3>2. y[i].gen = g /\ y[i].fact = x[i] /\ y[i].id = 0 BY <3>1
    <3>3. x[i].n = Len(m) + i BY <3>1 DEF Continues
    <3>4. ~(Len(m) + i <= given) BY <1>1, <1>4, <3>1
    <3> QED BY <1>3, <3>1, <3>2, <3>3, <3>4
  <2>2. SameUpTo(Len(m), m, n) BY <1>3 DEF SameUpTo
  <2>3. given \in Nat BY <1>1, <1>4
  <2>4. Following(g, n, given, Len(m), y) BY <2>1, <1>5 DEF Following
  <2> QED BY <2>2, <2>3, <2>4, <1>1, <1>4, PrefixExtends
<1>7. SentBy(g, n, given, given + 1, entries)
  <2>1. SentBy(g, m, given, given - Len(<<>>) + 1, entries) BY DEF Open, Ledger
  <2>2. given - Len(<<>>) + 1 = given + 1 /\ given + 1 \in Nat BY <1>1, <1>4
  <2>3. SentBy(g, m, given, given + 1, entries) BY <2>1, <2>2
  <2>4. SameUpTo(given, m, n) BY <1>1, <1>3 DEF SameUpTo
  <2> QED BY <2>2, <2>3, <2>4, <1>1, <1>4, SentGrows
<1>8. given \in Nat /\ given <= Len(n) /\ Len(m) + Len(y) = Len(n) BY <1>1, <1>3, <1>4, <1>5
<1> QED BY <1>3, <1>5, <1>6, <1>7, <1>8 DEF Sealed, n

\* Every entry of a sealed attempt has landed.
LEMMA SealedHasLanded ==
  ASSUME NEW g, NEW m, NEW given, NEW entries, NEW journal,
         Sealed(g, m, given, entries, journal), NEW e \in entries, e.gen = g
  PROVE  \E i \in 1 .. Len(journal) : journal[i].gen = e.gen /\ journal[i].id = e.id
<1>1. e.id \in 1 .. given BY DEF Sealed, SentBy
<1>2. given \in Nat /\ Len(m) \in Nat /\ given <= Len(m) BY LenProperties DEF Sealed, Chronicle
<1>3. e.id \in 1 .. Len(m) BY <1>1, <1>2
<1>4. PICK i \in 1 .. Len(journal) : journal[i].gen = g /\ journal[i].fact.n = e.id
  BY <1>3 DEF Sealed, Prefix
<1>5. journal[i].id = e.id BY <1>1, <1>2, <1>4 DEF Sealed, Prefix
<1> QED BY <1>4, <1>5

\* What other attempts send and what lands of theirs.
LEMMA OthersKeepBooks ==
  ASSUME NEW h, NEW m, NEW given, NEW q, NEW t, NEW j, NEW entries, NEW sends,
         NEW journal \in Seq(JournalEntry), NEW y \in Seq(JournalEntry),
         \A e \in sends : e \in entries \/ e.gen # h,
         \A i \in 1 .. Len(y) : y[i].gen # h
  PROVE  /\ Open(h, m, given, q, t, j, entries, journal)
              => Open(h, m, given, q, t, j, sends, journal \o y)
         /\ Sealed(h, m, given, entries, journal)
              => Sealed(h, m, given, sends, journal \o y)
<1>1. ASSUME NEW first, SentBy(h, m, given, first, entries)
      PROVE  SentBy(h, m, given, first, sends)
  BY <1>1 DEF SentBy
<1>2. ASSUME NEW r, Prefix(h, m, given, journal, r)
      PROVE  Prefix(h, m, given, journal \o y, r)
  BY <1>2, PrefixOfOthers
<1>3. ASSUME Open(h, m, given, q, t, j, entries, journal)
      PROVE  Open(h, m, given, q, t, j, sends, journal \o y)
  <2>1. PICK r \in Nat : /\ Prefix(h, m, given, journal, r)
                         /\ given - Len(q) <= r /\ r <= given - Len(q) + 1 /\ r <= given
    BY <1>3 DEF Open, Ledger
  <2>2. Prefix(h, m, given, journal \o y, r) BY <2>1, <1>2
  <2>3. SentBy(h, m, given, given - Len(q) + 1, sends) BY <1>1, <1>3 DEF Open, Ledger
  <2>4. Ledger(h, m, given, q, sends, journal \o y) BY <1>3, <2>1, <2>2, <2>3 DEF Open, Ledger
  <2> QED BY <1>3, <2>4 DEF Open
<1>4. ASSUME Sealed(h, m, given, entries, journal)
      PROVE  Sealed(h, m, given, sends, journal \o y)
  BY <1>1, <1>2, <1>4 DEF Sealed
<1> QED BY <1>3, <1>4

-----------------------------------------------------------------------------
(* The inductive invariant.                                                *)

Books(g) ==
  /\ g \notin finalized =>
       Open(g, made[g], minted[g], queue[g],
            undrained[g].transition, undrained[g].rejection, sent, rows)
  /\ g \in finalized =>
       /\ Sealed(g, made[g], minted[g], sent, rows)
       /\ queue[g] = <<>> /\ undrained[g] = Nothing
  /\ undrained[g].rejection # <<>> => IsTerminal(g)

Control(g) ==
  /\ pc[g] \in {"idle", "walk", "phase", "await", "held", "gate", "commit"} => undrained[g] = Nothing
  /\ pc[g] = "await" => g \notin lost /\ queue[g] # <<>>
  /\ pc[g] = "gate" /\ g \in lost => queue[g] # <<>>
  /\ pc[g] = "commit" => g \notin lost /\ queue[g] = <<>>
  /\ pc[g] = "answer" /\ g \notin lost => undrained[g] = Nothing
  /\ g \in finalized => /\ pc[g] \in {"conclude", "conclude again", "answer", "answered"}
                        /\ g \notin lost /\ produced[g] = "bundle"
                        /\ answer[g] \in {"none", "terminal"}
  /\ answer[g] # "none" => pc[g] = "answered"
  /\ answer[g] = "held" => /\ queue[g] = <<>> /\ undrained[g] = Nothing
                           /\ ~IsTerminal(g) /\ HeldAt(g)

ServedGenerations == \A i \in 1 .. Len(rows) : rows[i].gen <= high["journal"]

RecordInv ==
  /\ RecordTypeOK
  /\ \A g \in Gen : Books(g) /\ Control(g)
  /\ FencedRows /\ ServedGenerations

-----------------------------------------------------------------------------
(* A step of attempt g moves the state of no other attempt.                *)

Frame(g) == \A h \in Gen \ {g} :
  /\ made'[h] = made[h] /\ undrained'[h] = undrained[h]
  /\ queue'[h] = queue[h] /\ minted'[h] = minted[h]
  /\ pc'[h] = pc[h] /\ produced'[h] = produced[h] /\ answer'[h] = answer[h]
  /\ (h \in lost') <=> (h \in lost)
  /\ (h \in finalized') <=> (h \in finalized)
  /\ \A e \in sent' : e \in sent \/ e.gen # h

LEMMA OthersKeep ==
  ASSUME RecordInv, NEW g \in Gen, Frame(g),
         NEW y \in Seq(JournalEntry), \A i \in 1 .. Len(y) : y[i].gen = g, rows' = rows \o y,
         NEW h \in Gen, h # g
  PROVE  Books(h)' /\ Control(h)'
<1>1. /\ made'[h] = made[h] /\ undrained'[h] = undrained[h]
      /\ queue'[h] = queue[h] /\ minted'[h] = minted[h]
      /\ pc'[h] = pc[h] /\ produced'[h] = produced[h] /\ answer'[h] = answer[h]
      /\ (h \in lost') <=> (h \in lost)
      /\ (h \in finalized') <=> (h \in finalized)
      /\ \A e \in sent' : e \in sent \/ e.gen # h
  BY DEF Frame
<1>2. Books(h) /\ Control(h) /\ rows \in Seq(JournalEntry) BY DEF RecordInv, RecordTypeOK
<1>3. \A i \in 1 .. Len(y) : y[i].gen # h OBVIOUS
<1>4. /\ Open(h, made[h], minted[h], queue[h], undrained[h].transition, undrained[h].rejection, sent, rows)
           => Open(h, made[h], minted[h], queue[h], undrained[h].transition, undrained[h].rejection,
                   sent', rows')
      /\ Sealed(h, made[h], minted[h], sent, rows) => Sealed(h, made[h], minted[h], sent', rows')
  BY <1>1, <1>2, <1>3, OthersKeepBooks
<1>5. (IsTerminal(h))' <=> IsTerminal(h) BY <1>1 DEF IsTerminal
<1>6. (HeldAt(h))' <=> HeldAt(h) BY <1>1 DEF HeldAt
<1>7. Books(h)' BY <1>1, <1>2, <1>4, <1>5 DEF Books
<1>8. Control(h)' BY <1>1, <1>2, <1>5, <1>6 DEF Control
<1> QED BY <1>7, <1>8

LEMMA StepKeeps ==
  ASSUME RecordInv, NEW g \in Gen, Frame(g), RecordTypeOK', Books(g)', Control(g)',
         rows' = rows, high'["journal"] = high["journal"]
  PROVE  RecordInv'
<1>1. rows \in Seq(JournalEntry) BY DEF RecordInv, RecordTypeOK
<1>2. rows' = rows \o <<>> /\ <<>> \in Seq(JournalEntry) BY <1>1, ConcatEmptySeq
<1>3. \A i \in 1 .. Len(<<>>) : <<>>[i].gen = g OBVIOUS
<1>4. ASSUME NEW h \in Gen, h # g PROVE Books(h)' /\ Control(h)'
  BY <1>2, <1>3, <1>4, OthersKeep
<1>5. FencedRows' /\ ServedGenerations'
  BY DEF RecordInv, FencedRows, ServedGenerations
<1> QED BY <1>4, <1>5 DEF RecordInv

\* A step that leaves the books alone.
LEMMA BooksUntouched ==
  ASSUME RecordInv, NEW g \in Gen, UNCHANGED <<sent, outbox, rows, finalized>>
  PROVE  Books(g)' /\ (IsTerminal(g)' <=> IsTerminal(g)) /\ (HeldAt(g)' <=> HeldAt(g))
<1>1. Books(g) BY DEF RecordInv
<1> QED BY <1>1 DEF Books, outbox, IsTerminal, HeldAt

-----------------------------------------------------------------------------
(* The journal tick.                                                       *)

OutboxTypes ==
  /\ made \in [Gen -> Seq(Facts)] /\ queue \in [Gen -> Seq(JournalEntry)]
  /\ undrained \in [Gen -> [transition : Seq(Facts), rejection : Seq(Facts)]]
  /\ minted \in [Gen -> Nat] /\ sent \subseteq JournalEntry

\* What a tick or an acknowledgement leaves the attempt with: it waits for an
\* append, or has nothing pending, or lost the fence.
Waits(g) == /\ pc'[g] = "await" /\ g \notin lost /\ queue'[g] # <<>>
            /\ undrained'[g] = Nothing

Passes(g, then) == /\ pc'[g] = then
                   /\ g \notin lost => queue'[g] = <<>> /\ undrained'[g] = Nothing
                   /\ g \in lost => /\ undrained'[g] = undrained[g]
                                    /\ queue[g] # <<>> => queue'[g] # <<>>

OutboxFrame(g) ==
  /\ \A h \in Gen \ {g} :
       /\ made'[h] = made[h] /\ undrained'[h] = undrained[h]
       /\ queue'[h] = queue[h] /\ minted'[h] = minted[h] /\ pc'[h] = pc[h]
       /\ \A e \in sent' : e \in sent \/ e.gen # h
  /\ \A e \in sent' : e \in sent \/ (e.gen = g /\ g \notin lost)
  /\ pc' = [pc EXCEPT ![g] = pc'[g]]

\* What the machine recorded is of one category, and no transition follows a rejection.
OfOneCategory(g, facts) ==
  facts # <<>> =>
    \/ Head(facts).cat = "transition" /\ undrained[g].rejection = <<>>
    \/ Head(facts).cat = "rejection"

LEMMA UndrainedOutstanding ==
  ASSUME RecordInv, NEW g \in Gen, g \notin finalized, NEW facts,
         Continues(g, made[g], facts), OfOneCategory(g, facts)
  PROVE  /\ Open(g, made[g] \o facts, minted[g], queue[g], Undrained(g, facts).transition,
                 Undrained(g, facts).rejection, sent, rows)
         /\ facts = <<>> => Undrained(g, facts) = undrained[g]
         /\ Undrained(g, facts) \in [transition : Seq(Facts), rejection : Seq(Facts)]
<1> DEFINE t == undrained[g].transition
           j == undrained[g].rejection
           m == made[g]
<1>1. /\ Open(g, m, minted[g], queue[g], t, j, sent, rows)
      /\ undrained[g] \in [transition : Seq(Facts), rejection : Seq(Facts)]
      /\ sent \subseteq JournalEntry
  BY DEF RecordInv, Books, RecordTypeOK
<1>2. facts \in Seq(Facts) /\ t \in Seq(Facts) /\ j \in Seq(Facts) BY <1>1 DEF Continues
<1>3. Chronicle(g, m) /\ Ledger(g, m, minted[g], queue[g], sent, rows) /\ Outstanding(m, minted[g], t, j)
  BY <1>1 DEF Open, Ledger
<1>4. minted[g] \in Nat BY DEF RecordInv, RecordTypeOK
<1>5. Ledger(g, m \o facts, minted[g], queue[g], sent, rows) BY <1>1, <1>3, LedgerGrows
<1>6. t \o <<>> = t /\ j \o <<>> = j /\ m \o <<>> = m
  <2>1. m \in Seq(Facts) BY <1>3 DEF Chronicle
  <2> QED BY <1>2, <2>1, ConcatEmptySeq
<1>7. CASE facts = <<>>
  <2>1. Undrained(g, facts) = [transition |-> t, rejection |-> j] BY <1>6, <1>7 DEF Undrained
  <2>2. undrained[g] = [transition |-> t, rejection |-> j] BY <1>1
  <2> QED BY <2>1, <2>2, <1>1, <1>6, <1>7
<1>8. CASE facts # <<>> /\ Head(facts).cat = "transition"
  <2>1. Undrained(g, facts) = [transition |-> t \o facts, rejection |-> j]
    BY <1>6, <1>8 DEF Undrained
  <2>2. j = <<>> BY <1>8 DEF OfOneCategory
  <2>3. Outstanding(m \o facts, minted[g], t \o facts, <<>>)
    BY <1>3, <1>4, <2>2, TransitionsGrow
  <2>4. t \o facts \in Seq(Facts) BY <1>2, ConcatProperties
  <2> HIDE DEF m, t, j
  <2> QED BY <1>2, <1>5, <1>8, <2>1, <2>2, <2>3, <2>4 DEF Open, m
<1>9. CASE facts # <<>> /\ Head(facts).cat = "rejection"
  <2>1. Undrained(g, facts) = [transition |-> t, rejection |-> j \o facts]
    BY <1>6, <1>9 DEF Undrained
  <2>3. Outstanding(m \o facts, minted[g], t, j \o facts)
    BY <1>3, <1>4, RejectionsGrow
  <2>4. j \o facts \in Seq(Facts) BY <1>2, ConcatProperties
  <2> HIDE DEF m, t, j
  <2> QED BY <1>2, <1>5, <1>9, <2>1, <2>3, <2>4 DEF Open, m
<1> QED BY <1>7, <1>8, <1>9 DEF OfOneCategory

LEMMA NothingMinted ==
  ASSUME NEW g, NEW given
  PROVE  Minted(g, given, <<>>) = <<>> /\ Len(<<>>) = 0
<1>1. 1 .. Len(<<>>) = {} OBVIOUS
<1>2. Minted(g, given, <<>>) = [i \in {} |-> [gen |-> g, id |-> given + i, fact |-> <<>>[i]]]
  BY <1>1 DEF Minted
<1>3. Minted(g, given, <<>>) \in [1 .. 0 -> Nat]
  <2>1. 1 .. 0 = {} OBVIOUS
  <2> QED BY <2>1, <1>2
<1>4. Minted(g, given, <<>>) \in Seq(Nat) /\ DOMAIN Minted(g, given, <<>>) = {} BY <1>2, <1>3, SeqDef
<1>5. Len(Minted(g, given, <<>>)) = 0 BY <1>4, LenProperties
<1> QED BY <1>4, <1>5, EmptySeq

LEMMA MintedSeq ==
  ASSUME NEW g \in Gen, NEW given \in Nat, NEW f \in Seq(Facts)
  PROVE  Minted(g, given, f) \in Seq(JournalEntry) /\ Len(Minted(g, given, f)) \in Nat
<1>1. Len(f) \in Nat BY LenProperties
<1>2. \A i \in 1 .. Len(f) : [gen |-> g, id |-> given + i, fact |-> f[i]] \in JournalEntry
  BY <1>1, ElementOfSeq DEF JournalEntry
<1>3. Minted(g, given, f) \in [1 .. Len(f) -> JournalEntry] BY <1>2 DEF Minted
<1>4. Minted(g, given, f) \in Seq(JournalEntry) BY <1>1, <1>3, SeqDef
<1> QED BY <1>4, LenProperties

\* A tick, before it sends: the books are in order whether the machine was
\* drained or, the fence being lost, was not.
LEMMA TickOpens ==
  ASSUME RecordInv, NEW g \in Gen, g \notin finalized, NEW facts, NEW own, NEW then,
         Tick(g, facts, own, then),
         Continues(g, made[g], own), Continues(g, made[g], facts),
         own = <<>> \/ (facts = <<>> /\ undrained[g] = Nothing),
         OfOneCategory(g, facts), g \in lost => facts = <<>>
  PROVE  /\ Open(g, made'[g], minted'[g], queue'[g],
                 undrained'[g].transition, undrained'[g].rejection, sent, rows)
         /\ g \notin lost => undrained'[g] = Nothing
         /\ g \in lost => /\ undrained'[g] = undrained[g]
                          /\ made'[g] = made[g] \/ undrained[g] = Nothing
                          /\ queue[g] # <<>> => queue'[g] # <<>>
         /\ undrained'[g] \in [transition : Seq(Facts), rejection : Seq(Facts)]
<1> DEFINE left == Undrained(g, facts)
           m == made[g]
           k == minted[g]
           q == queue[g]
           drained == own \o left.transition \o left.rejection
           new == Entries(g, IF g \in lost THEN own ELSE drained)
<1>1. /\ made \in [Gen -> Seq(Facts)] /\ queue \in [Gen -> Seq(JournalEntry)]
      /\ undrained \in [Gen -> [transition : Seq(Facts), rejection : Seq(Facts)]]
      /\ minted \in [Gen -> Nat] /\ sent \subseteq JournalEntry
  BY DEF RecordInv, RecordTypeOK
<1>2. /\ made'[g] = m \o own \o facts
      /\ minted'[g] = k + Len(new)
      /\ undrained'[g] = IF g \in lost THEN left ELSE Nothing
      /\ queue'[g] = q \o new
  BY <1>1 DEF Tick, SendHead
<1>3. own \in Seq(Facts) /\ facts \in Seq(Facts) /\ m \in Seq(Facts) /\ q \in Seq(JournalEntry) /\ k \in Nat
  BY <1>1 DEF Continues
<1>4. /\ Open(g, m \o facts, k, q, left.transition, left.rejection, sent, rows)
      /\ facts = <<>> => left = undrained[g]
      /\ left \in [transition : Seq(Facts), rejection : Seq(Facts)]
  BY UndrainedOutstanding
<1>5. left.transition \in Seq(Facts) /\ left.rejection \in Seq(Facts) BY <1>4
<1>6. m \o <<>> = m /\ q \o <<>> = q /\ <<>> \o left.transition = left.transition /\ own \o <<>> = own
  BY <1>3, <1>5, ConcatEmptySeq
<1>7. Nothing \in [transition : Seq(Facts), rejection : Seq(Facts)] BY EmptySeq DEF Nothing
<1>8. Open(g, m, k, q, undrained[g].transition, undrained[g].rejection, sent, rows)
  BY DEF RecordInv, Books
<1>9. \A f : Entries(g, f) = Minted(g, k, f) BY DEF Entries, Minted
<1>10. ASSUME undrained[g] = Nothing, facts = <<>>
       PROVE  Open(g, m \o own, k + Len(Minted(g, k, own)), q \o Minted(g, k, own), <<>>, <<>>, sent, rows)
  <2>1. Open(g, m, k, q, <<>>, <<>>, sent, rows) BY <1>8, <1>10 DEF Nothing
  <2> HIDE DEF m, k, q
  <2> QED BY <2>1, <1>1, OwnKeepsOpen DEF m
<1>11. Minted(g, k, own) \in Seq(JournalEntry) BY <1>3, MintedSeq
<1>12. CASE g \in lost
  <2>1. facts = <<>> /\ left = undrained[g] /\ new = Minted(g, k, own) BY <1>4, <1>9, <1>12
  <2>2. m \o own \o facts = m \o own
    <3>1. m \o own \in Seq(Facts) BY <1>3, ConcatProperties
    <3> QED BY <2>1, <3>1, ConcatEmptySeq
  <2>3. queue'[g] = q \o Minted(g, k, own) /\ minted'[g] = k + Len(Minted(g, k, own))
        /\ made'[g] = m \o own /\ undrained'[g] = undrained[g]
    BY <1>2, <1>12, <2>1, <2>2
  <2>4. q # <<>> => queue'[g] # <<>> BY <2>3, <1>3, <1>11, ConcatEqualIffEmpty
  <2>5. CASE undrained[g] = Nothing
    <3>1. undrained'[g].transition = <<>> /\ undrained'[g].rejection = <<>> BY <2>3, <2>5 DEF Nothing
    <3> QED BY <1>1, <1>7, <1>10, <1>12, <2>1, <2>3, <2>4, <2>5, <3>1
  <2>6. CASE own = <<>>
    <3>1. Minted(g, k, own) = <<>> /\ Len(Minted(g, k, own)) = 0 BY <2>6, NothingMinted
    <3>a. made'[g] = m BY <2>3, <2>6, <1>6
    <3>b. queue'[g] = q BY <2>3, <3>1, <1>6
    <3>c. minted'[g] = k BY <2>3, <3>1, <1>3
    <3>2. made'[g] = m /\ queue'[g] = q /\ minted'[g] = k BY <3>a, <3>b, <3>c
    <3> QED BY <1>1, <1>8, <1>12, <2>3, <2>4, <3>2
  <2> QED BY <2>5, <2>6
<1>13. CASE g \notin lost
  <2>1. new = Minted(g, k, drained) BY <1>9, <1>13
  <2>2. undrained'[g] = Nothing /\ undrained'[g].transition = <<>> /\ undrained'[g].rejection = <<>>
    BY <1>2, <1>13 DEF Nothing
  <2>3. CASE own = <<>>
    <3>1. drained = left.transition \o left.rejection BY <2>3, <1>6
    <3>2. made'[g] = m \o facts BY <1>2, <1>6, <2>3
    <3> HIDE DEF m, k, q, drained, new, left
    <3>3. Open(g, m \o facts, k + Len(new), q \o new, <<>>, <<>>, sent, rows)
      BY <1>1, <1>4, <2>1, <3>1, DrainKeepsOpen
    <3> QED BY <1>2, <1>7, <1>13, <2>2, <3>2, <3>3
  <2>4. CASE facts = <<>> /\ undrained[g] = Nothing
    <3>1. left.transition = <<>> /\ left.rejection = <<>> BY <2>4, <1>4 DEF Nothing
    <3>2. drained = own BY <3>1, <1>6
    <3>3. made'[g] = m \o own
      <4>1. m \o own \in Seq(Facts) BY <1>3, ConcatProperties
      <4> QED BY <1>2, <2>4, <4>1, ConcatEmptySeq
    <3> HIDE DEF m, k, q, drained, new, left
    <3> QED BY <1>2, <1>7, <1>10, <1>13, <2>1, <2>2, <2>4, <3>2, <3>3
  <2> QED BY <2>3, <2>4
<1> QED BY <1>12, <1>13

\* What every tick keeps, and what it leaves the attempt with.
LEMMA TickKeeps ==
  ASSUME RecordInv, NEW g \in Gen, g \notin finalized, NEW facts, NEW own, NEW then,
         Tick(g, facts, own, then), UNCHANGED <<rows, finalized>>,
         Continues(g, made[g], own), Continues(g, made[g], facts),
         own = <<>> \/ (facts = <<>> /\ undrained[g] = Nothing),
         OfOneCategory(g, facts), g \in lost => facts = <<>>
  PROVE  /\ Books(g)' /\ OutboxTypes' /\ OutboxFrame(g)
         /\ Waits(g) \/ Passes(g, then)
         /\ made'[g] = made[g] \o own \o facts
         /\ ret' = [ret EXCEPT ![g] = then]
<1>1. /\ made \in [Gen -> Seq(Facts)] /\ queue \in [Gen -> Seq(JournalEntry)]
      /\ undrained \in [Gen -> [transition : Seq(Facts), rejection : Seq(Facts)]]
      /\ minted \in [Gen -> Nat] /\ sent \subseteq JournalEntry
      /\ pc \in [Gen -> Stage]
  BY DEF RecordInv, RecordTypeOK
<1>2. /\ Open(g, made'[g], minted'[g], queue'[g],
              undrained'[g].transition, undrained'[g].rejection, sent, rows)
      /\ g \notin lost => undrained'[g] = Nothing
      /\ g \in lost => /\ undrained'[g] = undrained[g]
                       /\ made'[g] = made[g] \/ undrained[g] = Nothing
                       /\ queue[g] # <<>> => queue'[g] # <<>>
      /\ undrained'[g] \in [transition : Seq(Facts), rejection : Seq(Facts)]
  BY TickOpens
<1>3. /\ \E m : made' = [made EXCEPT ![g] = m]
      /\ \E k : minted' = [minted EXCEPT ![g] = k]
      /\ \E u : undrained' = [undrained EXCEPT ![g] = u]
      /\ \E q : queue' = [queue EXCEPT ![g] = q]
      /\ made'[g] = made[g] \o own \o facts
      /\ ret' = [ret EXCEPT ![g] = then]
  BY <1>1 DEF Tick, SendHead
<1>4. made'[g] \in Seq(Facts) /\ minted'[g] \in Nat /\ queue'[g] \in Seq(JournalEntry)
  BY <1>2 DEF Open, Ledger, Chronicle, Pending
<1>5. /\ made' = [made EXCEPT ![g] = made'[g]] /\ minted' = [minted EXCEPT ![g] = minted'[g]]
      /\ undrained' = [undrained EXCEPT ![g] = undrained'[g]]
      /\ queue' = [queue EXCEPT ![g] = queue'[g]]
  BY <1>1, <1>3
<1>6. /\ made' \in [Gen -> Seq(Facts)] /\ queue' \in [Gen -> Seq(JournalEntry)]
      /\ undrained' \in [Gen -> [transition : Seq(Facts), rejection : Seq(Facts)]]
      /\ minted' \in [Gen -> Nat]
  BY <1>1, <1>2, <1>4, <1>5
<1>7. (undrained'[g].rejection # <<>>) => IsTerminal(g)'
  <2>1. CASE g \notin lost BY <2>1, <1>2 DEF Nothing
  <2>2. CASE g \in lost
    <3>1. undrained[g].rejection # <<>> => IsTerminal(g) BY DEF RecordInv, Books
    <3> QED BY <2>2, <3>1, <1>2 DEF Nothing, IsTerminal
  <2> QED BY <2>1, <2>2
<1>8. CASE g \in lost \/ queue'[g] = <<>>
  <2>1. sent' = sent /\ pc' = [pc EXCEPT ![g] = then]
    BY <1>1, <1>8 DEF Tick, SendHead, Goto
  <2>2. pc'[g] = then BY <2>1, <1>1
  <2>3. Books(g)' BY <1>2, <1>7, <2>1 DEF Books
  <2>4. Passes(g, then) BY <1>2, <1>8, <2>2 DEF Passes
  <2>5. OutboxFrame(g) BY <1>1, <1>5, <2>1 DEF OutboxFrame
  <2>6. OutboxTypes' BY <1>1, <1>6, <2>1 DEF OutboxTypes
  <2> QED BY <1>3, <2>3, <2>4, <2>5, <2>6
<1>9. CASE g \notin lost /\ queue'[g] # <<>>
  <2>1. sent' = sent \union {Head(queue'[g])} /\ pc' = [pc EXCEPT ![g] = "await"]
    BY <1>1, <1>9 DEF Tick, SendHead, Goto
  <2>2. pc'[g] = "await" BY <2>1, <1>1
  <2>3. /\ Open(g, made'[g], minted'[g], queue'[g],
                undrained'[g].transition, undrained'[g].rejection, sent', rows)
        /\ Head(queue'[g]) = EntryOf(g, made'[g], minted'[g] - Len(queue'[g]) + 1)
        /\ Head(queue'[g]) \in JournalEntry
    <3>1. /\ Open(g, made'[g], minted'[g], queue'[g], undrained'[g].transition,
                  undrained'[g].rejection, sent \union {Head(queue'[g])}, rows)
          /\ Head(queue'[g]) = EntryOf(g, made'[g], minted'[g] - Len(queue'[g]) + 1)
          /\ Head(queue'[g]) \in JournalEntry
      BY <1>2, <1>9, SendKeepsOpen
    <3> QED BY <3>1, <2>1
  <2>4. Head(queue'[g]).gen = g BY <2>3 DEF EntryOf
  <2>5. Books(g)' BY <1>7, <2>3 DEF Books
  <2>6. Waits(g) BY <1>2, <1>9, <2>2 DEF Waits
  <2>7. OutboxFrame(g) BY <1>1, <1>5, <1>9, <2>1, <2>4 DEF OutboxFrame
  <2>8. OutboxTypes' BY <1>1, <1>6, <2>1, <2>3 DEF OutboxTypes
  <2> QED BY <1>3, <2>5, <2>6, <2>7, <2>8
<1> QED BY <1>8, <1>9

\* An attempt whose terminal was published has nothing left to tick.
LEMMA TickSealed ==
  ASSUME RecordInv, NEW g \in finalized, g \in Gen, NEW then, Tick(g, <<>>, <<>>, then)
  PROVE  /\ UNCHANGED <<made, queue, minted, sent>>
         /\ undrained' = undrained
         /\ pc' = [pc EXCEPT ![g] = then] /\ ret' = [ret EXCEPT ![g] = then]
<1>1. /\ made \in [Gen -> Seq(Facts)] /\ queue \in [Gen -> Seq(JournalEntry)]
      /\ undrained \in [Gen -> [transition : Seq(Facts), rejection : Seq(Facts)]]
      /\ minted \in [Gen -> Nat]
      /\ queue[g] = <<>> /\ undrained[g] = Nothing
      /\ g \notin lost
  BY DEF RecordInv, RecordTypeOK, Books, Control
<1>2. <<>> \o <<>> = <<>> /\ made[g] \o <<>> = made[g] /\ queue[g] \o <<>> = queue[g]
  <2>1. made[g] \in Seq(Facts) /\ <<>> \in Seq(Facts) BY <1>1, EmptySeq
  <2> QED BY <2>1, <1>1, ConcatEmptySeq
<1>3. Undrained(g, <<>>) = Nothing BY <1>1, <1>2 DEF Undrained, Nothing
<1>4. Entries(g, <<>>) = <<>> /\ Len(<<>>) = 0
  BY NothingMinted DEF Entries, Minted
<1>5. Entries(g, <<>> \o Undrained(g, <<>>).transition \o Undrained(g, <<>>).rejection) = <<>>
  <2>1. Undrained(g, <<>>).transition = <<>> /\ Undrained(g, <<>>).rejection = <<>>
    BY <1>3 DEF Nothing
  <2> QED BY <2>1, <1>2, <1>4
<1>6. queue' = [queue EXCEPT ![g] = queue[g] \o <<>>] /\ pc' = [pc EXCEPT ![g] = then] /\ sent' = sent
  BY <1>1, <1>2, <1>5 DEF Tick, SendHead, Goto
<1>7. made' = [made EXCEPT ![g] = made[g]]
  BY <1>1, <1>2 DEF Tick
<1>8. minted' = [minted EXCEPT ![g] = minted[g] + 0] /\ undrained' = [undrained EXCEPT ![g] = Nothing]
  BY <1>1, <1>4, <1>5 DEF Tick
<1>9. ret' = [ret EXCEPT ![g] = then] BY DEF Tick
<1> QED BY <1>1, <1>2, <1>6, <1>7, <1>8, <1>9

-----------------------------------------------------------------------------
(* Facts the machine records.                                              *)

\* What the machine records continues the chronicle.
LEMMA RecordedContinues ==
  ASSUME RecordInv, NEW g \in Gen
  PROVE  /\ Continues(g, made[g], <<>>)
         /\ \A cat \in {"transition", "rejection", "acquisition", "hold"} :
              \A to \in Terminal \union {"progress", "sealed", "none"} :
                Continues(g, made[g], <<Fact(g, 1, cat, to)>>)
         /\ \A kind \in {"complete", "end", "indeterminate"} :
              /\ Continues(g, made[g], Reached(g, kind))
              /\ OfOneCategory(g, Reached(g, kind))
              /\ Ended(made[g] \o Reached(g, kind))
              /\ Continues(g, made[g], Projected(g, kind))
              /\ Ended(made[g] \o Projected(g, kind))
<1>1. made[g] \in Seq(Facts) /\ Len(made[g]) \in Nat
  <2>1. made[g] \in Seq(Facts) BY DEF RecordInv, RecordTypeOK
  <2> QED BY <2>1, LenProperties
<1>2. Chronicle(g, made[g])
  BY DEF RecordInv, Books, Open, Sealed, Ledger
<1>3. Continues(g, made[g], <<>>) BY EmptySeq DEF Continues
<1>4. ASSUME NEW cat \in {"transition", "rejection", "acquisition", "hold"},
             NEW to \in Terminal \union {"progress", "sealed", "none"}, NEW k \in {1, 2}
      PROVE  /\ Fact(g, k, cat, to) \in Facts
             /\ Fact(g, k, cat, to).gen = g /\ Fact(g, k, cat, to).n = Len(made[g]) + k
  BY <1>1 DEF Fact, Facts
<1>5. ASSUME NEW a, NEW to, a = Fact(g, 1, "transition", to) \/ a = Rejected(g, 1),
             to \in Terminal \union {"progress", "sealed", "none"}
      PROVE  Continues(g, made[g], <<a>>)
  BY <1>4, <1>5 DEF Continues, Rejected, Terminal
<1>6. ASSUME NEW cat \in {"transition", "rejection", "acquisition", "hold"},
             NEW to \in Terminal \union {"progress", "sealed", "none"}
      PROVE  Continues(g, made[g], <<Fact(g, 1, cat, to)>>)
  BY <1>4 DEF Continues
<1>7. ASSUME NEW a \in Facts, NEW b \in Facts, a.gen = g, b.gen = g,
             a.n = Len(made[g]) + 1, b.n = Len(made[g]) + 2
      PROVE  Continues(g, made[g], <<a, b>>)
  <2>1. <<a, b>> \in Seq(Facts) /\ Len(<<a, b>>) = 2 /\ <<a, b>>[1] = a /\ <<a, b>>[2] = b OBVIOUS
  <2>2. \A i \in 1 .. Len(<<a, b>>) : i = 1 \/ i = 2 BY <2>1
  <2> QED BY <2>1, <2>2, <1>7 DEF Continues
<1>8. ASSUME NEW x, Continues(g, made[g], x), NEW last \in 1 .. 2, Len(x) = last,
             x[last].cat = "transition", x[last].to \in Terminal
      PROVE  Ended(made[g] \o x)
  <2>1. /\ Len(made[g] \o x) = Len(made[g]) + last
        /\ \A i \in 1 .. last : (made[g] \o x)[Len(made[g]) + i] = x[i]
    BY <1>2, <1>8, ChronicleGrows
  <2>2. (made[g] \o x)[Len(made[g]) + last] = x[last]
    <3>1. last \in 1 .. last OBVIOUS
    <3> QED BY <2>1, <3>1
  <2>3. Len(made[g]) + last \in 1 .. Len(made[g]) + last BY <1>1
  <2>4. Len(made[g]) + last \in 1 .. Len(made[g] \o x) BY <2>1, <2>3
  <2> QED BY <1>8, <2>2, <2>4 DEF Ended, Steps
<1>9. ASSUME NEW kind \in {"complete", "end", "indeterminate"}
      PROVE  /\ Continues(g, made[g], Reached(g, kind))
             /\ OfOneCategory(g, Reached(g, kind))
             /\ Ended(made[g] \o Reached(g, kind))
  <2>1. TerminalOf[kind] \in Terminal BY DEF TerminalOf, Terminal
  <2>2. CASE ~IsTerminal(g)
    <3> DEFINE a == Fact(g, 1, "transition", TerminalOf[kind])
    <3>1. Reached(g, kind) = <<a>> BY <2>2 DEF Reached
    <3>2. Continues(g, made[g], <<a>>) BY <2>1, <1>6
    <3>3. a.cat = "transition" /\ a.to \in Terminal BY <2>1 DEF Fact
    <3>4. undrained[g].rejection = <<>> BY <2>2 DEF RecordInv, Books
    <3> HIDE DEF a
    <3>5. Len(<<a>>) = 1 /\ <<a>>[1] = a /\ Head(<<a>>) = a OBVIOUS
    <3>6. Ended(made[g] \o <<a>>)
      <4>1. 1 \in 1 .. 2 OBVIOUS
      <4> QED BY <1>8, <3>2, <3>3, <3>5, <4>1
    <3> QED BY <3>1, <3>2, <3>3, <3>4, <3>5, <3>6 DEF OfOneCategory
  <2>3. CASE IsTerminal(g)
    <3> DEFINE a == Rejected(g, 1)
               b == Rejected(g, 2)
    <3>1. Reached(g, kind) = <<a>> \/ Reached(g, kind) = <<a, b>> BY <2>3 DEF Reached
    <3>2. /\ a \in Facts /\ a.gen = g /\ a.n = Len(made[g]) + 1 /\ a.cat = "rejection"
          /\ b \in Facts /\ b.gen = g /\ b.n = Len(made[g]) + 2
      BY <1>4 DEF Rejected, Fact
    <3>3. Continues(g, made[g], <<a>>) BY <1>6 DEF Rejected
    <3> HIDE DEF a, b
    <3>4. Continues(g, made[g], <<a, b>>) BY <1>7, <3>2
    <3>5. Head(<<a>>) = a /\ Head(<<a, b>>) = a OBVIOUS
    <3>6. Continues(g, made[g], Reached(g, kind)) BY <3>1, <3>3, <3>4
    <3>7. Ended(made[g]) BY <2>3 DEF IsTerminal
    <3>8. Ended(made[g] \o Reached(g, kind)) BY <1>2, <3>6, <3>7, EndedGrows
    <3> QED BY <3>1, <3>2, <3>5, <3>6, <3>8 DEF OfOneCategory
  <2> QED BY <2>2, <2>3
<1>10. ASSUME NEW kind \in {"complete", "end", "indeterminate"}
       PROVE  /\ Continues(g, made[g], Projected(g, kind))
              /\ Ended(made[g] \o Projected(g, kind))
  <2>1. TerminalOf[kind] \in Terminal BY DEF TerminalOf, Terminal
  <2>2. CASE kind # "complete"
    <3> DEFINE a == Fact(g, 1, "transition", TerminalOf[kind])
    <3>1. Projected(g, kind) = <<a>> BY <2>2 DEF Projected
    <3>2. Continues(g, made[g], <<a>>) BY <2>1, <1>6
    <3>3. a.cat = "transition" /\ a.to \in Terminal BY <2>1 DEF Fact
    <3> HIDE DEF a
    <3>5. Len(<<a>>) = 1 /\ <<a>>[1] = a OBVIOUS
    <3>6. Ended(made[g] \o <<a>>)
      <4>1. 1 \in 1 .. 2 OBVIOUS
      <4> QED BY <1>8, <3>2, <3>3, <3>5, <4>1
    <3> QED BY <3>1, <3>2, <3>6
  <2>3. CASE kind = "complete"
    <3> DEFINE a == Fact(g, 1, "transition", "sealed")
               b == Fact(g, 2, "transition", "completed")
    <3>1. Projected(g, kind) = <<a, b>> BY <2>3 DEF Projected
    <3>2. /\ a \in Facts /\ a.gen = g /\ a.n = Len(made[g]) + 1
          /\ b \in Facts /\ b.gen = g /\ b.n = Len(made[g]) + 2
      BY <1>4 DEF Terminal
    <3>3. b.cat = "transition" /\ b.to \in Terminal BY DEF Fact, Terminal
    <3> HIDE DEF a, b
    <3>4. Continues(g, made[g], <<a, b>>) BY <1>7, <3>2
    <3>5. Len(<<a, b>>) = 2 /\ <<a, b>>[2] = b OBVIOUS
    <3>6. Ended(made[g] \o <<a, b>>)
      <4>1. 2 \in 1 .. 2 OBVIOUS
      <4> QED BY <1>8, <3>3, <3>4, <3>5, <4>1
    <3> QED BY <3>1, <3>4, <3>6
  <2> QED BY <2>2, <2>3
<1> QED BY <1>3, <1>6, <1>9, <1>10

-----------------------------------------------------------------------------
(* The actions, one lemma each.                                            *)

\* What a step of g does to the conclusions and the fences of the others.
OthersAside(g) == \A h \in Gen \ {g} :
  produced'[h] = produced[h] /\ answer'[h] = answer[h] /\ (h \in lost' <=> h \in lost)

LEMMA AttemptStep ==
  ASSUME RecordInv, NEW g \in Gen, RecordTypeOK', Books(g)', Control(g)',
         OutboxFrame(g), OthersAside(g), UNCHANGED <<rows, finalized>>,
         high'["journal"] = high["journal"]
  PROVE  RecordInv'
<1>1. Frame(g) BY DEF Frame, OutboxFrame, OthersAside
<1> QED BY <1>1, StepKeeps

\* A step that leaves outbox and stores alone moves the attempt, and what it
\* knows and answers.
LEMMA QuietStep ==
  ASSUME RecordInv, NEW g \in Gen, RecordTypeOK', Control(g)',
         UNCHANGED <<sent, outbox, rows, finalized>>,
         NEW step, Goto(g, step), OthersAside(g), high'["journal"] = high["journal"]
  PROVE  RecordInv'
<1>1. pc \in [Gen -> Stage]
  BY DEF RecordInv, RecordTypeOK
<1>2. OutboxFrame(g) BY <1>1 DEF OutboxFrame, Goto, outbox
<1>3. Books(g)' BY BooksUntouched
<1> QED BY <1>2, <1>3, AttemptStep

\* The type invariant in parts: the outbox, and the rest of it in two.
StoreTypes ==
  /\ owner \in Gen /\ high \in [Store -> 0 .. Owners] /\ finalized \subseteq Gen
  /\ rows \in Seq(JournalEntry)
  /\ budget \in [progress : Nat, seizures : Nat, faults : Nat]
  /\ owner + budget.seizures <= Owners

ScopeTypes ==
  /\ captured \subseteq Gen /\ lost \subseteq Gen
  /\ recorded \in [Gen -> {"none", "early", "bundle"}]
  /\ produced \in [Gen -> {"none", "early", "bundle"}]

ControlTypes ==
  /\ mode \in [Gen -> {"walk", "halt", "settle", "recover"}]
  /\ wants \in [Gen -> {"complete", "end", "indeterminate"}]
  /\ pc \in [Gen -> Stage] /\ ret \in [Gen -> AfterTick]
  /\ answer \in [Gen -> {"none", "terminal", "held", "unterminated", "settlement_failed",
                        "ownership_lost"}]

LEMMA TypesInParts ==
  /\ RecordTypeOK <=> StoreTypes /\ ScopeTypes /\ ControlTypes /\ OutboxTypes
  /\ RecordTypeOK' <=> StoreTypes' /\ ScopeTypes' /\ ControlTypes' /\ OutboxTypes'
BY DEF RecordTypeOK, StoreTypes, ScopeTypes, ControlTypes, OutboxTypes

LEMMA PartsOfInv ==
  ASSUME RecordInv
  PROVE  StoreTypes /\ ScopeTypes /\ ControlTypes /\ OutboxTypes
BY TypesInParts DEF RecordInv

LEMMA QuietTypes ==
  ASSUME RecordInv
  PROVE  /\ UNCHANGED <<owner, stores, budget>> => StoreTypes'
         /\ UNCHANGED scope => ScopeTypes'
         /\ UNCHANGED <<mode, ret, wants, answer>> =>
              \A g \in Gen : \A step \in Stage : Goto(g, step) => ControlTypes' /\ pc'[g] = step
         /\ UNCHANGED <<sent, outbox>> => OutboxTypes'
<1>1. UNCHANGED <<owner, stores, budget>> => StoreTypes' BY PartsOfInv DEF stores, StoreTypes
<1>2. UNCHANGED scope => ScopeTypes' BY PartsOfInv DEF scope, ScopeTypes
<1>3. UNCHANGED <<mode, ret, wants, answer>> =>
        \A g \in Gen : \A step \in Stage : Goto(g, step) => ControlTypes' /\ pc'[g] = step
  BY PartsOfInv DEF ControlTypes, Goto
<1>4. UNCHANGED <<sent, outbox>> => OutboxTypes' BY PartsOfInv DEF outbox, OutboxTypes
<1> QED BY <1>1, <1>2, <1>3, <1>4

\* Throwing and refusing spend the budget.
LEMMA FaultsTypes ==
  ASSUME RecordInv, UNCHANGED <<owner, stores>>, Faults \/ budget' = budget
  PROVE  StoreTypes'
<1>1. StoreTypes BY PartsOfInv
<1>2. PICK p \in Nat, z \in Nat, f \in Nat : budget = [progress |-> p, seizures |-> z, faults |-> f]
  BY <1>1 DEF StoreTypes
<1>3. budget' \in [progress : Nat, seizures : Nat, faults : Nat]
  <2>1. CASE Faults
    <3>1. f > 0 /\ budget' = [progress |-> p, seizures |-> z, faults |-> f - 1]
      BY <2>1, <1>2 DEF Faults
    <3>2. f - 1 \in Nat BY <3>1
    <3> QED BY <3>1, <3>2
  <2>2. CASE budget' = budget BY <2>2, <1>1 DEF StoreTypes
  <2> QED BY <2>1, <2>2
<1>4. budget'.seizures = budget.seizures
  <2>1. CASE Faults BY <2>1, <1>2 DEF Faults
  <2> QED BY <2>1
<1> QED BY <1>1, <1>3, <1>4 DEF stores, StoreTypes

LEMMA StartInv == ASSUME RecordInv, NEW g \in Gen, Start(g) PROVE RecordInv'
<1>1. /\ UNCHANGED <<owner, stores, sent, outbox, scope, mode, ret, wants, answer, budget>>
      /\ Goto(g, "walk") /\ pc[g] = "idle"
  BY DEF Start, AtPort, At
<1>2. "walk" \in Stage BY DEF Stage, AfterTick
<1>3. RecordTypeOK' /\ pc'[g] = "walk" BY <1>1, <1>2, QuietTypes, TypesInParts
<1>4. g \notin finalized /\ answer[g] = "none" /\ undrained[g] = Nothing
  BY <1>1 DEF RecordInv, Control
<1>5. g \notin finalized' /\ answer'[g] = "none" /\ undrained'[g] = Nothing
  BY <1>1, <1>4 DEF stores, outbox
<1>6. Control(g)' BY <1>3, <1>5 DEF Control
<1>7. OthersAside(g) BY <1>1 DEF OthersAside, scope
<1> QED BY <1>1, <1>3, <1>6, <1>7, QuietStep DEF stores

LEMMA BeforePhaseInv == ASSUME RecordInv, NEW g \in Gen, BeforePhase(g) PROVE RecordInv'
<1>1. /\ UNCHANGED <<owner, stores, sent, outbox, captured, recorded, produced, mode, ret, wants, budget>>
      /\ pc[g] = "walk"
      /\ \/ Goto(g, "phase") /\ UNCHANGED <<lost, answer>>
         \/ /\ lost' = lost \union {g} /\ answer' = [answer EXCEPT ![g] = "ownership_lost"]
            /\ Goto(g, "answered")
  BY DEF BeforePhase, AtPort, At
<1>2. StoreTypes /\ ScopeTypes /\ ControlTypes BY PartsOfInv
<1>3. StoreTypes' /\ OutboxTypes' BY <1>1, QuietTypes
<1>4. ScopeTypes' BY <1>1, <1>2 DEF ScopeTypes
<1>5. ControlTypes' BY <1>1, <1>2 DEF ControlTypes, Goto, Stage, AfterTick
<1>6. RecordTypeOK' BY <1>3, <1>4, <1>5, TypesInParts
<1>7. g \notin finalized /\ answer[g] = "none" /\ undrained[g] = Nothing
  BY <1>1 DEF RecordInv, Control
<1>8. g \notin finalized' /\ undrained'[g] = Nothing BY <1>1, <1>7 DEF stores, outbox
<1>9. Control(g)'
  <2>1. CASE Goto(g, "phase") /\ UNCHANGED answer
    <3>1. pc'[g] = "phase" /\ answer'[g] = "none" BY <2>1, <1>2, <1>7 DEF Goto, ControlTypes
    <3> QED BY <3>1, <1>8 DEF Control
  <2>2. CASE Goto(g, "answered") /\ answer' = [answer EXCEPT ![g] = "ownership_lost"]
    <3>1. pc'[g] = "answered" /\ answer'[g] = "ownership_lost"
      BY <2>2, <1>2 DEF Goto, ControlTypes
    <3> QED BY <3>1, <1>8 DEF Control
  <2> QED BY <2>1, <2>2, <1>1
<1>10. OthersAside(g) BY <1>1, <1>2 DEF OthersAside, ControlTypes
<1>11. PICK step : Goto(g, step) BY <1>1
<1> QED BY <1>1, <1>6, <1>9, <1>10, <1>11, QuietStep DEF stores

\* Where a tick goes on when the append in flight is over.
LEMMA AfterAwait ==
  ASSUME RecordInv, NEW g \in Gen, pc[g] = "await"
  PROVE  /\ g \notin finalized /\ answer[g] = "none" /\ undrained[g] = Nothing
         /\ g \notin lost /\ queue[g] # <<>>
         /\ ret[g] \in AfterTick /\ ret[g] \in Stage
         /\ ret[g] \notin {"await", "commit", "answered", "idle"}
<1>1. ret[g] \in AfterTick BY PartsOfInv DEF ControlTypes
<1>2. ret[g] \in Stage /\ ret[g] \notin {"await", "commit", "answered", "idle"}
  BY <1>1 DEF Stage, AfterTick
<1>3. /\ g \notin finalized /\ answer[g] = "none" /\ undrained[g] = Nothing
      /\ g \notin lost /\ queue[g] # <<>>
  BY DEF RecordInv, Control
<1> QED BY <1>1, <1>2, <1>3

LEMMA StaysPendingInv == ASSUME RecordInv, NEW g \in Gen, StaysPending(g) PROVE RecordInv'
<1>1. /\ UNCHANGED <<owner, stores, sent, outbox, scope, mode, ret, wants, answer>>
      /\ Goto(g, ret[g]) /\ pc[g] = "await" /\ (Faults \/ budget' = budget)
  BY DEF StaysPending, AtPort, At
<1>2. /\ g \notin finalized /\ answer[g] = "none" /\ undrained[g] = Nothing
      /\ g \notin lost /\ queue[g] # <<>> /\ ret[g] \in Stage
      /\ ret[g] \notin {"await", "commit", "answered", "idle"}
  BY <1>1, AfterAwait
<1>3. RecordTypeOK' /\ pc'[g] = ret[g] BY <1>1, <1>2, QuietTypes, FaultsTypes, TypesInParts
<1>4. /\ g \notin finalized' /\ answer'[g] = "none" /\ undrained'[g] = Nothing
      /\ g \notin lost' /\ queue'[g] # <<>> /\ pc'[g] \notin {"await", "commit", "answered"}
  BY <1>1, <1>2, <1>3 DEF stores, outbox, scope
<1>5. Control(g)' BY <1>4 DEF Control
<1>6. OthersAside(g) BY <1>1 DEF OthersAside, scope
<1> QED BY <1>1, <1>3, <1>5, <1>6, QuietStep DEF stores

LEMMA RefusedInv == ASSUME RecordInv, NEW g \in Gen, Refused(g) PROVE RecordInv'
<1>1. /\ UNCHANGED <<owner, stores, sent, outbox, captured, recorded, produced,
                     mode, ret, wants, answer, budget>>
      /\ Goto(g, ret[g]) /\ pc[g] = "await" /\ lost' = lost \union {g}
  BY DEF Refused, AtPort, At
<1>2. /\ g \notin finalized /\ answer[g] = "none" /\ undrained[g] = Nothing
      /\ queue[g] # <<>> /\ ret[g] \in Stage
      /\ ret[g] \notin {"await", "commit", "answered", "idle"}
  BY <1>1, AfterAwait
<1>3. ScopeTypes' BY <1>1, PartsOfInv DEF ScopeTypes
<1>4. RecordTypeOK' /\ pc'[g] = ret[g] BY <1>1, <1>2, <1>3, QuietTypes, TypesInParts
<1>5. /\ g \notin finalized' /\ answer'[g] = "none" /\ undrained'[g] = Nothing
      /\ queue'[g] # <<>> /\ pc'[g] \notin {"await", "commit", "answered"}
  BY <1>1, <1>2, <1>4 DEF stores, outbox
<1>6. Control(g)' BY <1>5 DEF Control
<1>7. OthersAside(g) BY <1>1 DEF OthersAside
<1> QED BY <1>1, <1>4, <1>6, <1>7, QuietStep DEF stores

LEMMA CommitStaleInv == ASSUME RecordInv, NEW g \in Gen, CommitStale(g) PROVE RecordInv'
<1>1. /\ UNCHANGED <<owner, stores, sent, outbox, captured, recorded, mode, ret, wants, answer, budget>>
      /\ Goto(g, "conclude") /\ pc[g] = "commit" /\ lost' = lost \union {g}
      /\ produced' = [produced EXCEPT ![g] = "none"]
  BY DEF CommitStale, EndWith, AtPort, At
<1>2. g \notin finalized /\ answer[g] = "none" BY <1>1 DEF RecordInv, Control
<1>3. ScopeTypes' BY <1>1, PartsOfInv DEF ScopeTypes
<1>4. "conclude" \in Stage BY DEF Stage, AfterTick
<1>5. RecordTypeOK' /\ pc'[g] = "conclude" BY <1>1, <1>3, <1>4, QuietTypes, TypesInParts
<1>6. g \notin finalized' /\ answer'[g] = "none" BY <1>1, <1>2 DEF stores
<1>7. Control(g)' BY <1>5, <1>6 DEF Control
<1>8. OthersAside(g) BY <1>1, PartsOfInv DEF OthersAside, ScopeTypes
<1> QED BY <1>1, <1>5, <1>7, <1>8, QuietStep DEF stores

LEMMA RecordActionInv == ASSUME RecordInv, NEW g \in Gen, Record(g) PROVE RecordInv'
<1>1. /\ UNCHANGED <<owner, rows, finalized, sent, outbox, captured, mode, ret, wants, answer, budget>>
      /\ Goto(g, "conclude") /\ pc[g] = "record"
      /\ \E claim \in {"none", "early"} : produced' = [produced EXCEPT ![g] = claim]
      /\ lost' = lost \union {g} \/ lost' = lost
      /\ recorded' = [recorded EXCEPT ![g] = "early"] \/ recorded' = recorded
      /\ high' = [high EXCEPT !["evidence"] = g] \/ high' = high
  BY DEF Record, EndWith, AtPort, At
<1>2. g \notin finalized /\ answer[g] = "none" BY <1>1 DEF RecordInv, Control
<1>3. ScopeTypes' BY <1>1, PartsOfInv DEF ScopeTypes
<1>4. StoreTypes' /\ high'["journal"] = high["journal"]
  <2>1. g \in 0 .. Owners BY RunRecordAssumption DEF Gen
  <2>2. StoreTypes BY PartsOfInv
  <2> QED BY <1>1, <2>1, <2>2 DEF StoreTypes, Store
<1>5. "conclude" \in Stage BY DEF Stage, AfterTick
<1>6. RecordTypeOK' /\ pc'[g] = "conclude" BY <1>1, <1>3, <1>4, <1>5, QuietTypes, TypesInParts
<1>7. g \notin finalized' /\ answer'[g] = "none" BY <1>1, <1>2
<1>8. Control(g)' BY <1>6, <1>7 DEF Control
<1>9. OthersAside(g) BY <1>1, PartsOfInv DEF OthersAside, ScopeTypes
<1> QED BY <1>1, <1>4, <1>6, <1>8, <1>9, QuietStep

LEMMA ReportInv == ASSUME RecordInv, NEW g \in Gen, Report(g) PROVE RecordInv'
<1>1. /\ UNCHANGED <<owner, stores, sent, outbox, scope, mode, ret, wants, budget>>
      /\ Goto(g, "answered") /\ pc[g] = "answer"
      /\ answer' = [answer EXCEPT ![g] = Conclusion(g)]
  BY DEF Report, At
<1>2. ControlTypes BY PartsOfInv
<1>3. Conclusion(g) \in {"terminal", "held", "unterminated", "settlement_failed", "ownership_lost"}
  BY DEF Conclusion
<1>4. ControlTypes' /\ pc'[g] = "answered" /\ answer'[g] = Conclusion(g)
  BY <1>1, <1>2, <1>3 DEF ControlTypes, Goto, Stage
<1>5. RecordTypeOK' BY <1>1, <1>4, QuietTypes, TypesInParts
<1>6. g \in finalized' => Conclusion(g) = "terminal" /\ g \notin lost' /\ produced'[g] = "bundle"
  <2>1. SUFFICES ASSUME g \in finalized
                 PROVE  Conclusion(g) = "terminal" /\ g \notin lost /\ produced[g] = "bundle"
    BY <1>1 DEF stores, scope
  <2>2. g \notin lost /\ produced[g] = "bundle" BY <2>1 DEF RecordInv, Control
  <2>3. queue[g] = <<>> /\ IsTerminal(g) BY <2>1 DEF RecordInv, Books, Sealed, IsTerminal
  <2> QED BY <2>2, <2>3 DEF Conclusion
<1>7. Conclusion(g) = "held" =>
        g \notin lost /\ queue[g] = <<>> /\ undrained[g] = Nothing /\ ~IsTerminal(g) /\ HeldAt(g)
  <2> SUFFICES ASSUME Conclusion(g) = "held"
               PROVE  g \notin lost /\ queue[g] = <<>> /\ undrained[g] = Nothing
                      /\ ~IsTerminal(g) /\ HeldAt(g)
    OBVIOUS
  <2>1. g \notin lost /\ ~IsTerminal(g) /\ queue[g] = <<>> /\ HeldAt(g) BY DEF Conclusion
  <2>2. undrained[g] = Nothing BY <1>1, <2>1 DEF RecordInv, Control
  <2> QED BY <2>1, <2>2
<1>8. /\ IsTerminal(g)' <=> IsTerminal(g)
      /\ HeldAt(g)' <=> HeldAt(g)
      /\ queue' = queue /\ undrained' = undrained
  BY <1>1, BooksUntouched DEF stores, outbox
<1>9. Control(g)' BY <1>4, <1>6, <1>7, <1>8 DEF Control
<1>10. OthersAside(g) BY <1>1, <1>2 DEF OthersAside, scope, ControlTypes
<1> QED BY <1>1, <1>5, <1>9, <1>10, QuietStep DEF stores

LEMMA AnswerIncompleteInv == ASSUME RecordInv, NEW g \in Gen, AnswerIncomplete(g) PROVE RecordInv'
<1>1. /\ UNCHANGED <<owner, stores, sent, outbox, scope, mode, ret, wants, budget>>
      /\ Goto(g, "answered") /\ pc[g] = "incomplete"
  BY DEF AnswerIncomplete, At
<1>2. PICK a \in {"ownership_lost", "terminal", "settlement_failed"} :
        answer' = [answer EXCEPT ![g] = a]
  BY DEF AnswerIncomplete
<1>3. ControlTypes BY PartsOfInv
<1>4. ControlTypes' /\ pc'[g] = "answered" /\ answer'[g] = a
  BY <1>1, <1>2, <1>3 DEF ControlTypes, Goto, Stage
<1>5. RecordTypeOK' BY <1>1, <1>4, QuietTypes, TypesInParts
<1>6. g \notin finalized' BY <1>1 DEF RecordInv, Control, stores
<1>7. Control(g)' BY <1>2, <1>4, <1>6 DEF Control
<1>8. OthersAside(g) BY <1>1, <1>2, <1>3 DEF OthersAside, scope, ControlTypes
<1> QED BY <1>1, <1>5, <1>7, <1>8, QuietStep DEF stores

LEMMA RecoveredInv == ASSUME RecordInv, NEW g \in Gen, Recovered(g) PROVE RecordInv'
<1>1. /\ UNCHANGED <<owner, stores, sent, outbox, scope, mode, ret, wants, answer, budget>>
      /\ pc[g] = "recovered"
  BY DEF Recovered, At
<1>2. PICK step \in {"incomplete", "record"} : Goto(g, step) BY DEF Recovered
<1>3. step \in Stage BY <1>2 DEF Stage, AfterTick
<1>4. RecordTypeOK' /\ pc'[g] = step BY <1>1, <1>2, <1>3, QuietTypes, TypesInParts
<1>5. g \notin finalized' /\ answer'[g] = "none" BY <1>1 DEF RecordInv, Control, stores
<1>6. Control(g)' BY <1>2, <1>4, <1>5 DEF Control
<1>7. OthersAside(g) BY <1>1 DEF OthersAside, scope
<1> QED BY <1>1, <1>2, <1>4, <1>6, <1>7, QuietStep DEF stores

\* A call that is cut off, or throws, leaves its attempt to settle.
LEMMA EscapeInv ==
  ASSUME RecordInv, NEW g \in Gen,
         UNCHANGED <<owner, stores, sent, outbox, scope, ret, wants, answer>>,
         Faults \/ budget' = budget,
         pc[g] \in {"walk", "phase", "await", "commit", "record"},
         NEW step \in {"settle", "recover", "fallback", "incomplete"}, EscapeTo(g, step)
  PROVE  RecordInv'
<1>1. /\ Goto(g, step)
      /\ mode' = mode \/ (step \in {"settle", "recover"} /\ mode' = [mode EXCEPT ![g] = step])
  BY DEF EscapeTo
<1>2. ControlTypes BY PartsOfInv
<1>3. step \in Stage BY DEF Stage, AfterTick
<1>4. ControlTypes' /\ pc'[g] = step BY <1>1, <1>2, <1>3 DEF ControlTypes, Goto
<1>5. RecordTypeOK' BY <1>4, QuietTypes, FaultsTypes, TypesInParts
<1>6. g \notin finalized' /\ answer'[g] = "none" BY DEF RecordInv, Control, stores
<1>7. Control(g)' BY <1>4, <1>6 DEF Control
<1>8. OthersAside(g) BY DEF OthersAside, scope
<1> QED BY <1>1, <1>5, <1>7, <1>8, QuietStep DEF stores

LEMMA ExpiresInv == ASSUME RecordInv, NEW g \in Gen, Expires(g) PROVE RecordInv'
<1>1. mode[g] \in {"walk", "halt", "settle", "recover"} BY PartsOfInv DEF ControlTypes
<1>2. PICK step \in ToAfterExpiry(g) : EscapeTo(g, step) BY DEF Expires
<1>3. step \in {"settle", "recover", "fallback", "incomplete"} BY <1>1, <1>2 DEF ToAfterExpiry
<1> QED BY <1>2, <1>3, EscapeInv DEF Expires

LEMMA ThrowsInv ==
  ASSUME RecordInv, NEW g \in Gen, Throws(g), mode[g] # "halt" PROVE RecordInv'
<1>1. mode[g] \in {"walk", "settle", "recover"} BY PartsOfInv DEF ControlTypes
<1>2. ToAfterThrow(g) \in {"settle", "recover", "fallback", "incomplete"} BY <1>1 DEF ToAfterThrow
<1>3. EscapeTo(g, ToAfterThrow(g)) BY DEF Throws
<1> QED BY <1>2, <1>3, EscapeInv DEF Throws

LEMMA DisplaceInv == ASSUME RecordInv, Displace PROVE RecordInv'
<1>1. UNCHANGED <<stores, sent, outbox, scope, control>> BY DEF Displace
<1>2. StoreTypes'
  <2>1. StoreTypes BY PartsOfInv
  <2>2. PICK p \in Nat, z \in Nat, f \in Nat : budget = [progress |-> p, seizures |-> z, faults |-> f]
    BY <2>1 DEF StoreTypes
  <2>3. z > 0 /\ budget' = [progress |-> p, seizures |-> z - 1, faults |-> f] /\ owner' = owner + 1
    BY <2>2 DEF Displace
  <2>4. owner' \in Gen /\ owner' + budget'.seizures <= Owners
    BY <2>1, <2>2, <2>3, RunRecordAssumption DEF StoreTypes, Gen
  <2> QED BY <1>1, <2>1, <2>2, <2>3, <2>4 DEF stores, StoreTypes
<1>3. ControlTypes' BY <1>1, PartsOfInv DEF control, ControlTypes
<1>4. RecordTypeOK' BY <1>1, <1>2, <1>3, QuietTypes, TypesInParts
<1>5. \A g \in Gen : Books(g) /\ Control(g) BY DEF RecordInv
<1>6. \A g \in Gen : Books(g)' /\ Control(g)'
  BY <1>1, <1>5 DEF Books, Control, stores, outbox, scope, control, IsTerminal, HeldAt
<1>7. FencedRows' /\ ServedGenerations'
  BY <1>1 DEF RecordInv, FencedRows, ServedGenerations, stores
<1> QED BY <1>4, <1>6, <1>7 DEF RecordInv

-----------------------------------------------------------------------------
(* The actions that end in a journal tick.                                 *)

LEMMA TickStep ==
  ASSUME RecordInv, NEW g \in Gen, g \notin finalized, pc[g] # "answered",
         NEW facts, NEW own, NEW then, Tick(g, facts, own, then), then \in AfterTick,
         Continues(g, made[g], own), Continues(g, made[g], facts),
         own = <<>> \/ (facts = <<>> /\ undrained[g] = Nothing),
         OfOneCategory(g, facts), g \in lost => facts = <<>>,
         then \in {"gate", "walk", "phase", "held"} => g \notin lost,
         UNCHANGED <<owner, stores, lost, answer, budget>>,
         ScopeTypes', OthersAside(g),
         mode' \in [Gen -> {"walk", "halt", "settle", "recover"}],
         wants' \in [Gen -> {"complete", "end", "indeterminate"}]
  PROVE  RecordInv'
<1>1. /\ Books(g)' /\ OutboxTypes' /\ OutboxFrame(g)
      /\ Waits(g) \/ Passes(g, then)
      /\ ret' = [ret EXCEPT ![g] = then]
  BY TickKeeps DEF stores
<1>2. g \notin finalized' /\ answer'[g] = "none" /\ lost' = lost
  BY DEF RecordInv, Control, stores
<1>3. ControlTypes' /\ StoreTypes'
  <2>1. pc' = [pc EXCEPT ![g] = pc'[g]] BY <1>1 DEF OutboxFrame
  <2>2. pc'[g] \in Stage BY <1>1 DEF Waits, Passes, Stage
  <2>3. ControlTypes BY PartsOfInv
  <2>4. pc' \in [Gen -> Stage] BY <2>1, <2>2, <2>3 DEF ControlTypes
  <2>5. ret' \in [Gen -> AfterTick] BY <1>1, <2>3 DEF ControlTypes
  <2>6. ControlTypes' BY <2>3, <2>4, <2>5 DEF ControlTypes
  <2> QED BY <2>6, QuietTypes
<1>4. RecordTypeOK' BY <1>1, <1>3, TypesInParts
<1>5. Control(g)'
  <2>1. CASE Waits(g) BY <2>1, <1>2 DEF Waits, Control
  <2>2. CASE Passes(g, then)
    <3>1. pc'[g] = then /\ then \notin {"idle", "await", "commit", "answered"}
      BY <2>2 DEF Passes, AfterTick
    <3>2. g \notin lost => undrained'[g] = Nothing BY <2>2 DEF Passes
    <3> QED BY <3>1, <3>2, <1>2 DEF Control
  <2> QED BY <2>1, <2>2, <1>1
<1> QED BY <1>1, <1>4, <1>5, AttemptStep DEF stores

LEMMA NothingRecorded ==
  ASSUME RecordInv, NEW g \in Gen
  PROVE  Continues(g, made[g], <<>>) /\ OfOneCategory(g, <<>>)
BY RecordedContinues DEF OfOneCategory

LEMMA ConcludeTickInv == ASSUME RecordInv, NEW g \in Gen, ConcludeTick(g) PROVE RecordInv'
<1>1. PICK then \in {"conclude again", "answer"} : Tick(g, <<>>, <<>>, then) BY DEF ConcludeTick
<1>2. /\ UNCHANGED <<owner, stores, scope, mode, wants, answer, budget>>
      /\ pc[g] \in {"conclude", "conclude again"}
  BY DEF ConcludeTick, At
<1>3. ScopeTypes' BY <1>2, QuietTypes
<1>4. OthersAside(g) BY <1>2 DEF OthersAside, scope
<1>5. /\ mode' \in [Gen -> {"walk", "halt", "settle", "recover"}]
      /\ wants' \in [Gen -> {"complete", "end", "indeterminate"}]
  BY <1>2, PartsOfInv DEF ControlTypes
<1>6. then \in AfterTick /\ then \in Stage BY <1>1 DEF AfterTick, Stage
<1>7. CASE g \notin finalized
  BY <1>1, <1>2, <1>3, <1>4, <1>5, <1>6, <1>7, NothingRecorded, TickStep DEF scope
<1>8. CASE g \in finalized
  <2>1. /\ UNCHANGED <<made, queue, minted, sent>> /\ undrained' = undrained
        /\ pc' = [pc EXCEPT ![g] = then] /\ ret' = [ret EXCEPT ![g] = then]
    BY <1>1, <1>8, TickSealed
  <2>2. ControlTypes BY PartsOfInv
  <2>3. ControlTypes' /\ pc'[g] = then BY <1>2, <1>5, <1>6, <2>1, <2>2 DEF ControlTypes
  <2>4. RecordTypeOK' BY <1>2, <2>1, <2>3, QuietTypes, TypesInParts DEF outbox
  <2>5. /\ g \in finalized /\ g \notin lost /\ produced[g] = "bundle"
        /\ answer[g] = "none" /\ undrained[g] = Nothing
    BY <1>2, <1>8 DEF RecordInv, Control, Books
  <2>6. /\ g \in finalized' /\ g \notin lost' /\ produced'[g] = "bundle"
        /\ answer'[g] = "none" /\ undrained'[g] = Nothing
    BY <1>2, <2>1, <2>5 DEF stores, scope
  <2>7. Control(g)' BY <1>1, <2>3, <2>6 DEF Control
  <2> QED BY <1>2, <1>4, <2>1, <2>4, <2>7, QuietStep DEF Goto, outbox, stores
<1> QED BY <1>7, <1>8

\* In a phase, nothing is undrained and no terminal was published.
LEMMA PhaseIsOpen ==
  ASSUME RecordInv, NEW g \in Gen, pc[g] \in {"phase", "held"}
  PROVE  g \notin finalized /\ undrained[g] = Nothing /\ undrained[g].rejection = <<>>
<1>1. Control(g) BY DEF RecordInv
<1>2. g \notin finalized BY <1>1 DEF Control
<1>3. undrained[g] = Nothing BY <1>1 DEF Control
<1> QED BY <1>2, <1>3 DEF Nothing

LEMMA AcquireInv == ASSUME RecordInv, NEW g \in Gen, Acquire(g) PROVE RecordInv'
<1>1. /\ UNCHANGED <<owner, stores, scope, mode, wants, answer, budget>>
      /\ pc[g] = "phase" /\ g \notin lost
      /\ Tick(g, <<>>, <<Fact(g, 1, "acquisition", "none")>>, "phase")
  BY DEF Acquire, InPhase, AtPort, At
<1>2. g \notin finalized /\ undrained[g] = Nothing BY <1>1, PhaseIsOpen
<1>3. Continues(g, made[g], <<Fact(g, 1, "acquisition", "none")>>) BY RecordedContinues
<1>4. ScopeTypes' /\ OthersAside(g) BY <1>1, QuietTypes DEF OthersAside, scope
<1>5. /\ mode' \in [Gen -> {"walk", "halt", "settle", "recover"}]
      /\ wants' \in [Gen -> {"complete", "end", "indeterminate"}]
  BY <1>1, PartsOfInv DEF ControlTypes
<1>6. "phase" \in AfterTick BY DEF AfterTick
<1> QED BY <1>1, <1>2, <1>3, <1>4, <1>5, <1>6, NothingRecorded, TickStep DEF scope

LEMMA EarnInv == ASSUME RecordInv, NEW g \in Gen, Earn(g) PROVE RecordInv'
<1> DEFINE facts == <<Fact(g, 1, "transition", "progress")>>
<1>1. /\ UNCHANGED <<owner, stores, lost, recorded, produced, mode, wants, answer, budget>>
      /\ pc[g] = "phase" /\ g \notin lost /\ captured' = captured \union {g}
      /\ Tick(g, facts, <<>>, "walk")
  BY DEF Earn, InPhase, AtPort, At
<1>2. g \notin finalized /\ undrained[g].rejection = <<>> BY <1>1, PhaseIsOpen
<1>3. Continues(g, made[g], facts) BY RecordedContinues
<1>4. OfOneCategory(g, facts)
  <2>1. Head(facts).cat = "transition" BY DEF Fact
  <2> QED BY <1>2, <2>1 DEF OfOneCategory
<1>5. ScopeTypes' /\ OthersAside(g) BY <1>1, PartsOfInv DEF OthersAside, ScopeTypes
<1>6. /\ mode' \in [Gen -> {"walk", "halt", "settle", "recover"}]
      /\ wants' \in [Gen -> {"complete", "end", "indeterminate"}]
  BY <1>1, PartsOfInv DEF ControlTypes
<1>7. "walk" \in AfterTick BY DEF AfterTick
<1> HIDE DEF facts
<1> QED BY <1>1, <1>2, <1>3, <1>4, <1>5, <1>6, <1>7, NothingRecorded, TickStep

LEMMA HoldInv == ASSUME RecordInv, NEW g \in Gen, Hold(g) PROVE RecordInv'
<1> DEFINE facts == <<Rejected(g, 1)>>
<1>1. /\ UNCHANGED <<owner, stores, scope, mode, wants, answer, budget>>
      /\ pc[g] = "phase" /\ g \notin lost
      /\ Tick(g, facts, <<>>, "held")
  BY DEF Hold, InPhase, AtPort, At
<1>2. g \notin finalized BY <1>1, PhaseIsOpen
<1>3. Continues(g, made[g], facts) BY RecordedContinues DEF Rejected
<1>4. OfOneCategory(g, facts)
  <2>1. Head(facts).cat = "rejection" BY DEF Rejected, Fact
  <2> QED BY <2>1 DEF OfOneCategory
<1>5. ScopeTypes' /\ OthersAside(g) BY <1>1, QuietTypes DEF OthersAside, scope
<1>6. /\ mode' \in [Gen -> {"walk", "halt", "settle", "recover"}]
      /\ wants' \in [Gen -> {"complete", "end", "indeterminate"}]
  BY <1>1, PartsOfInv DEF ControlTypes
<1>7. "held" \in AfterTick BY DEF AfterTick
<1> HIDE DEF facts
<1> QED BY <1>1, <1>2, <1>3, <1>4, <1>5, <1>6, <1>7, NothingRecorded, TickStep DEF scope

LEMMA RecordHoldInv == ASSUME RecordInv, NEW g \in Gen, RecordHold(g) PROVE RecordInv'
<1> DEFINE own == <<Fact(g, 1, "hold", "none")>>
<1>1. /\ UNCHANGED <<owner, stores, captured, lost, recorded, wants, answer, budget>>
      /\ pc[g] = "held" /\ mode' = [mode EXCEPT ![g] = "halt"]
      /\ produced' = [produced EXCEPT ![g] = "none"]
      /\ Tick(g, <<>>, own, "conclude")
  BY DEF RecordHold, At
<1>2. g \notin finalized /\ undrained[g] = Nothing BY <1>1, PhaseIsOpen
<1>3. Continues(g, made[g], own) BY RecordedContinues
<1>4. ScopeTypes' /\ OthersAside(g) BY <1>1, PartsOfInv DEF OthersAside, ScopeTypes
<1>5. /\ mode' \in [Gen -> {"walk", "halt", "settle", "recover"}]
      /\ wants' \in [Gen -> {"complete", "end", "indeterminate"}]
  BY <1>1, PartsOfInv DEF ControlTypes
<1>6. "conclude" \in AfterTick BY DEF AfterTick
<1> HIDE DEF own
<1> QED BY <1>1, <1>2, <1>3, <1>4, <1>5, <1>6, NothingRecorded, TickStep

LEMMA FallbackInv == ASSUME RecordInv, NEW g \in Gen, Fallback(g) PROVE RecordInv'
<1> DEFINE facts == IF g \in lost THEN <<>> ELSE Reached(g, "end")
<1>1. /\ UNCHANGED <<owner, stores, scope, mode, wants, answer, budget>>
      /\ pc[g] = "fallback"
      /\ Tick(g, facts, <<>>, "incomplete")
  BY DEF Fallback, At
<1>2. g \notin finalized BY <1>1 DEF RecordInv, Control
<1>3. Continues(g, made[g], facts) /\ OfOneCategory(g, facts)
  BY RecordedContinues, NothingRecorded
<1>4. ScopeTypes' /\ OthersAside(g) BY <1>1, QuietTypes DEF OthersAside, scope
<1>5. /\ mode' \in [Gen -> {"walk", "halt", "settle", "recover"}]
      /\ wants' \in [Gen -> {"complete", "end", "indeterminate"}]
  BY <1>1, PartsOfInv DEF ControlTypes
<1>6. "incomplete" \in AfterTick /\ (g \in lost => facts = <<>>) BY DEF AfterTick
<1> HIDE DEF facts
<1> QED BY <1>1, <1>2, <1>3, <1>4, <1>5, <1>6, NothingRecorded, TickStep DEF scope

-----------------------------------------------------------------------------
(* The actions that record facts no tick drains yet.                       *)

\* The machine reached a terminal, or was refused it: the attempt goes on to
\* conclude or to write a record.
LEMMA ReachedStep ==
  ASSUME RecordInv, NEW g \in Gen, g \notin finalized, pc[g] # "answered",
         NEW kind \in {"complete", "end", "indeterminate"}, Records(g, Reached(g, kind)),
         NEW step \in {"conclude", "record"}, Goto(g, step),
         UNCHANGED <<owner, stores, lost, mode, ret, answer, sent>>,
         Faults \/ budget' = budget,
         ScopeTypes', OthersAside(g),
         wants' \in [Gen -> {"complete", "end", "indeterminate"}]
  PROVE  RecordInv'
<1> DEFINE facts == Reached(g, kind)
<1>1. /\ Continues(g, made[g], facts) /\ OfOneCategory(g, facts)
      /\ Ended(made[g] \o facts)
  BY RecordedContinues
<1>2. /\ Open(g, made[g] \o facts, minted[g], queue[g], Undrained(g, facts).transition,
              Undrained(g, facts).rejection, sent, rows)
      /\ Undrained(g, facts) \in [transition : Seq(Facts), rejection : Seq(Facts)]
  BY <1>1, UndrainedOutstanding
<1>3. /\ made' = [made EXCEPT ![g] = made[g] \o facts]
      /\ undrained' = [undrained EXCEPT ![g] = Undrained(g, facts)]
      /\ queue' = queue /\ minted' = minted /\ pc' = [pc EXCEPT ![g] = step]
  BY DEF Records, SameQueue, Goto
<1> HIDE DEF facts
<1>4. ControlTypes /\ OutboxTypes BY PartsOfInv
<1>5. /\ made'[g] = made[g] \o facts /\ undrained'[g] = Undrained(g, facts)
      /\ pc'[g] = step
  BY <1>3, <1>4 DEF OutboxTypes, ControlTypes
<1>6. made[g] \o facts \in Seq(Facts) BY <1>2 DEF Open, Ledger, Chronicle
<1>7. OutboxTypes' BY <1>2, <1>3, <1>4, <1>6 DEF OutboxTypes
<1>8. ControlTypes' BY <1>3, <1>4 DEF ControlTypes, Stage, AfterTick
<1>9. RecordTypeOK' BY <1>7, <1>8, FaultsTypes, TypesInParts
<1>10. OutboxFrame(g)
  BY <1>3, <1>4, <1>5 DEF OutboxFrame, OutboxTypes, ControlTypes
<1>11. IsTerminal(g)' BY <1>1, <1>5 DEF IsTerminal
<1>12. g \notin finalized' /\ rows' = rows /\ queue'[g] = queue[g] /\ minted'[g] = minted[g] /\ sent' = sent
  BY <1>3 DEF stores
<1>13. Books(g)' BY <1>2, <1>5, <1>11, <1>12 DEF Books
<1>14. answer'[g] = "none" BY DEF RecordInv, Control
<1>15. Control(g)' BY <1>5, <1>12, <1>14 DEF Control
<1> QED BY <1>9, <1>10, <1>13, <1>15, AttemptStep DEF stores

LEMMA FailClosedInv ==
  ASSUME RecordInv, NEW g \in Gen, g \notin finalized, pc[g] # "answered",
         NEW kind \in {"complete", "end", "indeterminate"}, FailClosed(g, kind),
         UNCHANGED <<owner, stores, captured, lost, recorded, mode, answer>>,
         Faults \/ budget' = budget,
         wants' \in [Gen -> {"complete", "end", "indeterminate"}]
  PROVE  RecordInv'
<1>1. /\ Records(g, Reached(g, kind)) /\ Goto(g, "conclude") /\ UNCHANGED <<sent, ret>>
      /\ produced' = [produced EXCEPT ![g] = "none"]
  BY DEF FailClosed, EndWith
<1>2. ScopeTypes' /\ OthersAside(g) BY <1>1, PartsOfInv DEF ScopeTypes, OthersAside
<1> QED BY <1>1, <1>2, ReachedStep

LEMMA FinishInv ==
  ASSUME RecordInv, NEW g \in Gen, g \notin finalized, pc[g] # "answered",
         NEW kind \in {"complete", "end", "indeterminate"}, Finish(g, kind),
         UNCHANGED <<owner, stores, captured, lost, recorded, mode, answer, budget>>
  PROVE  RecordInv'
<1>1. wants' \in [Gen -> {"complete", "end", "indeterminate"}]
  BY PartsOfInv DEF Finish, ControlTypes
<1>2. CASE g \in lost
  <2>1. EndWith(g, "none") /\ UNCHANGED outbox BY <1>2 DEF Finish
  <2>2. Goto(g, "conclude") /\ UNCHANGED <<sent, ret>> /\ produced' = [produced EXCEPT ![g] = "none"]
    BY <2>1 DEF EndWith
  <2>3. ScopeTypes' /\ OthersAside(g) BY <2>2, PartsOfInv DEF ScopeTypes, OthersAside
  <2>4. ControlTypes' /\ pc'[g] = "conclude"
    BY <1>1, <2>2, PartsOfInv DEF ControlTypes, Goto, Stage, AfterTick
  <2>5. RecordTypeOK' BY <2>1, <2>2, <2>3, <2>4, QuietTypes, TypesInParts
  <2>6. g \notin finalized' /\ answer'[g] = "none" BY DEF RecordInv, Control, stores
  <2>7. Control(g)' BY <2>4, <2>6 DEF Control
  <2> QED BY <2>1, <2>2, <2>3, <2>5, <2>7, QuietStep DEF stores
<1>3. CASE g \notin lost /\ IsTerminal(g)
  <2>1. FailClosed(g, "end") BY <1>3 DEF Finish
  <2> QED BY <1>1, <2>1, FailClosedInv
<1>4. CASE g \notin lost /\ ~IsTerminal(g)
  <2>1. Tick(g, <<>>, <<>>, "gate") /\ UNCHANGED produced BY <1>4 DEF Finish
  <2>2. ScopeTypes' /\ OthersAside(g) BY <2>1, QuietTypes DEF OthersAside, scope
  <2>3. mode' \in [Gen -> {"walk", "halt", "settle", "recover"}] BY PartsOfInv DEF ControlTypes
  <2>4. "gate" \in AfterTick BY DEF AfterTick
  <2> QED BY <1>1, <1>4, <2>1, <2>2, <2>3, <2>4, NothingRecorded, TickStep
<1> QED BY <1>2, <1>3, <1>4

LEMMA TerminateEarlyInv ==
  ASSUME RecordInv, NEW g \in Gen, g \notin finalized, pc[g] # "answered",
         NEW kind \in {"complete", "end", "indeterminate"}, TerminateEarly(g, kind),
         UNCHANGED <<owner, stores, lost, recorded, mode, wants, answer, budget>>,
         captured' \subseteq Gen
  PROVE  RecordInv'
<1>1. CASE g \in lost
  <2>1. /\ UNCHANGED outbox /\ Goto(g, "conclude") /\ UNCHANGED <<sent, ret>>
        /\ produced' = [produced EXCEPT ![g] = "none"]
    BY <1>1 DEF TerminateEarly, EndWith
  <2>2. ScopeTypes' /\ OthersAside(g) BY <2>1, PartsOfInv DEF ScopeTypes, OthersAside
  <2>3. "conclude" \in Stage BY DEF Stage, AfterTick
  <2>4. RecordTypeOK' /\ pc'[g] = "conclude" BY <2>1, <2>2, <2>3, QuietTypes, TypesInParts
  <2>5. g \notin finalized' /\ answer'[g] = "none" BY DEF RecordInv, Control, stores
  <2>6. Control(g)' BY <2>4, <2>5 DEF Control
  <2> QED BY <2>1, <2>2, <2>4, <2>6, QuietStep DEF stores
<1>2. CASE g \notin lost
  <2>1. /\ Records(g, Reached(g, kind)) /\ Goto(g, "record") /\ UNCHANGED <<ret, produced, sent>>
    BY <1>2 DEF TerminateEarly
  <2>2. ScopeTypes' /\ OthersAside(g) BY <2>1, PartsOfInv DEF ScopeTypes, OthersAside
  <2>3. wants' \in [Gen -> {"complete", "end", "indeterminate"}] BY PartsOfInv DEF ControlTypes
  <2> QED BY <2>1, <2>2, <2>3, ReachedStep
<1> QED BY <1>1, <1>2

LEMMA GateInv == ASSUME RecordInv, NEW g \in Gen, Gate(g) PROVE RecordInv'
<1>1. /\ UNCHANGED <<owner, stores, captured, lost, recorded, mode, wants, answer, budget>>
      /\ pc[g] = "gate"
  BY DEF Gate, At
<1>2. /\ g \notin finalized /\ answer[g] = "none" /\ undrained[g] = Nothing
      /\ g \in lost => queue[g] # <<>>
  BY <1>1 DEF RecordInv, Control
<1>3. wants' \in [Gen -> {"complete", "end", "indeterminate"}] BY <1>1, PartsOfInv DEF ControlTypes
<1>4. CASE queue[g] = <<>>
  <2>1. Goto(g, "commit") /\ UNCHANGED <<outbox, produced, ret, sent>> BY <1>4 DEF Gate
  <2>2. "commit" \in Stage BY DEF Stage
  <2>3. RecordTypeOK' /\ pc'[g] = "commit"
    BY <1>1, <2>1, <2>2, QuietTypes, TypesInParts DEF scope
  <2>4. /\ g \notin finalized' /\ answer'[g] = "none" /\ undrained'[g] = Nothing
        /\ g \notin lost' /\ queue'[g] = <<>>
    BY <1>1, <1>2, <1>4, <2>1 DEF stores, outbox
  <2>5. Control(g)' BY <2>3, <2>4 DEF Control
  <2>6. OthersAside(g) BY <1>1, <2>1 DEF OthersAside
  <2> QED BY <1>1, <2>1, <2>3, <2>5, <2>6, QuietStep DEF stores
<1>5. CASE queue[g] # <<>>
  <2>1. FailClosed(g, "end") BY <1>5 DEF Gate
  <2> QED BY <1>1, <1>2, <1>3, <2>1, FailClosedInv
<1> QED BY <1>4, <1>5

LEMMA CommitRefusedInv == ASSUME RecordInv, NEW g \in Gen, CommitRefused(g) PROVE RecordInv'
<1>1. /\ UNCHANGED <<owner, stores, captured, lost, recorded, mode, wants, answer>>
      /\ pc[g] = "commit" /\ Faults
  BY DEF CommitRefused, AtPort, At
<1>2. g \notin finalized BY <1>1 DEF RecordInv, Control
<1>3. /\ wants' \in [Gen -> {"complete", "end", "indeterminate"}]
      /\ wants[g] \in {"complete", "end", "indeterminate"}
  BY <1>1, PartsOfInv DEF ControlTypes
<1>4. PICK kind \in {"end"} \union IF mode[g] = "walk" THEN {} ELSE {wants[g]} : FailClosed(g, kind)
  BY DEF CommitRefused
<1>5. kind \in {"complete", "end", "indeterminate"} BY <1>3, <1>4
<1> QED BY <1>1, <1>2, <1>3, <1>4, <1>5, FailClosedInv

LEMMA PhaseTerminatesInv == ASSUME RecordInv, NEW g \in Gen, PhaseTerminates(g) PROVE RecordInv'
<1>1. /\ UNCHANGED <<owner, stores, lost, recorded, mode, answer, budget>> /\ pc[g] = "phase"
  BY DEF PhaseTerminates, AtPort, At
<1>2. g \notin finalized BY <1>1, PhaseIsOpen
<1>3. captured \subseteq Gen BY PartsOfInv DEF ScopeTypes
<1>4. PICK kind \in {"end", "complete"} :
        IF Established(g)
        THEN Finish(g, kind) /\ UNCHANGED captured
        ELSE /\ TerminateEarly(g, kind)
             /\ captured' \in {captured, captured \union {g}} /\ UNCHANGED wants
  BY DEF PhaseTerminates
<1>5. kind \in {"complete", "end", "indeterminate"} BY <1>4
<1>6. CASE Established(g) BY <1>1, <1>2, <1>4, <1>5, <1>6, FinishInv
<1>7. CASE ~Established(g)
  <2>1. captured' \subseteq Gen BY <1>3, <1>4, <1>7
  <2> QED BY <1>1, <1>2, <1>4, <1>5, <1>7, <2>1, TerminateEarlyInv
<1> QED BY <1>6, <1>7

LEMMA SettleInv == ASSUME RecordInv, NEW g \in Gen, Settle(g) PROVE RecordInv'
<1>1. /\ UNCHANGED <<owner, stores, captured, lost, recorded, mode, answer, budget>>
      /\ pc[g] = "settle"
  BY DEF Settle, At
<1>2. g \notin finalized /\ answer[g] = "none" BY <1>1 DEF RecordInv, Control
<1>3. CASE Established(g)
  <2>1. Finish(g, "end") BY <1>3 DEF Settle
  <2> QED BY <1>1, <1>2, <2>1, FinishInv
<1>4. CASE ~Established(g) /\ IsTerminal(g)
  <2>1. Goto(g, "record") /\ UNCHANGED <<sent, outbox, produced, ret, wants>> BY <1>4 DEF Settle
  <2>2. "record" \in Stage BY DEF Stage
  <2>3. RecordTypeOK' /\ pc'[g] = "record"
    BY <1>1, <2>1, <2>2, QuietTypes, TypesInParts DEF scope
  <2>4. g \notin finalized' /\ answer'[g] = "none" BY <1>1, <1>2 DEF stores
  <2>5. Control(g)' BY <2>3, <2>4 DEF Control
  <2>6. OthersAside(g) BY <1>1, <2>1 DEF OthersAside
  <2> QED BY <1>1, <2>1, <2>3, <2>5, <2>6, QuietStep DEF stores
<1>5. CASE ~Established(g) /\ ~IsTerminal(g)
  <2>1. TerminateEarly(g, "end") /\ UNCHANGED wants BY <1>5 DEF Settle
  <2>2. captured' \subseteq Gen BY <1>1, PartsOfInv DEF ScopeTypes
  <2> QED BY <1>1, <1>2, <2>1, <2>2, TerminateEarlyInv
<1> QED BY <1>3, <1>4, <1>5

LEMMA RecoverInv == ASSUME RecordInv, NEW g \in Gen, Recover(g) PROVE RecordInv'
<1>1. /\ UNCHANGED <<owner, stores, captured, lost, recorded, mode, answer, budget>>
      /\ pc[g] = "recover"
  BY DEF Recover, At
<1>2. g \notin finalized BY <1>1 DEF RecordInv, Control
<1>3. CASE g \notin lost /\ Established(g)
  <2>1. Finish(g, "indeterminate") BY <1>3 DEF Recover
  <2> QED BY <1>1, <1>2, <2>1, FinishInv
<1>4. CASE ~(g \notin lost /\ Established(g))
  <2> DEFINE facts == IF g \in lost THEN <<>> ELSE Reached(g, "indeterminate")
             then == IF g \in lost THEN "incomplete" ELSE "recovered"
  <2>1. Tick(g, facts, <<>>, then) /\ UNCHANGED <<produced, wants>> BY <1>4 DEF Recover
  <2>2. ScopeTypes' /\ OthersAside(g) BY <1>1, <2>1, QuietTypes DEF OthersAside, scope
  <2>3. /\ mode' \in [Gen -> {"walk", "halt", "settle", "recover"}]
        /\ wants' \in [Gen -> {"complete", "end", "indeterminate"}]
    BY <1>1, <2>1, PartsOfInv DEF ControlTypes
  <2>4. then \in AfterTick /\ then \notin {"gate", "walk", "phase", "held"} BY DEF AfterTick
  <2>5. Continues(g, made[g], facts) /\ OfOneCategory(g, facts)
    BY RecordedContinues, NothingRecorded
  <2>6. g \in lost => facts = <<>> OBVIOUS
  <2> HIDE DEF facts, then
  <2> QED BY <1>1, <1>2, <2>1, <2>2, <2>3, <2>4, <2>5, <2>6, NothingRecorded, TickStep
<1> QED BY <1>3, <1>4

-----------------------------------------------------------------------------
(* What lands in the journal, is acknowledged and is published.            *)

LEMMA AcknowledgedInv == ASSUME RecordInv, NEW g \in Gen, Acknowledged(g) PROVE RecordInv'
<1> DEFINE q == Tail(queue[g])
<1>1. /\ UNCHANGED <<owner, stores, made, undrained, minted, scope, mode, ret, wants, answer, budget>>
      /\ pc[g] = "await" /\ Landed(Head(queue[g])) /\ SendHead(g, q, ret[g])
  BY DEF Acknowledged, AtPort, At
<1>2. /\ g \notin finalized /\ answer[g] = "none" /\ undrained[g] = Nothing
      /\ g \notin lost /\ queue[g] # <<>> /\ ret[g] \in Stage
      /\ ret[g] \notin {"await", "commit", "answered", "idle"}
  BY <1>1, AfterAwait
<1>3. ControlTypes /\ OutboxTypes BY PartsOfInv
<1>4. PICK k \in 1 .. Len(rows) : rows[k] = Head(queue[g]) BY <1>1 DEF Landed
<1>5. /\ Open(g, made[g], minted[g], queue[g], undrained[g].transition, undrained[g].rejection, sent, rows)
      /\ undrained[g].rejection # <<>> => IsTerminal(g)
  BY <1>2 DEF RecordInv, Books
<1>6. Open(g, made[g], minted[g], q, undrained[g].transition, undrained[g].rejection, sent, rows)
  BY <1>2, <1>3, <1>4, <1>5, AckKeepsOpen DEF OutboxTypes
<1>7. q \in Seq(JournalEntry) BY <1>6 DEF Open, Ledger, Pending
<1> HIDE DEF q
<1>8. queue' = [queue EXCEPT ![g] = q] /\ queue'[g] = q BY <1>1, <1>3 DEF SendHead, OutboxTypes
<1>9. /\ made' = made /\ undrained' = undrained /\ minted' = minted
      /\ rows' = rows /\ finalized' = finalized /\ lost' = lost /\ answer' = answer
      /\ (IsTerminal(g)' <=> IsTerminal(g))
  BY <1>1 DEF stores, scope, IsTerminal
<1>10. StoreTypes' /\ ScopeTypes' /\ OthersAside(g)
  BY <1>1, QuietTypes DEF OthersAside, scope
<1>11. CASE q = <<>>
  <2>1. Goto(g, ret[g]) /\ sent' = sent BY <1>1, <1>11 DEF SendHead
  <2>2. pc' = [pc EXCEPT ![g] = ret[g]] /\ pc'[g] = ret[g] BY <2>1, <1>3 DEF Goto, ControlTypes
  <2>3. ControlTypes' BY <1>1, <1>2, <1>3, <2>2 DEF ControlTypes
  <2>4. OutboxTypes' BY <1>3, <1>7, <1>8, <1>9, <2>1 DEF OutboxTypes
  <2>5. RecordTypeOK' BY <1>10, <2>3, <2>4, TypesInParts
  <2>6. OutboxFrame(g) BY <1>3, <1>8, <1>9, <2>1, <2>2 DEF OutboxFrame, OutboxTypes, ControlTypes
  <2>7. Books(g)' BY <1>2, <1>5, <1>6, <1>8, <1>9, <2>1 DEF Books
  <2>8. Control(g)' BY <1>2, <1>9, <2>2 DEF Control
  <2> QED BY <1>1, <1>10, <2>5, <2>6, <2>7, <2>8, AttemptStep DEF stores
<1>12. CASE q # <<>>
  <2>1. Goto(g, "await") /\ sent' = sent \union {Head(q)} BY <1>1, <1>12 DEF SendHead
  <2>2. pc' = [pc EXCEPT ![g] = "await"] /\ pc'[g] = "await" BY <2>1, <1>3 DEF Goto, ControlTypes
  <2>3. ControlTypes' BY <1>1, <1>3, <2>2 DEF ControlTypes, Stage
  <2>4. /\ Open(g, made[g], minted[g], q, undrained[g].transition, undrained[g].rejection,
                sent \union {Head(q)}, rows)
        /\ Head(q) = EntryOf(g, made[g], minted[g] - Len(q) + 1)
        /\ Head(q) \in JournalEntry
    BY <1>6, <1>12, SendKeepsOpen
  <2>5. Head(q).gen = g BY <2>4 DEF EntryOf
  <2>6. OutboxTypes' BY <1>3, <1>7, <1>8, <1>9, <2>1, <2>4 DEF OutboxTypes
  <2>7. RecordTypeOK' BY <1>10, <2>3, <2>6, TypesInParts
  <2>8. OutboxFrame(g)
    BY <1>2, <1>3, <1>8, <1>9, <2>1, <2>2, <2>5 DEF OutboxFrame, OutboxTypes, ControlTypes
  <2>9. Books(g)' BY <1>2, <1>5, <1>8, <1>9, <2>1, <2>4 DEF Books
  <2>10. Control(g)' BY <1>2, <1>8, <1>9, <1>12, <2>2 DEF Control
  <2> QED BY <1>1, <1>10, <2>7, <2>8, <2>9, <2>10, AttemptStep DEF stores
<1> QED BY <1>11, <1>12

\* Rows of the generation that is served are the last ones.
LEMMA RowsStayFenced ==
  ASSUME RecordInv, NEW g \in Gen, high["journal"] <= g,
         NEW y \in Seq(JournalEntry), \A i \in 1 .. Len(y) : y[i].gen = g,
         rows' = rows \o y, high'["journal"] = g
  PROVE  FencedRows' /\ ServedGenerations'
<1>1. /\ rows \in Seq(JournalEntry) /\ high \in [Store -> 0 .. Owners]
  BY PartsOfInv DEF StoreTypes
<1>2. Len(rows) \in Nat /\ Len(y) \in Nat BY <1>1, LenProperties
<1>3. /\ Len(rows \o y) = Len(rows) + Len(y)
      /\ \A i \in 1 .. Len(rows) + Len(y) :
           (rows \o y)[i] = IF i <= Len(rows) THEN rows[i] ELSE y[i - Len(rows)]
  BY <1>1, ConcatProperties
<1>4. high["journal"] \in 0 .. Owners /\ g \in Int BY <1>1, RunRecordAssumption DEF Store, Gen
<1>5. ASSUME NEW i \in 1 .. Len(rows') PROVE rows'[i].gen \in Gen /\ rows'[i].gen <= g
  <2>1. i \in 1 .. Len(rows) + Len(y) BY <1>3
  <2>2. CASE i <= Len(rows)
    <3>1. i \in 1 .. Len(rows) BY <2>1, <2>2, <1>2
    <3>2. rows'[i] = rows[i] BY <2>1, <2>2, <1>3
    <3>3. rows[i] \in JournalEntry BY <3>1, <1>1, ElementOfSeq
    <3>4. rows[i].gen \in Gen /\ rows[i].gen \in Int
      BY <3>3, RunRecordAssumption DEF JournalEntry, Gen
    <3>5. rows[i].gen <= high["journal"] BY <3>1 DEF RecordInv, ServedGenerations
    <3> QED BY <3>2, <3>4, <3>5, <1>4, RunRecordAssumption
  <2>3. CASE ~(i <= Len(rows))
    <3>1. i - Len(rows) \in 1 .. Len(y) BY <2>1, <2>3, <1>2
    <3>2. rows'[i] = y[i - Len(rows)] BY <2>1, <2>3, <1>3
    <3> QED BY <3>1, <3>2, <1>4
  <2> QED BY <2>2, <2>3
<1>6. ServedGenerations' BY <1>5 DEF ServedGenerations
<1>7. ASSUME NEW i \in 1 .. Len(rows'), NEW j \in 1 .. Len(rows'), i < j
      PROVE  rows'[i].gen <= rows'[j].gen
  <2>1. i \in 1 .. Len(rows) + Len(y) /\ j \in 1 .. Len(rows) + Len(y) BY <1>3
  <2>2. CASE j <= Len(rows)
    <3>1. i \in 1 .. Len(rows) /\ j \in 1 .. Len(rows) BY <2>1, <2>2, <1>2, <1>7
    <3>2. rows'[i] = rows[i] /\ rows'[j] = rows[j] BY <2>1, <3>1, <1>2, <1>3
    <3> QED BY <3>1, <3>2, <1>7 DEF RecordInv, FencedRows
  <2>3. CASE ~(j <= Len(rows))
    <3>1. j - Len(rows) \in 1 .. Len(y) BY <2>1, <2>3, <1>2
    <3>2. rows'[j] = y[j - Len(rows)] BY <2>1, <2>3, <1>3
    <3>3. rows'[j].gen = g BY <3>1, <3>2
    <3> QED BY <3>3, <1>5
  <2> QED BY <2>2, <2>3
<1>8. FencedRows' BY <1>7 DEF FencedRows
<1> QED BY <1>6, <1>8

LEMMA LandInv == ASSUME RecordInv, NEW e \in sent, Land(e) PROVE RecordInv'
<1>1. /\ UNCHANGED <<owner, finalized, sent, outbox, scope, control, budget>>
      /\ ~(e.gen < high["journal"])
      /\ \A i \in 1 .. Len(rows) : ~(rows[i].gen = e.gen /\ rows[i].id = e.id)
      /\ rows' = Append(rows, e) /\ high' = [high EXCEPT !["journal"] = e.gen]
  BY DEF Land, Stale, SameIdentity
<1> DEFINE g == e.gen
<1>2. StoreTypes /\ OutboxTypes BY PartsOfInv
<1>3. e \in JournalEntry /\ g \in Gen /\ sent \subseteq JournalEntry
  BY <1>2 DEF OutboxTypes, JournalEntry
<1>4. rows \in Seq(JournalEntry) /\ high \in [Store -> 0 .. Owners] BY <1>2 DEF StoreTypes
<1>5. Append(rows, e) = rows \o <<e>> BY <1>3, <1>4, AppendIsConcat
<1>6. <<e>> \in Seq(JournalEntry) /\ \A i \in 1 .. Len(<<e>>) : <<e>>[i].gen = g
  <2>1. Len(<<e>>) = 1 /\ <<e>>[1] = e OBVIOUS
  <2>2. \A i \in 1 .. Len(<<e>>) : i = 1 BY <2>1
  <2> QED BY <1>3, <2>1, <2>2
<1>7. high["journal"] <= g /\ high'["journal"] = g
  BY <1>1, <1>3, <1>4, RunRecordAssumption DEF Store, Gen
<1>8. FencedRows' /\ ServedGenerations' BY <1>1, <1>3, <1>5, <1>6, <1>7, RowsStayFenced
<1>9. Books(g) /\ Control(g) BY <1>3 DEF RecordInv
<1>10. g \notin finalized
  <2> SUFFICES ASSUME g \in finalized PROVE FALSE OBVIOUS
  <2>1. Sealed(g, made[g], minted[g], sent, rows) BY <1>9 DEF Books
  <2>2. \E i \in 1 .. Len(rows) : rows[i].gen = e.gen /\ rows[i].id = e.id
    BY <2>1, SealedHasLanded
  <2> QED BY <1>1, <2>2
<1>11. Open(g, made[g], minted[g], queue[g], undrained[g].transition, undrained[g].rejection,
            sent, rows)
  BY <1>9, <1>10 DEF Books
<1>12. Open(g, made[g], minted[g], queue[g], undrained[g].transition, undrained[g].rejection,
            sent, Append(rows, e))
  BY <1>1, <1>3, <1>4, <1>11, LandKeepsOpen
<1>13. Books(g)' /\ Control(g)'
  BY <1>1, <1>9, <1>10, <1>12 DEF Books, Control, outbox, scope, control, IsTerminal, HeldAt
<1>14. Frame(g) BY <1>1 DEF Frame, outbox, scope, control
<1> HIDE DEF g
<1>15. ASSUME NEW h \in Gen, h # g PROVE Books(h)' /\ Control(h)'
  BY <1>1, <1>3, <1>5, <1>6, <1>14, <1>15, OthersKeep
<1>16. StoreTypes'
  <2>1. Append(rows, e) \in Seq(JournalEntry) BY <1>3, <1>4, AppendProperties
  <2>2. g \in 0 .. Owners BY <1>3, RunRecordAssumption DEF Gen
  <2>3. high' \in [Store -> 0 .. Owners] BY <1>1, <1>4, <2>2 DEF g
  <2> QED BY <1>1, <1>2, <2>1, <2>3 DEF StoreTypes
<1>17. ControlTypes' BY <1>1, PartsOfInv DEF control, ControlTypes
<1>18. RecordTypeOK' BY <1>1, <1>16, <1>17, QuietTypes, TypesInParts
<1> QED BY <1>3, <1>8, <1>13, <1>15, <1>18 DEF RecordInv

LEMMA CommitInv == ASSUME RecordInv, NEW g \in Gen, Commit(g) PROVE RecordInv'
<1> DEFINE tail == Projected(g, wants[g])
           y == [i \in 1 .. Len(tail) |-> [gen |-> g, id |-> 0, fact |-> tail[i]]]
<1>1. /\ UNCHANGED <<owner, undrained, queue, minted, captured, lost, mode, wants, answer, budget, sent, ret>>
      /\ pc[g] = "commit" /\ ~(g < high["journal"])
      /\ rows' = rows \o y /\ made' = [made EXCEPT ![g] = made[g] \o tail]
      /\ high' = [s \in Store |-> g] /\ finalized' = finalized \union {g}
      /\ recorded' = [recorded EXCEPT ![g] = "bundle"]
      /\ produced' = [produced EXCEPT ![g] = "bundle"] /\ Goto(g, "conclude")
  BY DEF Commit, AtPort, At, Superseded, Stale, Store, EndWith
<1>2. /\ StoreTypes /\ OutboxTypes /\ ControlTypes /\ ScopeTypes BY PartsOfInv
<1>3. wants[g] \in {"complete", "end", "indeterminate"} BY <1>2 DEF ControlTypes
<1>4. Continues(g, made[g], tail) /\ Ended(made[g] \o tail) BY <1>3, RecordedContinues
<1>5. Control(g) /\ Books(g) BY DEF RecordInv
<1>6. /\ g \notin lost /\ g \notin finalized /\ queue[g] = <<>> /\ undrained[g] = Nothing
      /\ answer[g] = "none"
  BY <1>1, <1>5 DEF Control
<1>7. Open(g, made[g], minted[g], <<>>, <<>>, <<>>, sent, rows)
  <2>1. Open(g, made[g], minted[g], queue[g], undrained[g].transition, undrained[g].rejection, sent, rows)
    BY <1>5, <1>6 DEF Books
  <2> QED BY <2>1, <1>6 DEF Nothing
<1>8. rows \in Seq(JournalEntry) /\ sent \subseteq JournalEntry /\ high \in [Store -> 0 .. Owners]
  BY <1>2 DEF StoreTypes, OutboxTypes
<1> HIDE DEF tail
<1>9. /\ Sealed(g, made[g] \o tail, minted[g], sent, rows \o y)
      /\ y \in Seq(JournalEntry) /\ Len(y) = Len(tail)
  BY <1>4, <1>7, <1>8, CommitSeals
<1>10. \A i \in 1 .. Len(y) : y[i].gen = g BY <1>9
<1> HIDE DEF y
<1>11. made'[g] = made[g] \o tail /\ made[g] \o tail \in Seq(Facts)
  BY <1>1, <1>2, <1>9 DEF OutboxTypes, Sealed, Chronicle
<1>12. pc'[g] = "conclude" /\ produced'[g] = "bundle"
  BY <1>1, <1>2 DEF ControlTypes, ScopeTypes, Goto
<1>13. Books(g)' BY <1>1, <1>4, <1>6, <1>9, <1>11 DEF Books, IsTerminal
<1>14. Control(g)' BY <1>1, <1>6, <1>12 DEF Control
<1>15. Frame(g) BY <1>1, <1>2 DEF Frame, Goto, OutboxTypes, ControlTypes, ScopeTypes
<1>16. ASSUME NEW h \in Gen, h # g PROVE Books(h)' /\ Control(h)'
  BY <1>1, <1>9, <1>10, <1>15, <1>16, OthersKeep
<1>17. high["journal"] <= g /\ high'["journal"] = g
  BY <1>1, <1>8, RunRecordAssumption DEF Store, Gen
<1>18. FencedRows' /\ ServedGenerations' BY <1>1, <1>9, <1>10, <1>17, RowsStayFenced
<1>19. StoreTypes'
  <2>1. rows \o y \in Seq(JournalEntry) BY <1>8, <1>9, ConcatProperties
  <2>2. high' \in [Store -> 0 .. Owners] BY <1>1, RunRecordAssumption DEF Gen
  <2> QED BY <1>1, <1>2, <2>1, <2>2 DEF StoreTypes
<1>20. ScopeTypes' BY <1>1, <1>2 DEF ScopeTypes
<1>21. ControlTypes' BY <1>1, <1>2 DEF ControlTypes, Goto, Stage, AfterTick
<1>22. OutboxTypes' BY <1>1, <1>2, <1>11 DEF OutboxTypes
<1>23. RecordTypeOK' BY <1>19, <1>20, <1>21, <1>22, TypesInParts
<1> QED BY <1>13, <1>14, <1>16, <1>18, <1>23 DEF RecordInv

-----------------------------------------------------------------------------
(* An attempt that halted at a hold only concludes: no port of its walk    *)
(* throws any more.                                                        *)

Concluded == {"conclude", "conclude again", "answer"}

Halted ==
  \A g \in Gen : mode[g] = "halt" =>
    ret[g] \in Concluded /\ pc[g] \in Concluded \union {"await", "answered"}

\* What a step of g sends, publishes and records, and where it leads.
Effects(g) ==
  /\ \A h \in Gen \ {g} :
       /\ mode'[h] = mode[h] /\ ret'[h] = ret[h] /\ pc'[h] = pc[h]
       /\ recorded'[h] = recorded[h] /\ (h \in finalized' => h \in finalized)
  /\ lost \subseteq lost'
  /\ g \in lost => recorded'[g] = recorded[g] /\ (g \in finalized' => g \in finalized)
  /\ sent' = sent \/ (pc'[g] = "await" /\ sent' = sent \union {Head(queue'[g])})
  /\ mode'[g] = "halt" => ret'[g] \in Concluded /\ pc'[g] \in Concluded \union {"await", "answered"}

\* Nothing is published or recorded, and the fence is kept or lost.
Unpublished(g) == UNCHANGED <<finalized, recorded>> /\ lost' \in {lost, lost \union {g}}

\* A step to a place off the tick.
LEMMA GotoEffects ==
  ASSUME RecordInv, NEW g \in Gen, NEW step, Goto(g, step), UNCHANGED <<sent, ret>>, Unpublished(g),
         UNCHANGED mode \/ \E m \in {"settle", "recover"} : mode' = [mode EXCEPT ![g] = m],
         mode'[g] # "halt"
  PROVE  Effects(g)
<1>1. pc' = [pc EXCEPT ![g] = step] /\ UNCHANGED <<finalized, recorded>> /\ lost \subseteq lost'
  BY DEF Goto, Unpublished
<1>2. ControlTypes BY PartsOfInv
<1>3. \A h \in Gen \ {g} : mode'[h] = mode[h] /\ ret'[h] = ret[h] /\ pc'[h] = pc[h]
  BY <1>1, <1>2 DEF ControlTypes
<1> QED BY <1>1, <1>3 DEF Effects

\* Where the head of the outbox is sent, or nothing is pending.
LEMMA SendHeadEffects ==
  ASSUME RecordInv, NEW g \in Gen, NEW q, NEW then, SendHead(g, q, then)
  PROVE  /\ sent' = sent \/ (pc'[g] = "await" /\ sent' = sent \union {Head(queue'[g])})
         /\ pc'[g] \in {"await", then} /\ \A h \in Gen \ {g} : pc'[h] = pc[h]
<1>1. pc \in [Gen -> Stage] /\ queue \in [Gen -> Seq(JournalEntry)]
  BY PartsOfInv DEF ControlTypes, OutboxTypes
<1>2. queue' = [queue EXCEPT ![g] = q] BY DEF SendHead
<1>3. queue'[g] = q BY <1>1, <1>2
<1>4. CASE q = <<>>
  <2>1. pc' = [pc EXCEPT ![g] = then] /\ sent' = sent BY <1>4 DEF SendHead, Goto
  <2> QED BY <1>1, <2>1
<1>5. CASE q # <<>>
  <2>1. pc' = [pc EXCEPT ![g] = "await"] /\ sent' = sent \union {Head(q)}
    BY <1>5 DEF SendHead, Goto
  <2> QED BY <1>1, <1>3, <2>1
<1> QED BY <1>4, <1>5

LEMMA TickMoves ==
  ASSUME RecordInv, NEW g \in Gen, NEW facts, NEW own, NEW then, Tick(g, facts, own, then)
  PROVE  /\ sent' = sent \/ (pc'[g] = "await" /\ sent' = sent \union {Head(queue'[g])})
         /\ pc'[g] \in {"await", then} /\ \A h \in Gen \ {g} : pc'[h] = pc[h]
         /\ ret'[g] = then /\ \A h \in Gen \ {g} : ret'[h] = ret[h]
<1>1. pc \in [Gen -> Stage] /\ ret \in [Gen -> AfterTick] BY PartsOfInv DEF ControlTypes
<1>2. ret' = [ret EXCEPT ![g] = then] BY DEF Tick
<1>3. CASE g \in lost
  <2>1. pc' = [pc EXCEPT ![g] = then] /\ sent' = sent BY <1>3 DEF Tick, Goto
  <2> QED BY <1>1, <1>2, <2>1
<1>4. CASE g \notin lost
  <2>1. PICK q : SendHead(g, q, then) BY <1>4 DEF Tick
  <2>2. /\ sent' = sent \/ (pc'[g] = "await" /\ sent' = sent \union {Head(queue'[g])})
        /\ pc'[g] \in {"await", then} /\ \A h \in Gen \ {g} : pc'[h] = pc[h]
    BY <2>1, SendHeadEffects
  <2> QED BY <1>1, <1>2, <2>2
<1> QED BY <1>3, <1>4

LEMMA TickEffects ==
  ASSUME RecordInv, NEW g \in Gen, NEW facts, NEW own, NEW then, Tick(g, facts, own, then),
         Unpublished(g), \A h \in Gen \ {g} : mode'[h] = mode[h],
         mode'[g] = "halt" => then \in Concluded
  PROVE  Effects(g)
<1>1. /\ sent' = sent \/ (pc'[g] = "await" /\ sent' = sent \union {Head(queue'[g])})
      /\ pc'[g] \in {"await", then} /\ \A h \in Gen \ {g} : pc'[h] = pc[h]
      /\ ret'[g] = then /\ \A h \in Gen \ {g} : ret'[h] = ret[h]
  BY TickMoves
<1> QED BY <1>1 DEF Effects, Unpublished

LEMMA FailClosedEffects ==
  ASSUME RecordInv, NEW g \in Gen, NEW kind, FailClosed(g, kind), Unpublished(g),
         UNCHANGED mode, mode[g] # "halt"
  PROVE  Effects(g)
<1>1. Goto(g, "conclude") /\ UNCHANGED <<sent, ret>> BY DEF FailClosed, EndWith
<1> QED BY <1>1, GotoEffects

LEMMA FinishEffects ==
  ASSUME RecordInv, NEW g \in Gen, NEW kind, Finish(g, kind), Unpublished(g),
         UNCHANGED mode, mode[g] # "halt"
  PROVE  Effects(g)
<1>1. CASE g \in lost
  <2>1. Goto(g, "conclude") /\ UNCHANGED <<sent, ret>> BY <1>1 DEF Finish, EndWith
  <2> QED BY <2>1, GotoEffects
<1>2. CASE g \notin lost /\ IsTerminal(g)
  <2>1. FailClosed(g, "end") BY <1>2 DEF Finish
  <2> QED BY <2>1, FailClosedEffects
<1>3. CASE g \notin lost /\ ~IsTerminal(g)
  <2>1. Tick(g, <<>>, <<>>, "gate") BY <1>3 DEF Finish
  <2> QED BY <2>1, TickEffects
<1> QED BY <1>1, <1>2, <1>3

LEMMA TerminateEarlyEffects ==
  ASSUME RecordInv, NEW g \in Gen, NEW kind, TerminateEarly(g, kind), Unpublished(g),
         UNCHANGED mode, mode[g] # "halt"
  PROVE  Effects(g)
<1>1. PICK step : Goto(g, step) /\ UNCHANGED <<sent, ret>> BY DEF TerminateEarly, EndWith
<1> QED BY <1>1, GotoEffects

LEMMA StepEffects ==
  ASSUME RecordInv, Halted, NEW g \in Gen, Start(g) \/ Progresses(g)
  PROVE  Effects(g)
<1> DEFINE Past == Concluded \union {"await", "answered"}
<1>1. /\ mode \in [Gen -> {"walk", "halt", "settle", "recover"}]
      /\ recorded \in [Gen -> {"none", "early", "bundle"}]
  BY PartsOfInv DEF ControlTypes, ScopeTypes
<1>2. mode[g] = "halt" => ret[g] \in Concluded /\ pc[g] \in Past BY DEF Halted
<1>3. pc[g] \notin Past => mode[g] # "halt" BY <1>2
<1>4. {"idle", "walk", "phase", "commit", "record", "gate", "held", "settle", "recover",
       "recovered", "fallback", "incomplete"} \intersect Past = {}
  BY DEF Concluded
<1>5. CASE Start(g)
  <2>1. /\ UNCHANGED <<sent, ret, mode, finalized, recorded, lost>> /\ Goto(g, "walk") /\ pc[g] = "idle"
    BY <1>5 DEF Start, AtPort, At, stores, scope
  <2> QED BY <2>1, <1>3, <1>4, GotoEffects DEF Unpublished
<1>6. CASE Acknowledged(g)
  <2>1. /\ UNCHANGED <<ret, mode, finalized, recorded, lost>> /\ pc[g] = "await"
        /\ SendHead(g, Tail(queue[g]), ret[g])
    BY <1>6 DEF Acknowledged, AtPort, At, stores, scope
  <2>2. /\ sent' = sent \/ (pc'[g] = "await" /\ sent' = sent \union {Head(queue'[g])})
        /\ pc'[g] \in {"await", ret[g]} /\ \A h \in Gen \ {g} : pc'[h] = pc[h]
    BY <2>1, SendHeadEffects
  <2>3. mode'[g] = "halt" => ret'[g] \in Concluded /\ pc'[g] \in Concluded \union {"await"}
    BY <1>2, <2>1, <2>2
  <2> QED BY <2>1, <2>2, <2>3 DEF Effects
<1>7. CASE StaysPending(g) \/ Refused(g)
  <2>1. /\ UNCHANGED <<sent, ret, mode, finalized, recorded>> /\ Goto(g, ret[g])
        /\ lost' \in {lost, lost \union {g}}
    BY <1>7 DEF StaysPending, Refused, stores, scope
  <2>2. pc'[g] = ret[g] /\ \A h \in Gen \ {g} : pc'[h] = pc[h]
    BY <2>1, PartsOfInv DEF ControlTypes, Goto
  <2>3. mode'[g] = "halt" => ret'[g] \in Concluded /\ pc'[g] \in Concluded
    BY <1>2, <2>1, <2>2
  <2>4. lost \subseteq lost' /\ recorded' = recorded /\ finalized' = finalized BY <2>1
  <2> QED BY <2>1, <2>2, <2>3, <2>4 DEF Effects
<1>8. CASE Gate(g)
  <2>1. /\ UNCHANGED <<mode, finalized, recorded, lost>> /\ pc[g] = "gate"
        /\ (Goto(g, "commit") /\ UNCHANGED <<ret, sent>>) \/ FailClosed(g, "end")
    BY <1>8 DEF Gate, At, stores
  <2> QED BY <2>1, <1>3, <1>4, GotoEffects, FailClosedEffects DEF Unpublished
<1>9. CASE Commit(g)
  <2>1. /\ UNCHANGED <<mode, sent, ret, lost>> /\ Goto(g, "conclude") /\ pc[g] = "commit"
        /\ finalized' = finalized \union {g} /\ recorded' = [recorded EXCEPT ![g] = "bundle"]
    BY <1>9 DEF Commit, EndWith, AtPort, At
  <2>2. g \notin lost BY <2>1 DEF RecordInv, Control
  <2>3. \A h \in Gen \ {g} : pc'[h] = pc[h] BY <2>1, PartsOfInv DEF ControlTypes, Goto
  <2>4. mode'[g] # "halt" BY <2>1, <1>3, <1>4
  <2> QED BY <2>1, <2>2, <2>3, <2>4, <1>1 DEF Effects
<1>10. CASE CommitStale(g)
  <2>1. /\ UNCHANGED <<mode, sent, ret, finalized, recorded>> /\ Goto(g, "conclude")
        /\ pc[g] = "commit" /\ lost' = lost \union {g}
    BY <1>10 DEF CommitStale, EndWith, AtPort, At, stores
  <2> QED BY <2>1, <1>3, <1>4, GotoEffects DEF Unpublished
<1>11. CASE CommitRefused(g)
  <2>1. /\ UNCHANGED <<mode, finalized, recorded, lost>> /\ pc[g] = "commit"
    BY <1>11 DEF CommitRefused, AtPort, At, stores
  <2>2. PICK kind \in {"end"} \union IF mode[g] = "walk" THEN {} ELSE {wants[g]} : FailClosed(g, kind)
    BY <1>11 DEF CommitRefused
  <2> QED BY <2>1, <2>2, <1>3, <1>4, FailClosedEffects DEF Unpublished
<1>12. CASE Record(g)
  <2>1. /\ UNCHANGED <<mode, sent, ret, finalized>> /\ Goto(g, "conclude") /\ pc[g] = "record"
        /\ \/ lost' = lost \union {g} /\ recorded' = recorded
           \/ g \notin lost /\ lost' = lost /\ recorded' = [recorded EXCEPT ![g] = "early"]
    BY <1>12 DEF Record, EndWith, AtPort, At
  <2>2. \A h \in Gen \ {g} : pc'[h] = pc[h] BY <2>1, PartsOfInv DEF ControlTypes, Goto
  <2>3. mode'[g] # "halt" BY <2>1, <1>3, <1>4
  <2> QED BY <2>1, <2>2, <2>3, <1>1 DEF Effects
<1>13. CASE ConcludeTick(g)
  <2>1. UNCHANGED <<mode, finalized, recorded, lost>> BY <1>13 DEF ConcludeTick, stores, scope
  <2>2. PICK then \in {"conclude again", "answer"} : Tick(g, <<>>, <<>>, then)
    BY <1>13 DEF ConcludeTick
  <2>3. then \in Concluded BY DEF Concluded
  <2> QED BY <2>1, <2>2, <2>3, TickEffects DEF Unpublished
<1>14. CASE Report(g)
  <2>1. /\ UNCHANGED <<sent, ret, mode, finalized, recorded, lost>> /\ Goto(g, "answered")
    BY <1>14 DEF Report, stores, scope
  <2>2. pc'[g] = "answered" /\ \A h \in Gen \ {g} : pc'[h] = pc[h]
    BY <2>1, PartsOfInv DEF ControlTypes, Goto
  <2> QED BY <2>1, <2>2, <1>2 DEF Effects
<1>15. CASE BeforePhase(g)
  <2>1. /\ UNCHANGED <<sent, ret, mode, finalized, recorded>> /\ pc[g] = "walk"
        /\ lost' \in {lost, lost \union {g}}
    BY <1>15 DEF BeforePhase, AtPort, At, stores
  <2>2. PICK step \in {"phase", "answered"} : Goto(g, step) BY <1>15 DEF BeforePhase
  <2> QED BY <2>1, <2>2, <1>3, <1>4, GotoEffects DEF Unpublished
<1>16. CASE Acquire(g)
  <2>1. /\ UNCHANGED <<mode, finalized, recorded, lost>> /\ pc[g] = "phase"
        /\ Tick(g, <<>>, <<Fact(g, 1, "acquisition", "none")>>, "phase")
    BY <1>16 DEF Acquire, InPhase, AtPort, At, stores, scope
  <2> QED BY <2>1, <1>3, <1>4, TickEffects DEF Unpublished
<1>17. CASE Earn(g)
  <2>1. /\ UNCHANGED <<mode, finalized, recorded, lost>> /\ pc[g] = "phase"
        /\ Tick(g, <<Fact(g, 1, "transition", "progress")>>, <<>>, "walk")
    BY <1>17 DEF Earn, InPhase, AtPort, At, stores
  <2> QED BY <2>1, <1>3, <1>4, TickEffects DEF Unpublished
<1>18. CASE Hold(g)
  <2>1. /\ UNCHANGED <<mode, finalized, recorded, lost>> /\ pc[g] = "phase"
        /\ Tick(g, <<Rejected(g, 1)>>, <<>>, "held")
    BY <1>18 DEF Hold, InPhase, AtPort, At, stores, scope
  <2> QED BY <2>1, <1>3, <1>4, TickEffects DEF Unpublished
<1>19. CASE RecordHold(g)
  <2>1. /\ UNCHANGED <<finalized, recorded, lost>> /\ mode' = [mode EXCEPT ![g] = "halt"]
        /\ Tick(g, <<>>, <<Fact(g, 1, "hold", "none")>>, "conclude")
    BY <1>19 DEF RecordHold, stores
  <2>2. "conclude" \in Concluded BY DEF Concluded
  <2>3. \A h \in Gen \ {g} : mode'[h] = mode[h] BY <1>1, <2>1
  <2> QED BY <2>1, <2>2, <2>3, TickEffects DEF Unpublished
<1>20. CASE PhaseTerminates(g)
  <2>1. UNCHANGED <<mode, finalized, recorded, lost>> /\ pc[g] = "phase"
    BY <1>20 DEF PhaseTerminates, AtPort, At, stores
  <2>2. \E kind \in {"end", "complete"} : Finish(g, kind) \/ TerminateEarly(g, kind)
    BY <1>20 DEF PhaseTerminates
  <2> QED BY <2>1, <2>2, <1>3, <1>4, FinishEffects, TerminateEarlyEffects DEF Unpublished
<1>21. CASE Expires(g)
  <2>1. /\ UNCHANGED <<sent, ret, finalized, recorded, lost>>
    BY <1>21 DEF Expires, stores, scope
  <2>2. PICK step \in ToAfterExpiry(g) : EscapeTo(g, step) BY <1>21 DEF Expires
  <2>3. /\ Goto(g, step)
        /\ (UNCHANGED mode /\ step \notin {"settle", "recover"})
             \/ (step \in {"settle", "recover"} /\ mode' = [mode EXCEPT ![g] = step])
    BY <2>2 DEF EscapeTo
  <2>4. mode[g] = "halt" => step = "recover" BY <2>2 DEF ToAfterExpiry
  <2>5. mode'[g] # "halt" BY <1>1, <2>3, <2>4
  <2> QED BY <2>1, <2>3, <2>5, GotoEffects DEF Unpublished
<1>22. CASE Throws(g)
  <2>1. /\ UNCHANGED <<sent, ret, finalized, recorded, lost>>
        /\ pc[g] \in {"walk", "phase", "commit", "record"} /\ EscapeTo(g, ToAfterThrow(g))
    BY <1>22 DEF Throws, stores, scope
  <2>2. PICK step : EscapeTo(g, step) BY <2>1
  <2>3. /\ Goto(g, step)
        /\ UNCHANGED mode \/ (step \in {"settle", "recover"} /\ mode' = [mode EXCEPT ![g] = step])
    BY <2>2 DEF EscapeTo
  <2>4. mode'[g] # "halt" BY <1>1, <1>3, <1>4, <2>1, <2>3
  <2> QED BY <2>1, <2>3, <2>4, GotoEffects DEF Unpublished
<1>23. CASE Settle(g)
  <2>1. UNCHANGED <<mode, finalized, recorded, lost>> /\ pc[g] = "settle"
    BY <1>23 DEF Settle, At, stores
  <2>2. \/ Finish(g, "end") \/ TerminateEarly(g, "end")
        \/ Goto(g, "record") /\ UNCHANGED <<sent, ret>>
    BY <1>23 DEF Settle
  <2> QED BY <2>1, <2>2, <1>3, <1>4, FinishEffects, TerminateEarlyEffects, GotoEffects DEF Unpublished
<1>24. CASE Recover(g)
  <2>1. UNCHANGED <<mode, finalized, recorded, lost>> /\ pc[g] = "recover"
    BY <1>24 DEF Recover, At, stores
  <2>2. \/ Finish(g, "indeterminate")
        \/ \E facts, then : Tick(g, facts, <<>>, then)
    BY <1>24 DEF Recover
  <2> QED BY <2>1, <2>2, <1>3, <1>4, FinishEffects, TickEffects DEF Unpublished
<1>25. CASE Recovered(g)
  <2>1. /\ UNCHANGED <<sent, ret, mode, finalized, recorded, lost>> /\ pc[g] = "recovered"
        /\ \E step \in {"incomplete", "record"} : Goto(g, step)
    BY <1>25 DEF Recovered, At, stores, scope
  <2> QED BY <2>1, <1>3, <1>4, GotoEffects DEF Unpublished
<1>26. CASE Fallback(g)
  <2>1. /\ UNCHANGED <<mode, finalized, recorded, lost>> /\ pc[g] = "fallback"
        /\ \E facts : Tick(g, facts, <<>>, "incomplete")
    BY <1>26 DEF Fallback, At, stores, scope
  <2> QED BY <2>1, <1>3, <1>4, TickEffects DEF Unpublished
<1>27. CASE AnswerIncomplete(g)
  <2>1. /\ UNCHANGED <<sent, ret, mode, finalized, recorded, lost>> /\ pc[g] = "incomplete"
        /\ Goto(g, "answered")
    BY <1>27 DEF AnswerIncomplete, At, stores, scope
  <2> QED BY <2>1, <1>3, <1>4, GotoEffects DEF Unpublished
<1> QED
  BY <1>5, <1>6, <1>7, <1>8, <1>9, <1>10, <1>11, <1>12, <1>13, <1>14, <1>15, <1>16, <1>17, <1>18,
     <1>19, <1>20, <1>21, <1>22, <1>23, <1>24, <1>25, <1>26, <1>27 DEF Progresses

-----------------------------------------------------------------------------
(* The invariant holds.                                                    *)

RecordIInv == RecordInv /\ Halted

LEMMA InitBooks ==
  ASSUME RecordInit
  PROVE  RecordIInv
<1>1. RecordTypeOK
  <2>1. StoreTypes BY RunRecordAssumption DEF RecordInit, StoreTypes, Gen
  <2>2. ScopeTypes /\ ControlTypes BY DEF RecordInit, ScopeTypes, ControlTypes, Stage, AfterTick
  <2>3. OutboxTypes BY DEF RecordInit, OutboxTypes, Nothing
  <2> QED BY <2>1, <2>2, <2>3, TypesInParts
<1>2. ASSUME NEW g \in Gen PROVE Books(g)
  <2>1. /\ made[g] = <<>> /\ queue[g] = <<>> /\ minted[g] = 0 /\ undrained[g] = Nothing
        /\ sent = {} /\ rows = <<>> /\ finalized = {}
    BY DEF RecordInit
  <2>2. Chronicle(g, <<>>) /\ Pending(g, <<>>, 0, <<>>) BY DEF Chronicle, Pending
  <2>3. SentBy(g, <<>>, 0, 0 - Len(<<>>) + 1, {}) BY DEF SentBy
  <2>4. Prefix(g, <<>>, 0, <<>>, 0) BY DEF Prefix
  <2>5. Ledger(g, <<>>, 0, <<>>, {}, <<>>) BY <2>2, <2>3, <2>4 DEF Ledger
  <2>6. Outstanding(<<>>, 0, <<>>, <<>>) BY DEF Outstanding
  <2> QED BY <2>1, <2>5, <2>6 DEF Books, Open, Nothing
<1>3. \A g \in Gen : Control(g) BY DEF RecordInit, Control
<1>4. FencedRows /\ ServedGenerations BY DEF RecordInit, FencedRows, ServedGenerations
<1>5. Halted BY DEF RecordInit, Halted
<1> QED BY <1>1, <1>2, <1>3, <1>4, <1>5 DEF RecordIInv, RecordInv

\* Only in the walk, in settlement or in recovery does a port throw.
LEMMA ProgressInv ==
  ASSUME RecordInv, Halted, NEW g \in Gen, Start(g) \/ Progresses(g)
  PROVE  RecordInv'
<1>1. ASSUME Throws(g) PROVE mode[g] # "halt"
  BY <1>1 DEF Throws, Halted, Concluded
<1>2. CASE Start(g) BY <1>2, StartInv
<1>3. CASE Acknowledged(g) \/ StaysPending(g) \/ Refused(g)
  BY <1>3, AcknowledgedInv, StaysPendingInv, RefusedInv
<1>4. CASE Gate(g) \/ Commit(g) \/ CommitStale(g) \/ CommitRefused(g) \/ Record(g)
  BY <1>4, GateInv, CommitInv, CommitStaleInv, CommitRefusedInv, RecordActionInv
<1>5. CASE ConcludeTick(g) \/ Report(g) BY <1>5, ConcludeTickInv, ReportInv
<1>6. CASE BeforePhase(g) \/ Acquire(g) \/ Earn(g) \/ Hold(g) \/ RecordHold(g)
  BY <1>6, BeforePhaseInv, AcquireInv, EarnInv, HoldInv, RecordHoldInv
<1>7. CASE PhaseTerminates(g) \/ Expires(g) \/ Throws(g)
  BY <1>1, <1>7, PhaseTerminatesInv, ExpiresInv, ThrowsInv
<1>8. CASE Settle(g) \/ Recover(g) \/ Recovered(g) \/ Fallback(g) \/ AnswerIncomplete(g)
  BY <1>8, SettleInv, RecoverInv, RecoveredInv, FallbackInv, AnswerIncompleteInv
<1> QED BY <1>2, <1>3, <1>4, <1>5, <1>6, <1>7, <1>8 DEF Progresses

LEMMA NextBooks ==
  ASSUME RecordIInv, [RecordNext]_recordVars
  PROVE  RecordIInv'
<1>1. RecordInv /\ Halted BY DEF RecordIInv
<1>2. CASE \E g \in Gen : Start(g) \/ Progresses(g)
  <2>1. PICK g \in Gen : Start(g) \/ Progresses(g) BY <1>2
  <2>2. RecordInv' BY <1>1, <2>1, ProgressInv
  <2>3. Effects(g) BY <1>1, <2>1, StepEffects
  <2>4. Halted' BY <1>1, <2>3 DEF Halted, Effects
  <2> QED BY <2>2, <2>4 DEF RecordIInv
<1>3. CASE \E e \in sent : Land(e)
  <2>1. PICK e \in sent : Land(e) BY <1>3
  <2>2. RecordInv' BY <1>1, <2>1, LandInv
  <2>3. Halted' BY <1>1, <2>1 DEF Halted, Land, control
  <2> QED BY <2>2, <2>3 DEF RecordIInv
<1>4. CASE Displace
  <2>1. RecordInv' BY <1>1, <1>4, DisplaceInv
  <2>2. Halted' BY <1>1, <1>4 DEF Halted, Displace, control
  <2> QED BY <2>1, <2>2 DEF RecordIInv
<1>5. CASE UNCHANGED recordVars
  <2>1. UNCHANGED <<owner, stores, sent, outbox, scope, control, budget>> BY <1>5 DEF recordVars
  <2>2. RecordTypeOK' BY <1>1, <2>1, QuietTypes, TypesInParts, PartsOfInv DEF control, ControlTypes
  <2>3. \A g \in Gen : Books(g) /\ Control(g) BY <1>1 DEF RecordInv
  <2>4. \A g \in Gen : Books(g)' /\ Control(g)'
    BY <2>1, <2>3 DEF Books, Control, stores, outbox, scope, control, IsTerminal, HeldAt
  <2>5. FencedRows' /\ ServedGenerations'
    BY <1>1, <2>1 DEF RecordInv, FencedRows, ServedGenerations, stores
  <2>6. Halted' BY <1>1, <2>1 DEF Halted, control
  <2> QED BY <2>2, <2>4, <2>5, <2>6 DEF RecordIInv, RecordInv
<1> QED BY <1>2, <1>3, <1>4, <1>5 DEF RecordNext

\* The invariant the properties of the run's record follow from: of every
\* attempt the outbox, the journal and the machine's record account together
\* for what it did (#flushJournal, Outbox, RunMachine's cursors).
THEOREM RecordInvariance == RecordSpec => []RecordIInv
<1>1. RecordInit => RecordIInv BY InitBooks
<1>2. RecordIInv /\ [RecordNext]_recordVars => RecordIInv' BY NextBooks
<1> QED BY <1>1, <1>2, PTL DEF RecordSpec

-----------------------------------------------------------------------------
(* What a reader of the journal finds.                                     *)

\* The rows of g, once each and in order, are the first r things it did.
LEMMA PrefixIsJournaled ==
  ASSUME NEW g \in Gen, NEW r \in Nat, r <= Len(made[g]), NEW given, Prefix(g, made[g], given, rows, r)
  PROVE  Journaled(g, r)
<1> DEFINE own == {i \in 1 .. Len(rows) : rows[i].gen = g}
<1>1. \A i \in own : rows[i].fact.n \in 1 .. r /\ rows[i].fact = made[g][rows[i].fact.n]
  BY DEF Prefix
<1>2. \A k \in 1 .. r : \E i \in own : rows[i].fact.n = k BY DEF Prefix
<1>3. {rows[i].fact : i \in own} \subseteq {made[g][k] : k \in 1 .. r} BY <1>1
<1>4. {made[g][k] : k \in 1 .. r} \subseteq {rows[i].fact : i \in own}
  <2> SUFFICES ASSUME NEW k \in 1 .. r PROVE made[g][k] \in {rows[i].fact : i \in own}
    OBVIOUS
  <2>1. PICK i \in own : rows[i].fact.n = k BY <1>2
  <2>2. made[g][k] = rows[i].fact BY <1>1, <2>1
  <2> QED BY <2>2
<1>5. {rows[i].fact : i \in own} = {made[g][k] : k \in 1 .. r} BY <1>3, <1>4
<1>6. \A i, j \in own : i < j => rows[i].fact.n < rows[j].fact.n BY DEF Prefix
<1> QED BY <1>5, <1>6 DEF Journaled

LEMMA SoundFromBooks ==
  ASSUME RecordInv
  PROVE  JournalIsSound
<1>1. ASSUME NEW g \in finalized PROVE Journaled(g, Len(made[g])) /\ IsTerminal(g)
  <2>1. g \in Gen BY PartsOfInv DEF StoreTypes
  <2>2. Sealed(g, made[g], minted[g], sent, rows) BY <2>1 DEF RecordInv, Books
  <2>3. Len(made[g]) \in Nat /\ Len(made[g]) <= Len(made[g])
    BY <2>2, LenProperties DEF Sealed, Chronicle
  <2> QED BY <2>1, <2>2, <2>3, PrefixIsJournaled DEF Sealed, IsTerminal
<1>2. ASSUME NEW g \in Gen, g \notin finalized
      PROVE  \E n \in 0 .. Len(made[g]) : Journaled(g, n)
  <2>1. Ledger(g, made[g], minted[g], queue[g], sent, rows) BY <1>2 DEF RecordInv, Books, Open
  <2>2. Len(made[g]) \in Nat /\ minted[g] \in Nat /\ minted[g] <= Len(made[g])
    BY <2>1, OpenNumbers
  <2>3. PICK r \in Nat : Prefix(g, made[g], minted[g], rows, r) /\ r <= minted[g]
    BY <2>1 DEF Ledger
  <2>4. r \in 0 .. Len(made[g]) BY <2>2, <2>3
  <2>5. Journaled(g, r) BY <2>3, <2>4, PrefixIsJournaled
  <2> QED BY <2>4, <2>5
<1>3. InOrder
  <2> SUFFICES ASSUME NEW g \in Gen PROVE \E n \in 0 .. Len(made[g]) : Journaled(g, n)
    BY DEF InOrder
  <2>1. CASE g \in finalized
    <3>1. Len(made[g]) \in Nat BY PartsOfInv, LenProperties DEF OutboxTypes
    <3> QED BY <2>1, <3>1, <1>1
  <2> QED BY <2>1, <1>2
<1> QED BY <1>1, <1>3 DEF JournalIsSound, SealIsLast, RecordInv

\* The journal holds of each attempt a prefix of what it did, all of it once
\* its terminal is published, and no entry of a displaced attempt after one of
\* its successor (#flushJournal, finish's gate and FenceLedger), whatever
\* throws, is retried, arrives late or twice.
THEOREM JournalIsSoundAlways == RecordSpec => []JournalIsSound
<1>1. RecordIInv => JournalIsSound BY SoundFromBooks DEF RecordIInv
<1> QED BY <1>1, RecordInvariance, PTL

\* What an attempt claims to have produced it recorded, and a bundle is recorded
\* only when its commit is published.
Claims(g) ==
  /\ produced[g] # "none" => recorded[g] # "none"
  /\ recorded[g] = "bundle" => g \in finalized
  /\ answer[g] = "terminal" => IsTerminal(g) /\ recorded[g] # "none"

ClaimsInv == \A g \in Gen : Claims(g)

\* A step of g that records nothing, answers nothing and claims nothing new.
Unclaimed(g) ==
  /\ UNCHANGED <<recorded, answer, finalized>>
  /\ UNCHANGED produced \/ produced' = [produced EXCEPT ![g] = "none"]
  /\ UNCHANGED made \/ \E x : made' = [made EXCEPT ![g] = x]

LEMMA UnclaimedKeeps ==
  ASSUME RecordInv, ClaimsInv, NEW g \in Gen, Unclaimed(g), pc[g] # "answered"
  PROVE  ClaimsInv'
<1>1. /\ made \in [Gen -> Seq(Facts)]
      /\ produced \in [Gen -> {"none", "early", "bundle"}]
  BY PartsOfInv DEF OutboxTypes, ScopeTypes
<1>2. answer[g] = "none" BY DEF RecordInv, Control
<1>3. ASSUME NEW h \in Gen PROVE Claims(h)'
  <2>1. produced'[h] = produced[h] \/ produced'[h] = "none" BY <1>1 DEF Unclaimed
  <2>2. h # g => made'[h] = made[h] BY <1>1 DEF Unclaimed
  <2>3. h # g => (IsTerminal(h)' <=> IsTerminal(h)) BY <2>2 DEF IsTerminal
  <2> QED BY <1>2, <2>1, <2>3 DEF Claims, ClaimsInv, Unclaimed
<1> QED BY <1>3 DEF ClaimsInv

LEMMA TickUnclaimed ==
  ASSUME NEW g \in Gen, NEW facts, NEW own, NEW then, Tick(g, facts, own, then)
  PROVE  \E x : made' = [made EXCEPT ![g] = x]
<1>1. made' = [made EXCEPT ![g] = @ \o own \o facts] BY DEF Tick
<1> QED BY <1>1

\* Every way to end short of a commit or a record claims nothing.
LEMMA EndUnclaimed ==
  ASSUME NEW g \in Gen, UNCHANGED <<recorded, answer, finalized>>,
         \/ \E kind : FailClosed(g, kind) \/ Finish(g, kind) \/ TerminateEarly(g, kind)
  PROVE  Unclaimed(g)
<1>1. CASE \E kind : FailClosed(g, kind)
  BY <1>1 DEF FailClosed, Records, EndWith, Unclaimed
<1>2. CASE \E kind : Finish(g, kind)
  <2>1. PICK kind : Finish(g, kind) BY <1>2
  <2>2. CASE g \in lost BY <2>1, <2>2 DEF Finish, EndWith, outbox, Unclaimed
  <2>3. CASE g \notin lost /\ IsTerminal(g)
    <3>1. FailClosed(g, "end") BY <2>1, <2>3 DEF Finish
    <3> QED BY <3>1, <1>1
  <2>4. CASE g \notin lost /\ ~IsTerminal(g)
    <3>1. Tick(g, <<>>, <<>>, "gate") /\ UNCHANGED produced BY <2>1, <2>4 DEF Finish
    <3> QED BY <3>1, TickUnclaimed DEF Unclaimed
  <2> QED BY <2>2, <2>3, <2>4
<1>3. CASE \E kind : TerminateEarly(g, kind)
  <2>1. PICK kind : TerminateEarly(g, kind) BY <1>3
  <2>2. CASE g \in lost BY <2>1, <2>2 DEF TerminateEarly, EndWith, outbox, Unclaimed
  <2>3. CASE g \notin lost BY <2>1, <2>3 DEF TerminateEarly, Records, Unclaimed
  <2> QED BY <2>2, <2>3
<1> QED BY <1>1, <1>2, <1>3

\* What an attempt answers follows from what it recorded; once it answered it
\* does nothing more.
LEMMA ProgressClaims ==
  ASSUME RecordInv, ClaimsInv, NEW g \in Gen, Start(g) \/ Progresses(g)
  PROVE  ClaimsInv'
<1>1. /\ made \in [Gen -> Seq(Facts)]
      /\ produced \in [Gen -> {"none", "early", "bundle"}]
      /\ recorded \in [Gen -> {"none", "early", "bundle"}]
      /\ answer \in [Gen -> {"none", "terminal", "held", "unterminated", "settlement_failed",
                            "ownership_lost"}]
  BY PartsOfInv DEF OutboxTypes, ScopeTypes, ControlTypes
<1>2. pc[g] # "answered" => answer[g] = "none" BY DEF RecordInv, Control
<1>3. \A h \in Gen : Claims(h) BY DEF ClaimsInv
<1>4. CASE Start(g) \/ StaysPending(g) \/ Recovered(g)
  <2>1. /\ UNCHANGED <<stores, outbox, scope, answer>> /\ pc[g] # "answered"
    BY <1>4 DEF Start, StaysPending, Recovered, AtPort, At
  <2> QED BY <2>1, UnclaimedKeeps DEF stores, outbox, scope, Unclaimed
<1>5. CASE Acknowledged(g) \/ Refused(g) \/ CommitStale(g)
  <2>1. /\ UNCHANGED <<stores, made, recorded, answer>> /\ pc[g] # "answered"
        /\ UNCHANGED produced \/ produced' = [produced EXCEPT ![g] = "none"]
    BY <1>5 DEF Acknowledged, Refused, CommitStale, EndWith, scope, outbox, AtPort, At
  <2> QED BY <2>1, UnclaimedKeeps DEF stores, Unclaimed
<1>6. CASE Gate(g) \/ CommitRefused(g)
  <2>1. /\ UNCHANGED <<stores, recorded, answer>> /\ pc[g] # "answered"
        /\ (UNCHANGED <<outbox, produced>>) \/ \E kind : FailClosed(g, kind)
    BY <1>6 DEF Gate, CommitRefused, AtPort, At
  <2> QED BY <2>1, EndUnclaimed, UnclaimedKeeps DEF stores, outbox, Unclaimed
<1>7. CASE ConcludeTick(g) \/ Acquire(g) \/ Earn(g) \/ Hold(g) \/ Fallback(g)
  <2>1. /\ UNCHANGED <<stores, recorded, produced, answer>> /\ pc[g] # "answered"
        /\ \E facts, own, then : Tick(g, facts, own, then)
    BY <1>7 DEF ConcludeTick, Acquire, Earn, Hold, Fallback, InPhase, AtPort, At, scope
  <2> QED BY <2>1, TickUnclaimed, UnclaimedKeeps DEF stores, Unclaimed
<1>8. CASE RecordHold(g)
  <2>1. /\ UNCHANGED <<stores, recorded, answer>> /\ pc[g] # "answered"
        /\ produced' = [produced EXCEPT ![g] = "none"]
        /\ \E facts, own, then : Tick(g, facts, own, then)
    BY <1>8 DEF RecordHold, At
  <2> QED BY <2>1, TickUnclaimed, UnclaimedKeeps DEF stores, Unclaimed
<1>9. CASE PhaseTerminates(g)
  <2>1. /\ UNCHANGED <<stores, recorded, answer>> /\ pc[g] # "answered"
        /\ \E kind : Finish(g, kind) \/ TerminateEarly(g, kind)
    BY <1>9 DEF PhaseTerminates, AtPort, At
  <2> QED BY <2>1, EndUnclaimed, UnclaimedKeeps DEF stores
<1>10. CASE Expires(g) \/ Throws(g)
  <2>1. /\ UNCHANGED <<stores, outbox, scope, answer>> /\ pc[g] # "answered"
    BY <1>10 DEF Expires, Throws
  <2> QED BY <2>1, UnclaimedKeeps DEF stores, outbox, scope, Unclaimed
<1>11. CASE Settle(g)
  <2>1. UNCHANGED <<stores, recorded, answer>> /\ pc[g] # "answered"
    BY <1>11 DEF Settle, At
  <2>2. \/ \E kind : Finish(g, kind) \/ TerminateEarly(g, kind)
        \/ /\ Established(g) \/ IsTerminal(g)
           /\ UNCHANGED <<made, produced>>
    <3>1. CASE Established(g)
      <4>1. Finish(g, "end") BY <1>11, <3>1 DEF Settle
      <4> QED BY <4>1
    <3>2. CASE ~Established(g) /\ IsTerminal(g) BY <1>11, <3>2 DEF Settle, outbox
    <3>3. CASE ~Established(g) /\ ~IsTerminal(g)
      <4>1. TerminateEarly(g, "end") BY <1>11, <3>3 DEF Settle
      <4> QED BY <4>1
    <3> QED BY <3>1, <3>2, <3>3
  <2> QED BY <2>1, <2>2, EndUnclaimed, UnclaimedKeeps DEF stores, Unclaimed
<1>12. CASE Recover(g)
  <2>1. UNCHANGED <<stores, recorded, answer>> /\ pc[g] # "answered"
    BY <1>12 DEF Recover, At
  <2>2. \/ Finish(g, "indeterminate")
        \/ UNCHANGED produced /\ \E facts, own, then : Tick(g, facts, own, then)
    BY <1>12 DEF Recover
  <2> QED BY <2>1, <2>2, EndUnclaimed, TickUnclaimed, UnclaimedKeeps DEF stores, Unclaimed
<1>13. CASE Commit(g)
  <2>1. /\ UNCHANGED answer /\ pc[g] = "commit"
        /\ finalized' = finalized \union {g} /\ recorded' = [recorded EXCEPT ![g] = "bundle"]
        /\ produced' = [produced EXCEPT ![g] = "bundle"]
        /\ \E x : made' = [made EXCEPT ![g] = x]
    BY <1>13 DEF Commit, EndWith, AtPort, At
  <2>2. ASSUME NEW h \in Gen, h # g PROVE Claims(h)'
    <3>1. /\ recorded'[h] = recorded[h] /\ produced'[h] = produced[h] /\ made'[h] = made[h]
      BY <1>1, <2>1, <2>2
    <3> QED BY <1>3, <2>1, <3>1 DEF Claims, IsTerminal
  <2>3. Claims(g)' BY <1>1, <1>2, <2>1 DEF Claims
  <2> QED BY <2>2, <2>3 DEF ClaimsInv
<1>14. CASE Record(g)
  <2>1. /\ UNCHANGED <<answer, finalized, made>> /\ pc[g] = "record"
        /\ \/ produced' = [produced EXCEPT ![g] = "none"] /\ recorded' = recorded
           \/ /\ recorded' = [recorded EXCEPT ![g] = "early"]
              /\ produced' = [produced EXCEPT ![g] = "early"]
    BY <1>14 DEF Record, EndWith, AtPort, At, outbox
  <2>2. ASSUME NEW h \in Gen, h # g PROVE Claims(h)'
    <3>1. recorded'[h] = recorded[h] /\ produced'[h] = produced[h] BY <1>1, <2>1, <2>2
    <3> QED BY <1>3, <2>1, <3>1 DEF Claims, IsTerminal
  <2>3. Claims(g)' BY <1>1, <1>2, <1>3, <2>1 DEF Claims
  <2> QED BY <2>2, <2>3 DEF ClaimsInv
<1>15. ASSUME NEW a, UNCHANGED <<recorded, produced, finalized, made>>,
              UNCHANGED answer \/ answer' = [answer EXCEPT ![g] = a],
              a = "terminal" => IsTerminal(g) /\ (produced[g] # "none" \/ recorded[g] # "none")
       PROVE  ClaimsInv'
  <2>1. ASSUME NEW h \in Gen PROVE Claims(h)'
    <3>1. IsTerminal(h)' <=> IsTerminal(h) BY <1>15 DEF IsTerminal
    <3>2. answer'[h] = answer[h] \/ (h = g /\ answer'[h] = a) BY <1>1, <1>15
    <3>3. Claims(h) BY <1>3
    <3> QED BY <1>15, <3>1, <3>2, <3>3 DEF Claims
  <2> QED BY <2>1 DEF ClaimsInv
<1>16. CASE Report(g)
  <2>1. answer' = [answer EXCEPT ![g] = Conclusion(g)] BY <1>16 DEF Report
  <2>2. Conclusion(g) = "terminal" => IsTerminal(g) /\ produced[g] # "none" BY DEF Conclusion
  <2>3. UNCHANGED <<recorded, produced, finalized, made>>
    BY <1>16 DEF Report, stores, scope, outbox
  <2> QED BY <1>15, <2>1, <2>2, <2>3
<1>17. CASE BeforePhase(g)
  <2>1. UNCHANGED answer \/ answer' = [answer EXCEPT ![g] = "ownership_lost"]
    BY <1>17 DEF BeforePhase
  <2>2. UNCHANGED <<recorded, produced, finalized, made>>
    BY <1>17 DEF BeforePhase, stores, outbox
  <2> QED BY <1>15, <2>1, <2>2
<1>18. CASE AnswerIncomplete(g)
  <2>1. PICK a : /\ answer' = [answer EXCEPT ![g] = a]
                 /\ a = CASE g \in lost -> "ownership_lost"
                          [] g \notin lost /\ recorded[g] # "none" /\ IsTerminal(g) -> "terminal"
                          [] OTHER -> "settlement_failed"
    BY <1>18 DEF AnswerIncomplete
  <2>2. a = "terminal" => IsTerminal(g) /\ recorded[g] # "none" BY <2>1
  <2>3. UNCHANGED <<recorded, produced, finalized, made>>
    BY <1>18 DEF AnswerIncomplete, stores, scope, outbox
  <2> QED BY <1>15, <2>1, <2>2, <2>3
<1> QED
  BY <1>4, <1>5, <1>6, <1>7, <1>8, <1>9, <1>10, <1>11, <1>12, <1>13, <1>14, <1>16, <1>17,
     <1>18 DEF Progresses

LEMMA NextClaims ==
  ASSUME RecordIInv, ClaimsInv, [RecordNext]_recordVars
  PROVE  ClaimsInv'
<1>1. CASE \E g \in Gen : Start(g) \/ Progresses(g)
  BY <1>1, ProgressClaims DEF RecordIInv
<1>2. CASE (\E e \in sent : Land(e)) \/ Displace \/ UNCHANGED recordVars
  <2>1. UNCHANGED <<recorded, produced, answer, finalized, made>>
    BY <1>2 DEF Land, Displace, recordVars, stores, outbox, scope, control
  <2> QED BY <2>1 DEF ClaimsInv, Claims, IsTerminal
<1> QED BY <1>1, <1>2 DEF RecordNext

\* What is claimed is recorded (EndWith: the produced of a conclusion).
LEMMA ClaimsInvariance == RecordSpec => []ClaimsInv
<1>1. RecordInit => ClaimsInv BY DEF RecordInit, ClaimsInv, Claims
<1>2. RecordIInv /\ ClaimsInv /\ [RecordNext]_recordVars => ClaimsInv' BY NextClaims
<1> QED BY <1>1, <1>2, RecordInvariance, PTL DEF RecordSpec

LEMMA TrueFromControl ==
  ASSUME RecordInv, ClaimsInv
  PROVE  ConclusionsAreTrue
<1>1. \A g \in Gen : Books(g) /\ Control(g) BY DEF RecordInv
<1>2. PublishedIsReported
  <2>1. finalized \subseteq Gen BY PartsOfInv DEF StoreTypes
  <2> QED BY <1>1, <2>1 DEF PublishedIsReported, Control
<1>3. ASSUME NEW g \in Gen, answer[g] = "held"
      PROVE  Journaled(g, Len(made[g])) /\ ~IsTerminal(g) /\ HeldAt(g)
  <2>1. queue[g] = <<>> /\ undrained[g] = Nothing /\ ~IsTerminal(g) /\ HeldAt(g) /\ g \notin finalized
    BY <1>1, <1>3 DEF Control
  <2>2. Open(g, made[g], minted[g], <<>>, <<>>, <<>>, sent, rows) BY <1>1, <2>1 DEF Books, Nothing
  <2>3. Prefix(g, made[g], minted[g], rows, Len(made[g])) BY <2>2, DrainedIsComplete
  <2>4. Len(made[g]) \in Nat /\ Len(made[g]) <= Len(made[g]) BY <2>2, OpenNumbers DEF Open
  <2> QED BY <2>1, <2>3, <2>4, PrefixIsJournaled
<1>4. TerminalIsRecorded
  <2>1. recorded \in [Gen -> {"none", "early", "bundle"}] BY PartsOfInv DEF ScopeTypes
  <2> QED BY <2>1 DEF TerminalIsRecorded, ClaimsInv, Claims
<1> QED BY <1>2, <1>3, <1>4 DEF ConclusionsAreTrue, HeldIsDurable

\* An attempt whose terminal was published answers that it terminated, one that
\* answers that it terminated recorded it, and one that answers that it is held
\* left a complete journal that says so (conclude, incomplete), at every
\* interleaving and whatever fails.
THEOREM ConclusionsAreTrueAlways == RecordSpec => []ConclusionsAreTrue
<1>1. RecordIInv /\ ClaimsInv => ConclusionsAreTrue BY TrueFromControl DEF RecordIInv
<1> QED BY <1>1, RecordInvariance, ClaimsInvariance, PTL

LEMMA SilentStep ==
  ASSUME RecordIInv, [RecordNext]_recordVars, NEW h \in lost
  PROVE  /\ \A e \in sent' \ sent : e.gen # h
         /\ h \in finalized' => h \in finalized
         /\ recorded'[h] = recorded[h]
<1>1. RecordInv /\ Halted /\ RecordInv' BY NextBooks DEF RecordIInv
<1>2. CASE \E g \in Gen : Start(g) \/ Progresses(g)
  <2>1. PICK g \in Gen : Start(g) \/ Progresses(g) BY <1>2
  <2>2. Effects(g) BY <1>1, <2>1, StepEffects
  <2>3. h \in Gen BY <1>1, PartsOfInv DEF ScopeTypes
  <2>4. recorded'[h] = recorded[h] /\ (h \in finalized' => h \in finalized) BY <2>2, <2>3 DEF Effects
  <2>5. ASSUME NEW e \in sent', e \notin sent PROVE e.gen = g /\ g \notin lost
    <3>1. pc'[g] = "await" /\ e = Head(queue'[g]) BY <2>2, <2>5 DEF Effects
    <3>2. Books(g)' /\ Control(g)' BY <1>1 DEF RecordInv
    <3>3. g \notin lost' /\ queue'[g] # <<>> /\ g \notin finalized' BY <3>1, <3>2 DEF Control
    <3>4. Pending(g, made'[g], minted'[g], queue'[g]) BY <3>2, <3>3 DEF Books, Open, Ledger
    <3>5. queue'[g] \in Seq(JournalEntry) BY <3>4 DEF Pending
    <3>6. Len(queue'[g]) \in Nat /\ Len(queue'[g]) # 0
      BY <3>3, <3>5, EmptySeq, LenProperties
    <3>7. 1 \in 1 .. Len(queue'[g]) BY <3>6
    <3>8. Head(queue'[g]) = queue'[g][1] BY <3>3, <3>5
    <3>9. PICK k : queue'[g][1] = EntryOf(g, made'[g], k) BY <3>4, <3>7 DEF Pending
    <3>10. e.gen = g BY <3>1, <3>8, <3>9 DEF EntryOf
    <3> QED BY <2>2, <3>3, <3>10 DEF Effects
  <2> QED BY <2>4, <2>5
<1>3. CASE \E e \in sent : Land(e)
  <2>1. UNCHANGED <<sent, finalized, recorded>> BY <1>3 DEF Land, scope
  <2> QED BY <2>1
<1>4. CASE Displace
  <2>1. UNCHANGED <<sent, finalized, recorded>> BY <1>4 DEF Displace, scope, stores
  <2> QED BY <2>1
<1>5. CASE UNCHANGED recordVars
  <2>1. UNCHANGED <<sent, finalized, recorded>> BY <1>5 DEF recordVars, scope, stores
  <2> QED BY <2>1
<1> QED BY <1>2, <1>3, <1>4, <1>5 DEF RecordNext

\* An attempt that knows it lost the fence sends no append, publishes no
\* terminal and writes no record (loseFence, #flushJournal's guard).
THEOREM LostIsSilentAlways == RecordSpec => LostIsSilent
<1> DEFINE Silent == \A g \in lost : /\ \A e \in sent' \ sent : e.gen # g
                                     /\ g \in finalized' => g \in finalized
                                     /\ recorded'[g] = recorded[g]
<1>1. RecordIInv /\ [RecordNext]_recordVars => [Silent]_recordVars BY SilentStep
<1>2. RecordSpec => [][Silent]_recordVars BY <1>1, RecordInvariance, PTL DEF RecordSpec
<1> QED BY <1>2 DEF LostIsSilent

=============================================================================
