------------------------------ MODULE RunLease ------------------------------
(***************************************************************************)
(* Ownership of runs: the lease (InMemoryRunLease, run-state/in-memory.ts) *)
(* and the callers that claim it (Runner.run, orchestration/run.ts).       *)
(*                                                                         *)
(* A caller presents one claim attempt, whose id is unique.  Its requests  *)
(* travel to the lease: `wire' is the set of requests ever sent, so one    *)
(* may be delayed, delivered again (a retransmission) or never delivered.  *)
(* The caller's deadline may expire while the claim is outstanding, before *)
(* or after the lease granted it; the caller then tells the lease that the *)
(* attempt is abandoned and reports the run as not started.                *)
(***************************************************************************)
EXTENDS Naturals

CONSTANTS Run,            \* run ids
          Attempt,        \* claim attempts: one per call of Runner.run
          RunOf,          \* the run each attempt is for
          MaxGeneration   \* bound on the generations a seizure may mint

ASSUME RunLeaseAssumption == /\ RunOf \in [Attempt -> Run]
                             /\ MaxGeneration \in Nat

VARIABLES
  held,        \* held[r]: the generation holding run r, 0 for none
  known,       \* known[a]: what the lease recorded of attempt a
  earned,      \* earned[a]: the generation attempt a was granted, 0 for none
  generation,  \* the last generation minted, over all runs
  caller,      \* caller[a]: where the call of Runner.run is
  mine,        \* mine[a]: the generation the caller was answered
  raised,      \* attempts whose claim signal is aborted
  wire,        \* requests sent to the lease, <<kind, attempt>>
  answers      \* claim answers, <<attempt, generation>>, 0 for a refusal

leaseVars  == <<held, known, earned, generation>>
callerVars == <<caller, mine, raised>>
vars == <<held, known, earned, generation, caller, mine, raised, wire, answers>>

-----------------------------------------------------------------------------
(* The caller: Runner.run and #abandonClaim.                               *)

Init == /\ held = [r \in Run |-> 0]
        /\ known = [a \in Attempt |-> "unknown"]
        /\ earned = [a \in Attempt |-> 0]
        /\ generation = 0
        /\ caller = [a \in Attempt |-> "idle"]
        /\ mine = [a \in Attempt |-> 0]
        /\ raised = {}
        /\ wire = {}
        /\ answers = {}

Claim(a) == /\ caller[a] = "idle"
            /\ caller' = [caller EXCEPT ![a] = "claiming"]
            /\ wire' = wire \union {<<"claim", a>>}
            /\ UNCHANGED <<leaseVars, mine, raised, answers>>

\* The acquisition budget elapses or the caller cancels.
Raise(a) == /\ caller[a] = "claiming"
            /\ raised' = raised \union {a}
            /\ UNCHANGED <<leaseVars, caller, mine, wire, answers>>

\* #abandonClaim: the lease is told, or the message never arrives.
AbandonClaim(a) == wire' = wire \union {<<"abandon", a>>}

\* The guarded call rejected (the abort, or a store that threw): the outcome
\* of the attempt is unknown, so it is abandoned and nothing is started.
GiveUp(a) == /\ caller[a] = "claiming"
             /\ caller' = [caller EXCEPT ![a] = "not_started"]
             /\ AbandonClaim(a)
             /\ UNCHANGED <<leaseVars, mine, raised, answers>>

\* deadline.call re-checks the abort when the answer arrives.
Answered(a, g) == /\ caller[a] = "claiming"
                  /\ a \notin raised
                  /\ <<a, g>> \in answers
                  /\ caller' = [caller EXCEPT ![a] = IF g = 0 THEN "refused" ELSE "owner"]
                  /\ mine' = [mine EXCEPT ![a] = g]
                  /\ UNCHANGED <<leaseVars, raised, wire, answers>>

\* The walk ended, or renew told it the run moved on; the lease is released.
Conclude(a) == /\ caller[a] = "owner"
               /\ caller' = [caller EXCEPT ![a] = "concluded"]
               /\ wire' = wire \union {<<"release", a>>}
               /\ UNCHANGED <<leaseVars, mine, raised, answers>>

-----------------------------------------------------------------------------
(* Faulty variants of the lease, each the slip one property is there for.  *)

\* The claim grants a spent attempt again.
GrantableSpent(a) == /\ known[a] \in {"unknown", "granted"}
                     /\ a \notin raised
                     /\ held[RunOf[a]] = 0

\* The last generation is used again once one was minted.
MintReuses == IF generation = 0 THEN 1 ELSE generation

\* abandon records the attempt and leaves its grant standing.
AbandonKeepsGrant(a) ==
  /\ <<"abandon", a>> \in wire
  /\ known' = [known EXCEPT ![a] = "abandoned"]
  /\ UNCHANGED <<held, earned, generation, callerVars, wire, answers>>

\* release does not look at the generation it is given.
ReleaseUnfenced(a) ==
  /\ <<"release", a>> \in wire
  /\ held' = [held EXCEPT ![RunOf[a]] = 0]
  /\ UNCHANGED <<known, earned, generation, callerVars, wire, answers>>

-----------------------------------------------------------------------------
(* The lease: InMemoryRunLease.                                            *)

\* renew: this generation still holds the run.
Holds(r, g) == held[r] = g

Current(a) == earned[a] # 0 /\ Holds(RunOf[a], earned[a])

Answer(a, g) == answers' = answers \union {<<a, g>>}

\* One counter for all runs: a generation is never minted twice.
Mint == generation + 1

Grantable(a) == /\ known[a] = "unknown"
                /\ a \notin raised
                /\ held[RunOf[a]] = 0

HandleClaim(a) ==
  /\ <<"claim", a>> \in wire
  /\ \/ /\ Grantable(a)
        /\ generation' = Mint
        /\ held' = [held EXCEPT ![RunOf[a]] = Mint]
        /\ known' = [known EXCEPT ![a] = "granted"]
        /\ earned' = [earned EXCEPT ![a] = Mint]
        /\ Answer(a, Mint)
     \/ /\ ~Grantable(a)
        /\ Answer(a, IF known[a] = "granted" /\ Current(a) THEN earned[a] ELSE 0)
        /\ UNCHANGED leaseVars
  /\ UNCHANGED <<callerVars, wire>>

HandleAbandon(a) ==
  /\ <<"abandon", a>> \in wire
  /\ held' = IF known[a] = "granted" /\ Current(a)
             THEN [held EXCEPT ![RunOf[a]] = 0] ELSE held
  /\ known' = [known EXCEPT ![a] = "abandoned"]
  /\ UNCHANGED <<earned, generation, callerVars, wire, answers>>

HandleRelease(a) ==
  /\ <<"release", a>> \in wire
  /\ held' = IF Holds(RunOf[a], mine[a]) THEN [held EXCEPT ![RunOf[a]] = 0] ELSE held
  /\ UNCHANGED <<known, earned, generation, callerVars, wire, answers>>

\* SEIZE: ownership moves to a rival no attempt of the model stands for.
Seize(r) == /\ generation < MaxGeneration
            /\ generation' = Mint
            /\ held' = [held EXCEPT ![r] = Mint]
            /\ UNCHANGED <<known, earned, callerVars, wire, answers>>

-----------------------------------------------------------------------------
Next == \/ \E a \in Attempt : \/ Claim(a) \/ Raise(a) \/ GiveUp(a) \/ Conclude(a)
                              \/ HandleClaim(a) \/ HandleAbandon(a) \/ HandleRelease(a)
        \/ \E a \in Attempt : \E g \in 0 .. generation : Answered(a, g)
        \/ \E r \in Run : Seize(r)

Spec == Init /\ [][Next]_vars

\* The in-process lease runs every abandon and release it is handed.
Fairness == \A a \in Attempt : WF_vars(HandleAbandon(a)) /\ WF_vars(HandleRelease(a))

FairSpec == Spec /\ Fairness

-----------------------------------------------------------------------------
(* Properties.                                                             *)

\* Type invariant; an answer never names a generation not yet minted.
TypeOK ==
  /\ held \in [Run -> 0 .. generation]
  /\ known \in [Attempt -> {"unknown", "granted", "abandoned"}]
  /\ earned \in [Attempt -> 0 .. generation]
  /\ generation \in Nat
  /\ caller \in [Attempt -> {"idle", "claiming", "owner", "refused", "not_started", "concluded"}]
  /\ mine \in [Attempt -> 0 .. generation]
  /\ raised \subseteq Attempt
  /\ wire \subseteq {"claim", "abandon", "release"} \X Attempt
  /\ answers \subseteq Attempt \X (0 .. generation)

\* An attempt the lease was told is abandoned holds nothing, whatever was
\* delivered before or after: the delayed claim, a second abandon, a
\* retransmission (abandon and the resolved-attempt checks of claim).
NoOrphanedGrant == \A a \in Attempt : known[a] = "abandoned" => ~Current(a)

\* A caller that is still working and still holds its run loses it only to a
\* newer generation: no late release or abandon of another attempt frees the
\* run under it (release checks the generation it presents).
DisplacedOnlyByNewer ==
  [][\A a \in Attempt :
       caller[a] = "owner" /\ caller'[a] = "owner" /\ held[RunOf[a]] = mine[a]
         => held'[RunOf[a]] >= mine[a]]_vars

\* Whoever takes a run presents a generation above every generation that was
\* ever granted to an attempt: stale writers can be told from the owner.
FencedGenerations ==
  [][\A r \in Run : held'[r] \notin {0, held[r]}
       => /\ held'[r] > held[r]
          /\ \A a \in Attempt : earned[a] < held'[r]]_vars

\* A caller that gave up or concluded does not leave the run held by its
\* attempt: its abandon or release reaches the lease and frees the run.
Freed == \A a \in Attempt :
           caller[a] \in {"not_started", "concluded"} ~> [](~Current(a))

\* The run lease implements exclusive, single-interval ownership.
Promise == INSTANCE Ownership WITH
  phase <- [a \in Attempt |->
              IF Current(a) THEN "owner"
              ELSE IF earned[a] # 0 \/ known[a] = "abandoned" THEN "spent" ELSE "fresh"],
  rival <- {r \in Run : held[r] # 0 /\ \A a \in Attempt : RunOf[a] = r => ~Current(a)}

\* Every step of the lease is a step of Ownership, or changes nothing there.
OwnershipSpec == Promise!Spec

=============================================================================
