---------------------------- MODULE RunAccount -----------------------------
(***************************************************************************)
(* What a run says of itself: from the authority it acquires, through the  *)
(* adapter's report, its gates and the host's observations, to the second  *)
(* acquisition, the verification and the bundle that is sealed             *)
(* (orchestration/phases, packages/runner-core).  The adapter is that of   *)
(* Adapter; the session that runs it is external.                          *)
(*                                                                         *)
(* What RunPhases and RunRecord are about is left out: resources, clocks,  *)
(* the journal.  An awaited call may be interrupted, or its port may       *)
(* throw, and the run is settled there with what it knows.  A document is  *)
(* its own digest.  A source holds any of its documents whenever it is     *)
(* read.  What the provider or a gate left running changes the workspace   *)
(* at any time; a change counts from the next reading on, so changes are   *)
(* made only where a reading is next.  Nor does it matter to the account   *)
(* when an interruption meets an entry that works: it is taken at the end. *)
(***************************************************************************)
EXTENDS Adapter

CONSTANTS Requests,       \* what may be asked for, and in `documents' what
                          \* each source may hold meanwhile
          SourcePath,     \* SourcePath[s]: where in the workspace it is
          Path,           \* paths of the workspace
          Undecidable,    \* those, and link targets, no normal form is known of
          MaxWrites       \* bound: changes of the workspace

Source == <<"profile", "path_policy", "gate_registry">>
Contract == [profile |-> "execution-profile", path_policy |-> "path-policy",
             gate_registry |-> "gate-registry"]
SourceName == DOMAIN Contract

ASSUME RunAccountAssumption == /\ MaxWrites \in Nat
                               /\ \A r \in Requests : DOMAIN r.documents = SourceName
                               /\ DOMAIN SourcePath = SourceName

VARIABLES
  request,
  writes,       \* changes of the workspace so far
  at,           \* where the walk is
  lost,         \* scope.fenceLost
  tokens,       \* tokens[e]: sources of epoch e that were not consumed
  production,   \* production[s]: the document captured
  verification, \* verification[s]: the document acquired again
  files,        \* the workspace; its baseline is Pristine
  half,         \* events of calls asked to be emitted
  evidence,     \* scope.terminalEvidence
  fresh,        \* the artifacts observed for verification
  landed,       \* events of calls on the stream
  since,        \* the sources as they were after the observations, and the
                \* artifacts after that
  applied,      \* changes that left the workspace
  bundle        \* what the run sealed

acquired == <<tokens, production, verification>>
world == <<files, writes, since>>
outputs == <<landed, applied, bundle>>
runVars == <<request, at, lost, acquired, world, half, evidence, fresh, outputs>>
accountVars == <<adapterVars, runVars>>

NoArtifacts == [ok |-> TRUE, of |-> <<>>]
EmptyEvidence ==
  [gates |-> <<>>, observed |-> {}, artifacts |-> NoArtifacts,
   operations |-> [attempted |-> <<>>, permitted |-> {}, denied |-> {}]]
File(content) == [link |-> Null, content |-> content]
Link(to) == [link |-> to, content |-> "link"]
Pristine == [p \in Path |-> File("base")]

AccountInit == /\ AdapterInit
               /\ request \in Requests
               /\ writes = 0 /\ at = "acquire" /\ lost = FALSE
               /\ tokens = [e \in {"production", "verification"} |-> Source]
               /\ production = [s \in SourceName |-> Null]
               /\ verification = [s \in SourceName |-> Null]
               /\ files = Pristine
               /\ half = 0 /\ evidence = EmptyEvidence /\ fresh = NoArtifacts
               /\ landed = {} /\ since = [sources |-> {}, artifacts |-> {}]
               /\ applied = {} /\ bundle = Null

-----------------------------------------------------------------------------
(* Authority (acquisition/epochs.ts, tokens.ts; authority/capture.ts).     *)

\* A document is captured, refused, or could not be read.
CaptureAuthority(read, s) ==
  IF ~read.ok THEN "failed"
  ELSE IF ~read.document.json \/ read.document.contract # Contract[s] \/ ~read.document.valid
  THEN "refused" ELSE "captured"

\* The token is spent before the read, whatever comes of it.
Consume(e) == tokens' = [tokens EXCEPT ![e] = Tail(@)]

Readings(s) == {[ok |-> FALSE]} \union {[ok |-> TRUE, document |-> d] : d \in request.documents[s]}

\* What the profile says must be what was asked for.
Resolves == production["profile"].name = request.profile

NoRepeats(q) == Cardinality({q[i] : i \in DOMAIN q}) = Len(q)
DecideEligibility ==
  /\ NoRepeats(request.gates)
  /\ \A i \in DOMAIN request.gates : request.gates[i] \in production["gate_registry"].gates

-----------------------------------------------------------------------------
(* Decisions of the core (packages/runner-core).                           *)

\* Observations of the provider's end may disagree.
ClassifyTerminal(t) ==
  /\ ~(t.exit_code = 0 /\ t.signalled # Null)
  /\ ~(t.exit_code \notin {Null, 0} /\ t.reported = "success")
  /\ ~(t.exit_code = 0 /\ t.transcript \notin {Null, "success"})

\* A policy's roots and prohibitions are the paths under them.
DecideMaterialization(policy, changes) ==
  LET protected == policy.prohibited \union {SourcePath[s] : s \in SourceName}
      effective(c) == IF c.link = Null THEN c.path ELSE c.link
  IN /\ \A c \in changes : {c.path, effective(c)} \intersect Undecidable = {}
     /\ \A c \in changes : {c.path, effective(c)} \intersect protected = {}
     /\ \A c \in changes : {c.path, effective(c)} \subseteq policy.roots
     /\ Cardinality(changes) <= policy.max_files

\* The candidate: identities are those of the documents captured.
Bundle(terminal) ==
  [terminal |-> terminal, identities |-> production, operations |-> evidence.operations,
   gates |-> evidence.gates, artifacts |-> evidence.artifacts.of, observed |-> evidence.observed]

ConstructEvidence(terminal) ==
  IF ~evidence.artifacts.ok THEN "failed"
  ELSE IF terminal = "COMPLETED" /\ ~DecideMaterialization(production["path_policy"], evidence.observed)
  THEN "refused" ELSE "constructed"

\* A mutant of VerifyEvidence: the artifacts are taken at their word.
VerifyIdentities(b) ==
  IF \A s \in SourceName : b.identities[s] = verification[s] THEN "verified" ELSE "refused"

\* Identities of what was read again, and exactly the artifacts seen again.
VerifyEvidence(b) ==
  IF ~fresh.ok THEN "failed"
  ELSE IF /\ \A s \in SourceName : b.identities[s] = verification[s]
          /\ b.artifacts = fresh.of
  THEN "verified" ELSE "refused"

-----------------------------------------------------------------------------
(* The end of a run (orchestration/terminate.ts, settle.ts).               *)

\* Nothing is written for a run that is lost; what cannot be assembled is
\* not sealed; a seal may fail.
Sealed(terminal) == IF lost' \/ ConstructEvidence(terminal)' # "constructed" THEN {Null}
                    ELSE {Null, Bundle(terminal)'}

Finish(terminal) == /\ at' = "ended"
                    /\ bundle' \in Sealed(terminal)

\* Before PROFILE_RESOLVED the record is the early one.
TerminateEarly == at' = "ended" /\ UNCHANGED bundle

Lose == lost' = TRUE /\ at' = "ended" /\ UNCHANGED bundle

Goes(to) == at' = to /\ UNCHANGED bundle

\* Where the run waits for a port with authority in hand.
Awaits == at \in {"announce", "invoke", "invoked", "complete", "gates",
                  "observe", "artifacts", "reacquire", "fresh", "confirm", "apply"}
Interrupted == {"CANCELLED", "INDETERMINATE"}

Interrupt == /\ Awaits
             /\ at = "invoked" => entry \in {"reported", "dead", "crashed"}
             /\ UNCHANGED <<lost, acquired, evidence>>
             /\ \E terminal \in Interrupted : Finish(terminal)
             /\ UNCHANGED <<adapterVars, request, world, half, fresh, landed, applied>>

-----------------------------------------------------------------------------
(* The walk.                                                               *)

SameAcquired == UNCHANGED <<adapterVars, request, world, half, evidence, fresh, landed, applied>>

\* The production epoch: without every source there is no authority.
Acquire ==
  LET s == Head(tokens["production"]) IN
  /\ at = "acquire"
  /\ Consume("production")
  /\ \E read \in Readings(s) :
       IF CaptureAuthority(read, s) = "captured"
       THEN /\ production' = [production EXCEPT ![s] = read.document]
            /\ \/ Goes(IF Len(tokens["production"]) = 1 THEN "resolve" ELSE "acquire")
               \/ TerminateEarly
       ELSE UNCHANGED production /\ TerminateEarly
  /\ UNCHANGED <<lost, verification>> /\ SameAcquired

ResolveProfile == /\ at = "resolve"
                  /\ UNCHANGED <<lost, acquired>> /\ SameAcquired
                  /\ IF ~Resolves THEN TerminateEarly
                     ELSE IF ~DecideEligibility THEN Finish("REFUSED")
                     ELSE Goes("announce")

\* An event that is about no call.
Emission(from, to) == /\ at = from
                      /\ UNCHANGED acquired /\ SameAcquired
                      /\ \/ Lose
                         \/ /\ UNCHANGED lost
                            /\ Goes(to) \/ Finish("OPERATIONAL_FAILURE")
Announce == Emission("announce", "invoke")
Complete == Emission("complete", "gates")

\* What the adapter is given is the captured profile's.
Invocation(form) ==
  LET p == production["profile"] IN
  [form |-> form, adapter |-> p.adapter, grant |-> p.grant, network |-> "deny",
   budget |-> p.budget, credentials |-> p.credentials,
   parameters |-> request.parameters, nul |-> request.nul]

\* The session refuses the fence, fails, or starts the entry, and may break
\* off what it writes to it.
Invoke == /\ at = "invoke"
          /\ UNCHANGED <<acquired, request, world, half, evidence, fresh, landed, applied>>
          /\ \/ Lose /\ UNCHANGED adapterVars
             \/ UNCHANGED lost /\ Finish("OPERATIONAL_FAILURE") /\ UNCHANGED adapterVars
             \/ /\ UNCHANGED lost /\ Goes("invoked")
                /\ \E form \in {"whole", "cut"} : Start(Invocation(form))

\* An entry that is gone without a report is a fault of the environment.
Reported == /\ at = "invoked" /\ entry \in {"reported", "dead", "crashed"}
            /\ UNCHANGED <<lost, acquired>> /\ SameAcquired
            /\ IF entry # "reported" \/ report = Fault THEN Finish("OPERATIONAL_FAILURE")
               ELSE IF ~ClassifyTerminal(report.terminal) THEN Finish("INDETERMINATE")
               ELSE Goes("calls")

\* The event of a call: attempted, then its disposition.
Nth == half \div 2 + 1
Now == report.calls[Nth]
Stage == IF half % 2 = 0 THEN "attempted" ELSE Now.disposition

\* The fact is accounted before its event's acknowledgement is awaited.
Account == evidence' = [evidence EXCEPT !.operations[Stage] =
                          IF Stage = "attempted" THEN Append(@, Now.tool)
                          ELSE @ \union {<<Nth, Now.tool>>}]

Lands == landed' = landed \union {<<Nth, Stage>>}

\* An event lands or not, and its answer comes or not.
RecordCallEvent ==
  /\ at = "calls" /\ half < 2 * Len(report.calls)
  /\ Account /\ half' = half + 1
  /\ UNCHANGED <<adapterVars, request, acquired, world, fresh, applied>>
  /\ \/ Lose /\ UNCHANGED landed
     \/ UNCHANGED lost /\ Lands /\ Goes("calls")
     \/ UNCHANGED lost /\ UNCHANGED landed /\ Finish("OPERATIONAL_FAILURE")
     \/ /\ UNCHANGED lost /\ (Lands \/ UNCHANGED landed)
        /\ \E terminal \in Interrupted : Finish(terminal)

\* The entry has exited, and its report is accounted.
CallsRecorded == /\ at = "calls" /\ half = 2 * Len(report.calls)
                 /\ half' = 0 /\ entry' = "gone" /\ wire' = Null /\ signalled' = Null /\ report' = Null
                 /\ UNCHANGED <<timer, child, request, lost, acquired, world, evidence, fresh, landed, applied>>
                 /\ Goes("complete")

\* One disposition for each scheduled gate; a failed gate is one.
Scheduled == {request.gates[i] : i \in DOMAIN request.gates}
BuildPlan == Scheduled \subseteq production["gate_registry"].gates

\* Only what was scheduled, and only its first disposition.
RecordDisposition(g, d) ==
  evidence' = IF g \in Scheduled THEN [evidence EXCEPT !.gates = @ @@ (g :> d)] ELSE evidence

RunGate ==
  LET g == request.gates[Cardinality(DOMAIN evidence.gates) + 1] IN
  /\ at = "gates" /\ DOMAIN evidence.gates # Scheduled
  /\ UNCHANGED <<adapterVars, request, acquired, world, half, fresh, landed, applied>>
  /\ \/ Lose /\ UNCHANGED evidence
     \/ /\ UNCHANGED <<lost, evidence>> /\ Finish(IF BuildPlan THEN "OPERATIONAL_FAILURE" ELSE "REFUSED")
     \/ /\ BuildPlan /\ UNCHANGED lost /\ Goes("gates")
        /\ \E d \in {"PASS", "FAIL"} : RecordDisposition(g, d)

GatesRun == /\ at = "gates" /\ DOMAIN evidence.gates = Scheduled
            /\ UNCHANGED <<lost, acquired>> /\ SameAcquired
            /\ Goes("observe")

-----------------------------------------------------------------------------
(* Observation (workspace/filesystem.ts, workspace/derive.ts).             *)

\* A link is seen as a link.
Changes == {[path |-> p, link |-> files[p].link] : p \in {q \in Path : files[q] # Pristine[q]}}

\* The named artifacts, if each is a regular file that can be read.
Artifacts(readable) ==
  IF readable /\ \A p \in request.artifacts : files[p].link = Null /\ files[p].content # "gone"
  THEN [ok |-> TRUE, of |-> [p \in request.artifacts |-> files[p].content]]
  ELSE [ok |-> FALSE]

Sees == UNCHANGED <<adapterVars, request, files, writes, half, landed, applied>>

Observe ==
  /\ at = "observe"
  /\ UNCHANGED <<lost, acquired, fresh, since>> /\ Sees
  /\ \/ UNCHANGED evidence /\ Finish("OPERATIONAL_FAILURE")
     \/ IF \E c \in Changes : c.path \in Undecidable
        THEN UNCHANGED evidence /\ Finish("REFUSED")
        ELSE evidence' = [evidence EXCEPT !.observed = Changes] /\ Goes("artifacts")

ObserveArtifacts ==
  /\ at = "artifacts"
  /\ UNCHANGED <<lost, acquired, fresh, since>> /\ Sees
  /\ \E readable \in BOOLEAN : evidence' = [evidence EXCEPT !.artifacts = Artifacts(readable)]
  /\ Goes("reacquire")

-----------------------------------------------------------------------------
(* Verification, apply-back and the seal (orchestration/phases/verifying.ts*)
(* and materialize.ts).                                                    *)

\* The sources are read again, with tokens of their own.
Reacquire ==
  LET s == Head(tokens["verification"]) IN
  /\ at = "reacquire"
  /\ Consume("verification")
  /\ UNCHANGED <<lost, production, fresh, evidence>> /\ Sees
  /\ \E read \in Readings(s) :
       IF CaptureAuthority(read, s) = "captured"
       THEN /\ verification' = [verification EXCEPT ![s] = read.document]
            /\ since' = [since EXCEPT !.sources = @ \union {<<s, read.document>>}]
            /\ Goes(IF Len(tokens["verification"]) = 1 THEN "candidate" ELSE "reacquire")
       ELSE UNCHANGED <<verification, since>> /\ Finish("OPERATIONAL_FAILURE")

Decides == UNCHANGED <<lost, acquired>> /\ SameAcquired

Assemble == /\ at = "candidate"
            /\ UNCHANGED <<lost, acquired, fresh, evidence>> /\ Sees
            /\ since' = [since EXCEPT !.artifacts = {Artifacts(TRUE)}]
            /\ CASE ConstructEvidence("COMPLETED") = "constructed" -> Goes("fresh")
                 [] ConstructEvidence("COMPLETED") = "refused" -> Finish("REFUSED")
                 [] OTHER -> Finish("OPERATIONAL_FAILURE")

ObserveAgain == /\ at = "fresh"
                /\ UNCHANGED <<lost, acquired, evidence, since>> /\ Sees
                /\ \E readable \in BOOLEAN : fresh' = Artifacts(readable)
                /\ Goes("verify")

Verify == /\ at = "verify" /\ Decides
          /\ CASE VerifyEvidence(Bundle("COMPLETED")) = "verified" -> Goes("materialize")
               [] VerifyEvidence(Bundle("COMPLETED")) = "refused" -> Finish("REFUSED")
               [] OTHER -> Finish("OPERATIONAL_FAILURE")

Materialize == /\ at = "materialize" /\ Decides
               /\ IF evidence.observed = {} THEN Goes("seal")
                  ELSE IF DecideMaterialization(production["path_policy"], evidence.observed)
                  THEN Goes("confirm") ELSE Finish("REFUSED")

\* The lease is asked once more before anything leaves.
Confirm == /\ at = "confirm"
           /\ UNCHANGED acquired /\ SameAcquired
           /\ Lose \/ (UNCHANGED lost /\ Goes("apply"))

\* The observed changes, and not what the workspace holds now.
ApplyBack ==
  /\ at = "apply"
  /\ UNCHANGED <<adapterVars, request, acquired, world, half, evidence, fresh, landed>>
  /\ \/ Lose /\ UNCHANGED applied
     \/ /\ UNCHANGED lost /\ applied' = evidence.observed
        /\ Goes("seal") \/ \E terminal \in Interrupted : Finish(terminal)
     \/ UNCHANGED <<lost, applied>> /\ Finish("OPERATIONAL_FAILURE")

Seal == at = "seal" /\ Decides /\ Finish("COMPLETED")

-----------------------------------------------------------------------------
(* The host.                                                               *)

\* What the provider or a gate left running writes.
Writes(p, f) ==
  /\ at \in {"observe", "artifacts", "reacquire", "fresh"} /\ writes < MaxWrites
  /\ ran # Zero \/ Scheduled # {}
  /\ f # files[p]
  /\ files' = [files EXCEPT ![p] = f] /\ writes' = writes + 1
  /\ UNCHANGED <<adapterVars, request, at, lost, acquired, half, evidence, fresh, outputs>>
  /\ since' = [since EXCEPT !.artifacts = @ \union {Artifacts(TRUE)'}]

Ambients == {{"PATH", "HOME", "COPILOT_HOME", "TOKEN"}, {"PATH", "HOME"}}

Runner == \/ Acquire \/ ResolveProfile \/ Announce \/ Invoke \/ Reported \/ RecordCallEvent \/ CallsRecorded
          \/ Complete \/ RunGate \/ GatesRun \/ Observe \/ ObserveArtifacts \/ Reacquire
          \/ Assemble \/ ObserveAgain \/ Verify \/ Materialize \/ Confirm \/ ApplyBack \/ Seal
          \/ Interrupt

Host == \E p \in Path, f \in {File("new"), File("gone")} \union {Link(q) : q \in Path} : Writes(p, f)

AdapterStep == Provider \/ EntryStep(Ambients) \/ Cancel

AccountNext == Runner \/ Host \/ (AdapterStep /\ UNCHANGED runVars)

AccountSpec == AccountInit /\ [][AccountNext]_accountVars

\* A watching entry and the kernel's timer go on; the provider need not.
FairAccountSpec == AccountSpec /\ WF_accountVars(UNCHANGED runVars /\ Watching)

-----------------------------------------------------------------------------
AccountTypeOK == /\ at \in {"acquire", "resolve", "announce", "invoke", "invoked", "calls", "complete", "gates",
                            "observe", "artifacts", "reacquire", "candidate", "fresh", "verify", "materialize",
                            "confirm", "apply", "seal", "ended"}
                 /\ lost \in BOOLEAN
                 /\ \A s \in SourceName : {production[s], verification[s]} \subseteq request.documents[s] \union {Null}
                 /\ landed \subseteq Nat \X {"attempted", "permitted", "denied"}
                 /\ writes \in 0..MaxWrites

\* An entry's report says of each call that it was permitted or denied.
ReportIsTyped ==
  entry = "reported" /\ report # Fault =>
    report.calls \in Seq([tool : ToolName, disposition : {"permitted", "denied"}])

\* Every event of a call that landed is in the bundle (calls.ts: the fact
\* precedes its acknowledgement).
LandedIsTold ==
  bundle # Null =>
    LET ops == bundle.operations IN
    \A e \in landed :
      IF e[2] = "attempted" THEN e[1] <= Len(ops.attempted)
      ELSE \E o \in ops[e[2]] : o[1] = e[1] /\ o[2] = ops.attempted[e[1]]

\* What was carried out was granted by name, in the profile captured.
RanIsGranted == \A t \in ToolName : ran[t] > 0 => {t} \in production["profile"].grant

Permitted(b, t) == Cardinality({o \in b.operations.permitted : o[2] = t})

\* What is said to be permitted was carried out, and a completed run misses
\* nothing that was captured, however small the content budget.
TallyIsTrue ==
  bundle # Null =>
    /\ \A t \in ToolName : Permitted(bundle, t) <= ran[t]
    /\ bundle.terminal = "COMPLETED" => \A t \in ToolName : told[t] <= Permitted(bundle, t)

\* A sealed bundle tells the truth of the calls: what landed on the stream,
\* what was carried out and by whose grant, and what was permitted.
AccountIsTrue == /\ ReportIsTyped /\ LandedIsTold /\ RanIsGranted /\ TallyIsTrue
                 /\ bundle # Null => bundle.identities = production

\* What left isolation was observed, under a policy that was still in force
\* after the observations and protects the judges; and a completed run's
\* authority is as it was after the observations, its artifacts as they were
\* after that, with one disposition for each gate asked for
\* (verifying.ts: re-derive independently, then materialize).
OnlyVerifiedLeaves ==
  LET policy == production["path_policy"]
      places == UNION {{c.path} \union ({c.link} \ {Null}) : c \in applied} IN
  /\ applied # {} =>
       /\ applied = evidence.observed
       /\ <<"path_policy", policy>> \in since.sources
       /\ places \subseteq policy.roots \ policy.prohibited
       /\ places \intersect {SourcePath[s] : s \in SourceName} = {}
  /\ (bundle # Null /\ bundle.terminal = "COMPLETED") =>
       /\ \A s \in SourceName : <<s, bundle.identities[s]>> \in since.sources
       /\ [ok |-> TRUE, of |-> bundle.artifacts] \in since.artifacts
       /\ DOMAIN bundle.gates = Scheduled
       /\ applied = bundle.observed
=============================================================================
