---------------------------- MODULE Projections ----------------------------
(***************************************************************************)
(* The writer of the governed projections on the activation branch           *)
(* (render-governance-state.mjs): what is about to be registered is proven,   *)
(* the new contents are staged beside their targets, the checkout is fenced,  *)
(* and the targets are swapped one by one.  What fails is undone.             *)
(*                                                                           *)
(* Authors may edit the checkout between any two steps, and any call of the   *)
(* filesystem may fail.  The governed branch rests while the writer runs:     *)
(* the writer reads commits only, which do not change.                        *)
(***************************************************************************)
EXTENDS Activation

CONSTANTS
    Order,      \* the targets, in the order of PROJECTIONS
    WholeFile,  \* the targets generated end to end; the others have a region
    Text,       \* what authors write around a region
    MaxBase,    \* bound on the commits before the writer runs
    MaxEdits, MaxFaults

Target == {Order[i] : i \in DOMAIN Order}

\* A target: what is around its region, and what the region shows.  A view None stands
\* for missing or doubled markers.
Content(t) ==
    [text : IF t \in WholeFile THEN {None} ELSE Text, view : Facts \cup {None}]

\* The staging directory of a target, and what was done with it.
Entry(t) ==
    [there : BOOLEAN, prepared : Content(t) \cup {None}, backup : Content(t) \cup {None},
     backedUp : BOOLEAN, installed : BOOLEAN]

ASSUME ProjectionsAssumption ==
    /\ Order \in Seq(Target)
    /\ \A t \in Target : None \notin Content(t) \cup Entry(t)
    /\ WholeFile \subseteq Target
    /\ \A i, j \in DOMAIN Order : Order[i] = Order[j] => i = j
    /\ MaxBase \in Nat /\ MaxEdits \in Nat /\ MaxFaults \in Nat

VARIABLES
    docs,       \* the targets of the checkout; None where there is none
    authored,   \* what they would be without the writer
    late,       \* the targets that were edited once the fence was passed
    writer,     \* where it is, and what it proved
    staged,     \* staged[t]: the staging directory of t, or None
    errors,     \* whether the current cleanup or recovery met one
    edits, faults

files == <<docs, authored, late, staged>>
pvars == <<docs, authored, late, writer, staged, errors, edits, faults>>

At(pc) == writer.pc = pc
Goto(pc, at) == writer' = [writer EXCEPT !.pc = pc, !.at = at]

Fault == faults < MaxFaults /\ faults' = faults + 1

(***************************************************************************)
(* The proof and the plan.                                                   *)
(***************************************************************************)
\* commitsChangingPath: no registry at the base, nor before it.
NeverRegistered(base) == \A i \in 1..base : ~ Present(main[i])

\* prepareProjectionState: the branch promotes exactly the candidate of a base that is
\* fresh and has never had a registry, and has not touched its sources.
Provable(base) ==
    LET frozen == main[base].candidate IN
    /\ Fresh(frozen, base)
    /\ NeverRegistered(base)
    /\ Promoted(frozen, work.tree)
    /\ work.tree.facts = main[base].facts

\* spliceRegion keeps every byte outside the region.
Rendered(t, doc, facts) ==
    IF t \in WholeFile THEN [text |-> None, view |-> facts] ELSE [doc EXCEPT !.view = facts]

Expected(t) == Rendered(t, writer.docs[t], writer.facts)

\* renderProjections: a region needs its document and its markers.
Renderable(found) == \A t \in Target \ WholeFile : found[t] # None /\ found[t].view # None

\* The target a loop is at; the loops go over all targets, and those that are what they
\* should be are passed by.
Turn == Order[writer.at]
Going == writer.at <= Len(Order)

Started(t) == staged[t] # None

\* prepareGovernanceProjections, from the proof to the plan.
Prepare ==
    /\ At("idle") /\ Checkout /\ Len(main) <= MaxBase
    /\ \E base \in DOMAIN main, found \in [Target -> {None} \cup UNION {Content(t) : t \in Target}] :
        /\ \A t \in Target : found[t] \in Content(t) \cup {None}
        /\ Provable(base) /\ Renderable(found)
        /\ docs' = found /\ authored' = found
        /\ writer' = [pc |-> "stage", at |-> 1, tree |-> work.tree, docs |-> found,
                      facts |-> main[base].candidate["state"].facts]
    /\ UNCHANGED <<main, work, late, staged, errors, edits, faults>>

(***************************************************************************)
(* writePreparedProjections.                                                 *)
(***************************************************************************)
\* What throws goes to the recovery, from the last target back.
Throw == Goto("recover", Len(Order)) /\ errors' = FALSE

\* A directory beside the target, with the new content.
Directory(t, prepared) ==
    staged' = [staged EXCEPT ![t] = [there |-> TRUE, prepared |-> prepared, backup |-> None,
                                     backedUp |-> FALSE, installed |-> FALSE]]

Stage ==
    /\ At("stage") /\ Going
    /\ \/ /\ Expected(Turn) = writer.docs[Turn]
          /\ Goto("stage", writer.at + 1) /\ UNCHANGED <<staged, errors, faults>>
       \/ /\ Expected(Turn) # writer.docs[Turn]
          /\ \/ Directory(Turn, Expected(Turn)) /\ Goto("stage", writer.at + 1) /\ UNCHANGED <<errors, faults>>
             \/ Fault /\ (Directory(Turn, None) \/ UNCHANGED staged) /\ Throw
    /\ UNCHANGED <<docs, authored, late>>

\* fencePreparationLayout: the whole checkout but the staging directories.
Unchanged == work.tree = writer.tree /\ docs = writer.docs

Fence ==
    /\ At("stage") /\ ~ Going
    /\ IF Unchanged THEN Goto("verify", 1) /\ UNCHANGED errors ELSE Throw
    /\ UNCHANGED <<files, faults>>

\* The staged files are those of the plan.
Verify ==
    /\ At("verify")
    /\ IF \A t \in Target : Started(t) => staged[t].prepared = Expected(t)
       THEN Goto("install", 1) /\ UNCHANGED errors ELSE Throw
    /\ UNCHANGED <<files, faults>>

\* The target is moved aside.
Backup ==
    /\ At("install") /\ Going
    /\ LET t == Turn IN
       /\ Started(t) /\ writer.docs[t] # None /\ ~ staged[t].backedUp
       /\ \/ /\ docs[t] # None
             /\ docs' = [docs EXCEPT ![t] = None]
             /\ staged' = [staged EXCEPT ![t].backup = docs[t], ![t].backedUp = TRUE]
             /\ UNCHANGED <<writer, errors, faults>>
          \/ Fault /\ Throw /\ UNCHANGED <<docs, staged>>
          \/ docs[t] = None /\ Throw /\ UNCHANGED <<docs, staged, faults>>
    /\ UNCHANGED <<authored, late>>

\* The new content takes its place.
Place ==
    /\ At("install") /\ Going
    /\ LET t == Turn IN
       /\ Started(t)
       /\ writer.docs[t] = None \/ staged[t].backedUp
       /\ \/ /\ docs' = [docs EXCEPT ![t] = staged[t].prepared]
             /\ staged' = [staged EXCEPT ![t].prepared = None, ![t].installed = TRUE]
             /\ Goto("install", writer.at + 1)
             /\ UNCHANGED <<errors, faults>>
          \/ Fault /\ Throw /\ UNCHANGED <<docs, staged>>
    /\ UNCHANGED <<authored, late>>

\* A target that has no directory is left as it is.
Leave ==
    /\ At("install") /\ Going /\ ~ Started(Turn)
    /\ Goto("install", writer.at + 1)
    /\ UNCHANGED <<files, errors, faults>>

Installed ==
    /\ At("install") /\ ~ Going
    /\ Goto("cleanup", 1) /\ errors' = FALSE
    /\ UNCHANGED <<files, faults>>

Emptied(entry) == [entry EXCEPT !.prepared = None, !.backup = None]

\* cleanup: every directory is tried, then the errors are thrown.  One that resists may
\* have lost its files.
Sweep(pc) ==
    /\ At(pc) /\ Going
    /\ LET t == Turn IN
       \/ /\ staged' = [staged EXCEPT ![t] = IF Started(t) THEN [Emptied(@) EXCEPT !.there = FALSE] ELSE None]
          /\ UNCHANGED <<errors, faults>>
       \/ /\ Started(t) /\ Fault /\ errors' = TRUE
          /\ staged' \in {staged, [staged EXCEPT ![t] = Emptied(@)]}
    /\ Goto(pc, writer.at + 1)
    /\ UNCHANGED <<docs, authored, late>>

Swept ==
    /\ At("cleanup") /\ ~ Going
    /\ IF errors THEN Throw ELSE Goto("ok", 0) /\ UNCHANGED errors
    /\ UNCHANGED <<files, faults>>

(***************************************************************************)
(* The recovery.                                                             *)
(***************************************************************************)
Touched(t) == Started(t) /\ (staged[t].backedUp \/ staged[t].installed)

\* Mutant of Original: the backup is relied on.
BackupOnly(t) == IF staged[t].backup # None THEN staged[t].backup ELSE docs[t]

\* The backup, or the bytes still in memory once a cleanup removed it.
Original(t) == IF staged[t].backup # None THEN staged[t].backup ELSE writer.docs[t]

Recover ==
    /\ At("recover") /\ writer.at > 0
    /\ LET t == Turn IN
       \/ ~ Touched(t) /\ UNCHANGED <<docs, staged, errors, faults>>
       \/ /\ Touched(t)
          /\ writer.docs[t] = None => docs[t] # None
          /\ docs' = [docs EXCEPT ![t] = Original(t)]
          /\ staged' = [staged EXCEPT ![t].backup = None]
          /\ UNCHANGED <<errors, faults>>
       \/ /\ Touched(t)
          /\ Fault \/ (writer.docs[t] = None /\ docs[t] = None /\ UNCHANGED faults)
          /\ errors' = TRUE
          /\ UNCHANGED <<docs, staged>>
    /\ Goto("recover", writer.at - 1)
    /\ UNCHANGED <<authored, late>>

\* What the recovery needs is kept when it fails.
Recovered ==
    /\ At("recover") /\ writer.at = 0
    /\ IF errors THEN Goto("failed", 0) ELSE Goto("resweep", 1)
    /\ UNCHANGED <<files, errors, faults>>

Reswept ==
    /\ At("resweep") /\ ~ Going
    /\ Goto(IF errors THEN "failed" ELSE "refused", 0)
    /\ UNCHANGED <<files, errors, faults>>

Write == \/ Stage \/ Fence \/ Verify \/ Backup \/ Place \/ Leave \/ Installed
         \/ Sweep("cleanup") \/ Swept \/ Recover \/ Recovered \/ Sweep("resweep") \/ Reswept

(***************************************************************************)
(* Authors, meanwhile.                                                       *)
(***************************************************************************)
Running == writer.pc \notin {"idle", "ok", "refused", "failed"}

EditTarget(t) ==
    /\ \E doc \in Content(t) \cup {None} :
        docs' = [docs EXCEPT ![t] = doc] /\ authored' = [authored EXCEPT ![t] = doc]
    /\ late' = IF At("stage") THEN late ELSE late \cup {t}
    /\ UNCHANGED <<work, staged>>

EditStaged(t) ==
    /\ Started(t) /\ staged[t].prepared # None
    /\ \E doc \in Content(t) : staged' = [staged EXCEPT ![t].prepared = doc]
    /\ late' = IF At("install") THEN late \cup {t} ELSE late
    /\ UNCHANGED <<work, docs, authored>>

Meanwhile ==
    /\ Running /\ edits < MaxEdits /\ edits' = edits + 1
    /\ (\E t \in Target : EditTarget(t) \/ EditStaged(t)) \/ (Edit /\ UNCHANGED files)
    /\ UNCHANGED <<main, writer, errors, faults>>

PrepareInit ==
    /\ Init
    /\ docs = [t \in Target |-> None] /\ authored = [t \in Target |-> None] /\ late = {}
    /\ writer = [pc |-> "idle"]
    /\ staged = [t \in Target |-> None]
    /\ errors = FALSE /\ edits = 0 /\ faults = 0

PrepareNext == \/ At("idle") /\ Next /\ UNCHANGED pvars
               \/ Prepare
               \/ Write /\ UNCHANGED <<main, work, edits>>
               \/ Meanwhile

PrepareSpec == PrepareInit /\ [][PrepareNext]_<<main, work, pvars>>

(***************************************************************************)
(* Properties.                                                               *)
(***************************************************************************)
Published(t) == authored[t] # None \/ t \in WholeFile =>
                    docs[t] = Rendered(t, authored[t], writer.facts)

NothingStaged == \A t \in Target : Started(t) => ~ staged[t].there

\* Whatever fails and whoever edits, a target that nobody edited after the fence ends
\* with its author's text: under the new region when the writer answers ok, untouched
\* when it refuses, and neither leaves anything beside it.  At every step between, also
\* if the process dies there, the author's bytes are in the target or in its backup
\* (writePreparedProjections).
PublishedOrRestored ==
    /\ ~ At("idle") => \A t \in Target \ late :
         \/ docs[t] = authored[t] \/ Published(t)
         \/ Started(t) /\ staged[t].backup = authored[t]
    /\ At("ok") => NothingStaged /\ \A t \in Target \ late : Published(t)
    /\ At("refused") => NothingStaged /\ \A t \in Target \ late : docs[t] = authored[t]

=============================================================================
