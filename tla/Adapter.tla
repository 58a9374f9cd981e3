------------------------------ MODULE Adapter ------------------------------
(***************************************************************************)
(* The process a run's provider works in: the entry of a coding adapter    *)
(* (agents/adapters/coding/claude-code and copilot-cli: bin.ts, spi.ts,    *)
(* plan.ts, observe.ts) and, as those files use them, the provider's CLI,  *)
(* the kernel's signals and pipes, and the substrate that starts and       *)
(* cancels the entry.                                                      *)
(*                                                                         *)
(* The entry reads one invocation, translates its grant to the CLI's       *)
(* flags, watches the child, and reports what the transcript says.  A      *)
(* grant is a set of entries, and an entry the set of names its text is    *)
(* split into by a CLI that splits: more than one name when it holds a     *)
(* delimiter.  A transcript is a sequence of frames; text takes two units  *)
(* of the byte budgets, anything else one.  The provider is honest: it     *)
(* writes of a call what became of it (the code trusts none of it).        *)
(***************************************************************************)
EXTENDS Integers, FiniteSets, SequencesExt

CONSTANTS ToolName,       \* the tools a provider has
          Shell,          \* the one that runs commands (`bash')
          RawSlack,       \* raw capture allowed above the content budget
          MaxAsks,        \* bound: calls a provider asks for
          MaxRemarks,     \* bound: frames that are about no call
          Null

ASSUME AdapterAssumption == /\ Shell \in ToolName
                            /\ {RawSlack, MaxAsks, MaxRemarks} \subseteq Nat

VARIABLES
  wire,       \* the invocation on stdin
  entry,      \* idle, reading, watching, settled, reported, gone; dead, crashed
  plan,       \* what the child was started with
  chunks, taken,   \* stdout as captured, and its size
  events,     \* the persisted events surface (copilot)
  asks,       \* calls asked for so far
  open,       \* calls asked for and not answered: <<id, tool>>
  refusals,   \* tools the provider refused to use, in order
  remarks,    \* frames that are about no call, so far
  ended,      \* the frame that ends the transcript was written
  exit,       \* the child: running, exited or absent, its code and signal
  signalled,  \* the signal the entry was sent
  timer,      \* the kill timer: off, set, fired
  held,       \* a subprocess of the child holds its stdout open
  report,     \* the entry's report
  ran,        \* ran[t]: calls of t the provider carried out
  told        \* told[t]: those whose answer was captured

child == <<plan, chunks, taken, events, asks, open, refusals, remarks, ended, exit, held, ran, told>>
adapterVars == <<wire, entry, signalled, timer, report, child>>

Process(is, code, signal) == [is |-> is, code |-> code, signal |-> signal]
Running == Process("running", Null, Null)
Exited(code, signal) == Process("exited", code, signal)
Zero == [t \in ToolName |-> 0]

AdapterInit ==
  /\ wire = Null /\ entry = "idle" /\ plan = Null
  /\ chunks = <<>> /\ taken = 0 /\ events = <<>>
  /\ asks = 0 /\ open = {} /\ refusals = <<>> /\ remarks = 0 /\ ended = FALSE
  /\ exit = Running /\ signalled = Null /\ timer = "off" /\ held = FALSE
  /\ report = Null /\ ran = Zero /\ told = Zero

-----------------------------------------------------------------------------
(* The invocation and its translation.                                     *)

\* A tool is a non-empty string; the network is denied by default; the
\* credentials are names of variables.
CheckGrant(w) == {} \notin w.grant /\ w.network = "deny"

\* Anything but one whole invocation of the closed shape is refused.
ParseWireInvocation(w) == w.form = "whole" /\ CheckGrant(w) /\ w.budget > 0

ExpressibleAsOne(e) == \E t \in e : e = {t}

Flags(visible, allowed, denied, env) ==
  [ok |-> TRUE, visible |-> visible, allowed |-> allowed, denied |-> denied, env |-> env]
Refused == [ok |-> FALSE]

\* A mutant of PlanClaude: an entry may hold a delimiter.
PlanClaudeVerbatim(w) == IF w.parameters THEN Refused
                         ELSE Flags({<<"tools", w.grant>>}, w.grant, {}, w.credentials)

PlanClaude(w) ==
  IF w.parameters \/ \E e \in w.grant : ~ExpressibleAsOne(e) THEN Refused
  ELSE Flags({<<"tools", w.grant>>}, w.grant, {}, w.credentials)

\* One flag for each entry, and the bare flag for none; the shell rule is
\* the one permission that is known.
PlanCopilot(w) ==
  IF w.parameters \/ \E e \in w.grant : ~ExpressibleAsOne(e) THEN Refused
  ELSE Flags(IF w.grant = {} THEN {<<"available-tools", {}>>}
             ELSE {<<"available-tools", {e}>> : e \in w.grant},
             w.grant \intersect {{Shell}}, {{Shell}} \ w.grant,
             w.credentials \union {"COPILOT_HOME"})

PlanLaunch(w) == IF w.adapter = "claude" THEN PlanClaude(w) ELSE PlanCopilot(w)

ChildEnvironment(p, ambient) == ambient \intersect ({"PATH", "HOME", "TMPDIR"} \union p.env)

-----------------------------------------------------------------------------
(* The observation of a captured transcript.                               *)

Collector(budget) ==
  [budget |-> budget, spent |-> 0, truncated |-> FALSE, calls |-> <<>>, claims |-> 0,
   events |-> <<>>, pending |-> {}, reported |-> Null, transcript |-> Null]

\* The first charge over the budget is recorded itself, past the budget.
Charge(c, size, kept) ==
  IF c.truncated THEN c
  ELSE IF c.spent + size > c.budget
       THEN [c EXCEPT !.truncated = TRUE, !.events = Append(@, "transcript.truncated")]
       ELSE [kept EXCEPT !.spent = c.spent + size]
Claim(c) == Charge(c, 2, [c EXCEPT !.claims = @ + 1])
Event(c, e) == Charge(c, 1, [c EXCEPT !.events = Append(@, e)])

\* Calls are recorded whatever the content budget is.
RecordCall(c, t, d) == [c EXCEPT !.calls = Append(@, [tool |-> t, disposition |-> d])]
Request(c, f) == [c EXCEPT !.pending = @ \union {<<f.id, f.tool>>}]
Answered(c, f) == {p \in c.pending : p[1] = f.id}

\* The call of a completion, if a captured request asked for it.
Resolve(c, f, d) ==
  LET p == CHOOSE p \in Answered(c, f) : TRUE
  IN RecordCall([c EXCEPT !.pending = @ \ {p}], p[2], d)

ClaudeFrame(c, f) ==
  CASE f.type = "text" -> Claim(c)
    [] f.type = "use"  -> Request(c, f)
    [] f.type = "done" -> IF Answered(c, f) = {} THEN c ELSE Resolve(c, f, "permitted")
    [] f.type = "end"  ->
         Claim(FoldLeft(LAMBDA a, t : RecordCall(a, t, "denied"),
                        [c EXCEPT !.reported = f.as, !.transcript = "result"], f.refusals))
    [] f.type = "cut"  -> Event(c, "transcript.malformed")
    [] OTHER           -> Event(c, "transcript.unrecognized")

CopilotFrame(c, f) ==
  LET disposition == IF f.denied THEN "denied" ELSE "permitted"
  IN CASE f.type = "text" -> Claim(c)
       [] f.type = "use"  -> Request(c, f)
       [] f.type = "done" -> IF Answered(c, f) = {} THEN Event(c, "call.uncorrelated")
                             ELSE Resolve(c, f, disposition)
       [] f.type = "permission" ->
            Event(IF f.denied THEN RecordCall(c, f.tool, "denied") ELSE c, "permission.completed")
       [] f.type = "end"  -> [c EXCEPT !.reported = IF f.as = "success" THEN "0" ELSE "1",
                                       !.transcript = "session.result"]
       [] f.type = "cut"  -> Event(c, "transcript.malformed")
       [] OTHER           -> Event(c, "transcript.unrecognized")

\* What is left in doubt of a request is said, not decided.
Unresolved(c) == FoldSet(LAMBDA p, a : Event(a, "call.unresolved"), c, c.pending)

Observation(c, code, signal) ==
  [outcome |-> "observed", calls |-> c.calls, claims |-> c.claims, events |-> c.events,
   terminal |-> [exit_code |-> code, reported |-> c.reported,
                 transcript |-> c.transcript, signalled |-> signal]]

ObserveClaude(stdout, budget, code, signal) ==
  Observation(Unresolved(FoldLeft(ClaudeFrame, Collector(budget), stdout)), code, signal)

\* surface is Null when no persisted events could be read.
ObserveCopilot(stdout, surface, budget, code, signal) ==
  LET first == FoldLeft(CopilotFrame, Collector(budget), stdout)
      both == IF surface = Null THEN Event(first, "transcript.surface_missing")
              ELSE FoldLeft(CopilotFrame, first, surface)
  IN Observation(Unresolved(both), code, signal)

-----------------------------------------------------------------------------
(* Capture: bytes are taken up to the raw cap, and cut there.              *)

MinOf(a, b) == IF a < b THEN a ELSE b
Size(f) == IF f.type = "text" THEN 2 ELSE 1
RawCap == wire.budget + RawSlack
Fits(f) == taken + Size(f) <= RawCap

Data(f) == /\ chunks' = IF Fits(f) THEN Append(chunks, f)
                        ELSE IF taken < RawCap THEN Append(chunks, [type |-> "cut", denied |-> FALSE])
                        ELSE chunks
           /\ taken' = MinOf(taken + Size(f), RawCap)

-----------------------------------------------------------------------------
(* The entry.                                                              *)

\* The substrate starts the entry with w on its stdin.
Start(w) == /\ entry = "idle"
            /\ entry' = "reading" /\ wire' = w
            /\ UNCHANGED <<signalled, timer, report, child>>

Fault == [outcome |-> "environmental_fault"]

\* The whole of stdin is read, and what it says refused or started.  A task
\* that no argument can hold makes the start throw, and nothing is reported;
\* a command that is not there is learnt later.
Begin(ambient, there) ==
  LET p == PlanLaunch(wire) IN
  /\ entry = "reading"
  /\ \/ /\ ~ParseWireInvocation(wire) \/ ~p.ok
        /\ entry' = "reported" /\ report' = Fault
        /\ UNCHANGED child
     \/ /\ ParseWireInvocation(wire) /\ p.ok /\ wire.nul
        /\ entry' = "crashed"
        /\ UNCHANGED <<report, child>>
     \/ /\ ParseWireInvocation(wire) /\ p.ok /\ ~wire.nul
        /\ entry' = "watching"
        /\ plan' = [p EXCEPT !.env = ChildEnvironment(p, ambient)]
        /\ exit' = IF there THEN Running ELSE Process("absent", Null, Null)
        /\ UNCHANGED <<report, chunks, taken, events, asks, open, refusals, remarks, ended, held, ran, told>>
  /\ UNCHANGED <<wire, signalled, timer>>

\* A mutant of Cancel: the child is asked, and never made, to go.
CancelAsks ==
  /\ entry \in {"reading", "watching", "settled"} /\ signalled = Null
  /\ IF entry = "watching" THEN signalled' = "SIGTERM" /\ UNCHANGED entry
     ELSE entry' = "dead" /\ UNCHANGED signalled
  /\ UNCHANGED <<wire, timer, report, child>>

\* SIGTERM.  The entry listens while it watches a child, and only then: at
\* any other time the signal ends it.
Cancel ==
  /\ entry \in {"reading", "watching", "settled"} /\ signalled = Null
  /\ IF entry = "watching"
     THEN signalled' = "SIGTERM" /\ timer' = "set" /\ UNCHANGED entry
     ELSE entry' = "dead" /\ UNCHANGED <<signalled, timer>>
  /\ UNCHANGED <<wire, report, child>>

\* The grace is over: SIGKILL.
Kill == /\ entry = "watching" /\ timer = "set"
        /\ timer' = "fired"
        /\ exit' = IF exit.is = "running" THEN Exited(Null, "SIGKILL") ELSE exit
        /\ UNCHANGED <<wire, entry, signalled, report, plan, chunks, taken, events, asks,
                       open, refusals, remarks, ended, held, ran, told>>

\* The grace timer is cleared and the signal no longer listened for.
Settle == entry' = "settled" /\ timer' = "off" /\ UNCHANGED <<wire, signalled, report, child>>

NotLaunched == entry = "watching" /\ exit.is = "absent" /\ Settle

\* The child is gone, and so is everyone else who could write its stdout.
Close == entry = "watching" /\ exit.is = "exited" /\ ~held /\ Settle

\* The persisted events, if the entry was given a home and it holds any.
ReadPersistedEvents ==
  IF "COPILOT_HOME" \notin plan.env \/ events = <<>> THEN Null
  ELSE SubSeq(events, 1, MinOf(Len(events), RawCap))

Report ==
  LET signal == IF signalled # Null THEN signalled ELSE exit.signal
  IN IF exit.is = "absent" THEN Fault
     ELSE IF wire.adapter = "claude"
     THEN ObserveClaude(chunks, wire.budget, exit.code, signal)
     ELSE ObserveCopilot(chunks, ReadPersistedEvents, wire.budget, exit.code, signal)

\* Nothing is kept but the report.
Emit == /\ entry = "settled"
        /\ entry' = "reported" /\ report' = Report
        /\ plan' = Null /\ exit' = Running
        /\ chunks' = <<>> /\ taken' = 0 /\ events' = <<>>
        /\ asks' = 0 /\ open' = {} /\ refusals' = <<>> /\ remarks' = 0 /\ ended' = FALSE
        /\ UNCHANGED <<wire, signalled, timer, held, ran, told>>

-----------------------------------------------------------------------------
(* The provider, as its flags are documented and its transcripts golden.   *)

Visible == IF plan.visible = {} THEN ToolName ELSE UNION UNION {f[2] : f \in plan.visible}
Allows(t) == t \in UNION plan.allowed
Denies(t) == t \in UNION plan.denied

Works == /\ entry = "watching" /\ exit.is = "running" /\ ~ended
         /\ wire.credentials \subseteq plan.env
StillWorks == UNCHANGED <<wire, entry, signalled, timer, report, plan, exit>>

\* A tool that is seen is asked for in the transcript, and carried out and
\* answered, or not answered; or, by copilot's defaults, denied.
Ask(t) == /\ Works /\ asks < MaxAsks /\ t \in Visible /\ ~Denies(t)
          /\ wire.adapter = "claude" => Allows(t)
          /\ asks' = asks + 1 /\ open' = open \union {<<asks + 1, t>>}
          /\ Data([type |-> "use", id |-> asks + 1, tool |-> t, denied |-> FALSE])
          /\ StillWorks /\ UNCHANGED <<events, refusals, remarks, ended, held, ran, told>>

CarryOut(p, answered, leaves) ==
  LET f == [type |-> "done", id |-> p[1], denied |-> FALSE] IN
  /\ Works /\ p \in open
  /\ leaves => p[2] = Shell
  /\ open' = open \ {p} /\ ran' = [ran EXCEPT ![p[2]] = @ + 1]
  /\ held' = (held \/ leaves)
  /\ told' = IF answered /\ Fits(f) THEN [told EXCEPT ![p[2]] = @ + 1] ELSE told
  /\ IF answered THEN Data(f) ELSE UNCHANGED <<chunks, taken>>
  /\ StillWorks /\ UNCHANGED <<events, asks, refusals, remarks, ended>>

Deny(p) == /\ Works /\ wire.adapter = "copilot" /\ p \in open /\ ~Allows(p[2])
           /\ open' = open \ {p}
           /\ Data([type |-> "done", id |-> p[1], denied |-> TRUE])
           /\ StillWorks /\ UNCHANGED <<events, asks, refusals, remarks, ended, held, ran, told>>

\* What is not seen, or needs an approval nobody can give, is refused:
\* claude says so when it ends, copilot in its persisted events.
Refuse(t) == /\ Works /\ asks < MaxAsks
             /\ t \notin Visible \/ Denies(t)
             /\ asks' = asks + 1
             /\ IF wire.adapter = "claude"
                THEN refusals' = Append(refusals, t) /\ UNCHANGED events
                ELSE /\ events' = IF "COPILOT_HOME" \in plan.env
                                  THEN Append(events, [type |-> "permission", tool |-> t, denied |-> TRUE])
                                  ELSE events
                     /\ UNCHANGED refusals
             /\ StillWorks
             /\ UNCHANGED <<chunks, taken, open, remarks, ended, held, ran, told>>

Remark(type) == /\ Works /\ remarks < MaxRemarks
                /\ remarks' = remarks + 1
                /\ Data([type |-> type, denied |-> FALSE])
                /\ StillWorks
                /\ UNCHANGED <<events, asks, open, refusals, ended, held, ran, told>>

Conclude(as) == /\ Works
                /\ ended' = TRUE
                /\ Data([type |-> "end", as |-> as, refusals |-> refusals, denied |-> FALSE])
                /\ StillWorks
                /\ UNCHANGED <<events, asks, open, refusals, remarks, held, ran, told>>

\* It exits, or dies of a SIGTERM it need not obey.
Exit(code, signal) ==
  /\ entry = "watching" /\ exit.is = "running"
  /\ signal # Null => signalled # Null /\ code = Null
  /\ exit' = Exited(code, signal)
  /\ UNCHANGED <<wire, entry, signalled, timer, report, plan, chunks, taken, events, asks,
                 open, refusals, remarks, ended, held, ran, told>>

\* What a command left behind lets go of stdout.
LetGo == /\ held
         /\ held' = FALSE
         /\ UNCHANGED <<wire, entry, signalled, timer, report, plan, chunks, taken, events, asks,
                        open, refusals, remarks, ended, exit, ran, told>>

Provider == \/ \E t \in ToolName : Ask(t) \/ Refuse(t)
            \/ \E p \in open : Deny(p) \/ \E answered, leaves \in BOOLEAN : CarryOut(p, answered, leaves)
            \/ \E type \in {"text", "noise"} : Remark(type)
            \/ \E as \in {"success", "error"} : Conclude(as)
            \/ \E code \in {0, 1} : Exit(code, Null)
            \/ Exit(Null, "SIGTERM")
            \/ LetGo

Watching == Kill \/ NotLaunched \/ Close
EntryStep(ambients) == \/ \E ambient \in ambients, there \in BOOLEAN : Begin(ambient, there)
                       \/ Watching \/ Emit

-----------------------------------------------------------------------------
\* An entry that was told to stop while it watched its child is done with it
\* (and goes on to report), unless something the child left behind holds the
\* child's stdout (bin.ts onCancel: SIGTERM, a bounded grace, SIGKILL).
CancelledReports == (entry = "watching" /\ signalled # Null) ~> (entry # "watching" \/ held)
=============================================================================
