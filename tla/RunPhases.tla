----------------------------- MODULE RunPhases -----------------------------
(***************************************************************************)
(* One attempt at a run, from the first phase to its answer: the phases    *)
(* with the port calls they wait for (orchestration/phases), the wall      *)
(* clock and the windows that bound every call (orchestration/deadline.ts),*)
(* the workspace and the session the attempt acquires, and the ways it is  *)
(* terminated, interrupted, settled, recovered and torn down               *)
(* (orchestration/terminate.ts, settle.ts, run/scope.ts).                  *)
(*                                                                         *)
(* A port that was called answers, throws, or does neither until the       *)
(* boundary that guards the call cuts it off.  Clocks are the time that is *)
(* left on them.  Time passes while a port is awaited, and in the code of  *)
(* the phases; terminal code takes none.  What the journal holds is        *)
(* RunRecord's: here entries are pending, or not.  One source stands for   *)
(* those of an acquisition epoch, one emission for those between two       *)
(* other calls.                                                            *)
(***************************************************************************)
EXTENDS Naturals, Sequences

CONSTANTS Acquisition,    \* budget before a profile is captured
          Profile,        \* wall clock the profile grants
          Offer,          \* wall clock the session offers
          Grace,          \* length of a settlement or recovery window
          Off             \* no clock

ASSUME RunPhasesAssumption ==
  /\ {Acquisition, Profile, Offer, Grace} \subseteq Nat \ {0}
  /\ Off \notin Nat

Resource == {"workspace", "session"}
Reason == {"cancel", "timeout"}
Kind == Reason \union {"refuse", "fault", "indeterminate", "complete"}

VARIABLES
  spent,      \* time since the start, up to the largest budget
  grant,      \* the budget that governs the run
  armed,      \* what is left on the wall clock (#armedUntil)
  window,     \* the settlement or recovery window of settle.ts
  inner,      \* the window of conclude, or of the session's interruption
  reason,     \* why the run is interrupted (#reason)
  withdrawn,  \* the caller's probe, or cancelAfterMs, says cancel
  mode,       \* what handles an escape: the walk, recovery or settlement
  phase, pos, \* where the walk is
  step,       \* the port call or decision the attempt has reached
  call,       \* due, out (the port was called), or done
  goal,       \* the terminal being committed
  name,       \* name[r]: what the scope knows of r: none, attempt, handle
  lost,       \* scope.fenceLost
  captured,   \* scope.authorityCaptured
  established,\* scope.established is past `requested'
  terminal,   \* the machine's terminal state, by the kind that reaches it
  recorded,   \* scope.recorded
  pending,    \* the outbox has, or will be handed, entries
  exists,     \* resources that may exist: asked for and not refused
  asked,      \* resources asked to be released, and the session's interrupt
  broken      \* teardown was refused or not reached

clocks == <<spent, grant, window>>
plan == <<armed, inner, phase, pos, step, call, goal, terminal, recorded, pending>>
knows == <<captured, established>>
resources == <<name, exists, asked>>
vars == <<clocks, plan, knows, resources, reason, withdrawn, mode, lost, broken>>

-----------------------------------------------------------------------------
(* The phases: calls, fenced calls, calls that only read, journal ticks,   *)
(* and decisions that wait for nothing, each with the terminals it may end *)
(* the run in.                                                             *)

Item(kind, at, ends) == [kind |-> kind, at |-> at, ends |-> ends]
Call(at, ends) == Item("call", at, ends)
Fenced(at, ends) == Item("fenced", at, ends)
Tick_(at) == Item("tick", at, {})
Decision(at, ends) == Item("decision", at, ends)

Renew == Item("renew", "renew", {})
Check == Decision("check", {})
Journal == Tick_("journal")

Requested ==
  <<Renew, Check, Decision("profile", {"refuse"}), Item("read", "read", {}), Tick_("note"),
    Decision("identify", {"refuse", "fault"}), Journal>>

ProfileResolved == <<Renew, Decision("arm", {}), Check, Decision("eligibility", {"refuse"}), Journal>>

Eligible ==
  <<Renew, Check, Decision("consent", {}), Fenced("provision", {"fault"}), Decision("arm", {}),
    Fenced("prepare", {"fault"}), Fenced("start", {"fault"}), Decision("narrow", {}), Journal>>

SandboxStarted ==
  <<Renew, Item("emit", "announce", {"fault"}), Check, Call("observe_base", {"fault", "refuse"}), Journal>>

Running ==
  <<Renew, Item("emit", "started", {"fault"}), Fenced("invoke", {"fault", "indeterminate"}),
    Item("emit", "calls", {"fault"}), Fenced("gates", {"fault", "refuse"}),
    Call("observe", {"fault", "refuse"}), Call("artifacts", {}), Check, Journal>>

Materialize ==
  <<Decision("materialize", {"refuse"}), Item("renew", "confirm", {}), Fenced("apply", {"fault"})>>

Verifying ==
  <<Renew, Check, Item("read", "read", {}), Tick_("note"), Decision("candidate", {"fault", "refuse"}),
    Call("artifacts", {}), Check, Decision("verify", {"fault", "refuse"}), Check>>
  \o Materialize \o <<Check, Decision("complete", {"complete"})>>

Walk == <<Requested, ProfileResolved, Eligible, SandboxStarted, Running, Verifying>>

\* The steps of terminal code.
EndTick == {"hold", "hold_row", "gate", "flush", "flush_again", "recovery_flush", "last_flush"}
EndItem(s) == IF s \in EndTick THEN Tick_(s)
              ELSE IF s \in {"commit", "record", "stop"} THEN Call(s, {}) ELSE Decision(s, {})

\* What the attempt has reached.
Here == IF step = "walk" THEN Walk[phase][pos] ELSE EndItem(step)
At(s) == Here.at = s
Waits == Here.kind # "decision"

MinOf(a, b) == IF a < b THEN a ELSE b
Longest == IF Acquisition < Profile THEN Profile ELSE Acquisition

Init == /\ spent = 0 /\ grant = Acquisition /\ armed = Acquisition
        /\ window = Off /\ inner = Off
        /\ reason = "none" /\ withdrawn = FALSE
        /\ mode = "walk" /\ phase = 1 /\ pos = 1 /\ step = "walk" /\ call = "due"
        /\ goal = "none" /\ name = [r \in Resource |-> "none"]
        /\ lost = FALSE /\ captured = FALSE /\ established = FALSE
        /\ terminal = "none" /\ recorded = "none" /\ pending = FALSE
        /\ exists = {} /\ asked = {} /\ broken = FALSE

-----------------------------------------------------------------------------
(* Clocks and boundaries.                                                  *)

Down(c) == IF c \in {Off, 0} THEN c ELSE c - 1

Pass == /\ step # "answered"
        /\ call = "out" \/ step = "walk"
        /\ spent < Longest \/ \E c \in {armed, window, inner} : c \notin {Off, 0}
        /\ spent' = MinOf(spent + 1, Longest)
        /\ armed' = Down(armed) /\ window' = Down(window) /\ inner' = Down(inner)
        /\ UNCHANGED <<grant, phase, pos, step, call, goal, terminal, recorded, pending,
                       knows, resources, reason, withdrawn, mode, lost, broken>>

Withdraw == /\ ~withdrawn /\ step # "answered"
            /\ withdrawn' = TRUE
            /\ UNCHANGED <<clocks, plan, knows, resources, reason, mode, lost, broken>>

\* #raiseIfElapsed; and interrupted(), which also asks the caller.
Elapsed == IF reason = "none" /\ armed = 0 THEN "timeout" ELSE reason
Interrupted == IF Elapsed = "none" /\ withdrawn THEN "cancel" ELSE Elapsed

WindowStop(w) == IF w = 0 THEN "expired" ELSE "none"

\* Why the boundary refuses a call on entry, and discards its result.
Stop == IF inner # Off THEN WindowStop(inner)
        ELSE IF mode = "walk" THEN Elapsed
        ELSE IF mode = "recovery" /\ Interrupted # "none" THEN Interrupted
        ELSE WindowStop(window)

\* Why the boundary cuts off a call under way: its timer, or the poll.
Cut == IF inner = Off /\ mode = "walk" THEN Interrupted ELSE Stop

\* The clock that bounds a publication, and whether it is the run's
\* (expiry, bound); in recovery the run's goes first when they tie.
Winning == IF mode = "walk" THEN armed
           ELSE IF mode = "recovery" /\ armed # Off THEN MinOf(armed, window) ELSE window

\* Faulty: whatever bounds the recovery is the run's clock.
GovernedLoosely == mode # "settlement"

Governed == mode = "walk" \/ (mode = "recovery" /\ armed # Off /\ armed <= window)

-----------------------------------------------------------------------------
(* Where the code goes next.                                               *)

Next2 == IF pos < Len(Walk[phase]) THEN <<phase, pos + 1>> ELSE <<phase + 1, 1>>

Jump(n) == /\ phase' = n[1] /\ pos' = n[2] /\ call' = "due"
           /\ pending' = (pending \/ Walk[n[1]][n[2]].kind = "tick")
           /\ UNCHANGED <<inner, step, goal, terminal, recorded>>

\* The phase goes on.
Forward == Jump(Next2) /\ UNCHANGED armed

Then(s, p) == /\ step' = s /\ call' = "due" /\ pending' = p
              /\ UNCHANGED <<armed, inner, phase, pos, goal, terminal, recorded>>

\* scope.reachTerminal, over the canonical table.
Reached(k) == IF terminal = "none" THEN k ELSE terminal

\* Faulty: the run's clock is stopped and nothing replaces it.
ConcludingUnbounded(t, r, p) == /\ armed' = Off /\ inner' = Off
                                /\ step' = "flush" /\ call' = "due"
                                /\ terminal' = t /\ recorded' = r /\ pending' = p
                                /\ UNCHANGED <<phase, pos, goal>>

\* conclude: the run's clock is stopped, and a fresh window bounds the rest.
Concluding(t, r, p) == /\ armed' = Off /\ inner' = Grace
                       /\ step' = "flush" /\ call' = "due"
                       /\ terminal' = t /\ recorded' = r /\ pending' = p
                       /\ UNCHANGED <<phase, pos, goal>>

Conclude == Concluding(terminal, recorded, pending)
FailClosed(k) == Concluding(Reached(k), recorded, TRUE)

KeepsClock == armed' = IF mode' = "settlement" THEN Off ELSE armed

\* finish, with the fence held: assembly may be refused, and a machine that
\* is terminal already grants nothing.
Finish(k) == \/ /\ terminal = "none" /\ goal' = k
                /\ step' = "gate" /\ call' = "due" /\ inner' = Off /\ KeepsClock
                /\ UNCHANGED <<phase, pos, terminal, recorded, pending>>
             \/ \E f \in {"fault", "refuse"} : FailClosed(f)

\* terminateEarly; on a terminal machine, writeEarlyTerminalRecord alone.  The record
\* may not be one the contract admits.
Early(k) == \/ /\ terminal' = Reached(k) /\ pending' = (pending \/ terminal = "none")
               /\ step' = "record" /\ call' = "due" /\ inner' = Off /\ KeepsClock
               /\ UNCHANGED <<phase, pos, goal, recorded>>
            \/ Concluding(Reached(k), recorded, pending \/ terminal = "none")

Ends(k) == IF phase = 1 THEN Early(k) ELSE Finish(k)

-----------------------------------------------------------------------------
(* What happens when a boundary or a port rejects (settle.ts, #walkOwned). *)

SettleRecord(why) == /\ window' = Grace
                     /\ IF lost THEN Conclude
                        ELSE IF established THEN Finish(why) ELSE Early(why)

Settle(why) ==
  /\ mode' = "settlement"
  /\ IF name["session"] = "handle"
     THEN /\ inner' = Grace /\ window' = Off /\ armed' = Off
          /\ step' = "stop" /\ call' = "due"
          /\ UNCHANGED <<phase, pos, goal, terminal, recorded, pending>>
     ELSE SettleRecord(why)
  /\ UNCHANGED broken

Recover ==
  /\ mode' = "recovery" /\ window' = Grace
  /\ IF established /\ ~lost THEN Finish("indeterminate")
     ELSE /\ terminal' = IF lost THEN terminal ELSE Reached("indeterminate")
          /\ pending' = (pending \/ ~lost)
          /\ step' = "recovery_flush" /\ call' = "due" /\ inner' = Off
          /\ UNCHANGED <<armed, phase, pos, goal, recorded>>
  /\ UNCHANGED broken

\* incomplete: an answer without release.
Incomplete == /\ step' = "answered" /\ call' = "done" /\ broken' = (broken \/ ~lost)
              /\ UNCHANGED <<armed, inner, phase, pos, goal, terminal, recorded, pending, window, mode>>

Fallback == /\ terminal' = IF lost THEN terminal ELSE Reached(reason)
            /\ pending' = (pending \/ ~lost)
            /\ step' = "last_flush" /\ call' = "due" /\ inner' = Off
            /\ UNCHANGED <<armed, phase, pos, goal, recorded, window, mode, broken>>

Escape(why) ==
  /\ reason' = IF why \in Reason THEN why ELSE reason
  /\ \/ mode = "settlement" /\ Fallback
     \/ mode # "settlement" /\ why \in Reason /\ Settle(why)
     \/ mode = "walk" /\ why \notin Reason /\ Recover
     \/ mode = "recovery" /\ why \notin Reason /\ Incomplete
  /\ UNCHANGED <<spent, grant, knows, lost, withdrawn>>

\* A rejection the code catches where it waits.
Swallowed == /\ call' = "done"
             /\ UNCHANGED <<clocks, armed, inner, phase, pos, step, goal, terminal, recorded,
                            pending, knows, reason, withdrawn, mode, lost, broken>>

Rejected(why) == /\ IF step \in {"stop", "last_flush"} THEN Swallowed ELSE Escape(why)
                 /\ UNCHANGED <<exists, asked>>

-----------------------------------------------------------------------------
(* Calls.                                                                  *)

\* The resource a call asks for; it has its name before the call.
AskedFor == CASE At("provision") -> {"workspace"} [] At("prepare") -> {"session"} [] OTHER -> {}
Naming(rs, n) == name' = [r \in Resource |-> IF r \in rs THEN n ELSE name[r]]

\* #flushJournal appends nothing once the fence is lost.
NothingToAppend == Here.kind = "tick" /\ (lost \/ ~pending)

Send == /\ call = "due" /\ step # "answered" /\ Waits
        /\ ~NothingToAppend /\ ~(At("renew") /\ lost)
        /\ Naming(AskedFor, "attempt")
        /\ IF Stop # "none" THEN Rejected(Stop)
           ELSE /\ call' = "out"
                /\ exists' = exists \union AskedFor
                /\ asked' = asked \union (IF At("stop") THEN {"interrupt"} ELSE {})
                /\ UNCHANGED <<clocks, armed, inner, phase, pos, step, goal, terminal, recorded,
                               pending, knows, reason, withdrawn, mode, lost, broken>>

CutOff == call = "out" /\ Cut # "none" /\ Rejected(Cut) /\ UNCHANGED name

\* The port's own error; it is not asked whether the boundary has expired.
Throws == /\ call = "out" /\ UNCHANGED <<name, exists, asked>>
          /\ Here.kind \notin {"read", "emit"}
          /\ IF Here.kind = "tick" \/ step = "stop" THEN Swallowed ELSE Escape("throw")

Answered(kinds) == call = "out" /\ Here.kind \in kinds /\ Stop = "none"

\* An action that changes the plan, the resources and the fence alone.
Within == UNCHANGED <<clocks, knows, reason, withdrawn, mode, broken>>

Renewed == /\ Within /\ UNCHANGED <<resources, lost>>
           /\ Answered({"renew"}) /\ Forward

\* The attempt lost the run: nothing more is written or released.
LetGo == /\ lost' = TRUE /\ name' = [r \in Resource |-> "none"]
         /\ armed' = Off /\ step' = "answered" /\ call' = "done"
         /\ UNCHANGED <<inner, phase, pos, goal, terminal, recorded, pending, exists, asked>>
         /\ Within

\* The lease says so, or a store said it before.
RenewRefused == At("renew") /\ Answered({"renew"}) /\ LetGo
LostBefore == At("renew") /\ call = "due" /\ lost /\ LetGo

\* The fence is refused where the work is done.
Dispossessed == /\ Answered({"fenced", "emit"}) \/ (Answered({"renew"}) /\ At("confirm"))
                /\ lost' = TRUE /\ Conclude
                /\ Naming(AskedFor, "none") /\ exists' = exists \ AskedFor
                /\ Within /\ UNCHANGED asked

Succeeds == /\ Within /\ UNCHANGED <<exists, asked, lost>>
            /\ step = "walk" /\ Answered({"call", "fenced", "emit"}) /\ Forward
            /\ Naming(AskedFor, "handle")

\* Refused by the port, or an emission whose sink threw.
Fails == /\ Within /\ UNCHANGED <<asked, lost>>
         /\ Answered({"call", "fenced"}) \/ (call = "out" /\ Here.kind = "emit")
         /\ \E k \in Here.ends : Finish(k)
         /\ Naming(AskedFor, "none") /\ exists' = exists \ AskedFor

\* What was read, or that nothing could be read because the source threw.
HasRead == /\ Within /\ UNCHANGED <<resources, lost>>
           /\ call = "out" /\ Here.kind = "read" /\ Forward

-----------------------------------------------------------------------------
(* Decisions of the phases.                                                *)

Decides(at) == step = "walk" /\ call = "due" /\ At(at)

\* interrupted(), at the places the phases name.  The session's interrupt
\* that abortRun sends is refused by the boundary it was just raised at.
Heeds == /\ UNCHANGED <<clocks, knows, withdrawn, mode, broken, resources, lost>>
         /\ Decides("check") /\ Interrupted # "none"
         /\ reason' = Interrupted
         /\ Ends(Interrupted)

Refuses == /\ Within /\ UNCHANGED <<resources, lost>>
           /\ step = "walk" /\ call = "due" /\ Here.kind = "decision"
           /\ \E k \in Here.ends : Ends(k)

GoesOn == /\ Within /\ UNCHANGED <<resources, lost>>
          /\ \/ (Decides("check") /\ Interrupted = "none")
             \/ \E d \in {"profile", "eligibility", "consent", "candidate", "verify", "materialize"} : Decides(d)
          /\ Forward

\* The captured profile is another one than was asked for.
Misidentifies == /\ UNCHANGED <<clocks, established, reason, withdrawn, mode, broken, resources, lost>>
                 /\ Decides("identify") /\ captured' = TRUE
                 /\ Early("refuse")

Identifies == /\ UNCHANGED <<clocks, reason, withdrawn, mode, broken, resources, lost>>
              /\ Decides("identify") /\ captured' = TRUE /\ established' = TRUE
              /\ Forward

\* Faulty: the budget starts when it is armed.
LeftAnew(budget) == budget

\* The budget re-armed keeps the time already spent.
Left(budget) == IF spent < budget THEN budget - spent ELSE 0

\* armProfile and narrowProfile (boundedDeadlineMs).
Arms == /\ UNCHANGED <<spent, window, knows, reason, withdrawn, mode, broken, resources, lost>>
        /\ \/ Decides("arm") /\ grant' = Profile
           \/ Decides("narrow") /\ grant' = MinOf(Profile, Offer)
        /\ armed' = Left(grant')
        /\ Jump(Next2)

\* Consent is missing: the run waits.
Holds == /\ Within /\ UNCHANGED <<resources, lost>>
         /\ Decides("consent") /\ Then("hold", TRUE)

\* Nothing changed: nothing is applied.
Skips == /\ Within /\ UNCHANGED <<resources, lost, armed>>
         /\ Decides("materialize") /\ Jump(<<phase, pos + Len(Materialize)>>)

-----------------------------------------------------------------------------
(* Journal ticks, and terminal code.                                       *)

Appends == /\ UNCHANGED <<clocks, armed, inner, phase, pos, step, goal, terminal, recorded,
                          knows, resources, reason, withdrawn, mode, broken>>
           /\ Answered({"tick"}) /\ call' = "done"
           /\ \/ pending' = FALSE /\ UNCHANGED lost
              \/ UNCHANGED <<pending, lost>>                \* a conflicting replay
              \/ lost' = TRUE /\ UNCHANGED pending

Ticked(s) == (IF step = "walk" THEN At(s) ELSE step = s)
             /\ (call = "done" \/ (call = "due" /\ NothingToAppend))

AfterTick ==
  /\ Within /\ UNCHANGED <<resources, lost>>
  /\ \/ Ticked("note") /\ IF lost THEN Conclude ELSE Forward
     \/ Ticked("journal") /\ Forward
     \/ Ticked("hold") /\ Then("hold_row", TRUE)
     \/ Ticked("hold_row") /\ Conclude
     \/ Ticked("gate") /\ IF pending THEN FailClosed("fault")
                          ELSE Then("commit", pending) \/ FailClosed("fault")
     \/ Ticked("flush") /\ Then("flush_again", pending)
     \/ Ticked("flush_again") /\ Then("release", pending)
     \/ Ticked("last_flush") /\ Then("last_release", pending)
     \/ /\ Ticked("recovery_flush") /\ ~captured /\ call = "done"
        /\ IF lost THEN Conclude ELSE Then("record", pending) \/ Conclude

\* A fault after the capture that no bundle can be made for, or an attempt
\* that was dispossessed before.
GivesUp == /\ UNCHANGED <<spent, grant, knows, resources, reason, withdrawn, lost>>
           /\ Ticked("recovery_flush")
           /\ captured \/ call = "due"
           /\ Incomplete

StopEnds == /\ UNCHANGED <<spent, grant, knows, resources, reason, withdrawn, mode, lost, broken>>
            /\ step = "stop"
            /\ call = "done" \/ Answered({"call"})
            /\ SettleRecord(reason)

\* The marker is set before the clock that wins has expired.
Publishes == /\ step = "commit" /\ call = "out" /\ Winning # 0
             /\ Concluding(goal, "bundle", FALSE)
             /\ Within /\ UNCHANGED <<resources, lost>>

\* The clock that wins refuses: the run timed out, or recording ran out of
\* time and the intended terminal stands.
CommitExpires == /\ step = "commit" /\ call = "out" /\ Winning = 0
                 /\ IF Governed THEN FailClosed("timeout") ELSE FailClosed(goal)
                 /\ Within /\ UNCHANGED <<resources, lost>>

CommitRefused == /\ step = "commit" /\ call = "out"
                 /\ \/ FailClosed("fault") /\ UNCHANGED lost
                    \/ mode # "walk" /\ FailClosed(goal) /\ UNCHANGED lost   \* already_committed
                    \/ Conclude /\ lost' = TRUE
                 /\ Within /\ UNCHANGED resources

\* The early-termination record, or its refusal.
Records == /\ step = "record" /\ Answered({"call"})
           /\ \/ Concluding(terminal, "early", pending) /\ UNCHANGED lost
              \/ Conclude /\ UNCHANGED lost                     \* a conflicting replay
              \/ Conclude /\ lost' = TRUE
           /\ Within /\ UNCHANGED resources

\* scope.release: the handle, or else the identity given before the call.
KnownByHandle == {r \in Resource : name[r] = "handle"}
Known == {r \in Resource : name[r] # "none"}

Release == /\ step \in {"release", "last_release"}
           /\ name' = [r \in Resource |-> "none"]
           /\ asked' = asked \union (IF lost \/ Stop # "none" THEN {} ELSE Known)
           /\ broken' = (broken \/ (~lost /\ Stop # "none"))
           /\ step' = "answered"
           /\ UNCHANGED <<clocks, armed, inner, phase, pos, call, goal, terminal, recorded, pending,
                          knows, exists, reason, withdrawn, mode, lost>>

-----------------------------------------------------------------------------
\* What the attempt does without waiting for a port, and what its boundaries
\* do to a call that takes too long.
Runs == \/ Send \/ Heeds \/ Refuses \/ GoesOn \/ Misidentifies \/ Identifies \/ Arms \/ Holds
        \/ Skips \/ AfterTick \/ GivesUp \/ StopEnds \/ Release \/ CutOff
        \/ LostBefore

Answers == \/ Throws \/ Renewed \/ RenewRefused \/ Dispossessed \/ Succeeds \/ Fails \/ HasRead
           \/ Appends \/ Publishes \/ CommitExpires \/ CommitRefused \/ Records

Next == Pass \/ Withdraw \/ Runs \/ Answers

Spec == Init /\ [][Next]_vars

\* Time passes, timers run, and code that waits for nothing runs on.
FairSpec == Spec /\ WF_vars(Pass) /\ WF_vars(Runs)

-----------------------------------------------------------------------------
(* Properties.                                                             *)

Clock == Nat \union {Off}

\* Type invariant.
TypeOK ==
  /\ spent \in 0 .. Longest /\ grant \in Nat
  /\ armed \in Clock /\ window \in Clock /\ inner \in Clock
  /\ reason \in Reason \union {"none"} /\ withdrawn \in BOOLEAN
  /\ mode \in {"walk", "recovery", "settlement"}
  /\ phase \in 1 .. Len(Walk) /\ pos \in 1 .. Len(Walk[phase])
  /\ step \in EndTick \union {"walk", "commit", "record", "stop", "release", "last_release", "answered"}
  /\ call \in {"due", "out", "done"}
  /\ goal \in Kind \union {"none"} /\ terminal \in Kind \union {"none"}
  /\ name \in [Resource -> {"none", "attempt", "handle"}]
  /\ {lost, captured, established, pending, broken} \subseteq BOOLEAN
  /\ recorded \in {"none", "early", "bundle"}
  /\ exists \subseteq Resource /\ asked \subseteq Resource \union {"interrupt"}

\* No port is called by the walk, and nothing it named is handed to it, once
\* the budget that governs it is spent: not the acquisition budget before the
\* profile, nor after it the profile's less the time spent acquiring
\* (RunDeadline.call, armProfile, narrowProfile).
WithinBudget ==
  [][mode = "walk" /\ inner = Off /\ spent >= grant =>
       /\ call = "due" => call' # "out"
       /\ \A r \in Resource : name'[r] = "handle" => name[r] = "handle"
       /\ recorded' = recorded]_vars

\* A run is timed out only when its own budget is spent, never because a
\* settlement or recovery window was; and cancelled only when its caller
\* withdrew it (RunRecovery.expiry, the outcomes of a refused commit).
TerminalHasCause ==
  /\ terminal = "timeout" => spent >= grant
  /\ terminal = "cancel" => withdrawn

\* An attempt that answers has asked for the release of whatever may exist in
\* its name, also when the answer that names it never came, unless the fence
\* was lost, the window of the release had expired (RunScope.release), or recovery
\* failed once more and answered without teardown (recoverRun, incomplete).
ReleasedByName == step = "answered" /\ ~lost /\ ~broken => exists \subseteq asked

\* The attempt answers, whichever ports never do (deadline.ts: "broken sink
\* may make run() unbounded").
Concludes == <>(step = "answered")

=============================================================================
