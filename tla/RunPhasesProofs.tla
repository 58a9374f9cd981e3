-------------------------- MODULE RunPhasesProofs --------------------------
(***************************************************************************)
(* What an attempt's clocks, its interruption and its release guarantee,   *)
(* for every budget, offer and window.  The wall clock and the time spent  *)
(* add up to the budget as long as the walk is governed by it, so that     *)
(* nothing is timed out, and nothing is called, on another account.        *)
(***************************************************************************)
EXTENDS RunPhases, TLAPS

\* A kind of terminal that needs a cause has one.
Cause(k) == /\ k = "timeout" => spent >= grant
            /\ k = "cancel" => withdrawn

\* The wall clock never runs ahead of the budget, and governs the walk until
\* its terminal is concluded.
ClockInv ==
  /\ grant <= Longest
  /\ armed # Off => armed + spent >= grant
  /\ mode = "walk" /\ inner = Off /\ step # "answered" =>
       armed # Off /\ (armed = 0 \/ armed + spent = grant)
  /\ mode = "walk" /\ inner # Off => step \in {"flush", "flush_again", "release", "answered"}
  /\ mode = "recovery" => window # Off
  /\ step = "walk" => mode = "walk" /\ inner = Off

\* Why the run is interrupted, and what is or will be its terminal.
CauseInv ==
  /\ Cause(reason) /\ Cause(goal) /\ Cause(terminal)
  /\ step = "walk" => reason = "none" /\ goal = "none" /\ terminal = "none"

\* Whatever may exist has a name until it is released, and nothing is awaited
\* when it is.
ReleaseInv ==
  /\ step \in {"release", "last_release", "answered"} => call # "out"
  /\ step # "answered" /\ ~lost => exists \subseteq Known
  /\ ReleasedByName

IInv == TypeOK /\ ClockInv /\ CauseInv /\ ReleaseInv

-----------------------------------------------------------------------------
(* The phases.                                                             *)

Unforced == {"refuse", "fault", "indeterminate", "complete"}

\* No item of a phase ends in a terminal that needs a cause, and the last one
\* of the last phase is left for a terminal only.
GoodItem(p, q) ==
  LET item == Walk[p][q]
  IN /\ item.ends \subseteq Unforced
     /\ item.at = "materialize" => p = 6 /\ q = 10
     /\ p = 6 /\ q = 14 => item.kind = "decision" /\ item.at = "complete"
     /\ item.at = "complete" => item.kind = "decision"
     /\ item.kind = "tick" => item.at \in {"note", "journal"}
     /\ item.at \notin EndTick

LEMMA LengthsOfPhases ==
  /\ Len(Walk) = 6
  /\ Walk[1] = Requested /\ Walk[2] = ProfileResolved /\ Walk[3] = Eligible
  /\ Walk[4] = SandboxStarted /\ Walk[5] = Running /\ Walk[6] = Verifying
  /\ Len(Requested) = 7 /\ Len(ProfileResolved) = 5 /\ Len(Eligible) = 9
  /\ Len(SandboxStarted) = 5 /\ Len(Running) = 9 /\ Len(Verifying) = 14
  /\ Len(Materialize) = 3
<1>1. Len(Materialize) = 3
  BY DEF Materialize
<1>2. /\ Len(Requested) = 7 /\ Len(ProfileResolved) = 5 /\ Len(Eligible) = 9
      /\ Len(SandboxStarted) = 5 /\ Len(Running) = 9
  BY DEF Requested, ProfileResolved, Eligible, SandboxStarted, Running
<1>3. Len(Verifying) = 14
  BY DEF Verifying, Materialize
<1>4. /\ Len(Walk) = 6
      /\ Walk[1] = Requested /\ Walk[2] = ProfileResolved /\ Walk[3] = Eligible
      /\ Walk[4] = SandboxStarted /\ Walk[5] = Running /\ Walk[6] = Verifying
  BY DEF Walk
<1>. QED
  BY <1>1, <1>2, <1>3, <1>4

LEMMA ItemsOfPhases ==
  \A p \in 1 .. Len(Walk) : \A q \in 1 .. Len(Walk[p]) : GoodItem(p, q)
<1> USE DEF Item, Call, Fenced, Tick_, Decision, Renew, Check, Journal, Unforced,
          EndTick
<1>1. \A q \in 1 .. 7 : GoodItem(1, q)
  BY LengthsOfPhases DEF GoodItem, Requested
<1>2. \A q \in 1 .. 5 : GoodItem(2, q)
  BY LengthsOfPhases DEF GoodItem, ProfileResolved
<1>3. \A q \in 1 .. 9 : GoodItem(3, q)
  BY LengthsOfPhases DEF GoodItem, Eligible
<1>4. \A q \in 1 .. 5 : GoodItem(4, q)
  BY LengthsOfPhases DEF GoodItem, SandboxStarted
<1>5. \A q \in 1 .. 9 : GoodItem(5, q)
  BY LengthsOfPhases DEF GoodItem, Running
<1>6. \A q \in 1 .. 14 : GoodItem(6, q)
  BY LengthsOfPhases DEF GoodItem, Verifying, Materialize
<1>. QED
  <2>1. \A p \in 1 .. 6 : p \in {1, 2, 3, 4, 5, 6}
    OBVIOUS
  <2>. QED
    BY <1>1, <1>2, <1>3, <1>4, <1>5, <1>6, <2>1, LengthsOfPhases

-----------------------------------------------------------------------------
(* Where the attempt is.                                                   *)

LEMMA ClocksAreNat ==
  /\ Acquisition \in Nat /\ Profile \in Nat /\ Offer \in Nat /\ Grace \in Nat
  /\ Longest \in Nat /\ Acquisition <= Longest /\ Profile <= Longest
  /\ Off \notin Nat /\ Off # 0 /\ Off # Grace /\ Grace # 0
  BY RunPhasesAssumption DEF Longest

LEMMA HereInWalk ==
  ASSUME TypeOK, step = "walk"
  PROVE  /\ Here = Walk[phase][pos] /\ GoodItem(phase, pos)
         /\ phase \in 1 .. 6 /\ pos \in 1 .. Len(Walk[phase])
  BY ItemsOfPhases, LengthsOfPhases DEF TypeOK, Here

LEMMA HereAtEnd ==
  ASSUME step # "walk"
  PROVE  /\ Here.at = step /\ Here.ends = {} /\ Here.kind \in {"tick", "call", "decision"}
         /\ Here.kind # "decision" => step \notin {"release", "last_release", "answered"}
  BY DEF Here, EndItem, EndTick, Tick_, Call, Decision, Item

\* The ends of an item need no cause.
LEMMA EndsUnforced ==
  ASSUME TypeOK
  PROVE  Here.ends \subseteq Unforced
  BY HereInWalk, HereAtEnd DEF GoodItem

\* What goes on stays in the walk.
LEMMA StaysInWalk ==
  ASSUME TypeOK, step = "walk", ~ At("complete")
  PROVE  Next2[1] \in 1 .. Len(Walk) /\ Next2[2] \in 1 .. Len(Walk[Next2[1]])
<1>1. /\ phase \in 1 .. 6 /\ pos \in 1 .. Len(Walk[phase])
      /\ phase = 6 => pos < 14
  <2>1. /\ phase \in 1 .. 6 /\ pos \in 1 .. Len(Walk[phase])
        /\ Here = Walk[phase][pos] /\ GoodItem(phase, pos)
    BY HereInWalk
  <2>2. phase = 6 /\ pos = 14 => Here.at = "complete"
    BY <2>1 DEF GoodItem
  <2>3. phase = 6 => pos # 14
    BY <2>2 DEF At
  <2>4. phase = 6 => pos \in 1 .. 14
    BY <2>1, LengthsOfPhases
  <2>. QED
    BY <2>1, <2>3, <2>4
<1>2. \A p \in 1 .. 6 : Len(Walk[p]) \in Nat \ {0}
  <2>1. \A p \in 1 .. 6 : p \in {1, 2, 3, 4, 5, 6}
    OBVIOUS
  <2>2. /\ Len(Walk[1]) = 7 /\ Len(Walk[2]) = 5 /\ Len(Walk[3]) = 9
        /\ Len(Walk[4]) = 5 /\ Len(Walk[5]) = 9 /\ Len(Walk[6]) = 14
    BY LengthsOfPhases
  <2>3. {7, 5, 9, 14} \subseteq Nat \ {0}
    OBVIOUS
  <2>. QED
    BY <2>1, <2>2, <2>3
<1>3. CASE pos < Len(Walk[phase])
  BY <1>1, <1>2, <1>3, LengthsOfPhases DEF Next2
<1>4. CASE ~ (pos < Len(Walk[phase]))
  <2>0. phase # 6
    BY <1>1, <1>4, LengthsOfPhases
  <2>1. phase + 1 \in 1 .. 6
    BY <1>1, <2>0
  <2>. QED
    BY <1>2, <1>4, <2>1, LengthsOfPhases DEF Next2
<1>. QED
  BY <1>3, <1>4

-----------------------------------------------------------------------------
(* What terminal code does to the plan.                                    *)

\* The attempt turns to terminal code, with k as its terminal or a fault.
Turned(k) ==
  /\ call' = "due" /\ UNCHANGED <<phase, pos>> /\ pending' \in BOOLEAN
  /\ goal' \in {goal, k} /\ terminal' \in {terminal, k, "fault", "refuse"}
  /\ \/ step' \in {"gate", "record"} /\ inner' = Off /\ KeepsClock
     \/ step' = "flush" /\ inner' = Grace /\ armed' = Off

LEMMA Turns ==
  ASSUME TypeOK, NEW k
  PROVE  /\ Finish(k) => Turned(k)
         /\ Early(k) => Turned(k)
         /\ Ends(k) => Turned(k)
         /\ FailClosed(k) => Turned(k)
         /\ Conclude => Turned(k)
         /\ Finish(k) \/ Early(k) \/ Ends(k) \/ FailClosed(k) \/ Conclude => UNCHANGED recorded
<1>1. pending \in BOOLEAN
  BY DEF TypeOK
<1>2. FailClosed(k) => Turned(k)
  BY <1>1 DEF FailClosed, Concluding, Reached, Turned
<1>3. Conclude => Turned(k)
  BY <1>1 DEF Conclude, Concluding, Turned
<1>4. Early(k) => Turned(k)
  BY <1>1 DEF Early, Concluding, Reached, Turned
<1>5. Finish(k) => Turned(k)
  BY <1>1 DEF Finish, FailClosed, Concluding, Reached, Turned
<1>6. Finish(k) \/ Early(k) \/ FailClosed(k) \/ Conclude => UNCHANGED recorded
  BY DEF Finish, Early, FailClosed, Conclude, Concluding
<1>. QED
  BY <1>2, <1>3, <1>4, <1>5, <1>6 DEF Ends

\* A rejection leaves the walk for settlement or recovery.
Escaped(why) ==
  /\ reason' = (IF why \in Reason THEN why ELSE reason)
  /\ UNCHANGED <<spent, grant, knows, lost, withdrawn, phase, pos, recorded>>
  /\ call' \in {"due", "done"} /\ pending' \in BOOLEAN
  /\ goal' = goal \/ goal' = "indeterminate" \/ (why \in Reason /\ goal' = why)
  /\ \/ terminal' \in {terminal, reason, "indeterminate", "fault", "refuse"}
     \/ why \in Reason /\ terminal' = why
  /\ armed' \in {armed, Off} /\ inner' \in {inner, Off, Grace} /\ window' \in {window, Off, Grace}
  /\ mode' \in {"recovery", "settlement"}
  /\ mode' = "recovery" => window' # Off
  /\ step' \in {"flush", "gate", "record", "stop", "recovery_flush", "last_flush", "answered"}
  /\ broken' \in BOOLEAN
  /\ step' = "answered" => call' = "done" /\ (lost \/ broken')

LEMMA Escapes ==
  ASSUME TypeOK, ClockInv, NEW why, Escape(why)
  PROVE  Escaped(why)
<1>1. pending \in BOOLEAN /\ lost \in BOOLEAN /\ broken \in BOOLEAN
      /\ mode \in {"walk", "recovery", "settlement"} /\ Grace # Off
  BY ClocksAreNat DEF TypeOK
<1>2. ASSUME NEW k, SettleRecord(k), k = why, why \in Reason, mode' = "settlement", UNCHANGED broken
      PROVE  Escaped(why)
  <2>1. Turned(k) /\ window' = Grace /\ UNCHANGED recorded
    BY <1>2, Turns DEF SettleRecord
  <2>. QED
    BY <1>1, <1>2, <2>1 DEF Escape, Turned, KeepsClock, Escaped
<1>3. CASE Settle(why) /\ why \in Reason
  <2>1. CASE name["session"] = "handle"
    BY <1>1, <1>3, <2>1 DEF Settle, Escape, Escaped
  <2>2. CASE name["session"] # "handle"
    BY <1>1, <1>2, <1>3, <2>2 DEF Settle
  <2>. QED
    BY <2>1, <2>2
<1>4. CASE Recover /\ why \notin Reason
  <2>1. CASE established /\ ~lost
    <3>1. Turned("indeterminate") /\ window' = Grace /\ mode' = "recovery" /\ UNCHANGED <<broken, recorded>>
      BY <1>4, <2>1, Turns DEF Recover
    <3>. QED
      BY <1>1, <1>4, <3>1 DEF Escape, Turned, KeepsClock, Escaped
  <2>2. CASE ~ (established /\ ~lost)
    BY <1>1, <1>4, <2>2 DEF Recover, Reached, Escape, Escaped
  <2>. QED
    BY <2>1, <2>2
<1>5. CASE mode = "settlement" /\ Fallback
  BY <1>1, <1>5 DEF Fallback, Reached, Escape, Escaped
<1>6. CASE mode = "recovery" /\ Incomplete
  BY <1>1, <1>6 DEF Incomplete, Escape, Escaped, ClockInv
<1>. QED
  BY <1>3, <1>4, <1>5, <1>6 DEF Escape

\* What an escape keeps, if its reason has a cause.
LEMMA EscapeKeeps ==
  ASSUME IInv, NEW why, Escaped(why), why \in Reason => Cause(why),
         name' \in [Resource -> {"none", "attempt", "handle"}],
         asked' \subseteq Resource \union {"interrupt"}, exists' \subseteq Resource,
         ~lost /\ step' # "answered" => exists' \subseteq Known'
  PROVE  IInv'
<1>1. TypeOK'
  BY ClocksAreNat DEF IInv, TypeOK, Escaped, Clock, EndTick, Kind, Reason, knows
<1>2. ClockInv'
  BY ClocksAreNat DEF IInv, TypeOK, ClockInv, Escaped
<1>3. CauseInv'
  BY DEF IInv, CauseInv, Cause, Escaped, Reason
<1>4. ReleaseInv'
  BY DEF IInv, ReleaseInv, ReleasedByName, Escaped
<1>. QED
  BY <1>1, <1>2, <1>3, <1>4 DEF IInv

-----------------------------------------------------------------------------
(* What the kinds of step keep.                                            *)

\* A resource keeps its name, or is asked for under one, or is not there.
Named ==
  /\ name' \in [Resource -> {"none", "attempt", "handle"}]
  /\ asked' \subseteq Resource \union {"interrupt"} /\ exists' \subseteq Resource
  /\ ~lost' => exists' \subseteq Known'
  /\ lost' \in BOOLEAN

LEMMA TurnKeeps ==
  ASSUME IInv, NEW k, Turned(k), k \in Kind \union {"none"}, Cause(k), Named,
         mode = "walk" => inner = Off, step # "answered",
         UNCHANGED <<spent, grant, withdrawn, mode, broken>>, window' \in {window, Grace},
         reason' \in Reason \union {"none"}, Cause(reason'),
         recorded' \in {"none", "early", "bundle"},
         captured' \in BOOLEAN, established' \in BOOLEAN
  PROVE  IInv'
<1>1. TypeOK'
  BY ClocksAreNat DEF IInv, TypeOK, Turned, KeepsClock, Named, Clock, EndTick, Kind, Reason
<1>2. ClockInv'
  BY ClocksAreNat DEF IInv, TypeOK, ClockInv, Turned, KeepsClock
<1>3. CauseInv'
  BY DEF IInv, CauseInv, Cause, Turned
<1>4. ReleaseInv'
  BY DEF IInv, ReleaseInv, ReleasedByName, Turned, Named
<1>. QED
  BY <1>1, <1>2, <1>3, <1>4 DEF IInv

LEMMA JumpKeeps ==
  ASSUME IInv, NEW n, Jump(n), n[1] \in 1 .. Len(Walk), n[2] \in 1 .. Len(Walk[n[1]]),
         step = "walk", Named,
         UNCHANGED <<spent, window, reason, withdrawn, mode, broken>>,
         grant' \in 0 .. Longest, armed' \in Nat, armed' + spent >= grant',
         armed' = 0 \/ armed' + spent = grant',
         captured' \in BOOLEAN, established' \in BOOLEAN
  PROVE  IInv'
<1>0. pending' \in BOOLEAN
  BY DEF IInv, TypeOK, Jump
<1>1. TypeOK'
  <2>1. /\ phase' \in 1 .. Len(Walk) /\ pos' \in 1 .. Len(Walk[phase'])
        /\ step' = step /\ call' = "due"
        /\ goal' \in Kind \union {"none"} /\ terminal' \in Kind \union {"none"}
        /\ recorded' \in {"none", "early", "bundle"} /\ inner' \in Clock
    BY DEF IInv, TypeOK, Jump
  <2>2. /\ spent' \in 0 .. Longest /\ grant' \in Nat
        /\ armed' \in Clock /\ window' \in Clock
    BY ClocksAreNat DEF IInv, TypeOK, Clock
  <2>3. /\ reason' \in Reason \union {"none"} /\ withdrawn' \in BOOLEAN
        /\ mode' \in {"walk", "recovery", "settlement"}
        /\ step' = "walk"
        /\ {lost', captured', established', pending', broken'} \subseteq BOOLEAN
    BY <1>0, <2>1 DEF IInv, TypeOK, Named
  <2>. QED
    BY <2>1, <2>2, <2>3 DEF TypeOK, Named
<1>2. ClockInv'
  <2>1. /\ step' = "walk" /\ mode' = "walk" /\ inner' = Off /\ spent' = spent /\ window' = window
    BY DEF IInv, ClockInv, Jump
  <2>2. grant' <= Longest /\ armed' # Off
    BY ClocksAreNat
  <2>. QED
    BY <2>1, <2>2 DEF ClockInv
<1>3. CauseInv'
  BY DEF IInv, CauseInv, Cause, Jump
<1>4. ReleaseInv'
  BY DEF IInv, ReleaseInv, ReleasedByName, Jump, Named
<1>. QED
  BY <1>1, <1>2, <1>3, <1>4 DEF IInv

LEMMA ForwardKeeps ==
  ASSUME IInv, Forward, step = "walk", ~ At("complete"), Named,
         UNCHANGED <<spent, grant, window, reason, withdrawn, mode, broken>>,
         captured' \in BOOLEAN, established' \in BOOLEAN
  PROVE  IInv'
<1>1. Next2[1] \in 1 .. Len(Walk) /\ Next2[2] \in 1 .. Len(Walk[Next2[1]])
  BY StaysInWalk DEF IInv
<1>2. /\ armed \in Nat /\ armed + spent >= grant /\ (armed = 0 \/ armed + spent = grant)
      /\ grant \in 0 .. Longest
  BY ClocksAreNat DEF IInv, TypeOK, ClockInv, Clock
<1>. QED
  BY <1>1, <1>2, JumpKeeps DEF Forward

LEMMA ThenKeeps ==
  ASSUME IInv, NEW s, NEW p \in BOOLEAN, Then(s, p), step # "answered",
         s \in {"hold", "hold_row", "commit", "flush_again", "release", "last_release", "record"},
         mode = "walk" /\ inner # Off => s \in {"flush_again", "release"},
         Within, UNCHANGED <<resources, lost>>
  PROVE  IInv'
<1>1. TypeOK'
  BY DEF IInv, TypeOK, Then, Within, clocks, knows, resources, Clock, EndTick
<1>2. ClockInv'
  BY ClocksAreNat DEF IInv, TypeOK, ClockInv, Then, Within, clocks
<1>3. CauseInv'
  BY DEF IInv, CauseInv, Cause, Then, Within, clocks
<1>4. ReleaseInv'
  BY DEF IInv, ReleaseInv, ReleasedByName, Then, Within, resources, Known
<1>. QED
  BY <1>1, <1>2, <1>3, <1>4 DEF IInv

\* The call is over, or out: nothing else of the plan changes.
LEMMA CallKeeps ==
  ASSUME IInv, Named, call' \in {"out", "done"}, pending' \in BOOLEAN,
         step \notin {"release", "last_release", "answered"},
         UNCHANGED <<clocks, armed, inner, phase, pos, step, goal, terminal, recorded, knows,
                     reason, withdrawn, mode, broken>>
  PROVE  IInv'
<1>1. TypeOK'
  BY DEF IInv, TypeOK, Named, clocks, knows, Clock
<1>2. ClockInv'
  BY DEF IInv, ClockInv, clocks
<1>3. CauseInv'
  BY DEF IInv, CauseInv, Cause, clocks
<1>4. ReleaseInv'
  BY DEF IInv, ReleaseInv, ReleasedByName, Named
<1>. QED
  BY <1>1, <1>2, <1>3, <1>4 DEF IInv

\* The attempt answers without release.
LEMMA IncompleteKeeps ==
  ASSUME IInv, Incomplete,
         UNCHANGED <<spent, grant, knows, resources, reason, withdrawn, lost>>
  PROVE  IInv'
<1>1. TypeOK'
  BY DEF IInv, TypeOK, Incomplete, knows, resources, Clock
<1>2. ClockInv'
  BY DEF IInv, ClockInv, Incomplete
<1>3. CauseInv'
  BY DEF IInv, CauseInv, Cause, Incomplete
<1>4. ReleaseInv'
  BY DEF IInv, TypeOK, ReleaseInv, ReleasedByName, Incomplete
<1>. QED
  BY <1>1, <1>2, <1>3, <1>4 DEF IInv

-----------------------------------------------------------------------------
(* Why a call is stopped.                                                  *)

LEMMA StopsHaveCause ==
  ASSUME IInv
  PROVE  /\ Stop \in Reason => Cause(Stop)
         /\ Cut \in Reason => Cause(Cut)
         /\ Interrupted \in Reason \union {"none"} /\ Cause(Interrupted)
<1>1. armed = 0 => spent >= grant
  BY ClocksAreNat DEF IInv, TypeOK, ClockInv
<1>2. Cause(reason) /\ reason \in Reason \union {"none"} /\ withdrawn \in BOOLEAN
  BY DEF IInv, TypeOK, CauseInv
<1>3. Elapsed \in Reason \union {"none"} /\ Cause(Elapsed)
  BY <1>1, <1>2 DEF Elapsed, Cause, Reason
<1>4. Interrupted \in Reason \union {"none"} /\ Cause(Interrupted)
  BY <1>2, <1>3 DEF Interrupted, Cause, Reason
<1>5. \A w : WindowStop(w) \notin Reason
  BY DEF WindowStop, Reason
<1>6. Stop \in Reason => Cause(Stop)
  BY <1>3, <1>4, <1>5 DEF Stop
<1>. QED
  BY <1>4, <1>6 DEF Cut

\* The walk is stopped once its budget is spent.
LEMMA SpentIsStopped ==
  ASSUME IInv, mode = "walk", inner = Off, spent >= grant, step # "answered"
  PROVE  armed = 0 /\ Stop # "none"
<1>1. armed = 0
  BY ClocksAreNat DEF IInv, TypeOK, ClockInv, Clock
<1>2. Elapsed # "none"
  BY <1>1 DEF Elapsed
<1>. QED
  BY <1>1, <1>2 DEF Stop

\* Naming what a call asks for.
LEMMA NamesKeep ==
  ASSUME IInv, step # "answered", NEW n \in {"none", "attempt", "handle"}, Naming(AskedFor, n)
  PROVE  /\ name' \in [Resource -> {"none", "attempt", "handle"}]
         /\ AskedFor \subseteq Resource
         /\ ~lost => exists \ AskedFor \subseteq Known'
         /\ ~lost /\ n # "none" => exists \union AskedFor \subseteq Known'
<1>1. AskedFor \subseteq Resource
  BY DEF AskedFor, Resource
<1>2. name \in [Resource -> {"none", "attempt", "handle"}] /\ exists \subseteq Resource
      /\ (~lost => exists \subseteq Known)
  BY DEF IInv, TypeOK, ReleaseInv
<1>3. name' = [r \in Resource |-> IF r \in AskedFor THEN n ELSE name[r]]
  BY DEF Naming
<1>. QED
  BY <1>1, <1>2, <1>3 DEF Known

LEMMA SameNames ==
  ASSUME IInv, step # "answered", UNCHANGED resources, lost' = lost \/ lost' = TRUE
  PROVE  Named
  BY DEF IInv, TypeOK, ReleaseInv, Named, Known, resources

-----------------------------------------------------------------------------
(* Each action keeps the invariant.                                        *)

LEMMA EscapesKeep ==
  ASSUME IInv, NEW why, Escape(why), why \in Reason => Cause(why), Named, step # "answered"
  PROVE  IInv' /\ call' # "out" /\ UNCHANGED recorded
<1>1. Escaped(why)
  BY Escapes DEF IInv
<1>2. UNCHANGED lost
  BY DEF Escape
<1>. QED
  BY <1>1, <1>2, EscapeKeeps DEF Escaped, Named

LEMMA SwallowsKeep ==
  ASSUME IInv, Swallowed, Named, step \notin {"release", "last_release", "answered"}
  PROVE  IInv' /\ call' # "out" /\ UNCHANGED recorded
  BY CallKeeps DEF IInv, TypeOK, Swallowed

LEMMA RejectionsKeep ==
  ASSUME IInv, NEW why, Rejected(why), why \in Reason => Cause(why), step # "answered",
         name' \in [Resource -> {"none", "attempt", "handle"}],
         ~lost => exists \subseteq Known'
  PROVE  IInv' /\ call' # "out" /\ UNCHANGED recorded
<1>1. Named
  <2>1. UNCHANGED <<exists, asked, lost>>
    BY DEF Rejected, Swallowed, Escape
  <2>. QED
    BY <2>1 DEF IInv, TypeOK, Named
<1>. QED
  BY <1>1, EscapesKeep, SwallowsKeep DEF Rejected

\* What is due or out is no release, and no answer.
LEMMA AwaitedSteps ==
  ASSUME IInv
  PROVE  /\ call = "out" => step \notin {"release", "last_release", "answered"}
         /\ Waits => step \notin {"release", "last_release", "answered"}
<1>1. call = "out" => step \notin {"release", "last_release", "answered"}
  BY DEF IInv, ReleaseInv
<1>2. Waits => step \notin {"release", "last_release", "answered"}
  BY HereAtEnd DEF Waits
<1>. QED
  BY <1>1, <1>2

LEMMA SendKeeps ==
  ASSUME IInv, Send
  PROVE  IInv'
<1>1. step \notin {"release", "last_release", "answered"}
  BY AwaitedSteps DEF Send
<1>2. /\ name' \in [Resource -> {"none", "attempt", "handle"}]
      /\ AskedFor \subseteq Resource
      /\ ~lost => exists \subseteq Known'
      /\ ~lost => exists \union AskedFor \subseteq Known'
  BY <1>1, NamesKeep DEF Send
<1>3. CASE Stop # "none"
  BY <1>1, <1>2, <1>3, RejectionsKeep, StopsHaveCause DEF Send
<1>4. CASE Stop = "none"
  <2>1. Named
    BY <1>2, <1>4 DEF Send, IInv, TypeOK, Named
  <2>. QED
    BY <1>1, <1>4, <2>1, CallKeeps DEF Send, IInv, TypeOK
<1>. QED
  BY <1>3, <1>4

LEMMA CutOffKeeps ==
  ASSUME IInv, CutOff
  PROVE  IInv'
<1>1. step \notin {"release", "last_release", "answered"}
  BY AwaitedSteps DEF CutOff
<1>2. /\ name' \in [Resource -> {"none", "attempt", "handle"}]
      /\ ~lost => exists \subseteq Known'
  BY <1>1 DEF CutOff, IInv, TypeOK, ReleaseInv, Known
<1>. QED
  BY <1>1, <1>2, RejectionsKeep, StopsHaveCause DEF CutOff

LEMMA ThrowsKeeps ==
  ASSUME IInv, Throws
  PROVE  IInv'
<1>1. step \notin {"release", "last_release", "answered"}
  BY AwaitedSteps DEF Throws
<1>2. UNCHANGED lost
  BY DEF Throws, Swallowed, Escape
<1>3. Named
  BY <1>1, <1>2, SameNames DEF Throws, resources
<1>. QED
  BY <1>1, <1>3, EscapesKeep, SwallowsKeep DEF Throws, Reason

\* What a call of the walk is.
LEMMA CallsOfWalk ==
  ASSUME IInv
  PROVE  /\ Here.kind \in {"fenced", "emit", "renew", "read"} => step = "walk"
         /\ Here.ends # {} => step = "walk"
         /\ step = "walk" /\ Here.kind # "decision" => ~ At("complete")
         /\ step = "walk" => mode = "walk" /\ inner = Off
<1>1. step # "walk" => Here.kind \in {"tick", "call", "decision"} /\ Here.ends = {}
  BY HereAtEnd
<1>2. step = "walk" => GoodItem(phase, pos) /\ Here = Walk[phase][pos]
  BY HereInWalk DEF IInv
<1>3. step = "walk" => mode = "walk" /\ inner = Off
  BY DEF IInv, ClockInv
<1>. QED
  BY <1>1, <1>2, <1>3 DEF GoodItem, At

LEMMA RenewedKeeps ==
  ASSUME IInv, Renewed \/ HasRead
  PROVE  IInv'
<1>1. Here.kind \in {"renew", "read"} /\ Forward /\ Within /\ UNCHANGED <<resources, lost>>
  BY DEF Renewed, HasRead, Answered
<1>2. step = "walk" /\ ~ At("complete")
  BY <1>1, CallsOfWalk
<1>3. Named
  BY <1>1, <1>2, SameNames
<1>. QED
  BY <1>1, <1>2, <1>3, ForwardKeeps DEF Within, clocks, knows, IInv, TypeOK

LEMMA LetGoKeeps ==
  ASSUME IInv, RenewRefused \/ LostBefore
  PROVE  IInv'
<1>1. LetGo
  BY DEF RenewRefused, LostBefore
<1>2. name' = [r \in Resource |-> "none"] /\ lost' = TRUE /\ step' = "answered" /\ call' = "done"
      /\ UNCHANGED <<exists, asked>> /\ armed' = Off
  BY <1>1 DEF LetGo
<1>3. TypeOK'
  BY <1>1, <1>2 DEF LetGo, Within, IInv, TypeOK, clocks, knows, Clock, Resource
<1>4. ClockInv'
  BY <1>1, <1>2 DEF LetGo, Within, IInv, ClockInv, clocks
<1>5. CauseInv'
  BY <1>1, <1>2 DEF LetGo, Within, IInv, CauseInv, Cause, clocks
<1>6. ReleaseInv'
  BY <1>2 DEF ReleaseInv, ReleasedByName
<1>. QED
  BY <1>3, <1>4, <1>5, <1>6 DEF IInv

LEMMA DispossessedKeeps ==
  ASSUME IInv, Dispossessed
  PROVE  IInv'
<1>1. Here.kind \in {"fenced", "emit", "renew"}
  BY DEF Dispossessed, Answered
<1>2. step = "walk" /\ mode = "walk" /\ inner = Off
  BY <1>1, CallsOfWalk
<1>3. /\ lost' = TRUE /\ Naming(AskedFor, "none") /\ exists' = exists \ AskedFor
      /\ Within /\ UNCHANGED asked /\ Conclude
  BY DEF Dispossessed
<1>4. Named
  BY <1>2, <1>3, NamesKeep DEF Named, IInv, TypeOK
<1>5. Turned("fault") /\ UNCHANGED recorded
  BY <1>3, Turns DEF IInv
<1>. QED
  BY <1>2, <1>3, <1>4, <1>5, TurnKeeps
     DEF Within, clocks, knows, IInv, TypeOK, CauseInv, Cause, Kind

LEMMA SucceedsKeeps ==
  ASSUME IInv, Succeeds
  PROVE  IInv'
<1>1. /\ step = "walk" /\ Here.kind \in {"call", "fenced", "emit"} /\ Forward /\ Within
      /\ UNCHANGED <<exists, asked, lost>> /\ Naming(AskedFor, "handle")
  BY DEF Succeeds, Answered
<1>2. ~ At("complete")
  BY <1>1, CallsOfWalk
<1>3. Named
  BY <1>1, NamesKeep DEF Named, IInv, TypeOK
<1>. QED
  BY <1>1, <1>2, <1>3, ForwardKeeps DEF Within, clocks, knows, IInv, TypeOK

\* A terminal that needs no cause.
LEMMA UnforcedKinds ==
  \A k \in Unforced : k \in Kind /\ Cause(k) /\ Cause("none")
  BY DEF Unforced, Kind, Cause

LEMMA FailsKeeps ==
  ASSUME IInv, Fails
  PROVE  IInv'
<1>1. /\ Within /\ UNCHANGED <<asked, lost>>
      /\ Naming(AskedFor, "none") /\ exists' = exists \ AskedFor
  BY DEF Fails
<1>2. PICK k \in Here.ends : Finish(k)
  BY DEF Fails
<1>3. k \in Unforced /\ k \in Kind /\ Cause(k) /\ step = "walk" /\ mode = "walk" /\ inner = Off
  BY <1>2, EndsUnforced, UnforcedKinds, CallsOfWalk DEF IInv
<1>4. Named
  BY <1>1, <1>3, NamesKeep DEF Named, IInv, TypeOK
<1>5. Turned(k) /\ UNCHANGED recorded
  BY <1>2, Turns DEF IInv
<1>. QED
  BY <1>1, <1>3, <1>4, <1>5, TurnKeeps DEF Within, clocks, knows, IInv, TypeOK, CauseInv

LEMMA HeedsKeeps ==
  ASSUME IInv, Heeds
  PROVE  IInv'
<1>1. /\ UNCHANGED <<clocks, knows, withdrawn, mode, broken, resources, lost>>
      /\ step = "walk" /\ Interrupted # "none" /\ reason' = Interrupted /\ Ends(Interrupted)
  BY DEF Heeds, Decides
<1>2. Interrupted \in Reason \union {"none"} /\ Cause(Interrupted)
  BY StopsHaveCause
<1>3. Turned(Interrupted) /\ UNCHANGED recorded
  BY <1>1, Turns DEF IInv
<1>4. Named
  BY <1>1, SameNames
<1>5. Interrupted \in Kind \union {"none"} /\ Cause(reason')
  BY <1>1, <1>2 DEF Kind
<1>. QED
  BY <1>1, <1>2, <1>3, <1>4, <1>5, CallsOfWalk, TurnKeeps DEF clocks, knows, IInv, TypeOK

LEMMA RefusesKeeps ==
  ASSUME IInv, Refuses
  PROVE  IInv'
<1>1. Within /\ UNCHANGED <<resources, lost>> /\ step = "walk"
  BY DEF Refuses
<1>2. PICK k \in Here.ends : Ends(k)
  BY DEF Refuses
<1>3. k \in Unforced /\ k \in Kind /\ Cause(k)
  BY EndsUnforced, UnforcedKinds DEF IInv
<1>4. Turned(k) /\ UNCHANGED recorded
  BY <1>2, Turns DEF IInv
<1>5. Named
  BY <1>1, SameNames
<1>. QED
  BY <1>1, <1>3, <1>4, <1>5, CallsOfWalk, TurnKeeps
     DEF Within, clocks, knows, IInv, TypeOK, CauseInv

LEMMA GoesOnKeeps ==
  ASSUME IInv, GoesOn
  PROVE  IInv'
<1>1. Within /\ UNCHANGED <<resources, lost>> /\ step = "walk" /\ Forward
  BY DEF GoesOn, Decides
<1>2. ~ At("complete")
  BY DEF GoesOn, Decides, At
<1>3. Named
  BY <1>1, SameNames
<1>. QED
  BY <1>1, <1>2, <1>3, ForwardKeeps DEF Within, clocks, knows, IInv, TypeOK

LEMMA MisidentifiesKeeps ==
  ASSUME IInv, Misidentifies
  PROVE  IInv'
<1>1. /\ UNCHANGED <<clocks, established, reason, withdrawn, mode, broken, resources, lost>>
      /\ step = "walk" /\ captured' = TRUE /\ Early("refuse")
  BY DEF Misidentifies, Decides
<1>2. Turned("refuse") /\ UNCHANGED recorded
  BY <1>1, Turns DEF IInv
<1>3. Named
  BY <1>1, SameNames
<1>. QED
  BY <1>1, <1>2, <1>3, CallsOfWalk, TurnKeeps DEF clocks, IInv, TypeOK, CauseInv, Kind, Cause

LEMMA IdentifiesKeeps ==
  ASSUME IInv, Identifies
  PROVE  IInv'
<1>1. /\ UNCHANGED <<clocks, reason, withdrawn, mode, broken, resources, lost>>
      /\ step = "walk" /\ captured' = TRUE /\ established' = TRUE /\ Forward
  BY DEF Identifies, Decides
<1>2. ~ At("complete")
  BY DEF Identifies, Decides, At
<1>3. Named
  BY <1>1, SameNames
<1>. QED
  BY <1>1, <1>2, <1>3, ForwardKeeps DEF clocks, IInv, TypeOK

\* What is left of a budget and what was spent make it up, or nothing is left.
LEMMA LeftOfBudget ==
  ASSUME TypeOK, NEW budget \in Nat
  PROVE  /\ Left(budget) \in Nat /\ Left(budget) + spent >= budget
         /\ Left(budget) = 0 \/ Left(budget) + spent = budget
  BY ClocksAreNat DEF TypeOK, Left

LEMMA ArmsKeeps ==
  ASSUME IInv, Arms
  PROVE  IInv'
<1>1. /\ UNCHANGED <<spent, window, knows, reason, withdrawn, mode, broken, resources, lost>>
      /\ step = "walk" /\ armed' = Left(grant') /\ Jump(Next2)
  BY DEF Arms, Decides
<1>2. grant' \in 0 .. Longest /\ grant' \in Nat
  BY ClocksAreNat DEF Arms, MinOf
<1>3. ~ At("complete")
  BY DEF Arms, Decides, At
<1>4. Next2[1] \in 1 .. Len(Walk) /\ Next2[2] \in 1 .. Len(Walk[Next2[1]])
  BY <1>1, <1>3, StaysInWalk DEF IInv
<1>5. /\ armed' \in Nat /\ armed' + spent >= grant'
      /\ armed' = 0 \/ armed' + spent = grant'
  <2>1. PICK b \in Nat : b = grant'
    BY <1>2
  <2>. QED
    BY <1>1, <2>1, LeftOfBudget DEF IInv
<1>6. Named
  BY <1>1, SameNames
<1>. QED
  BY <1>1, <1>2, <1>4, <1>5, <1>6, JumpKeeps DEF knows, IInv, TypeOK

LEMMA HoldsKeeps ==
  ASSUME IInv, Holds
  PROVE  IInv'
<1>1. step = "walk"
  BY DEF Holds, Decides
<1>. QED
  BY <1>1, CallsOfWalk, ThenKeeps DEF Holds

LEMMA SkipsKeeps ==
  ASSUME IInv, Skips
  PROVE  IInv'
<1>1. /\ Within /\ UNCHANGED <<resources, lost, armed>> /\ step = "walk"
      /\ At("materialize") /\ Jump(<<phase, pos + Len(Materialize)>>)
  BY DEF Skips, Decides
<1>2. phase = 6 /\ pos = 10
  BY <1>1, HereInWalk DEF IInv, GoodItem, At
<1>3. Jump(<<6, 13>>)
  BY <1>1, <1>2, LengthsOfPhases
<1>4. 6 \in 1 .. Len(Walk) /\ 13 \in 1 .. Len(Walk[6])
  BY LengthsOfPhases
<1>5. /\ armed \in Nat /\ armed + spent >= grant /\ (armed = 0 \/ armed + spent = grant)
      /\ grant \in 0 .. Longest
  BY <1>1, ClocksAreNat DEF IInv, TypeOK, ClockInv, Clock
<1>6. Named
  BY <1>1, SameNames
<1>. QED
  BY <1>1, <1>3, <1>4, <1>5, <1>6, JumpKeeps DEF Within, clocks, knows, IInv, TypeOK

LEMMA AppendsKeeps ==
  ASSUME IInv, Appends
  PROVE  IInv'
<1>1. step \notin {"release", "last_release", "answered"}
  BY AwaitedSteps DEF Appends, Answered
<1>2. Named /\ pending' \in BOOLEAN
  BY <1>1, SameNames DEF Appends, IInv, TypeOK
<1>. QED
  BY <1>1, <1>2, CallKeeps DEF Appends

\* Terminal code turns to its end.
LEMMA EndsKeep ==
  ASSUME IInv, NEW k, Turned(k), k \in Kind \union {"none"}, Cause(k), Within,
         UNCHANGED resources, lost' = lost \/ lost' = TRUE,
         step # "answered", mode = "walk" => inner = Off,
         recorded' \in {"none", "early", "bundle"}
  PROVE  IInv'
<1>1. Named
  BY SameNames
<1>. QED
  BY <1>1, TurnKeeps DEF Within, clocks, knows, IInv, TypeOK, CauseInv

LEMMA AfterTickKeeps ==
  ASSUME IInv, AfterTick
  PROVE  IInv'
<1>1. Within /\ UNCHANGED <<resources, lost>>
  BY DEF AfterTick
<1>2. pending \in BOOLEAN /\ recorded \in {"none", "early", "bundle"} /\ step \notin {"note", "journal"}
  BY DEF IInv, TypeOK, EndTick
<1>3. Cause("fault") /\ "fault" \in Kind
  BY DEF Cause, Kind
<1>4. ASSUME Conclude \/ FailClosed("fault"), step # "answered", mode = "walk" => inner = Off
      PROVE  IInv'
  <2>1. Turned("fault") /\ UNCHANGED recorded
    BY <1>4, Turns DEF IInv
  <2>. QED
    BY <1>1, <1>2, <1>3, <1>4, <2>1, EndsKeep
<1>5. ASSUME Forward, step = "walk", ~ At("complete")
      PROVE  IInv'
  <2>1. Named
    BY <1>1, <1>5, SameNames
  <2>. QED
    BY <1>1, <1>5, <2>1, ForwardKeeps DEF Within, clocks, knows, IInv, TypeOK
<1>6. mode = "walk" /\ inner # Off => step \in {"flush", "flush_again", "release", "answered"}
  BY DEF IInv, ClockInv
<1>7. CASE Ticked("note") /\ IF lost THEN Conclude ELSE Forward
  <2>1. step = "walk" /\ ~ At("complete")
    BY <1>2, <1>7 DEF Ticked, At
  <2>. QED
    BY <1>4, <1>5, <1>7, <2>1, CallsOfWalk
<1>8. CASE Ticked("journal") /\ Forward
  BY <1>2, <1>5, <1>8 DEF Ticked, At
<1>9. ASSUME NEW s \in {"hold", "hold_row", "gate", "flush", "flush_again", "last_flush",
                        "recovery_flush"}, Ticked(s)
      PROVE  step = s
  <2>1. step = "walk" => ~ At(s)
    <3>1. step = "walk" => Here.at \notin {"hold", "hold_row", "gate", "flush", "flush_again",
                                          "last_flush", "recovery_flush"}
      BY HereInWalk DEF IInv, GoodItem, EndTick
    <3>. QED
      BY <3>1 DEF At
  <2>. QED
    BY <1>9, <2>1 DEF Ticked
<1>10. CASE Ticked("hold") /\ Then("hold_row", TRUE)
  BY <1>1, <1>6, <1>9, <1>10, ThenKeeps
<1>11. CASE Ticked("hold_row") /\ Conclude
  BY <1>4, <1>6, <1>9, <1>11
<1>12. CASE Ticked("gate") /\ (FailClosed("fault") \/ Then("commit", pending))
  BY <1>1, <1>2, <1>4, <1>6, <1>9, <1>12, ThenKeeps
<1>13. CASE Ticked("flush") /\ Then("flush_again", pending)
  BY <1>1, <1>2, <1>9, <1>13, ThenKeeps
<1>14. CASE Ticked("flush_again") /\ Then("release", pending)
  BY <1>1, <1>2, <1>9, <1>14, ThenKeeps
<1>15. CASE Ticked("last_flush") /\ Then("last_release", pending)
  BY <1>1, <1>2, <1>6, <1>9, <1>15, ThenKeeps
<1>16. CASE Ticked("recovery_flush") /\ (Conclude \/ Then("record", pending))
  BY <1>1, <1>2, <1>4, <1>6, <1>9, <1>16, ThenKeeps
<1>. QED
  BY <1>7, <1>8, <1>10, <1>11, <1>12, <1>13, <1>14, <1>15, <1>16 DEF AfterTick

LEMMA GivesUpKeeps ==
  ASSUME IInv, GivesUp
  PROVE  IInv'
  BY IncompleteKeeps DEF GivesUp

LEMMA StopEndsKeeps ==
  ASSUME IInv, StopEnds
  PROVE  IInv'
<1>1. /\ UNCHANGED <<spent, grant, knows, resources, reason, withdrawn, mode, lost, broken>>
      /\ step = "stop" /\ SettleRecord(reason)
  BY DEF StopEnds
<1>2. Turned(reason) /\ window' = Grace /\ UNCHANGED recorded
  BY <1>1, Turns DEF SettleRecord, IInv
<1>3. Named
  BY <1>1, SameNames
<1>4. mode = "walk" => inner = Off
  BY <1>1 DEF IInv, ClockInv
<1>5. reason \in Kind \union {"none"} /\ reason' \in Reason \union {"none"}
      /\ Cause(reason) /\ Cause(reason')
  BY <1>1 DEF IInv, TypeOK, CauseInv, Kind
<1>. QED
  BY <1>1, <1>2, <1>3, <1>4, <1>5, TurnKeeps DEF knows, IInv, TypeOK

LEMMA CommitKeeps ==
  ASSUME IInv, Publishes \/ CommitExpires \/ CommitRefused
  PROVE  IInv'
<1>1. /\ step = "commit" /\ Within /\ UNCHANGED resources /\ (lost' = lost \/ lost' = TRUE)
  BY DEF Publishes, CommitExpires, CommitRefused
<1>2. mode = "walk" => inner = Off
  BY <1>1 DEF IInv, ClockInv
<1>3. /\ goal \in Kind \union {"none"} /\ Cause(goal)
      /\ recorded \in {"none", "early", "bundle"}
      /\ "fault" \in Kind /\ Cause("fault") /\ "timeout" \in Kind
  BY DEF IInv, TypeOK, CauseInv, Kind, Reason, Cause
<1>4. ASSUME NEW k, FailClosed(k) \/ Conclude, k \in Kind \union {"none"}, Cause(k)
      PROVE  IInv'
  <2>1. Turned(k) /\ UNCHANGED recorded
    BY <1>4, Turns DEF IInv
  <2>. QED
    BY <1>1, <1>2, <1>3, <1>4, <2>1, EndsKeep
<1>5. CASE Publishes
  <2>1. Turned(goal) /\ recorded' = "bundle"
    BY <1>5 DEF Publishes, Concluding, Turned
  <2>. QED
    BY <1>1, <1>2, <1>3, <2>1, EndsKeep
<1>6. CASE CommitExpires
  <2>1. CASE Governed
    <3>1. armed = 0
      BY <1>6, <2>1, ClocksAreNat
         DEF CommitExpires, Governed, Winning, MinOf, IInv, TypeOK, ClockInv, Clock
    <3>2. Cause("timeout")
      BY <3>1, ClocksAreNat DEF Cause, IInv, TypeOK, ClockInv
    <3>. QED
      BY <1>3, <1>4, <1>6, <2>1, <3>2 DEF CommitExpires
  <2>2. CASE ~Governed
    BY <1>3, <1>4, <1>6, <2>2 DEF CommitExpires
  <2>. QED
    BY <2>1, <2>2
<1>7. CASE CommitRefused
  BY <1>3, <1>4, <1>7 DEF CommitRefused
<1>. QED
  BY <1>5, <1>6, <1>7

LEMMA RecordsKeeps ==
  ASSUME IInv, Records
  PROVE  IInv'
<1>1. step = "record" /\ Within /\ UNCHANGED resources /\ (lost' = lost \/ lost' = TRUE)
  BY DEF Records
<1>2. mode = "walk" => inner = Off
  BY <1>1 DEF IInv, ClockInv
<1>3. /\ terminal \in Kind \union {"none"} /\ Cause(terminal) /\ pending \in BOOLEAN
      /\ recorded \in {"none", "early", "bundle"}
  BY DEF IInv, TypeOK, CauseInv
<1>4. Turned(terminal) /\ recorded' \in {"none", "early", "bundle"}
  <2>1. CASE Concluding(terminal, "early", pending)
    BY <1>3, <2>1 DEF Concluding, Turned
  <2>2. CASE Conclude
    BY <1>3, <2>2, Turns DEF IInv
  <2>. QED
    BY <2>1, <2>2 DEF Records
<1>. QED
  BY <1>1, <1>2, <1>3, <1>4, EndsKeep

LEMMA ReleaseKeeps ==
  ASSUME IInv, Release
  PROVE  IInv'
<1>1. /\ step \in {"release", "last_release"} /\ step' = "answered"
      /\ name' = [r \in Resource |-> "none"]
      /\ asked' = asked \union (IF lost \/ Stop # "none" THEN {} ELSE Known)
      /\ broken' = (broken \/ (~lost /\ Stop # "none"))
      /\ UNCHANGED <<clocks, armed, inner, phase, pos, call, goal, terminal, recorded, pending,
                     knows, exists, reason, withdrawn, mode, lost>>
  BY DEF Release
<1>2. /\ asked' \subseteq Resource \union {"interrupt"}
      /\ name' \in [Resource -> {"none", "attempt", "handle"}]
      /\ broken' \in BOOLEAN
  BY <1>1 DEF IInv, TypeOK, Known
<1>3. TypeOK'
  BY <1>1, <1>2 DEF IInv, TypeOK, clocks, knows, Clock
<1>4. ClockInv'
  BY <1>1 DEF IInv, ClockInv, clocks
<1>5. CauseInv'
  BY <1>1 DEF IInv, CauseInv, Cause, clocks
<1>6. ReleaseInv'
  BY <1>1 DEF IInv, TypeOK, ReleaseInv, ReleasedByName
<1>. QED
  BY <1>3, <1>4, <1>5, <1>6 DEF IInv

LEMMA ClocksGoDown ==
  ASSUME NEW c \in Clock
  PROVE  /\ Down(c) \in Clock /\ (Down(c) = Off <=> c = Off)
         /\ c \in Nat => Down(c) \in Nat /\ Down(c) + 1 >= c /\ (c # 0 => Down(c) + 1 = c)
         /\ c = 0 => Down(c) = 0
  BY ClocksAreNat DEF Down, Clock

LEMMA PassKeeps ==
  ASSUME IInv, Pass
  PROVE  IInv'
<1>1. /\ step # "answered" /\ spent' = MinOf(spent + 1, Longest)
      /\ armed' = Down(armed) /\ window' = Down(window) /\ inner' = Down(inner)
      /\ UNCHANGED <<grant, phase, pos, step, call, goal, terminal, recorded, pending,
                     knows, resources, reason, withdrawn, mode, lost, broken>>
  BY DEF Pass
<1>2. /\ spent \in 0 .. Longest /\ grant \in Nat /\ grant <= Longest
      /\ armed \in Clock /\ window \in Clock /\ inner \in Clock
  BY DEF IInv, TypeOK, ClockInv
<1>3. /\ spent' \in 0 .. Longest /\ spent' >= spent /\ (spent' = spent + 1 \/ spent' = Longest)
      /\ spent < Longest => spent' = spent + 1
  BY <1>1, <1>2, ClocksAreNat DEF MinOf
<1>4. TypeOK'
  BY <1>1, <1>2, <1>3, ClocksGoDown DEF IInv, TypeOK, knows, resources, Clock
<1>5. ClockInv'
  <2>1. armed' # Off => armed \in Nat /\ armed' \in Nat /\ armed' + 1 >= armed
                        /\ (armed # 0 => armed' + 1 = armed) /\ (armed = 0 => armed' = 0)
    BY <1>1, <1>2, ClocksGoDown, ClocksAreNat DEF Clock
  <2>2. armed' # Off => armed' + spent' >= grant'
    <3>1. armed' # Off => armed # Off /\ armed + spent >= grant
      BY <1>1, <1>2, ClocksGoDown DEF IInv, ClockInv
    <3>. QED
      BY <1>1, <1>2, <1>3, <2>1, <3>1, ClocksAreNat
  <2>3. mode = "walk" /\ inner = Off => armed # Off /\ (armed = 0 \/ armed + spent = grant)
    BY <1>1 DEF IInv, ClockInv
  <2>4. inner' = Off <=> inner = Off
    BY <1>1, <1>2, ClocksGoDown
  <2>5. window' = Off <=> window = Off
    BY <1>1, <1>2, ClocksGoDown
  <2>6. armed' = Off <=> armed = Off
    BY <1>1, <1>2, ClocksGoDown
  <2>7. mode' = "walk" /\ inner' = Off => armed' # Off /\ (armed' = 0 \/ armed' + spent' = grant')
    <3>1. ASSUME mode = "walk", inner = Off, armed # 0
          PROVE  armed' + spent' = grant'
      BY <1>1, <1>2, <1>3, <2>1, <2>3, <2>6, <3>1, ClocksAreNat
    <3>2. ASSUME mode = "walk", inner = Off, armed = 0
          PROVE  armed' = 0
      BY <2>1, <2>3, <2>6, <3>2
    <3>. QED
      BY <1>1, <2>3, <2>4, <2>6, <3>1, <3>2
  <2>. QED
    BY <1>1, <1>2, <2>2, <2>4, <2>5, <2>7 DEF IInv, ClockInv
<1>6. CauseInv'
  BY <1>1, <1>2, <1>3, ClocksAreNat DEF IInv, CauseInv, Cause
<1>7. ReleaseInv'
  BY <1>1 DEF IInv, ReleaseInv, ReleasedByName, Known, resources
<1>. QED
  BY <1>4, <1>5, <1>6, <1>7 DEF IInv

LEMMA WithdrawKeeps ==
  ASSUME IInv, Withdraw
  PROVE  IInv'
<1>1. TypeOK'
  BY DEF Withdraw, IInv, TypeOK, clocks, plan, knows, resources, Clock
<1>2. ClockInv'
  BY DEF Withdraw, IInv, ClockInv, clocks, plan
<1>3. CauseInv'
  BY DEF Withdraw, IInv, CauseInv, Cause, clocks, plan
<1>4. ReleaseInv'
  BY DEF Withdraw, IInv, ReleaseInv, ReleasedByName, Known, plan, resources
<1>. QED
  BY <1>1, <1>2, <1>3, <1>4 DEF IInv

-----------------------------------------------------------------------------
(* The theorems.                                                           *)

LEMMA InitHolds == Init => IInv
<1>. SUFFICES ASSUME Init PROVE IInv
  OBVIOUS
<1>1. 1 \in 1 .. Len(Walk) /\ 1 \in 1 .. Len(Walk[1])
  BY LengthsOfPhases
<1>2. TypeOK
  <2>1. /\ spent \in 0 .. Longest /\ grant \in Nat
        /\ armed \in Clock /\ window \in Clock /\ inner \in Clock
    BY ClocksAreNat DEF Init, Clock
  <2>2. phase \in 1 .. Len(Walk) /\ pos \in 1 .. Len(Walk[phase])
    BY <1>1 DEF Init
  <2>3. name \in [Resource -> {"none", "attempt", "handle"}]
    BY DEF Init
  <2>. QED
    BY <2>1, <2>2, <2>3 DEF Init, TypeOK
<1>3. ClockInv
  BY ClocksAreNat DEF Init, ClockInv
<1>4. CauseInv /\ ReleaseInv
  BY DEF Init, CauseInv, Cause, ReleaseInv, ReleasedByName
<1>. QED
  BY <1>2, <1>3, <1>4 DEF IInv

LEMMA NextKeeps == IInv /\ [Next]_vars => IInv'
<1>. SUFFICES ASSUME IInv, [Next]_vars PROVE IInv'
  OBVIOUS
<1>1. CASE UNCHANGED vars
  BY <1>1 DEF vars, clocks, plan, knows, resources, IInv, TypeOK, ClockInv, CauseInv, Cause,
              ReleaseInv, ReleasedByName, Known, Clock
<1>2. CASE Pass \/ Withdraw
  BY <1>2, PassKeeps, WithdrawKeeps
<1>3. CASE Runs
  BY <1>3, SendKeeps, HeedsKeeps, RefusesKeeps, GoesOnKeeps, MisidentifiesKeeps, IdentifiesKeeps,
     ArmsKeeps, HoldsKeeps, SkipsKeeps, AfterTickKeeps, GivesUpKeeps, StopEndsKeeps, ReleaseKeeps,
     CutOffKeeps, LetGoKeeps DEF Runs
<1>4. CASE Answers
  BY <1>4, ThrowsKeeps, RenewedKeeps, LetGoKeeps, DispossessedKeeps, SucceedsKeeps, FailsKeeps,
     AppendsKeeps, CommitKeeps, RecordsKeeps DEF Answers
<1>. QED
  BY <1>1, <1>2, <1>3, <1>4 DEF Next

\* The inductive invariant: the wall clock and the time spent make up the
\* budget, an interruption and a terminal have their cause, and what may exist
\* is known by name (orchestration/deadline.ts, run/scope.ts).
THEOREM Invariance == Spec => []IInv
<1>. QED
  BY InitHolds, NextKeeps, PTL DEF Spec

\* Every variable stays in its type, whatever the ports do.
THEOREM TypeCorrect == Spec => []TypeOK
<1>1. IInv => TypeOK
  BY DEF IInv
<1>. QED
  BY <1>1, Invariance, PTL

\* A run is timed out only when its own budget is spent, whichever window
\* bounded what was under way, and cancelled only when it was withdrawn.
THEOREM TerminalsAreCaused == Spec => []TerminalHasCause
<1>1. IInv => TerminalHasCause
  BY DEF IInv, CauseInv, Cause, TerminalHasCause
<1>. QED
  BY <1>1, Invariance, PTL

\* An attempt that answers with its fence and an unbroken teardown has asked
\* for the release of whatever may exist in its name.
THEOREM Released == Spec => []ReleasedByName
<1>1. IInv => ReleasedByName
  BY DEF IInv, ReleaseInv
<1>. QED
  BY <1>1, Invariance, PTL

\* What the budget bounds: the call of a port, a resource handed over, a
\* record written.
Bounded == /\ call = "due" => call' # "out"
           /\ \A r \in Resource : name'[r] = "handle" => name[r] = "handle"
           /\ recorded' = recorded

LEMMA RunsAreBounded ==
  ASSUME IInv, Runs, mode = "walk", inner = Off, spent >= grant
  PROVE  Bounded
<1>1. name \in [Resource -> {"none", "attempt", "handle"}]
  BY DEF IInv, TypeOK
<1>2. CASE Send
  <2>1. step \notin {"release", "last_release", "answered"}
    BY <1>2, AwaitedSteps DEF Send
  <2>2. Stop # "none"
    BY <2>1, SpentIsStopped
  <2>3. /\ name' \in [Resource -> {"none", "attempt", "handle"}]
        /\ ~lost => exists \subseteq Known'
    BY <1>2, <2>1, NamesKeep DEF Send
  <2>4. call' # "out" /\ UNCHANGED recorded
    BY <1>2, <2>1, <2>2, <2>3, RejectionsKeep, StopsHaveCause DEF Send
  <2>. QED
    BY <1>1, <1>2, <2>4 DEF Send, Naming, Bounded
<1>3. CASE CutOff
  <2>1. step \notin {"release", "last_release", "answered"}
    BY <1>3, AwaitedSteps DEF CutOff
  <2>2. /\ name' \in [Resource -> {"none", "attempt", "handle"}]
        /\ ~lost => exists \subseteq Known'
    BY <1>3, <2>1 DEF CutOff, IInv, TypeOK, ReleaseInv, Known
  <2>. QED
    BY <1>3, <2>1, <2>2, RejectionsKeep, StopsHaveCause DEF CutOff, Bounded
<1>4. CASE Heeds \/ Refuses \/ Misidentifies \/ StopEnds
  <2>1. UNCHANGED name
    BY <1>4 DEF Heeds, Refuses, Misidentifies, StopEnds, Within, resources
  <2>2. \E k : Turned(k) /\ UNCHANGED recorded
    BY <1>4, Turns DEF Heeds, Refuses, Misidentifies, StopEnds, SettleRecord, IInv
  <2>. QED
    BY <2>1, <2>2 DEF Turned, Bounded
<1>5. CASE GoesOn \/ Identifies \/ Arms \/ Skips
  <2>1. UNCHANGED name /\ \E n : Jump(n)
    BY <1>5 DEF GoesOn, Identifies, Arms, Skips, Forward, resources
  <2>. QED
    BY <2>1 DEF Jump, Bounded
<1>6. CASE Holds
  BY <1>6 DEF Holds, Then, resources, Bounded
<1>7. CASE AfterTick
  <2>1. UNCHANGED name
    BY <1>7 DEF AfterTick, resources
  <2>2. \/ Forward \/ Conclude \/ FailClosed("fault")
        \/ \E s : \E p : Then(s, p)
    BY <1>7 DEF AfterTick
  <2>3. call' = "due" /\ UNCHANGED recorded
    BY <2>2 DEF Forward, Jump, Conclude, FailClosed, Concluding, Then
  <2>. QED
    BY <2>1, <2>3 DEF Bounded
<1>8. CASE GivesUp
  BY <1>8 DEF GivesUp, Incomplete, resources, Bounded
<1>9. CASE Release
  BY <1>9 DEF Release, Bounded
<1>10. CASE LostBefore
  BY <1>10 DEF LostBefore, LetGo, Bounded
<1>. QED
  BY <1>2, <1>3, <1>4, <1>5, <1>6, <1>7, <1>8, <1>9, <1>10 DEF Runs

LEMMA AnswersAreBounded ==
  ASSUME IInv, Answers, mode = "walk", inner = Off, spent >= grant
  PROVE  Bounded
<1>1. call = "out"
  BY DEF Answers, Throws, Answered, Renewed, RenewRefused, Dispossessed, Succeeds, Fails, HasRead,
         Appends, Publishes, CommitExpires, CommitRefused, Records
<1>2. step \notin {"release", "last_release", "answered"}
  BY <1>1, AwaitedSteps
<1>3. armed = 0 /\ Stop # "none"
  BY <1>2, SpentIsStopped
<1>4. \A kinds : ~ Answered(kinds)
  BY <1>3 DEF Answered
<1>5. CASE Throws
  <2>1. UNCHANGED <<name, exists, asked, lost>>
    BY <1>5 DEF Throws, Swallowed, Escape
  <2>2. Named
    BY <1>2, <2>1, SameNames DEF resources
  <2>3. UNCHANGED recorded
    BY <1>2, <1>5, <2>2, EscapesKeep, SwallowsKeep DEF Throws, Reason
  <2>. QED
    BY <1>1, <2>1, <2>3 DEF Bounded
<1>6. CASE Fails
  <2>1. Naming(AskedFor, "none")
    BY <1>6 DEF Fails
  <2>2. \E k : Finish(k)
    BY <1>6 DEF Fails
  <2>3. UNCHANGED recorded
    BY <2>2, Turns DEF IInv
  <2>. QED
    BY <1>1, <2>1, <2>3 DEF Naming, Bounded
<1>7. CASE HasRead
  BY <1>1, <1>7 DEF HasRead, Forward, Jump, resources, Bounded
<1>8. CASE CommitExpires \/ CommitRefused
  <2>1. UNCHANGED name
    BY <1>8 DEF CommitExpires, CommitRefused, resources
  <2>2. UNCHANGED recorded
    BY <1>8 DEF CommitExpires, CommitRefused, FailClosed, Conclude, Concluding
  <2>. QED
    BY <1>1, <2>1, <2>2 DEF Bounded
<1>9. ~ Publishes
  BY <1>3 DEF Publishes, Winning
<1>10. ~ (Renewed \/ RenewRefused \/ Dispossessed \/ Succeeds \/ Appends \/ Records)
  BY <1>4 DEF Renewed, RenewRefused, Dispossessed, Succeeds, Appends, Records
<1>. QED
  BY <1>5, <1>6, <1>7, <1>8, <1>9, <1>10 DEF Answers

\* Once the budget that governs the walk is spent, no port is called, nothing
\* is handed over and nothing is recorded: a step of the walk finds its clock
\* at nothing (RunDeadline.call, armProfile, narrowProfile).
THEOREM BudgetKept == Spec => WithinBudget
<1>1. IInv /\ [Next]_vars =>
        [mode = "walk" /\ inner = Off /\ spent >= grant =>
           /\ call = "due" => call' # "out"
           /\ \A r \in Resource : name'[r] = "handle" => name[r] = "handle"
           /\ recorded' = recorded]_vars
  <2>. SUFFICES ASSUME IInv, Next, mode = "walk", inner = Off, spent >= grant
                PROVE  Bounded
    BY DEF Bounded
  <2>1. CASE Runs
    BY <2>1, RunsAreBounded
  <2>2. CASE Answers
    BY <2>2, AnswersAreBounded
  <2>3. CASE Pass \/ Withdraw
    BY <2>3 DEF Pass, Withdraw, plan, resources, Bounded
  <2>. QED
    BY <2>1, <2>2, <2>3 DEF Next
<1>. QED
  BY <1>1, Invariance, PTL DEF Spec, WithinBudget

=============================================================================
