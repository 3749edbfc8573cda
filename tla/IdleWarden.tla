------------------------------ MODULE IdleWarden ------------------------------
(***************************************************************************)
(* The idle warden (idle_warden.py): a thread that takes the lease of the  *)
(* box like any client, adopts the one run nobody has used for a while,    *)
(* warns its players, waits, closes its windows and, if a process stays,   *)
(* stops it.  The guarded halves of close_run and stop_run that only it    *)
(* uses (process_lifecycle.py) are here too.                               *)
(*                                                                         *)
(* pc is where the thread is.  Checks that follow one another with nothing *)
(* done between them are one step, except where a reaction may slip in     *)
(* between.  The check before an effect and the effect itself are one step *)
(* (close_run declares the instant between them as its residual window).   *)
(*                                                                         *)
(* Everything else moves on its own: the switch file, the input sampler    *)
(* and the launcher's tickets, the processes, the scans, the other clients *)
(* of the lease, the reaper, the coordinator's cleanup and the clocks.     *)
(*                                                                         *)
(* DeadIfUnread, LauncherOnly, AnyTarget, KeepsOwner, NeverLost and        *)
(* NeverCleaned are deliberate mistakes, used by no action: each is a bug  *)
(* one of the properties must notice.                                      *)
(***************************************************************************)
EXTENDS Naturals, FiniteSets

CONSTANTS
  Shapes,     \* the roles a run may have: sets of "client" and "server"
  MaxInputs,  \* inputs and launcher's tickets
  MaxFlips,   \* writes of the switch file
  MaxFaults,  \* failed calls and reads, unasked exits, a lease that expires
  MaxEvents   \* of the three together

AllRoles == {"client", "server"}
ASSUME ShapesAssumption == Shapes \subseteq (SUBSET AllRoles) \ {{}}
ASSUME BoundAssumption ==
  MaxInputs \in Nat /\ MaxFlips \in Nat /\ MaxFaults \in Nat /\ MaxEvents \in Nat

VARIABLES
  on,       \* the switch file says {"enabled": true}
  scan,     \* diag and port scans are known, and there is no quarantine
  proc,     \* what the process guard says of each role of the run
  listed,   \* the census: roles whose pid the diag scan lists
  run,      \* the row of the manifest: its state and its owner
  quiet,    \* the clocks have passed the cut: no use, no launcher, no release
  blocked,  \* _warning_blocked_until is still ahead
  stamp,    \* the last reaction recorded (human_input_at, launcher_request_at)
  launcher, \* away, waits in the FIFO of the lease, or gone from it
  lease,    \* the coordinator's lease: free, warden, other, ending
  pc, token,
  ticket,   \* none, queued, or expired: the thread came back too late
  cleanup,  \* cleanup_pending_lease_id
  dead,     \* _dead, read with the candidate
  mark,     \* _human_mark and _launcher_mark
  anchor,   \* human_at and launcher_at of the destruction guard
  closing,  \* the box shows the run as closing
  armed,    \* _idle_retirement of the run
  left,     \* windows or processes still to act on
  acted,    \* roles this close or stop has acted on
  missed,   \* roles it left untouched
  asked,    \* ghost: roles that got a WM_CLOSE
  told,     \* ghost: in this cycle the players were told and the wait ran out
  seen,     \* ghost: the census listed a client when the candidate was chosen
  doubt,    \* ghost: input since the adoption that a check was still to see
  flips, faults

file == <<on, flips>>
world == <<scan, proc, listed>>
clocks == <<quiet, blocked>>
reactions == <<stamp, launcher>>
held == <<ticket, token, cleanup>>
marks == <<dead, mark, anchor>>
flags == <<closing, armed>>
effects == <<left, acted, missed, asked>>
ghosts == <<told, seen, doubt>>
vars == <<file, world, run, clocks, reactions, lease, pc, held, marks, flags, effects,
          ghosts, faults>>

Roles == DOMAIN proc
Kinds == {"owned", "gone", "foreign", "unknown"}
Is(k) == {r \in Roles : proc[r] = k}

Waits == launcher = "waits"

Bounded == stamp + flips + faults < MaxEvents

\* One step costs one of MaxFaults.
Fault == Bounded /\ faults < MaxFaults /\ faults' = faults + 1

\* _operation_lock is held, and the lease pinned by the committed command.
InCall == pc \in {"list", "post", "kill"}

KeepsOwner(r) == [r EXCEPT !.state = "idle"]
Idle(r) == [state |-> "idle", owner |-> "none"]
\* The end of a lease makes its run idle, and the idle clock starts again.
Let(r, who) == IF r.owner = who /\ r.state = "running" THEN Idle(r) ELSE r

\* _client_liveness: the diag scan lists no player's process.  The guard looks at
\* the processes themselves, and the two need not agree.
DeadIfUnread == "client" \in Roles => proc["client"] # "owned"
ClientDead == "client" \notin listed

\* _use_projection and _candidate: clocks, scans and the block of a failed warning.
Abandoned == scan /\ quiet /\ ~Waits /\ (blocked => ClientDead)
Candidate == run.state = "idle" /\ Abandoned

\* _reacted stamps the launcher's ticket before it compares.
LauncherOnly == Waits
Reacted == stamp # mark \/ Waits
AnchorsChanged == stamp # anchor \/ Waits

\* _drift, and idle_close_gate before WM_CLOSE: nothing but processes of the run.
Whole == \A r \in Roles : proc[r] = "owned"
\* The same gate before the fallback stop: a process that exited is no mismatch.
Vouched == \A r \in Roles : proc[r] \in {"owned", "gone"}
Dying == Is("gone") = Roles
Serves == run.state \in {"running", "stopping"}

Owned == lease = "warden" /\ run = [state |-> "running", owner |-> "warden"]

Init ==
  /\ on \in BOOLEAN /\ scan = TRUE /\ flips = 0 /\ faults = 0
  /\ \E s \in Shapes : proc = [r \in s |-> "owned"] /\ listed = s
  /\ run = [state |-> "idle", owner |-> "none"]
  /\ quiet = FALSE /\ blocked = FALSE /\ stamp = 0 /\ launcher = "away"
  /\ lease = "free" /\ pc = "idle"
  /\ ticket = "none" /\ token = FALSE /\ cleanup = FALSE
  /\ dead = FALSE /\ mark = 0 /\ anchor = 0
  /\ closing = FALSE /\ armed = "none"
  /\ left = {} /\ acted = {} /\ missed = {} /\ asked = {}
  /\ told = FALSE /\ seen = FALSE /\ doubt = FALSE

-----------------------------------------------------------------------------
\* How a cycle ends: pc names the exit, and Leave takes it.

Exits == {"abort", "fail", "disabled", "unwarned", "finish"}
Goto(p) == pc' = p

\* _release: 200, an exception (the token is kept and tried in the next cycle),
\* 202 (the coordinator goes on by itself), or a lease that was already gone.
NeverLost == FALSE
Lost == lease # "warden"
Release ==
  \/ /\ lease = "warden" /\ lease' = "free" /\ token' = FALSE /\ run' = Let(run, "warden")
     /\ UNCHANGED <<cleanup, faults>>
  \/ /\ Fault /\ token' = TRUE /\ UNCHANGED <<lease, run, cleanup>>
  \/ /\ lease = "warden" /\ Fault
     /\ lease' = "ending" /\ token' = FALSE /\ cleanup' = TRUE /\ UNCHANGED run
  \/ /\ Lost /\ token' = FALSE /\ UNCHANGED <<lease, run, cleanup, faults>>

\* The end of the warden's ownership starts the idle clock again; an abort
\* starts it in any case; a failed warning puts the old clock back and blocks
\* the next warning for a while.
Confirmed == lease = "warden" /\ lease' = "free"
Restarts(exit) == exit = "abort" \/ (exit # "unwarned" /\ run' # run)
Clocks(exit) == /\ quiet' = (quiet /\ ~(Confirmed /\ Restarts(exit)))
                /\ blocked' = (blocked \/ (Confirmed /\ exit = "unwarned"))

Disarms == {"abort", "fail", "disabled"}

\* _cancel_ticket: a cancel that is not confirmed keeps the ticket for later.
Cancel == \/ ticket' = "none" /\ UNCHANGED faults
          \/ ticket # "none" /\ Fault /\ UNCHANGED ticket

\* What the next cycle writes before it reads it.
Forget == /\ mark' = 0 /\ anchor' = 0 /\ dead' = (dead /\ ticket # "none")
          /\ left' = {} /\ acted' = {} /\ missed' = {} /\ told' = FALSE /\ doubt' = FALSE

\* _abort, _fail and _named_partial, _switch_off, _warning_failed, _finish.
Leave ==
  /\ pc \in Exits /\ Goto("idle")
  /\ closing' = FALSE
  /\ armed' = IF pc \in Disarms THEN "none" ELSE armed
  /\ IF token THEN Release /\ Clocks(pc) /\ UNCHANGED ticket
     ELSE Cancel /\ UNCHANGED <<run, lease, token, cleanup, clocks>>
  /\ Forget
  /\ UNCHANGED <<file, world, reactions, asked, seen>>

Only(p, q) == pc = p /\ Goto(q)
Stays == UNCHANGED <<file, world, run, clocks, reactions, lease, held, marks, flags,
                     effects, ghosts>>

-----------------------------------------------------------------------------
\* A cycle, up to the adoption of the run.

\* Off, with something held from a cycle that was on: _drop_authority.
CycleOff ==
  /\ Only("idle", "disabled") /\ ~on /\ (token \/ ticket # "none")
  /\ Stays /\ UNCHANGED faults

\* A token whose release failed is released before anything else.
CycleRelease ==
  /\ pc = "idle" /\ on /\ token
  /\ closing' = FALSE /\ Release /\ Clocks("finish") /\ UNCHANGED armed
  /\ UNCHANGED <<file, world, reactions, pc, ticket, marks, effects, ghosts>>

\* Not while the coordinator still cleans up after the last release.
NeverCleaned == ~cleanup
Cleaned == cleanup => lease # "ending"

CycleBegins ==
  /\ Only("idle", "queued") /\ on /\ ~token /\ Cleaned /\ Candidate
  /\ cleanup' = FALSE /\ told' = FALSE
  /\ \/ ticket # "none" /\ UNCHANGED <<ticket, dead, seen>>
     \/ /\ ticket = "none" /\ ticket' = "queued" /\ dead' = ClientDead
        /\ seen' = ("client" \in listed)
  /\ UNCHANGED <<file, world, run, clocks, reactions, lease, token, mark, anchor, flags,
                 effects, doubt, faults>>

\* The ticket of a run that is no candidate any more is cancelled.
CycleCancels ==
  /\ pc = "idle" /\ on /\ ~token /\ Cleaned /\ ticket # "none" /\ ~Candidate
  /\ Cancel /\ cleanup' = FALSE
  /\ UNCHANGED <<file, world, run, clocks, reactions, lease, pc, token, marks, flags, effects,
                 ghosts>>

\* _after_enqueue: the switch and the candidate again, then a poll of the queue.
Wait ==
  /\ pc = "queued"
  /\ \/ ~on /\ Goto("disabled") /\ UNCHANGED <<ticket, token, lease, faults>>
     \/ on /\ ~Candidate /\ Goto("idle") /\ Cancel /\ UNCHANGED <<token, lease>>
     \/ /\ on /\ Candidate /\ ticket = "queued" /\ lease = "free" /\ Goto("granted")
        /\ lease' = "warden" /\ token' = TRUE /\ ticket' = "none" /\ UNCHANGED faults
     \/ /\ on /\ Candidate /\ ticket = "queued" /\ lease # "free" /\ Goto("idle")   \* 202
        /\ UNCHANGED <<ticket, token, lease, faults>>
     \/ /\ on /\ Candidate /\ Goto("idle")                    \* cancelled or failed
        /\ IF ticket = "expired" THEN UNCHANGED faults ELSE Fault
        /\ ticket' = "none" /\ UNCHANGED <<token, lease>>
  /\ UNCHANGED <<file, world, run, clocks, reactions, cleanup, marks, flags, effects, ghosts>>

Recheck ==
  /\ pc = "granted"
  /\ Goto(IF ~on THEN "disabled" ELSE IF Candidate THEN "adopt" ELSE "finish")
  /\ Stays /\ UNCHANGED faults

\* adopt_run, with its revalidation of the candidate and its confirmation.
Adoptable == lease = "warden" /\ run.state = "idle" /\ scan
             /\ Is("unknown") = {} /\ Is("owned") # {}

Adopt ==
  /\ pc = "adopt"
  /\ \/ /\ Adoptable /\ Abandoned /\ run' = [state |-> "running", owner |-> "warden"]
        /\ \/ Goto("mark") /\ UNCHANGED faults
           \/ ~dead /\ Goto("unwarned") /\ Fault      \* not dispatchable
        /\ doubt' = FALSE
     \/ /\ ~Adoptable /\ Goto("unwarned") /\ UNCHANGED <<run, doubt, faults>>
     \/ /\ Adoptable /\ ~Abandoned                  \* run_protected
        /\ Goto("finish") /\ UNCHANGED <<run, doubt, faults>>
     \/ Fault /\ Goto("unwarned") /\ UNCHANGED <<run, doubt>>
  /\ UNCHANGED <<file, world, clocks, reactions, lease, held, marks, flags, effects, told,
                 seen>>

\* What was recorded up to here is taken for what was there before.
Mark ==
  /\ Only("mark", "check") /\ mark' = stamp
  /\ UNCHANGED <<file, world, run, clocks, reactions, lease, held, dead, anchor, flags,
                 effects, ghosts, faults>>

-----------------------------------------------------------------------------
\* Warning and countdown.

Drift == ~scan \/ ~Whole
Disturbed == Reacted \/ Drift

Check ==
  /\ pc = "check"
  /\ Goto(IF Disturbed THEN "abort" ELSE IF dead THEN "close" ELSE "warn")
  /\ closing' = (closing \/ (~Disturbed /\ ~dead))
  /\ UNCHANGED <<file, world, run, clocks, reactions, lease, held, marks, armed, effects,
                 ghosts, faults>>

\* query_all_players, and one notice to each player behind the same checks.
Warn ==
  /\ pc = "warn"
  /\ \/ ~on /\ Goto("disabled") /\ UNCHANGED faults
     \/ on /\ Disturbed /\ Goto("abort") /\ UNCHANGED faults
     \/ on /\ ~Disturbed /\ Owned /\ Goto("count") /\ UNCHANGED faults
     \/ on /\ ~Disturbed /\ ~Owned /\ Goto("unwarned") /\ UNCHANGED faults
     \/ on /\ ~Disturbed /\ Fault /\ Goto("unwarned")
  /\ Stays

\* A beat of the countdown, or its end: the lease is renewed, and whoever comes
\* back, by what the sampler recorded or by a sample of its own, ends it.
Count ==
  /\ pc = "count"
  /\ \/ ~on /\ Goto("disabled") /\ UNCHANGED <<told, faults>>
     \/ on /\ lease # "warden" /\ Goto("fail") /\ UNCHANGED <<told, faults>>
     \/ on /\ Disturbed /\ Goto("abort") /\ UNCHANGED <<told, faults>>
     \/ on /\ ~Disturbed /\ Fault /\ Goto("fail") /\ UNCHANGED told
     \/ on /\ ~Disturbed /\ Goto("close") /\ told' = TRUE /\ UNCHANGED faults
  /\ UNCHANGED <<file, world, run, clocks, reactions, lease, held, marks, flags, effects,
                 seen, doubt>>

-----------------------------------------------------------------------------
\* _close: every check again, the arming, the last checks, the guard.

Close ==
  /\ pc = "close"
  /\ \/ ~on /\ Goto("disabled") /\ UNCHANGED faults
     \/ on /\ ~dead /\ Fault /\ Goto("fail")          \* no fresh sample
     \/ on /\ Goto(IF Reacted THEN "abort" ELSE "gate") /\ UNCHANGED faults
  /\ Stays

\* Heartbeat, idle_close_gate and the registered identities.
Gate ==
  /\ pc = "gate"
  /\ Goto(IF lease = "warden" /\ Serves /\ ~Drift THEN "arm" ELSE "fail")
  /\ Stays /\ UNCHANGED faults

Arm ==
  /\ pc \in {"arm", "rearm"}
  /\ armed' = IF pc = "arm" THEN "orderly" ELSE "fallback_stop"
  /\ Goto(IF pc = "arm" THEN "last" ELSE "laststop")
  /\ UNCHANGED <<file, world, run, clocks, reactions, lease, held, marks, closing, effects,
                 ghosts, faults>>

\* The fallback stop looks at the switch only.
Last ==
  /\ pc \in {"last", "laststop"}
  /\ Goto(IF ~on THEN "disabled"
          ELSE IF pc = "laststop" THEN "guardstop"
          ELSE IF Reacted THEN "abort" ELSE "guard")
  /\ Stays /\ UNCHANGED faults

\* _destruction_guard reads the anchors anew.
Guard ==
  /\ pc \in {"guard", "guardstop"} /\ anchor' = stamp
  /\ Goto(IF pc = "guard" THEN "enter" ELSE "enterstop")
  /\ acted' = {} /\ missed' = {} /\ left' = {}
  /\ UNCHANGED <<file, world, run, clocks, reactions, lease, held, dead, mark, flags, asked,
                 ghosts, faults>>

\* close_run: authority, owner, quarantine, _idle_destruction_refusal, commit.
Enter ==
  /\ pc = "enter"
  /\ \/ Owned /\ scan /\ Whole /\ Goto("list") /\ UNCHANGED faults
     \/ ~(Owned /\ scan /\ Whole) /\ Goto("fail") /\ UNCHANGED faults
     \/ Fault /\ Goto("fail")
  /\ Stays

\* _close_with_idle_guard lists the windows, and checks all of it once more.
List ==
  /\ pc = "list"
  /\ Goto(IF ~Whole THEN "fail" ELSE IF AnchorsChanged THEN "abort"
          ELSE IF ~on THEN "reread" ELSE "post")
  /\ left' \in IF pc' = "post" THEN SUBSET Roles ELSE {{}}
  /\ UNCHANGED <<file, world, run, clocks, reactions, lease, held, marks, flags, acted,
                 missed, asked, ghosts, faults>>

\* warden_disabled: _switch_off reads the file again, which may be on by now.
Reread ==
  /\ Only("reread", IF on THEN "idle" ELSE "disabled")
  /\ Stays /\ UNCHANGED faults

-----------------------------------------------------------------------------
\* _idle_effect_boundary: the switch, the anchors and, before the first effect,
\* the whole set of processes.

Turn(r) == r \in left /\ ("client" \in left => r = "client")
Fits == IF pc = "post" THEN Whole ELSE Vouched
Barred == ~on \/ AnchorsChanged \/ (acted = {} /\ ~Fits)
Refusal == IF ~on THEN "reread" ELSE IF AnchorsChanged THEN "abort" ELSE "fail"
AnyTarget(r) == r \in Roles
Target(r) == proc[r] = "owned"

Skip(r) == left' = left \ {r} /\ missed' = missed \cup {r} /\ UNCHANGED <<pc, acted>>
Act(r) == left' = left \ {r} /\ acted' = acted \cup {r} /\ UNCHANGED <<pc, missed>>
\* After the first effect a doubt about the operation spares all that is left.
Spare == left' = {} /\ missed' = missed \cup left /\ UNCHANGED <<pc, acted>>
GiveUp(p) == Goto(p) /\ UNCHANGED <<left, acted, missed>>

Post(r) ==
  /\ pc = "post" /\ Turn(r)
  /\ \/ /\ ~Barred /\ Target(r) /\ Act(r) /\ asked' = asked \cup {r} /\ UNCHANGED faults
     \/ /\ ~Barred /\ ~Target(r) /\ Skip(r) /\ UNCHANGED <<asked, faults>>
     \/ /\ ~Barred /\ Fault /\ UNCHANGED asked          \* the window is not posted
        /\ IF acted = {} THEN GiveUp("fail") ELSE Skip(r)
     \/ /\ Barred /\ UNCHANGED <<asked, faults>>
        /\ IF acted = {} THEN GiveUp(Refusal) ELSE Spare
  /\ UNCHANGED <<file, world, run, clocks, reactions, lease, held, marks, flags, ghosts>>

\* All posted, or a partial close that is named and ends the cycle.
Posted ==
  /\ pc = "post" /\ left = {} /\ closing' = FALSE
  /\ Goto(IF missed = {} THEN "wait" ELSE "fail")
  /\ UNCHANGED <<file, world, run, clocks, reactions, lease, held, marks, armed, effects,
                 ghosts, faults>>

\* _after_close: the run is found EXITED, or it is reaped, or the time is up.
Await ==
  /\ pc = "wait"
  /\ \/ /\ run.state # "exited" /\ Dying /\ Owned /\ scan /\ listed = {} /\ Goto("finish")
        /\ run' = [state |-> "exited", owner |-> "none"] /\ armed' = "none"
        /\ UNCHANGED faults
     \/ /\ run.state # "exited" /\ Dying /\ Fault /\ Goto("fail")
        /\ UNCHANGED <<run, armed>>
     \/ /\ Goto(IF run.state = "exited" THEN "finish" ELSE IF Dying THEN "fail" ELSE "stop")
        /\ UNCHANGED <<run, armed, faults>>
  /\ UNCHANGED <<file, world, clocks, reactions, lease, held, marks, closing, effects, ghosts>>

\* The switch, the lease and the gate again; input is not looked at.
Stop ==
  /\ pc = "stop"
  /\ Goto(IF ~on THEN "disabled"
          ELSE IF lease = "warden" /\ Serves /\ scan /\ Vouched THEN "rearm" ELSE "fail")
  /\ Stays /\ UNCHANGED faults

\* stop_run up to the row that says STOPPING.
EnterStop ==
  /\ pc = "enterstop"
  /\ \/ /\ Owned /\ scan /\ Vouched /\ Goto("kill")
        /\ run' = [state |-> "stopping", owner |-> "warden"] /\ left' = Is("owned")
        /\ UNCHANGED faults
     \/ ~(Owned /\ scan /\ Vouched) /\ Goto("fail") /\ UNCHANGED <<run, left, faults>>
     \/ Fault /\ Goto("fail") /\ UNCHANGED <<run, left>>
  /\ UNCHANGED <<file, world, clocks, reactions, lease, held, marks, flags, acted, missed,
                 asked, ghosts>>

Unreconciled == [state |-> "unreconciled", owner |-> "none"]
\* _restore_running_if_stopping
Restored == [state |-> "running", owner |-> run.owner]

Kill(r) ==
  /\ pc = "kill" /\ Turn(r)
  /\ \/ /\ ~Barred /\ Target(r) /\ Act(r) /\ proc' = [proc EXCEPT ![r] = "gone"]
        /\ UNCHANGED <<run, faults>>
     \/ /\ ~Barred /\ ~Target(r) /\ Skip(r) /\ UNCHANGED <<proc, run, faults>>
     \/ /\ ~Barred /\ Fault /\ UNCHANGED proc           \* the guard refuses
        /\ IF acted = {} THEN GiveUp("fail") /\ run' = Restored
                         ELSE Skip(r) /\ UNCHANGED run
     \/ /\ ~Barred /\ Fault /\ GiveUp("fail")           \* it cannot terminate
        /\ run' = Unreconciled /\ UNCHANGED proc
     \/ /\ Barred /\ UNCHANGED <<proc, faults>>
        /\ IF acted = {} THEN GiveUp(Refusal) /\ run' = Restored
                         ELSE Spare /\ UNCHANGED run
  /\ UNCHANGED <<file, scan, listed, clocks, reactions, lease, held, marks, flags, asked,
                 ghosts>>

\* The retirement takes the mark of the idle timeout; a partial stop does not.
Killed ==
  /\ pc = "kill" /\ left = {}
  /\ IF acted # {} /\ missed # {}
     THEN run' = Unreconciled /\ Goto("fail") /\ UNCHANGED armed
     ELSE run' = [state |-> "exited", owner |-> "none"] /\ armed' = "none" /\ Goto("finish")
  /\ UNCHANGED <<file, world, clocks, reactions, lease, held, marks, closing, effects,
                 ghosts, faults>>

Thread ==
  \/ Leave \/ CycleOff \/ CycleRelease \/ CycleBegins \/ CycleCancels
  \/ Wait \/ Recheck \/ Adopt \/ Mark \/ Check \/ Warn \/ Count
  \/ Close \/ Gate \/ Arm \/ Last \/ Guard \/ Enter \/ List \/ Reread
  \/ Posted \/ Await \/ Stop \/ EnterStop \/ Killed
  \/ \E r \in Roles : Post(r) \/ Kill(r)

-----------------------------------------------------------------------------
\* Everyone else.

Flip ==
  /\ Bounded /\ flips < MaxFlips /\ flips' = flips + 1 /\ on' = ~on
  /\ UNCHANGED <<world, run, clocks, reactions, lease, pc, held, marks, flags, effects,
                 ghosts, faults>>

\* Where the thread still has a check of the marks, or of the anchors, ahead.
Watching == \/ pc \in {"check", "warn", "count", "close", "gate", "arm", "last"}
            \/ pc \in {"enter", "list", "post"} /\ acted = {}

\* record_input_sample, or a lifecycle call by the launcher.
Input ==
  /\ Bounded /\ run.state # "exited"
  /\ stamp < MaxInputs /\ stamp' = stamp + 1 /\ quiet' = FALSE
  /\ doubt' = (doubt \/ Watching)
  /\ UNCHANGED <<file, world, run, blocked, launcher, lease, pc, held, marks, flags, effects,
                 told, seen, faults>>

\* The launcher asks for the box: its ticket is a reaction while it waits.
LauncherWaits ==
  /\ launcher = "away" /\ launcher' = "waits" /\ quiet' = FALSE
  /\ UNCHANGED <<file, world, run, blocked, stamp, lease, pc, held, marks, flags, effects,
                 ghosts, faults>>

LauncherLeaves ==
  /\ launcher = "waits" /\ launcher' = "gone"
  /\ UNCHANGED <<file, world, run, clocks, stamp, lease, pc, held, marks, flags, effects,
                 ghosts, faults>>

\* 600 s without use, launcher or release, in which a ticket nobody asks for
\* (SESSION_TTL_S, 120 s) expires; WARNING_RETRY_S after a failed warning.
Cut ==
  /\ run.state = "idle" /\ ~quiet /\ ~Waits /\ quiet' = TRUE
  /\ ticket' = IF ticket = "queued" THEN "expired" ELSE ticket
  /\ UNCHANGED <<file, world, run, blocked, reactions, lease, pc, token, cleanup, marks,
                 flags, effects, ghosts, faults>>

Retry ==
  /\ blocked /\ blocked' = FALSE
  /\ UNCHANGED <<file, world, run, quiet, reactions, lease, pc, held, marks, flags, effects,
                 ghosts, faults>>

Rest == UNCHANGED <<file, clocks, reactions, pc, held, marks, effects, ghosts>>

\* A process exits, asked to or not, its pid is reused, or it cannot be read.
ProcessChanges(r) ==
  /\ run.state # "exited"
  /\ \/ /\ proc[r] = "owned" /\ proc' = [proc EXCEPT ![r] = "gone"]
        /\ IF r \in asked THEN UNCHANGED faults ELSE Fault
     \/ proc[r] = "gone" /\ proc' = [proc EXCEPT ![r] = "foreign"] /\ Fault
     \/ proc[r] = "owned" /\ proc' = [proc EXCEPT ![r] = "unknown"] /\ Fault
  /\ Rest /\ UNCHANGED <<scan, listed, run, lease, flags>>

ReadAgain(r) ==
  /\ proc[r] = "unknown" /\ proc' = [proc EXCEPT ![r] = "owned"]
  /\ Rest /\ UNCHANGED <<scan, listed, run, lease, flags, faults>>

ScanFails ==
  /\ scan /\ scan' = FALSE /\ Fault
  /\ Rest /\ UNCHANGED <<proc, listed, run, lease, flags>>
ScanWorks ==
  /\ ~scan /\ scan' = TRUE
  /\ Rest /\ UNCHANGED <<proc, listed, run, lease, flags, faults>>

\* The census loses a process that is gone; for a while it may miss a living one.
Gone(r) == proc[r] \in {"gone", "foreign"}
CensusDrops(r) ==
  /\ run.state # "exited" /\ r \in listed /\ listed' = listed \ {r}
  /\ IF Gone(r) THEN UNCHANGED faults ELSE Fault
  /\ Rest /\ UNCHANGED <<scan, proc, run, lease, flags>>

CensusFinds(r) ==
  /\ run.state # "exited" /\ r \notin listed /\ ~Gone(r) /\ listed' = listed \cup {r}
  /\ Rest /\ UNCHANGED <<scan, proc, run, lease, flags, faults>>

\* Another client's grant, adoption, launch, stop and release.
OthersGrant ==
  /\ lease = "free" /\ lease' = "other"
  /\ Rest /\ UNCHANGED <<world, run, flags, faults>>

OthersAdopt ==
  /\ lease = "other" /\ ~InCall /\ run.state \in {"idle", "unreconciled"}
  /\ scan /\ Is("unknown") = {} /\ Is("owned") # {}
  /\ run' = [state |-> "running", owner |-> "other"]
  /\ Rest /\ UNCHANGED <<world, lease, flags, faults>>

\* start_run on the run its owner holds: a client joins it, or replaces the old one.
OthersExtend ==
  /\ lease = "other" /\ run.owner = "other" /\ ~InCall /\ scan
  /\ proc' = [r \in Roles \cup {"client"} |-> IF r = "client" THEN "owned" ELSE proc[r]]
  /\ listed' = listed \cup {"client"} /\ asked' = asked \ {"client"}
  /\ UNCHANGED <<file, scan, run, clocks, reactions, lease, pc, held, marks, flags, left,
                 acted, missed, ghosts, faults>>

OthersStop ==
  /\ run.owner = "other" /\ ~InCall /\ scan
  /\ run' = [state |-> "exited", owner |-> "none"] /\ armed' = "none"
  /\ Rest /\ UNCHANGED <<world, lease, closing, faults>>

\* A release by its holder; the run it leaves is idle from now.
OthersRelease ==
  /\ lease = "other" /\ ~InCall /\ lease' = "free" /\ run' = Let(run, "other")
  /\ quiet' = (quiet /\ run' = run)
  /\ UNCHANGED <<file, world, blocked, reactions, pc, held, marks, flags, effects, ghosts,
                 faults>>

\* The thread stalls past the lease's TTL.
Expires ==
  /\ lease = "warden" /\ ~InCall /\ Fault
  /\ lease' = "free" /\ run' = Let(run, "warden") /\ quiet' = (quiet /\ run' = run)
  /\ UNCHANGED <<file, world, blocked, reactions, pc, held, marks, flags, effects, ghosts>>

\* The cleanup behind a 202 ends; behind an unsafe one nobody watches.
CleanupEnds ==
  /\ lease = "ending" /\ lease' = "free"
  /\ run' = Let(run, "warden") /\ quiet' = (quiet /\ run' = run)
  /\ UNCHANGED <<file, world, blocked, reactions, pc, held, marks, flags, effects, ghosts,
                 faults>>

\* The daemon's reaper, with the label of the idle timeout if one is armed: the
\* guard and the census agree that nothing of the run is left.
Reaper ==
  /\ ~InCall /\ scan /\ run.state \in {"idle", "running", "unreconciled"}
  /\ listed = {} /\ \A r \in Roles : Gone(r)
  /\ run' = [state |-> "exited", owner |-> "none"] /\ armed' = "none"
  /\ Rest /\ UNCHANGED <<world, lease, closing, faults>>

Next ==
  \/ Thread
  \/ Flip \/ Input \/ LauncherWaits \/ LauncherLeaves \/ Cut \/ Retry
  \/ ScanFails \/ ScanWorks \/ (\E r \in Roles : ProcessChanges(r) \/ ReadAgain(r))
  \/ (\E r \in Roles : CensusDrops(r) \/ CensusFinds(r))
  \/ OthersGrant \/ OthersAdopt \/ OthersExtend \/ OthersStop \/ OthersRelease
  \/ Expires \/ CleanupEnds \/ Reaper

Spec == Init /\ [][Next]_vars

\* The thread runs, time passes, probes recover and the reaper does its work.
\* Nobody has to release a lease, end a cleanup, come back or go away.
FairSpec == /\ Spec /\ WF_vars(Thread) /\ WF_vars(Cut) /\ WF_vars(Retry)
            /\ WF_vars(ScanWorks) /\ WF_vars(\E r \in Roles : ReadAgain(r))
            /\ WF_vars(\E r \in Roles : Gone(r) /\ CensusDrops(r))
            /\ WF_vars(\E r \in Roles : CensusFinds(r))
            /\ WF_vars(Reaper)

-----------------------------------------------------------------------------
Switches == /\ on \in BOOLEAN /\ scan \in BOOLEAN /\ quiet \in BOOLEAN /\ blocked \in BOOLEAN
            /\ token \in BOOLEAN /\ cleanup \in BOOLEAN
            /\ dead \in BOOLEAN /\ closing \in BOOLEAN /\ told \in BOOLEAN
            /\ seen \in BOOLEAN /\ doubt \in BOOLEAN
            /\ ticket \in {"none", "queued", "expired"}
            /\ token => ticket = "none"

Values ==
  /\ Roles \in (SUBSET AllRoles) \ {{}} /\ proc \in [Roles -> Kinds]
  /\ listed \subseteq Roles
  /\ run \in [state : {"running", "stopping"}, owner : {"warden", "other"}]
             \cup [state : {"idle", "unreconciled", "exited"}, owner : {"none"}]
  /\ stamp \in 0..MaxInputs /\ mark \in 0..stamp /\ anchor \in 0..stamp
  /\ launcher \in {"away", "waits", "gone"}
  /\ lease \in {"free", "warden", "other", "ending"}
  /\ pc \in {"idle", "queued", "granted", "adopt", "mark", "check", "warn", "count", "close",
             "gate", "arm", "last", "guard", "enter", "list", "reread", "post", "wait",
             "stop", "rearm", "laststop", "guardstop", "enterstop", "kill"} \cup Exits
  /\ armed \in {"none", "orderly", "fallback_stop"}
  /\ left \subseteq Roles /\ acted \subseteq Roles /\ missed \subseteq Roles
  /\ asked \subseteq Roles
  /\ flips \in 0..MaxFlips /\ faults \in 0..MaxFaults

\* Every variable has its type; a ticket is given up for a token, and a run has
\* an owner in the states that serve one and in no other.
TypeOK == Switches /\ Values

\* A WM_CLOSE or a termination of this step, and those that are the first.
Effects == acted' \ acted
FirstClose == pc = "post" /\ acted = {} /\ Effects # {}

\* The warden acts on a process only while it holds the lease and owns the run,
\* with the switch on, and only on one the guard still vouches for: never on
\* the run of an agent, and never on a process that took the pid of another,
\* whatever expires, is reused or is switched off on the way.
EffectAuthorized ==
  [][Effects # {} => /\ lease = "warden" /\ run.owner = "warden" /\ on
                     /\ \A r \in Effects : proc[r] = "owned"]_vars

\* A reaction that some check was still to see keeps every window open: whoever
\* comes back between the marks and the last check, or while the windows are
\* listed, is not closed on.
SeenReactionAborts == [][FirstClose => ~doubt]_vars

\* A run whose client the census listed when it was chosen is closed only after a
\* confirmed warning and the whole countdown of the same cycle, however long the
\* ticket waited and whatever the census said since.
WarnedBeforeClose == [][FirstClose /\ seen => told]_vars

\* The warden does not keep its lease: once it has a token, it lets it go,
\* though releases fail, are answered 202, or find the lease gone.
LetsGo == token ~> ~token

\* In the end the switch stays on and the other clients leave the box alone.
Settled == on /\ lease # "other" /\ ~Waits
\* One process of the run has exited while another goes on.
Halved == {r \in Roles : Gone(r)} \notin {{}, Roles}
Over == run.state \in {"exited", "unreconciled"}

\* An abandoned run is closed in the end, through aborted countdowns, failed
\* warnings and processes that outlive their window; unless one of its processes
\* goes and another stays, or the warden's own lease never ends its cleanup.
AbandonedIsClosed ==
  <>[]Settled => <>Over \/ <>[]Halved \/ <>[](lease = "ending")

=============================================================================
