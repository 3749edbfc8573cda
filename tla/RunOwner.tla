------------------------------ MODULE RunOwner ------------------------------
(***************************************************************************)
(* The one run of a box, from its launch to its end, and who may command   *)
(* it (process_lifecycle.py): a session launches or adopts the run under   *)
(* its lease, the end of the lease hands the run to a cleanup worker, and  *)
(* a crash of the daemon leaves the row, the launch intent and the game    *)
(* behind for the next one to settle.                                      *)
(*                                                                         *)
(* Every lifecycle call holds _operation_lock from its first look at the   *)
(* row to its last write: op is that lock, and what may happen between two *)
(* of its steps is what other threads do under other locks (the lease ends *)
(* or is granted, the player moves the mouse, the process dies) or a crash.*)
(*                                                                         *)
(* owner is a holder, the pair of a session and its lease id, as the row   *)
(* keeps both.  Lease ids are recycled once nothing names them.            *)
(*                                                                         *)
(* KeepsOwner, StaleLive, LiftsAtOnce, EndsIfOwned, Unspoilt and          *)
(* IntentDropped are deliberate mistakes, used by no action: each is a bug *)
(* one of the properties must notice.                                      *)
(***************************************************************************)
EXTENDS Naturals, FiniteSets

CONSTANTS
  Session,    \* client session ids
  LeaseId,    \* enough lease ids that a fresh one is always left
  Nobody,     \* the absent holder, the absent launcher
  MaxFaults,  \* writes that may fail, crashes and cleanups that cannot start
  MaxRuns     \* launches of a new run

Holder == [who : Session, id : LeaseId]
Active == {"STARTING", "RUNNING", "RUNNING_IDLE", "STOPPING", "UNRECONCILED"}
Reapable == {"RUNNING", "RUNNING_IDLE", "UNRECONCILED"}
Row == [state : Active \cup {"EXITED"}, owner : Holder \cup {Nobody},
        acked : BOOLEAN, procs : {"none", "alive", "dead"}]

ASSUME NobodyAssumption == Nobody \notin Session /\ Nobody \notin Holder /\ Nobody \notin Row
ASSUME BoundAssumption == MaxFaults \in Nat /\ MaxRuns \in Nat

VARIABLES
  run,     \* the row of the manifest: state, owner, acked (launch_acknowledged), procs
  stray,   \* a launched game lives that no row names
  intent,  \* the launch intent file names this STARTING row
  by,      \* _launched_by: what this daemon knows of the launcher
  quiet,   \* the clocks class the run as abandoned
  fenced,  \* the bridge's _fenced_runs holds the run
  bound,   \* a game instance is bound to the run
  token,   \* the pending adoption: none, clean, or invalidated by input
  revert,  \* _adoption_revert_pending: the write that takes the owner back failed
  lease,   \* the coordinator's lease: free, live, or ending (_releasing)
  owed,    \* cleanup workers of ended leases, by how far they are
  armed,   \* a lifecycle recovery fault is armed: no grants
  op,      \* the holder of _operation_lock and where its call is
  faults, runs,  \* bounds
  lost,    \* ghost: holders whose cleanup was reported degraded
  doubt    \* ghost: input since the adoption was last found abandoned

bridge == <<fenced, bound>>
adoption == <<token, revert>>
rowvars == <<run, stray, intent>>
coord == <<lease, owed, armed>>
bounds == <<faults, runs, lost>>
vars == <<rowvars, by, quiet, bridge, adoption, coord, op, bounds, doubt>>

Unlocked == [kind |-> "none", at |-> "free", for |-> Nobody, fresh |-> FALSE]
NoLease == [at |-> "free", of |-> Nobody]
Free == op.at = "free"
At(k, a) == op.kind = k /\ op.at = a
StaleLive(h) == h \in Holder
Live(h) == lease = [at |-> "live", of |-> h]
Owns(h) == run.state = "RUNNING" /\ run.owner = h
Launcher(s) == by = s
KeepsOwner(r) == [r EXCEPT !.state = "RUNNING_IDLE"]
Idle(r) == [r EXCEPT !.state = "RUNNING_IDLE", !.owner = Nobody]
Quarantined(r) == [r EXCEPT !.state = "UNRECONCILED", !.owner = Nobody]
Exited(r) == [r EXCEPT !.state = "EXITED", !.owner = Nobody, !.procs = "none"]

\* A call, a write or a thread that fails costs one fault.
Fault == faults < MaxFaults /\ faults' = faults + 1

\* manifest.replace: on failure the row in memory is rolled back to the disk's.
Replace(r) == \/ run' = r /\ UNCHANGED faults
              \/ run' = run /\ Fault
Unlock == op' = Unlocked
Step(a) == op' = [op EXCEPT !.at = a]

\* What a game bound to the run takes from session s (_enqueue_run_rejection).
Accepts(s) == /\ lease.at = "live" /\ lease.of.who = s
              /\ bound /\ ~fenced /\ run.state \in {"RUNNING", "STARTING"}
              /\ revert => Launcher(s)

Init ==
  /\ run = [state |-> "EXITED", owner |-> Nobody, acked |-> TRUE, procs |-> "none"]
  /\ stray = FALSE /\ intent = FALSE /\ by = Nobody /\ quiet = FALSE
  /\ fenced = FALSE /\ bound = FALSE /\ token = "none" /\ revert = FALSE
  /\ lease = NoLease /\ owed = {} /\ armed = Nobody /\ op = Unlocked
  /\ faults = 0 /\ runs = 0 /\ lost = {} /\ doubt = FALSE

-----------------------------------------------------------------------------
\* The coordinator: leases and the cleanup of the ended ones.

Named == ({lease.of, op.for, run.owner} \cup {w.of : w \in owed} \cup lost) \ {Nobody}

Grant(s) ==
  /\ lease.at = "free" /\ armed = Nobody /\ op.kind # "boot"
  /\ \E i \in LeaseId : /\ \A h \in Named : h.id # i
                        /\ lease' = [at |-> "live", of |-> [who |-> s, id |-> i]]
  /\ UNCHANGED <<rowvars, by, quiet, bridge, adoption, owed, armed, op, bounds, doubt>>

EndLease ==
  /\ lease.at = "live"
  /\ lease' = [lease EXCEPT !.at = "ending"]
  /\ owed' = owed \cup {[of |-> lease.of, at |-> "queued"]}
  /\ UNCHANGED <<rowvars, by, quiet, bridge, adoption, armed, op, bounds, doubt>>

\* No worker slot is free, no thread starts, or the bridge's part of the
\* cleanup raises: the release goes on, degraded, and the run keeps its owner.
EndWithoutCleanup ==
  /\ lease.at = "live" /\ Fault
  /\ lease' = NoLease
  /\ lost' = lost \cup {lease.of}
  /\ UNCHANGED <<rowvars, by, quiet, bridge, adoption, owed, armed, op, runs, doubt>>

\* The worker has not returned a disposition within cleanup_timeout_s: the
\* release is closed and the next lease may be granted.
CleanupTimesOut ==
  /\ lease.at = "ending" /\ [of |-> lease.of, at |-> "queued"] \in owed
  /\ lease' = NoLease
  /\ UNCHANGED <<rowvars, by, quiet, bridge, adoption, owed, armed, op, bounds, doubt>>

EndsIfOwned(h) ==
  lease' = IF lease = [at |-> "ending", of |-> h] /\ run.owner = h THEN NoLease ELSE lease
ReleaseEnds(h) ==
  lease' = IF lease = [at |-> "ending", of |-> h] THEN NoLease ELSE lease

\* manifest.release_owner behind _transition_to_idle; a failed write lifts the
\* fence again and the disposition is not terminal_safe.
ReleaseOwner(h) ==
  \/ /\ ~Owns(h) /\ ReleaseEnds(h)
     /\ UNCHANGED <<run, quiet, fenced, faults, lost>>
  \/ /\ Owns(h) /\ ReleaseEnds(h)
     /\ run' = Idle(run) /\ fenced' = TRUE /\ quiet' = FALSE
     /\ UNCHANGED <<faults, lost>>
  \/ /\ Owns(h) /\ Fault
     /\ fenced' = FALSE /\ lost' = lost \cup {h}
     /\ UNCHANGED <<run, quiet, lease>>

Unacknowledged(r) == r.state \in Active /\ ~r.acked

BeginRelease(w) ==
  /\ Free /\ w.at = "queued"
  /\ IF Unacknowledged(run) /\ run.owner = w.of
     THEN /\ owed' = (owed \ {w}) \cup {[w EXCEPT !.at = "listed"]}
          /\ UNCHANGED <<run, quiet, fenced, lease, faults, lost>>
     ELSE owed' = owed \ {w} /\ ReleaseOwner(w.of)
  /\ UNCHANGED <<stray, intent, by, bound, adoption, armed, op, runs, doubt>>

\* One fault at a time is armed: another is refused, and that is ignored.
Arm(r) == armed' = IF armed = Nobody THEN r ELSE armed

\* The launch nobody acknowledged ends with its lease: every process of the row
\* is identified and terminated, and only then is the row EXITED.
KillUnacknowledged(h) ==
  \/ /\ run.procs \in {"none", "alive"} /\ run' = Exited(run)
     /\ ReleaseEnds(h) /\ UNCHANGED <<armed, faults, lost>>
  \/ /\ run.procs \in {"none", "alive"} /\ Fault   \* killed, but the row is not written
     /\ run' = [run EXCEPT !.procs = IF @ = "none" THEN @ ELSE "dead"]
     /\ lost' = lost \cup {h} /\ UNCHANGED lease
     /\ IF op.kind = "boot" THEN Arm(run) ELSE UNCHANGED armed
  \/ /\ run.procs = "dead" \/ run.procs = "alive"  \* not the process it names
     /\ \E r \in {Quarantined(run), run} :
          /\ run' = r /\ Arm(r)
          /\ faults' = faults + (IF run.procs = "alive" THEN 1 ELSE 0)
                             + (IF r = run THEN 1 ELSE 0)
     /\ faults' <= MaxFaults
     /\ UNCHANGED <<lease, lost>>

FinishRelease(w) ==
  /\ Free /\ w.at = "listed"
  /\ owed' = owed \ {w}
  /\ IF run.owner = w.of /\ ~run.acked
     THEN KillUnacknowledged(w.of) /\ bound' = FALSE
     ELSE /\ Arm(run)
          /\ UNCHANGED <<run, bound, lease, faults, lost>>
  /\ UNCHANGED <<stray, intent, by, quiet, fenced, adoption, op, runs, doubt>>

\* An operator repairs the fault: only the very row that was armed, and not
\* one that has exited since.
Repair ==
  /\ Free /\ armed # Nobody
  /\ Unacknowledged(run) /\ run = [armed EXCEPT !.procs = run.procs]
  /\ run' = Exited(run) /\ bound' = FALSE /\ armed' = Nobody
  /\ lease' = IF lease.at = "ending" THEN NoLease ELSE lease
  /\ UNCHANGED <<stray, intent, by, quiet, fenced, adoption, owed, op, bounds, doubt>>

-----------------------------------------------------------------------------
\* The lifecycle calls.

\* _retry_adoption_reverts: the owner that input made unconfirmed is taken back.
Retry ==
  IF revert /\ run.state = "RUNNING" /\ run.owner # Nobody
  THEN \/ run' = Idle(run) /\ revert' = FALSE /\ UNCHANGED faults
       \/ Fault /\ UNCHANGED <<run, revert>>
  ELSE revert' = FALSE /\ UNCHANGED <<run, faults>>

\* Adopt, stop and acknowledge retry a pending revert before they judge the
\* caller; a start does not look at it.  Adopt and stop note the launcher.
Enter(s, k) ==
  /\ Free
  /\ \E h \in Holder : /\ h.who = s /\ Live(h)
                      /\ op' = [kind |-> k, at |-> "entered", for |-> h,
                                fresh |-> k = "start" /\ run.state = "EXITED"]
  /\ IF k = "start" THEN UNCHANGED <<run, revert, faults>> ELSE Retry
  /\ quiet' = (quiet /\ ~(k \in {"adopt", "stop"} /\ Launcher(s)))
  /\ UNCHANGED <<stray, intent, by, bridge, token, coord, runs, lost, doubt>>

\* Any check may refuse, and an audit or the quarantine may fail the call.
Refuse ==
  /\ op.at = "entered" /\ Unlock
  /\ UNCHANGED <<rowvars, by, quiet, bridge, adoption, coord, bounds, doubt>>

\* _refuse_unconfirmed_owner, after the retry.
Unconfirmed == revert /\ ~Launcher(op.for.who)

\* A stranger adopts only a run that is still abandoned when the probes are
\* back, and registers the adoption in the same hold of the clocks' lock.
JudgeAdopt ==
  /\ At("adopt", "entered") /\ ~Unconfirmed
  /\ run.owner = Nobody /\ run.state \in {"RUNNING_IDLE", "UNRECONCILED"}
  /\ run.procs = "alive"
  /\ IF run.state = "RUNNING_IDLE" /\ ~Launcher(op.for.who)
     THEN quiet /\ token' = "clean" /\ doubt' = FALSE
     ELSE UNCHANGED <<token, doubt>>
  /\ Step("open")
  /\ UNCHANGED <<rowvars, by, quiet, bridge, revert, coord, bounds>>

JudgeOwner ==
  /\ op.kind \in {"stop", "ack"} /\ op.at = "entered"
  /\ ~Unconfirmed /\ Owns(op.for) /\ Step("open")
  /\ UNCHANGED <<rowvars, by, quiet, bridge, adoption, coord, bounds, doubt>>

\* The box must hold no game the active row does not name.
JudgeStart ==
  /\ At("start", "entered") /\ ~stray
  /\ IF op.fresh THEN run.state = "EXITED" /\ runs < MaxRuns ELSE Owns(op.for)
  /\ Step("open")
  /\ UNCHANGED <<rowvars, by, quiet, bridge, adoption, coord, bounds, doubt>>

\* A stop that cannot read one of the processes gives the run up.
StopMeetsUnknown ==
  /\ At("stop", "entered") /\ ~Unconfirmed /\ Owns(op.for) /\ Fault
  /\ bound' = FALSE
  /\ run' \in {run, Quarantined(run)}
  /\ Unlock
  /\ UNCHANGED <<stray, intent, by, quiet, fenced, adoption, coord, runs, lost, doubt>>

\* commit_authorization: the lease the call was authorized under still lives.
Commit ==
  /\ op.at = "open" /\ Live(op.for) /\ Step("committed")
  /\ UNCHANGED <<rowvars, by, quiet, bridge, adoption, coord, bounds, doubt>>

CommitRefused ==
  /\ op.at = "open" /\ ~Live(op.for) /\ Unlock
  /\ token' = "none"
  /\ UNCHANGED <<rowvars, by, quiet, bridge, revert, coord, bounds, doubt>>

LiftsAtOnce(t) == FALSE
Lifts(t) == IF t = "none" THEN FALSE ELSE fenced

\* The owner is written.  An adoption by the launcher needs no confirmation.
WriteAdopt ==
  /\ At("adopt", "committed")
  /\ \/ /\ run' = [run EXCEPT !.state = "RUNNING", !.owner = op.for]
        /\ fenced' = Lifts(token)
        /\ IF token = "none" THEN Unlock ELSE Step("written")
        /\ UNCHANGED <<token, faults>>
     \/ /\ Fault /\ Unlock /\ token' = "none"
        /\ UNCHANGED <<run, fenced>>
  /\ UNCHANGED <<stray, intent, by, quiet, bound, revert, coord, runs, lost, doubt>>

ConfirmAdopt ==
  /\ At("adopt", "written") /\ token = "clean"
  /\ token' = "none" /\ fenced' = FALSE /\ Unlock
  /\ UNCHANGED <<rowvars, by, quiet, bound, revert, coord, bounds, doubt>>

\* Input while the owner was being written, or a marker that cannot be removed
\* (one fault): the owner is taken back, now or when the write lands.
UndoAdopt ==
  LET marker == IF token = "clean" THEN 1 ELSE 0 IN
  /\ At("adopt", "written") /\ token' = "none" /\ Unlock
  /\ \/ run' = Idle(run) /\ faults' = faults + marker /\ UNCHANGED revert
     \/ revert' = TRUE /\ faults' = faults + marker + 1 /\ UNCHANGED run
  /\ faults' <= MaxFaults
  /\ UNCHANGED <<stray, intent, by, quiet, bridge, coord, runs, lost, doubt>>

WriteAck ==
  /\ At("ack", "committed") /\ Unlock
  /\ Replace([run EXCEPT !.acked = TRUE])
  /\ UNCHANGED <<stray, intent, by, quiet, bridge, adoption, coord, runs, lost, doubt>>

WriteStopping ==
  /\ At("stop", "committed") /\ bound' = FALSE
  /\ \/ run' = [run EXCEPT !.state = "STOPPING"] /\ Step("stopping") /\ UNCHANGED faults
     \/ Fault /\ Unlock /\ UNCHANGED run
  /\ UNCHANGED <<stray, intent, by, quiet, fenced, adoption, coord, runs, lost, doubt>>

\* All terminated, or given up half-way; the row stays STOPPING when that
\* cannot be written (one fault more).
StopEnds ==
  /\ At("stop", "stopping") /\ Unlock
  /\ \/ run' = Exited(run) /\ UNCHANGED faults
     \/ run' = [run EXCEPT !.procs = "dead"] /\ Fault
     \/ run' = Quarantined(run) /\ Fault
     \/ run' = run /\ faults' = faults + 2
  /\ faults' <= MaxFaults
  /\ UNCHANGED <<stray, intent, by, quiet, bridge, adoption, coord, runs, lost, doubt>>

-----------------------------------------------------------------------------
\* A launch: the row is STARTING before the intent, the intent is on disk
\* before the game exists, the row names the game before the intent goes.

WriteStarting ==
  /\ At("start", "committed")
  /\ \/ /\ \E ack \in BOOLEAN :
            run' = IF op.fresh
                   THEN [state |-> "STARTING", owner |-> op.for, acked |-> ack, procs |-> "none"]
                   ELSE [run EXCEPT !.state = "STARTING"]
        /\ IF op.fresh   \* a new run id: nothing in memory is about it
           THEN /\ runs' = runs + 1 /\ by' = Nobody
                /\ quiet' = FALSE /\ fenced' = FALSE /\ bound' = FALSE /\ revert' = FALSE
           ELSE UNCHANGED <<runs, by, quiet, bridge, revert>>
        /\ Step("starting") /\ UNCHANGED faults
     \/ /\ Fault /\ Unlock
        /\ UNCHANGED <<run, runs, by, quiet, bridge, revert>>
  /\ UNCHANGED <<stray, intent, token, coord, lost, doubt>>

WriteIntent ==
  /\ At("start", "starting") /\ intent' = TRUE /\ Step("traced")
  /\ UNCHANGED <<run, stray, by, quiet, bridge, adoption, coord, bounds, doubt>>

Popen ==
  /\ At("start", "traced") /\ stray' = TRUE /\ Step("launched")
  /\ UNCHANGED <<run, intent, by, quiet, bridge, adoption, coord, bounds, doubt>>

Register ==
  /\ At("start", "launched") /\ stray
  /\ run' = [run EXCEPT !.state = "RUNNING", !.procs = "alive"]
  /\ stray' = FALSE /\ intent' = FALSE /\ bound' = TRUE
  /\ by' = IF op.fresh THEN op.for.who ELSE by
  /\ Unlock
  /\ UNCHANGED <<quiet, fenced, adoption, coord, bounds, doubt>>

\* The intent of a launch that failed stays with a row that is still STARTING.
IntentDropped(r) == FALSE
StillTraced(r) == intent /\ r.state = "STARTING"

\* _settle_failed_launch: a game confirmed closed gives the row of before back,
\* or an EXITED one; any other leaves it UNRECONCILED with its owner.
StartFails ==
  LET before == IF op.fresh THEN Exited(run) ELSE [run EXCEPT !.state = "RUNNING"]
      left == [run EXCEPT !.state = "UNRECONCILED"]
  IN
  /\ op.kind = "start" /\ op.at \in {"starting", "traced", "launched"} /\ Unlock
  /\ \/ /\ run' = before /\ stray' = FALSE
        /\ IF op.at = "launched" /\ ~stray THEN UNCHANGED faults ELSE Fault
     \/ run' = run /\ stray' = FALSE /\ faults' = faults + 2
     \/ /\ stray /\ Fault
        /\ \/ run' = left /\ stray' = TRUE
           \/ run' = [left EXCEPT !.procs = "alive"] /\ stray' = FALSE
     \/ stray /\ run' = run /\ stray' = TRUE /\ faults' = faults + 2
  /\ faults' <= MaxFaults
  /\ intent' = StillTraced(run')
  /\ UNCHANGED <<by, quiet, bridge, adoption, coord, runs, lost, doubt>>

-----------------------------------------------------------------------------
\* What the player, the clocks, the processes and the housekeeping do.

Unspoilt(t) == t
Spoilt(t) == IF t = "clean" THEN "bad" ELSE t

\* record_input_sample: the clock, and the adoption that is being written.
Input ==
  /\ run.state \in Active /\ run.procs = "alive"
  /\ quiet' = FALSE
  /\ token' = Spoilt(token)
  /\ doubt' = (doubt \/ (op.kind = "adopt" /\ op.at \in {"open", "committed", "written"}))
  /\ UNCHANGED <<rowvars, by, bridge, revert, coord, op, bounds>>

LauncherAsks ==
  /\ by # Nobody /\ quiet' = FALSE
  /\ UNCHANGED <<rowvars, by, bridge, adoption, coord, op, bounds, doubt>>

GoesQuiet ==
  /\ run.state = "RUNNING_IDLE" /\ quiet' = TRUE
  /\ UNCHANGED <<rowvars, by, bridge, adoption, coord, op, bounds, doubt>>

ProcessDies ==
  /\ \/ run.procs = "alive" /\ run' = [run EXCEPT !.procs = "dead"] /\ UNCHANGED stray
     \/ stray /\ stray' = FALSE /\ UNCHANGED run
  /\ UNCHANGED <<intent, by, quiet, bridge, adoption, coord, op, bounds, doubt>>

\* reap_dead_runs: the revert is retried, then a run all of whose processes are
\* gone is retired.  A retirement that cannot be written is left to the next pass.
Reap ==
  LET dead == run.state \in Reapable /\ run.procs # "alive" /\ ~stray IN
  /\ Free /\ (revert \/ dead)
  /\ IF dead THEN run' = Exited(run) /\ revert' = FALSE /\ UNCHANGED faults ELSE Retry
  /\ bound' = (bound /\ ~dead)
  /\ UNCHANGED <<stray, intent, by, quiet, fenced, token, coord, op, runs, lost, doubt>>

-----------------------------------------------------------------------------
\* The daemon dies, and the next one recovers before it listens.

\* The adoption marker on disk takes an owner that was not confirmed back.
Crash ==
  /\ Fault
  /\ run' = IF run.state = "RUNNING" /\ (revert \/ At("adopt", "written")) THEN Idle(run) ELSE run
  /\ by' = Nobody /\ quiet' = FALSE /\ fenced' = FALSE /\ bound' = FALSE
  /\ token' = "none" /\ revert' = FALSE
  /\ lease' = NoLease /\ owed' = {} /\ lost' = {} /\ doubt' = FALSE
  /\ op' = IF armed = Nobody
           THEN [Unlocked EXCEPT !.kind = "boot", !.at = "intent"] ELSE Unlocked
  /\ UNCHANGED <<stray, intent, armed, runs>>

\* A live game the intent describes joins its row; anything short of that
\* retires the intent (one fault when there is such a game).
RecoverIntent ==
  /\ At("boot", "intent") /\ Step("unacknowledged") /\ intent' = FALSE
  /\ LET mine == intent /\ run.state = "STARTING" /\ stray IN
     \/ /\ mine /\ stray' = FALSE /\ UNCHANGED faults
        /\ run' = [run EXCEPT !.state = "RUNNING", !.procs = "alive"]
     \/ (IF mine THEN Fault ELSE UNCHANGED faults) /\ UNCHANGED <<run, stray>>
  /\ UNCHANGED <<by, quiet, bridge, adoption, coord, runs, lost, doubt>>

RecoverUnacknowledged ==
  /\ At("boot", "unacknowledged") /\ Step("owners")
  /\ IF ~Unacknowledged(run) THEN UNCHANGED <<run, lease, armed, faults, lost>>
     ELSE IF run.owner = Nobody THEN Arm(run) /\ UNCHANGED <<run, lease, faults, lost>>
     ELSE KillUnacknowledged(run.owner)
  /\ UNCHANGED <<stray, intent, by, quiet, bridge, adoption, owed, runs, doubt>>

RecoverOwners ==
  /\ At("boot", "owners") /\ Unlock /\ lost' = {}
  /\ run' = CASE run.state = "RUNNING" /\ run.owner # Nobody -> Idle(run)
              [] run.state \in {"STARTING", "STOPPING"} -> Quarantined(run)
              [] OTHER -> run
  /\ UNCHANGED <<stray, intent, by, quiet, bridge, adoption, coord, faults, runs, doubt>>

-----------------------------------------------------------------------------
Call == Refuse \/ JudgeAdopt \/ JudgeOwner \/ JudgeStart \/ StopMeetsUnknown
        \/ Commit \/ CommitRefused \/ WriteAdopt \/ ConfirmAdopt \/ UndoAdopt
        \/ WriteAck \/ WriteStopping \/ StopEnds
        \/ WriteStarting \/ WriteIntent \/ Popen \/ Register \/ StartFails
Recover == RecoverIntent \/ RecoverUnacknowledged \/ RecoverOwners

Next ==
  \/ \E s \in Session : Grant(s) \/ \E k \in {"adopt", "stop", "ack", "start"} : Enter(s, k)
  \/ EndLease \/ EndWithoutCleanup \/ CleanupTimesOut
  \/ \E w \in owed : BeginRelease(w) \/ FinishRelease(w)
  \/ Repair \/ Call \/ Recover \/ Crash
  \/ Input \/ LauncherAsks \/ GoesQuiet \/ ProcessDies \/ Reap

Spec == Init /\ [][Next]_vars

\* A call runs to its end, and so do the workers and the recovery: they are
\* threads that wait for nothing but the operation lock.
FairSpec == /\ Spec /\ WF_vars(Call) /\ WF_vars(Recover)
            /\ WF_vars(\E w \in owed : BeginRelease(w) \/ FinishRelease(w))

-----------------------------------------------------------------------------
Backed(h) == \/ lease.of = h /\ lease.at # "free"
             \/ \E w \in owed : w.of = h
             \/ h \in lost

\* Types, and what the row's states say of its owner: a run that starts, runs or
\* stops has one, an idle or an exited run has none (RunRecord).
TypeOK ==
  /\ run \in Row
  /\ run.state \in {"STARTING", "RUNNING", "STOPPING"} => run.owner # Nobody
  /\ run.state \in {"RUNNING_IDLE", "EXITED"} => run.owner = Nobody
  /\ stray \in BOOLEAN /\ intent \in BOOLEAN /\ by \in Session \cup {Nobody}
  /\ quiet \in BOOLEAN /\ fenced \in BOOLEAN /\ bound \in BOOLEAN
  /\ token \in {"none", "clean", "bad"} /\ revert \in BOOLEAN
  /\ lease \in [at : {"free", "live", "ending"}, of : Holder \cup {Nobody}]
  /\ owed \subseteq [of : Holder, at : {"queued", "listed"}] /\ armed \in Row \cup {Nobody}
  /\ op \in [kind : {"none", "boot", "adopt", "stop", "ack", "start"},
             at : {"free", "intent", "unacknowledged", "owners", "entered", "open",
                   "committed", "written", "stopping", "starting", "traced", "launched"},
             for : Holder \cup {Nobody}, fresh : BOOLEAN]
  /\ faults \in 0..MaxFaults /\ runs \in 0..MaxRuns
  /\ lost \subseteq Holder /\ doubt \in BOOLEAN

\* A run that serves an owner, and a launch nobody has acknowledged, belong to
\* a lease that lives or is ending, to a cleanup that has still to run, or to
\* one that was reported degraded (or the daemon is recovering, or holds a
\* fault): the call that writes an owner commits under the lease, the lease
\* may end before it writes, and only the worker behind the operation lock
\* takes that owner away (adopt_run, begin_release_owner, recover_after_restart).
OwnerIsBacked ==
  run.owner # Nobody /\ (run.state = "RUNNING" \/ Unacknowledged(run))
    => Backed(run.owner) \/ armed # Nobody \/ op.kind = "boot"

\* An adoption by a stranger stands only if no input reached the run from the
\* moment it was last found abandoned to the moment its owner was confirmed;
\* otherwise the owner is taken back or the revert is pending
\* (_revalidate_abandoned, _close_adoption_after_replace, record_input_sample).
NoAdoptionOverInput ==
  [][At("adopt", "written") /\ op'.at = "free" /\ run'.owner = op.for => ~doubt \/ revert']_vars

\* While an owner is written but not confirmed, or its revert is pending, the
\* game takes commands from nobody but the launcher: the fence of the idle run
\* is lifted after the confirmation, and the enqueue looks at the pending view.
\* One failed write, crash or cleanup does not undo it; two may, because a
\* revert that is retried leaves the run idle without its fence.
UnconfirmedServesNothing ==
  faults <= 1 /\ (revert \/ (At("adopt", "written") /\ token # "none"))
    => \A s \in Session : Accepts(s) => Launcher(s)

\* A game that lives while its row is still STARTING is named by the intent, so
\* that a restart can find it, whatever write failed in between, or a recovery
\* fault keeps the box from new leases: a restart that could not match the game
\* and was cut short by another
\* (_write_launch_intent, _settle_launch_intent, recover_launch_intent).
LaunchIsTraced ==
  stray /\ run.state = "STARTING" /\ op.kind # "boot" => intent \/ armed # Nobody

\* A lease that is ending ends, or a fault or a degraded cleanup says why not:
\* a call never waits for the coordinator with the operation lock, and a
\* cleanup worker waits for nothing but that lock.
HandoffEnds == (lease.at = "ending") ~> (lease.at # "ending" \/ armed # Nobody \/ lost # {})

\* plans/2026-07-22-bug046-h9-native-launcher-plan.md:141 keeps the next lease
\* from being granted until the cleanup of an unacknowledged launch is terminal.
NoHandoffOverLaunch ==
  [][lease.at = "free" /\ lease'.at = "live" => ~(Unacknowledged(run) /\ run.owner \in Holder)]_vars
=============================================================================
