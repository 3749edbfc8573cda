---------------------------- MODULE IdleWardenProofs ----------------------------
(***************************************************************************)
(* What IdleWarden keeps for every shape of run and every bound: its types, *)
(* and the three promises about an effect.  Each promise rests on a small   *)
(* invariant about what the thread knows where it is:                       *)
(*   Commanding  the lease and the run are the warden's during a call,      *)
(*   Noticed     a reaction that was to be seen still differs from the mark *)
(*               or from the anchor the next check compares with,           *)
(*   Warned      the countdown ran, or the census listed no client when the *)
(*               run was chosen.                                            *)
(***************************************************************************)
EXTENDS IdleWarden, TLAPS

\* Every step keeps the Boolean variables Boolean, and one of ticket and token.
LEMMA SwitchStep == Switches /\ [Next]_vars => Switches'
<1> SUFFICES ASSUME Switches, [Next]_vars PROVE Switches'
    OBVIOUS
<1>1. Switches
    OBVIOUS
<1>2. CASE Leave
    BY <1>1, <1>2 DEF Switches, Leave, Exits, Cancel, Release, Clocks, Forget, file,
      world, clocks
<1>3. CASE CycleOff
    BY <1>1, <1>3 DEF Switches, CycleOff, Stays, file, world, clocks, held, marks, flags,
      ghosts
<1>4. CASE CycleRelease
    BY <1>1, <1>4 DEF Switches, CycleRelease, Release, Clocks, file, world, marks, ghosts
<1>5. CASE CycleBegins
  <2>1. /\ ~token /\ cleanup' = FALSE /\ told' = FALSE
        /\ \/ UNCHANGED <<ticket, dead, seen>>
           \/ ticket' = "queued" /\ dead' = ClientDead /\ seen' = ("client" \in listed)
        /\ UNCHANGED <<on, scan, quiet, blocked, token, closing, doubt>>
    BY <1>5 DEF CycleBegins, file, world, clocks, flags
  <2>2. CASE UNCHANGED <<ticket, dead, seen>>
    BY <1>1, <2>1, <2>2, Zenon DEF Switches
  <2>3. CASE ticket' = "queued" /\ dead' = ClientDead /\ seen' = ("client" \in listed)
    <3>0. ClientDead \in BOOLEAN /\ ("client" \in listed) \in BOOLEAN
      BY DEF ClientDead
    <3>1. dead' \in BOOLEAN /\ seen' \in BOOLEAN
      BY <2>3, <3>0, Zenon
    <3>2. ticket' \in {"none", "queued", "expired"} /\ ~token'
      BY <2>1, <2>3, Zenon
    <3>3. QED
      BY <1>1, <2>1, <3>1, <3>2, Zenon DEF Switches
  <2>4. QED
    BY <2>1, <2>2, <2>3
<1>6. CASE CycleCancels
    BY <1>1, <1>6 DEF Switches, CycleCancels, Cancel, file, world, clocks, marks, flags,
      ghosts
<1>7. CASE Wait
  <2>1. /\ ticket' = "none" \/ (ticket' = ticket /\ token' = token)
        /\ token' = TRUE \/ token' = token
    BY <1>7 DEF Wait, Cancel
  <2>2. UNCHANGED <<on, scan, quiet, blocked, cleanup, dead, closing, told, seen,
                    doubt>>
    BY <1>7 DEF Wait, file, world, clocks, marks, flags, ghosts
  <2>3. /\ ticket' \in {"none", "queued", "expired"} /\ token' \in BOOLEAN
        /\ token' => ticket' = "none"
    <3>1. CASE ticket' = "none"
      BY <1>1, <2>1, <3>1, Zenon DEF Switches
    <3>2. CASE ticket' = ticket /\ token' = token
      BY <1>1, <3>2 DEF Switches
    <3>3. QED
      BY <2>1, <3>1, <3>2
  <2>4. QED
    BY <1>1, <2>2, <2>3, Zenon DEF Switches
<1>8. CASE Recheck
    BY <1>1, <1>8 DEF Switches, Recheck, Stays, file, world, clocks, held, marks, flags,
      ghosts
<1>9. CASE Adopt
  <2>1. doubt' = FALSE \/ doubt' = doubt
    BY <1>9 DEF Adopt
  <2>2. UNCHANGED <<on, scan, quiet, blocked, ticket, token, cleanup, dead,
                    closing, told, seen>>
    BY <1>9 DEF Adopt, file, world, clocks, held, marks, flags
  <2>3. doubt' \in BOOLEAN
    BY <1>1, <2>1, Zenon DEF Switches
  <2>4. QED
    BY <1>1, <2>2, <2>3, Zenon DEF Switches
<1>10. CASE Mark
    BY <1>1, <1>10 DEF Switches, Mark, file, world, clocks, held, flags, ghosts
<1>11. CASE Check
    BY <1>1, <1>11 DEF Switches, Check, file, world, clocks, held, marks, ghosts
<1>12. CASE Warn
    BY <1>1, <1>12 DEF Switches, Warn, Stays, file, world, clocks, held, marks, flags,
      ghosts
<1>13. CASE Count
  <2>1. told' = TRUE \/ told' = told
    BY <1>13 DEF Count
  <2>2. UNCHANGED <<on, scan, quiet, blocked, ticket, token, cleanup, dead,
                    closing, seen, doubt>>
    BY <1>13 DEF Count, file, world, clocks, held, marks, flags
  <2>3. told' \in BOOLEAN
    BY <1>1, <2>1, Zenon DEF Switches
  <2>4. QED
    BY <1>1, <2>2, <2>3, Zenon DEF Switches
<1>14. CASE Close
    BY <1>1, <1>14 DEF Switches, Close, Stays, file, world, clocks, held, marks, flags,
      ghosts
<1>15. CASE Gate
    BY <1>1, <1>15 DEF Switches, Gate, Stays, file, world, clocks, held, marks, flags,
      ghosts
<1>16. CASE Arm
    BY <1>1, <1>16 DEF Switches, Arm, file, world, clocks, held, marks, ghosts
<1>17. CASE Last
    BY <1>1, <1>17 DEF Switches, Last, Stays, file, world, clocks, held, marks, flags,
      ghosts
<1>18. CASE Guard
    BY <1>1, <1>18 DEF Switches, Guard, file, world, clocks, held, flags, ghosts
<1>19. CASE Enter
    BY <1>1, <1>19 DEF Switches, Enter, Stays, file, world, clocks, held, marks, flags,
      ghosts
<1>20. CASE List
    BY <1>1, <1>20 DEF Switches, List, file, world, clocks, held, marks, flags, ghosts
<1>21. CASE Reread
    BY <1>1, <1>21 DEF Switches, Reread, Stays, file, world, clocks, held, marks, flags,
      ghosts
<1>22. CASE Posted
    BY <1>1, <1>22 DEF Switches, Posted, file, world, clocks, held, marks, ghosts
<1>23. CASE Await
    BY <1>1, <1>23 DEF Switches, Await, file, world, clocks, held, marks, ghosts
<1>24. CASE Stop
    BY <1>1, <1>24 DEF Switches, Stop, Stays, file, world, clocks, held, marks, flags,
      ghosts
<1>25. CASE EnterStop
    BY <1>1, <1>25 DEF Switches, EnterStop, file, world, clocks, held, marks, flags,
      ghosts
<1>26. CASE Killed
    BY <1>1, <1>26 DEF Switches, Killed, file, world, clocks, held, marks, ghosts
<1>27. CASE Flip
    BY <1>1, <1>27 DEF Switches, Flip, world, clocks, held, marks, flags, ghosts
<1>28. CASE Input
    BY <1>1, <1>28 DEF Switches, Input, file, world, held, marks, flags
<1>29. CASE LauncherWaits
    BY <1>1, <1>29 DEF Switches, LauncherWaits, file, world, held, marks, flags, ghosts
<1>30. CASE LauncherLeaves
    BY <1>1, <1>30 DEF Switches, LauncherLeaves, file, world, clocks, held, marks, flags,
      ghosts
<1>31. CASE Cut
    BY <1>1, <1>31 DEF Switches, Cut, file, world, marks, flags, ghosts
<1>32. CASE Retry
    BY <1>1, <1>32 DEF Switches, Retry, file, world, held, marks, flags, ghosts
<1>33. CASE ScanFails
    BY <1>1, <1>33 DEF Switches, ScanFails, Rest, file, clocks, held, marks, flags, ghosts
<1>34. CASE ScanWorks
    BY <1>1, <1>34 DEF Switches, ScanWorks, Rest, file, clocks, held, marks, flags, ghosts
<1>35. CASE OthersGrant
    BY <1>1, <1>35 DEF Switches, OthersGrant, Rest, file, world, clocks, held, marks,
      flags, ghosts
<1>36. CASE OthersAdopt
    BY <1>1, <1>36 DEF Switches, OthersAdopt, Rest, file, world, clocks, held, marks,
      flags, ghosts
<1>37. CASE OthersExtend
    BY <1>1, <1>37 DEF Switches, OthersExtend, file, clocks, held, marks, flags, ghosts
<1>38. CASE OthersStop
    BY <1>1, <1>38 DEF Switches, OthersStop, Rest, file, world, clocks, held, marks,
      ghosts
<1>39. CASE OthersRelease
    BY <1>1, <1>39 DEF Switches, OthersRelease, file, world, held, marks, flags, ghosts
<1>40. CASE Expires
    BY <1>1, <1>40 DEF Switches, Expires, file, world, held, marks, flags, ghosts
<1>41. CASE CleanupEnds
    BY <1>1, <1>41 DEF Switches, CleanupEnds, file, world, held, marks, flags, ghosts
<1>42. CASE Reaper
    BY <1>1, <1>42 DEF Switches, Reaper, Rest, file, world, clocks, held, marks, ghosts
<1>43. ASSUME NEW r \in Roles, Post(r) PROVE Switches'
    BY <1>1, <1>43 DEF Switches, Post, Barred, Refusal, file, world, clocks, held, marks,
      flags, ghosts
<1>44. ASSUME NEW r \in Roles, Kill(r) PROVE Switches'
    BY <1>1, <1>44 DEF Switches, Kill, Barred, Refusal, file, clocks, held, marks, flags,
      ghosts
<1>45. ASSUME NEW r \in Roles, ProcessChanges(r) PROVE Switches'
    BY <1>1, <1>45 DEF Switches, ProcessChanges, Rest, file, clocks, held, marks, flags,
      ghosts
<1>46. ASSUME NEW r \in Roles, ReadAgain(r) PROVE Switches'
    BY <1>1, <1>46 DEF Switches, ReadAgain, Rest, file, clocks, held, marks, flags, ghosts
<1>47. ASSUME NEW r \in Roles, CensusDrops(r) PROVE Switches'
    BY <1>1, <1>47 DEF Switches, CensusDrops, Rest, file, clocks, held, marks, flags,
      ghosts
<1>48. ASSUME NEW r \in Roles, CensusFinds(r) PROVE Switches'
    BY <1>1, <1>48 DEF Switches, CensusFinds, Rest, file, clocks, held, marks, flags,
      ghosts
<1>49. CASE UNCHANGED vars
    BY <1>1, <1>49 DEF Switches, vars, file, world, clocks, held, marks, flags, ghosts
<1>50. QED
    BY <1>2, <1>3, <1>4, <1>5, <1>6, <1>7, <1>8, <1>9, <1>10, <1>11, <1>12, <1>13, <1>14,
      <1>15, <1>16, <1>17, <1>18, <1>19, <1>20, <1>21, <1>22, <1>23, <1>24, <1>25, <1>26,
      <1>27, <1>28, <1>29, <1>30, <1>31, <1>32, <1>33, <1>34, <1>35, <1>36, <1>37, <1>38,
      <1>39, <1>40, <1>41, <1>42, <1>43, <1>44, <1>45, <1>46, <1>47, <1>48, <1>49 DEF Next,
      Thread

\* During close_run and stop_run the lease is pinned and the run is the warden's.
Commanding == InCall => lease = "warden" /\ run.owner = "warden"

\* Every step keeps the types of the others; a stop that gives up restores an owner.
LEMMA ValueStep == Values /\ Commanding /\ [Next]_vars => Values'
<1> SUFFICES ASSUME Values, Commanding, [Next]_vars PROVE Values'
    OBVIOUS
<1>1. Values /\ Commanding
    OBVIOUS
<1>2. CASE Leave
    BY <1>1, <1>2, BoundAssumption DEF Values, Roles, Kinds, AllRoles, Exits, Leave,
      Cancel, Release, Let, Idle, Confirmed, Restarts, Clocks, Disarms, Goto, Forget, Fault,
      Lost, file, world, clocks, reactions, held, marks, flags, effects, ghosts
<1>3. CASE CycleOff
    BY <1>1, <1>3, BoundAssumption DEF Values, Roles, Kinds, AllRoles, Exits, CycleOff,
      Only, Goto, Stays, file, world, reactions, marks, flags, effects
<1>4. CASE CycleRelease
    BY <1>1, <1>4, BoundAssumption DEF Values, Roles, Kinds, AllRoles, Exits,
      CycleRelease, Release, Let, Idle, Confirmed, Restarts, Clocks, Fault, Lost, file,
      world, clocks, reactions, held, marks, flags, effects, ghosts
<1>5. CASE CycleBegins
    BY <1>1, <1>5, BoundAssumption DEF Values, Roles, Kinds, AllRoles, Exits, CycleBegins,
      Only, Goto, ClientDead, file, world, reactions, flags, effects
<1>6. CASE CycleCancels
  <2>1. faults' \in 0..MaxFaults
    <3>1. faults' = faults \/ Fault
      BY <1>6, Zenon DEF CycleCancels, Cancel
    <3>2. QED
      BY <1>1, <3>1, BoundAssumption DEF Values, Fault
  <2>2. UNCHANGED <<flips, proc, listed, run, stamp, launcher, lease, pc, mark, anchor,
                    armed, left, acted, missed, asked, doubt>>
    BY <1>6 DEF CycleCancels, file, world, reactions, marks, flags, effects, ghosts
  <2>3. QED
    BY <1>1, <2>1, <2>2 DEF Values, Roles
<1>7. CASE Wait
    BY <1>1, <1>7, BoundAssumption DEF Values, Roles, Kinds, AllRoles, Exits, Wait, Goto,
      Fault, Cancel, file, world, reactions, marks, flags, effects
<1>8. CASE Recheck
    BY <1>1, <1>8, BoundAssumption DEF Values, Roles, Kinds, AllRoles, Exits, Recheck,
      Goto, Stays, file, world, reactions, marks, flags, effects
<1>9. CASE Adopt
    BY <1>1, <1>9, BoundAssumption DEF Values, Roles, Kinds, AllRoles, Exits, Adopt, Goto,
      Fault, file, world, reactions, marks, flags, effects
<1>10. CASE Mark
    BY <1>1, <1>10, BoundAssumption DEF Values, Roles, Kinds, AllRoles, Exits, Mark, Only,
      Goto, file, world, reactions, flags, effects
<1>11. CASE Check
    BY <1>1, <1>11, BoundAssumption DEF Values, Roles, Kinds, AllRoles, Exits, Check,
      Goto, file, world, reactions, marks, effects
<1>12. CASE Warn
    BY <1>1, <1>12, BoundAssumption DEF Values, Roles, Kinds, AllRoles, Exits, Warn, Goto,
      Stays, Fault, file, world, reactions, marks, flags, effects
<1>13. CASE Count
    BY <1>1, <1>13, BoundAssumption DEF Values, Roles, Kinds, AllRoles, Exits, Count,
      Goto, Fault, file, world, reactions, marks, flags, effects
<1>14. CASE Close
    BY <1>1, <1>14, BoundAssumption DEF Values, Roles, Kinds, AllRoles, Exits, Close,
      Goto, Stays, Fault, Reacted, file, world, reactions, marks, flags, effects
<1>15. CASE Gate
    BY <1>1, <1>15, BoundAssumption DEF Values, Roles, Kinds, AllRoles, Exits, Gate, Goto,
      Stays, file, world, reactions, marks, flags, effects
<1>16. CASE Arm
    BY <1>1, <1>16, BoundAssumption DEF Values, Roles, Kinds, AllRoles, Exits, Arm, Goto,
      file, world, reactions, marks, effects
<1>17. CASE Last
    BY <1>1, <1>17, BoundAssumption DEF Values, Roles, Kinds, AllRoles, Exits, Last, Goto,
      Stays, Reacted, file, world, reactions, marks, flags, effects
<1>18. CASE Guard
    BY <1>1, <1>18, BoundAssumption DEF Values, Roles, Kinds, AllRoles, Exits, Guard,
      Goto, file, world, reactions, flags
<1>19. CASE Enter
    BY <1>1, <1>19, BoundAssumption DEF Values, Roles, Kinds, AllRoles, Exits, Enter,
      Goto, Stays, Fault, Owned, file, world, reactions, marks, flags, effects
<1>20. CASE List
    BY <1>1, <1>20, BoundAssumption DEF Values, Roles, Kinds, AllRoles, Exits, List, Goto,
      file, world, reactions, marks, flags
<1>21. CASE Reread
    BY <1>1, <1>21, BoundAssumption DEF Values, Roles, Kinds, AllRoles, Exits, Reread,
      Only, Goto, Stays, file, world, reactions, marks, flags, effects
<1>22. CASE Posted
    BY <1>1, <1>22, BoundAssumption DEF Values, Roles, Kinds, AllRoles, Exits, Posted,
      Goto, file, world, reactions, marks, effects
<1>23. CASE Await
    BY <1>1, <1>23, BoundAssumption DEF Values, Roles, Kinds, AllRoles, Exits, Await,
      Goto, Fault, file, world, reactions, marks, effects
<1>24. CASE Stop
    BY <1>1, <1>24, BoundAssumption DEF Values, Roles, Kinds, AllRoles, Exits, Stop, Goto,
      Stays, file, world, reactions, marks, flags, effects
<1>25. CASE EnterStop
    BY <1>1, <1>25, BoundAssumption DEF Values, Roles, Kinds, AllRoles, Exits, EnterStop,
      Goto, Fault, Owned, Is, file, world, reactions, marks, flags
<1>26. CASE Killed
    BY <1>1, <1>26, BoundAssumption DEF Values, Roles, Kinds, AllRoles, Exits, Killed,
      Goto, Unreconciled, file, world, clocks, reactions, held, marks, flags, effects,
      ghosts
<1>27. CASE Flip
    BY <1>1, <1>27, BoundAssumption DEF Values, Roles, Kinds, AllRoles, Exits, Flip,
      world, reactions, marks, flags, effects
<1>28. CASE Input
    BY <1>1, <1>28, BoundAssumption DEF Values, Roles, Kinds, AllRoles, Exits, Input,
      Watching, file, world, marks, flags, effects
<1>29. CASE LauncherWaits
    BY <1>1, <1>29, BoundAssumption DEF Values, Roles, Kinds, AllRoles, Exits,
      LauncherWaits, file, world, marks, flags, effects
<1>30. CASE LauncherLeaves
    BY <1>1, <1>30, BoundAssumption DEF Values, Roles, Kinds, AllRoles, Exits,
      LauncherLeaves, file, world, marks, flags, effects
<1>31. CASE Cut
    BY <1>1, <1>31, BoundAssumption DEF Values, Roles, Kinds, AllRoles, Exits, Cut, file,
      world, reactions, marks, flags, effects
<1>32. CASE Retry
    BY <1>1, <1>32, BoundAssumption DEF Values, Roles, Kinds, AllRoles, Exits, Retry,
      file, world, reactions, marks, flags, effects
<1>33. CASE ScanFails
    BY <1>1, <1>33, BoundAssumption DEF Values, Roles, Kinds, AllRoles, Exits, ScanFails,
      Rest, Fault, file, reactions, marks, flags, effects
<1>34. CASE ScanWorks
    BY <1>1, <1>34, BoundAssumption DEF Values, Roles, Kinds, AllRoles, Exits, ScanWorks,
      Rest, file, reactions, marks, flags, effects
<1>35. CASE OthersGrant
    BY <1>1, <1>35, BoundAssumption DEF Values, Roles, Kinds, AllRoles, Exits,
      OthersGrant, Rest, file, world, reactions, marks, flags, effects
<1>36. CASE OthersAdopt
    BY <1>1, <1>36, BoundAssumption DEF Values, Roles, Kinds, AllRoles, Exits,
      OthersAdopt, Rest, file, world, reactions, marks, flags, effects
<1>37. CASE OthersExtend
  <2>1. Roles' = Roles \cup {"client"} /\ proc' \in [Roles' -> Kinds]
    BY <1>1, <1>37 DEF Values, OthersExtend, Roles, Kinds
  <2>2. /\ listed' \subseteq Roles' /\ asked' \subseteq Roles'
        /\ left' \subseteq Roles' /\ acted' \subseteq Roles' /\ missed' \subseteq Roles'
    BY <1>1, <1>37, <2>1 DEF Values, OthersExtend
  <2>3. UNCHANGED <<run, stamp, mark, anchor, launcher, lease, pc, armed, flips, faults>>
    BY <1>37 DEF OthersExtend, file, reactions, marks, flags
  <2>4. Roles' \in (SUBSET AllRoles) \ {{}}
    BY <1>1, <2>1 DEF Values, AllRoles
  <2>5. QED
    BY <1>1, <2>1, <2>2, <2>3, <2>4 DEF Values
<1>38. CASE OthersStop
    BY <1>1, <1>38, BoundAssumption DEF Values, Roles, Kinds, AllRoles, Exits, OthersStop,
      Rest, file, world, reactions, marks, effects
<1>39. CASE OthersRelease
    BY <1>1, <1>39, BoundAssumption DEF Values, Roles, Kinds, AllRoles, Exits,
      OthersRelease, Let, Idle, file, world, clocks, reactions, held, marks, flags, effects,
      ghosts
<1>40. CASE Expires
    BY <1>1, <1>40, BoundAssumption DEF Values, Roles, Kinds, AllRoles, Exits, Expires,
      Let, Idle, Fault, file, world, clocks, reactions, held, marks, flags, effects, ghosts
<1>41. CASE CleanupEnds
    BY <1>1, <1>41, BoundAssumption DEF Values, Roles, Kinds, AllRoles, Exits,
      CleanupEnds, Let, Idle, file, world, clocks, reactions, held, marks, flags, effects,
      ghosts
<1>42. CASE Reaper
    BY <1>1, <1>42, BoundAssumption DEF Values, Roles, Kinds, AllRoles, Exits, Reaper,
      Rest, file, world, reactions, marks, effects
<1>43. ASSUME NEW r \in Roles, Post(r) PROVE Values'
    BY <1>1, <1>43, BoundAssumption DEF Values, Roles, Kinds, AllRoles, Exits, Post, Turn,
      Barred, Target, Act, Skip, Spare, GiveUp, Goto, Refusal, Fault, AnchorsChanged, file,
      world, reactions, marks, flags
<1>44. ASSUME NEW r \in Roles, Kill(r) PROVE Values'
  <2>1. proc \in [Roles -> Kinds]
    BY <1>1 DEF Values
  <2>2. /\ proc' \in [Roles' -> Kinds] /\ Roles' = Roles
        /\ listed' = listed
    <3>1. CASE proc' = proc
      BY <1>44, <2>1, <3>1 DEF Roles, Kill
    <3>2. CASE proc' = [proc EXCEPT ![r] = "gone"]
      BY <1>44, <2>1, <3>2 DEF Roles, Kinds, Kill
    <3>3. QED
      BY <1>44, <3>1, <3>2 DEF Kill
  <2>3. /\ left' \subseteq Roles /\ acted' \subseteq Roles /\ missed' \subseteq Roles
        /\ pc' \in {pc} \cup Exits \cup {"reread"}
        /\ faults' \in 0..MaxFaults
        /\ run' \in {run, Unreconciled, Restored}
    BY <1>1, <1>44, BoundAssumption
    DEF Values, Kill, Turn, Act, Skip, Spare, GiveUp, Goto, Refusal, Fault, Roles, Exits
  <2>4. run' \in [state : {"running", "stopping"}, owner : {"warden", "other"}]
                \cup [state : {"idle", "unreconciled", "exited"}, owner : {"none"}]
    BY <1>1, <2>3, <1>44 DEF Values, Unreconciled, Restored, Commanding, InCall, Kill
  <2>5. QED
    BY <1>1, <2>2, <2>3, <2>4, <1>44
    DEF Values, Kill, Exits, file, reactions, marks, flags, held, ghosts
<1>45. ASSUME NEW r \in Roles, ProcessChanges(r) PROVE Values'
    BY <1>1, <1>45, BoundAssumption DEF Values, Roles, Kinds, AllRoles, Exits,
      ProcessChanges, Rest, Fault, file, reactions, marks, flags, effects
<1>46. ASSUME NEW r \in Roles, ReadAgain(r) PROVE Values'
    BY <1>1, <1>46, BoundAssumption DEF Values, Roles, Kinds, AllRoles, Exits, ReadAgain,
      Rest, file, reactions, marks, flags, effects
<1>47. ASSUME NEW r \in Roles, CensusDrops(r) PROVE Values'
    BY <1>1, <1>47, BoundAssumption DEF Values, Roles, Kinds, AllRoles, Exits,
      CensusDrops, Rest, Fault, Gone, file, reactions, marks, flags, effects
<1>48. ASSUME NEW r \in Roles, CensusFinds(r) PROVE Values'
    BY <1>1, <1>48, BoundAssumption DEF Values, Roles, Kinds, AllRoles, Exits,
      CensusFinds, Rest, Gone, file, reactions, marks, flags, effects
<1>49. CASE UNCHANGED vars
    BY <1>1, <1>49 DEF Values, Roles, Kinds, AllRoles, Exits, vars, file, world,
      reactions, marks, flags, effects
<1>50. QED
    BY <1>2, <1>3, <1>4, <1>5, <1>6, <1>7, <1>8, <1>9, <1>10, <1>11, <1>12, <1>13, <1>14,
      <1>15, <1>16, <1>17, <1>18, <1>19, <1>20, <1>21, <1>22, <1>23, <1>24, <1>25, <1>26,
      <1>27, <1>28, <1>29, <1>30, <1>31, <1>32, <1>33, <1>34, <1>35, <1>36, <1>37, <1>38,
      <1>39, <1>40, <1>41, <1>42, <1>43, <1>44, <1>45, <1>46, <1>47, <1>48, <1>49 DEF Next,
      Thread

\* Nobody takes lease or run away while _operation_lock is held.
LEMMA CommandingStep == Values /\ Commanding /\ [Next]_vars => Commanding'
<1> SUFFICES ASSUME Values, Commanding, [Next]_vars PROVE Commanding'
    OBVIOUS
<1>1. Values /\ Commanding
    OBVIOUS
<1>2. CASE Leave
    BY <1>1, <1>2 DEF Values, Commanding, InCall, Exits, Leave, Release, Confirmed,
      Restarts, Clocks, Goto, Lost
<1>3. CASE CycleOff
    BY <1>1, <1>3 DEF Values, Commanding, InCall, Exits, CycleOff, Only, Goto, Stays
<1>4. CASE CycleRelease
    BY <1>1, <1>4 DEF Values, Commanding, InCall, Exits, CycleRelease, Release, Confirmed,
      Restarts, Clocks, Lost
<1>5. CASE CycleBegins
    BY <1>1, <1>5 DEF Values, Commanding, InCall, Exits, CycleBegins, Only, Goto
<1>6. CASE CycleCancels
    BY <1>1, <1>6 DEF Values, Commanding, InCall, Exits, CycleCancels
<1>7. CASE Wait
    BY <1>1, <1>7 DEF Values, Commanding, InCall, Exits, Wait, Goto
<1>8. CASE Recheck
    BY <1>1, <1>8 DEF Values, Commanding, InCall, Exits, Recheck, Goto, Stays
<1>9. CASE Adopt
    BY <1>1, <1>9 DEF Values, Commanding, InCall, Exits, Adopt, Goto
<1>10. CASE Mark
    BY <1>1, <1>10 DEF Values, Commanding, InCall, Exits, Mark, Only, Goto
<1>11. CASE Check
    BY <1>1, <1>11 DEF Values, Commanding, InCall, Exits, Check, Goto
<1>12. CASE Warn
    BY <1>1, <1>12 DEF Values, Commanding, InCall, Exits, Warn, Goto, Stays
<1>13. CASE Count
    BY <1>1, <1>13 DEF Values, Commanding, InCall, Exits, Count, Goto
<1>14. CASE Close
    BY <1>1, <1>14 DEF Values, Commanding, InCall, Exits, Close, Goto, Stays
<1>15. CASE Gate
    BY <1>1, <1>15 DEF Values, Commanding, InCall, Exits, Gate, Goto, Stays
<1>16. CASE Arm
    BY <1>1, <1>16 DEF Values, Commanding, InCall, Exits, Arm, Goto
<1>17. CASE Last
    BY <1>1, <1>17 DEF Values, Commanding, InCall, Exits, Last, Goto, Stays
<1>18. CASE Guard
    BY <1>1, <1>18 DEF Values, Commanding, InCall, Exits, Guard, Goto
<1>19. CASE Enter
    BY <1>1, <1>19 DEF Values, Commanding, InCall, Exits, Enter, Goto, Stays, Owned
<1>20. CASE List
    BY <1>1, <1>20 DEF Values, Commanding, InCall, Exits, List, Goto
<1>21. CASE Reread
    BY <1>1, <1>21 DEF Values, Commanding, InCall, Exits, Reread, Only, Goto, Stays
<1>22. CASE Posted
    BY <1>1, <1>22 DEF Values, Commanding, InCall, Exits, Posted, Goto
<1>23. CASE Await
    BY <1>1, <1>23 DEF Values, Commanding, InCall, Exits, Await, Goto
<1>24. CASE Stop
    BY <1>1, <1>24 DEF Values, Commanding, InCall, Exits, Stop, Goto, Stays
<1>25. CASE EnterStop
    BY <1>1, <1>25 DEF Values, Commanding, InCall, Exits, EnterStop, Goto, Owned
<1>26. CASE Killed
    BY <1>1, <1>26 DEF Values, Commanding, InCall, Exits, Killed, Goto
<1>27. CASE Flip
    BY <1>1, <1>27 DEF Values, Commanding, InCall, Exits, Flip
<1>28. CASE Input
    BY <1>1, <1>28 DEF Values, Commanding, InCall, Exits, Input, Watching
<1>29. CASE LauncherWaits
    BY <1>1, <1>29 DEF Values, Commanding, InCall, Exits, LauncherWaits
<1>30. CASE LauncherLeaves
    BY <1>1, <1>30 DEF Values, Commanding, InCall, Exits, LauncherLeaves
<1>31. CASE Cut
    BY <1>1, <1>31 DEF Values, Commanding, InCall, Exits, Cut
<1>32. CASE Retry
    BY <1>1, <1>32 DEF Values, Commanding, InCall, Exits, Retry
<1>33. CASE ScanFails
    BY <1>1, <1>33 DEF Values, Commanding, InCall, Exits, ScanFails, Rest
<1>34. CASE ScanWorks
    BY <1>1, <1>34 DEF Values, Commanding, InCall, Exits, ScanWorks, Rest
<1>35. CASE OthersGrant
    BY <1>1, <1>35 DEF Values, Commanding, InCall, Exits, OthersGrant, Rest
<1>36. CASE OthersAdopt
    BY <1>1, <1>36 DEF Values, Commanding, InCall, Exits, OthersAdopt, Rest
<1>37. CASE OthersExtend
    BY <1>1, <1>37 DEF Values, Commanding, InCall, Exits, OthersExtend
<1>38. CASE OthersStop
    BY <1>1, <1>38 DEF Values, Commanding, InCall, Exits, OthersStop, Rest
<1>39. CASE OthersRelease
    BY <1>1, <1>39 DEF Values, Commanding, InCall, Exits, OthersRelease
<1>40. CASE Expires
    BY <1>1, <1>40 DEF Values, Commanding, InCall, Exits, Expires
<1>41. CASE CleanupEnds
    BY <1>1, <1>41 DEF Values, Commanding, InCall, Exits, CleanupEnds
<1>42. CASE Reaper
    BY <1>1, <1>42 DEF Values, Commanding, InCall, Exits, Reaper, Rest
<1>43. ASSUME NEW r \in Roles, Post(r) PROVE Commanding'
    BY <1>1, <1>43 DEF Values, Commanding, InCall, Exits, Post, Barred, Act, Skip, Spare,
      GiveUp, Goto
<1>44. ASSUME NEW r \in Roles, Kill(r) PROVE Commanding'
    BY <1>1, <1>44 DEF Values, Commanding, InCall, Exits, Kill, Barred, Act, Skip, Spare,
      GiveUp, Goto, Restored
<1>45. ASSUME NEW r \in Roles, ProcessChanges(r) PROVE Commanding'
    BY <1>1, <1>45 DEF Values, Commanding, InCall, Exits, ProcessChanges, Rest
<1>46. ASSUME NEW r \in Roles, ReadAgain(r) PROVE Commanding'
    BY <1>1, <1>46 DEF Values, Commanding, InCall, Exits, ReadAgain, Rest
<1>47. ASSUME NEW r \in Roles, CensusDrops(r) PROVE Commanding'
    BY <1>1, <1>47 DEF Values, Commanding, InCall, Exits, CensusDrops, Rest
<1>48. ASSUME NEW r \in Roles, CensusFinds(r) PROVE Commanding'
    BY <1>1, <1>48 DEF Values, Commanding, InCall, Exits, CensusFinds, Rest
<1>49. CASE UNCHANGED vars
    BY <1>1, <1>49 DEF Values, Commanding, InCall, Exits, vars
<1>50. QED
    BY <1>2, <1>3, <1>4, <1>5, <1>6, <1>7, <1>8, <1>9, <1>10, <1>11, <1>12, <1>13, <1>14,
      <1>15, <1>16, <1>17, <1>18, <1>19, <1>20, <1>21, <1>22, <1>23, <1>24, <1>25, <1>26,
      <1>27, <1>28, <1>29, <1>30, <1>31, <1>32, <1>33, <1>34, <1>35, <1>36, <1>37, <1>38,
      <1>39, <1>40, <1>41, <1>42, <1>43, <1>44, <1>45, <1>46, <1>47, <1>48, <1>49 DEF Next,
      Thread

\* A reaction that a check was to see differs from what the next check compares
\* it with, and the warden looks at no mark again before that check.
Noticed ==
  /\ doubt => pc \notin {"mark", "guard"}
  /\ doubt /\ pc \in {"check", "warn", "count", "close", "gate", "arm", "last"}
       => stamp # mark
  /\ doubt /\ pc \in {"enter", "list", "post"} /\ acted = {} => stamp # anchor
  /\ pc \in {"enter", "list"} => acted = {}

\* Input moves the stamp past both marks, and a mark is taken anew only unseen.
LEMMA NoticedStep == Values /\ Noticed /\ [Next]_vars => Noticed'
<1> SUFFICES ASSUME Values, Noticed, [Next]_vars PROVE Noticed'
    OBVIOUS
<1>1. Values /\ Noticed
    OBVIOUS
<1>2. CASE Leave
    BY <1>1, <1>2 DEF Values, Noticed, Exits, Leave, Goto, Forget, reactions
<1>3. CASE CycleOff
    BY <1>1, <1>3 DEF Values, Noticed, Exits, CycleOff, Only, Goto, Stays, reactions,
      marks, effects, ghosts
<1>4. CASE CycleRelease
    BY <1>1, <1>4 DEF Values, Noticed, Exits, CycleRelease, reactions, marks, effects,
      ghosts
<1>5. CASE CycleBegins
    BY <1>1, <1>5 DEF Values, Noticed, Exits, CycleBegins, Only, Goto, reactions, effects
<1>6. CASE CycleCancels
    BY <1>1, <1>6 DEF Values, Noticed, Exits, CycleCancels, reactions, marks, effects,
      ghosts
<1>7. CASE Wait
    BY <1>1, <1>7 DEF Values, Noticed, Exits, Wait, Goto, reactions, marks, effects,
      ghosts
<1>8. CASE Recheck
    BY <1>1, <1>8 DEF Values, Noticed, Exits, Recheck, Goto, Stays, reactions, marks,
      effects, ghosts
<1>9. CASE Adopt
    BY <1>1, <1>9 DEF Values, Noticed, Exits, Adopt, Goto, reactions, marks, effects
<1>10. CASE Mark
    BY <1>1, <1>10 DEF Values, Noticed, Exits, Mark, Only, Goto, reactions, effects,
      ghosts
<1>11. CASE Check
    BY <1>1, <1>11 DEF Values, Noticed, Exits, Check, Goto, reactions, marks, effects,
      ghosts
<1>12. CASE Warn
    BY <1>1, <1>12 DEF Values, Noticed, Exits, Warn, Goto, Stays, reactions, marks,
      effects, ghosts
<1>13. CASE Count
    BY <1>1, <1>13 DEF Values, Noticed, Exits, Count, Goto, reactions, marks, effects
<1>14. CASE Close
    BY <1>1, <1>14 DEF Values, Noticed, Exits, Close, Goto, Stays, Reacted, reactions,
      marks, effects, ghosts
<1>15. CASE Gate
    BY <1>1, <1>15 DEF Values, Noticed, Exits, Gate, Goto, Stays, reactions, marks,
      effects, ghosts
<1>16. CASE Arm
    BY <1>1, <1>16 DEF Values, Noticed, Exits, Arm, Goto, reactions, marks, effects,
      ghosts
<1>17. CASE Last
    BY <1>1, <1>17 DEF Values, Noticed, Exits, Last, Goto, Stays, Reacted, reactions,
      marks, effects, ghosts
<1>18. CASE Guard
    BY <1>1, <1>18 DEF Values, Noticed, Exits, Guard, Goto, reactions, ghosts
<1>19. CASE Enter
    BY <1>1, <1>19 DEF Values, Noticed, Exits, Enter, Goto, Stays, reactions, marks,
      effects, ghosts
<1>20. CASE List
    BY <1>1, <1>20 DEF Values, Noticed, Exits, List, Goto, reactions, marks, ghosts
<1>21. CASE Reread
    BY <1>1, <1>21 DEF Values, Noticed, Exits, Reread, Only, Goto, Stays, reactions,
      marks, effects, ghosts
<1>22. CASE Posted
    BY <1>1, <1>22 DEF Values, Noticed, Exits, Posted, Goto, reactions, marks, effects,
      ghosts
<1>23. CASE Await
    BY <1>1, <1>23 DEF Values, Noticed, Exits, Await, Goto, reactions, marks, effects,
      ghosts
<1>24. CASE Stop
    BY <1>1, <1>24 DEF Values, Noticed, Exits, Stop, Goto, Stays, reactions, marks,
      effects, ghosts
<1>25. CASE EnterStop
    BY <1>1, <1>25 DEF Values, Noticed, Exits, EnterStop, Goto, reactions, marks, ghosts
<1>26. CASE Killed
    BY <1>1, <1>26 DEF Values, Noticed, Exits, Killed, Goto, reactions, marks, effects,
      ghosts
<1>27. CASE Flip
    BY <1>1, <1>27 DEF Values, Noticed, Exits, Flip, reactions, marks, effects, ghosts
<1>28. CASE Input
  <2>1. doubt' => doubt \/ Watching
    BY <1>28, Zenon DEF Input
  <2>2. stamp' = stamp + 1 /\ stamp \in Nat /\ mark \in 0..stamp /\ anchor \in 0..stamp
    BY <1>1, <1>28, BoundAssumption DEF Values, Input
  <2>3. UNCHANGED <<pc, mark, anchor, acted>>
    BY <1>28 DEF Input, marks, effects
  <2>4. stamp' # mark' /\ stamp' # anchor'
    BY <2>2, <2>3
  <2>5. CASE doubt
    BY <1>1, <2>3, <2>4, <2>5 DEF Noticed
  <2>6. CASE Watching
    BY <1>1, <2>3, <2>4, <2>6 DEF Noticed, Watching
  <2>7. CASE ~doubt'
    BY <1>1, <2>3, <2>7 DEF Noticed
  <2>8. QED
    BY <2>1, <2>5, <2>6, <2>7
<1>29. CASE LauncherWaits
    BY <1>1, <1>29 DEF Values, Noticed, Exits, LauncherWaits, marks, effects, ghosts
<1>30. CASE LauncherLeaves
    BY <1>1, <1>30 DEF Values, Noticed, Exits, LauncherLeaves, marks, effects, ghosts
<1>31. CASE Cut
    BY <1>1, <1>31 DEF Values, Noticed, Exits, Cut, reactions, marks, effects, ghosts
<1>32. CASE Retry
    BY <1>1, <1>32 DEF Values, Noticed, Exits, Retry, reactions, marks, effects, ghosts
<1>33. CASE ScanFails
    BY <1>1, <1>33 DEF Values, Noticed, Exits, ScanFails, Rest, reactions, marks, effects,
      ghosts
<1>34. CASE ScanWorks
    BY <1>1, <1>34 DEF Values, Noticed, Exits, ScanWorks, Rest, reactions, marks, effects,
      ghosts
<1>35. CASE OthersGrant
    BY <1>1, <1>35 DEF Values, Noticed, Exits, OthersGrant, Rest, reactions, marks,
      effects, ghosts
<1>36. CASE OthersAdopt
    BY <1>1, <1>36 DEF Values, Noticed, Exits, OthersAdopt, Rest, reactions, marks,
      effects, ghosts
<1>37. CASE OthersExtend
    BY <1>1, <1>37 DEF Values, Noticed, Exits, OthersExtend, reactions, marks, ghosts
<1>38. CASE OthersStop
    BY <1>1, <1>38 DEF Values, Noticed, Exits, OthersStop, Rest, reactions, marks,
      effects, ghosts
<1>39. CASE OthersRelease
    BY <1>1, <1>39 DEF Values, Noticed, Exits, OthersRelease, reactions, marks, effects,
      ghosts
<1>40. CASE Expires
    BY <1>1, <1>40 DEF Values, Noticed, Exits, Expires, reactions, marks, effects, ghosts
<1>41. CASE CleanupEnds
    BY <1>1, <1>41 DEF Values, Noticed, Exits, CleanupEnds, reactions, marks, effects,
      ghosts
<1>42. CASE Reaper
    BY <1>1, <1>42 DEF Values, Noticed, Exits, Reaper, Rest, reactions, marks, effects,
      ghosts
<1>43. ASSUME NEW r \in Roles, Post(r) PROVE Noticed'
    BY <1>1, <1>43 DEF Values, Noticed, Exits, Post, Barred, Act, Skip, Spare, GiveUp,
      Goto, Refusal, AnchorsChanged, reactions, marks, ghosts
<1>44. ASSUME NEW r \in Roles, Kill(r) PROVE Noticed'
    BY <1>1, <1>44 DEF Values, Noticed, Exits, Kill, Barred, Act, Skip, Spare, GiveUp,
      Goto, Refusal, reactions, marks, ghosts
<1>45. ASSUME NEW r \in Roles, ProcessChanges(r) PROVE Noticed'
    BY <1>1, <1>45 DEF Values, Noticed, Exits, ProcessChanges, Rest, reactions, marks,
      effects, ghosts
<1>46. ASSUME NEW r \in Roles, ReadAgain(r) PROVE Noticed'
    BY <1>1, <1>46 DEF Values, Noticed, Exits, ReadAgain, Rest, reactions, marks, effects,
      ghosts
<1>47. ASSUME NEW r \in Roles, CensusDrops(r) PROVE Noticed'
    BY <1>1, <1>47 DEF Values, Noticed, Exits, CensusDrops, Rest, reactions, marks,
      effects, ghosts
<1>48. ASSUME NEW r \in Roles, CensusFinds(r) PROVE Noticed'
    BY <1>1, <1>48 DEF Values, Noticed, Exits, CensusFinds, Rest, reactions, marks,
      effects, ghosts
<1>49. CASE UNCHANGED vars
    BY <1>1, <1>49 DEF Values, Noticed, Exits, vars, reactions, marks, effects, ghosts
<1>50. QED
    BY <1>2, <1>3, <1>4, <1>5, <1>6, <1>7, <1>8, <1>9, <1>10, <1>11, <1>12, <1>13, <1>14,
      <1>15, <1>16, <1>17, <1>18, <1>19, <1>20, <1>21, <1>22, <1>23, <1>24, <1>25, <1>26,
      <1>27, <1>28, <1>29, <1>30, <1>31, <1>32, <1>33, <1>34, <1>35, <1>36, <1>37, <1>38,
      <1>39, <1>40, <1>41, <1>42, <1>43, <1>44, <1>45, <1>46, <1>47, <1>48, <1>49 DEF Next,
      Thread

\* The countdown ran to its end, or the census listed no client when the run was
\* read as a candidate.
Warned == /\ seen => ~dead
          /\ pc \in {"close", "gate", "arm", "last", "guard", "enter", "list", "post"}
               => told \/ dead

\* dead stands as long as its ticket, and only it or the countdown leads to the close.
LEMMA WarnedStep == Values /\ Warned /\ [Next]_vars => Warned'
<1> SUFFICES ASSUME Values, Warned, [Next]_vars PROVE Warned'
    OBVIOUS
<1>1. Values /\ Warned
    OBVIOUS
<1>2. CASE Leave
    BY <1>1, <1>2 DEF Values, Warned, Exits, Leave, Cancel, Goto, Forget
<1>3. CASE CycleOff
    BY <1>1, <1>3 DEF Values, Warned, Exits, CycleOff, Only, Goto, Stays, held, marks,
      ghosts
<1>4. CASE CycleRelease
    BY <1>1, <1>4 DEF Values, Warned, Exits, CycleRelease, marks, ghosts
<1>5. CASE CycleBegins
  <2>1. /\ pc' = "queued"
        /\ \/ UNCHANGED <<dead, seen>>
           \/ dead' = ClientDead /\ seen' = ("client" \in listed)
    BY <1>5 DEF CycleBegins, Only, Goto
  <2>2. seen' => ~dead'
    <3>1. CASE UNCHANGED <<dead, seen>>
      BY <1>1, <3>1, Zenon DEF Warned
    <3>2. CASE dead' = ClientDead /\ seen' = ("client" \in listed)
      BY <3>2, Zenon DEF ClientDead
    <3>3. QED
      BY <2>1, <3>1, <3>2
  <2>3. QED
    BY <2>1, <2>2 DEF Warned
<1>6. CASE CycleCancels
    BY <1>1, <1>6 DEF Values, Warned, Exits, CycleCancels, Cancel, marks, ghosts
<1>7. CASE Wait
    BY <1>1, <1>7 DEF Values, Warned, Exits, Wait, Goto, Cancel, marks, ghosts
<1>8. CASE Recheck
    BY <1>1, <1>8 DEF Values, Warned, Exits, Recheck, Goto, Stays, held, marks, ghosts
<1>9. CASE Adopt
    BY <1>1, <1>9 DEF Values, Warned, Exits, Adopt, Goto, held, marks
<1>10. CASE Mark
    BY <1>1, <1>10 DEF Values, Warned, Exits, Mark, Only, Goto, held, ghosts
<1>11. CASE Check
    BY <1>1, <1>11 DEF Values, Warned, Exits, Check, Goto, held, marks, ghosts
<1>12. CASE Warn
    BY <1>1, <1>12 DEF Values, Warned, Exits, Warn, Goto, Stays, held, marks, ghosts
<1>13. CASE Count
    BY <1>1, <1>13 DEF Values, Warned, Exits, Count, Goto, held, marks
<1>14. CASE Close
    BY <1>1, <1>14 DEF Values, Warned, Exits, Close, Goto, Stays, held, marks, ghosts
<1>15. CASE Gate
    BY <1>1, <1>15 DEF Values, Warned, Exits, Gate, Goto, Stays, held, marks, ghosts
<1>16. CASE Arm
    BY <1>1, <1>16 DEF Values, Warned, Exits, Arm, Goto, held, marks, ghosts
<1>17. CASE Last
    BY <1>1, <1>17 DEF Values, Warned, Exits, Last, Goto, Stays, held, marks, ghosts
<1>18. CASE Guard
    BY <1>1, <1>18 DEF Values, Warned, Exits, Guard, Goto, held, ghosts
<1>19. CASE Enter
    BY <1>1, <1>19 DEF Values, Warned, Exits, Enter, Goto, Stays, held, marks, ghosts
<1>20. CASE List
    BY <1>1, <1>20 DEF Values, Warned, Exits, List, Goto, held, marks, ghosts
<1>21. CASE Reread
    BY <1>1, <1>21 DEF Values, Warned, Exits, Reread, Only, Goto, Stays, held, marks,
      ghosts
<1>22. CASE Posted
    BY <1>1, <1>22 DEF Values, Warned, Exits, Posted, Goto, held, marks, ghosts
<1>23. CASE Await
    BY <1>1, <1>23 DEF Values, Warned, Exits, Await, Goto, held, marks, ghosts
<1>24. CASE Stop
    BY <1>1, <1>24 DEF Values, Warned, Exits, Stop, Goto, Stays, held, marks, ghosts
<1>25. CASE EnterStop
    BY <1>1, <1>25 DEF Values, Warned, Exits, EnterStop, Goto, held, marks, ghosts
<1>26. CASE Killed
    BY <1>1, <1>26 DEF Values, Warned, Exits, Killed, Goto, held, marks, ghosts
<1>27. CASE Flip
    BY <1>1, <1>27 DEF Values, Warned, Exits, Flip, held, marks, ghosts
<1>28. CASE Input
    BY <1>1, <1>28 DEF Values, Warned, Exits, Input, Watching, held, marks
<1>29. CASE LauncherWaits
    BY <1>1, <1>29 DEF Values, Warned, Exits, LauncherWaits, held, marks, ghosts
<1>30. CASE LauncherLeaves
    BY <1>1, <1>30 DEF Values, Warned, Exits, LauncherLeaves, held, marks, ghosts
<1>31. CASE Cut
    BY <1>1, <1>31 DEF Values, Warned, Exits, Cut, marks, ghosts
<1>32. CASE Retry
    BY <1>1, <1>32 DEF Values, Warned, Exits, Retry, held, marks, ghosts
<1>33. CASE ScanFails
    BY <1>1, <1>33 DEF Values, Warned, Exits, ScanFails, Rest, held, marks, ghosts
<1>34. CASE ScanWorks
    BY <1>1, <1>34 DEF Values, Warned, Exits, ScanWorks, Rest, held, marks, ghosts
<1>35. CASE OthersGrant
    BY <1>1, <1>35 DEF Values, Warned, Exits, OthersGrant, Rest, held, marks, ghosts
<1>36. CASE OthersAdopt
    BY <1>1, <1>36 DEF Values, Warned, Exits, OthersAdopt, Rest, held, marks, ghosts
<1>37. CASE OthersExtend
    BY <1>1, <1>37 DEF Values, Warned, Exits, OthersExtend, held, marks, ghosts
<1>38. CASE OthersStop
    BY <1>1, <1>38 DEF Values, Warned, Exits, OthersStop, Rest, held, marks, ghosts
<1>39. CASE OthersRelease
    BY <1>1, <1>39 DEF Values, Warned, Exits, OthersRelease, held, marks, ghosts
<1>40. CASE Expires
    BY <1>1, <1>40 DEF Values, Warned, Exits, Expires, held, marks, ghosts
<1>41. CASE CleanupEnds
    BY <1>1, <1>41 DEF Values, Warned, Exits, CleanupEnds, held, marks, ghosts
<1>42. CASE Reaper
    BY <1>1, <1>42 DEF Values, Warned, Exits, Reaper, Rest, held, marks, ghosts
<1>43. ASSUME NEW r \in Roles, Post(r) PROVE Warned'
    BY <1>1, <1>43 DEF Values, Warned, Exits, Post, Barred, Act, Skip, Spare, GiveUp,
      Goto, held, marks, ghosts
<1>44. ASSUME NEW r \in Roles, Kill(r) PROVE Warned'
    BY <1>1, <1>44 DEF Values, Warned, Exits, Kill, Turn, Barred, Target, Act, Skip,
      Spare, GiveUp, Goto, Refusal, Fault, Roles, Unreconciled, Restored, file, world,
      clocks, reactions, held, marks, flags, effects, ghosts
<1>45. ASSUME NEW r \in Roles, ProcessChanges(r) PROVE Warned'
    BY <1>1, <1>45 DEF Values, Warned, Exits, ProcessChanges, Rest, held, marks, ghosts
<1>46. ASSUME NEW r \in Roles, ReadAgain(r) PROVE Warned'
    BY <1>1, <1>46 DEF Values, Warned, Exits, ReadAgain, Rest, held, marks, ghosts
<1>47. ASSUME NEW r \in Roles, CensusDrops(r) PROVE Warned'
    BY <1>1, <1>47 DEF Values, Warned, Exits, CensusDrops, Rest, held, marks, ghosts
<1>48. ASSUME NEW r \in Roles, CensusFinds(r) PROVE Warned'
    BY <1>1, <1>48 DEF Values, Warned, Exits, CensusFinds, Rest, held, marks, ghosts
<1>49. CASE UNCHANGED vars
    BY <1>1, <1>49 DEF Values, Warned, Exits, vars, held, marks, ghosts
<1>50. QED
    BY <1>2, <1>3, <1>4, <1>5, <1>6, <1>7, <1>8, <1>9, <1>10, <1>11, <1>12, <1>13, <1>14,
      <1>15, <1>16, <1>17, <1>18, <1>19, <1>20, <1>21, <1>22, <1>23, <1>24, <1>25, <1>26,
      <1>27, <1>28, <1>29, <1>30, <1>31, <1>32, <1>33, <1>34, <1>35, <1>36, <1>37, <1>38,
      <1>39, <1>40, <1>41, <1>42, <1>43, <1>44, <1>45, <1>46, <1>47, <1>48, <1>49 DEF Next,
      Thread

\* An effect is a close or a stop of one role, behind the boundary's checks.
Aimed == Effects # {} => \E r \in Roles : /\ Post(r) \/ Kill(r)
                                          /\ ~Barred /\ Target(r) /\ Effects \subseteq {r}

\* Nothing else acts, and no other way through _idle_effect_boundary does.
LEMMA EffectStep == Values /\ [Next]_vars => Aimed
<1> SUFFICES ASSUME Values, [Next]_vars PROVE Aimed
    OBVIOUS
<1>1. Values
    OBVIOUS
<1>2. CASE Leave
    BY <1>1, <1>2 DEF Values, Aimed, Effects, Leave, Exits, Forget
<1>3. CASE CycleOff
    BY <1>1, <1>3 DEF Values, Aimed, Effects, CycleOff, Stays, effects
<1>4. CASE CycleRelease
    BY <1>1, <1>4 DEF Values, Aimed, Effects, CycleRelease, effects
<1>5. CASE CycleBegins
    BY <1>1, <1>5 DEF Values, Aimed, Effects, CycleBegins, effects
<1>6. CASE CycleCancels
    BY <1>1, <1>6 DEF Values, Aimed, Effects, CycleCancels, effects
<1>7. CASE Wait
    BY <1>1, <1>7 DEF Values, Aimed, Effects, Wait, effects
<1>8. CASE Recheck
    BY <1>1, <1>8 DEF Values, Aimed, Effects, Recheck, Stays, effects
<1>9. CASE Adopt
    BY <1>1, <1>9 DEF Values, Aimed, Effects, Adopt, effects
<1>10. CASE Mark
    BY <1>1, <1>10 DEF Values, Aimed, Effects, Mark, effects
<1>11. CASE Check
    BY <1>1, <1>11 DEF Values, Aimed, Effects, Check, effects
<1>12. CASE Warn
    BY <1>1, <1>12 DEF Values, Aimed, Effects, Warn, Stays, effects
<1>13. CASE Count
    BY <1>1, <1>13 DEF Values, Aimed, Effects, Count, effects
<1>14. CASE Close
    BY <1>1, <1>14 DEF Values, Aimed, Effects, Close, Stays, effects
<1>15. CASE Gate
    BY <1>1, <1>15 DEF Values, Aimed, Effects, Gate, Stays, effects
<1>16. CASE Arm
    BY <1>1, <1>16 DEF Values, Aimed, Effects, Arm, effects
<1>17. CASE Last
    BY <1>1, <1>17 DEF Values, Aimed, Effects, Last, Stays, effects
<1>18. CASE Guard
    BY <1>1, <1>18 DEF Values, Aimed, Effects, Guard
<1>19. CASE Enter
    BY <1>1, <1>19 DEF Values, Aimed, Effects, Enter, Stays, effects
<1>20. CASE List
    BY <1>1, <1>20 DEF Values, Aimed, Effects, List
<1>21. CASE Reread
    BY <1>1, <1>21 DEF Values, Aimed, Effects, Reread, Stays, effects
<1>22. CASE Posted
    BY <1>1, <1>22 DEF Values, Aimed, Effects, Posted, effects
<1>23. CASE Await
    BY <1>1, <1>23 DEF Values, Aimed, Effects, Await, effects
<1>24. CASE Stop
    BY <1>1, <1>24 DEF Values, Aimed, Effects, Stop, Stays, effects
<1>25. CASE EnterStop
    BY <1>1, <1>25 DEF Values, Aimed, Effects, EnterStop
<1>26. CASE Killed
    BY <1>1, <1>26 DEF Values, Aimed, Effects, Killed, effects
<1>27. CASE Flip
    BY <1>1, <1>27 DEF Values, Aimed, Effects, Flip, effects
<1>28. CASE Input
    BY <1>1, <1>28 DEF Values, Aimed, Effects, Input, Watching, effects
<1>29. CASE LauncherWaits
    BY <1>1, <1>29 DEF Values, Aimed, Effects, LauncherWaits, effects
<1>30. CASE LauncherLeaves
    BY <1>1, <1>30 DEF Values, Aimed, Effects, LauncherLeaves, effects
<1>31. CASE Cut
    BY <1>1, <1>31 DEF Values, Aimed, Effects, Cut, effects
<1>32. CASE Retry
    BY <1>1, <1>32 DEF Values, Aimed, Effects, Retry, effects
<1>33. CASE ScanFails
    BY <1>1, <1>33 DEF Values, Aimed, Effects, ScanFails, Rest, effects
<1>34. CASE ScanWorks
    BY <1>1, <1>34 DEF Values, Aimed, Effects, ScanWorks, Rest, effects
<1>35. CASE OthersGrant
    BY <1>1, <1>35 DEF Values, Aimed, Effects, OthersGrant, Rest, effects
<1>36. CASE OthersAdopt
    BY <1>1, <1>36 DEF Values, Aimed, Effects, OthersAdopt, Rest, effects
<1>37. CASE OthersExtend
    BY <1>1, <1>37 DEF Values, Aimed, Effects, OthersExtend
<1>38. CASE OthersStop
    BY <1>1, <1>38 DEF Values, Aimed, Effects, OthersStop, Rest, effects
<1>39. CASE OthersRelease
    BY <1>1, <1>39 DEF Values, Aimed, Effects, OthersRelease, effects
<1>40. CASE Expires
    BY <1>1, <1>40 DEF Values, Aimed, Effects, Expires, effects
<1>41. CASE CleanupEnds
    BY <1>1, <1>41 DEF Values, Aimed, Effects, CleanupEnds, effects
<1>42. CASE Reaper
    BY <1>1, <1>42 DEF Values, Aimed, Effects, Reaper, Rest, effects
<1>43. ASSUME NEW r \in Roles, Post(r) PROVE Aimed
    BY <1>1, <1>43 DEF Values, Aimed, Effects, Post, Barred, Act, Skip, Spare, GiveUp
<1>44. ASSUME NEW r \in Roles, Kill(r) PROVE Aimed
    BY <1>1, <1>44 DEF Values, Aimed, Effects, Kill, Barred, Act, Skip, Spare, GiveUp
<1>45. ASSUME NEW r \in Roles, ProcessChanges(r) PROVE Aimed
    BY <1>1, <1>45 DEF Values, Aimed, Effects, ProcessChanges, Rest, effects
<1>46. ASSUME NEW r \in Roles, ReadAgain(r) PROVE Aimed
    BY <1>1, <1>46 DEF Values, Aimed, Effects, ReadAgain, Rest, effects
<1>47. ASSUME NEW r \in Roles, CensusDrops(r) PROVE Aimed
    BY <1>1, <1>47 DEF Values, Aimed, Effects, CensusDrops, Rest, effects
<1>48. ASSUME NEW r \in Roles, CensusFinds(r) PROVE Aimed
    BY <1>1, <1>48 DEF Values, Aimed, Effects, CensusFinds, Rest, effects
<1>49. CASE UNCHANGED vars
    BY <1>1, <1>49 DEF Values, Aimed, Effects, vars, effects
<1>50. QED
    BY <1>2, <1>3, <1>4, <1>5, <1>6, <1>7, <1>8, <1>9, <1>10, <1>11, <1>12, <1>13, <1>14,
      <1>15, <1>16, <1>17, <1>18, <1>19, <1>20, <1>21, <1>22, <1>23, <1>24, <1>25, <1>26,
      <1>27, <1>28, <1>29, <1>30, <1>31, <1>32, <1>33, <1>34, <1>35, <1>36, <1>37, <1>38,
      <1>39, <1>40, <1>41, <1>42, <1>43, <1>44, <1>45, <1>46, <1>47, <1>48, <1>49 DEF Next,
      Thread

-----------------------------------------------------------------------------
Safe == Switches /\ Values /\ Commanding /\ Noticed /\ Warned

\* A daemon starts with nothing held, marked or acted on.
LEMMA InitSafe == Init => Safe
<1> SUFFICES ASSUME Init PROVE Safe
    OBVIOUS
<1>1. Switches
    BY DEF Init, Switches
<1>2. Values
  <2>1. PICK s \in Shapes : proc = [r \in s |-> "owned"] /\ listed = s
    BY DEF Init
  <2>2. Roles = s /\ s \in (SUBSET AllRoles) \ {{}} /\ proc \in [s -> Kinds]
    BY <2>1, ShapesAssumption DEF Roles, Kinds
  <2>3. QED
    BY <2>1, <2>2, BoundAssumption DEF Init, Values, Exits
<1>3. Commanding /\ Noticed /\ Warned
    BY DEF Init, Commanding, InCall, Noticed, Warned
<1>4. QED
    BY <1>1, <1>2, <1>3 DEF Safe

\* The parts of the invariant hold one another up.
LEMMA Invariance == Spec => []Safe
<1>1. Safe /\ [Next]_vars => Safe'
    BY SwitchStep, ValueStep, CommandingStep, NoticedStep, WarnedStep DEF Safe
<1>2. QED
    BY InitSafe, <1>1, PTL DEF Spec

\* Every variable keeps its type, and a run has an owner only while it is served
\* or stopped, for any shape of run and any number of failures.
THEOREM TypeCorrect == Spec => []TypeOK
<1>1. Safe => TypeOK
    BY DEF Safe, TypeOK
<1>2. QED
    BY Invariance, <1>1, PTL

\* No WM_CLOSE and no termination without lease, run, switch and a process the
\* guard vouches for: lease and run are pinned for the call (Commanding), and
\* the boundary looks at the other two in the step that acts.
THEOREM Authorized == Spec => EffectAuthorized
<1>1. Safe /\ [Next]_vars =>
        [Effects # {} => /\ lease = "warden" /\ run.owner = "warden" /\ on
                         /\ \A r \in Effects : proc[r] = "owned"]_vars
  <2> SUFFICES ASSUME Safe, [Next]_vars, Effects # {}
               PROVE /\ lease = "warden" /\ run.owner = "warden" /\ on
                     /\ \A r \in Effects : proc[r] = "owned"
    OBVIOUS
  <2>1. PICK r \in Roles : /\ Post(r) \/ Kill(r)
                           /\ ~Barred /\ Target(r) /\ Effects \subseteq {r}
    BY EffectStep DEF Safe, Aimed
  <2>2. lease = "warden" /\ run.owner = "warden"
    BY <2>1 DEF Safe, Commanding, InCall, Post, Kill
  <2>3. on
    BY <2>1 DEF Barred
  <2>4. \A q \in Effects : proc[q] = "owned"
    BY <2>1 DEF Target
  <2>5. QED
    BY <2>2, <2>3, <2>4
<1>2. QED
    BY Invariance, <1>1, PTL DEF Spec, EffectAuthorized

\* Whoever came back where a check was still to come is not closed on: Noticed
\* says that the boundary before the first effect finds the anchor moved.
THEOREM ReactionAborts == Spec => SeenReactionAborts
<1>1. Safe /\ [Next]_vars => [FirstClose => ~doubt]_vars
  <2> SUFFICES ASSUME Safe, [Next]_vars, FirstClose, doubt PROVE FALSE
    OBVIOUS
  <2>1. ~Barred
    BY EffectStep DEF Safe, Aimed, FirstClose
  <2>2. stamp # anchor
    BY DEF Safe, Noticed, FirstClose
  <2>3. QED
    BY <2>1, <2>2 DEF Barred, AnchorsChanged
<1>2. QED
    BY Invariance, <1>1, PTL DEF Spec, SeenReactionAborts

\* A client the census listed when the run was chosen is closed only behind the
\* countdown of its cycle: Warned says that nothing else but _dead leads there, and
\* that _dead and the ghost of the census exclude each other as long as they last.
THEOREM CountdownFirst == Spec => WarnedBeforeClose
<1>1. Safe /\ [Next]_vars => [FirstClose /\ seen => told]_vars
  <2> SUFFICES ASSUME Safe, FirstClose, seen PROVE told
    OBVIOUS
  <2>1. QED
    BY DEF Safe, Warned, FirstClose
<1>2. QED
    BY Invariance, <1>1, PTL DEF Spec, WarnedBeforeClose
===============================================================================
