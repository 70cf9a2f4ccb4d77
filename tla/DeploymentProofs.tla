-------------------------- MODULE DeploymentProofs --------------------------
(***************************************************************************)
(* Proofs about Deployment, for any number of terminals and commits and any *)
(* migrations whose stamps grow along main.                                 *)
(***************************************************************************)
EXTENDS Deployment, TLAPS

USE CommitsAssumption, JournalAssumption
USE DEF Commits, Places, shared, local, Goes, Running

(* The migrator takes for new exactly what is missing, as long as the table *)
(* has no gaps.                                                             *)
LEMMA PendingIsMissing ==
    ASSUME TypeOK, OrderInv
    PROVE  applied \union Pending = applied \union Journal(checkout)
<1>1. ASSUME NEW m \in Journal(checkout), m \notin applied, NEW n \in applied
      PROVE  When[n] < When[m]
  <2>1. m \in Migrating /\ n \in Migrating /\ m \in Nat /\ n \in Nat
    BY <1>1 DEF TypeOK, Journal
  <2>2. ~(m <= n)
    <3>1. m # n
      BY <1>1
    <3>2. ~(m < n)
      BY <1>1, <2>1 DEF OrderInv
    <3> QED
      BY <2>1, <3>1, <3>2
  <2> QED
    BY <2>1, <2>2
<1> QED
  BY <1>1 DEF Pending

(* After db:migrate the table has what the checkout counts on, and still no *)
(* gaps.                                                                    *)
LEMMA MigrateApplies ==
    ASSUME TypeOK, OrderInv, NEW u \in Updaters, Migrate(u)
    PROVE  /\ applied' = applied \union Journal(checkout)
           /\ applied' \subseteq Migrating
           /\ \A m \in applied', n \in Migrating : n < m => n \in applied'
<1>1. applied' = applied \union Journal(checkout)
  BY PendingIsMissing DEF Migrate
<1>2. applied' \subseteq Migrating
  BY <1>1 DEF TypeOK, Journal
<1>3. ASSUME NEW m \in applied', NEW n \in Migrating, n < m PROVE n \in applied'
  <2>1. CASE m \in applied
    BY <1>1, <1>3, <2>1 DEF OrderInv
  <2>2. CASE m \in Journal(checkout)
    BY <1>1, <1>3, <2>2 DEF Journal, TypeOK
  <2> QED
    BY <1>1, <2>1, <2>2
<1> QED
  BY <1>1, <1>2, <1>3

-----------------------------------------------------------------------------
(* One lemma per part of DeployInv.                                         *)

(* Every step keeps the types. *)
LEMMA TypeStep == ASSUME DeployInv, [Next]_vars PROVE TypeOK'
<1> USE DEF DeployInv, TypeOK
<1>1. CASE Merge
  BY <1>1 DEF Merge
<1>2. CASE Reboot
  BY <1>2 DEF Reboot
<1>3. ASSUME NEW u \in Updaters, Begin(u) PROVE TypeOK'
  BY <1>3 DEF Begin
<1>4. ASSUME NEW u \in Updaters, Pull(u) PROVE TypeOK'
  BY <1>4 DEF Pull
<1>5. ASSUME NEW u \in Updaters, Migrate(u) PROVE TypeOK'
  BY <1>5, MigrateApplies DEF Migrate
<1>6. ASSUME NEW u \in Updaters, StartBuild(u) \/ EndBuild(u) \/ Recreate(u) PROVE TypeOK'
  BY <1>6 DEF StartBuild, EndBuild, Recreate
<1>7. ASSUME NEW u \in Updaters, Finish(u) \/ Stops(u) PROVE TypeOK'
  BY <1>7 DEF Finish, Stops
<1>8. CASE UNCHANGED vars
  BY <1>8 DEF vars
<1> QED
  BY <1>1, <1>2, <1>3, <1>4, <1>5, <1>6, <1>7, <1>8 DEF Next, Command

(* Every step keeps things in their order. *)
LEMMA OrderStep == ASSUME DeployInv, [Next]_vars PROVE OrderInv'
<1> USE DEF DeployInv, TypeOK, OrderInv
<1>1. CASE Merge
  BY <1>1 DEF Merge
<1>2. ASSUME NEW u \in Updaters, Pull(u) PROVE OrderInv'
  BY <1>2 DEF Pull
<1>3. ASSUME NEW u \in Updaters, Migrate(u) PROVE OrderInv'
  BY <1>3, MigrateApplies DEF Migrate
<1>4. ASSUME NEW u \in Updaters, StartBuild(u) PROVE OrderInv'
  BY <1>4 DEF StartBuild
<1>5. ASSUME NEW u \in Updaters, EndBuild(u) PROVE OrderInv'
  BY <1>5 DEF EndBuild
<1>6. ASSUME NEW u \in Updaters, Recreate(u) PROVE OrderInv'
  BY <1>6 DEF Recreate
<1>7. CASE UNCHANGED <<shared, context, pulled>>
  BY <1>7
<1> QED
  BY <1>1, <1>2, <1>3, <1>4, <1>5, <1>6, <1>7 DEF Next, Command, Reboot, Begin, Finish, Stops, vars

(* A run on its own goes on finding things as it left them, because nobody  *)
(* else's command can come in between.                                      *)
LEMMA AloneStep == ASSUME DeployInv, [Next]_vars PROVE AloneInv'
<1> USE DEF DeployInv, TypeOK, AloneInv
<1>1. CASE Merge
  BY <1>1 DEF Merge
<1>2. CASE Reboot
  BY <1>2 DEF Reboot
<1>3. ASSUME NEW u \in Updaters, Begin(u) PROVE AloneInv'
  BY <1>3 DEF Begin
<1>4. ASSUME NEW u \in Updaters, Pull(u) PROVE AloneInv'
  BY <1>4 DEF Pull
<1>5. ASSUME NEW u \in Updaters, Migrate(u) PROVE AloneInv'
  BY <1>5, MigrateApplies DEF Migrate
<1>6. ASSUME NEW u \in Updaters, StartBuild(u) PROVE AloneInv'
  BY <1>6 DEF StartBuild
<1>7. ASSUME NEW u \in Updaters, EndBuild(u) PROVE AloneInv'
  BY <1>7 DEF EndBuild
<1>8. ASSUME NEW u \in Updaters, Recreate(u) PROVE AloneInv'
  BY <1>8 DEF Recreate
<1>9. ASSUME NEW u \in Updaters, Finish(u) \/ Stops(u) PROVE AloneInv'
  BY <1>9 DEF Finish, Stops
<1>10. CASE UNCHANGED vars
  BY <1>10 DEF vars
<1> QED
  BY <1>1, <1>2, <1>3, <1>4, <1>5, <1>6, <1>7, <1>8, <1>9, <1>10 DEF Next, Command

(* What serves stays migrated. *)
LEMMA CleanStep == ASSUME DeployInv, [Next]_vars PROVE CleanInv'
<1> USE DEF DeployInv, TypeOK, CleanInv
<1>1. CASE Merge
  BY <1>1 DEF Merge, Journal
<1>2. CASE Reboot
  BY <1>2 DEF Reboot, Journal
<1>3. ASSUME NEW u \in Updaters, Begin(u) PROVE CleanInv'
  BY <1>3 DEF Begin, Journal
<1>4. ASSUME NEW u \in Updaters, Pull(u) PROVE CleanInv'
  BY <1>4 DEF Pull, Journal
<1>5. ASSUME NEW u \in Updaters, Migrate(u) PROVE CleanInv'
  BY <1>5 DEF Migrate, Journal
<1>6. ASSUME NEW u \in Updaters, StartBuild(u) \/ EndBuild(u) PROVE CleanInv'
  BY <1>6 DEF StartBuild, EndBuild, Journal
<1>7. ASSUME NEW u \in Updaters, Recreate(u) PROVE CleanInv'
  BY <1>7 DEF Recreate, AloneInv, Journal
<1>8. ASSUME NEW u \in Updaters, Finish(u) PROVE CleanInv'
  BY <1>8 DEF Finish, AloneInv, Journal
<1>9. ASSUME NEW u \in Updaters, Stops(u) PROVE CleanInv'
  BY <1>9 DEF Stops, Journal
<1>10. CASE UNCHANGED vars
  BY <1>10 DEF vars, Journal
<1> QED
  BY <1>1, <1>2, <1>3, <1>4, <1>5, <1>6, <1>7, <1>8, <1>9, <1>10 DEF Next, Command

-----------------------------------------------------------------------------

(* DeployInv holds whatever stops, overlaps or is rebooted. *)
THEOREM Deployed == Spec => []DeployInv
<1>1. ASSUME Init PROVE DeployInv
  <2>1. TypeOK
    <3>1. 0 \in Commits
      OBVIOUS
    <3>2. alone \in [Updaters -> BOOLEAN] /\ tainted \in BOOLEAN
      BY <1>1 DEF Init
    <3> HIDE DEF Commits
    <3> QED
      BY <1>1, <3>1, <3>2 DEF Init, TypeOK, Journal
  <2>2. OrderInv
    BY <1>1 DEF Init, OrderInv, Journal
  <2>3. AloneInv /\ CleanInv
    BY <1>1 DEF Init, AloneInv, CleanInv
  <2> QED
    BY <2>1, <2>2, <2>3 DEF DeployInv
<1>2. DeployInv /\ [Next]_vars => DeployInv'
  BY TypeStep, OrderStep, AloneStep, CleanStep DEF DeployInv
<1> QED
  BY <1>1, <1>2, PTL DEF Spec

(* The portal that serves is never ahead of the database, unless runs of    *)
(* update.sh have overlapped and none has had the VM to itself since.       *)
THEOREM SchemaFirst == Spec => []CodeHasItsSchema
<1>1. DeployInv => CodeHasItsSchema
  BY DEF DeployInv, CleanInv, CodeHasItsSchema
<1> QED
  BY <1>1, Deployed, PTL

(* "Done." of a run on its own means that what it pulled is what serves.    *)
THEOREM DoneIsTrue == Spec => DoneIsDeployed
<1>1. ASSUME DeployInv, [Next]_vars, NEW u \in Updaters,
             script[u] # "done", script'[u] = "done", alone[u]
      PROVE  container = pulled[u] /\ Journal(pulled[u]) \subseteq applied
  <2>1. Finish(u)
    BY <1>1 DEF DeployInv, TypeOK, vars, Next, Command, Merge, Reboot, Begin, Pull, Migrate,
                StartBuild, EndBuild, Recreate, Finish, Stops
  <2>2. script[u] = "started"
    BY <2>1 DEF Finish
  <2>3. Running(u)
    BY <2>2
  <2> QED
    BY <1>1, <2>2, <2>3 DEF DeployInv, AloneInv
<1>2. DeployInv /\ [Next]_vars =>
        [\A u \in Updaters :
            script[u] # "done" /\ script'[u] = "done" /\ alone[u] =>
                container = pulled[u] /\ Journal(pulled[u]) \subseteq applied]_vars
  BY <1>1
<1> QED
  BY <1>2, Deployed, PTL DEF Spec, DoneIsDeployed

(* As long as runs do not overlap, what serves only moves forward.          *)
LEMMA ForwardStep == ASSUME DeployInv, [Next]_vars, ~tainted PROVE container <= container'
<1> USE DEF DeployInv, TypeOK
<1>1. ASSUME NEW u \in Updaters, Recreate(u) PROVE container <= container'
  <2>1. Running(u) /\ alone[u] /\ script[u] = "built"
    BY <1>1 DEF Recreate, CleanInv
  <2>2. image = checkout /\ container <= checkout
    BY <2>1 DEF AloneInv, OrderInv
  <2> QED
    BY <1>1, <2>2 DEF Recreate
<1>2. CASE UNCHANGED container
  BY <1>2
<1> QED
  BY <1>1, <1>2
  DEF Next, Command, Merge, Reboot, Begin, Pull, Migrate, StartBuild, EndBuild, Finish,
      Stops, vars

(* No run, failure or reboot brings back an older portal.                   *)
THEOREM Forward == Spec => NoRollback
<1>1. DeployInv /\ [Next]_vars => [tainted \/ container <= container']_vars
  BY ForwardStep
<1> QED
  BY <1>1, Deployed, PTL DEF Spec, NoRollback

(* With one terminal there is no overlap, and nothing is left of the        *)
(* condition: whatever stops, fails or is rebooted, the portal that serves   *)
(* has its migrations and never goes back.                                  *)
THEOREM OneTerminal ==
    (\A u, v \in Updaters : u = v) =>
        (Spec => /\ [](Journal(container) \subseteq applied)
                 /\ [][container <= container']_vars)
<1> SUFFICES ASSUME \A u, v \in Updaters : u = v
             PROVE  Spec => /\ [](Journal(container) \subseteq applied)
                            /\ [][container <= container']_vars
  OBVIOUS
<1>1. Init => ~tainted
  BY DEF Init
<1>2. ~tainted /\ [Next]_vars => ~tainted'
  BY DEF Next, Command, Merge, Reboot, Begin, Pull, Migrate, StartBuild, EndBuild, Recreate,
         Finish, Stops, vars
<1>3. DeployInv /\ ~tainted => Journal(container) \subseteq applied
  BY DEF DeployInv, CleanInv
<1>4. DeployInv /\ ~tainted /\ [Next]_vars => [container <= container']_vars
  BY ForwardStep
<1> QED
  BY <1>1, <1>2, <1>3, <1>4, Deployed, PTL DEF Spec
=============================================================================
