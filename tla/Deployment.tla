------------------------------ MODULE Deployment ------------------------------
(***************************************************************************)
(* infra/deploy/update.sh: people with a shell on the VM pull main, migrate  *)
(* the database, rebuild the portal's image and replace its container, while *)
(* the old one goes on serving.  The script runs under set -e and takes no   *)
(* lock: it may stop anywhere, be run again, and overlap with itself in a    *)
(* second terminal, over one checkout, one database and one image tag.      *)
(*                                                                         *)
(* A commit is its place on main, which only moves forward (--ff-only).  A   *)
(* migration is named by the commit that brought it.                        *)
(***************************************************************************)
EXTENDS Naturals

CONSTANTS
    Updaters,   \* terminals
    MaxCommit,  \* the last commit merged (bound)
    Migrating,  \* commits that bring a migration
    When        \* "when" in the journal, by which the migrator tells old from new

Commits == 0 .. MaxCommit

ASSUME CommitsAssumption ==
    MaxCommit \in Nat /\ Migrating \subseteq Commits /\ When \in [Commits -> Nat]

(* The entries of meta/_journal.json are in the order they were made.       *)
ASSUME JournalAssumption == \A m, n \in Migrating : m < n => When[m] < When[n]

VARIABLES
    main,       \* what git pull finds
    checkout,   \* the working tree on the VM
    applied,    \* rows of the migrations table
    image,      \* the commit the image tag was built from
    container,  \* the commit the portal's container runs
    script,     \* where a terminal's update.sh is
    context,    \* the commit its build copied into docker
    pulled,     \* history: the commit its pull left
    alone,      \* history: no other update.sh has run since it started
    tainted     \* history: runs have overlapped since one last ran alone to its end

shared == <<main, checkout, applied, image, container>>
local == <<context, pulled, alone>>
vars == <<shared, script, local, tainted>>

Places == {"idle", "begun", "pulled", "migrated", "building", "built", "started", "done",
           "failed"}
Running(u) == script[u] \notin {"idle", "done", "failed"}

TypeOK ==
    /\ main \in Commits
    /\ checkout \in Commits
    /\ applied \subseteq Migrating
    /\ image \in Commits
    /\ container \in Commits
    /\ script \in [Updaters -> Places]
    /\ context \in [Updaters -> Commits]
    /\ pulled \in [Updaters -> Commits]
    /\ alone \in [Updaters -> BOOLEAN]
    /\ tainted \in BOOLEAN

(* The migrations a commit's code counts on. *)
Journal(c) == {m \in Migrating : m <= c}

(* The one-time setup deployed commit 0. *)
Init ==
    /\ main = 0
    /\ checkout = 0
    /\ applied = Journal(0)
    /\ image = 0
    /\ container = 0
    /\ script = [u \in Updaters |-> "idle"]
    /\ context = [u \in Updaters |-> 0]
    /\ pulled = [u \in Updaters |-> 0]
    /\ alone = [u \in Updaters |-> FALSE]
    /\ tainted = FALSE

(* Somebody merges a change. *)
Merge ==
    /\ main < MaxCommit
    /\ main' = main + 1
    /\ UNCHANGED <<checkout, applied, image, container, script, local, tainted>>

(* Somebody runs the script, and does not see who else does. *)
Begin(u) ==
    /\ ~Running(u)
    /\ script' = [script EXCEPT ![u] = "begun"]
    /\ LET others == {v \in Updaters \ {u} : Running(v)}
       IN  /\ alone' = [v \in Updaters |->
                            IF v = u THEN others = {} ELSE alone[v] /\ v \notin others]
           /\ tainted' = (tainted \/ others # {})
    /\ UNCHANGED <<shared, context, pulled>>

Goes(u, from, to) ==
    /\ script[u] = from
    /\ script' = [script EXCEPT ![u] = to]
    /\ UNCHANGED <<alone, tainted>>

(* Mutant: there is nothing to do if there is nothing to pull. *)
PullOrStop(u) ==
    /\ script[u] = "begun"
    /\ script' = [script EXCEPT ![u] = IF checkout = main THEN "done" ELSE "pulled"]
    /\ checkout' = main
    /\ pulled' = [pulled EXCEPT ![u] = main]
    /\ UNCHANGED <<main, applied, image, container, context, alone, tainted>>

(* Mutant: the script checks out the commit it is asked for. *)
CheckOut(u) ==
    /\ Goes(u, "begun", "pulled")
    /\ checkout' \in 0 .. main
    /\ pulled' = [pulled EXCEPT ![u] = checkout']
    /\ UNCHANGED <<main, applied, image, container, context>>

(* git pull --ff-only, also when there is nothing new. *)
Pull(u) ==
    /\ Goes(u, "begun", "pulled")
    /\ checkout' = main
    /\ pulled' = [pulled EXCEPT ![u] = main]
    /\ UNCHANGED <<main, applied, image, container, context>>

(* Mutant: the last migration of the journal is taken for all of them. *)
PendingLast ==
    {m \in Journal(checkout) : m \notin applied /\ \A n \in Journal(checkout) : n <= m}

(* What the migrator takes for new: everything stamped after the newest     *)
(* migration of the table.                                                  *)
Pending == {m \in Journal(checkout) : \A n \in applied : When[n] < When[m]}

(* pnpm db:migrate, in one transaction, after pnpm install and starting the *)
(* database, which change nothing here but may fail.                        *)
Migrate(u) ==
    /\ Goes(u, "pulled", "migrated")
    /\ applied' = applied \union Pending
    /\ UNCHANGED <<main, checkout, image, container, context, pulled>>

(* docker compose up -d --build: the build copies the checkout, ... *)
StartBuild(u) ==
    /\ Goes(u, "migrated", "building")
    /\ context' = [context EXCEPT ![u] = checkout]
    /\ UNCHANGED <<shared, pulled>>

(* ... tags what it made of it, ... *)
EndBuild(u) ==
    /\ Goes(u, "building", "built")
    /\ image' = context[u]
    /\ UNCHANGED <<main, checkout, applied, container, context, pulled>>

(* ... and the container is replaced by one of the tagged image. *)
Recreate(u) ==
    /\ Goes(u, "built", "started")
    /\ container' = image
    /\ UNCHANGED <<main, checkout, applied, image, context, pulled>>

(* The portal answers /api/health, which says that it reaches the database  *)
(* and not which portal it is.                                              *)
Finish(u) ==
    /\ script[u] = "started"
    /\ script' = [script EXCEPT ![u] = "done"]
    /\ tainted' = (tainted /\ ~alone[u])
    /\ UNCHANGED <<shared, local>>

(* Mutant: without set -e the script goes on after a command that failed. *)
StopsNot(u) ==
    /\ Running(u)
    /\ script' = [script EXCEPT ![u] = CASE @ = "pulled" -> "migrated"
                                         [] @ = "building" -> "built"
                                         [] OTHER -> "failed"]
    /\ UNCHANGED <<shared, local, tainted>>

(* Any command may fail, a failed migration leaving nothing behind; the     *)
(* connection to the VM may drop.                                           *)
Stops(u) ==
    /\ Running(u)
    /\ script' = [script EXCEPT ![u] = "failed"]
    /\ UNCHANGED <<shared, local, tainted>>

(* The VM reboots: every script is gone, and docker starts the container    *)
(* there was (restart: unless-stopped).                                     *)
Reboot ==
    /\ \E u \in Updaters : Running(u)
    /\ script' = [u \in Updaters |-> IF Running(u) THEN "failed" ELSE script[u]]
    /\ UNCHANGED <<shared, local, tainted>>

Command(u) ==
    \/ Pull(u) \/ Migrate(u) \/ StartBuild(u) \/ EndBuild(u) \/ Recreate(u)
    \/ Finish(u) \/ Stops(u)

Next == Merge \/ Reboot \/ \E u \in Updaters : Begin(u) \/ Command(u)

Spec == Init /\ [][Next]_vars

(* Somebody always runs the script again, each command of it ends, and none *)
(* fails every time it is tried.                                            *)
Fairness ==
    /\ WF_vars(\E u \in Updaters : Begin(u))
    /\ \A u \in Updaters : WF_vars(Command(u))
    /\ SF_vars(\E u \in Updaters : Pull(u))
    /\ SF_vars(\E u \in Updaters : Migrate(u))
    /\ SF_vars(\E u \in Updaters : StartBuild(u))
    /\ SF_vars(\E u \in Updaters : EndBuild(u))
    /\ SF_vars(\E u \in Updaters : Recreate(u))

FairSpec == Spec /\ Fairness

-----------------------------------------------------------------------------

(* The portal that serves is never ahead of the database: every migration   *)
(* its code counts on has been applied, whatever failed, was run again or   *)
(* rebooted -- as long as runs do not overlap; and if they have, one run on *)
(* its own puts it right.                                                   *)
CodeHasItsSchema == ~tainted => Journal(container) \subseteq applied

(* "Done." of a run that had the VM to itself means what it seems to: the   *)
(* commit it pulled is what serves, on a database that has its migrations.  *)
DoneIsDeployed ==
    [][\A u \in Updaters :
        script[u] # "done" /\ script'[u] = "done" /\ alone[u] =>
            container = pulled[u] /\ Journal(pulled[u]) \subseteq applied]_vars

(* No step of the script, no failure, reboot or later run of it brings back *)
(* an older portal: what serves only moves forward along main -- as long as  *)
(* runs do not overlap, for then the later to tag the image may be the one   *)
(* that copied the older checkout.                                          *)
NoRollback == [][tainted \/ container <= container']_vars

(* What was merged gets served in the end, with its migrations, although    *)
(* runs stop half way and overlap: a run does not mind what an earlier one  *)
(* has left.                                                                *)
NothingStaysBehind ==
    \A c \in Commits : main >= c ~> container >= c /\ Journal(c) \subseteq applied

-----------------------------------------------------------------------------
(* The inductive invariant.                                                 *)

(* Nothing is ahead of the checkout, and nothing but migrations it has had  *)
(* is in the table, without gaps.                                           *)
OrderInv ==
    /\ checkout <= main
    /\ \A u \in Updaters : pulled[u] <= checkout /\ context[u] <= checkout
    /\ image <= checkout /\ container <= checkout
    /\ \A m \in applied, n \in Migrating : n < m => n \in applied

(* A run on its own finds things as its last command left them. *)
AloneInv ==
    \A u \in Updaters : Running(u) /\ alone[u] =>
        /\ \A v \in Updaters : Running(v) => v = u
        /\ script[u] # "begun" => pulled[u] = checkout
        /\ script[u] \in {"migrated", "building", "built", "started"} =>
            Journal(checkout) \subseteq applied
        /\ script[u] \in {"building", "built", "started"} => context[u] = checkout
        /\ script[u] \in {"built", "started"} => image = checkout
        /\ script[u] = "started" => container = checkout

(* Without an overlap, runs are on their own and what serves is migrated.   *)
CleanInv ==
    ~tainted =>
        /\ \A u \in Updaters : Running(u) => alone[u]
        /\ Journal(container) \subseteq applied

DeployInv == TypeOK /\ OrderInv /\ AloneInv /\ CleanInv
=============================================================================
