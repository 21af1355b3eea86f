-------------------------------- MODULE Host --------------------------------
(***************************************************************************)
(* What the commands of one host share under its state directory: the      *)
(* process lock and the image locks of src/internal/instancelock, the      *)
(* files agent.json and runtime_config.json, and the runner cache.  An     *)
(* agent starts, clones and ends; meanwhile `pull image`, `pull runner`    *)
(* and `status` run.                                                       *)
(*                                                                         *)
(* An agent is a number, its session; its configuration is fixed at the    *)
(* start (agent.New) and may be another one at the next start.  To the     *)
(* other commands it is the pid in agent.json, which stays there when the  *)
(* agent ends, and which the system may then give to any other process.    *)
(***************************************************************************)
EXTENDS Integers, FiniteSets

CONSTANTS
  Refs, Versions, None,
  config,         \* the configurations that config.yaml holds in turn
  Pulls,          \* runs of `pull image`
  Agent, Reader,  \* the other two that take the process lock
  MaxSessions,    \* bound: agents started one after the other
  MaxBeside       \* bound: commands that run beside it at once

ASSUME ConfigAssumption == config \subseteq [base : Refs, version : Versions]

(* Whoever takes a lock is somebody else than the others who take it.        *)
ASSUME HoldersAssumption ==
  /\ Pulls \cap {None, Agent, Reader, "clone", "ghost"} = {}
  /\ Agent \notin {None, Reader, "clone", "ghost"}
  /\ None \notin {Reader, "clone", "ghost"}

VARIABLES
  proc,        \* who holds utsusemi.lock
  image,       \* who holds each ref's image lock
  agent,       \* the agent process
  clone,       \* its slot that clones
  ghost,       \* its goroutine of a cancelled wait for the image lock
  agentJson, runtimeConfig,
  cache,       \* runner tarballs
  pull, pullRunner, reader,
  seen,        \* history: sessions that ran since `status` began
  sessions     \* agents started so far

vars == <<proc, image, agent, clone, ghost, agentJson, runtimeConfig, cache,
          pull, pullRunner, reader, seen, sessions>>

locks  == <<proc, image>>
files  == <<agentJson, runtimeConfig>>
mine   == <<agent, clone, ghost>>
others == <<pull, pullRunner, reader, seen>>

Idle      == [at |-> "idle"]
NoSession == [id |-> 0]

Init ==
  /\ proc = None /\ image = [r \in Refs |-> None]
  /\ agent = [at |-> "off", id |-> 0] /\ clone = "none" /\ ghost = "none"
  /\ agentJson = NoSession /\ runtimeConfig = NoSession
  /\ cache = {}
  /\ pull = [p \in Pulls |-> Idle] /\ pullRunner = Idle /\ reader = Idle
  /\ seen = {}
  /\ sessions = 0

-----------------------------------------------------------------------------
(* instancelock.  The image lock is held by a puller, by the agent's start,  *)
(* by a clone or by the goroutine of a wait that was cancelled.              *)
acquireImage(who, r) == image[r] = None /\ image' = [image EXCEPT ![r] = who]
releaseImage(r) == image' = [image EXCEPT ![r] = None]

beside == Cardinality({p \in Pulls : pull[p] # Idle})
            + (IF pullRunner = Idle THEN 0 ELSE 1) + (IF reader = Idle THEN 0 ELSE 1)

alive(id) == agent.at # "off" /\ agent.id = id
ref       == agent.conf.base

(* kill(pid, 0) of the pid of a session in agent.json.  It finds the agent,   *)
(* while it runs, and else whoever has taken its pid, a later agent included.*)
pidAlive(id, taken) == id # 0 /\ (alive(id) \/ taken)
step(at)  == agent' = [agent EXCEPT !.at = at]

(* Agent.Run: Acquire does not wait.                                         *)
Start(c) ==
  /\ agent.at = "off" /\ sessions < MaxSessions
  /\ proc = None
  /\ proc' = Agent
  /\ sessions' = sessions + 1
  /\ agent' = [at |-> "image", id |-> sessions + 1, conf |-> c, pinned |-> FALSE]
  /\ seen' = IF reader = Idle THEN {} ELSE seen \cup {[id |-> agent'.id, base |-> c.base]}
  /\ UNCHANGED <<image, clone, ghost, files, cache, pull, pullRunner, reader>>

ImageLocked ==
  /\ agent.at = "image"
  /\ acquireImage(Agent, ref)
  /\ step("sync")
  /\ UNCHANGED <<proc, clone, ghost, files, cache, others, sessions>>

SyncImage(ok) ==
  /\ agent.at = "sync"
  /\ releaseImage(ref)
  /\ step(IF ok THEN "ensure" ELSE "leave")
  /\ UNCHANGED <<proc, clone, ghost, files, cache, others, sessions>>

-----------------------------------------------------------------------------
(* runnercache.Ensure: nothing to do for a tarball that is there, else a     *)
(* download that is renamed into place whole, then the others are pruned.    *)
Ensure ==
  /\ agent.at = "ensure"
  /\ IF agent.conf.version \in cache
     THEN agent' = [agent EXCEPT !.at = "save", !.pinned = TRUE]
     ELSE step("download")
  /\ UNCHANGED <<locks, clone, ghost, files, cache, others, sessions>>

(* All tries may fail; the agent starts nevertheless.                        *)
Download(ok) ==
  /\ agent.at = "download"
  /\ cache' = IF ok THEN cache \cup {agent.conf.version} ELSE cache
  /\ step(IF ok THEN "prune" ELSE "save")
  /\ UNCHANGED <<locks, clone, ghost, files, others, sessions>>

pruneOther(keep) == cache \cap {keep}

Prune ==
  /\ agent.at = "prune"
  /\ cache' = pruneOther(agent.conf.version)
  /\ agent' = [agent EXCEPT !.at = "save", !.pinned = TRUE]
  /\ UNCHANGED <<locks, clone, ghost, files, others, sessions>>

(* `pull runner`: SkipPrune.                                                 *)
PullRunner(v) ==
  /\ pullRunner = Idle /\ beside < MaxBeside
  /\ v \notin cache
  /\ pullRunner' = [at |-> "download", version |-> v]
  /\ UNCHANGED <<locks, mine, files, cache, pull, reader, seen, sessions>>

(* Mutant: it prunes like the agent does. *)
mutCached(v) == {v}

cached(v) == cache \cup {v}

PulledRunner(ok) ==
  /\ pullRunner # Idle
  /\ cache' = IF ok THEN cached(pullRunner.version) ELSE cache
  /\ pullRunner' = Idle
  /\ UNCHANGED <<locks, mine, files, pull, reader, seen, sessions>>

-----------------------------------------------------------------------------
(* Pool.Run: the frozen configuration, of which a failure is only logged,    *)
(* then agent.json.                                                          *)
SaveRuntimeConfig(ok) ==
  /\ agent.at = "save"
  /\ runtimeConfig' = IF ok THEN [id |-> agent.id, base |-> ref] ELSE runtimeConfig
  /\ step("publish")
  /\ UNCHANGED <<locks, clone, ghost, agentJson, cache, others, sessions>>

WriteAgentSession ==
  /\ agent.at = "publish"
  /\ agentJson' = [id |-> agent.id]
  /\ step("run")
  /\ UNCHANGED <<locks, clone, ghost, runtimeConfig, cache, others, sessions>>

(* cloneBaseImage of a slot.                                                 *)
CloneWaits ==
  /\ agent.at = "run" /\ clone = "none"
  /\ clone' = "wait"
  /\ UNCHANGED <<locks, agent, ghost, files, cache, others, sessions>>

CloneBegins ==
  /\ clone = "wait"
  /\ acquireImage("clone", ref)
  /\ clone' = "clone"
  /\ UNCHANGED <<proc, agent, ghost, files, cache, others, sessions>>

CloneEnds ==
  /\ clone = "clone"
  /\ releaseImage(ref)
  /\ clone' = "none"
  /\ UNCHANGED <<proc, agent, ghost, files, cache, others, sessions>>

(* A drain cancels a slot whose AcquireWait has not returned: its goroutine  *)
(* goes on waiting, and releases the lock that it gets.                      *)
CloneCancelled ==
  /\ clone = "wait" /\ ghost = "none"
  /\ image[ref] # None
  /\ clone' = "none" /\ ghost' = "wait"
  /\ UNCHANGED <<locks, agent, files, cache, others, sessions>>

GhostAcquires ==
  /\ ghost = "wait"
  /\ acquireImage("ghost", ref)
  /\ ghost' = "held"
  /\ UNCHANGED <<proc, agent, clone, files, cache, others, sessions>>

(* Mutant: nobody is left to release it. *)
mutGhostReleases == FALSE /\ UNCHANGED vars

GhostReleases ==
  /\ ghost = "held"
  /\ releaseImage(ref)
  /\ ghost' = "none"
  /\ UNCHANGED <<proc, agent, clone, files, cache, others, sessions>>

(* The agent returns once its slots have.                                    *)
Stop ==
  /\ agent.at \in {"image", "run"} /\ clone = "none"
  /\ step("leave")
  /\ UNCHANGED <<locks, clone, ghost, files, cache, others, sessions>>

(* lock.Release; what else the process holds goes with it.                   *)
Leave ==
  /\ agent.at = "leave"
  /\ proc' = None
  /\ image' = [r \in Refs |-> IF image[r] = "ghost" THEN None ELSE image[r]]
  /\ ghost' = "none"
  /\ step("off")
  /\ UNCHANGED <<clone, files, cache, others, sessions>>

(* Killed: the kernel drops its locks.  (The tart command that it waited for  *)
(* may go on unlocked; it is not followed here.)                             *)
Crash ==
  /\ agent.at # "off"
  /\ proc' = None
  /\ image' = [r \in Refs |-> IF image[r] \in {Agent, "clone", "ghost"} THEN None ELSE image[r]]
  /\ step("off") /\ clone' = "none" /\ ghost' = "none"
  /\ UNCHANGED <<files, cache, others, sessions>>

-----------------------------------------------------------------------------
(* pull.Image.  The process lock is free: it is kept until the image lock is *)
(* held.                                                                     *)
pulls(p, at, r, id) == pull' = [pull EXCEPT ![p] = [at |-> at, ref |-> r, id |-> id]]

PullWithLock(p, r) ==
  /\ pull[p] = Idle /\ beside < MaxBeside /\ proc = None
  /\ proc' = p
  /\ pulls(p, "first", r, 0)
  /\ UNCHANGED <<image, mine, files, cache, pullRunner, reader, seen, sessions>>

(* It is busy: confirmedBaseImage must find a process of the pid in           *)
(* agent.json, and know the image of that session as another one.  A pull    *)
(* that is refused leaves nothing behind.                                    *)
SeesBusy(p, r) ==
  /\ pull[p] = Idle /\ beside < MaxBeside /\ proc # None
  /\ pulls(p, "busy", r, 0)
  /\ UNCHANGED <<locks, mine, files, cache, pullRunner, reader, seen, sessions>>

LoadAgentSession(p, taken) ==
  /\ pull[p].at = "busy"
  /\ IF pidAlive(agentJson.id, taken)
     THEN pulls(p, "confirm", pull[p].ref, agentJson.id)
     ELSE pull' = [pull EXCEPT ![p] = Idle]
  /\ UNCHANGED <<locks, mine, files, cache, pullRunner, reader, seen, sessions>>

(* Mutant: the snapshot of whatever agent will do. *)
mutConfirmedBaseImage(p) == runtimeConfig # NoSession

confirmedBaseImage(p) == runtimeConfig # NoSession /\ runtimeConfig.id = pull[p].id

Confirm(p) ==
  /\ pull[p].at = "confirm"
  /\ IF confirmedBaseImage(p) /\ runtimeConfig.base # pull[p].ref
     THEN pulls(p, "second", pull[p].ref, pull[p].id)
     ELSE pull' = [pull EXCEPT ![p] = Idle]
  /\ UNCHANGED <<locks, mine, files, cache, pullRunner, reader, seen, sessions>>

PullBegins(p) ==
  /\ pull[p].at \in {"first", "second"}
  /\ acquireImage(p, pull[p].ref)
  /\ proc' = IF proc = p THEN None ELSE proc
  /\ pulls(p, "sync", pull[p].ref, pull[p].id)
  /\ UNCHANGED <<mine, files, cache, pullRunner, reader, seen, sessions>>

(* It is done, failed, interrupted or killed.                                *)
PullEnds(p) ==
  /\ pull[p] # Idle
  /\ proc' = IF proc = p THEN None ELSE proc
  /\ image' = [r \in Refs |-> IF image[r] = p THEN None ELSE image[r]]
  /\ pull' = [pull EXCEPT ![p] = Idle]
  /\ UNCHANGED <<mine, files, cache, pullRunner, reader, seen, sessions>>

-----------------------------------------------------------------------------
(* status.Collect: agent.json, then Held, ...                                *)
Collect ==
  /\ reader = Idle /\ beside < MaxBeside
  /\ reader' = [at |-> "held", session |-> agentJson.id]
  /\ seen' = IF agent.at = "off" THEN {} ELSE {[id |-> agent.id, base |-> ref]}
  /\ UNCHANGED <<locks, mine, files, cache, pull, pullRunner, sessions>>

(* ... which takes the lock for a moment when it is free, ...                *)
Held ==
  /\ reader.at = "held"
  /\ proc' = IF proc = None THEN Reader ELSE proc
  /\ reader' = [at |-> "classify", session |-> reader.session, held |-> proc # None]
  /\ UNCHANGED <<image, mine, files, cache, pull, pullRunner, seen, sessions>>

(* ... then whether the session's pid is some process's, ...                 *)
classifyAgent(s, held, taken) ==
  CASE s # 0 /\ ~pidAlive(s, taken) -> "stale"
    [] pidAlive(s, taken) /\ held   -> "running"
    [] OTHER                        -> "stopped"

Classify(taken) ==
  /\ reader.at = "classify"
  /\ proc' = IF proc = Reader THEN None ELSE proc
  /\ reader' = [at |-> "config", session |-> reader.session,
                state |-> classifyAgent(reader.session, reader.held, taken),
                other |-> ~alive(reader.session) /\ taken]
  /\ UNCHANGED <<image, mine, files, cache, pull, pullRunner, seen, sessions>>

(* Mutant: the snapshot of a running agent is taken for its own. *)
mutRuntimeState(state, s) == IF state = "running" THEN "active" ELSE "stale"

(* ... and the frozen configuration.                                         *)
runtimeState(state, s) ==
  CASE state # "running"                             -> "stale"
    [] state = "running" /\ runtimeConfig.id = s     -> "active"
    [] OTHER                                         -> "pending"

LoadRuntimeInfo ==
  /\ reader.at = "config"
  /\ reader' = [at |-> "report", session |-> reader.session,
                state |-> reader.state, other |-> reader.other,
                runtime |-> IF runtimeConfig = NoSession THEN "none"
                            ELSE runtimeState(reader.state, reader.session),
                base |-> IF runtimeConfig = NoSession THEN None ELSE runtimeConfig.base]
  /\ UNCHANGED <<locks, mine, files, cache, pull, pullRunner, seen, sessions>>

Report ==
  /\ reader.at = "report"
  /\ reader' = Idle /\ seen' = {}
  /\ UNCHANGED <<locks, mine, files, cache, pull, pullRunner, sessions>>

-----------------------------------------------------------------------------
AgentStep ==
  \/ \E c \in config : Start(c)
  \/ ImageLocked \/ Ensure \/ Prune \/ WriteAgentSession
  \/ \E ok \in BOOLEAN : SyncImage(ok) \/ Download(ok) \/ SaveRuntimeConfig(ok)
  \/ CloneWaits \/ CloneBegins \/ CloneEnds \/ CloneCancelled
  \/ GhostAcquires \/ GhostReleases
  \/ Stop \/ Leave \/ Crash

PullStep ==
  \/ \E p \in Pulls, r \in Refs : PullWithLock(p, r) \/ SeesBusy(p, r)
  \/ \E p \in Pulls, taken \in BOOLEAN : LoadAgentSession(p, taken)
  \/ \E p \in Pulls : Confirm(p) \/ PullBegins(p) \/ PullEnds(p)
  \/ \E v \in Versions : PullRunner(v)
  \/ \E ok \in BOOLEAN : PulledRunner(ok)

StatusStep ==
  \/ Collect \/ Held \/ LoadRuntimeInfo \/ Report
  \/ \E taken \in BOOLEAN : Classify(taken)

Next == AgentStep \/ PullStep \/ StatusStep

Spec == Init /\ [][Next]_vars

(* A clone ends, by itself or with its spawn's time; that SyncImage ends,     *)
(* which has no deadline (tart.go:79), is assumed.  flock wakes its waiters,  *)
(* so one whose lock is free again and again gets it in the end.  Nobody has *)
(* to stop, and nobody has to cancel a wait.                                 *)
Fairness ==
  /\ SF_vars(ImageLocked) /\ SF_vars(CloneBegins) /\ SF_vars(GhostAcquires)
  /\ WF_vars(\E ok \in BOOLEAN : SyncImage(ok))
  /\ WF_vars(CloneEnds) /\ WF_vars(GhostReleases) /\ WF_vars(Leave)
  /\ \A p \in Pulls : SF_vars(PullBegins(p)) /\ WF_vars(pull[p].at = "sync" /\ PullEnds(p))

FairSpec == Spec /\ Fairness

-----------------------------------------------------------------------------
(* README.md:310 "Stop the agent before pulling the image it will clone next. *)
(* A running agent can pull a different image name; the next start waits     *)
(* until that pull finishes before syncing the same name": what live         *)
(* processes do to one image name is never done beside something else, no    *)
(* clone of a half pulled image, no two pulls, whichever process crashed or  *)
(* gave up waiting; an agent that starts while its image is pulled, the pull *)
(* begun without an agent, gets no further than the lock; and no pull is of  *)
(* the image of the very agent that it found running, whatever an earlier    *)
(* agent left and whoever has its pid.                                       *)
users(r) ==
  {a \in {Agent}  : agent.at = "sync" /\ ref = r}
    \cup {c \in {"clone"} : clone = "clone" /\ ref = r}
    \cup {p \in Pulls : pull[p].at = "sync" /\ pull[p].ref = r}

ImageIsStable ==
  /\ \A r \in Refs : Cardinality(users(r)) <= 1
  /\ \A p \in Pulls : pull[p].at = "sync" /\ agent.at # "off" /\ pull[p].ref = ref =>
       /\ pull[p].id # agent.id
       /\ pull[p].id = 0 => agent.at \in {"image", "leave"}

(* README.md:247 "the name a running agent will clone next has to wait until  *)
(* the agent is stopped", of every agent.  TLC refutes it: the agent that    *)
(* the pull found ends while the pull waits for the image lock, and the next *)
(* one has that image.                                                       *)
OtherImageOnly ==
  \A p \in Pulls : pull[p].at = "sync" /\ agent.at = "run" => pull[p].ref # ref

(* runnercache: once Ensure found or made the pinned version's tarball, the   *)
(* agent's spawns find it until the agent is gone, whatever is pulled beside. *)
PinnedStays == agent.at # "off" /\ agent.pinned => agent.conf.version \in cache

(* status.Collect reads four things one after the other.  A session that it  *)
(* calls running ran during the report, unless another process had its pid;  *)
(* the configuration that it calls active is the one which that very session *)
(* froze; and of a session that still runs it says so, and its configuration *)
(* is active unless it was not saved: pool.go:121 "so a new session never    *)
(* pairs with an old snapshot".                                              *)
StatusIsTrue ==
  reader.at = "report" =>
    /\ reader.state = "running" /\ ~reader.other => \E s \in seen : s.id = reader.session
    /\ \A s \in seen :
         s.id = reader.session /\ reader.runtime = "active" => reader.base = s.base
    /\ alive(reader.session) =>
         /\ reader.state = "running"
         /\ runtimeConfig.id = reader.session => reader.runtime = "active"

(* README.md:292 "live agent", whoever has the pid.  TLC refutes it: an agent *)
(* that starts holds the lock, and agent.json is still the last one's.       *)
StatusIsLive ==
  reader.at = "report" /\ reader.state = "running" => \E s \in seen : s.id = reader.session

(* AcquireWait: whoever waits for an image, a start, a clone or a pull, gets  *)
(* it or gives up, however many waits were cancelled before.                  *)
WaitEnds ==
  /\ agent.at = "image" ~> agent.at # "image"
  /\ clone = "wait" ~> clone # "wait"
  /\ \A p \in Pulls : pull[p].at \in {"first", "second"} ~> pull[p].at \notin {"first", "second"}
=============================================================================
