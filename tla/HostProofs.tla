----------------------------- MODULE HostProofs -----------------------------
(***************************************************************************)
(* What the commands of one host keep of each other, for every set of      *)
(* images, versions, configurations and pulls, and any number of sessions. *)
(***************************************************************************)
EXTENDS Host, FiniteSetTheorems, TLAPS

Alive == {"image", "sync", "ensure", "download", "prune", "save", "publish", "run", "leave"}

Agents ==
  [at : {"off"}, id : {0}]
    \cup [at : Alive \cup {"off"}, id : Nat \ {0},
          conf : [base : Refs, version : Versions], pinned : BOOLEAN]

PullStates ==
  {Idle} \cup [at : {"first", "busy", "confirm", "second", "sync"}, ref : Refs, id : Nat]

Configs == {NoSession} \cup [id : Nat \ {0}, base : Refs]

Types ==
  /\ image \in [Refs -> {None, Agent, "clone", "ghost"} \cup Pulls]
  /\ agent \in Agents
  /\ clone \in {"none", "wait", "clone"}
  /\ ghost \in {"none", "wait", "held"}
  /\ agentJson \in [id : Nat]
  /\ runtimeConfig \in Configs
  /\ pull \in [Pulls -> PullStates]
  /\ sessions \in Nat

(* A slot clones while the agent runs, and a cancelled wait ends with it.   *)
CloneInv ==
  /\ clone # "none" => agent.at = "run"
  /\ ghost # "none" => agent.at \in {"run", "leave"}

(* Whoever uses an image holds its lock. *)
LockInv ==
  \A r \in Refs :
    /\ agent.at = "sync" /\ ref = r => image[r] = Agent
    /\ clone = "clone" /\ ref = r => image[r] = "clone"
    /\ ghost = "held" /\ ref = r => image[r] = "ghost"
    /\ \A p \in Pulls : pull[p].at = "sync" /\ pull[p].ref = r => image[r] = p

(* No session has a number that was not given yet; a frozen configuration   *)
(* with the number of the present session is the one that it froze.         *)
SessionInv ==
  /\ agent.id <= sessions /\ agentJson.id <= sessions /\ runtimeConfig.id <= sessions
  /\ reader # Idle => reader.session \in Nat /\ reader.session <= sessions
  /\ \A p \in Pulls : pull[p] # Idle => pull[p].id <= sessions
  /\ agent.at # "off" /\ runtimeConfig.id = agent.id => runtimeConfig.base = ref

(* A pull beside an agent that it found running is of another image; one     *)
(* that found none keeps the agents from starting until it has the image.    *)
PullInv ==
  \A p \in Pulls :
    /\ pull[p].at \in {"confirm", "second"} => pull[p].id # 0
    /\ pull[p].at \in {"second", "sync"} /\ alive(pull[p].id) => pull[p].ref # ref
    /\ pull[p].at = "first" => proc = p
    /\ pull[p].at = "sync" /\ pull[p].id = 0 /\ agent.at # "off" /\ pull[p].ref = ref =>
         agent.at \in {"image", "leave"}

(* The agent holds the process lock. *)
ProcInv == agent.at # "off" => proc = Agent

(* A session is published when its configuration is frozen or could not be. *)
Unpublished == {"image", "sync", "ensure", "download", "prune", "save", "publish"}

CacheInv ==
  /\ agent.at = "prune" => agent.conf.version \in cache
  /\ PinnedStays

(* What status has seen are sessions with their configurations, the present *)
(* one among them.                                                          *)
SeenInv ==
  /\ \A s \in seen :
       /\ s.id \in 1..sessions
       /\ s.id = agent.id => s.base = ref
       /\ s.id = runtimeConfig.id => s.base = runtimeConfig.base
  /\ reader # Idle /\ agent.at # "off" => [id |-> agent.id, base |-> ref] \in seen

(* Of a session that still runs the reader finds what it has published.      *)
ReaderInv ==
  /\ reader.at = "classify" /\ alive(reader.session) => reader.held
  /\ reader.at \in {"config", "report"} =>
       /\ reader.state = "running" /\ ~reader.other => \E s \in seen : s.id = reader.session
       /\ alive(reader.session) => reader.state = "running"
  /\ reader.at = "report" =>
       /\ \A s \in seen :
            s.id = reader.session /\ reader.runtime = "active" => reader.base = s.base
       /\ alive(reader.session) /\ runtimeConfig.id = reader.session =>
            reader.runtime = "active"

(* A session that agent.json or the reader knows has passed its publication. *)
PublishedInv ==
  agent.at \in Unpublished =>
    agentJson.id # agent.id /\ (reader # Idle => reader.session # agent.id)

IInv ==
  /\ Types
  /\ CloneInv
  /\ LockInv
  /\ SessionInv
  /\ ProcInv
  /\ PullInv
  /\ CacheInv
  /\ PublishedInv
  /\ SeenInv
  /\ ReaderInv

-----------------------------------------------------------------------------
(* Type correctness. *)

LEMMA InitInv == Init => IInv
<1> SUFFICES ASSUME Init PROVE IInv
  OBVIOUS
<1> USE HoldersAssumption
<1>1. /\ agent = [at |-> "off", id |-> 0] /\ clone = "none" /\ ghost = "none" /\ sessions = 0
      /\ agentJson = NoSession /\ runtimeConfig = NoSession /\ seen = {} /\ reader = Idle
      /\ \A p \in Pulls : pull[p] = Idle
  BY DEF Init
<1>2. Types
  <2>1. agent \in Agents /\ runtimeConfig \in Configs /\ agentJson \in [id : Nat]
    BY <1>1 DEF Agents, Configs, NoSession
  <2>2. pull \in [Pulls -> PullStates]
    BY DEF Init, PullStates
  <2>3. image \in [Refs -> {None, Agent, "clone", "ghost"} \cup Pulls]
    BY DEF Init
  <2> QED
    BY <1>1, <2>1, <2>2, <2>3 DEF Types
<1>3. CloneInv /\ LockInv /\ SessionInv /\ ProcInv /\ PullInv
  BY <1>1 DEF CloneInv, LockInv, SessionInv, ProcInv, PullInv, Idle, NoSession
<1>4. CacheInv /\ SeenInv /\ ReaderInv /\ PublishedInv
  BY <1>1 DEF CacheInv, PinnedStays, SeenInv, ReaderInv, PublishedInv, Unpublished, Idle
<1> QED
  BY <1>2, <1>3, <1>4 DEF IInv

(* A running agent takes a step of its own. *)
LEMMA Steps ==
  ASSUME Types, agent.at # "off", NEW to \in Alive \cup {"off"}, step(to)
  PROVE  /\ agent' \in Agents
         /\ agent'.at = to /\ agent'.id = agent.id
         /\ agent'.conf = agent.conf /\ agent'.pinned = agent.pinned
<1> DEFINE S == [at : Alive \cup {"off"}, id : Nat \ {0},
                 conf : [base : Refs, version : Versions], pinned : BOOLEAN]
<1>1. agent \in S
  BY DEF Types, Agents
<1>2. agent' = [agent EXCEPT !.at = to]
  BY DEF step
<1> QED
  BY <1>1, <1>2 DEF Agents

(* ... and one of them finds its tarball. *)
LEMMA Pins ==
  ASSUME Types, agent.at # "off", agent' = [agent EXCEPT !.at = "save", !.pinned = TRUE]
  PROVE  /\ agent' \in Agents
         /\ agent'.at = "save" /\ agent'.id = agent.id /\ agent'.conf = agent.conf
<1> DEFINE S == [at : Alive \cup {"off"}, id : Nat \ {0},
                 conf : [base : Refs, version : Versions], pinned : BOOLEAN]
<1>1. agent \in S
  BY DEF Types, Agents
<1> QED
  BY <1>1 DEF Agents, Alive

LEMMA Running ==
  ASSUME Types, agent.at # "off"
  PROVE  agent.at \in Alive /\ agent.id \in Nat \ {0} /\ ref \in Refs
  BY DEF Types, Agents, ref

(* What a step does to the agent: only a start changes its session and its  *)
(* configuration.                                                           *)
Kept ==
  /\ agent' \in Agents
  /\ agent'.id = agent.id
  /\ agent.at # "off" => agent'.conf = agent.conf
  /\ agent.at = "off" => agent' = agent

LEMMA AgentMoves ==
  ASSUME Types, AgentStep, \A c \in config : ~Start(c)
  PROVE  Kept
<1>1. CASE agent' = agent
  BY <1>1 DEF Kept, Types
<1>2. ASSUME agent.at # "off", NEW to \in Alive \cup {"off"}, step(to) PROVE Kept
  BY <1>2, Steps DEF Kept
<1>3. CASE ImageLocked \/ Stop \/ Leave \/ Crash \/ WriteAgentSession
  BY <1>2, <1>3 DEF ImageLocked, Stop, Leave, Crash, WriteAgentSession, Alive
<1>4. ASSUME NEW ok \in BOOLEAN, SyncImage(ok) \/ Download(ok) \/ SaveRuntimeConfig(ok) PROVE Kept
  BY <1>2, <1>4 DEF SyncImage, Download, SaveRuntimeConfig, Alive
<1>5. CASE Ensure
  <2>1. CASE step("download")
    BY <1>2, <1>5, <2>1 DEF Ensure, Alive
  <2>2. CASE agent' = [agent EXCEPT !.at = "save", !.pinned = TRUE]
    BY <1>5, <2>2, Pins DEF Ensure, Kept
  <2> QED
    BY <1>5, <2>1, <2>2 DEF Ensure
<1>6. CASE Prune
  BY <1>6, Pins DEF Prune, Kept
<1>7. CASE CloneWaits \/ CloneBegins \/ CloneEnds \/ CloneCancelled \/ GhostAcquires \/ GhostReleases
  BY <1>1, <1>7
  DEF CloneWaits, CloneBegins, CloneEnds, CloneCancelled, GhostAcquires, GhostReleases
<1> QED
  BY <1>3, <1>4, <1>5, <1>6, <1>7 DEF AgentStep

LEMMA Starts ==
  ASSUME Types, NEW c \in config, Start(c)
  PROVE  /\ agent' \in Agents /\ agent.at = "off"
         /\ agent'.at = "image" /\ agent'.id = sessions + 1 /\ agent'.conf = c
         /\ agent'.pinned = FALSE
  BY ConfigAssumption DEF Start, Agents, Alive, Types

(* The others leave the agent alone. *)
LEMMA OthersMove ==
  PullStep \/ StatusStep => UNCHANGED <<mine, files, sessions>>
  BY DEF PullStep, PullWithLock, SeesBusy, LoadAgentSession, Confirm, PullBegins, PullEnds, PullRunner,
     PulledRunner, StatusStep, Collect, Held, Classify, LoadRuntimeInfo, Report

(* One pull moves. *)
LEMMA PullMoves ==
  ASSUME Types, NEW p \in Pulls, NEW c \in PullStates, pull' = [pull EXCEPT ![p] = c]
  PROVE  /\ pull'[p] = c
         /\ \A q \in Pulls \ {p} : pull'[q] = pull[q]
         /\ pull' \in [Pulls -> PullStates]
  BY DEF Types

LEMMA ImageType ==
  ASSUME Types, NEW r \in Refs, NEW who \in {None, Agent, "clone", "ghost"} \cup Pulls,
         image' = [image EXCEPT ![r] = who]
  PROVE  /\ image' \in [Refs -> {None, Agent, "clone", "ghost"} \cup Pulls]
         /\ image'[r] = who
         /\ \A q \in Refs \ {r} : image'[q] = image[q]
  BY DEF Types

LEMMA PullsKept == AgentStep \/ StatusStep => pull' = pull
  BY DEF AgentStep, Start, ImageLocked, SyncImage, Ensure, Download, Prune, SaveRuntimeConfig,
     WriteAgentSession, CloneWaits, CloneBegins, CloneEnds, CloneCancelled, GhostAcquires,
     GhostReleases, Stop, Leave, Crash, others, StatusStep, Collect, Held, Classify,
     LoadRuntimeInfo, Report

(* What a step does to the image locks. *)
LEMMA ImageMoves ==
  ASSUME Types, CloneInv, [Next]_vars, image' # image
  PROVE  \/ agent.at = "image" /\ acquireImage(Agent, ref)
         \/ agent.at = "sync" /\ releaseImage(ref)
         \/ clone = "wait" /\ acquireImage("clone", ref)
         \/ clone = "clone" /\ releaseImage(ref)
         \/ ghost = "wait" /\ acquireImage("ghost", ref)
         \/ ghost = "held" /\ releaseImage(ref)
         \/ Leave \/ Crash
         \/ \E p \in Pulls : PullBegins(p) \/ PullEnds(p)
<1>1. CASE AgentStep
  BY <1>1
  DEF AgentStep, Start, ImageLocked, SyncImage, Ensure, Download, Prune, SaveRuntimeConfig,
     WriteAgentSession, CloneWaits, CloneBegins, CloneEnds, CloneCancelled, GhostAcquires,
     GhostReleases, Stop, locks
<1>2. CASE PullStep
  BY <1>2 DEF PullStep, PullWithLock, SeesBusy, LoadAgentSession, Confirm, PullRunner, PulledRunner, locks
<1>3. CASE StatusStep \/ UNCHANGED vars
  BY <1>3 DEF StatusStep, Collect, Held, Classify, LoadRuntimeInfo, Report, locks, vars
<1> QED
  BY <1>1, <1>2, <1>3 DEF Next

LEMMA TypesStep ==
  ASSUME Types, CloneInv, [Next]_vars
  PROVE  Types'
<1> DEFINE Holders == {None, Agent, "clone", "ghost"} \cup Pulls
<1>1. clone' \in {"none", "wait", "clone"} /\ ghost' \in {"none", "wait", "held"}
  <2>1. CASE AgentStep
    BY <2>1
    DEF Types, AgentStep, Start, ImageLocked, SyncImage, Ensure, Download, Prune,
        SaveRuntimeConfig, WriteAgentSession, CloneWaits, CloneBegins, CloneEnds, CloneCancelled,
        GhostAcquires, GhostReleases, Stop, Leave, Crash
  <2> QED
    BY <2>1, OthersMove DEF Next, vars, mine, Types
<1>2. agent' \in Agents
  <2>1. CASE AgentStep
    BY <2>1, AgentMoves, Starts DEF Kept
  <2> QED
    BY <2>1, OthersMove DEF Next, vars, mine, Types
<1>3. sessions' \in Nat
  <2>1. CASE AgentStep
    BY <2>1
    DEF Types, AgentStep, Start, ImageLocked, SyncImage, Ensure, Download, Prune,
        SaveRuntimeConfig, WriteAgentSession, CloneWaits, CloneBegins, CloneEnds, CloneCancelled,
        GhostAcquires, GhostReleases, Stop, Leave, Crash
  <2> QED
    BY <2>1, OthersMove DEF Next, vars, Types
<1>4. agentJson' \in [id : Nat] /\ runtimeConfig' \in Configs
  <2>1. ASSUME NEW ok \in BOOLEAN, SaveRuntimeConfig(ok)
        PROVE  agentJson' \in [id : Nat] /\ runtimeConfig' \in Configs
    <3>1. [id |-> agent.id, base |-> ref] \in Configs
      BY <2>1, Running DEF SaveRuntimeConfig, Configs
    <3> QED
      BY <2>1, <3>1 DEF SaveRuntimeConfig, Types
  <2>2. CASE WriteAgentSession
    BY <2>2, Running DEF WriteAgentSession, Types
  <2>3. CASE UNCHANGED files
    BY <2>3 DEF files, Types
  <2>4. CASE AgentStep
    BY <2>1, <2>2, <2>3, <2>4
    DEF AgentStep, Start, ImageLocked, SyncImage, Ensure, Download, Prune, CloneWaits,
        CloneBegins, CloneEnds, CloneCancelled, GhostAcquires, GhostReleases, Stop, Leave, Crash
  <2> QED
    BY <2>3, <2>4, OthersMove DEF Next, vars, files
<1>5. pull' \in [Pulls -> PullStates]
  <2>1. CASE PullStep
    <3>1. ASSUME NEW p \in Pulls, NEW r \in Refs, PullWithLock(p, r) \/ SeesBusy(p, r)
          PROVE  pull' \in [Pulls -> PullStates]
      <4>1. PICK to \in {"first", "busy"}, id \in Nat : pulls(p, to, r, id)
        BY <3>1 DEF PullWithLock, SeesBusy
      <4> DEFINE c == [at |-> to, ref |-> r, id |-> id]
      <4>2. c \in PullStates
        BY DEF PullStates
      <4>3. pull' = [pull EXCEPT ![p] = c]
        BY <4>1 DEF pulls
      <4> HIDE DEF c
      <4> QED
        BY <4>2, <4>3, PullMoves
    <3>2. ASSUME NEW p \in Pulls,
                 \/ \E taken \in BOOLEAN : LoadAgentSession(p, taken)
                 \/ Confirm(p) \/ PullBegins(p) \/ PullEnds(p)
          PROVE  pull' \in [Pulls -> PullStates]
      <4>1. (pull[p].ref \in Refs /\ pull[p].id \in Nat) \/ pull[p] = Idle
        BY DEF Types, PullStates
      <4>2. ASSUME pull[p] # Idle, NEW to \in {"confirm", "second", "sync"}, NEW id \in Nat,
                   pulls(p, to, pull[p].ref, id)
            PROVE  pull' \in [Pulls -> PullStates]
        <5> DEFINE c == [at |-> to, ref |-> pull[p].ref, id |-> id]
        <5>1. c \in PullStates
          BY <4>1, <4>2 DEF PullStates
        <5>2. pull' = [pull EXCEPT ![p] = c]
          BY <4>2 DEF pulls
        <5> HIDE DEF c
        <5> QED
          BY <5>1, <5>2, PullMoves
      <4>3. Idle \in PullStates
        BY DEF PullStates
      <4> QED
        BY <3>2, <4>1, <4>2, <4>3, PullMoves
        DEF LoadAgentSession, Confirm, PullBegins, PullEnds, Idle, Types
    <3>3. CASE \/ \E v \in Versions : PullRunner(v)
               \/ \E ok \in BOOLEAN : PulledRunner(ok)
      BY <3>3 DEF PullRunner, PulledRunner, Types
    <3> QED
      BY <2>1, <3>1, <3>2, <3>3 DEF PullStep
  <2> QED
    BY <2>1, PullsKept DEF Next, vars, Types
<1>6. image' \in [Refs -> Holders]
  <2>1. ref \in Refs \/ agent.at = "off"
    BY Running
  <2>2. CASE Leave \/ Crash \/ \E p \in Pulls : PullEnds(p)
    BY <2>2 DEF Leave, Crash, PullEnds, Types
  <2>3. ASSUME NEW p \in Pulls, PullBegins(p) PROVE image' \in [Refs -> Holders]
    <3>1. pull[p].ref \in Refs
      BY <2>3 DEF PullBegins, Types, PullStates, Idle
    <3> QED
      BY <2>3, <3>1, ImageType DEF PullBegins, acquireImage
  <2>4. ASSUME agent.at # "off",
               \/ releaseImage(ref)
               \/ \E who \in {Agent, "clone", "ghost"} : acquireImage(who, ref)
        PROVE  image' \in [Refs -> Holders]
    BY <2>1, <2>4, ImageType DEF acquireImage, releaseImage
  <2> QED
    BY <2>2, <2>3, <2>4, ImageMoves DEF CloneInv, Types
<1> QED
  BY <1>1, <1>2, <1>3, <1>4, <1>5, <1>6 DEF Types
-----------------------------------------------------------------------------
(* The parts of the invariant. *)

LEMMA CloneStep ==
  ASSUME Types, CloneInv, [Next]_vars
  PROVE  CloneInv'
<1>1. CASE UNCHANGED mine
  BY <1>1 DEF mine, CloneInv
<1>2. ASSUME agent.at \notin {"run", "leave"}, UNCHANGED <<clone, ghost>> PROVE CloneInv'
  BY <1>2 DEF CloneInv
<1>3. CASE \E c \in config : Start(c)
  BY <1>2, <1>3 DEF Start
<1>4. CASE ImageLocked \/ Ensure \/ Prune \/ WriteAgentSession
  BY <1>2, <1>4 DEF ImageLocked, Ensure, Prune, WriteAgentSession
<1>5. ASSUME NEW ok \in BOOLEAN, SyncImage(ok) \/ Download(ok) \/ SaveRuntimeConfig(ok)
      PROVE  CloneInv'
  BY <1>2, <1>5 DEF SyncImage, Download, SaveRuntimeConfig
<1>6. CASE CloneWaits \/ CloneBegins \/ CloneEnds \/ CloneCancelled \/ GhostAcquires \/ GhostReleases
  BY <1>6
  DEF CloneInv, CloneWaits, CloneBegins, CloneEnds, CloneCancelled, GhostAcquires,
      GhostReleases
<1>7. CASE Stop
  BY <1>7, Steps DEF Stop, CloneInv, Alive
<1>8. CASE Leave \/ Crash
  BY <1>8 DEF Leave, Crash, CloneInv
<1> QED
  BY <1>1, <1>3, <1>4, <1>5, <1>6, <1>7, <1>8, OthersMove DEF Next, AgentStep, vars, mine

(* Each user of an image takes its lock first and drops it afterwards, and a  *)
(* process that ends takes no lock of another one with it.                    *)
LEMMA LockStep ==
  ASSUME Types, CloneInv, LockInv, [Next]_vars
  PROVE  LockInv'
<1> USE HoldersAssumption
<1>1. CASE UNCHANGED <<image, mine, pull>>
  BY <1>1 DEF LockInv, mine, ref
<1>2. CASE \E c \in config : Start(c)
  <2>1. /\ UNCHANGED <<image, clone, ghost, pull>> /\ clone = "none" /\ ghost = "none"
        /\ agent'.at = "image"
    BY <1>2, Starts DEF Start, CloneInv, Types, others
  <2> QED
    BY <2>1 DEF LockInv
<1>3. CASE ImageLocked
  <2>1. /\ agent'.at = "sync" /\ ref' = ref /\ ref \in Refs
        /\ UNCHANGED <<clone, ghost, pull>> /\ clone = "none" /\ ghost = "none"
        /\ image[ref] = None /\ image'[ref] = Agent
        /\ \A q \in Refs \ {ref} : image'[q] = image[q]
    BY <1>3, Steps, Running, ImageType
    DEF ImageLocked, acquireImage, CloneInv, Types, Alive, ref, others
  <2> QED
    BY <2>1 DEF LockInv
<1>4. ASSUME NEW ok \in BOOLEAN, SyncImage(ok) PROVE LockInv'
  <2>1. /\ agent'.at \in {"ensure", "leave"} /\ ref' = ref /\ ref \in Refs
        /\ UNCHANGED <<clone, ghost, pull>> /\ clone = "none" /\ ghost = "none"
        /\ image[ref] = Agent
        /\ \A q \in Refs \ {ref} : image'[q] = image[q]
    BY <1>4, Steps, Running, ImageType
    DEF SyncImage, releaseImage, CloneInv, LockInv, Types, Alive, ref, others
  <2> QED
    BY <2>1 DEF LockInv
<1>5. CASE \/ Ensure \/ Prune \/ WriteAgentSession \/ Stop
           \/ \E ok \in BOOLEAN : Download(ok) \/ SaveRuntimeConfig(ok)
  <2>1. agent'.at # "sync" /\ agent'.conf = agent.conf
    BY <1>5, Steps, Pins
    DEF Ensure, Prune, WriteAgentSession, Stop, Download, SaveRuntimeConfig, Alive
  <2>2. UNCHANGED <<image, clone, ghost, pull>>
    BY <1>5 DEF Ensure, Prune, WriteAgentSession, Stop, Download, SaveRuntimeConfig, locks, others
  <2> QED
    BY <2>1, <2>2 DEF LockInv, ref
<1>6. CASE CloneWaits \/ CloneCancelled
  BY <1>6 DEF CloneWaits, CloneCancelled, LockInv, locks, others, ref
<1>7. CASE CloneBegins \/ GhostAcquires
  <2>1. agent.at \in {"run", "leave"} /\ UNCHANGED <<agent, pull>> /\ ref \in Refs
    BY <1>7, Running DEF CloneBegins, GhostAcquires, CloneInv, others
  <2>2. /\ image[ref] = None
        /\ \A q \in Refs \ {ref} : image'[q] = image[q]
        /\ \/ clone' = "clone" /\ ghost' = ghost /\ image'[ref] = "clone"
           \/ clone' = clone /\ ghost' = "held" /\ image'[ref] = "ghost"
    BY <1>7, <2>1, ImageType DEF CloneBegins, GhostAcquires, acquireImage
  <2> QED
    BY <2>1, <2>2 DEF LockInv, ref
<1>8. CASE CloneEnds \/ GhostReleases
  <2>1. agent.at \in {"run", "leave"} /\ UNCHANGED <<agent, pull>> /\ ref \in Refs
    BY <1>8, Running DEF CloneEnds, GhostReleases, CloneInv, others
  <2>2. /\ \A q \in Refs \ {ref} : image'[q] = image[q]
        /\ \/ clone' = "none" /\ ghost' = ghost /\ image[ref] = "clone"
           \/ clone' = clone /\ ghost' = "none" /\ image[ref] = "ghost"
    BY <1>8, <2>1, ImageType DEF CloneEnds, GhostReleases, releaseImage, LockInv
  <2> QED
    BY <2>1, <2>2 DEF LockInv, ref
<1>9. CASE Leave \/ Crash
  <2>1. agent'.at = "off" /\ clone' = "none" /\ ghost' = "none" /\ pull' = pull
    BY <1>9, Steps DEF Leave, Crash, CloneInv, others
  <2>2. \A r \in Refs : image[r] \in Pulls => image'[r] = image[r]
    BY <1>9 DEF Leave, Crash
  <2> QED
    BY <2>1, <2>2 DEF LockInv
<1>10. ASSUME NEW p \in Pulls, NEW r \in Refs, PullWithLock(p, r) \/ SeesBusy(p, r) PROVE LockInv'
  <2>1. /\ pull'[p].at \in {"first", "busy"} /\ UNCHANGED <<image, mine>>
        /\ \A q \in Pulls \ {p} : pull'[q] = pull[q]
    BY <1>10 DEF PullWithLock, SeesBusy, pulls, locks, Types
  <2> QED
    BY <2>1 DEF LockInv, mine, ref
<1>11. ASSUME NEW p \in Pulls, Confirm(p) \/ \E taken \in BOOLEAN : LoadAgentSession(p, taken)
       PROVE  LockInv'
  <2>1. /\ pull'[p].at \in {"confirm", "second", "idle"} /\ UNCHANGED <<image, mine>>
        /\ \A q \in Pulls \ {p} : pull'[q] = pull[q]
    BY <1>11 DEF LoadAgentSession, Confirm, pulls, locks, Types, Idle
  <2> QED
    BY <2>1 DEF LockInv, mine, ref
<1>12. ASSUME NEW p \in Pulls, PullBegins(p) PROVE LockInv'
  <2> DEFINE r == pull[p].ref
  <2>1. r \in Refs /\ UNCHANGED mine
    BY <1>12 DEF PullBegins, Types, PullStates, Idle
  <2>2. /\ pull'[p].ref = r
        /\ \A q \in Pulls \ {p} : pull'[q] = pull[q]
    BY <1>12 DEF PullBegins, pulls, Types
  <2>3. /\ image[r] = None /\ image'[r] = p
        /\ \A q \in Refs \ {r} : image'[q] = image[q]
    BY <1>12, <2>1, ImageType DEF PullBegins, acquireImage
  <2> QED
    BY <2>1, <2>2, <2>3 DEF LockInv, mine, ref
<1>13. ASSUME NEW p \in Pulls, PullEnds(p) PROVE LockInv'
  <2>1. /\ pull'[p].at = "idle" /\ UNCHANGED mine
        /\ \A q \in Pulls \ {p} : pull'[q] = pull[q]
        /\ \A r \in Refs : image[r] # p => image'[r] = image[r]
    BY <1>13 DEF PullEnds, Types, Idle
  <2> QED
    BY <2>1 DEF LockInv, mine, ref
<1>14. CASE \/ StatusStep
            \/ \E v \in Versions : PullRunner(v)
            \/ \E ok \in BOOLEAN : PulledRunner(ok)
  BY <1>1, <1>14
  DEF StatusStep, Collect, Held, Classify, LoadRuntimeInfo, Report, PullRunner,
      PulledRunner, locks
<1>15. CASE UNCHANGED vars
  BY <1>1, <1>15 DEF vars, mine
<1> QED
  BY <1>2, <1>3, <1>4, <1>5, <1>6, <1>7, <1>8, <1>9, <1>10, <1>11, <1>12, <1>13, <1>14, <1>15
  DEF Next, AgentStep, PullStep

(* What a step does to the report and to what it has seen. *)
LEMMA ReaderMoves ==
  ASSUME (AgentStep /\ \A c \in config : ~Start(c)) \/ PullStep
  PROVE  UNCHANGED <<reader, seen>>
<1>1. CASE AgentStep /\ \A c \in config : ~Start(c)
  BY <1>1
  DEF AgentStep, ImageLocked, SyncImage, Ensure, Download, Prune, SaveRuntimeConfig,
      WriteAgentSession, CloneWaits, CloneBegins, CloneEnds, CloneCancelled, GhostAcquires,
      GhostReleases, Stop, Leave, Crash, others
<1>2. CASE PullStep
  BY <1>2
  DEF PullStep, PullWithLock, SeesBusy, LoadAgentSession, Confirm, PullBegins, PullEnds, PullRunner, PulledRunner
<1> QED
  BY <1>1, <1>2

(* A session's number is new, and what is written with it is its own. *)
LEMMA SessionStep ==
  ASSUME Types, CloneInv, SessionInv, [Next]_vars
  PROVE  SessionInv'
<1>1. CASE UNCHANGED <<agent, files, pull, reader, sessions>>
  BY <1>1 DEF SessionInv, files, ref
<1>2. ASSUME NEW c \in config, Start(c) PROVE SessionInv'
  <2>1. agent'.id = sessions + 1 /\ sessions' = sessions + 1 /\ UNCHANGED <<files, pull, reader>>
    BY <1>2, Starts DEF Start
  <2>2. runtimeConfig.id # agent'.id
    BY <2>1 DEF SessionInv, Types, Configs, NoSession
  <2> QED
    BY <2>1, <2>2 DEF SessionInv, Types, Agents, Configs, NoSession, PullStates, files
<1>3. CASE AgentStep /\ ~\E c \in config : Start(c)
  <2>1. Kept /\ pull' = pull /\ reader' = reader
    BY <1>3, AgentMoves, PullsKept, ReaderMoves
  <2>2. sessions' = sessions
    BY <1>3
    DEF AgentStep, ImageLocked, SyncImage, Ensure, Download, Prune, SaveRuntimeConfig,
        WriteAgentSession, CloneWaits, CloneBegins, CloneEnds, CloneCancelled, GhostAcquires,
        GhostReleases, Stop, Leave, Crash
  <2>3. CASE UNCHANGED files
    <3>1. agent.at = "off" => agent'.at = "off"
      BY <2>1 DEF Kept
    <3> QED
      BY <2>1, <2>2, <2>3, <3>1 DEF SessionInv, Kept, files, ref
  <2>4. ASSUME NEW ok \in BOOLEAN, SaveRuntimeConfig(ok) PROVE SessionInv'
    <3>1. /\ agent.at # "off" /\ agentJson' = agentJson
          /\ runtimeConfig' = runtimeConfig \/ runtimeConfig' = [id |-> agent.id, base |-> ref]
      BY <2>4 DEF SaveRuntimeConfig
    <3> QED
      BY <2>1, <2>2, <3>1 DEF SessionInv, Kept, ref
  <2>5. CASE WriteAgentSession
    <3>1. agent.at # "off" /\ agentJson' = [id |-> agent.id] /\ runtimeConfig' = runtimeConfig
      BY <2>5 DEF WriteAgentSession
    <3> QED
      BY <2>1, <2>2, <3>1 DEF SessionInv, Kept, ref
  <2> QED
    BY <1>3, <2>3, <2>4, <2>5
    DEF AgentStep, ImageLocked, SyncImage, Ensure, Download, Prune, CloneWaits, CloneBegins,
        CloneEnds, CloneCancelled, GhostAcquires, GhostReleases, Stop, Leave, Crash
<1>4. CASE PullStep
  <2>1. UNCHANGED <<mine, files, sessions>>
    BY <1>4, OthersMove
  <2>2. \A p \in Pulls : pull'[p] # Idle => pull'[p].id <= sessions
    <3>1. ASSUME NEW q \in Pulls, NEW c, pull' = [pull EXCEPT ![q] = c],
                 c # Idle => c.id <= sessions
          PROVE  \A p \in Pulls : pull'[p] # Idle => pull'[p].id <= sessions
      BY <3>1 DEF SessionInv, Types
    <3>2. ASSUME NEW q \in Pulls, NEW r \in Refs, PullWithLock(q, r) \/ SeesBusy(q, r)
          PROVE  \A p \in Pulls : pull'[p] # Idle => pull'[p].id <= sessions
      <4>1. PICK to \in {"first", "busy"} : pulls(q, to, r, 0)
        BY <3>2 DEF PullWithLock, SeesBusy
      <4>2. 0 <= sessions
        BY DEF Types
      <4> QED
        BY <3>1, <4>1, <4>2 DEF pulls
    <3>3. ASSUME NEW q \in Pulls, Confirm(q) \/ PullBegins(q) \/ PullEnds(q)
          PROVE  \A p \in Pulls : pull'[p] # Idle => pull'[p].id <= sessions
      <4>1. CASE pull' = [pull EXCEPT ![q] = Idle]
        BY <3>1, <4>1
      <4>2. ASSUME NEW to, pulls(q, to, pull[q].ref, pull[q].id), pull[q] # Idle
            PROVE  \A p \in Pulls : pull'[p] # Idle => pull'[p].id <= sessions
        BY <3>1, <4>2 DEF pulls, SessionInv
      <4> QED
        BY <3>3, <4>1, <4>2 DEF Confirm, PullBegins, PullEnds, Idle
    <3>4. ASSUME NEW q \in Pulls, NEW taken \in BOOLEAN, LoadAgentSession(q, taken)
          PROVE  \A p \in Pulls : pull'[p] # Idle => pull'[p].id <= sessions
      <4>1. agentJson.id <= sessions
        BY DEF SessionInv
      <4> QED
        BY <3>1, <3>4, <4>1 DEF LoadAgentSession, pulls
    <3>5. ASSUME pull' = pull
          PROVE  \A p \in Pulls : pull'[p] # Idle => pull'[p].id <= sessions
      BY <3>5 DEF SessionInv
    <3> QED
      BY <1>4, <3>2, <3>3, <3>4, <3>5 DEF PullStep, PullRunner, PulledRunner
  <2>3. reader' = reader
    BY <1>4, ReaderMoves
  <2> QED
    BY <2>1, <2>2, <2>3 DEF SessionInv, mine, files, ref
<1>5. CASE StatusStep
  <2>1. UNCHANGED <<agent, files, pull, sessions>>
    BY <1>5, OthersMove, PullsKept DEF mine
  <2>2. \/ reader'.session \in Nat /\ reader'.session <= sessions
        \/ reader' = Idle
    BY <1>5
    DEF StatusStep, Collect, Held, Classify, LoadRuntimeInfo, Report, SessionInv, Types, Idle
  <2> QED
    BY <2>1, <2>2 DEF SessionInv, files, ref
<1>6. CASE UNCHANGED vars
  BY <1>1, <1>6 DEF vars, files
<1> QED
  BY <1>2, <1>3, <1>4, <1>5, <1>6 DEF Next

(* Whoever takes the process lock finds it free, and drops only its own.      *)
LEMMA ProcStep ==
  ASSUME Types, ProcInv, [Next]_vars
  PROVE  ProcInv'
<1> USE HoldersAssumption
<1>1. CASE \E c \in config : Start(c)
  BY <1>1 DEF Start, ProcInv
<1>2. CASE AgentStep /\ ~\E c \in config : Start(c)
  <2>1. agent.at = "off" => agent' = agent
    BY <1>2, AgentMoves DEF Kept
  <2>2. CASE Leave \/ Crash
    BY <2>2, Steps DEF Leave, Crash, ProcInv
  <2>3. CASE ~Leave /\ ~Crash
    <3>1. proc' = proc
      BY <1>2, <2>3
      DEF AgentStep, ImageLocked, SyncImage, Ensure, Download, Prune, SaveRuntimeConfig,
          WriteAgentSession, CloneWaits, CloneBegins, CloneEnds, CloneCancelled, GhostAcquires,
          GhostReleases, Stop, locks
    <3> QED
      BY <2>1, <3>1 DEF ProcInv
  <2> QED
    BY <2>2, <2>3
<1>3. CASE PullStep \/ StatusStep \/ UNCHANGED vars
  <2>1. agent' = agent
    BY <1>3, OthersMove DEF mine, vars
  <2>2. proc = Agent => proc' = Agent
    BY <1>3
    DEF PullStep, PullWithLock, SeesBusy, LoadAgentSession, Confirm, PullBegins, PullEnds,
        PullRunner, PulledRunner, StatusStep, Collect, Held, Classify, LoadRuntimeInfo,
        Report, locks, vars
  <2> QED
    BY <2>1, <2>2 DEF ProcInv
<1> QED
  BY <1>1, <1>2, <1>3 DEF Next

(* A pull is let through beside a running agent only by that agent's own      *)
(* snapshot, and an agent that starts later is another one; a pull that found *)
(* no agent has the image lock before it drops the process lock.              *)
LEMMA PullKept ==
  ASSUME Types, CloneInv, LockInv, SessionInv, ProcInv, PullInv, [Next]_vars
  PROVE  PullInv'
<1> USE HoldersAssumption
<1>1. ASSUME agent' = agent, pull' = pull, \A p \in Pulls : proc = p => proc' = p PROVE PullInv'
  BY <1>1 DEF PullInv, alive, ref
<1>2. ASSUME NEW c \in config, Start(c) PROVE PullInv'
  <2>1. agent'.id = sessions + 1 /\ agent'.at = "image" /\ pull' = pull /\ proc = None
    BY <1>2, Starts DEF Start
  <2>2. \A p \in Pulls : pull[p] # Idle => pull[p].id # sessions + 1
    BY DEF SessionInv, Types, PullStates
  <2>3. \A p \in Pulls : pull[p].at # "first"
    BY <2>1 DEF PullInv
  <2> QED
    BY <2>1, <2>2, <2>3 DEF PullInv, alive, Idle
<1>3. CASE AgentStep /\ ~\E c \in config : Start(c)
  <2>1. Kept /\ pull' = pull
    BY <1>3, AgentMoves, PullsKept
  <2>2. ASSUME NEW id, alive(id)' PROVE alive(id) /\ ref' = ref
    BY <2>1, <2>2 DEF alive, Kept, ref
  <2>3. agent.at # "off"
    BY <1>3
    DEF AgentStep, ImageLocked, SyncImage, Ensure, Download, Prune, SaveRuntimeConfig,
        WriteAgentSession, CloneInv, CloneWaits, CloneBegins, CloneEnds, CloneCancelled,
        GhostAcquires, GhostReleases, Stop, Leave, Crash
  <2>4. \A p \in Pulls : pull[p].at # "first"
    BY <2>3 DEF ProcInv, PullInv
  <2>5. ASSUME NEW p \in Pulls, pull[p].at = "sync", pull[p].id = 0, agent'.at # "off",
               pull[p].ref = ref'
        PROVE  agent'.at \in {"image", "leave"}
    <3>1. ref' = ref /\ agent.at \in {"image", "leave"}
      BY <2>1, <2>3, <2>5 DEF Kept, ref, PullInv
    <3>2. image[ref] = p /\ ref \in Refs
      BY <2>3, <2>5, <3>1, Running DEF LockInv
    <3>3. ~ImageLocked
      BY <3>2 DEF ImageLocked, acquireImage
    <3>4. CASE Stop \/ Leave \/ Crash
      BY <2>5, <3>4, Steps DEF Stop, Leave, Crash, Alive
    <3>5. CASE agent' = agent
      BY <3>1, <3>5
    <3> QED
      BY <1>3, <3>1, <3>3, <3>4, <3>5
      DEF AgentStep, SyncImage, Ensure, Download, Prune, SaveRuntimeConfig, WriteAgentSession,
          CloneWaits, CloneBegins, CloneEnds, CloneCancelled, GhostAcquires, GhostReleases
  <2>6. \A p \in Pulls : alive(pull[p].id)' => alive(pull[p].id) /\ ref' = ref
    BY <2>1, <2>2
  <2> QED
    BY <2>1, <2>4, <2>5, <2>6 DEF PullInv, alive
<1>4. CASE PullStep
  <2>1. agent' = agent
    BY <1>4, OthersMove DEF mine
  <2>2. ASSUME NEW q \in Pulls, NEW c, pull' = [pull EXCEPT ![q] = c],
               \A p \in Pulls \ {q} : proc = p => proc' = p,
               c.at \in {"confirm", "second"} => c.id # 0,
               c.at \in {"second", "sync"} /\ alive(c.id) => c.ref # ref,
               c.at = "first" => proc' = q,
               c.at = "sync" /\ c.id = 0 => agent.at = "off" \/ agent.at \in {"image", "leave"}
        PROVE  PullInv'
    BY <2>1, <2>2 DEF PullInv, Types, alive, ref
  <2>3. ASSUME NEW p \in Pulls, NEW r \in Refs, PullWithLock(p, r) \/ SeesBusy(p, r)
        PROVE  PullInv'
    BY <2>2, <2>3 DEF PullWithLock, SeesBusy, pulls, locks
  <2>4. ASSUME NEW p \in Pulls, NEW taken \in BOOLEAN, LoadAgentSession(p, taken)
        PROVE  PullInv'
    BY <2>2, <2>4 DEF LoadAgentSession, pidAlive, pulls, locks, Idle
  <2>5. ASSUME NEW p \in Pulls, Confirm(p) PROVE PullInv'
    <3>1. CASE pull' = [pull EXCEPT ![p] = Idle]
      BY <2>2, <2>5, <3>1 DEF Confirm, locks, Idle
    <3>2. CASE /\ confirmedBaseImage(p) /\ runtimeConfig.base # pull[p].ref
               /\ pulls(p, "second", pull[p].ref, pull[p].id)
      <4>1. alive(pull[p].id) => pull[p].ref # ref
        BY <3>2 DEF confirmedBaseImage, alive, SessionInv
      <4>2. pull[p].id # 0
        BY <2>5 DEF Confirm, PullInv
      <4> QED
        BY <2>2, <2>5, <3>2, <4>1, <4>2 DEF Confirm, pulls, locks
    <3> QED
      BY <2>5, <3>1, <3>2 DEF Confirm
  <2>6. ASSUME NEW p \in Pulls, PullBegins(p) PROVE PullInv'
    <3>1. alive(pull[p].id) => pull[p].ref # ref
      BY <2>6 DEF PullBegins, PullInv, ProcInv, alive
    <3>2. pull[p].id = 0 => agent.at = "off"
      BY <2>6 DEF PullBegins, PullInv, ProcInv
    <3> QED
      BY <2>2, <2>6, <3>1, <3>2 DEF PullBegins, pulls
  <2>7. ASSUME NEW p \in Pulls, PullEnds(p) PROVE PullInv'
    BY <2>2, <2>7 DEF PullEnds, Idle
  <2>8. CASE \/ \E v \in Versions : PullRunner(v)
             \/ \E ok \in BOOLEAN : PulledRunner(ok)
    BY <1>1, <2>1, <2>8 DEF PullRunner, PulledRunner, locks
  <2> QED
    BY <1>4, <2>3, <2>4, <2>5, <2>6, <2>7, <2>8 DEF PullStep
<1>5. CASE StatusStep \/ UNCHANGED vars
  <2>1. agent' = agent /\ pull' = pull
    BY <1>5, OthersMove, PullsKept DEF vars, mine
  <2>2. \A p \in Pulls : proc = p => proc' = p
    BY <1>5 DEF StatusStep, Collect, Held, Classify, LoadRuntimeInfo, Report, locks, vars
  <2> QED
    BY <1>1, <2>1, <2>2
<1> QED
  BY <1>2, <1>3, <1>4, <1>5 DEF Next

(* Only the agent prunes, and what it keeps is its own version. *)
LEMMA CacheStep ==
  ASSUME Types, CloneInv, CacheInv, [Next]_vars
  PROVE  CacheInv'
<1>1. CASE agent' = agent /\ cache \subseteq cache'
  BY <1>1 DEF CacheInv, PinnedStays
<1>2. ASSUME agent.at # "off", NEW to \in Alive \cup {"off"}, step(to), to # "prune",
             cache' = cache
      PROVE  CacheInv'
  BY <1>2, Steps DEF CacheInv, PinnedStays
<1>3. ASSUME NEW c \in config, Start(c) PROVE CacheInv'
  BY <1>3, Starts DEF CacheInv, PinnedStays
<1>4. CASE ImageLocked \/ Stop \/ Leave \/ Crash \/ WriteAgentSession
  BY <1>2, <1>4 DEF ImageLocked, Stop, Leave, Crash, WriteAgentSession, Alive
<1>5. ASSUME NEW ok \in BOOLEAN, SyncImage(ok) \/ SaveRuntimeConfig(ok) PROVE CacheInv'
  BY <1>2, <1>5 DEF SyncImage, SaveRuntimeConfig, Alive
<1>6. ASSUME NEW ok \in BOOLEAN, Download(ok) PROVE CacheInv'
  <2>1. CASE ok
    BY <1>6, <2>1, Steps DEF Download, Alive, CacheInv, PinnedStays
  <2>2. CASE ~ok
    BY <1>2, <1>6, <2>2 DEF Download, Alive
  <2> QED
    BY <2>1, <2>2
<1>7. CASE Ensure
  <2>1. CASE step("download") /\ cache' = cache
    BY <1>2, <1>7, <2>1 DEF Ensure, Alive
  <2>2. CASE /\ agent.conf.version \in cache /\ cache' = cache
             /\ agent' = [agent EXCEPT !.at = "save", !.pinned = TRUE]
    BY <1>7, <2>2, Pins DEF Ensure, CacheInv, PinnedStays
  <2> QED
    BY <1>7, <2>1, <2>2 DEF Ensure
<1>8. CASE Prune
  BY <1>8, Pins DEF Prune, pruneOther, CacheInv, PinnedStays
<1>9. CASE CloneWaits \/ CloneBegins \/ CloneEnds \/ CloneCancelled \/ GhostAcquires \/ GhostReleases
  BY <1>1, <1>9
  DEF CloneWaits, CloneBegins, CloneEnds, CloneCancelled, GhostAcquires, GhostReleases
<1>10. CASE PullStep \/ StatusStep \/ UNCHANGED vars
  <2>1. agent' = agent
    BY <1>10, OthersMove DEF mine, vars
  <2>2. cache \subseteq cache'
    BY <1>10
    DEF PullStep, PullWithLock, SeesBusy, LoadAgentSession, Confirm, PullBegins, PullEnds, PullRunner,
        PulledRunner, cached, StatusStep, Collect, Held, Classify, LoadRuntimeInfo, Report, vars
  <2> QED
    BY <1>1, <2>1, <2>2
<1> QED
  BY <1>3, <1>4, <1>5, <1>6, <1>7, <1>8, <1>9, <1>10 DEF Next, AgentStep

(* The frozen configuration is the present session's, or stays. *)
LEMMA Freezes ==
  ASSUME AgentStep
  PROVE  \/ runtimeConfig' = runtimeConfig
         \/ agent.at = "save" /\ runtimeConfig' = [id |-> agent.id, base |-> ref]
  BY DEF AgentStep, Start, ImageLocked, SyncImage, Ensure, Download, Prune, SaveRuntimeConfig,
      WriteAgentSession, CloneWaits, CloneBegins, CloneEnds, CloneCancelled, GhostAcquires,
      GhostReleases, Stop, Leave, Crash, files

LEMMA SeenStep ==
  ASSUME Types, CloneInv, SessionInv, SeenInv, [Next]_vars
  PROVE  SeenInv'
<1>1. ASSUME NEW c \in config, Start(c) PROVE SeenInv'
  <2>1. /\ agent'.id = sessions + 1 /\ ref' = c.base /\ sessions' = sessions + 1
        /\ UNCHANGED <<files, reader>>
        /\ seen' = IF reader = Idle THEN {} ELSE seen \cup {[id |-> agent'.id, base |-> c.base]}
    BY <1>1, Starts DEF Start, ref
  <2>2. runtimeConfig.id <= sessions /\ sessions \in Nat /\ runtimeConfig.id \in Nat
    BY DEF SessionInv, Types, Configs, NoSession
  <2>3. CASE reader = Idle
    BY <2>1, <2>3 DEF SeenInv
  <2>4. CASE reader # Idle
    <3> DEFINE new == [id |-> agent'.id, base |-> c.base]
    <3>1. new.id = sessions + 1 /\ new.base = c.base /\ seen' = seen \cup {new}
      BY <2>1, <2>4
    <3>2. new = [id |-> agent'.id, base |-> ref']
      BY <2>1
    <3> HIDE DEF new
    <3>3. ASSUME NEW s \in seen'
          PROVE  /\ s.id \in 1..sessions'
                 /\ s.id = agent'.id => s.base = ref'
                 /\ s.id = runtimeConfig'.id => s.base = runtimeConfig'.base
      <4>1. CASE s = new
        BY <2>1, <2>2, <3>1, <4>1 DEF files
      <4>2. CASE s \in seen
        BY <2>1, <2>2, <3>1, <4>2 DEF SeenInv, files
      <4> QED
        BY <3>1, <4>1, <4>2
    <3> QED
      BY <2>1, <3>1, <3>2, <3>3 DEF SeenInv
  <2> QED
    BY <2>3, <2>4
<1>2. CASE AgentStep /\ ~\E c \in config : Start(c)
  <2>1. Kept /\ UNCHANGED <<reader, seen>>
    BY <1>2, AgentMoves, ReaderMoves
  <2>2. sessions' = sessions
    BY <1>2
    DEF AgentStep, ImageLocked, SyncImage, Ensure, Download, Prune, SaveRuntimeConfig,
        WriteAgentSession, CloneWaits, CloneBegins, CloneEnds, CloneCancelled, GhostAcquires,
        GhostReleases, Stop, Leave, Crash
  <2>3. agent'.id = agent.id /\ ref' = ref /\ (agent'.at # "off" => agent.at # "off")
    BY <2>1 DEF Kept, ref
  <2>4. \/ runtimeConfig' = runtimeConfig
        \/ runtimeConfig'.id = agent.id /\ runtimeConfig'.base = ref
    BY <1>2, Freezes
  <2> QED
    BY <2>1, <2>2, <2>3, <2>4 DEF SeenInv
<1>3. CASE PullStep \/ UNCHANGED vars
  <2>1. UNCHANGED <<agent, files, sessions, reader, seen>>
    <3>1. CASE PullStep
      <4>1. UNCHANGED <<reader, seen>>
        BY <3>1
        DEF PullStep, PullWithLock, SeesBusy, LoadAgentSession, Confirm, PullBegins, PullEnds, PullRunner,
            PulledRunner
      <4> QED
        BY <3>1, <4>1, OthersMove DEF mine
    <3> QED
      BY <1>3, <3>1 DEF vars, files
  <2> QED
    BY <2>1 DEF SeenInv, files, ref
<1>4. CASE StatusStep
  <2>1. UNCHANGED <<agent, files, sessions>>
    BY <1>4, OthersMove DEF mine
  <2>2. CASE Collect
    <3> DEFINE now == [id |-> agent.id, base |-> ref]
    <3>1. now.id = agent.id /\ now.base = ref
      OBVIOUS
    <3>2. seen' = IF agent.at = "off" THEN {} ELSE {now}
      BY <2>2 DEF Collect
    <3>3. ref' = ref
      BY <2>1 DEF ref
    <3> HIDE DEF now
    <3>4. agent.at # "off" => agent.id \in 1..sessions
      BY Running DEF SessionInv, Types
    <3>5. agent'.at # "off" => [id |-> agent'.id, base |-> ref'] \in seen'
      BY <2>1, <3>2, <3>3 DEF now
    <3>6. \A s \in seen' : s = now /\ agent.at # "off"
      BY <3>2
    <3> QED
      BY <2>1, <3>1, <3>3, <3>4, <3>5, <3>6 DEF SeenInv, SessionInv, files
  <2>3. CASE Held \/ LoadRuntimeInfo \/ \E taken \in BOOLEAN : Classify(taken)
    BY <2>1, <2>3 DEF Held, Classify, LoadRuntimeInfo, SeenInv, files, ref, Idle
  <2>4. CASE Report
    BY <2>1, <2>4 DEF Report, SeenInv
  <2> QED
    BY <1>4, <2>2, <2>3, <2>4 DEF StatusStep
<1> QED
  BY <1>1, <1>2, <1>3, <1>4 DEF Next

(* A report says of a session that still runs what it has published, and what *)
(* it calls active is of the session that it names.                           *)
LEMMA ReaderStep ==
  ASSUME Types, CloneInv, SessionInv, ProcInv, PublishedInv, SeenInv, ReaderInv, [Next]_vars
  PROVE  ReaderInv'
<1>1. ASSUME Kept, reader' = reader, seen' = seen,
             \/ runtimeConfig' = runtimeConfig
             \/ runtimeConfig'.id = agent.id /\ agent.at \in Unpublished
      PROVE  ReaderInv'
  <2>1. \A id : alive(id)' => alive(id)
    BY <1>1 DEF Kept, alive
  <2>2. reader.at = "report" => reader # Idle
    BY DEF Idle
  <2>3. reader.at = "report" /\ alive(reader.session) => agent.at \notin Unpublished
    BY <2>2 DEF PublishedInv, alive
  <2> QED
    BY <1>1, <2>1, <2>3 DEF ReaderInv, alive
<1>2. ASSUME NEW c \in config, Start(c) PROVE ReaderInv'
  <2>1. agent'.id = sessions + 1 /\ reader' = reader /\ runtimeConfig' = runtimeConfig
        /\ seen' = IF reader = Idle THEN {} ELSE seen \cup {[id |-> agent'.id, base |-> c.base]}
    BY <1>2, Starts DEF Start, files
  <2>2. CASE reader = Idle
    BY <2>1, <2>2 DEF ReaderInv, Idle
  <2>3. CASE reader # Idle
    <3>1. reader.session # sessions + 1
      BY <2>3 DEF SessionInv, Types
    <3>2. ~alive(reader.session)'
      BY <2>1, <3>1 DEF alive
    <3>3. \A s \in seen' : s.id = reader.session => s \in seen
      BY <2>1, <2>3, <3>1
    <3>4. seen \subseteq seen'
      BY <2>1, <2>3
    <3> QED
      BY <2>1, <3>2, <3>3, <3>4 DEF ReaderInv
  <2> QED
    BY <2>2, <2>3
<1>3. CASE AgentStep /\ ~\E c \in config : Start(c)
  <2>1. Kept /\ UNCHANGED <<reader, seen>>
    BY <1>3, AgentMoves, ReaderMoves
  <2>2. runtimeConfig' = runtimeConfig
        \/ (runtimeConfig'.id = agent.id /\ agent.at \in Unpublished)
    BY <1>3, Freezes DEF Unpublished
  <2> QED
    BY <1>1, <2>1, <2>2
<1>4. CASE PullStep \/ UNCHANGED vars
  <2>1. UNCHANGED <<agent, runtimeConfig, reader, seen>>
    BY <1>4, ReaderMoves, OthersMove DEF vars, mine, files
  <2> QED
    BY <1>1, <2>1 DEF Kept, Types
<1>5. ASSUME StatusStep PROVE UNCHANGED <<agent, runtimeConfig>>
  BY <1>5, OthersMove DEF mine, files
<1>6. CASE Collect \/ Report
  BY <1>6 DEF Collect, Report, ReaderInv, Idle
<1>7. CASE Held
  <2>1. /\ reader'.at = "classify" /\ reader'.session = reader.session
        /\ reader'.held = (proc # None)
    BY <1>7 DEF Held
  <2>2. agent' = agent
    BY <1>5, <1>7 DEF StatusStep
  <2>3. alive(reader.session)' => proc # None
    BY <2>2, HoldersAssumption DEF ProcInv, alive
  <2> QED
    BY <2>1, <2>3 DEF ReaderInv, alive
<1>8. ASSUME NEW taken \in BOOLEAN, Classify(taken) PROVE ReaderInv'
  <2>1. /\ reader'.at = "config" /\ reader'.session = reader.session /\ seen' = seen
        /\ reader'.state = classifyAgent(reader.session, reader.held, taken)
        /\ reader'.other = (~alive(reader.session) /\ taken)
        /\ reader.at = "classify" /\ reader # Idle
    BY <1>8 DEF Classify, Idle
  <2>2. agent' = agent
    BY <1>5, <1>8 DEF StatusStep
  <2>3. alive(reader.session) => \E s \in seen : s.id = reader.session
    BY <2>1 DEF SeenInv, alive
  <2>4. reader'.state = "running" /\ ~reader'.other => alive(reader.session)
    BY <2>1 DEF classifyAgent, pidAlive
  <2>5. alive(reader.session) => reader.session # 0 /\ reader.held
    BY <2>1, Running DEF ReaderInv, alive
  <2>6. alive(reader.session) => reader'.state = "running"
    BY <2>1, <2>5 DEF classifyAgent, pidAlive
  <2>7. alive(reader.session)' <=> alive(reader.session)
    BY <2>1, <2>2 DEF alive
  <2> QED
    BY <2>1, <2>3, <2>4, <2>6, <2>7 DEF ReaderInv
<1>9. CASE LoadRuntimeInfo
  <2>1. /\ reader.at = "config" /\ reader'.at = "report" /\ seen' = seen
        /\ reader'.state = reader.state /\ reader'.session = reader.session
        /\ reader'.other = reader.other
        /\ reader'.runtime = IF runtimeConfig = NoSession THEN "none"
                             ELSE runtimeState(reader.state, reader.session)
        /\ reader'.base = IF runtimeConfig = NoSession THEN None ELSE runtimeConfig.base
    BY <1>9 DEF LoadRuntimeInfo
  <2>2. UNCHANGED <<agent, runtimeConfig>>
    BY <1>5, <1>9 DEF StatusStep
  <2>3. reader'.runtime = "active" =>
          runtimeConfig.id = reader.session /\ reader'.base = runtimeConfig.base
    BY <2>1 DEF runtimeState
  <2>4. alive(reader.session)' => alive(reader.session)
    BY <2>1, <2>2 DEF alive
  <2>5. alive(reader.session) /\ runtimeConfig.id = reader.session => reader'.runtime = "active"
    <3> SUFFICES ASSUME alive(reader.session), runtimeConfig.id = reader.session
                 PROVE  reader'.runtime = "active"
      OBVIOUS
    <3>1. runtimeConfig # NoSession
      BY Running DEF alive, NoSession
    <3>2. reader.state = "running"
      BY <2>1 DEF ReaderInv
    <3> QED
      BY <2>1, <3>1, <3>2 DEF runtimeState
  <2> QED
    BY <2>1, <2>2, <2>3, <2>4, <2>5 DEF ReaderInv, SeenInv
<1> QED
  BY <1>2, <1>3, <1>4, <1>6, <1>7, <1>8, <1>9 DEF Next, StatusStep

(* Nobody knows a session before it is published. *)
LEMMA PublishedStep ==
  ASSUME Types, CloneInv, SessionInv, PublishedInv, [Next]_vars
  PROVE  PublishedInv'
<1>1. ASSUME NEW c \in config, Start(c) PROVE PublishedInv'
  <2>1. agent'.id = sessions + 1 /\ UNCHANGED <<agentJson, reader>>
    BY <1>1, Starts DEF Start, files
  <2> QED
    BY <2>1 DEF PublishedInv, SessionInv, Types
<1>2. CASE AgentStep /\ ~\E c \in config : Start(c)
  <2>1. Kept /\ reader' = reader
    BY <1>2, AgentMoves, ReaderMoves
  <2>2. CASE WriteAgentSession
    BY <2>2, Steps DEF WriteAgentSession, PublishedInv, Unpublished, Alive
  <2>3. CASE ~WriteAgentSession
    <3>1. agentJson' = agentJson
      BY <1>2, <2>3
      DEF AgentStep, ImageLocked, SyncImage, Ensure, Download, Prune, SaveRuntimeConfig,
          CloneWaits, CloneBegins, CloneEnds, CloneCancelled, GhostAcquires,
          GhostReleases, Stop, Leave, Crash, files
    <3>2. agent'.at \in Unpublished => agent.at \in Unpublished
      <4>1. CASE agent.at \in Unpublished
        BY <4>1
      <4>2. CASE agent.at \in {"off", "run", "leave"}
        <5>1. agent' = agent \/ Stop \/ Leave \/ Crash
          BY <1>2, <4>2
          DEF AgentStep, ImageLocked, SyncImage, Ensure, Download, Prune, SaveRuntimeConfig,
              WriteAgentSession, CloneWaits, CloneBegins, CloneEnds, CloneCancelled,
              GhostAcquires, GhostReleases
        <5>2. ASSUME Stop \/ Leave \/ Crash PROVE agent'.at \in {"leave", "off"}
          BY <5>2, Steps DEF Stop, Leave, Crash, Alive
        <5> QED
          BY <4>2, <5>1, <5>2 DEF Unpublished
      <4> QED
        BY <4>1, <4>2, Running DEF Alive, Unpublished
    <3> QED
      BY <2>1, <3>1, <3>2 DEF PublishedInv, Kept
  <2> QED
    BY <2>2, <2>3
<1>3. CASE PullStep \/ UNCHANGED vars
  <2>1. UNCHANGED <<agent, agentJson, reader>>
    BY <1>3, OthersMove, ReaderMoves DEF mine, files, vars
  <2> QED
    BY <2>1 DEF PublishedInv
<1>4. CASE StatusStep
  <2>1. UNCHANGED <<agent, agentJson>>
    BY <1>4, OthersMove DEF mine, files
  <2>2. \/ reader' = Idle
        \/ reader'.session = agentJson.id
        \/ reader # Idle /\ reader'.session = reader.session
    BY <1>4 DEF StatusStep, Collect, Held, Classify, LoadRuntimeInfo, Report, Idle
  <2> QED
    BY <2>1, <2>2 DEF PublishedInv
<1> QED
  BY <1>1, <1>2, <1>3, <1>4 DEF Next

-----------------------------------------------------------------------------
(* The inductive invariant holds of every host.                               *)
THEOREM Invariance == Spec => []IInv
<1>1. IInv /\ [Next]_vars => IInv'
  BY TypesStep, CloneStep, LockStep, SessionStep, ProcStep, PullKept, CacheStep, PublishedStep,
     SeenStep, ReaderStep
  DEF IInv
<1> QED
  BY InitInv, <1>1, PTL DEF Spec

(* README.md:310, image.go:55: an image has one user at a time, as its users   *)
(* hold its lock; an agent whose image is pulled by somebody who found no      *)
(* agent waits for that pull; and a pull is not of the image of the one agent  *)
(* that it found running.                                                     *)
THEOREM OneUserPerImage == Spec => []ImageIsStable
<1>1. IInv => ImageIsStable
  <2> SUFFICES ASSUME IInv PROVE ImageIsStable
    OBVIOUS
  <2>1. ASSUME NEW r \in Refs PROVE Cardinality(users(r)) <= 1
    <3>1. users(r) \subseteq {image[r]}
      BY <2>1 DEF IInv, LockInv, users
    <3>2. IsFiniteSet({image[r]}) /\ Cardinality({image[r]}) = 1
      BY FS_Singleton
    <3>3. Cardinality(users(r)) <= Cardinality({image[r]})
      BY <3>1, <3>2, FS_Subset
    <3> QED
      BY <3>2, <3>3
  <2> QED
    BY <2>1 DEF ImageIsStable, IInv, PullInv, alive
<1> QED
  BY <1>1, Invariance, PTL

(* runnercache.go: the tarball that a running agent is pinned to stays.        *)
THEOREM PinnedTarballStays == Spec => []PinnedStays
<1>1. IInv => PinnedStays
  BY DEF IInv, CacheInv
<1> QED
  BY <1>1, Invariance, PTL

(* status.go, pool.go:121: what a report calls running ran while it was made,  *)
(* unless another process had its pid; what it calls active is what the named  *)
(* session froze; and of a session that still runs it says both.              *)
THEOREM ReportOfOneSession == Spec => []StatusIsTrue
<1>1. IInv => StatusIsTrue
  BY DEF IInv, ReaderInv, StatusIsTrue
<1> QED
  BY <1>1, Invariance, PTL
=============================================================================
