--------------------------- MODULE HostCredential ---------------------------
(***************************************************************************)
(* The hosted app's credential: src/internal/hostcredential, the           *)
(* BrokerRegistrar of src/internal/registrar that spends it, the broker of *)
(* src/internal/brokerhttp that issues and verifies it, and                *)
(* `utsusemi configure app`, which replaces it.                            *)
(*                                                                         *)
(* The keychain holds a host JWT and a GitHub refresh token.  Callers of   *)
(* several processes refresh it one at a time (credential.refresh.lock;    *)
(* the manager's own mutex excludes nothing more).  GitHub accepts a       *)
(* refresh token once and answers with the next one.  A Set of the         *)
(* keychain is two runs of security(1): it deletes the bundle, then adds   *)
(* the new one (keychain/darwin.go:34).                                    *)
(***************************************************************************)
EXTENDS Integers, FiniteSets

CONSTANTS
  Callers, None,
  Processes, ProcessOf,   \* the process each caller is a goroutine of
  Targets, TargetsOf,     \* the runner groups each caller may be configured for
  ConfiguredTarget,       \* the one `configure app` asks for
  Commands,               \* callers that are commands, not goroutines of the agent
  Attempts,               \* doWithRetry: 5 in the code
  Faults,       \* of {"github", "lost", "delete", "store", "broker", "busy", "crash"}
  MaxFaults, MaxRequests, MaxKeys, MaxConfigures   \* bounds

ASSUME CredentialAssumption ==
  /\ ProcessOf \in [Callers -> Processes]
  /\ TargetsOf \in [Callers -> SUBSET Targets]
  /\ ConfiguredTarget \in Targets
  /\ Commands \subseteq Callers
  /\ Attempts \in Nat \ {0}
  /\ MaxKeys \in Nat
  /\ None \notin Callers

VARIABLES
  keychain,     \* the stored bundle
  valid,        \* refresh tokens GitHub still accepts
  issued,       \* the last one it issued
  signKey,      \* the broker's signing key, by its number
  refresher,    \* who holds credential.refresh.lock
  caller,       \* each caller's request
  conf,         \* `configure app`
  spoiled,      \* history: an interruption lost the credential
  troubled,     \* history: callers with a cause to fail
  count         \* of requests, faults and runs of `configure app`

vars == <<keychain, valid, issued, signKey, refresher, caller, conf, spoiled, troubled, count>>

github  == <<valid, issued>>
history == <<spoiled, troubled>>

(* A JWT's age: 0, then 1 within RefreshThreshold of its end, 2 expired.     *)
JWTs == [target : Targets, key : 0..MaxKeys, age : 0..2]
Bundle(jwt, refresh) == [there |-> TRUE, jwt |-> jwt, refresh |-> refresh]
NoBundle == [there |-> FALSE]

Idle == [at |-> "idle"]

Init ==
  /\ \E t \in Targets :
       keychain = Bundle([target |-> t, key |-> 0, age |-> 0], 0)
  /\ valid = {0} /\ issued = 0
  /\ signKey = 0
  /\ refresher = None
  /\ caller = [p \in Callers |-> Idle]
  /\ conf = Idle
  /\ spoiled = FALSE /\ troubled = {}
  /\ count = [requests |-> 0, faults |-> 0, configures |-> 0]

at(p, step) == caller[p].at = step
goto(p, c)  == caller' = [caller EXCEPT ![p] = c]
ends(p) == goto(p, Idle)

fault(f) ==
  /\ f \in Faults /\ count.faults < MaxFaults
  /\ count' = [count EXCEPT !.faults = @ + 1]

-----------------------------------------------------------------------------
(* CreateJIT, DeleteRunner, ListRunners or ValidateCredential.               *)
Request(p) ==
  /\ at(p, "idle") /\ count.requests < MaxRequests
  /\ count' = [count EXCEPT !.requests = @ + 1]
  /\ \E t \in TargetsOf[p] :
       goto(p, [at |-> "want", target |-> t, force |-> FALSE, calls |-> TRUE])
  /\ troubled' = troubled \ {p}
  /\ UNCHANGED <<keychain, github, signKey, refresher, conf, spoiled>>

(* `configure app --refresh`: a forced refresh, and no call after it.        *)
tryAppOAuthRefresh(p) ==
  /\ p \in Commands
  /\ at(p, "idle") /\ count.requests < MaxRequests
  /\ count' = [count EXCEPT !.requests = @ + 1]
  /\ \E t \in TargetsOf[p] :
       goto(p, [at |-> "want", target |-> t, force |-> TRUE, calls |-> FALSE])
  /\ troubled' = troubled \ {p}
  /\ UNCHANGED <<keychain, github, signKey, refresher, conf, spoiled>>

(* EnsureFresh: forced, near its end, or issued for another target.           *)
NeedsRefresh(jwt, force) == force \/ jwt.age >= 1

(* Mutant: the token of another target will do. *)
mutNeeds(p) == NeedsRefresh(keychain.jwt, caller[p].force)

otherTarget(p) == keychain.jwt.target # caller[p].target

needs(p) == NeedsRefresh(keychain.jwt, caller[p].force) \/ otherTarget(p)

returns(p, jwt) ==
  IF caller[p].calls
  THEN goto(p, [at |-> "call", target |-> caller[p].target, force |-> caller[p].force,
                token |-> jwt, attempt |-> 1])
  ELSE ends(p)

(* The lock, then Load, twice when a refresh is needed: what a second Load   *)
(* finds is judged again.  An entry that is not there fails the request; it  *)
(* has a cause if it was lost, or if `configure app`, which takes no lock,   *)
(* is about to add it.                                                       *)
EnsureFresh(p) ==
  /\ at(p, "want") /\ refresher = None
  /\ \/ ~keychain.there /\ ends(p) /\ UNCHANGED refresher
     \/ /\ keychain.there /\ needs(p)
        /\ refresher' = p
        /\ goto(p, [at |-> "refresh", target |-> caller[p].target, force |-> caller[p].force,
                    calls |-> caller[p].calls, bundle |-> keychain])
     \/ keychain.there /\ ~needs(p) /\ returns(p, keychain.jwt) /\ UNCHANGED refresher
  /\ troubled' = IF spoiled \/ conf.at = "add" THEN troubled \cup {p} ELSE troubled
  /\ UNCHANGED <<keychain, github, signKey, conf, spoiled, count>>

gives(p, c) == goto(p, [caller[p] EXCEPT !.at = c.at, !.bundle = c.bundle])
moves(p, step) == goto(p, [caller[p] EXCEPT !.at = step])

(* Set's first half; an error of it is ignored.                              *)
deletes ==
  \/ keychain' = NoBundle /\ UNCHANGED count
  \/ UNCHANGED keychain /\ fault("delete")

(* Its second half.                                                          *)
adds(bundle) == keychain' = bundle /\ spoiled' = FALSE

(* RefreshGitHubToken: GitHub's side of it ...                               *)
RefreshGitHubToken(p) ==
  /\ at(p, "refresh")
  /\ IF caller[p].bundle.refresh \in valid
     THEN /\ issued' = issued + 1
          /\ valid' = (valid \ {caller[p].bundle.refresh}) \cup {issued'}
          /\ gives(p, [at |-> "rotated", bundle |-> [caller[p].bundle EXCEPT !.refresh = issued']])
          /\ UNCHANGED refresher
     ELSE ends(p) /\ refresher' = None /\ UNCHANGED github      \* invalid_grant
  /\ UNCHANGED <<keychain, signKey, conf, history, count>>

(* Mutant: the bundle is stored once, at the end. *)
mutStorePartial(p) ==
  /\ at(p, "rotated")
  /\ moves(p, "exchange")
  /\ UNCHANGED <<keychain, github, signKey, refresher, conf, history, count>>

(* ... and its answer, stored with the old JWT before the exchange.          *)
storePartial(p) ==
  /\ at(p, "rotated")
  /\ deletes
  /\ moves(p, "addPartial")
  /\ UNCHANGED <<github, signKey, refresher, conf, history>>

addPartial(p) ==
  /\ at(p, "addPartial")
  /\ adds(caller[p].bundle)
  /\ moves(p, "exchange")
  /\ UNCHANGED <<github, signKey, refresher, conf, troubled, count>>

(* issueHostJWT: 30 days, for the target asked for.                          *)
issueHostJWT(target) == [target |-> target, key |-> signKey, age |-> 0]

(* ExchangeHostJWT and handleExchange.                                       *)
ExchangeHostJWT(p) ==
  /\ at(p, "exchange")
  /\ gives(p, [at |-> "store", bundle |-> Bundle(issueHostJWT(caller[p].target), caller[p].bundle.refresh)])
  /\ UNCHANGED <<keychain, github, signKey, refresher, conf, history, count>>

storeFinal(p) ==
  /\ at(p, "store")
  /\ deletes
  /\ moves(p, "addFinal")
  /\ UNCHANGED <<github, signKey, refresher, conf, history>>

addFinal(p) ==
  /\ at(p, "addFinal")
  /\ adds(caller[p].bundle)
  /\ refresher' = None
  /\ returns(p, caller[p].bundle.jwt)
  /\ UNCHANGED <<github, signKey, conf, troubled, count>>

-----------------------------------------------------------------------------
(* verifyHostJWT, then the target check of withBrokerAuth.                   *)
status(p) ==
  CASE caller[p].token.key # signKey \/ caller[p].token.age = 2 -> 401
    [] caller[p].token.target # caller[p].target -> 403
    [] OTHER -> 200

(* Mutant: 401 is an error like any other. *)
mutRequestWithCredential(p) ==
  /\ at(p, "call")
  /\ ends(p)
  /\ UNCHANGED <<keychain, github, signKey, refresher, conf, history, count>>

(* requestWithCredential: one forced refresh after the first 401.            *)
requestWithCredential(p) ==
  /\ at(p, "call")
  /\ IF status(p) = 401 /\ ~caller[p].force
     THEN goto(p, [at |-> "want", target |-> caller[p].target, force |-> TRUE, calls |-> TRUE])
     ELSE ends(p)
  /\ UNCHANGED <<keychain, github, signKey, refresher, conf, history, count>>

(* doWithRetry: 429 and 5xx, which is what the broker makes of any failure   *)
(* of GitHub's API.                                                          *)
retried(p) == caller[p].attempt < Attempts

Busy(p) ==
  /\ at(p, "call") /\ status(p) = 200
  /\ fault("busy")
  /\ IF retried(p)
     THEN goto(p, [caller[p] EXCEPT !.attempt = @ + 1]) /\ UNCHANGED troubled
     ELSE ends(p) /\ troubled' = troubled \cup {p}
  /\ UNCHANGED <<keychain, github, signKey, refresher, conf, spoiled>>

-----------------------------------------------------------------------------
(* What a refresh of p that is interrupted here leaves: GitHub's answer is   *)
(* stored nowhere, or what was stored is deleted.                            *)
loses(p) ==
  \/ caller[p].at \in {"rotated", "addPartial"}
  \/ at(p, "addFinal") /\ ~keychain.there

(* Failures of a refresh, where they happen.  A cancelled context or an      *)
(* answer that never comes is GitHub or the broker failing, with or without  *)
(* having done its part.                                                     *)
failure(p) ==
  \/ at(p, "refresh")  /\ fault("github")
  \/ at(p, "rotated")  /\ fault("lost")
  \/ at(p, "exchange") /\ fault("broker")
  \/ caller[p].at \in {"addPartial", "addFinal"} /\ fault("store")

(* Mutant: the lock stays taken after an error. *)
mutFails(p) ==
  /\ failure(p)
  /\ ends(p)
  /\ spoiled' = (spoiled \/ loses(p))
  /\ troubled' = troubled \cup {p}
  /\ UNCHANGED <<keychain, github, signKey, refresher, conf>>

(* The caller gets the error, although the JWT it has may be good for weeks. *)
Fails(p) ==
  /\ failure(p)
  /\ ends(p)
  /\ refresher' = None
  /\ spoiled' = (spoiled \/ loses(p))
  /\ troubled' = troubled \cup {p}
  /\ UNCHANGED <<keychain, github, signKey, conf>>

(* The kernel drops the lock of a process that dies.                         *)
Crash(q) ==
  LET its == {p \in Callers : ProcessOf[p] = q} IN
  /\ fault("crash")
  /\ \E p \in its : ~at(p, "idle")
  /\ caller' = [p \in Callers |-> IF p \in its THEN Idle ELSE caller[p]]
  /\ refresher' = IF refresher \in its THEN None ELSE refresher
  /\ spoiled' = (spoiled \/ \E p \in its : loses(p))
  /\ troubled' = troubled \cup its
  /\ UNCHANGED <<keychain, github, signKey, conf>>

-----------------------------------------------------------------------------
(* The broker is started with another signing key, issuer or JWT version.    *)
RotateKey ==
  /\ signKey < MaxKeys
  /\ signKey' = signKey + 1
  /\ troubled' = troubled \cup {p \in Callers : ~at(p, "idle")}
  /\ UNCHANGED <<keychain, github, refresher, caller, conf, spoiled, count>>

older(jwt) == [jwt EXCEPT !.age = IF @ = 2 THEN 2 ELSE @ + 1]

(* Weeks pass; a request takes minutes.                                      *)
Age ==
  /\ \A p \in Callers : at(p, "idle")
  /\ conf = Idle
  /\ keychain.there /\ keychain.jwt.age < 2
  /\ keychain' = [keychain EXCEPT !.jwt = older(@)]
  /\ UNCHANGED <<github, signKey, refresher, caller, conf, history, count>>

(* `configure app`: the user approves the device flow (one that is denied or *)
(* expires stores nothing), ...                                              *)
Authorize ==
  /\ conf = Idle /\ count.configures < MaxConfigures
  /\ count' = [count EXCEPT !.configures = @ + 1]
  /\ issued' = issued + 1
  /\ valid' = valid \cup {issued'}
  /\ conf' = [at |-> "exchange", refresh |-> issued']
  /\ UNCHANGED <<keychain, signKey, refresher, caller, history>>

(* ... the exchange fails, or the command is killed before it stores, ...    *)
GivesUp ==
  /\ conf.at \in {"exchange", "save"}
  /\ conf' = Idle
  /\ UNCHANGED <<keychain, github, signKey, refresher, caller, history, count>>

runAppDeviceFlow ==
  /\ conf.at = "exchange"
  /\ conf' = [at |-> "save", bundle |-> Bundle(issueHostJWT(ConfiguredTarget), conf.refresh)]
  /\ UNCHANGED <<keychain, github, signKey, refresher, caller, history, count>>

(* ... or it gets to saveCredential, a Set without the lock.  It also mends a          *)
(* credential that was lost.                                                 *)
saveCredential ==
  /\ conf.at = "save"
  /\ deletes
  /\ conf' = [conf EXCEPT !.at = "add"]
  /\ UNCHANGED <<github, signKey, refresher, caller, history>>

addCredential ==
  /\ conf.at = "add"
  /\ adds(conf.bundle)
  /\ conf' = Idle
  /\ UNCHANGED <<github, signKey, refresher, caller, troubled, count>>

saveFails ==
  /\ conf.at = "add"
  /\ fault("store") \/ fault("crash")
  /\ conf' = Idle
  /\ spoiled' = (spoiled \/ ~keychain.there)
  /\ UNCHANGED <<keychain, github, signKey, refresher, caller, troubled>>

-----------------------------------------------------------------------------
CallerStep(p) ==
  \/ RefreshGitHubToken(p) \/ storePartial(p) \/ addPartial(p)
  \/ ExchangeHostJWT(p) \/ storeFinal(p) \/ addFinal(p)
  \/ requestWithCredential(p)

Next ==
  \/ \E p \in Callers :
       \/ Request(p) \/ tryAppOAuthRefresh(p)
       \/ EnsureFresh(p) \/ CallerStep(p) \/ Busy(p) \/ Fails(p)
  \/ \E q \in Processes : Crash(q)
  \/ RotateKey \/ Age
  \/ Authorize \/ GivesUp \/ runAppDeviceFlow
  \/ saveCredential \/ addCredential \/ saveFails

Spec == Init /\ [][Next]_vars

(* Every HTTP call has a timeout of 30 s; the kernel hands a lock that       *)
(* becomes free again and again to everybody who waits.                      *)
FairSpec == Spec /\ \A p \in Callers : WF_vars(CallerStep(p)) /\ SF_vars(EnsureFresh(p))

-----------------------------------------------------------------------------
(* Type correctness, and that the refresh lock is held by the caller that is  *)
(* between its second Load and the end of its refresh (manager.go:100).       *)
refreshing == {"refresh", "rotated", "addPartial", "exchange", "store", "addFinal"}

TypeOK ==
  /\ keychain = NoBundle \/ keychain \in [there : {TRUE}, jwt : JWTs, refresh : 0..issued]
  /\ valid \subseteq 0..issued
  /\ refresher \in Callers \cup {None}
  /\ \A p \in Callers : (refresher = p) <=> caller[p].at \in refreshing

(* GitHub takes a refresh token once.  Whatever refreshes, failed exchanges,  *)
(* crashes and configures interleave, the stored one is good and the entry is *)
(* there, but while a Set is under way; only an interruption between GitHub's *)
(* answer and the end of the Set that stores it, or inside a later Set, loses *)
(* the credential.                                                            *)
RefreshTokenKept ==
  \/ spoiled
  \/ \E p \in Callers : caller[p].at \in {"rotated", "addPartial"}
  \/ IF keychain.there
     THEN keychain.refresh \in valid
     ELSE conf.at = "add" \/ \E p \in Callers : at(p, "addFinal")

(* Callers of different runner groups share the keychain and never spend     *)
(* each other's token: the broker would answer 403, which nobody mends.      *)
TokenIsForTarget ==
  \A p \in Callers : at(p, "call") => caller[p].token.target = caller[p].target

(* A request fails only for one of six causes: a step of its own refresh      *)
(* failed; its process died; every attempt of its call was answered busy; the *)
(* broker's key was changed meanwhile; it loaded a credential that an         *)
(* interruption had lost; or `configure app` was storing one as it loaded.    *)
(* Another caller's refresh, Set, failed exchange or 401, another runner      *)
(* group's token, an expired JWT, a key that was changed before, or fewer     *)
(* busy answers than attempts, are none.                                      *)
FailsOnlyForCause ==
  [][\A p \in Callers :
       (~at(p, "idle") /\ at(p, "idle")')
          => \/ at(p, "call") /\ status(p) = 200
             \/ at(p, "addFinal") /\ ~caller[p].calls
             \/ p \in troubled']_vars

(* README.md:116 "If the broker is unreachable at refresh, the existing       *)
(* credential continues to work until it expires".  It does not for the       *)
(* request that wanted the refresh (manager.go:142): TLC refutes this, also   *)
(* with no fault but "broker".                                                *)
WorksUntilExpiry ==
  [][\A p \in Callers :
       (at(p, "exchange") /\ caller[p].calls /\ ~caller[p].force
          /\ caller[p].bundle.jwt.target = caller[p].target
          /\ caller[p].bundle.jwt.key = signKey /\ caller[p].bundle.jwt.age < 2)
          => ~at(p, "idle")']_vars

(* Every request comes back: the refresh lock is never left behind.          *)
RequestEnds == \A p \in Callers : caller[p].at # "idle" ~> caller[p].at = "idle"
=============================================================================
