------------------------ MODULE HostCredentialProofs ------------------------
(***************************************************************************)
(* What the hosted app's credential keeps for every set of callers,        *)
(* processes and targets, and every choice of faults.                      *)
(***************************************************************************)
EXTENDS HostCredential, TLAPS

Bundles == [there : {TRUE}, jwt : JWTs, refresh : Nat]

Refreshers ==
  [at : refreshing, target : Targets, force : BOOLEAN, calls : BOOLEAN, bundle : Bundles]

CallerStates ==
  {Idle}
    \cup [at : {"want"}, target : Targets, force : BOOLEAN, calls : BOOLEAN]
    \cup Refreshers
    \cup [at : {"call"}, target : Targets, force : BOOLEAN, token : JWTs, attempt : Nat]

ConfStates ==
  {Idle} \cup [at : {"exchange"}, refresh : Nat] \cup [at : {"save", "add"}, bundle : Bundles]

Types ==
  /\ keychain \in Bundles \cup {NoBundle}
  /\ valid \subseteq 0..issued
  /\ issued \in Nat
  /\ signKey \in 0..MaxKeys
  /\ refresher \in Callers \cup {None}
  /\ caller \in [Callers -> CallerStates]
  /\ conf \in ConfStates

(* The refresh lock is held by the one caller that refreshes. *)
LockInv == \A p \in Callers : (refresher = p) <=> caller[p].at \in refreshing

(* What a caller keeps in hand: GitHub's newest answer until it is stored,  *)
(* and a JWT for the target it asked for.                                   *)
HandInv ==
  \A p \in Callers :
    /\ caller[p].at \in refreshing => caller[p].bundle.refresh \in 0..issued
    /\ caller[p].at \in refreshing \ {"refresh"} => caller[p].bundle.refresh \in valid
    /\ caller[p].at \in {"store", "addFinal"} => caller[p].bundle.jwt.target = caller[p].target
    /\ at(p, "call") => caller[p].token.target = caller[p].target

(* The refresh token of a device login is GitHub's and nobody else's yet.   *)
Mine(t) ==
  /\ t \in valid
  /\ keychain.there => t # keychain.refresh
  /\ \A p \in Callers : caller[p].at \in refreshing => caller[p].bundle.refresh # t

ConfInv ==
  /\ conf.at = "exchange" => Mine(conf.refresh)
  /\ conf.at \in {"save", "add"} => Mine(conf.bundle.refresh)

(* A caller without a cause to fail has a token GitHub takes, and, once its *)
(* refresh is done, a JWT the broker takes.                                 *)
CauseInv ==
  \A p \in Callers \ troubled :
    /\ at(p, "want") /\ ~caller[p].calls => caller[p].force
    /\ at(p, "refresh") => caller[p].bundle.refresh \in valid
    /\ caller[p].at \in {"store", "addFinal"} =>
         caller[p].bundle.jwt.key = signKey /\ caller[p].bundle.jwt.age = 0
    /\ at(p, "call") /\ caller[p].force => caller[p].token.key = signKey /\ caller[p].token.age = 0

KeychainInv ==
  /\ keychain.there => keychain.refresh \in 0..issued
  /\ RefreshTokenKept

IInv ==
  /\ Types
  /\ LockInv
  /\ HandInv
  /\ ConfInv
  /\ KeychainInv
  /\ CauseInv
-----------------------------------------------------------------------------
(* Type correctness. *)

LEMMA InitInv == Init => IInv
<1> SUFFICES ASSUME Init PROVE IInv
  OBVIOUS
<1> USE CredentialAssumption
<1>1. PICK t \in Targets : keychain = Bundle([target |-> t, key |-> 0, age |-> 0], 0)
  BY DEF Init
<1>2. keychain \in Bundles /\ keychain.there /\ keychain.refresh = 0
  BY <1>1 DEF Bundle, Bundles, JWTs
<1>3. Types
  <2>1. Idle \in CallerStates /\ Idle \in ConfStates
    BY DEF CallerStates, ConfStates
  <2>2. keychain \in Bundles /\ valid = {0} /\ issued = 0 /\ signKey = 0
    BY <1>2 DEF Init
  <2>3. caller \in [Callers -> CallerStates] /\ conf \in ConfStates
    BY <2>1 DEF Init
  <2> QED
    BY <2>2, <2>3 DEF Init, Types
<1>4. LockInv /\ HandInv /\ ConfInv /\ CauseInv
  BY DEF Init, LockInv, HandInv, ConfInv, CauseInv, Idle, refreshing, at
<1>5. KeychainInv
  BY <1>2 DEF Init, KeychainInv, RefreshTokenKept
<1> QED
  BY <1>3, <1>4, <1>5 DEF IInv

(* An entry that is there is a bundle. *)
LEMMA Entry ==
  ASSUME Types, keychain.there
  PROVE  keychain \in Bundles /\ keychain.jwt \in JWTs /\ keychain.refresh \in Nat
<1>1. ~NoBundle.there
  BY DEF NoBundle
<1>2. keychain \in Bundles
  BY <1>1 DEF Types
<1> QED
  BY <1>2 DEF Bundles

(* One caller moves. *)
LEMMA Moves ==
  ASSUME Types, NEW p \in Callers, NEW c, goto(p, c)
  PROVE  /\ caller'[p] = c
         /\ \A q \in Callers \ {p} : caller'[q] = caller[q]
         /\ c \in CallerStates => caller' \in [Callers -> CallerStates]
  BY DEF Types, goto

(* What the record of a caller holds at each of its steps.                  *)
LEMMA InHand ==
  ASSUME Types, NEW p \in Callers
  PROVE  /\ caller[p].at \in refreshing => caller[p] \in Refreshers
         /\ at(p, "want") =>
              caller[p] \in [at : {"want"}, target : Targets, force : BOOLEAN, calls : BOOLEAN]
         /\ at(p, "call") =>
              caller[p] \in [at : {"call"}, target : Targets, force : BOOLEAN,
                             token : JWTs, attempt : Nat]
  BY DEF Types, CallerStates, Refreshers, refreshing, Idle, at

(* The next step of a refresh, ... *)
LEMMA Gives ==
  ASSUME Types, NEW p \in Callers, caller[p].at \in refreshing,
         NEW step \in refreshing, NEW b \in Bundles, gives(p, [at |-> step, bundle |-> b])
  PROVE  /\ caller'[p].at = step
         /\ caller'[p].bundle = b
         /\ caller'[p].target = caller[p].target
         /\ \A q \in Callers \ {p} : caller'[q] = caller[q]
         /\ caller' \in [Callers -> CallerStates]
<1> DEFINE c == [caller[p] EXCEPT !.at = step, !.bundle = b]
<1>1. caller[p] \in Refreshers
  BY InHand
<1>2. /\ c \in Refreshers
      /\ c.at = step /\ c.bundle = b /\ c.target = caller[p].target
  BY <1>1 DEF Refreshers
<1>3. goto(p, c)
  BY DEF gives
<1>4. c \in CallerStates
  BY <1>2 DEF CallerStates
<1> HIDE DEF c
<1> QED
  BY <1>2, <1>3, <1>4, Moves

(* ... with the bundle it has.                                              *)
LEMMA MovesOn ==
  ASSUME Types, NEW p \in Callers, caller[p].at \in refreshing,
         NEW step \in refreshing, moves(p, step)
  PROVE  /\ caller'[p].at = step
         /\ caller'[p].bundle = caller[p].bundle
         /\ caller'[p].target = caller[p].target
         /\ \A q \in Callers \ {p} : caller'[q] = caller[q]
         /\ caller' \in [Callers -> CallerStates]
<1> DEFINE c == [caller[p] EXCEPT !.at = step]
<1>1. caller[p] \in Refreshers
  BY InHand
<1>2. /\ c \in Refreshers
      /\ c.at = step /\ c.bundle = caller[p].bundle /\ c.target = caller[p].target
  BY <1>1 DEF Refreshers
<1>3. goto(p, c)
  BY DEF moves
<1>4. c \in CallerStates
  BY <1>2 DEF CallerStates
<1> HIDE DEF c
<1> QED
  BY <1>2, <1>3, <1>4, Moves

(* The end of EnsureFresh. *)
LEMMA Returns ==
  ASSUME Types, NEW p \in Callers, caller[p].force \in BOOLEAN, caller[p].target \in Targets,
         NEW jwt \in JWTs, returns(p, jwt)
  PROVE  /\ \/ /\ caller'[p].at = "call" /\ caller'[p].token = jwt
               /\ caller'[p].force = caller[p].force
               /\ caller'[p].target = caller[p].target
            \/ ~caller[p].calls /\ caller'[p].at = "idle"
         /\ \A q \in Callers \ {p} : caller'[q] = caller[q]
         /\ caller' \in [Callers -> CallerStates]
<1> DEFINE c == [at |-> "call", target |-> caller[p].target, force |-> caller[p].force,
                 token |-> jwt, attempt |-> 1]
<1>1. CASE caller[p].calls
  <2>1. c \in CallerStates
    BY DEF CallerStates
  <2>2. c.at = "call" /\ c.token = jwt /\ c.force = caller[p].force /\ c.target = caller[p].target
    OBVIOUS
  <2>3. goto(p, c)
    BY <1>1 DEF returns
  <2> HIDE DEF c
  <2> QED
    BY <2>1, <2>2, <2>3, Moves
<1>2. CASE ~caller[p].calls
  <2>1. goto(p, Idle) /\ Idle \in CallerStates /\ Idle.at = "idle"
    BY <1>2 DEF returns, ends, Idle, CallerStates
  <2> QED
    BY <1>2, <2>1, Moves
<1> QED
  BY <1>1, <1>2

(* Every step keeps the types. *)
LEMMA TypesStep ==
  ASSUME Types, [Next]_vars
  PROVE  Types'
<1> USE CredentialAssumption
<1>2. ASSUME NEW t \in Targets PROVE issueHostJWT(t) \in JWTs
  BY DEF issueHostJWT, Types, JWTs
<1>3. CASE UNCHANGED vars
  BY <1>3 DEF Types, vars
<1>4. ASSUME NEW p \in Callers, Request(p) \/ tryAppOAuthRefresh(p) PROVE Types'
  <2>1. PICK t \in Targets, force \in BOOLEAN, calls \in BOOLEAN :
          goto(p, [at |-> "want", target |-> t, force |-> force, calls |-> calls])
    BY <1>4 DEF Request, tryAppOAuthRefresh
  <2>2. [at |-> "want", target |-> t, force |-> force, calls |-> calls] \in CallerStates
    BY DEF CallerStates
  <2>3. caller' \in [Callers -> CallerStates]
    BY <2>1, <2>2, Moves
  <2> QED
    BY <1>4, <2>3 DEF Request, tryAppOAuthRefresh, Types, github
<1>5. ASSUME NEW p \in Callers, EnsureFresh(p) PROVE Types'
  <2>1. caller[p] \in [at : {"want"}, target : Targets, force : BOOLEAN, calls : BOOLEAN]
    BY <1>5, InHand DEF EnsureFresh
  <2>2. CASE keychain.there /\ needs(p)
    <3> DEFINE c == [at |-> "refresh", target |-> caller[p].target, force |-> caller[p].force,
                     calls |-> caller[p].calls, bundle |-> keychain]
    <3>1. c \in CallerStates
      BY <2>1, <2>2, Entry DEF CallerStates, Refreshers, refreshing
    <3>2. caller' \in [Callers -> CallerStates]
      BY <1>5, <2>2, <3>1, Moves DEF EnsureFresh
    <3> QED
      BY <1>5, <2>2, <3>2 DEF EnsureFresh, Types, github
  <2>3. CASE keychain.there /\ ~needs(p)
    BY <1>5, <2>1, <2>3, Entry, Returns DEF EnsureFresh, Types, github
  <2>4. CASE ~keychain.there
    <3>1. Idle \in CallerStates
      BY DEF CallerStates
    <3> QED
      BY <1>5, <2>4, <3>1, Moves DEF EnsureFresh, ends, Types, github
  <2> QED
    BY <2>2, <2>3, <2>4
<1>6. ASSUME NEW p \in Callers, CallerStep(p) PROVE Types'
  <2>1. caller[p].at \in refreshing =>
          caller[p].bundle \in Bundles /\ caller[p].force \in BOOLEAN /\ caller[p].target \in Targets
    BY InHand DEF Refreshers
  <2>2. CASE RefreshGitHubToken(p) /\ caller[p].bundle.refresh \in valid
    <3>1. issued' = issued + 1 /\ valid' \subseteq 0..issued'
      BY <2>2 DEF RefreshGitHubToken, Types
    <3>2. [caller[p].bundle EXCEPT !.refresh = issued'] \in Bundles
      <4>1. caller[p].bundle \in Bundles /\ issued' \in Nat
        BY <2>1, <2>2, <3>1 DEF RefreshGitHubToken, at, refreshing, Types
      <4> QED
        BY <4>1 DEF Bundles
    <3>3. caller' \in [Callers -> CallerStates]
      BY <2>2, <3>2, Gives DEF RefreshGitHubToken, at, refreshing
    <3> QED
      BY <2>2, <3>1, <3>3 DEF RefreshGitHubToken, Types
  <2>3. CASE storePartial(p) \/ storeFinal(p)
    <3>1. caller' \in [Callers -> CallerStates]
      BY <2>3, MovesOn DEF storePartial, storeFinal, at, refreshing
    <3> QED
      BY <2>3, <3>1 DEF storePartial, storeFinal, deletes, Types, github
  <2>4. CASE ExchangeHostJWT(p)
    <3>1. Bundle(issueHostJWT(caller[p].target), caller[p].bundle.refresh) \in Bundles
      BY <1>2, <2>1, <2>4 DEF ExchangeHostJWT, at, refreshing, Bundle, Bundles
    <3>2. caller' \in [Callers -> CallerStates]
      BY <2>4, <3>1, Gives DEF ExchangeHostJWT, at, refreshing
    <3> QED
      BY <2>4, <3>2 DEF ExchangeHostJWT, Types, github
  <2>5. CASE addPartial(p)
    <3>1. caller' \in [Callers -> CallerStates] /\ caller[p].bundle \in Bundles
      BY <2>1, <2>5, MovesOn DEF addPartial, at, refreshing
    <3> QED
      BY <2>5, <3>1 DEF addPartial, adds, Types, github
  <2>6. CASE addFinal(p)
    <3>1. caller[p].bundle \in Bundles /\ caller[p].bundle.jwt \in JWTs
      BY <2>1, <2>6 DEF addFinal, at, refreshing, Bundles
    <3>2. caller' \in [Callers -> CallerStates]
      BY <2>1, <2>6, <3>1, Returns DEF addFinal, at, refreshing
    <3> QED
      BY <2>6, <3>1, <3>2 DEF addFinal, adds, Types, github
  <2>7. CASE \/ RefreshGitHubToken(p) /\ caller[p].bundle.refresh \notin valid
             \/ requestWithCredential(p)
    <3>1. Idle \in CallerStates
      BY DEF CallerStates
    <3>2. at(p, "call") =>
            [at |-> "want", target |-> caller[p].target, force |-> TRUE, calls |-> TRUE] \in CallerStates
      BY InHand DEF CallerStates
    <3>3. caller' \in [Callers -> CallerStates]
      BY <2>7, <3>1, <3>2, Moves DEF RefreshGitHubToken, requestWithCredential, ends
    <3>4. UNCHANGED <<keychain, github, signKey, conf>> /\ refresher' \in {refresher, None}
      BY <2>7 DEF requestWithCredential, RefreshGitHubToken
    <3> QED
      BY <3>3, <3>4 DEF Types, github
  <2> QED
    BY <1>6, <2>2, <2>3, <2>4, <2>5, <2>6, <2>7 DEF CallerStep
<1>7. ASSUME NEW p \in Callers, Busy(p) \/ Fails(p) PROVE Types'
  <2>1. caller' \in [Callers -> CallerStates]
    <3>1. CASE ends(p)
      BY <3>1, Moves DEF ends, CallerStates
    <3>2. CASE Busy(p) /\ ~ends(p)
      <4>1. caller[p] \in [at : {"call"}, target : Targets, force : BOOLEAN,
                           token : JWTs, attempt : Nat]
        BY <3>2, InHand DEF Busy
      <4> DEFINE c == [caller[p] EXCEPT !.attempt = @ + 1]
      <4>2. c \in CallerStates
        BY <4>1 DEF CallerStates
      <4>3. goto(p, c)
        BY <3>2 DEF Busy
      <4> HIDE DEF c
      <4> QED
        BY <4>2, <4>3, Moves
    <3> QED
      BY <1>7, <3>1, <3>2 DEF Busy, Fails
  <2> QED
    BY <1>7, <2>1 DEF Busy, Fails, Types, github
<1>8. ASSUME NEW q \in Processes, Crash(q) PROVE Types'
  <2>1. Idle \in CallerStates
    BY DEF CallerStates
  <2> QED
    BY <1>8, <2>1 DEF Crash, Types, github
<1>9. CASE RotateKey
  BY <1>9 DEF RotateKey, Types, github
<1>10. CASE Age
  <2>1. older(keychain.jwt) \in JWTs /\ keychain \in Bundles
    BY <1>10, Entry DEF Age, older, JWTs
  <2>2. keychain' \in Bundles
    BY <1>10, <2>1 DEF Age, Bundles
  <2> QED
    BY <1>10, <2>2 DEF Age, Types, github
<1>11. CASE Authorize \/ GivesUp \/ runAppDeviceFlow \/ saveCredential \/ addCredential \/ saveFails
  <2>1. CASE GivesUp \/ saveFails
    BY <2>1 DEF GivesUp, saveFails, Types, ConfStates, github
  <2>2. CASE Authorize
    <3>1. issued' \in Nat /\ valid' \subseteq 0..issued'
      BY <2>2 DEF Authorize, Types
    <3>2. [at |-> "exchange", refresh |-> issued'] \in ConfStates
      BY <3>1 DEF ConfStates
    <3> QED
      BY <2>2, <3>1, <3>2 DEF Authorize, Types
  <2>3. CASE runAppDeviceFlow
    <3>1. conf.refresh \in Nat
      BY <2>3 DEF runAppDeviceFlow, Types, ConfStates, Idle
    <3>2. Bundle(issueHostJWT(ConfiguredTarget), conf.refresh) \in Bundles
      BY <1>2, <3>1 DEF Bundle, Bundles
    <3> QED
      BY <2>3, <3>2 DEF runAppDeviceFlow, Types, ConfStates, github
  <2>4. CASE saveCredential
    <3>1. conf \in [at : {"save", "add"}, bundle : Bundles]
      BY <2>4 DEF saveCredential, Types, ConfStates, Idle
    <3>2. conf' \in ConfStates
      BY <2>4, <3>1 DEF saveCredential, ConfStates
    <3> QED
      BY <2>4, <3>2 DEF saveCredential, deletes, Types, github
  <2>5. CASE addCredential
    <3>1. conf.bundle \in Bundles
      BY <2>5 DEF addCredential, Types, ConfStates, Idle
    <3> QED
      BY <2>5, <3>1 DEF addCredential, adds, Types, ConfStates, github
  <2> QED
    BY <1>11, <2>1, <2>2, <2>3, <2>4, <2>5
<1> QED
  BY <1>3, <1>4, <1>5, <1>6, <1>7, <1>8, <1>9, <1>10, <1>11 DEF Next
-----------------------------------------------------------------------------
(* What each action does to its caller. *)

LEMMA Requested ==
  ASSUME Types, NEW p \in Callers, Request(p) \/ tryAppOAuthRefresh(p)
  PROVE  /\ at(p, "idle") /\ caller'[p].at = "want"
         /\ ~caller'[p].calls => caller'[p].force
         /\ \A q \in Callers \ {p} : caller'[q] = caller[q]
<1>1. CASE Request(p)
  <2>1. PICK t : goto(p, [at |-> "want", target |-> t, force |-> FALSE, calls |-> TRUE])
    BY <1>1 DEF Request
  <2> QED
    BY <1>1, <2>1, Moves DEF Request
<1>2. CASE tryAppOAuthRefresh(p)
  <2>1. PICK t : goto(p, [at |-> "want", target |-> t, force |-> TRUE, calls |-> FALSE])
    BY <1>2 DEF tryAppOAuthRefresh
  <2> QED
    BY <1>2, <2>1, Moves DEF tryAppOAuthRefresh
<1> QED
  BY <1>1, <1>2

LEMMA Ensured ==
  ASSUME Types, NEW p \in Callers, EnsureFresh(p)
  PROVE  /\ at(p, "want") /\ refresher = None
         /\ \/ /\ keychain.there /\ refresher' = p
               /\ caller'[p].at = "refresh" /\ caller'[p].bundle = keychain
            \/ /\ keychain.there /\ refresher' = None /\ ~needs(p)
               /\ caller'[p].at = "call" /\ caller'[p].token = keychain.jwt
               /\ caller'[p].force = caller[p].force
               /\ caller'[p].target = caller[p].target
            \/ /\ keychain.there /\ refresher' = None /\ ~needs(p)
               /\ ~caller[p].calls /\ caller'[p].at = "idle"
            \/ ~keychain.there /\ refresher' = None /\ caller'[p].at = "idle"
         /\ \A q \in Callers \ {p} : caller'[q] = caller[q]
<1>1. /\ at(p, "want") /\ refresher = None
      /\ caller[p].force \in BOOLEAN /\ caller[p].target \in Targets
  BY InHand DEF EnsureFresh
<1>2. CASE keychain.there /\ needs(p)
  BY <1>1, <1>2, Moves DEF EnsureFresh
<1>3. CASE keychain.there /\ ~needs(p)
  BY <1>1, <1>3, Entry, Returns DEF EnsureFresh
<1>4. CASE ~keychain.there
  BY <1>1, <1>4, Moves DEF EnsureFresh, ends, Idle
<1> QED
  BY <1>2, <1>3, <1>4, <1>1

LEMMA Rotated ==
  ASSUME Types, NEW p \in Callers, RefreshGitHubToken(p)
  PROVE  /\ at(p, "refresh")
         /\ \/ /\ caller[p].bundle.refresh \in valid
               /\ issued' = issued + 1
               /\ valid' = (valid \ {caller[p].bundle.refresh}) \cup {issued'}
               /\ refresher' = refresher
               /\ caller'[p].at = "rotated" /\ caller'[p].bundle.refresh = issued'
            \/ /\ caller[p].bundle.refresh \notin valid
               /\ UNCHANGED github /\ refresher' = None
               /\ caller'[p].at = "idle"
         /\ \A q \in Callers \ {p} : caller'[q] = caller[q]
<1> DEFINE b == [caller[p].bundle EXCEPT !.refresh = issued']
<1>1. at(p, "refresh") /\ caller[p].at \in refreshing
  BY DEF RefreshGitHubToken, at, refreshing
<1>2. caller[p].bundle \in Bundles
  BY <1>1, InHand DEF Refreshers
<1>3. CASE caller[p].bundle.refresh \in valid
  <2>1. issued' = issued + 1 /\ gives(p, [at |-> "rotated", bundle |-> b])
    BY <1>3 DEF RefreshGitHubToken
  <2>2. issued' \in Nat
    BY <2>1 DEF Types
  <2>3. b \in Bundles /\ b.refresh = issued'
    BY <1>2, <2>2 DEF Bundles
  <2> HIDE DEF b
  <2>4. /\ caller'[p].at = "rotated" /\ caller'[p].bundle = b
        /\ \A q \in Callers \ {p} : caller'[q] = caller[q]
    BY <1>1, <2>1, <2>3, Gives DEF refreshing
  <2> QED
    BY <1>1, <1>3, <2>3, <2>4 DEF RefreshGitHubToken
<1>4. CASE caller[p].bundle.refresh \notin valid
  BY <1>1, <1>4, Moves DEF RefreshGitHubToken, ends, Idle
<1> QED
  BY <1>3, <1>4

(* The two halves of a Set before the exchange, and the first of the one     *)
(* after it, go on with the bundle in hand.                                  *)
LEMMA Storing ==
  ASSUME Types, NEW p \in Callers, storePartial(p) \/ addPartial(p) \/ storeFinal(p)
  PROVE  /\ \/ storePartial(p) /\ at(p, "rotated") /\ caller'[p].at = "addPartial"
            \/ addPartial(p) /\ at(p, "addPartial") /\ caller'[p].at = "exchange"
            \/ storeFinal(p) /\ at(p, "store") /\ caller'[p].at = "addFinal"
         /\ caller'[p].bundle = caller[p].bundle /\ caller'[p].target = caller[p].target
         /\ \A q \in Callers \ {p} : caller'[q] = caller[q]
         /\ keychain' \in {NoBundle, keychain, caller[p].bundle}
         /\ addPartial(p) => keychain' = caller[p].bundle /\ spoiled' = FALSE
         /\ ~addPartial(p) => keychain' \in {NoBundle, keychain} /\ spoiled' = spoiled
         /\ UNCHANGED <<github, signKey, refresher, conf, troubled>>
         /\ caller[p].bundle \in Bundles
<1>1. caller[p].at \in refreshing
  BY DEF storePartial, addPartial, storeFinal, at, refreshing
<1>2. caller[p].bundle \in Bundles
  BY <1>1, InHand DEF Refreshers
<1>3. CASE storePartial(p)
  <2>1. at(p, "rotated") /\ moves(p, "addPartial") /\ ~addPartial(p)
    BY <1>3 DEF storePartial, addPartial, at
  <2> QED
    BY <1>1, <1>2, <1>3, <2>1, MovesOn DEF storePartial, deletes, refreshing, history
<1>4. CASE addPartial(p)
  BY <1>1, <1>2, <1>4, MovesOn DEF addPartial, adds, refreshing
<1>5. CASE storeFinal(p)
  <2>1. at(p, "store") /\ moves(p, "addFinal") /\ ~addPartial(p)
    BY <1>5 DEF storeFinal, addPartial, at
  <2> QED
    BY <1>1, <1>2, <1>5, <2>1, MovesOn DEF storeFinal, deletes, refreshing, history
<1> QED
  BY <1>3, <1>4, <1>5

LEMMA Exchanged ==
  ASSUME Types, NEW p \in Callers, ExchangeHostJWT(p)
  PROVE  /\ at(p, "exchange")
         /\ caller'[p].at = "store"
         /\ caller'[p].bundle.refresh = caller[p].bundle.refresh
         /\ caller'[p].target = caller[p].target
         /\ caller'[p].bundle.jwt.target = caller[p].target
         /\ caller'[p].bundle.jwt.key = signKey
         /\ caller'[p].bundle.jwt.age = 0
         /\ \A q \in Callers \ {p} : caller'[q] = caller[q]
<1> DEFINE jwt == issueHostJWT(caller[p].target)
           b == Bundle(jwt, caller[p].bundle.refresh)
<1>1. at(p, "exchange") /\ caller[p].at \in refreshing /\ gives(p, [at |-> "store", bundle |-> b])
  BY DEF ExchangeHostJWT, at, refreshing
<1>2. caller[p].target \in Targets /\ caller[p].bundle \in Bundles
  BY <1>1, InHand DEF Refreshers
<1>3. jwt \in JWTs /\ jwt.target = caller[p].target /\ jwt.key = signKey /\ jwt.age = 0
  BY <1>2 DEF issueHostJWT, Types, JWTs
<1> HIDE DEF jwt
<1>4. b \in Bundles /\ b.jwt = jwt /\ b.refresh = caller[p].bundle.refresh
  BY <1>2, <1>3 DEF Bundle, Bundles
<1> HIDE DEF b
<1>5. /\ caller'[p].at = "store" /\ caller'[p].bundle = b /\ caller'[p].target = caller[p].target
      /\ \A q \in Callers \ {p} : caller'[q] = caller[q]
  BY <1>1, <1>4, Gives DEF refreshing
<1> QED
  BY <1>1, <1>3, <1>4, <1>5

LEMMA StoredFinal ==
  ASSUME Types, NEW p \in Callers, addFinal(p)
  PROVE  /\ at(p, "addFinal") /\ refresher' = None
         /\ keychain' = caller[p].bundle /\ caller[p].bundle \in Bundles /\ spoiled' = FALSE
         /\ \/ /\ caller'[p].at = "call" /\ caller'[p].token = caller[p].bundle.jwt
               /\ caller'[p].force = caller[p].force
               /\ caller'[p].target = caller[p].target
            \/ ~caller[p].calls /\ caller'[p].at = "idle"
         /\ \A q \in Callers \ {p} : caller'[q] = caller[q]
<1>1. at(p, "addFinal") /\ caller[p].at \in refreshing
  BY DEF addFinal, at, refreshing
<1>2. /\ caller[p].bundle \in Bundles /\ caller[p].bundle.jwt \in JWTs
      /\ caller[p].force \in BOOLEAN /\ caller[p].target \in Targets
  BY <1>1, InHand DEF Bundles, Refreshers
<1> QED
  BY <1>1, <1>2, Returns DEF addFinal, adds

LEMMA Called ==
  ASSUME Types, NEW p \in Callers, requestWithCredential(p)
  PROVE  /\ at(p, "call")
         /\ \/ caller'[p].at = "want" /\ caller'[p].calls
            \/ ~(status(p) = 401 /\ ~caller[p].force) /\ caller'[p].at = "idle"
         /\ \A q \in Callers \ {p} : caller'[q] = caller[q]
<1>1. CASE status(p) = 401 /\ ~caller[p].force
  BY <1>1, Moves DEF requestWithCredential
<1>2. CASE ~(status(p) = 401 /\ ~caller[p].force)
  BY <1>2, Moves DEF requestWithCredential, ends, Idle
<1> QED
  BY <1>1, <1>2

LEMMA Retried ==
  ASSUME Types, NEW p \in Callers, Busy(p)
  PROVE  /\ at(p, "call")
         /\ \/ /\ caller'[p].at = "call" /\ caller'[p].token = caller[p].token
               /\ caller'[p].target = caller[p].target
               /\ caller'[p].force = caller[p].force /\ troubled' = troubled
            \/ caller'[p].at = "idle" /\ troubled' = troubled \cup {p}
         /\ \A q \in Callers \ {p} : caller'[q] = caller[q]
<1> DEFINE c == [caller[p] EXCEPT !.attempt = @ + 1]
<1>1. caller[p] \in [at : {"call"}, target : Targets, force : BOOLEAN, token : JWTs, attempt : Nat]
  BY InHand DEF Busy
<1>2. /\ c.at = "call" /\ c.token = caller[p].token /\ c.force = caller[p].force
      /\ c.target = caller[p].target
  BY <1>1
<1>3. CASE goto(p, c) /\ troubled' = troubled
  <2> HIDE DEF c
  <2> QED
    BY <1>2, <1>3, Moves DEF Busy
<1>4. CASE ends(p) /\ troubled' = troubled \cup {p}
  BY <1>4, Moves DEF Busy, ends, Idle
<1> QED
  BY <1>3, <1>4 DEF Busy

LEMMA Failed ==
  ASSUME Types, NEW p \in Callers, Fails(p)
  PROVE  /\ caller[p].at \in refreshing /\ caller'[p].at = "idle"
         /\ \A q \in Callers \ {p} : caller'[q] = caller[q]
<1>1. caller[p].at \in refreshing
  BY DEF Fails, failure, at, refreshing
<1> QED
  BY <1>1, Moves DEF Fails, ends, Idle
-----------------------------------------------------------------------------
(* The parts of the invariant. *)

(* The lock is taken at the start of a refresh and dropped at each end of it. *)
LEMMA LockStep ==
  ASSUME Types, LockInv, [Next]_vars
  PROVE  LockInv'
<1> USE CredentialAssumption
<1>1. ASSUME NEW p \in Callers, Request(p) \/ tryAppOAuthRefresh(p) PROVE LockInv'
  <2>1. refresher' = refresher
    BY <1>1 DEF Request, tryAppOAuthRefresh
  <2> QED
    BY <1>1, <2>1, Requested DEF LockInv, refreshing, at
<1>2. ASSUME NEW p \in Callers, EnsureFresh(p) PROVE LockInv'
  BY <1>2, Ensured DEF LockInv, refreshing, at
<1>3. ASSUME NEW p \in Callers, RefreshGitHubToken(p) PROVE LockInv'
  BY <1>3, Rotated DEF LockInv, refreshing, at
<1>4. ASSUME NEW p \in Callers, storePartial(p) \/ addPartial(p) \/ storeFinal(p) PROVE LockInv'
  BY <1>4, Storing DEF LockInv, refreshing, at
<1>5. ASSUME NEW p \in Callers, ExchangeHostJWT(p) PROVE LockInv'
  <2>1. refresher' = refresher
    BY <1>5 DEF ExchangeHostJWT
  <2> QED
    BY <1>5, <2>1, Exchanged DEF LockInv, refreshing, at
<1>6. ASSUME NEW p \in Callers, addFinal(p) PROVE LockInv'
  BY <1>6, StoredFinal DEF LockInv, refreshing, at
<1>7. ASSUME NEW p \in Callers, requestWithCredential(p) \/ Busy(p) PROVE LockInv'
  <2>1. refresher' = refresher
    BY <1>7 DEF requestWithCredential, Busy
  <2> QED
    BY <1>7, <2>1, Called, Retried DEF LockInv, refreshing, at
<1>8. ASSUME NEW p \in Callers, Fails(p) PROVE LockInv'
  <2>1. refresher' = None
    BY <1>8 DEF Fails
  <2> QED
    BY <1>8, <2>1, Failed DEF LockInv, refreshing
<1>9. ASSUME NEW q \in Processes, Crash(q) PROVE LockInv'
  BY <1>9 DEF Crash, LockInv, refreshing, Idle, Types
<1>10. CASE UNCHANGED <<refresher, caller>>
  BY <1>10 DEF LockInv
<1> QED
  BY <1>1, <1>2, <1>3, <1>4, <1>5, <1>6, <1>7, <1>8, <1>9, <1>10
  DEF Next, CallerStep, RotateKey, Age, Authorize, GivesUp, runAppDeviceFlow,
      saveCredential, addCredential, saveFails, vars

(* GitHub drops a token only when its holder refreshes it, and nobody else    *)
(* holds one.                                                                 *)
LEMMA HandStep ==
  ASSUME Types, LockInv, HandInv, KeychainInv, [Next]_vars
  PROVE  HandInv'
<1> USE CredentialAssumption
<1>1. ASSUME NEW p \in Callers, Request(p) \/ tryAppOAuthRefresh(p) PROVE HandInv'
  <2>1. UNCHANGED github
    BY <1>1 DEF Request, tryAppOAuthRefresh
  <2> QED
    BY <1>1, <2>1, Requested DEF HandInv, refreshing, at, github
<1>2. ASSUME NEW p \in Callers, EnsureFresh(p) PROVE HandInv'
  <2>1. UNCHANGED github
    BY <1>2 DEF EnsureFresh
  <2>2. ~needs(p) => keychain.jwt.target = caller[p].target
    BY DEF needs, otherTarget
  <2> QED
    BY <1>2, <2>1, <2>2, Ensured DEF HandInv, KeychainInv, refreshing, at, github
<1>3. ASSUME NEW p \in Callers, RefreshGitHubToken(p) PROVE HandInv'
  <2>1. /\ \A q \in Callers \ {p} : caller[q].at \notin refreshing
        /\ issued' \in {issued, issued + 1} /\ issued \in Nat
    BY <1>3, Rotated DEF LockInv, at, refreshing, Types, github
  <2>2. ASSUME NEW q \in Callers \ {p} PROVE caller'[q].at \notin refreshing /\ caller'[q] = caller[q]
    BY <1>3, <2>1, Rotated
  <2>3. CASE caller'[p].at = "idle"
    BY <1>3, <2>2, <2>3 DEF HandInv, refreshing, at
  <2>4. CASE caller'[p].at # "idle"
    <3>1. /\ caller'[p].at = "rotated" /\ caller'[p].bundle.refresh = issued'
          /\ issued' \in valid' /\ issued' \in 0..issued'
      BY <1>3, <2>1, <2>4, Rotated
    <3> QED
      BY <2>2, <3>1 DEF HandInv, refreshing, at
  <2> QED
    BY <2>3, <2>4
<1>4. ASSUME NEW p \in Callers, storePartial(p) \/ addPartial(p) \/ storeFinal(p) PROVE HandInv'
  <2>1. UNCHANGED github /\ caller[p].at \in refreshing /\ caller'[p].at \in refreshing
    BY <1>4, Storing DEF refreshing, at
  <2>2. /\ caller'[p].bundle = caller[p].bundle /\ caller'[p].target = caller[p].target
        /\ caller[p].at # "refresh"
        /\ caller'[p].at \in {"store", "addFinal"} => at(p, "store")
    BY <1>4, Storing DEF at
  <2>3. ASSUME NEW q \in Callers, q # p PROVE caller'[q] = caller[q]
    BY <1>4, <2>3, Storing
  <2> QED
    BY <2>1, <2>2, <2>3 DEF HandInv, refreshing, at, github
<1>5. ASSUME NEW p \in Callers, ExchangeHostJWT(p) PROVE HandInv'
  <2>1. UNCHANGED github
    BY <1>5 DEF ExchangeHostJWT
  <2>2. caller[p].bundle.refresh \in valid /\ caller[p].bundle.refresh \in 0..issued
    BY <1>5, Exchanged DEF HandInv, refreshing, at
  <2> QED
    BY <1>5, <2>1, <2>2, Exchanged DEF HandInv, refreshing, at, github
<1>6. ASSUME NEW p \in Callers, addFinal(p) PROVE HandInv'
  <2>1. UNCHANGED github
    BY <1>6 DEF addFinal
  <2> QED
    <3>1. caller'[p].at = "call" => caller'[p].token.target = caller'[p].target
      BY <1>6, StoredFinal DEF HandInv, at
    <3>2. caller'[p].at \in {"call", "idle"} /\ \A q \in Callers \ {p} : caller'[q] = caller[q]
      BY <1>6, StoredFinal
    <3> QED
      BY <2>1, <3>1, <3>2 DEF HandInv, refreshing, at, github
<1>7. ASSUME NEW p \in Callers, requestWithCredential(p) \/ Busy(p) PROVE HandInv'
  <2>1. UNCHANGED github
    BY <1>7 DEF requestWithCredential, Busy
  <2> QED
    BY <1>7, <2>1, Called, Retried DEF HandInv, refreshing, at, github
<1>8. ASSUME NEW p \in Callers, Fails(p) PROVE HandInv'
  <2>1. UNCHANGED github
    BY <1>8 DEF Fails
  <2> QED
    BY <1>8, <2>1, Failed DEF HandInv, refreshing, at, github
<1>9. ASSUME NEW q \in Processes, Crash(q) PROVE HandInv'
  BY <1>9 DEF Crash, HandInv, refreshing, at, Idle, Types, github
<1>10. CASE Authorize
  <2>1. UNCHANGED caller /\ issued \in Nat /\ issued' = issued + 1 /\ valid \subseteq valid'
    BY <1>10 DEF Authorize, Types
  <2> QED
    BY <2>1 DEF HandInv, at
<1>11. CASE UNCHANGED <<github, caller>>
  BY <1>11 DEF HandInv, at, github
<1> QED
  BY <1>1, <1>2, <1>3, <1>4, <1>5, <1>6, <1>7, <1>8, <1>9, <1>10, <1>11
  DEF Next, CallerStep, RotateKey, Age, GivesUp, runAppDeviceFlow, saveCredential,
      addCredential, saveFails, vars, github

(* A device login's token stays its own until it is stored.                   *)
LEMMA MineStep ==
  ASSUME Types, LockInv, HandInv, KeychainInv, [Next]_vars, ~addCredential, NEW t, Mine(t)
  PROVE  Mine(t)'
<1> USE CredentialAssumption
<1>1. t \in 0..issued /\ issued \in Nat
  BY DEF Mine, Types
<1>2. ASSUME NEW p \in Callers, Request(p) \/ tryAppOAuthRefresh(p) PROVE Mine(t)'
  <2>1. UNCHANGED <<github, keychain>>
    BY <1>2 DEF Request, tryAppOAuthRefresh
  <2> QED
    BY <1>2, <2>1, Requested DEF Mine, refreshing, github
<1>3. ASSUME NEW p \in Callers, EnsureFresh(p) PROVE Mine(t)'
  <2>1. UNCHANGED <<github, keychain>>
    BY <1>3 DEF EnsureFresh
  <2> QED
    BY <1>3, <2>1, Ensured DEF Mine, refreshing, github
<1>4. ASSUME NEW p \in Callers, RefreshGitHubToken(p) PROVE Mine(t)'
  <2>1. keychain' = keychain /\ caller[p].bundle.refresh # t
    BY <1>4, Rotated DEF RefreshGitHubToken, Mine, at, refreshing
  <2> QED
    BY <1>1, <1>4, <2>1, Rotated DEF Mine, refreshing, github
<1>5. ASSUME NEW p \in Callers, storePartial(p) \/ addPartial(p) \/ storeFinal(p) PROVE Mine(t)'
  <2>1. ~NoBundle.there
    BY DEF NoBundle
  <2>2. caller[p].bundle.refresh # t
    BY <1>5, Storing DEF Mine, refreshing, at
  <2> QED
    BY <1>5, <2>1, <2>2, Storing DEF Mine, refreshing, at, github
<1>6. ASSUME NEW p \in Callers, ExchangeHostJWT(p) PROVE Mine(t)'
  <2>1. UNCHANGED <<github, keychain>>
    BY <1>6 DEF ExchangeHostJWT
  <2> QED
    BY <1>6, <2>1, Exchanged DEF Mine, refreshing, at, github
<1>7. ASSUME NEW p \in Callers, addFinal(p) PROVE Mine(t)'
  <2>1. UNCHANGED github
    BY <1>7 DEF addFinal
  <2> QED
    BY <1>7, <2>1, StoredFinal DEF Mine, refreshing, at, github
<1>8. ASSUME NEW p \in Callers, requestWithCredential(p) \/ Busy(p) PROVE Mine(t)'
  <2>1. UNCHANGED <<github, keychain>>
    BY <1>8 DEF requestWithCredential, Busy
  <2> QED
    BY <1>8, <2>1, Called, Retried DEF Mine, refreshing, at, github
<1>9. ASSUME NEW p \in Callers, Fails(p) PROVE Mine(t)'
  <2>1. UNCHANGED <<github, keychain>>
    BY <1>9 DEF Fails
  <2> QED
    BY <1>9, <2>1, Failed DEF Mine, refreshing, github
<1>10. ASSUME NEW q \in Processes, Crash(q) PROVE Mine(t)'
  BY <1>10 DEF Crash, Mine, refreshing, Idle, Types, github
<1>11. CASE Authorize
  BY <1>1, <1>11 DEF Authorize, Mine
<1>12. CASE Age
  <2>1. keychain'.refresh = keychain.refresh /\ keychain.there
    BY <1>12, Entry DEF Age, Bundles
  <2> QED
    BY <1>12, <2>1 DEF Age, Mine, github
<1>13. CASE saveCredential
  <2>1. ~NoBundle.there
    BY DEF NoBundle
  <2> QED
    BY <1>13, <2>1 DEF saveCredential, deletes, Mine, github
<1>14. CASE UNCHANGED <<github, keychain, caller>>
  BY <1>14 DEF Mine, github
<1> QED
  BY <1>2, <1>3, <1>4, <1>5, <1>6, <1>7, <1>8, <1>9, <1>10, <1>11, <1>12, <1>13, <1>14
  DEF Next, CallerStep, RotateKey, GivesUp, runAppDeviceFlow, saveFails, vars, github

LEMMA ConfStep ==
  ASSUME Types, LockInv, HandInv, ConfInv, KeychainInv, [Next]_vars
  PROVE  ConfInv'
<1>1. CASE conf' = conf /\ ~addCredential
  <2>1. ASSUME NEW t, Mine(t) PROVE Mine(t)'
    BY <1>1, <2>1, MineStep
  <2>2. conf.at = "exchange" => Mine(conf.refresh)'
    BY <1>1, <2>1 DEF ConfInv, Mine
  <2>3. conf.at \in {"save", "add"} => Mine(conf.bundle.refresh)'
    BY <1>1, <2>1 DEF ConfInv, Mine
  <2> QED
    BY <1>1, <2>2, <2>3 DEF ConfInv
<1>2. CASE GivesUp \/ addCredential \/ saveFails
  BY <1>2 DEF GivesUp, addCredential, saveFails, Idle, ConfInv
<1>3. CASE Authorize
  <2>1. issued \in Nat /\ issued' = issued + 1 /\ valid' = valid \cup {issued'}
    BY <1>3 DEF Authorize, Types
  <2>2. /\ keychain'.there => keychain'.refresh \in 0..issued
        /\ \A p \in Callers : caller'[p].at \in refreshing => caller'[p].bundle.refresh \in 0..issued
    BY <1>3 DEF Authorize, KeychainInv, HandInv
  <2>3. Mine(issued)'
    BY <2>1, <2>2 DEF Mine
  <2>4. conf'.at = "exchange" /\ conf'.refresh = issued'
    BY <1>3 DEF Authorize
  <2> QED
    BY <2>3, <2>4 DEF ConfInv, Mine
<1>4. CASE runAppDeviceFlow
  <2>1. Mine(conf.refresh)
    BY <1>4 DEF runAppDeviceFlow, ConfInv
  <2>2. /\ conf'.at = "save" /\ conf'.bundle.refresh = conf.refresh
        /\ UNCHANGED <<keychain, github, caller>>
    BY <1>4 DEF runAppDeviceFlow, Bundle
  <2> QED
    BY <2>1, <2>2 DEF ConfInv, Mine, github
<1>5. CASE saveCredential
  <2>1. ~addCredential /\ conf.at = "save"
    BY <1>5 DEF saveCredential, addCredential
  <2>2. Mine(conf.bundle.refresh)
    BY <2>1 DEF ConfInv
  <2>3. conf \in [at : {"save", "add"}, bundle : Bundles]
    BY <2>1 DEF Types, ConfStates, Idle
  <2>4. conf'.at = "add" /\ conf'.bundle = conf.bundle
    BY <1>5, <2>3 DEF saveCredential
  <2>5. ASSUME NEW t, Mine(t) PROVE Mine(t)'
    BY <2>1, <2>5, MineStep
  <2>6. Mine(conf.bundle.refresh)'
    BY <2>2, <2>4, <2>5 DEF Mine
  <2> QED
    BY <2>4, <2>6 DEF ConfInv
<1> QED
  BY <1>1, <1>2, <1>3, <1>4, <1>5
  DEF Next, Request, tryAppOAuthRefresh, EnsureFresh, CallerStep, RefreshGitHubToken,
      storePartial, addPartial, ExchangeHostJWT, storeFinal, addFinal, requestWithCredential,
      Busy, Fails, Crash, RotateKey, Age, vars, history

(* The stored token is GitHub's newest, a Set is under way, or spoiled says   *)
(* that it was lost.                                                          *)
LEMMA KeychainStep ==
  ASSUME Types, LockInv, HandInv, ConfInv, KeychainInv, [Next]_vars
  PROVE  KeychainInv'
<1> USE CredentialAssumption
<1>1. ASSUME NEW p \in Callers, Request(p) \/ tryAppOAuthRefresh(p) PROVE KeychainInv'
  <2>1. UNCHANGED <<github, keychain, conf, spoiled>>
    BY <1>1 DEF Request, tryAppOAuthRefresh
  <2> QED
    BY <1>1, <2>1, Requested DEF KeychainInv, RefreshTokenKept, at, github
<1>2. ASSUME NEW p \in Callers, EnsureFresh(p) PROVE KeychainInv'
  <2>1. UNCHANGED <<github, keychain, conf, spoiled>>
    BY <1>2 DEF EnsureFresh
  <2> QED
    BY <1>2, <2>1, Ensured DEF KeychainInv, RefreshTokenKept, at, github
<1>3. ASSUME NEW p \in Callers, RefreshGitHubToken(p) PROVE KeychainInv'
  <2>1. UNCHANGED <<keychain, conf, spoiled>> /\ issued \in Nat
    BY <1>3 DEF RefreshGitHubToken, history, Types
  <2> QED
    BY <1>3, <2>1, Rotated DEF KeychainInv, RefreshTokenKept, at, github
<1>4. ASSUME NEW p \in Callers, storePartial(p) \/ storeFinal(p) PROVE KeychainInv'
  <2>1. /\ keychain' \in {NoBundle, keychain} /\ UNCHANGED <<github, conf, spoiled>>
        /\ caller'[p].at \in {"addPartial", "addFinal"}
        /\ caller[p].at \in {"rotated", "store"}
        /\ at(p, "rotated") => caller'[p].at = "addPartial"
    BY <1>4, Storing DEF addPartial, storePartial, storeFinal, at
  <2>2. \A q \in Callers \ {p} : caller'[q] = caller[q]
    BY <1>4, Storing
  <2>3. ~NoBundle.there
    BY DEF NoBundle
  <2>4. keychain'.there => keychain' = keychain
    BY <2>1, <2>3
  <2>5. RefreshTokenKept'
    <3>1. CASE keychain'.there /\ ~at(p, "rotated")
      <4>1. keychain.there /\ at(p, "store") /\ keychain' = keychain
        <5>1. keychain' = keychain
          BY <2>4, <3>1
        <5>2. keychain.there
          BY <3>1, <5>1
        <5>3. at(p, "store")
          BY <2>1, <3>1 DEF at
        <5> QED
          BY <5>1, <5>2, <5>3
      <4>2. \/ spoiled \/ keychain.refresh \in valid
            \/ \E q \in Callers \ {p} : caller[q].at \in {"rotated", "addPartial"}
        <5>1. caller[p].at \notin {"rotated", "addPartial"}
          BY <4>1 DEF at
        <5>2. \/ spoiled \/ keychain.refresh \in valid
              \/ \E q \in Callers : caller[q].at \in {"rotated", "addPartial"}
          BY <4>1 DEF KeychainInv, RefreshTokenKept
        <5> QED
          BY <5>1, <5>2
      <4>3. \/ spoiled' \/ keychain'.refresh \in valid'
            \/ \E q \in Callers : caller'[q].at \in {"rotated", "addPartial"}
        BY <2>1, <2>2, <4>1, <4>2 DEF github
      <4> QED
        BY <3>1, <4>3 DEF RefreshTokenKept
    <3>2. CASE ~keychain'.there \/ at(p, "rotated")
      <4>1. \/ caller'[p].at \in {"rotated", "addPartial"}
            \/ ~keychain'.there /\ caller'[p].at = "addFinal"
        BY <2>1, <3>2
      <4> QED
        BY <4>1 DEF RefreshTokenKept, at
    <3> QED
      BY <3>1, <3>2
  <2> QED
    BY <2>1, <2>4, <2>5 DEF KeychainInv, github
<1>5. ASSUME NEW p \in Callers, addPartial(p) PROVE KeychainInv'
  <2>1. UNCHANGED github /\ keychain' = caller[p].bundle /\ keychain' \in Bundles
    BY <1>5, Storing
  <2>2. keychain'.refresh \in valid /\ keychain'.refresh \in 0..issued /\ keychain'.there
    BY <1>5, <2>1 DEF addPartial, HandInv, at, refreshing, Bundles
  <2> QED
    BY <2>1, <2>2 DEF KeychainInv, RefreshTokenKept, github
<1>6. ASSUME NEW p \in Callers, addFinal(p) PROVE KeychainInv'
  <2>1. UNCHANGED github /\ keychain' = caller[p].bundle /\ keychain' \in Bundles
    BY <1>6, StoredFinal DEF addFinal
  <2>2. keychain'.refresh \in valid /\ keychain'.refresh \in 0..issued /\ keychain'.there
    BY <1>6, <2>1 DEF addFinal, HandInv, at, refreshing, Bundles
  <2> QED
    BY <2>1, <2>2 DEF KeychainInv, RefreshTokenKept, github
<1>7. ASSUME NEW p \in Callers, ExchangeHostJWT(p) \/ requestWithCredential(p) \/ Busy(p)
      PROVE  KeychainInv'
  <2>1. UNCHANGED <<github, keychain, conf, spoiled>>
    BY <1>7 DEF ExchangeHostJWT, requestWithCredential, Busy, history
  <2> QED
    BY <1>7, <2>1, Exchanged, Called, Retried DEF KeychainInv, RefreshTokenKept, at, github
<1>8. ASSUME NEW p \in Callers, Fails(p) PROVE KeychainInv'
  <2>1. UNCHANGED <<github, keychain, conf>> /\ spoiled' = (spoiled \/ loses(p))
    BY <1>8 DEF Fails
  <2> QED
    BY <1>8, <2>1, Failed DEF KeychainInv, RefreshTokenKept, loses, at, github
<1>9. ASSUME NEW q \in Processes, Crash(q) PROVE KeychainInv'
  <2> DEFINE its == {p \in Callers : ProcessOf[p] = q}
  <2>1. /\ UNCHANGED <<github, keychain, conf>>
        /\ spoiled' = (spoiled \/ \E p \in its : loses(p))
        /\ \A p \in Callers \ its : caller'[p] = caller[p]
    BY <1>9 DEF Crash
  <2>2. RefreshTokenKept'
    BY <2>1 DEF KeychainInv, RefreshTokenKept, loses, at, github
  <2> QED
    BY <2>1, <2>2 DEF KeychainInv, github
<1>10. CASE saveCredential
  <2>1. /\ keychain' \in {NoBundle, keychain} /\ UNCHANGED <<github, caller, spoiled>>
        /\ conf'.at = "add"
    <3>1. conf \in [at : {"save", "add"}, bundle : Bundles]
      BY <1>10 DEF saveCredential, Types, ConfStates, Idle
    <3> QED
      BY <1>10, <3>1 DEF saveCredential, deletes, history
  <2>2. ~NoBundle.there
    BY DEF NoBundle
  <2>3. keychain'.there => keychain' = keychain
    BY <2>1, <2>2
  <2>4. RefreshTokenKept'
    BY <2>1, <2>3 DEF KeychainInv, RefreshTokenKept, at, github
  <2> QED
    BY <2>1, <2>3, <2>4 DEF KeychainInv, github
<1>11. CASE addCredential
  <2>1. conf.bundle \in Bundles /\ conf.bundle.refresh \in valid
    BY <1>11 DEF addCredential, Types, ConfStates, Idle, ConfInv, Mine
  <2>2. keychain'.refresh \in valid /\ keychain'.there /\ UNCHANGED github /\ valid \subseteq 0..issued
    BY <1>11, <2>1 DEF addCredential, adds, Bundles, Types
  <2> QED
    BY <2>2 DEF KeychainInv, RefreshTokenKept, github
<1>12. CASE saveFails
  <2>1. UNCHANGED <<github, keychain, caller>> /\ spoiled' = (spoiled \/ ~keychain.there)
    BY <1>12 DEF saveFails
  <2> QED
    BY <2>1 DEF KeychainInv, RefreshTokenKept, at, github
<1>13. CASE Authorize
  <2>1. UNCHANGED <<keychain, caller, spoiled>> /\ issued \in Nat /\ issued' = issued + 1
        /\ valid \subseteq valid' /\ conf.at = "idle"
    BY <1>13 DEF Authorize, history, Types, Idle
  <2> QED
    BY <2>1 DEF KeychainInv, RefreshTokenKept, at
<1>14. CASE GivesUp \/ runAppDeviceFlow
  <2>1. UNCHANGED <<github, keychain, caller, spoiled>> /\ conf.at # "add"
    BY <1>14 DEF GivesUp, runAppDeviceFlow, history
  <2> QED
    BY <2>1 DEF KeychainInv, RefreshTokenKept, at, github
<1>15. CASE Age
  <2>1. /\ keychain'.refresh = keychain.refresh /\ keychain.there
        /\ UNCHANGED <<github, caller, spoiled, conf>>
    BY <1>15, Entry DEF Age, Bundles, history
  <2>2. keychain'.there
    BY <1>15, Entry DEF Age, Bundles
  <2> QED
    BY <2>1, <2>2 DEF KeychainInv, RefreshTokenKept, at, github
<1>16. CASE UNCHANGED <<github, keychain, caller, conf, spoiled>>
  BY <1>16 DEF KeychainInv, RefreshTokenKept, at, github
<1> QED
  BY <1>1, <1>2, <1>3, <1>4, <1>5, <1>6, <1>7, <1>8, <1>9, <1>10, <1>11, <1>12, <1>13, <1>14,
     <1>15, <1>16
  DEF Next, CallerStep, RotateKey, vars, github, history

(* A caller has a cause to fail, or has what GitHub and the broker take. *)
LEMMA CauseStep ==
  ASSUME Types, LockInv, HandInv, KeychainInv, CauseInv, [Next]_vars
  PROVE  CauseInv'
<1> USE CredentialAssumption
<1>1. ASSUME NEW p \in Callers, Request(p) \/ tryAppOAuthRefresh(p) PROVE CauseInv'
  <2>1. UNCHANGED <<github, signKey>> /\ troubled' = troubled \ {p}
    BY <1>1 DEF Request, tryAppOAuthRefresh
  <2> QED
    BY <1>1, <2>1, Requested DEF CauseInv, at, github
<1>2. ASSUME NEW p \in Callers, EnsureFresh(p) PROVE CauseInv'
  <2>1. UNCHANGED <<github, signKey>>
    BY <1>2 DEF EnsureFresh
  <2>2. troubled \subseteq troubled' /\ (spoiled => p \in troubled')
    BY <1>2 DEF EnsureFresh
  <2>3. keychain.there => spoiled \/ keychain.refresh \in valid
    BY <1>2, Ensured DEF KeychainInv, RefreshTokenKept, LockInv, refreshing, at
  <2>4. caller[p].force => needs(p)
    BY DEF needs, NeedsRefresh
  <2> QED
    BY <1>2, <2>1, <2>2, <2>3, <2>4, Ensured DEF CauseInv, at, github
<1>3. ASSUME NEW p \in Callers, RefreshGitHubToken(p) PROVE CauseInv'
  <2>1. signKey' = signKey /\ troubled' = troubled
    BY <1>3 DEF RefreshGitHubToken, history
  <2>2. \A q \in Callers \ {p} : ~at(q, "refresh")
    BY <1>3, Rotated DEF LockInv, at, refreshing
  <2> QED
    BY <1>3, <2>1, <2>2, Rotated DEF CauseInv, at
<1>4. ASSUME NEW p \in Callers, storePartial(p) \/ addPartial(p) \/ storeFinal(p) PROVE CauseInv'
  <2>1. UNCHANGED <<github, signKey, troubled>>
    BY <1>4, Storing
  <2>2. /\ caller'[p].bundle = caller[p].bundle
        /\ caller'[p].at \in {"addPartial", "exchange", "addFinal"}
        /\ caller'[p].at = "addFinal" => at(p, "store")
    BY <1>4, Storing DEF at
  <2>3. ASSUME NEW q \in Callers, q # p PROVE caller'[q] = caller[q]
    BY <1>4, <2>3, Storing
  <2> QED
    BY <2>1, <2>2, <2>3 DEF CauseInv, at, github
<1>5. ASSUME NEW p \in Callers, ExchangeHostJWT(p) PROVE CauseInv'
  <2>1. UNCHANGED <<github, signKey, troubled>>
    BY <1>5 DEF ExchangeHostJWT, history
  <2> QED
    BY <1>5, <2>1, Exchanged DEF CauseInv, at, github
<1>6. ASSUME NEW p \in Callers, addFinal(p) PROVE CauseInv'
  <2>1. UNCHANGED <<github, signKey, troubled>>
    BY <1>6 DEF addFinal
  <2> QED
    <3>1. caller'[p].at = "call" /\ p \notin troubled =>
            caller'[p].token.key = signKey /\ caller'[p].token.age = 0
      <4>1. p \notin troubled => caller[p].bundle.jwt.key = signKey /\ caller[p].bundle.jwt.age = 0
        BY <1>6 DEF addFinal, CauseInv, at
      <4> QED
        BY <1>6, <4>1, StoredFinal
    <3>2. caller'[p].at \in {"call", "idle"} /\ \A q \in Callers \ {p} : caller'[q] = caller[q]
      BY <1>6, StoredFinal
    <3> QED
      BY <2>1, <3>1, <3>2 DEF CauseInv, at, github
<1>7. ASSUME NEW p \in Callers, requestWithCredential(p) PROVE CauseInv'
  <2>1. UNCHANGED <<github, signKey, troubled>>
    BY <1>7 DEF requestWithCredential, history
  <2> QED
    BY <1>7, <2>1, Called DEF CauseInv, at, github
<1>8. ASSUME NEW p \in Callers, Busy(p) PROVE CauseInv'
  <2>1. UNCHANGED <<github, signKey>>
    BY <1>8 DEF Busy
  <2> QED
    BY <1>8, <2>1, Retried DEF CauseInv, at, github
<1>9. ASSUME NEW p \in Callers, Fails(p) PROVE CauseInv'
  <2>1. UNCHANGED <<github, signKey>> /\ troubled' = troubled \cup {p}
    BY <1>9 DEF Fails
  <2> QED
    BY <1>9, <2>1, Failed DEF CauseInv, at, github
<1>10. ASSUME NEW q \in Processes, Crash(q) PROVE CauseInv'
  <2>1. /\ UNCHANGED <<github, signKey>> /\ troubled \subseteq troubled'
        /\ \A p \in Callers \ troubled' : caller'[p] = caller[p]
    BY <1>10 DEF Crash
  <2> QED
    BY <2>1 DEF CauseInv, at, github
<1>11. CASE RotateKey
  <2>1. /\ UNCHANGED <<github, caller>> /\ troubled \subseteq troubled'
        /\ \A p \in Callers \ troubled' : at(p, "idle")
    BY <1>11 DEF RotateKey
  <2> QED
    BY <2>1 DEF CauseInv, at, github
<1>12. CASE Authorize
  <2>1. UNCHANGED <<signKey, caller, troubled>> /\ valid \subseteq valid'
    BY <1>12 DEF Authorize, history
  <2> QED
    BY <2>1 DEF CauseInv, at
<1>13. CASE UNCHANGED <<github, signKey, caller, troubled>>
  BY <1>13 DEF CauseInv, at, github
<1> QED
  BY <1>1, <1>2, <1>3, <1>4, <1>5, <1>6, <1>7, <1>8, <1>9, <1>10, <1>11, <1>12, <1>13
  DEF Next, CallerStep, Age, GivesUp, runAppDeviceFlow, saveCredential, addCredential,
      saveFails, vars, github, history

-----------------------------------------------------------------------------
(* The inductive invariant holds of every credential.                         *)
THEOREM Invariance == Spec => []IInv
<1>1. IInv /\ [Next]_vars => IInv'
  BY TypesStep, LockStep, HandStep, ConfStep, KeychainStep, CauseStep DEF IInv
<1> QED
  BY InitInv, <1>1, PTL DEF Spec

(* manager.go:100: whoever refreshes holds credential.refresh.lock, and the    *)
(* keychain and GitHub keep their types.                                      *)
THEOREM TypeCorrect == Spec => []TypeOK
<1>1. IInv => TypeOK
  <2> SUFFICES ASSUME IInv PROVE TypeOK
    OBVIOUS
  <2>1. keychain = NoBundle \/ keychain \in [there : {TRUE}, jwt : JWTs, refresh : 0..issued]
    BY DEF IInv, Types, KeychainInv, Bundles
  <2> QED
    BY <2>1 DEF IInv, Types, LockInv, TypeOK
<1> QED
  BY <1>1, Invariance, PTL

(* manager.go:128-152, darwin.go:30: whatever refreshes, Sets, failures,       *)
(* crashes and device logins interleave, the entry is there and its refresh    *)
(* token is one that GitHub takes, but while a Set is under way and after an   *)
(* interruption that lost it.                                                  *)
THEOREM NewestTokenStored == Spec => []RefreshTokenKept
<1>1. IInv => RefreshTokenKept
  BY DEF IInv, KeychainInv
<1> QED
  BY <1>1, Invariance, PTL

(* manager.go:110: no caller spends the JWT of another runner group.           *)
THEOREM OwnTargetOnly == Spec => []TokenIsForTarget
<1>1. IInv => TokenIsForTarget
  BY DEF IInv, HandInv, TokenIsForTarget
<1> QED
  BY <1>1, Invariance, PTL

(* A step that ends a request of a caller without a cause to fail is the       *)
(* broker's answer, or the store at the end of a forced refresh.               *)
LEMMA EndsWell ==
  ASSUME IInv, [Next]_vars, NEW p \in Callers, ~at(p, "idle"), at(p, "idle")', p \notin troubled'
  PROVE  \/ at(p, "call") /\ status(p) = 200
         \/ at(p, "addFinal") /\ ~caller[p].calls
<1> USE CredentialAssumption
<1>1. Types /\ caller'[p] # caller[p]
  BY DEF IInv, at
<1>2. CauseInv /\ HandInv /\ KeychainInv /\ LockInv
  BY DEF IInv
<1>3. ASSUME NEW q \in Callers, Request(q) \/ tryAppOAuthRefresh(q) PROVE FALSE
  BY <1>1, <1>3, Requested DEF at
<1>4. ASSUME NEW q \in Callers, EnsureFresh(q) PROVE FALSE
  <2>1. q = p /\ at(p, "want") /\ refresher = None
    BY <1>1, <1>4, Ensured DEF at
  <2>2. p \notin troubled /\ ~spoiled /\ conf.at # "add"
    BY <1>4, <2>1 DEF EnsureFresh
  <2>3. keychain.there
    BY <1>2, <2>1, <2>2 DEF KeychainInv, RefreshTokenKept, LockInv, refreshing, at
  <2>4. ~needs(p) /\ ~caller[p].calls
    BY <1>1, <1>4, <2>1, <2>3, Ensured DEF at
  <2> QED
    BY <1>2, <2>1, <2>2, <2>4 DEF CauseInv, needs, NeedsRefresh
<1>5. ASSUME NEW q \in Callers, RefreshGitHubToken(q) PROVE FALSE
  <2>1. q = p /\ at(p, "refresh") /\ caller[p].bundle.refresh \notin valid
    BY <1>1, <1>5, Rotated DEF at
  <2>2. p \notin troubled
    BY <1>5 DEF RefreshGitHubToken, history
  <2> QED
    BY <1>2, <2>1, <2>2 DEF CauseInv
<1>6. ASSUME NEW q \in Callers,
             storePartial(q) \/ addPartial(q) \/ ExchangeHostJWT(q) \/ storeFinal(q)
      PROVE  FALSE
  BY <1>1, <1>6, Storing, Exchanged DEF at
<1>7. ASSUME NEW q \in Callers, addFinal(q) PROVE at(p, "addFinal") /\ ~caller[p].calls
  BY <1>1, <1>7, StoredFinal DEF at
<1>8. ASSUME NEW q \in Callers, requestWithCredential(q) PROVE at(p, "call") /\ status(p) = 200
  <2>1. q = p /\ at(p, "call") /\ ~(status(p) = 401 /\ ~caller[p].force)
    BY <1>1, <1>8, Called DEF at
  <2>2. p \notin troubled
    BY <1>8 DEF requestWithCredential, history
  <2>3. caller[p].force => caller[p].token.key = signKey /\ caller[p].token.age = 0
    BY <1>2, <2>1, <2>2 DEF CauseInv
  <2>4. caller[p].token.target = caller[p].target
    BY <1>2, <2>1 DEF HandInv
  <2> QED
    BY <2>1, <2>3, <2>4 DEF status
<1>9. ASSUME NEW q \in Callers, Busy(q) PROVE FALSE
  BY <1>1, <1>9, Retried DEF at
<1>10. ASSUME NEW q \in Callers, Fails(q) PROVE FALSE
  BY <1>1, <1>10, Failed DEF Fails
<1>11. ASSUME NEW q \in Processes, Crash(q) PROVE FALSE
  BY <1>1, <1>11 DEF Crash
<1>12. caller' # caller
  BY <1>1
<1> QED
  BY <1>3, <1>4, <1>5, <1>6, <1>7, <1>8, <1>9, <1>10, <1>11, <1>12
  DEF Next, CallerStep, RotateKey, Age, Authorize, GivesUp, runAppDeviceFlow,
      saveCredential, addCredential, saveFails, vars

(* broker_credential.go, manager.go: a request fails only for one of the six   *)
(* causes that troubled records.                                               *)
THEOREM NoFailureWithoutCause == Spec => FailsOnlyForCause
<1>1. IInv /\ [Next]_vars =>
        [\A p \in Callers :
           (~at(p, "idle") /\ at(p, "idle")')
              => \/ at(p, "call") /\ status(p) = 200
                 \/ at(p, "addFinal") /\ ~caller[p].calls
                 \/ p \in troubled']_vars
  BY EndsWell
<1> QED
  BY <1>1, Invariance, PTL DEF Spec, FailsOnlyForCause
=============================================================================
